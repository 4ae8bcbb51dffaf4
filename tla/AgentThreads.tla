---------------------------- MODULE AgentThreads -----------------------------
(***************************************************************************)
(* The threads of the portal's default executor, of which every connected  *)
(* agent occupies one: the message loop of a connection waits for the next *)
(* outbound message in a thread (asyncio.to_thread, wait_for_outbound_     *)
(* message), and a thread that waits can only be ended by a message, never *)
(* cancelled.  AgentLink gives each connection its thread; this module is  *)
(* about whether it gets one.                                              *)
(*                                                                         *)
(* A session is a connection with its queue; the name of one that has      *)
(* ended is used for a later one when nothing refers to it any more.       *)
(***************************************************************************)
EXTENDS Naturals, FiniteSets, Sequences, SequencesExt

CONSTANTS
    Sessions,   \* sessions there may be at a time, ended ones included
    Threads,    \* max_workers of the default executor
    MaxLive     \* agents that are connected at a time

\* What the portal silently relies on: min(32, cpus + 4) threads for its agents.
EnoughThreads ==
    /\ IsFiniteSet(Sessions)
    /\ Threads \in Nat /\ MaxLive \in Nat /\ MaxLive <= Threads

VARIABLES
    live,       \* sessions whose message loop runs
    ended,      \* closed sessions whose thread may still wait
    line,       \* calls of wait_for_outbound_message that have no thread yet
    running,    \* calls that have one
    box,        \* the queue of each session: commands, and the end behind them
    taken       \* sessions whose loop has a message to send

vars == <<live, ended, line, running, box, taken>>

TypeOK ==
    /\ live \subseteq Sessions /\ ended \subseteq Sessions /\ live \intersect ended = {}
    /\ line \in Seq(Sessions)
    /\ running \subseteq Sessions /\ Cardinality(running) <= Threads
    /\ box \in [Sessions -> Seq({"command", "end"})]
    /\ taken \subseteq live

Init ==
    /\ live = {} /\ ended = {} /\ line = <<>> /\ running = {} /\ taken = {}
    /\ box = [s \in Sessions |-> <<>>]

\* Faulty forms of definitions below, each what a plausible bug would make of it.
\* The specification uses none of them: they show that the properties notice.
NoEnd(q) == q

-----------------------------------------------------------------------------
\* A thread of the executor is idle.
ThreadFree == Cardinality(running) < Threads

\* An agent is accepted; its loop asks for a thread at once.
Connect(s) ==
    /\ s \notin live \union ended
    /\ Cardinality(live) < MaxLive
    /\ live' = live \union {s}
    /\ line' = Append(line, s)
    /\ box' = [box EXCEPT ![s] = <<>>]
    /\ UNCHANGED <<ended, running, taken>>

\* The executor gives the call that has waited longest a thread.
StartCall ==
    /\ line # <<>> /\ ThreadFree
    /\ running' = running \union {Head(line)}
    /\ line' = Tail(line)
    /\ UNCHANGED <<live, ended, box, taken>>

\* A request thread hands over a command (bound: one is in the queue at a time).
Dispatch(s) ==
    /\ s \in live /\ box[s] = <<>>
    /\ box' = [box EXCEPT ![s] = <<"command">>]
    /\ UNCHANGED <<live, ended, line, running, taken>>

\* The call in the thread returns what it got; no one waits for that of a session
\* that has ended.
CallReturns(s) ==
    /\ s \in running /\ box[s] # <<>>
    /\ box' = [box EXCEPT ![s] = Tail(@)]
    /\ running' = running \ {s}
    /\ taken' = IF s \in live THEN taken \union {s} ELSE taken
    /\ UNCHANGED <<live, ended, line>>

\* The loop sends the message and asks for a thread again.
SendMessage(s) ==
    /\ s \in taken
    /\ taken' = taken \ {s}
    /\ line' = Append(line, s)
    /\ UNCHANGED <<live, ended, running, box>>

\* What close() makes of the queue.
Closed(q) == Append(q, "end")

\* The connection ends, or another takes its place: close() marks the end of the
\* queue, and cancelling the task withdraws a call that has no thread yet.
Disconnect(s) ==
    /\ s \in live
    /\ live' = live \ {s}
    /\ ended' = ended \union {s}
    /\ taken' = taken \ {s}
    /\ line' = Remove(line, s)
    /\ box' = [box EXCEPT ![s] = Closed(@)]
    /\ UNCHANGED running

\* Nothing refers to the session any more.
Forget(s) ==
    /\ s \in ended \ running
    /\ ended' = ended \ {s}
    /\ UNCHANGED <<live, line, running, box, taken>>

Next ==
    \/ StartCall
    \/ \E s \in Sessions :
           Connect(s) \/ Dispatch(s) \/ CallReturns(s) \/ SendMessage(s) \/ Disconnect(s)
           \/ Forget(s)

\* The executor and its threads run, and so does the loop of each connection.
Fairness ==
    /\ WF_vars(StartCall)
    /\ \A s \in Sessions : WF_vars(CallReturns(s)) /\ WF_vars(SendMessage(s))

Spec == Init /\ [][Next]_vars /\ Fairness

-----------------------------------------------------------------------------
\* A command for a connected agent is taken from its queue, or the agent leaves,
\* however often agents reconnect: the threads of ended sessions come back, and none
\* is taken twice by one session (AgentSession.close, _message_loop).
CommandsMove == \A s \in Sessions :
    s \in live /\ box[s] # <<>> ~> s \notin live \/ box[s] = <<>>
=============================================================================
