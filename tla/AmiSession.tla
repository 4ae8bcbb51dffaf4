----------------------------- MODULE AmiSession ------------------------------
(***************************************************************************)
(* One connection of the PBX agent to the manager interface of its         *)
(* Asterisk: the client (AsteriskAMIClient) and its two users, the         *)
(* collection of telemetry and the execution of one live command.          *)
(*                                                                         *)
(* The client writes one action at a time and reads messages until the     *)
(* answer is complete.  Messages that carry the ActionID of another action *)
(* are skipped, messages that carry none are taken for the answer's.  Each *)
(* read but that of the greeting has a time-out of its own.                *)
(*                                                                         *)
(* Asterisk is external: it answers actions in order and may put messages  *)
(* without an ActionID between others (FullyBooted, for one).  What it     *)
(* sends is in "wire" from the moment it is determined, and arrives when   *)
(* it is read: a message that is late shows as a time-out.                 *)
(***************************************************************************)
EXTENDS AmiState, SequencesExt

link == <<wire, broken>>
vars == <<pc, job, turn, link, got, answers, failed, result, said, extra>>

Init ==
    /\ pc = "idle" /\ job \in Jobs /\ turn = 0
    /\ wire = <<>> /\ broken = FALSE
    /\ got = <<>> /\ answers = <<>> /\ failed = FALSE
    /\ result = Unfinished
    /\ said = <<>> /\ extra = 0

\* Faulty forms of definitions below, each what a plausible bug would make of it.
\* The specification uses none of them: they show that the properties notice.
FirstResponse(kind, m) == m.kind = "response"
TimedUntilLogoff == {"login", "acting"}

-----------------------------------------------------------------------------
\* What Asterisk says to an action of this kind and id when it lists the set s.
Answer(kind, id, s) ==
    LET list == SetToSeq(s)
    IN  IF kind = "plain" THEN <<Plain(id, "response")>>
        ELSE <<Plain(id, "response")>>
             \o [i \in DOMAIN list |-> [id |-> id, kind |-> "item", item |-> list[i]]]
             \o <<Plain(id, "complete")>>

\* The client writes an action when "left" is still to be read.  Asterisk carries
\* it out and answers, answers and is interrupted, refuses it, or says nothing.
Send(kind, left, counted) ==
    /\ turn' = turn + 1
    /\ got' = <<>>
    /\ \/ /\ wire' \in {left, Append(left, Plain(turn + 1, "error"))}
          /\ UNCHANGED said
       \/ \E s \in IF kind = "list" THEN SUBSET Items ELSE {{}} :
              /\ \E n \in 0..Len(Answer(kind, turn + 1, s)) :
                     wire' = left \o SubSeq(Answer(kind, turn + 1, s), 1, n)
              /\ said' = IF counted THEN Append(said, s) ELSE said

\* The entries that the parsers make of an answer: one for each event of the list.
Part(messages) == {m.item : m \in {n \in Range(messages) : n.kind = "item"}}

\* What the session ends with: all its answers, or the error and empty lists.
Outcome(ok) ==
    [job |-> job, ok |-> ok,
     parts |-> IF ok THEN [i \in DOMAIN answers |-> Part(answers[i])] ELSE <<>>]

\* The collector or the executor hands its outcome over.
Deliver(ok) ==
    /\ pc' = "idle"
    /\ result' = Outcome(ok)
    /\ UNCHANGED <<job, turn, link, got, answers, failed, said, extra>>

\* The block is left, by an exception or at its end: __aexit__ writes a Logoff.
EnterClose(exception, left) ==
    /\ pc' = "logoff"
    /\ failed' = exception
    /\ Send("plain", left, FALSE)

\* An exception: in connect, __aexit__ is not called; in the block, it is; in the
\* Logoff, it is ignored.
Raise(left) ==
    \/ /\ pc \in {"greeting", "login"}
       /\ Deliver(FALSE)
    \/ /\ pc = "acting"
       /\ EnterClose(TRUE, left)
       /\ UNCHANGED <<job, broken, answers, result, extra>>
    \/ /\ pc = "logoff"
       /\ pc' = "closing"
       /\ UNCHANGED <<job, turn, link, got, answers, failed, result, said, extra>>

-----------------------------------------------------------------------------
\* A session begins.
Begin(new) ==
    /\ pc = "idle"
    /\ job' = new
    /\ broken' = FALSE
    /\ turn' = 0 /\ got' = <<>> /\ answers' = <<>> /\ failed' = FALSE
    /\ said' = <<>> /\ extra' = 0

\* The credentials are there and the connection is opened: a greeting will come,
Open == \E new \in Jobs :
    /\ Begin(new)
    /\ pc' = "greeting"
    /\ wire' = <<Plain(NoId, "event")>>
    /\ result' = Unfinished

\* or there is no username or secret, or Asterisk does not accept it in time.
OpenFails == \E new \in Jobs :
    /\ Begin(new)
    /\ wire' = <<>>
    /\ result' = [job |-> new, ok |-> FALSE, parts |-> <<>>]
    /\ UNCHANGED pc

\* The greeting is read, whatever it says, and the login is written.
ReadGreeting ==
    /\ pc = "greeting" /\ ~broken
    /\ pc' = "login"
    /\ Send("plain", Tail(wire), FALSE)
    /\ UNCHANGED <<job, broken, answers, failed, result, extra>>

\* The messages of the action under way, and those without an ActionID.
Mine(m) == m.id \in {NoId, turn}

\* The message that completes an answer.
Completes(kind, m) == IF kind = "list" THEN m.kind = "complete" ELSE m.kind = "response"

Awaited == IF pc = "acting" THEN Script[job][Len(answers) + 1] ELSE "plain"

Reading == pc \in {"login", "acting", "logoff"} /\ ~broken /\ wire # <<>>

\* A message of another action is read over.
Skip ==
    /\ Reading /\ ~Mine(Head(wire))
    /\ wire' = Tail(wire)
    /\ UNCHANGED <<pc, job, turn, broken, got, answers, failed, result, said, extra>>

\* A message that does not complete the answer is kept.
Gather ==
    /\ Reading
    /\ LET m == Head(wire)
       IN  Mine(m) /\ m.kind # "error" /\ ~Completes(Awaited, m)
    /\ got' = Append(got, Head(wire))
    /\ wire' = Tail(wire)
    /\ UNCHANGED <<pc, job, turn, broken, answers, failed, result, said, extra>>

Complete == Reading /\ Mine(Head(wire)) /\ Completes(Awaited, Head(wire))

\* The next action of the job is written, or the block ends and with it the session.
Advance(done) ==
    /\ answers' = done
    /\ IF Len(done) < Len(Script[job])
       THEN /\ pc' = "acting"
            /\ Send(Script[job][Len(done) + 1], Tail(wire), TRUE)
            /\ UNCHANGED failed
       ELSE EnterClose(FALSE, Tail(wire))
    /\ UNCHANGED <<job, broken, result, extra>>

\* The login is judged by the first message that was gathered, an event or not.
LoggedIn == pc = "login" /\ Complete /\ got = <<>> /\ Advance(<<>>)

LoginNotRecognised == pc = "login" /\ Complete /\ got # <<>> /\ Raise(Tail(wire))

Answered == pc = "acting" /\ Complete /\ Advance(Append(answers, Append(got, Head(wire))))

\* The Logoff was answered.
LoggedOff ==
    /\ pc = "logoff" /\ Complete
    /\ pc' = "closing"
    /\ UNCHANGED <<job, turn, link, got, answers, failed, result, said, extra>>

\* Asterisk answers that the action failed.
Refused ==
    /\ Reading /\ Mine(Head(wire)) /\ Head(wire).kind = "error"
    /\ Raise(Tail(wire))

\* The reads that are given up after timeout_seconds.
Timed == {"login", "acting", "logoff"}

TimeOut == pc \in Timed /\ Raise(wire)

\* The stream ends while the client reads.
ReadFails == broken /\ Raise(wire)

\* wait_closed: of a broken connection it may raise, as the block itself would.
Close ==
    /\ pc = "closing"
    /\ \/ Deliver(~failed)
       \/ broken /\ Deliver(FALSE)

\* External: the connection breaks, or Asterisk says something unasked.
BreakLink ==
    /\ pc # "idle" /\ ~broken
    /\ broken' = TRUE
    /\ UNCHANGED <<pc, job, turn, wire, got, answers, failed, result, said, extra>>

Unsolicited ==
    /\ pc \in {"login", "acting", "logoff"} /\ ~broken /\ extra < MaxExtra
    /\ wire' = <<Plain(NoId, "event")>> \o wire
    /\ extra' = extra + 1
    /\ UNCHANGED <<pc, job, turn, broken, got, answers, failed, result, said>>

Client ==
    \/ ReadGreeting \/ Skip \/ Gather
    \/ LoggedIn \/ LoginNotRecognised \/ Answered \/ LoggedOff \/ Refused
    \/ TimeOut \/ ReadFails \/ Close

Next == Open \/ OpenFails \/ Client \/ BreakLink \/ Unsolicited

SafeSpec == Init /\ [][Next]_vars

\* The event loop runs the client, its time-outs expire; the greeting, whose read
\* has no time-out, comes or the connection ends.  No one has to begin a session.
Spec == SafeSpec /\ WF_vars(Client)

-----------------------------------------------------------------------------
\* A session ends, whatever Asterisk leaves unsaid after its greeting: the telemetry
\* loop reports again and the control loop takes its next command (action, close).
SessionEnds == pc # "idle" ~> pc = "idle"
=============================================================================
