----------------------------- MODULE AgentLink -----------------------------
(***************************************************************************)
(* The link between the portal and the PBX agents: request threads that    *)
(* dispatch a live command and wait for its result, one AgentSession per   *)
(* WebSocket connection with an outbound queue and a table of pending      *)
(* futures, the AgentConnectionRegistry that knows each location's current *)
(* session, the ASGI message loop of each connection, and the agent.       *)
(*                                                                         *)
(* Three kinds of thread run in the portal.  A request thread runs         *)
(* _dispatch_pending_result.  A worker thread of asyncio.to_thread blocks  *)
(* in wait_for_outbound_message.  All message loops share the one event    *)
(* loop thread: what a loop does between two awaits is interleaved with    *)
(* the other threads, never with another loop, and "owner" is the          *)
(* connection whose coroutine is in the middle of such a stretch.          *)
(*                                                                         *)
(* A session is identified with its connection, a future and the message   *)
(* that carries its id with the request (uuid4 ids are distinct).          *)
(***************************************************************************)
EXTENDS Naturals, Sequences

CONSTANTS
    Locations, Requests, Conns,
    LocationOf,      \* the location a connection's credentials belong to
    TargetOf,        \* the location a request is addressed to
    ControlConns,    \* connections of run_agent_control_loop; the others are
                     \* the one-report connections of websocket_json_exchange
    NoConn, NoItem,
    CloseSentinel,   \* AgentSession._CLOSE_SENTINEL
    Reply, Report    \* an ack or error frame; a telemetry or config report

ASSUME ConstantsAssumption ==
    /\ LocationOf \in [Conns -> Locations]
    /\ TargetOf \in [Requests -> Locations]
    /\ ControlConns \subseteq Conns
    /\ NoConn \notin Conns
    /\ \A x \in {NoItem, CloseSentinel, Reply, Report} : x \notin Requests
    /\ NoItem # CloseSentinel

VARIABLES
    registry,   \* _sessions_by_location_id
    closed,     \* AgentSession._closed
    pending,    \* the keys of AgentSession._pending_results
    outbound,   \* AgentSession._outbound_messages
    future,     \* the state of the request's Future
    pc,         \* where the request thread is
    session,    \* the session the request thread looked up
    outcome,    \* how the dispatch ended for its caller
    phase,      \* where the connection's coroutine is
    outTask,    \* the to_thread(wait_for_outbound_message) task
    outItem,    \* what that task returned
    outDone,    \* outbound_task was in "done" when the loop last woke
    owner,      \* the coroutine that holds the event loop thread
    step,       \* where "owner" is in AgentSession.close()
    target,     \* the session being closed
    left,       \* futures taken out of a pending table, not yet completed
    link,       \* the TCP connection
    toAgent, toPortal,   \* frames in flight
    agent, job,          \* the agent's end of the connection
    executed    \* requests some agent has handed to its executor

sessionVars == <<closed, pending, outbound>>
callVars    == <<future, pc, session, outcome>>
loopVars    == <<phase, outTask, outItem, outDone, owner, step, target, left>>
wireVars    == <<link, toAgent, toPortal>>
agentVars   == <<agent, job, executed>>
vars == <<registry, sessionVars, callVars, loopVars, wireVars, agentVars>>

ConnOrNone == Conns \union {NoConn}
Items      == Requests \union {CloseSentinel}

\* The phases in which a coroutine holds the event loop thread, and those
\* between register() and unregister().
HoldingPhases == {"replacing", "resolving", "leaving", "unregistering",
                  "dropping"}
ServingPhases == {"serving", "saving", "replying", "sending"}

TypeOK ==
    /\ registry \in [Locations -> ConnOrNone]
    /\ closed \in [Conns -> BOOLEAN]
    /\ pending \in [Conns -> SUBSET Requests]
    /\ outbound \in [Conns -> Seq(Items)]
    /\ future \in [Requests -> {"pending", "result", "exception"}]
    /\ pc \in [Requests -> {"start", "found", "registered", "waiting",
                            "expired", "done"}]
    /\ session \in [Requests -> ConnOrNone]
    /\ outcome \in [Requests -> {"none", "ok", "unavailable", "timeout"}]
    /\ phase \in [Conns -> {"offline", "accepted", "gone"}
                              \union HoldingPhases \union ServingPhases]
    /\ outTask \in [Conns -> {"none", "getting", "done"}]
    /\ outItem \in [Conns -> Items \union {NoItem}]
    /\ outDone \in [Conns -> BOOLEAN]
    /\ owner \in ConnOrNone
    /\ step \in {"idle", "mark", "fail"}
    /\ target \in ConnOrNone
    /\ left \in SUBSET Requests
    /\ link \in [Conns -> {"none", "up", "down"}]
    /\ toAgent \in [Conns -> Seq(Requests \union {Reply})]
    /\ toPortal \in [Conns -> Seq(Requests \union {Report})]
    /\ agent \in [Conns -> {"off", "idle", "busy"}]
    /\ job \in [Conns -> Requests \union {NoItem}]
    /\ \A c \in Conns : agent[c] = "busy" => job[c] # NoItem
    /\ executed \in SUBSET Requests

Init ==
    /\ registry = [l \in Locations |-> NoConn]
    /\ closed = [c \in Conns |-> FALSE]
    /\ pending = [c \in Conns |-> {}]
    /\ outbound = [c \in Conns |-> <<>>]
    /\ future = [r \in Requests |-> "pending"]
    /\ pc = [r \in Requests |-> "start"]
    /\ session = [r \in Requests |-> NoConn]
    /\ outcome = [r \in Requests |-> "none"]
    /\ phase = [c \in Conns |-> "offline"]
    /\ outTask = [c \in Conns |-> "none"]
    /\ outItem = [c \in Conns |-> NoItem]
    /\ outDone = [c \in Conns |-> FALSE]
    /\ owner = NoConn /\ step = "idle" /\ target = NoConn /\ left = {}
    /\ link = [c \in Conns |-> "none"]
    /\ toAgent = [c \in Conns |-> <<>>]
    /\ toPortal = [c \in Conns |-> <<>>]
    /\ agent = [c \in Conns |-> "off"]
    /\ job = [c \in Conns |-> NoItem]
    /\ executed = {}

-----------------------------------------------------------------------------
(* Faulty forms of the operators below, each what a plausible bug would    *)
(* make of it.  The specification uses none of them: they show that the    *)
(* properties would notice.                                                *)

\* A closed session takes requests; unregister() pops whatever is there.
AlwaysAccepting(c) == TRUE
TakenForHeld(c)    == TRUE

\* A result goes to whoever asked last; get() for pop(); close() forgets them.
LastAsked(c)  == IF pending[c] \ {Head(toPortal[c])} = {} THEN Head(toPortal[c])
                 ELSE CHOOSE r \in pending[c] \ {Head(toPortal[c])} : TRUE
Kept(c, r)    == pending
NoWaiters(c)  == {}

\* close() puts its sentinel first; the loop never takes from the queue, never gives
\* the thread back, or sends the same message again; a failure is an answer;
\* an agent forgets what it is working on.
SentinelFirst(q)      == <<CloseSentinel>> \o q
ServeUnheard(c)       == /\ phase' = [phase EXCEPT ![c] = "serving"]
                         /\ outTask' = outTask
                         /\ owner' = NoConn
ServeHolding(c)       == /\ phase' = [phase EXCEPT ![c] = "serving"]
                         /\ outTask' = [outTask EXCEPT ![c] = "getting"]
                         /\ owner' = c
AwaitSame(c)          == UNCHANGED <<outTask, outItem>>
ReturnOk(r, how)      == /\ pc' = [pc EXCEPT ![r] = "done"]
                         /\ outcome' = [outcome EXCEPT ![r] = "ok"]
ForgetJob(c, next)    == /\ agent' = agent
                         /\ job' = [job EXCEPT ![c] = NoItem]

-----------------------------------------------------------------------------
(* What the actions read and write.                                        *)

\* The session a request finds, and whether it takes requests.
SessionFor(r) == registry[TargetOf[r]]
Accepting(c)  == ~closed[c]

\* The registry once c is registered, and whether it still holds c.
Registered(c) == [registry EXCEPT ![LocationOf[c]] = c]
StillHeld(c)  == registry[LocationOf[c]] = c

\* The request that an incoming result names.
ResultId(c) == Head(toPortal[c])

\* A session's table without r, and what close() takes out of it.
Without(c, r) == [pending EXCEPT ![c] = @ \ {r}]
Waiters(c)    == pending[c]

EndOfQueue(q) == Append(q, CloseSentinel)

\* _message_loop creates its two tasks and awaits them.
StartServing(c) == /\ phase' = [phase EXCEPT ![c] = "serving"]
                   /\ outTask' = [outTask EXCEPT ![c] = "getting"]
                   /\ owner' = NoConn

\* It has used the outbound task's message and creates the next task.
AwaitNext(c) == /\ outTask' = [outTask EXCEPT ![c] = "getting"]
                /\ outItem' = [outItem EXCEPT ![c] = NoItem]

\* The agent has no command in hand any more.
EndJob(c, next) == /\ agent' = [agent EXCEPT ![c] = next]
                   /\ job' = [job EXCEPT ![c] = NoItem]

-----------------------------------------------------------------------------
(* A request thread: AgentConnectionRegistry.dispatch and                  *)
(* AgentSession._dispatch_pending_result.                                  *)

Return(r, how) == /\ pc' = [pc EXCEPT ![r] = "done"]
                  /\ outcome' = [outcome EXCEPT ![r] = how]

LookupMissing(r) ==
    /\ pc[r] = "start"
    /\ SessionFor(r) = NoConn
    /\ Return(r, "unavailable")
    /\ UNCHANGED <<registry, sessionVars, future, session, loopVars, wireVars,
                   agentVars>>

LookupFound(r) ==
    /\ pc[r] = "start"
    /\ SessionFor(r) # NoConn
    /\ session' = [session EXCEPT ![r] = SessionFor(r)]
    /\ pc' = [pc EXCEPT ![r] = "found"]
    /\ UNCHANGED <<registry, sessionVars, future, outcome, loopVars, wireVars,
                   agentVars>>

RefuseClosed(r) ==
    /\ pc[r] = "found"
    /\ ~Accepting(session[r])
    /\ Return(r, "unavailable")
    /\ UNCHANGED <<registry, sessionVars, future, session, loopVars, wireVars,
                   agentVars>>

AddPending(r) ==
    /\ pc[r] = "found"
    /\ Accepting(session[r])
    /\ pending' = [pending EXCEPT ![session[r]] = @ \union {r}]
    /\ pc' = [pc EXCEPT ![r] = "registered"]
    /\ UNCHANGED <<registry, closed, outbound, future, session, outcome,
                   loopVars, wireVars, agentVars>>

\* The put is outside the lock: the session may be closed in between.
PutMessage(r) ==
    /\ pc[r] = "registered"
    /\ outbound' = [outbound EXCEPT ![session[r]] = Append(@, r)]
    /\ pc' = [pc EXCEPT ![r] = "waiting"]
    /\ UNCHANGED <<registry, closed, pending, future, session, outcome,
                   loopVars, wireVars, agentVars>>

TakeResult(r) ==
    /\ pc[r] = "waiting"
    /\ future[r] = "result"
    /\ Return(r, "ok")
    /\ UNCHANGED <<registry, sessionVars, future, session, loopVars, wireVars,
                   agentVars>>

TakeException(r) ==
    /\ pc[r] = "waiting"
    /\ future[r] = "exception"
    /\ Return(r, "unavailable")
    /\ UNCHANGED <<registry, sessionVars, future, session, loopVars, wireVars,
                   agentVars>>

\* Future.result(timeout) gives up; the entry is removed later, under the lock.
WaitExpires(r) ==
    /\ pc[r] = "waiting"
    /\ future[r] = "pending"
    /\ pc' = [pc EXCEPT ![r] = "expired"]
    /\ UNCHANGED <<registry, sessionVars, future, session, outcome, loopVars,
                   wireVars, agentVars>>

ForgetPending(r) ==
    /\ pc[r] = "expired"
    /\ pending' = Without(session[r], r)
    /\ Return(r, "timeout")
    /\ UNCHANGED <<registry, closed, outbound, future, session, loopVars,
                   wireVars, agentVars>>

-----------------------------------------------------------------------------
(* The worker thread of a connection: wait_for_outbound_message.           *)

GetOutbound(c) ==
    /\ outTask[c] = "getting"
    /\ outbound[c] # <<>>
    /\ outTask' = [outTask EXCEPT ![c] = "done"]
    /\ outItem' = [outItem EXCEPT ![c] = Head(outbound[c])]
    /\ outbound' = [outbound EXCEPT ![c] = Tail(@)]
    /\ UNCHANGED <<registry, closed, pending, callVars, phase, outDone, owner,
                   step, target, left, wireVars, agentVars>>

-----------------------------------------------------------------------------
(* The coroutine of a connection: AgentWebSocketApplication.__call__.      *)

\* The handshake, with credentials that authenticate_agent accepts.  A
\* one-report client writes its report at once.
Connect(c) ==
    /\ owner = NoConn
    /\ phase[c] = "offline"
    /\ phase' = [phase EXCEPT ![c] = "accepted"]
    /\ link' = [link EXCEPT ![c] = "up"]
    /\ agent' = [agent EXCEPT ![c] = "idle"]
    /\ toPortal' = [toPortal EXCEPT
                        ![c] = IF c \in ControlConns THEN @ ELSE <<Report>>]
    /\ UNCHANGED <<registry, sessionVars, callVars, outTask, outItem, outDone,
                   owner, step, target, left, toAgent, job, executed>>

\* Sending accept or agent_authenticated raises: nothing is registered yet.
AcceptFails(c) ==
    /\ owner = NoConn
    /\ phase[c] = "accepted"
    /\ link[c] = "down"
    /\ phase' = [phase EXCEPT ![c] = "gone"]
    /\ UNCHANGED <<registry, sessionVars, callVars, outTask, outItem, outDone,
                   owner, step, target, left, wireVars, agentVars>>

\* register(): the map is swapped under the registry's lock, the session it
\* held before is closed afterwards.
RegisterFirst(c) ==
    /\ owner = NoConn
    /\ phase[c] = "accepted"
    /\ registry[LocationOf[c]] = NoConn
    /\ registry' = Registered(c)
    /\ StartServing(c)
    /\ UNCHANGED <<sessionVars, callVars, outItem, outDone, step, target, left,
                   wireVars, agentVars>>

RegisterReplacing(c) ==
    /\ owner = NoConn
    /\ phase[c] = "accepted"
    /\ registry[LocationOf[c]] # NoConn
    /\ registry' = Registered(c)
    /\ phase' = [phase EXCEPT ![c] = "replacing"]
    /\ owner' = c /\ step' = "mark" /\ target' = registry[LocationOf[c]]
    /\ UNCHANGED <<sessionVars, callVars, outTask, outItem, outDone, left,
                   wireVars, agentVars>>

\* The loop returns or raises: its finally clause closes the session.
Leave(c) == /\ phase' = [phase EXCEPT ![c] = "leaving"]
            /\ owner' = c /\ step' = "mark" /\ target' = c
            /\ outDone' = [outDone EXCEPT ![c] = FALSE]

-----------------------------------------------------------------------------
(* AgentSession.close(), run by the coroutine "owner" on the session       *)
(* "target".                                                               *)

\* What "owner" does once close() has returned.
AfterClose ==
    /\ step' = "idle"
    /\ target' = NoConn
    /\ \/ /\ phase[owner] = "replacing"
          /\ StartServing(owner)
          /\ UNCHANGED <<link, toPortal>>
       \/ /\ phase[owner] = "leaving"
          /\ phase' = [phase EXCEPT ![owner] = "unregistering"]
          /\ UNCHANGED <<outTask, owner, link, toPortal>>
       \/ /\ phase[owner] = "dropping"
          /\ phase' = [phase EXCEPT ![owner] = "gone"]
          /\ link' = [link EXCEPT ![owner] = "down"]
          /\ toPortal' = [toPortal EXCEPT ![owner] = <<>>]
          /\ owner' = NoConn
          /\ UNCHANGED outTask

CloseAgain ==
    /\ step = "mark"
    /\ closed[target]
    /\ AfterClose
    /\ UNCHANGED <<registry, sessionVars, callVars, outItem, outDone, left,
                   toAgent, agentVars>>

CloseMark ==
    /\ step = "mark"
    /\ ~closed[target]
    /\ closed' = [closed EXCEPT ![target] = TRUE]
    /\ left' = Waiters(target)
    /\ pending' = [pending EXCEPT ![target] = {}]
    /\ step' = "fail"
    /\ UNCHANGED <<registry, outbound, callVars, phase, outTask, outItem,
                   outDone, owner, target, wireVars, agentVars>>

CloseFail ==
    /\ step = "fail"
    /\ \E r \in left :
          /\ future' = [future EXCEPT ![r] = "exception"]
          /\ left' = left \ {r}
    /\ UNCHANGED <<registry, sessionVars, pc, session, outcome, phase, outTask,
                   outItem, outDone, owner, step, target, wireVars, agentVars>>

CloseSentinelPut ==
    /\ step = "fail"
    /\ left = {}
    /\ outbound' = [outbound EXCEPT ![target] = EndOfQueue(@)]
    /\ AfterClose
    /\ UNCHANGED <<registry, closed, pending, callVars, outItem, outDone, left,
                   toAgent, agentVars>>

\* unregister(): only the session the map still holds is removed; then close().
Unregister(c) ==
    /\ owner = c
    /\ phase[c] = "unregistering"
    /\ registry' = IF StillHeld(c)
                   THEN [registry EXCEPT ![LocationOf[c]] = NoConn]
                   ELSE registry
    /\ phase' = [phase EXCEPT ![c] = "dropping"]
    /\ step' = "mark" /\ target' = c
    /\ UNCHANGED <<sessionVars, callVars, outTask, outItem, outDone, owner,
                   left, wireVars, agentVars>>

-----------------------------------------------------------------------------
(* _message_loop and _handle_agent_payload.                                *)

\* asyncio.wait reports the outbound task too, if it has seen it finish.
Received(c) ==
    /\ owner = NoConn
    /\ phase[c] = "serving"
    /\ toPortal[c] # <<>>
    /\ toPortal' = [toPortal EXCEPT ![c] = Tail(@)]
    /\ \E seen \in {FALSE, outTask[c] = "done"} :
            outDone' = [outDone EXCEPT ![c] = seen]

ReceiveDisconnect(c) ==
    /\ owner = NoConn
    /\ phase[c] = "serving"
    /\ toPortal[c] = <<>>
    /\ link[c] = "down"
    /\ Leave(c)
    /\ UNCHANGED <<registry, sessionVars, callVars, outTask, outItem, left,
                   wireVars, agentVars>>

\* A result whose id is unknown, or on a session that has been replaced.
RejectResult(c) ==
    /\ Received(c)
    /\ Head(toPortal[c]) \in Requests
    /\ ~StillHeld(c) \/ ResultId(c) \notin pending[c]
    /\ phase' = [phase EXCEPT ![c] = "replying"]
    /\ UNCHANGED <<registry, sessionVars, callVars, outTask, outItem, owner,
                   step, target, left, link, toAgent, agentVars>>

\* resolve_result(): the future is popped under the session's lock (the
\* registry cannot change in between) ...
PopResult(c) ==
    /\ Received(c)
    /\ Head(toPortal[c]) \in Requests
    /\ StillHeld(c)
    /\ ResultId(c) \in pending[c]
    /\ pending' = Without(c, ResultId(c))
    /\ left' = {ResultId(c)}
    /\ phase' = [phase EXCEPT ![c] = "resolving"]
    /\ owner' = c
    /\ UNCHANGED <<registry, closed, outbound, callVars, outTask, outItem,
                   step, target, link, toAgent, agentVars>>

\* ... and completed outside it: its caller may have given up in between.
SetResult(c) ==
    /\ owner = c
    /\ phase[c] = "resolving"
    /\ \E r \in left : /\ future' = [future EXCEPT ![r] = "result"]
                       /\ left' = left \ {r}
    /\ phase' = [phase EXCEPT ![c] = "replying"]
    /\ owner' = NoConn
    /\ UNCHANGED <<registry, sessionVars, pc, session, outcome, outTask,
                   outItem, outDone, step, target, wireVars, agentVars>>

\* A report is written to the database in another thread, awaited here.
ReceiveReport(c) ==
    /\ Received(c)
    /\ Head(toPortal[c]) = Report
    /\ phase' = [phase EXCEPT ![c] = "saving"]
    /\ UNCHANGED <<registry, sessionVars, callVars, outTask, outItem, owner,
                   step, target, left, link, toAgent, agentVars>>

ReportSaved(c) ==
    /\ owner = NoConn
    /\ phase[c] = "saving"
    /\ phase' = [phase EXCEPT ![c] = "replying"]
    /\ UNCHANGED <<registry, sessionVars, callVars, outTask, outItem, outDone,
                   owner, step, target, left, wireVars, agentVars>>

\* The location was deleted, or the database is unreachable.
SavingRaises(c) ==
    /\ owner = NoConn
    /\ phase[c] = "saving"
    /\ Leave(c)
    /\ UNCHANGED <<registry, sessionVars, callVars, outTask, outItem, left,
                   wireVars, agentVars>>

\* A frame sent on a broken connection is dropped by the server.
Transmit(c, frame) ==
    toAgent' = IF link[c] = "up"
               THEN [toAgent EXCEPT ![c] = Append(@, frame)]
               ELSE toAgent

SendReply(c) ==
    /\ owner = NoConn
    /\ phase[c] = "replying"
    /\ Transmit(c, Reply)
    /\ phase' = [phase EXCEPT ![c] = IF outDone[c] THEN "sending" ELSE "serving"]
    /\ outDone' = [outDone EXCEPT ![c] = FALSE]
    /\ UNCHANGED <<registry, sessionVars, callVars, outTask, outItem, owner,
                   step, target, left, link, toPortal, agentVars>>

AtOutbound(c) == /\ owner = NoConn
                 /\ phase[c] \in {"serving", "sending"}
                 /\ outTask[c] = "done"

SendCommand(c) ==
    /\ AtOutbound(c)
    /\ outItem[c] \in Requests
    /\ Transmit(c, outItem[c])
    /\ phase' = [phase EXCEPT ![c] = "serving"]
    /\ AwaitNext(c)
    /\ UNCHANGED <<registry, sessionVars, callVars, outDone, owner, step,
                   target, left, link, toPortal, agentVars>>

ReceiveSentinel(c) ==
    /\ AtOutbound(c)
    /\ outItem[c] = CloseSentinel
    /\ Leave(c)
    /\ UNCHANGED <<registry, sessionVars, callVars, outTask, outItem, left,
                   wireVars, agentVars>>

\* send() raises: the reply or the command at hand is lost with the loop.
SendRaises(c) ==
    /\ owner = NoConn
    /\ link[c] = "down"
    /\ \/ phase[c] = "replying"
       \/ AtOutbound(c) /\ outItem[c] \in Requests
    /\ Leave(c)
    /\ UNCHANGED <<registry, sessionVars, callVars, outTask, outItem, left,
                   wireVars, agentVars>>

-----------------------------------------------------------------------------
(* The connection and the agent's end of it.                               *)

Prefixes(s) == {SubSeq(s, 1, n) : n \in 0 .. Len(s)}

\* The connection breaks: in each direction the last frames may be lost.
BreakLink(c) ==
    /\ link[c] = "up"
    /\ link' = [link EXCEPT ![c] = "down"]
    /\ \E s \in Prefixes(toAgent[c]) : toAgent' = [toAgent EXCEPT ![c] = s]
    /\ \E s \in Prefixes(toPortal[c]) : toPortal' = [toPortal EXCEPT ![c] = s]
    /\ UNCHANGED <<registry, sessionVars, callVars, loopVars, agentVars>>

\* The agent's process ends, in the middle of a command or not.
StopAgent(c) ==
    /\ agent[c] # "off"
    /\ EndJob(c, "off")
    /\ link' = [link EXCEPT ![c] = "down"]
    /\ toAgent' = [toAgent EXCEPT ![c] = <<>>]
    /\ \E s \in Prefixes(toPortal[c]) : toPortal' = [toPortal EXCEPT ![c] = s]
    /\ UNCHANGED <<registry, sessionVars, callVars, loopVars, executed>>

AgentReads(c) == /\ agent[c] = "idle"
                 /\ toAgent[c] # <<>>
                 /\ toAgent' = [toAgent EXCEPT ![c] = Tail(@)]

\* run_agent_control_loop hands a command or a recording request to its executor
TakeCommand(c) ==
    /\ AgentReads(c)
    /\ c \in ControlConns
    /\ Head(toAgent[c]) \in Requests
    /\ agent' = [agent EXCEPT ![c] = "busy"]
    /\ job' = [job EXCEPT ![c] = Head(toAgent[c])]
    /\ executed' = executed \union {Head(toAgent[c])}
    /\ UNCHANGED <<registry, sessionVars, callVars, loopVars, link, toPortal>>

\* ... and ignores every other frame.
IgnoreReply(c) ==
    /\ AgentReads(c)
    /\ c \in ControlConns
    /\ Head(toAgent[c]) = Reply
    /\ UNCHANGED <<registry, sessionVars, callVars, loopVars, link, toPortal,
                   agentVars>>

\* Writing the result: a success and a failure of the executor alike.
SendResult(c) ==
    /\ agent[c] = "busy"
    /\ link[c] = "up"
    /\ EndJob(c, "idle")
    /\ toPortal' = [toPortal EXCEPT ![c] = Append(@, job[c])]
    /\ UNCHANGED <<registry, sessionVars, callVars, loopVars, link, toAgent,
                   executed>>

\* Reading from, or writing to, a connection that is gone raises.
AgentEof(c) ==
    /\ link[c] = "down"
    /\ \/ agent[c] = "busy"
       \/ agent[c] = "idle" /\ toAgent[c] = <<>>
    /\ EndJob(c, "off")
    /\ UNCHANGED <<registry, sessionVars, callVars, loopVars, wireVars,
                   executed>>

\* websocket_json_exchange takes the first frame for its response, be it an
\* ack, an error or a live command, and closes the connection.
EndExchange(c) ==
    /\ AgentReads(c)
    /\ c \notin ControlConns
    /\ agent' = [agent EXCEPT ![c] = "off"]
    /\ link' = [link EXCEPT ![c] = "down"]
    /\ UNCHANGED <<registry, sessionVars, callVars, loopVars, toPortal, job,
                   executed>>

-----------------------------------------------------------------------------
RequestStep(r) ==
    \/ LookupFound(r) \/ LookupMissing(r) \/ AddPending(r) \/ RefuseClosed(r)
    \/ PutMessage(r) \/ TakeResult(r) \/ TakeException(r) \/ ForgetPending(r)

CloseStep == CloseAgain \/ CloseMark \/ CloseFail \/ CloseSentinelPut

ServeStep(c) ==
    \/ AcceptFails(c) \/ RegisterFirst(c) \/ RegisterReplacing(c)
    \/ Unregister(c) \/ ReceiveDisconnect(c) \/ RejectResult(c)
    \/ PopResult(c) \/ SetResult(c) \/ ReceiveReport(c) \/ ReportSaved(c)
    \/ SavingRaises(c) \/ SendReply(c) \/ SendCommand(c) \/ ReceiveSentinel(c)
    \/ SendRaises(c)

AgentStep(c) == \/ TakeCommand(c) \/ IgnoreReply(c) \/ SendResult(c)
                \/ AgentEof(c) \/ EndExchange(c)

\* Every request has returned and every connection is over.
Terminating ==
    /\ \A r \in Requests : pc[r] = "done"
    /\ \A c \in Conns : /\ phase[c] = "gone"
                        /\ agent[c] = "off"
                        /\ outTask[c] # "getting"
    /\ UNCHANGED vars

Next ==
    \/ \E r \in Requests : RequestStep(r) \/ WaitExpires(r)
    \/ CloseStep
    \/ \E c \in Conns : \/ Connect(c) \/ ServeStep(c) \/ GetOutbound(c)
                        \/ AgentStep(c) \/ BreakLink(c) \/ StopAgent(c)
    \/ Terminating

Spec == Init /\ [][Next]_vars

\* Threads and the event loop run on; agents, networks and clocks need not.
PortalFairness ==
    /\ \A r \in Requests : WF_vars(RequestStep(r))
    /\ WF_vars(CloseStep)
    /\ \A c \in Conns : WF_vars(ServeStep(c)) /\ WF_vars(GetOutbound(c))

\* Every timeout runs out in the end.
TimeoutFairness == \A r \in Requests : WF_vars(WaitExpires(r))

FairSpec  == Spec /\ PortalFairness

-----------------------------------------------------------------------------
(* Safety.                                                                 *)

\* A future taken out of a pending table is still incomplete when the loop
\* comes to complete it, whatever its caller does meanwhile: set_result and
\* set_exception never raise InvalidStateError (resolve_result, close).
CompletedOnce == \A r \in left : future[r] = "pending"

\* A caller that waits on an incomplete future can still be reached: its entry
\* is in the table of an open session or in the loop's hands.  No interleaving
\* of dispatch, resolve_result, close and a replacement leaves it to its
\* time-out with no one to complete the future.
NoLostWaiter ==
    \A r \in Requests :
        /\ pc[r] \in {"registered", "waiting"}
        /\ future[r] = "pending"
        => r \in left \/ (r \in pending[session[r]] /\ ~closed[session[r]])

\* Whenever the event loop is between callbacks, the session the registry holds
\* for a location is an open one of that location, and every other session
\* still being served has been closed: commands go to the newest connection and
\* no connection lives on unregistered (register, unregister, the finally
\* clauses of __call__ and _message_loop).
RegistryMatchesLoops ==
    owner = NoConn =>
        /\ \A l \in Locations : registry[l] # NoConn =>
              /\ ~closed[registry[l]]
              /\ LocationOf[registry[l]] = l
              /\ phase[registry[l]] \in ServingPhases
        /\ \A c \in Conns : phase[c] \in ServingPhases =>
              registry[LocationOf[c]] = c \/ closed[c]

\* What lies behind the close sentinel is never sent; its caller already has
\* the exception, it does not wait for an answer (_dispatch_pending_result puts
\* outside the lock, close puts the sentinel last).
SentinelIsLast ==
    \A c \in Conns : \A i, j \in DOMAIN outbound[c] :
        /\ i < j
        /\ outbound[c][i] = CloseSentinel
        => outbound[c][j] \in Requests /\ future[outbound[c][j]] = "exception"

\* A caller is answered only after an agent of the addressed location has
\* carried out that very request, over the session it was dispatched on.
AnswerIsOwn ==
    \A r \in Requests : outcome[r] = "ok" =>
        /\ r \in executed
        /\ session[r] \in ControlConns
        /\ LocationOf[session[r]] = TargetOf[r]

\* An agent never starts a request that was started before: queues, session
\* replacement and the caller's time-out never repeat a command.
ExecutedOnce ==
    [][\A c \in Conns : job'[c] # job[c] /\ job'[c] \in Requests
                            => job'[c] \notin executed]_vars

-----------------------------------------------------------------------------
(* Liveness.                                                               *)

\* close() releases everyone who waits on the session, time-out or not.
CloseReleasesWaiters ==
    \A r \in Requests, c \in Conns :
        (session[r] = c /\ closed[c] /\ pc[r] = "waiting") ~> pc[r] = "done"

\* A closed session's message loop and its worker thread both come to an end,
\* also when a silent agent keeps the connection open: the sentinel reaches
\* them behind whatever was queued before it.
ClosedLoopEnds ==
    \A c \in Conns :
        closed[c] ~> (phase[c] = "gone" /\ outTask[c] # "getting")

\* A command put on the queue is sent on, unless the session closes.
QueueDrains ==
    \A r \in Requests, c \in Conns :
        (\E i \in DOMAIN outbound[c] : outbound[c][i] = r)
            ~> (closed[c] \/ (/\ \A i \in DOMAIN outbound[c] : outbound[c][i] # r
                              /\ outItem[c] # r))

-----------------------------------------------------------------------------
(* What a caller and the PBX see of all this.                              *)

callState ==
    [r \in Requests |->
        IF pc[r] = "start" THEN "idle"
        ELSE IF outcome[r] = "none" THEN "asked"
        ELSE IF outcome[r] = "ok" THEN "answered" ELSE "failed"]

LC == INSTANCE LiveCommand WITH call <- callState

\* The link implements LiveCommand: outcomes are final, answers are earned,
\* commands are carried out at most once, and every caller gets an outcome.
ImplementsLiveCommand == LC!SafeSpec /\ (TimeoutFairness => LC!Fairness)

-----------------------------------------------------------------------------
(* The inductive invariant behind the safety properties, in parts.         *)

\* Exactly one coroutine is between two awaits while "owner" names it, and
\* close() runs only there.
LoopInv ==
    /\ owner = NoConn => step = "idle" /\ left = {}
    /\ \A c \in Conns : phase[c] \in HoldingPhases <=> owner = c
    /\ step # "idle" =>
          /\ owner \in Conns
          /\ target \in Conns
          /\ phase[owner] \in {"replacing", "leaving", "dropping"}
          /\ phase[owner] # "replacing" => target = owner
    /\ owner # NoConn /\ step = "idle" =>
          phase[owner] \in {"resolving", "unregistering"}
    /\ step = "mark" => left = {}
    /\ owner # NoConn /\ phase[owner] = "unregistering" => left = {}
    /\ owner # NoConn /\ phase[owner] = "resolving" =>
          \E r \in Requests : left = {r}
    /\ \A r \in Requests : pc[r] \in {"found", "registered", "waiting", "expired"}
                              => session[r] \in Conns

\* An entry that is waited for is somewhere.
WaiterIsHeld ==
    \A r \in Requests :
        /\ pc[r] \in {"registered", "waiting"}
        /\ future[r] = "pending"
        => r \in left \/ r \in pending[session[r]]

\* Where an incomplete future can be: in its own session's table or in the
\* loop's hands, never in both and never in a closed session.
FutureInv ==
    /\ \A c \in Conns : closed[c] => pending[c] = {}
    /\ \A c \in Conns : \A r \in pending[c] :
          /\ session[r] = c
          /\ pc[r] \in {"registered", "waiting", "expired"}
          /\ future[r] = "pending"
          /\ r \notin left
    /\ \A r \in left : /\ pc[r] \notin {"start", "found"}
                       /\ future[r] = "pending"
    /\ \A r \in Requests : pc[r] \in {"start", "found"} => future[r] = "pending"
    /\ WaiterIsHeld

\* Which sessions the registry may hold, also while a coroutine is half-way
\* through register() or the finally clauses.
RegistryInv ==
    /\ \A l \in Locations : registry[l] # NoConn =>
          /\ LocationOf[registry[l]] = l
          /\ \/ /\ ~closed[registry[l]]
                /\ phase[registry[l]] \in ServingPhases \union {"replacing", "resolving"}
             \/ phase[registry[l]] \in {"leaving", "unregistering"}
    /\ \A c \in Conns :
          /\ phase[c] \in ServingPhases =>
                \/ registry[LocationOf[c]] = c
                \/ closed[c]
                \/ step = "mark" /\ target = c
          /\ phase[c] \in {"replacing", "resolving"} => registry[LocationOf[c]] = c
          /\ phase[c] = "dropping" => registry[LocationOf[c]] # c
          /\ phase[c] \in {"offline", "accepted"} => ~closed[c]
          /\ phase[c] \in {"unregistering", "dropping"} => closed[c]
    /\ step = "fail" => closed[target]
    /\ step # "idle" /\ phase[owner] = "replacing" =>
          /\ target # owner
          /\ LocationOf[target] = LocationOf[owner]
          /\ phase[target] \in ServingPhases

\* r's message was put on the queue of its session c.
Dispatched(r, c) == session[r] = c /\ pc[r] \in {"waiting", "expired", "done"}

\* A message that no agent has taken is in one place only: in its session's queue,
\* in the hands of the loop, or on the wire.
Unsent(r, c) == Dispatched(r, c) /\ r \notin executed
InPlace(q, i) == \A j \in DOMAIN q : j # i => q[j] # q[i]
OnWire(r, c) == \E i \in DOMAIN toAgent[c] : toAgent[c][i] = r

MessageInv ==
    \A c \in Conns :
        /\ \A i \in DOMAIN outbound[c] : outbound[c][i] \in Requests =>
              /\ Unsent(outbound[c][i], c)
              /\ InPlace(outbound[c], i)
              /\ outbound[c][i] # outItem[c]
              /\ ~OnWire(outbound[c][i], c)
        /\ outItem[c] \in Requests =>
              /\ Unsent(outItem[c], c)
              /\ ~OnWire(outItem[c], c)
        /\ \A i \in DOMAIN toAgent[c] : toAgent[c][i] \in Requests =>
              /\ Unsent(toAgent[c][i], c)
              /\ InPlace(toAgent[c], i)

\* The agent at the other end of c has carried r out.
ExecutedBy(r, c) == /\ r \in executed
                    /\ c \in ControlConns
                    /\ Dispatched(r, c)

\* A result, wherever it is on its way to the caller, is one of a request that was
\* carried out at the other end of its own session.
ResultInv ==
    /\ \A r \in executed : \E c \in Conns : ExecutedBy(r, c)
    /\ \A c \in Conns :
          /\ job[c] \in Requests => ExecutedBy(job[c], c)
          /\ \A i \in DOMAIN toPortal[c] :
                toPortal[c][i] \in Requests => ExecutedBy(toPortal[c][i], c)
    /\ \A r \in left :
          /\ owner # NoConn /\ phase[owner] = "resolving" => ExecutedBy(r, owner)
          /\ step = "fail" => session[r] = target
    /\ \A r \in Requests :
          /\ future[r] = "result" => r \in executed
          /\ outcome[r] = "ok" => future[r] = "result"
          /\ outcome[r] = "none" <=> pc[r] # "done"
          /\ session[r] # NoConn => LocationOf[session[r]] = TargetOf[r]

\* A queue holds a sentinel only when close() has failed all waiters: who puts a
\* message behind it finds the exception set.
SentinelInv ==
    \A c \in Conns : \A i \in DOMAIN outbound[c] :
        outbound[c][i] = CloseSentinel =>
            /\ closed[c]
            /\ ~(step = "fail" /\ target = c)
            /\ \A j \in DOMAIN outbound[c] : i < j =>
                  /\ outbound[c][j] \in Requests
                  /\ future[outbound[c][j]] = "exception"

\* All parts: one coroutine closes at a time, every future is where its request or
\* the closing coroutine will find it, the registry holds no dead session, no message
\* is in two places and no result is another's.
LinkInv == /\ TypeOK /\ LoopInv /\ FutureInv /\ RegistryInv
           /\ MessageInv /\ ResultInv /\ SentinelInv
============================================================================
