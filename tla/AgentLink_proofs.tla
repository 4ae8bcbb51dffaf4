-------------------------- MODULE AgentLink_proofs --------------------------
(***************************************************************************)
(* Theorems about AgentLink, for any number of locations, connections and  *)
(* requests.                                                               *)
(***************************************************************************)
EXTENDS AgentLink, SequenceTheorems, TLAPS

\* A prefix of a sequence of frames is a sequence of frames (BreakLink and
\* StopAgent lose a suffix of what is in flight).
LEMMA PrefixType ==
    ASSUME NEW S, NEW s \in Seq(S), NEW p \in Prefixes(s)
    PROVE  p \in Seq(S)
<1>1. PICK n \in 0 .. Len(s) : p = SubSeq(s, 1, n)
  BY DEF Prefixes
<1>2. \A i \in 1 .. n : s[i] \in S
  BY <1>1, ElementOfSeq
<1> QED
  BY <1>1, <1>2, SubSeqProperties

\* The sets and groups of variables every type argument needs.
USE DEF ConnOrNone, Items, HoldingPhases, ServingPhases, SessionFor, Accepting,
        Registered, StillHeld, ResultId, Without, Waiters, EndOfQueue, AwaitNext,
        EndJob

\* The initial state has the types.
LEMMA TypeInit == ASSUME ConstantsAssumption PROVE Init => TypeOK
  BY DEF Init, TypeOK, ConstantsAssumption

\* A request thread keeps the types (dispatch, _dispatch_pending_result).
LEMMA TypeRequest ==
    ASSUME TypeOK, NEW r \in Requests, RequestStep(r) \/ WaitExpires(r),
           ConstantsAssumption
    PROVE  TypeOK'
<1> USE DEF TypeOK, sessionVars, callVars, loopVars, wireVars, agentVars, Return
<1>1. CASE LookupFound(r)
  BY <1>1 DEF LookupFound, ConstantsAssumption
<1>2. CASE LookupMissing(r)
  BY <1>2 DEF LookupMissing
<1>3. CASE AddPending(r)
  <2>1. \A c \in Conns : pending[c] \union {r} \in SUBSET Requests
    OBVIOUS
  <2>2. pending' \in [Conns -> SUBSET Requests]
    BY <1>3, <2>1 DEF AddPending
  <2>3. pc' \in [Requests -> {"start", "found", "registered", "waiting",
                              "expired", "done"}]
    BY <1>3 DEF AddPending
  <2> QED
    BY <1>3, <2>2, <2>3 DEF AddPending
<1>4. CASE RefuseClosed(r)
  BY <1>4 DEF RefuseClosed
<1>5. CASE PutMessage(r)
  <2>1. \A c \in Conns : Append(outbound[c], r) \in Seq(Items)
    BY AppendProperties
  <2> QED
    BY <1>5, <2>1 DEF PutMessage
<1>6. CASE TakeResult(r)
  BY <1>6 DEF TakeResult
<1>7. CASE TakeException(r)
  BY <1>7 DEF TakeException
<1>8. CASE ForgetPending(r)
  BY <1>8 DEF ForgetPending
<1>9. CASE WaitExpires(r)
  BY <1>9 DEF WaitExpires
<1> QED
  BY <1>1, <1>2, <1>3, <1>4, <1>5, <1>6, <1>7, <1>8, <1>9 DEF RequestStep

\* AgentSession.close() keeps the types; LoopInv says whom it runs for.
LEMMA TypeClose ==
    ASSUME TypeOK, LoopInv, CloseStep, ConstantsAssumption
    PROVE  TypeOK'
<1> USE DEF TypeOK, sessionVars, callVars, loopVars, wireVars, agentVars,
            StartServing
<1>1. step # "idle" => target \in Conns
  BY DEF LoopInv
<1>2. ASSUME AfterClose
      PROVE  /\ phase' \in [Conns -> {"offline", "accepted", "gone"}
                              \union HoldingPhases \union ServingPhases]
             /\ outTask' \in [Conns -> {"none", "getting", "done"}]
             /\ link' \in [Conns -> {"none", "up", "down"}]
             /\ toPortal' \in [Conns -> Seq(Requests \union {Report})]
             /\ owner' \in ConnOrNone
             /\ step' \in {"idle", "mark", "fail"}
             /\ target' \in ConnOrNone
  <2>1. CASE StartServing(owner) /\ UNCHANGED <<link, toPortal>>
    BY <1>2, <2>1 DEF AfterClose
  <2>2. CASE /\ phase' = [phase EXCEPT ![owner] = "unregistering"]
             /\ UNCHANGED <<outTask, owner, link, toPortal>>
    BY <1>2, <2>2 DEF AfterClose
  <2>3. CASE /\ phase' = [phase EXCEPT ![owner] = "gone"]
             /\ link' = [link EXCEPT ![owner] = "down"]
             /\ toPortal' = [toPortal EXCEPT ![owner] = <<>>]
             /\ owner' = NoConn
             /\ UNCHANGED outTask
    <3>1. <<>> \in Seq(Requests \union {Report})
      OBVIOUS
    <3> QED
      BY <1>2, <2>3, <3>1 DEF AfterClose
  <2> QED
    BY <1>2, <2>1, <2>2, <2>3 DEF AfterClose
<1>3. CASE CloseAgain
  <2>1. AfterClose
    BY <1>3 DEF CloseAgain
  <2> QED
    BY <1>3, <1>2, <2>1 DEF CloseAgain
<1>4. CASE CloseMark
  BY <1>1, <1>4 DEF CloseMark
<1>5. CASE CloseFail
  BY <1>5 DEF CloseFail
<1>6. CASE CloseSentinelPut
  <2>1. \A c \in Conns : Append(outbound[c], CloseSentinel) \in Seq(Items)
    BY AppendProperties
  <2>2. AfterClose
    BY <1>6 DEF CloseSentinelPut
  <2> QED
    BY <1>6, <1>2, <2>1, <2>2 DEF CloseSentinelPut
<1> QED
  BY <1>3, <1>4, <1>5, <1>6 DEF CloseStep

\* The other actions of a coroutine, its worker thread and the handshake keep the
\* types.
LEMMA TypeServe ==
    ASSUME TypeOK, NEW c \in Conns, ConstantsAssumption,
           Connect(c) \/ ServeStep(c) \/ GetOutbound(c)
    PROVE  TypeOK'
<1> USE DEF TypeOK, sessionVars, callVars, loopVars, wireVars, agentVars,
            StartServing, Leave, AtOutbound
<1>1. CASE Connect(c)
  <2>1. <<Report>> \in Seq(Requests \union {Report})
    OBVIOUS
  <2> QED
    BY <1>1, <2>1 DEF Connect
<1>2. CASE AcceptFails(c)
  BY <1>2 DEF AcceptFails
<1>3. CASE RegisterFirst(c)
  BY <1>3 DEF RegisterFirst
<1>4. CASE RegisterReplacing(c)
  BY <1>4 DEF RegisterReplacing, ConstantsAssumption
<1>5. CASE Unregister(c)
  BY <1>5 DEF Unregister
<1>6. CASE ReceiveDisconnect(c)
  BY <1>6 DEF ReceiveDisconnect
<1>7. ASSUME Received(c)
      PROVE  /\ toPortal' \in [Conns -> Seq(Requests \union {Report})]
             /\ outDone' \in [Conns -> BOOLEAN]
  <2>1. Tail(toPortal[c]) \in Seq(Requests \union {Report})
    BY <1>7, HeadTailProperties DEF Received
  <2>2. toPortal' \in [Conns -> Seq(Requests \union {Report})]
    BY <1>7, <2>1 DEF Received
  <2>3. PICK seen \in BOOLEAN : outDone' = [outDone EXCEPT ![c] = seen]
    BY <1>7 DEF Received
  <2> QED
    BY <2>2, <2>3
<1>8. CASE RejectResult(c)
  <2>1. Received(c)
    BY <1>8 DEF RejectResult
  <2> QED
    BY <1>7, <1>8, <2>1 DEF RejectResult
<1>9. CASE PopResult(c)
  <2>1. Received(c)
    BY <1>9 DEF PopResult
  <2> QED
    BY <1>7, <1>9, <2>1 DEF PopResult
<1>10. CASE SetResult(c)
  BY <1>10 DEF SetResult
<1>11. CASE ReceiveReport(c)
  <2>1. Received(c)
    BY <1>11 DEF ReceiveReport
  <2> QED
    BY <1>7, <1>11, <2>1 DEF ReceiveReport
<1>12. CASE ReportSaved(c)
  BY <1>12 DEF ReportSaved
<1>13. CASE SavingRaises(c)
  BY <1>13 DEF SavingRaises
<1>14. ASSUME NEW frame \in Requests \union {Reply}, Transmit(c, frame)
       PROVE  toAgent' \in [Conns -> Seq(Requests \union {Reply})]
  <2>1. Append(toAgent[c], frame) \in Seq(Requests \union {Reply})
    BY AppendProperties
  <2> QED
    BY <1>14, <2>1 DEF Transmit
<1>15. CASE SendReply(c)
  <2>1. Transmit(c, Reply)
    BY <1>15 DEF SendReply
  <2>2. toAgent' \in [Conns -> Seq(Requests \union {Reply})]
    BY <1>14, <2>1
  <2> QED
    BY <1>15, <2>2 DEF SendReply
<1>16. CASE SendCommand(c)
  <2>1. Transmit(c, outItem[c]) /\ outItem[c] \in Requests
    BY <1>16 DEF SendCommand
  <2>2. toAgent' \in [Conns -> Seq(Requests \union {Reply})]
    BY <1>14, <2>1
  <2> QED
    BY <1>16, <2>2 DEF SendCommand
<1>17. CASE ReceiveSentinel(c)
  BY <1>17 DEF ReceiveSentinel
<1>18. CASE SendRaises(c)
  BY <1>18 DEF SendRaises
<1>19. CASE GetOutbound(c)
  <2>1. Head(outbound[c]) \in Items /\ Tail(outbound[c]) \in Seq(Items)
    BY <1>19, HeadTailProperties DEF GetOutbound
  <2> QED
    BY <1>19, <2>1 DEF GetOutbound
<1> QED
  BY <1>1, <1>2, <1>3, <1>4, <1>5, <1>6, <1>8, <1>9, <1>10, <1>11, <1>12,
     <1>13, <1>15, <1>16, <1>17, <1>18, <1>19 DEF ServeStep

\* What connections and agents do keeps the types.
LEMMA TypeAgent ==
    ASSUME TypeOK, NEW c \in Conns, ConstantsAssumption,
           AgentStep(c) \/ BreakLink(c) \/ StopAgent(c)
    PROVE  TypeOK'
<1> USE DEF TypeOK, sessionVars, callVars, loopVars, wireVars, agentVars
<1>1. ASSUME AgentReads(c)
      PROVE  toAgent' \in [Conns -> Seq(Requests \union {Reply})]
  <2>1. Tail(toAgent[c]) \in Seq(Requests \union {Reply})
    BY <1>1, HeadTailProperties DEF AgentReads
  <2> QED
    BY <1>1, <2>1 DEF AgentReads
<1>2. CASE TakeCommand(c)
  <2>1. AgentReads(c)
    BY <1>2 DEF TakeCommand
  <2>2. toAgent' \in [Conns -> Seq(Requests \union {Reply})]
    BY <1>1, <2>1
  <2>3. Head(toAgent[c]) \in Requests /\ Head(toAgent[c]) # NoItem
    BY <1>2 DEF TakeCommand, ConstantsAssumption
  <2>4. job' \in [Conns -> Requests \union {NoItem}] /\ executed' \in SUBSET Requests
    BY <1>2, <2>3 DEF TakeCommand
  <2>5. /\ agent' \in [Conns -> {"off", "idle", "busy"}]
        /\ \A d \in Conns : agent'[d] = "busy" => job'[d] # NoItem
    BY <1>2, <2>3 DEF TakeCommand
  <2>6. UNCHANGED <<registry, sessionVars, callVars, loopVars, link, toPortal>>
    BY <1>2 DEF TakeCommand
  <2> QED
    BY <2>2, <2>4, <2>5, <2>6
<1>3. CASE IgnoreReply(c)
  <2>1. AgentReads(c)
    BY <1>3 DEF IgnoreReply
  <2> QED
    BY <1>1, <1>3, <2>1 DEF IgnoreReply
<1>4. CASE SendResult(c)
  <2>0. job[c] \in Requests
    BY <1>4 DEF SendResult
  <2>1. Append(toPortal[c], job[c]) \in Seq(Requests \union {Report})
    BY <2>0, AppendProperties
  <2> QED
    BY <1>4, <2>1 DEF SendResult
<1>5. CASE AgentEof(c)
  BY <1>5 DEF AgentEof
<1>6. CASE EndExchange(c)
  <2>1. AgentReads(c)
    BY <1>6 DEF EndExchange
  <2> QED
    BY <1>1, <1>6, <2>1 DEF EndExchange
<1>7. CASE BreakLink(c)
  <2>1. PICK s \in Prefixes(toAgent[c]) : toAgent' = [toAgent EXCEPT ![c] = s]
    BY <1>7 DEF BreakLink
  <2>2. PICK t \in Prefixes(toPortal[c]) : toPortal' = [toPortal EXCEPT ![c] = t]
    BY <1>7 DEF BreakLink
  <2>3. s \in Seq(Requests \union {Reply}) /\ t \in Seq(Requests \union {Report})
    BY PrefixType
  <2> QED
    BY <1>7, <2>1, <2>2, <2>3 DEF BreakLink
<1>8. CASE StopAgent(c)
  <2>1. PICK t \in Prefixes(toPortal[c]) : toPortal' = [toPortal EXCEPT ![c] = t]
    BY <1>8 DEF StopAgent
  <2>2. t \in Seq(Requests \union {Report}) /\ <<>> \in Seq(Requests \union {Reply})
    BY PrefixType
  <2> QED
    BY <1>8, <2>1, <2>2 DEF StopAgent
<1> QED
  BY <1>2, <1>3, <1>4, <1>5, <1>6, <1>7, <1>8 DEF AgentStep

-----------------------------------------------------------------------------
(* The control of the event loop.                                          *)

\* Initially no coroutine holds the event loop.
LEMMA LoopInit == ASSUME ConstantsAssumption PROVE Init => LoopInv
  BY DEF Init, LoopInv, ConstantsAssumption

\* A request thread moves neither a coroutine nor the futures in its hands.
LEMMA LoopRequest ==
    ASSUME TypeOK, LoopInv, NEW r \in Requests, ConstantsAssumption,
           RequestStep(r) \/ WaitExpires(r)
    PROVE  LoopInv'
<1>1. UNCHANGED loopVars
  BY DEF RequestStep, LookupFound, LookupMissing, AddPending, RefuseClosed,
         PutMessage, TakeResult, TakeException, ForgetPending, WaitExpires
<1>2. \A q \in Requests :
         pc'[q] \in {"found", "registered", "waiting", "expired"}
            => session'[q] \in Conns
  BY DEF RequestStep, LookupFound, LookupMissing, AddPending, RefuseClosed,
         PutMessage, TakeResult, TakeException, ForgetPending, WaitExpires,
         Return, TypeOK, LoopInv, ConstantsAssumption
<1> QED
  BY <1>1, <1>2 DEF LoopInv, loopVars

\* close() gives the event loop back, or goes on in the phase that follows it.
LEMMA LoopClose ==
    ASSUME TypeOK, LoopInv, ConstantsAssumption, CloseStep
    PROVE  LoopInv'
<1> USE DEF TypeOK, LoopInv, ConstantsAssumption, callVars
<1>1. ASSUME AfterClose, step # "idle", left = {}, UNCHANGED <<left, callVars>>
      PROVE  LoopInv'
  <2>1. CASE phase[owner] = "replacing"
    <3>1. owner \in Conns /\ owner' = NoConn /\ step' = "idle"
      BY <1>1, <2>1 DEF AfterClose, StartServing
    <3>2. phase' = [phase EXCEPT ![owner] = "serving"]
      BY <1>1, <2>1 DEF AfterClose, StartServing
    <3>3. \A c \in Conns : phase'[c] \notin HoldingPhases
      BY <3>1, <3>2
    <3> QED
      BY <1>1, <3>1, <3>3
  <2>2. CASE phase[owner] = "leaving"
    BY <1>1, <2>2 DEF AfterClose
  <2>3. CASE phase[owner] = "dropping"
    <3>1. owner \in Conns /\ owner' = NoConn /\ step' = "idle"
      BY <1>1, <2>3 DEF AfterClose
    <3>2. phase' = [phase EXCEPT ![owner] = "gone"]
      BY <1>1, <2>3 DEF AfterClose
    <3>3. \A c \in Conns : phase'[c] \notin HoldingPhases
      BY <3>1, <3>2
    <3> QED
      BY <1>1, <3>1, <3>3
  <2> QED
    BY <1>1, <2>1, <2>2, <2>3
<1>2. CASE CloseAgain
  BY <1>1, <1>2 DEF CloseAgain
<1>3. CASE CloseMark
  BY <1>3 DEF CloseMark
<1>4. CASE CloseFail
  BY <1>4 DEF CloseFail
<1>5. CASE CloseSentinelPut
  BY <1>1, <1>5 DEF CloseSentinelPut
<1> QED
  BY <1>2, <1>3, <1>4, <1>5 DEF CloseStep

\* A coroutine takes the event loop only when nobody holds it.
LEMMA LoopServe ==
    ASSUME TypeOK, LoopInv, NEW c \in Conns, ConstantsAssumption,
           Connect(c) \/ ServeStep(c) \/ GetOutbound(c)
    PROVE  LoopInv'
<1> USE DEF TypeOK, LoopInv, ConstantsAssumption, callVars, StartServing, Leave
<1>1. CASE Connect(c)
  BY <1>1 DEF Connect
<1>2. CASE AcceptFails(c)
  BY <1>2 DEF AcceptFails
<1>3. CASE RegisterFirst(c)
  BY <1>3 DEF RegisterFirst
<1>4. CASE RegisterReplacing(c)
  BY <1>4 DEF RegisterReplacing
<1>5. CASE Unregister(c)
  BY <1>5 DEF Unregister
<1>6. CASE ReceiveDisconnect(c)
  BY <1>6 DEF ReceiveDisconnect
<1>7. CASE RejectResult(c)
  BY <1>7 DEF RejectResult, Received
<1>8. CASE PopResult(c)
  <2>1. /\ owner = NoConn /\ owner' = c /\ phase[c] = "serving"
        /\ phase' = [phase EXCEPT ![c] = "resolving"]
        /\ UNCHANGED <<step, target, callVars>>
    BY <1>8 DEF PopResult, Received
  <2>2. \E r \in Requests : left' = {r}
    BY <1>8 DEF PopResult
  <2> QED
    BY <2>1, <2>2
<1>9. CASE SetResult(c)
  BY <1>9 DEF SetResult
<1>10. CASE ReceiveReport(c)
  BY <1>10 DEF ReceiveReport, Received
<1>11. CASE ReportSaved(c)
  BY <1>11 DEF ReportSaved
<1>12. CASE SavingRaises(c)
  BY <1>12 DEF SavingRaises
<1>13. CASE SendReply(c)
  BY <1>13 DEF SendReply
<1>14. CASE SendCommand(c)
  BY <1>14 DEF SendCommand, AtOutbound
<1>15. CASE ReceiveSentinel(c)
  BY <1>15 DEF ReceiveSentinel, AtOutbound
<1>16. CASE SendRaises(c)
  BY <1>16 DEF SendRaises, AtOutbound
<1>17. CASE GetOutbound(c)
  BY <1>17 DEF GetOutbound
<1> QED
  BY <1>1, <1>2, <1>3, <1>4, <1>5, <1>6, <1>7, <1>8, <1>9, <1>10, <1>11,
     <1>12, <1>13, <1>14, <1>15, <1>16, <1>17 DEF ServeStep

\* The wires and the agents change none of it, nor the futures.
LEMMA AgentUnchanged ==
    ASSUME NEW c \in Conns, AgentStep(c) \/ BreakLink(c) \/ StopAgent(c)
    PROVE  UNCHANGED <<registry, sessionVars, callVars, loopVars>>
BY DEF AgentStep, TakeCommand, IgnoreReply, SendResult, AgentEof, EndExchange,
       BreakLink, StopAgent

\* What happens outside the portal does not move its event loop.
LEMMA LoopAgent ==
    ASSUME LoopInv, NEW c \in Conns,
           AgentStep(c) \/ BreakLink(c) \/ StopAgent(c)
    PROVE  LoopInv'
BY AgentUnchanged DEF LoopInv, sessionVars, callVars, loopVars

\* A stuttering step keeps both.
LEMMA StutterTypeLoop ==
    ASSUME TypeOK, LoopInv, UNCHANGED vars
    PROVE  TypeOK' /\ LoopInv'
<1>1. TypeOK'
  BY DEF TypeOK, vars, sessionVars, callVars, loopVars, wireVars, agentVars
<1>2. LoopInv'
  BY DEF LoopInv, vars, sessionVars, callVars, loopVars, wireVars, agentVars
<1> QED
  BY <1>1, <1>2

\* Every step keeps the types and the control of the event loop.
LEMMA TypeLoopStep ==
    ASSUME TypeOK, LoopInv, ConstantsAssumption, [Next]_vars
    PROVE  TypeOK' /\ LoopInv'
<1>1. CASE \E r \in Requests : RequestStep(r) \/ WaitExpires(r)
  BY <1>1, TypeRequest, LoopRequest
<1>2. CASE CloseStep
  BY <1>2, TypeClose, LoopClose
<1>3. CASE \E c \in Conns : Connect(c) \/ ServeStep(c) \/ GetOutbound(c)
  BY <1>3, TypeServe, LoopServe
<1>4. CASE \E c \in Conns : AgentStep(c) \/ BreakLink(c) \/ StopAgent(c)
  BY <1>4, TypeAgent, LoopAgent
<1>5. CASE UNCHANGED vars
  BY <1>5, StutterTypeLoop
<1> QED
  BY <1>1, <1>2, <1>3, <1>4, <1>5 DEF Next, Terminating

\* The variables keep their types, and at most one coroutine is ever between
\* two awaits.
THEOREM TypeLoopCorrect ==
    ASSUME ConstantsAssumption
    PROVE  Spec => [](TypeOK /\ LoopInv)
<1>1. Init => TypeOK /\ LoopInv
  BY TypeInit, LoopInit
<1>2. TypeOK /\ LoopInv /\ [Next]_vars => TypeOK' /\ LoopInv'
  BY TypeLoopStep
<1> QED
  BY <1>1, <1>2, PTL DEF Spec

-----------------------------------------------------------------------------
(* Where incomplete futures are.                                           *)

futureVars == <<closed, pending, future, pc, session, left>>

\* Initially no future is in any table.
LEMMA FutureInit == ASSUME ConstantsAssumption PROVE Init => FutureInv
  BY DEF Init, FutureInv, WaiterIsHeld

\* A step that leaves the tables and the futures alone keeps FutureInv.
LEMMA FutureStutter ==
    ASSUME FutureInv, UNCHANGED futureVars
    PROVE  FutureInv'
BY DEF FutureInv, WaiterIsHeld, futureVars

\* A request thread adds and removes its own entry only.
LEMMA FutureRequest ==
    ASSUME TypeOK, LoopInv, FutureInv, NEW r \in Requests,
           RequestStep(r) \/ WaitExpires(r), ConstantsAssumption
    PROVE  FutureInv'
<1> USE DEF Return, loopVars
<1>1. CASE LookupFound(r)
  BY <1>1 DEF LookupFound, sessionVars,
               FutureInv, WaiterIsHeld, TypeOK
<1>2. CASE LookupMissing(r)
  BY <1>2 DEF LookupMissing, sessionVars,
               FutureInv, WaiterIsHeld, TypeOK
\* The entry is added to an open session, for a future nobody has touched.
<1>3. CASE AddPending(r)
  <2>1. session[r] \in Conns /\ future[r] = "pending" /\ r \notin left
    BY <1>3 DEF AddPending, LoopInv, FutureInv
  <2>2. \A c \in Conns : pending'[c] = IF c = session[r]
                                       THEN pending[c] \union {r} ELSE pending[c]
    BY <1>3, <2>1 DEF AddPending, TypeOK
  <2> QED
    BY <1>3, <2>1, <2>2 DEF AddPending, FutureInv, WaiterIsHeld, TypeOK
<1>4. CASE RefuseClosed(r)
  BY <1>4 DEF RefuseClosed, sessionVars,
               FutureInv, WaiterIsHeld, TypeOK
<1>5. CASE PutMessage(r)
  BY <1>5 DEF PutMessage,
               FutureInv, WaiterIsHeld, TypeOK
<1>6. CASE TakeResult(r)
  BY <1>6 DEF TakeResult, sessionVars,
               FutureInv, WaiterIsHeld, TypeOK
<1>7. CASE TakeException(r)
  BY <1>7 DEF TakeException, sessionVars,
               FutureInv, WaiterIsHeld, TypeOK
\* The caller removes its own entry only, and waits no longer.
<1>8. CASE ForgetPending(r)
  <2>1. session[r] \in Conns
    BY <1>8 DEF ForgetPending, LoopInv
  <2>2. \A c \in Conns : pending'[c] = IF c = session[r]
                                       THEN pending[c] \ {r} ELSE pending[c]
    BY <1>8, <2>1 DEF ForgetPending, TypeOK
  <2>3. ASSUME NEW c \in Conns PROVE r \notin pending'[c]
    <3>1. CASE c = session[r]
      BY <2>2, <3>1
    <3>2. CASE c # session[r]
      <4>1. pending'[c] = pending[c]
        BY <2>2, <3>2
      <4> QED
        BY <3>2, <4>1 DEF FutureInv
    <3> QED
      BY <3>1, <3>2
  <2>4. /\ UNCHANGED <<closed, future, session, left>>
        /\ pc' = [pc EXCEPT ![r] = "done"]
        /\ pc[r] = "expired"
    BY <1>8 DEF ForgetPending
  <2>5. \A c \in Conns : pending'[c] \subseteq pending[c]
    BY <2>2
  <2>6. WaiterIsHeld'
    <3> SUFFICES ASSUME NEW q \in Requests, future[q] = "pending",
                        pc'[q] \in {"registered", "waiting"}
                 PROVE  q \in left \/ q \in pending'[session[q]]
      BY <2>4 DEF WaiterIsHeld
    <3>1. q # r /\ pc[q] \in {"registered", "waiting"}
      BY <2>4 DEF TypeOK
    <3>2. session[q] \in Conns
      BY <3>1 DEF LoopInv
    <3>3. q \in left \/ q \in pending[session[q]]
      BY <2>4, <3>1 DEF FutureInv, WaiterIsHeld
    <3>4. q \in pending[session[q]] => q \in pending'[session[q]]
      BY <2>2, <3>1, <3>2
    <3> QED
      BY <3>3, <3>4
  <2>7. \A c \in Conns : \A q \in pending'[c] :
           pc'[q] \in {"registered", "waiting", "expired"}
    BY <2>3, <2>4, <2>5 DEF FutureInv, TypeOK
  <2>8. \A q \in Requests : pc'[q] \in {"start", "found"} => q # r /\ pc'[q] = pc[q]
    BY <2>4 DEF TypeOK
  <2>9. \A q \in left : pc'[q] \notin {"start", "found"}
    BY <2>4 DEF FutureInv, TypeOK
  <2> QED
    BY <2>4, <2>5, <2>6, <2>7, <2>8, <2>9 DEF FutureInv
<1>9. CASE WaitExpires(r)
  BY <1>9 DEF WaitExpires, sessionVars,
               FutureInv, WaiterIsHeld, TypeOK
<1> QED
  BY <1>1, <1>2, <1>3, <1>4, <1>5, <1>6, <1>7, <1>8, <1>9 DEF RequestStep

\* close() moves a whole table into the loop and completes it there.
LEMMA FutureClose ==
    ASSUME TypeOK, LoopInv, FutureInv, CloseStep, ConstantsAssumption
    PROVE  FutureInv'
<1>1. CASE CloseAgain
  BY <1>1, FutureStutter DEF CloseAgain, sessionVars, callVars, futureVars
\* The whole table passes into the loop's hands.
<1>2. CASE CloseMark
  <2>1. target \in Conns /\ left = {} /\ left' = pending[target]
    BY <1>2 DEF CloseMark, LoopInv
  <2>2. \A c \in Conns : pending'[c] = IF c = target THEN {} ELSE pending[c]
    BY <1>2, <2>1 DEF CloseMark, TypeOK
  <2>3. \A c \in Conns : closed'[c] => c = target \/ closed[c]
    BY <1>2, <2>1 DEF CloseMark, TypeOK
  <2>4. UNCHANGED <<future, pc, session>>
    BY <1>2 DEF CloseMark, callVars
  <2>5. \A c \in Conns : closed'[c] => pending'[c] = {}
    BY <2>2, <2>3 DEF FutureInv
  <2>6. \A c \in Conns : \A r \in pending'[c] : r \notin left'
    BY <2>1, <2>2 DEF FutureInv
  <2>7. \A r \in left' : pc[r] \notin {"start", "found"} /\ future[r] = "pending"
    BY <2>1 DEF FutureInv
  <2>8. WaiterIsHeld'
    <3> SUFFICES ASSUME NEW r \in Requests, pc[r] \in {"registered", "waiting"},
                        future[r] = "pending"
                 PROVE  r \in left' \/ r \in pending'[session[r]]
      BY <2>4 DEF WaiterIsHeld
    <3>1. r \in pending[session[r]] /\ session[r] \in Conns
      BY <2>1 DEF FutureInv, WaiterIsHeld, LoopInv
    <3> QED
      BY <2>1, <2>2, <3>1
  <2> QED
    BY <2>2, <2>4, <2>5, <2>6, <2>7, <2>8 DEF FutureInv
<1>3. CASE CloseFail
  <2>1. PICK r \in left : /\ future' = [future EXCEPT ![r] = "exception"]
                          /\ left' = left \ {r}
    BY <1>3 DEF CloseFail
  <2> QED
    BY <1>3, <2>1 DEF CloseFail, sessionVars, FutureInv, WaiterIsHeld, TypeOK
<1>4. CASE CloseSentinelPut
  BY <1>4, FutureStutter DEF CloseSentinelPut, callVars, futureVars
<1> QED
  BY <1>1, <1>2, <1>3, <1>4 DEF CloseStep

\* The message loop takes one entry out and completes it.
LEMMA FutureServe ==
    ASSUME TypeOK, LoopInv, FutureInv, NEW c \in Conns, ConstantsAssumption,
           Connect(c) \/ ServeStep(c) \/ GetOutbound(c)
    PROVE  FutureInv'
\* One entry passes from the table into the loop's hands.
<1>1. CASE PopResult(c)
  <2>1. PICK r \in pending[c] :
           /\ pending' = [pending EXCEPT ![c] = @ \ {r}]
           /\ left' = {r}
    BY <1>1 DEF PopResult
  <2>2. left = {} /\ UNCHANGED <<closed, callVars>>
    BY <1>1 DEF PopResult, Received, LoopInv
  <2>3. \A d \in Conns : pending'[d] = IF d = c THEN pending[c] \ {r}
                                        ELSE pending[d]
    BY <2>1 DEF TypeOK
  <2>4. \A d \in Conns : r \notin pending'[d]
    BY <2>1, <2>3 DEF FutureInv
  <2>5. WaiterIsHeld'
    <3> SUFFICES ASSUME NEW q \in Requests, pc[q] \in {"registered", "waiting"},
                        future[q] = "pending"
                 PROVE  q \in left' \/ q \in pending'[session[q]]
      BY <2>2 DEF WaiterIsHeld, callVars
    <3>1. q \in pending[session[q]] /\ session[q] \in Conns
      BY <2>2 DEF FutureInv, WaiterIsHeld, LoopInv
    <3> QED
      BY <2>1, <2>3, <3>1
  <2> QED
    BY <2>1, <2>2, <2>3, <2>4, <2>5 DEF FutureInv, callVars
<1>2. CASE SetResult(c)
  <2>1. PICK r \in left : /\ future' = [future EXCEPT ![r] = "result"]
                          /\ left' = left \ {r}
    BY <1>2 DEF SetResult
  <2> QED
    BY <1>2, <2>1 DEF SetResult, sessionVars, FutureInv, WaiterIsHeld, TypeOK
<1>3. CASE ~PopResult(c) /\ ~SetResult(c)
  <2>1. UNCHANGED futureVars
    BY <1>3 DEF ServeStep, Connect, AcceptFails, RegisterFirst,
                RegisterReplacing, Unregister, ReceiveDisconnect, RejectResult,
                ReceiveReport, ReportSaved, SavingRaises, SendReply,
                SendCommand, ReceiveSentinel, SendRaises, GetOutbound,
                StartServing, Leave, sessionVars, callVars, futureVars
  <2> QED
    BY <2>1, FutureStutter
<1> QED
  BY <1>1, <1>2, <1>3

\* Every step keeps FutureInv.
LEMMA FutureStep ==
    ASSUME TypeOK, LoopInv, FutureInv, ConstantsAssumption, [Next]_vars
    PROVE  FutureInv'
<1>1. CASE \E r \in Requests : RequestStep(r) \/ WaitExpires(r)
  BY <1>1, FutureRequest
<1>2. CASE CloseStep
  BY <1>2, FutureClose
<1>3. CASE \E c \in Conns : Connect(c) \/ ServeStep(c) \/ GetOutbound(c)
  BY <1>3, FutureServe
<1>4. CASE \E c \in Conns : AgentStep(c) \/ BreakLink(c) \/ StopAgent(c)
  BY <1>4, AgentUnchanged, FutureStutter
     DEF futureVars, sessionVars, callVars, loopVars
<1>5. CASE UNCHANGED vars
  BY <1>5, FutureStutter DEF vars, futureVars, sessionVars, callVars, loopVars
<1> QED
  BY <1>1, <1>2, <1>3, <1>4, <1>5 DEF Next, Terminating

\* FutureInv holds for ever.
LEMMA FutureAlways ==
    ASSUME ConstantsAssumption
    PROVE  Spec => []FutureInv
<1>1. Init => FutureInv
  BY FutureInit
<1>2. TypeOK /\ LoopInv /\ FutureInv /\ [Next]_vars => FutureInv'
  BY FutureStep
<1>3. Spec => [](TypeOK /\ LoopInv)
  BY TypeLoopCorrect
<1> QED
  BY <1>1, <1>2, <1>3, PTL DEF Spec

\* No set_result or set_exception finds its future completed already, however
\* results, time-outs, replacements and disconnects interleave.
THEOREM CompletedOnceCorrect ==
    ASSUME ConstantsAssumption
    PROVE  Spec => []CompletedOnce
<1>1. FutureInv => CompletedOnce
  BY DEF FutureInv, CompletedOnce
<1> QED
  BY <1>1, FutureAlways, PTL

\* No waiting caller is ever forgotten by both its session and the loop.
THEOREM NoLostWaiterCorrect ==
    ASSUME ConstantsAssumption
    PROVE  Spec => []NoLostWaiter
<1>1. LoopInv /\ FutureInv => NoLostWaiter
  BY DEF LoopInv, FutureInv, WaiterIsHeld, NoLostWaiter
<1> QED
  BY <1>1, TypeLoopCorrect, FutureAlways, PTL

-----------------------------------------------------------------------------
(* The registry and the connections being served.                          *)

registryVars == <<registry, closed, phase, owner, step, target>>

\* Initially the registry is empty.
LEMMA RegistryInit == ASSUME ConstantsAssumption PROVE Init => RegistryInv
  BY DEF Init, RegistryInv

\* A step that leaves the registry, the closed flags and the phases alone keeps
\* RegistryInv.
LEMMA RegistryStutter ==
    ASSUME RegistryInv, UNCHANGED registryVars
    PROVE  RegistryInv'
BY DEF RegistryInv, registryVars

\* close() marks a session that the registry holds no longer, or its own.
LEMMA RegistryClose ==
    ASSUME TypeOK, LoopInv, RegistryInv, CloseStep, ConstantsAssumption
    PROVE  RegistryInv'
<1>1. /\ step # "idle" /\ owner \in Conns /\ target \in Conns
      /\ phase[owner] \in {"replacing", "leaving", "dropping"}
      /\ phase[owner] = "replacing" =>
            /\ target # owner
            /\ LocationOf[target] = LocationOf[owner]
            /\ phase[target] \in ServingPhases
      /\ phase[owner] # "replacing" => target = owner
      /\ \A c \in Conns : phase[c] \in HoldingPhases <=> owner = c
  BY DEF CloseStep, CloseAgain, CloseMark, CloseFail, CloseSentinelPut,
         LoopInv, RegistryInv
<1>2. ASSUME AfterClose, closed[target], UNCHANGED <<registry, closed>>
      PROVE  RegistryInv'
  <2>1. step' = "idle"
    BY <1>2 DEF AfterClose
  <2>2. CASE phase[owner] = "replacing"
    <3>1. phase' = [phase EXCEPT ![owner] = "serving"]
      BY <1>2, <2>2 DEF AfterClose, StartServing
    <3>2. registry[LocationOf[owner]] = owner
      BY <1>1, <2>2 DEF RegistryInv
    <3> QED
      BY <1>1, <1>2, <2>1, <2>2, <3>1, <3>2 DEF RegistryInv, TypeOK
  <2>3. CASE phase[owner] = "leaving"
    <3>1. phase' = [phase EXCEPT ![owner] = "unregistering"]
      BY <1>2, <2>3 DEF AfterClose
    <3> QED
      BY <1>1, <1>2, <2>1, <2>3, <3>1 DEF RegistryInv, TypeOK
  <2>4. CASE phase[owner] = "dropping"
    <3>1. phase' = [phase EXCEPT ![owner] = "gone"]
      BY <1>2, <2>4 DEF AfterClose
    <3>2. registry[LocationOf[owner]] # owner
      BY <1>1, <2>4 DEF RegistryInv
    <3>3. ASSUME NEW l \in Locations PROVE registry[l] # owner
      <4>1. owner # NoConn
        BY <1>1 DEF ConstantsAssumption
      <4>2. registry[l] = owner => LocationOf[owner] = l
        BY <4>1 DEF RegistryInv
      <4> QED
        BY <3>2, <4>2
    <3> QED
      BY <1>1, <1>2, <2>1, <2>4, <3>1, <3>3 DEF RegistryInv, TypeOK
  <2> QED
    BY <1>1, <2>2, <2>3, <2>4
<1>3. CASE CloseAgain
  BY <1>2, <1>3 DEF CloseAgain, sessionVars
<1>4. CASE CloseMark
  <2>1. ~closed[target] /\ step = "mark"
    BY <1>4 DEF CloseMark
  <2>2. phase[owner] # "dropping"
    BY <1>1, <2>1 DEF RegistryInv
  <2>3. ASSUME NEW l \in Locations, phase[owner] = "replacing"
        PROVE  registry[l] # target
    <3>1. registry[LocationOf[owner]] = owner
      BY <1>1, <2>3 DEF RegistryInv
    <3> QED
      BY <1>1, <2>3, <3>1 DEF RegistryInv, ConstantsAssumption
  <2>4. closed'[target] /\ \A c \in Conns : c # target => closed'[c] = closed[c]
    BY <1>1, <1>4 DEF CloseMark, TypeOK
  <2>5. UNCHANGED <<registry, phase, owner, target>> /\ step' = "fail"
    BY <1>4 DEF CloseMark
  <2>6. phase[target] \in ServingPhases \union {"leaving"}
    BY <1>1, <2>2
  <2>7. ASSUME NEW l \in Locations, registry[l] # NoConn
        PROVE  \/ /\ ~closed'[registry[l]]
                  /\ phase[registry[l]] \in ServingPhases \union {"replacing", "resolving"}
               \/ phase[registry[l]] \in {"leaving", "unregistering"}
    <3>1. CASE registry[l] = target
      BY <1>1, <2>2, <2>3, <3>1
    <3>2. CASE registry[l] # target
      BY <2>4, <2>7, <3>2 DEF RegistryInv, TypeOK
    <3> QED
      BY <3>1, <3>2
  <2>8. ASSUME NEW c \in Conns
        PROVE  /\ phase[c] \in ServingPhases =>
                      registry[LocationOf[c]] = c \/ closed'[c]
               /\ phase[c] \in {"offline", "accepted"} => ~closed'[c]
               /\ phase[c] \in {"unregistering", "dropping"} => closed'[c]
    <3>1. CASE c = target
      BY <2>4, <2>6, <3>1
    <3>2. CASE c # target
      BY <2>4, <3>2 DEF RegistryInv
    <3> QED
      BY <3>1, <3>2
  <2> QED
    BY <1>1, <2>4, <2>5, <2>7, <2>8 DEF RegistryInv
<1>5. CASE CloseFail
  BY <1>5, RegistryStutter DEF CloseFail, sessionVars, registryVars
<1>6. CASE CloseSentinelPut
  BY <1>2, <1>6 DEF CloseSentinelPut, RegistryInv
<1> QED
  BY <1>3, <1>4, <1>5, <1>6 DEF CloseStep

\* register(), unregister() and the phases of a connection keep RegistryInv.
LEMMA RegistryServe ==
    ASSUME TypeOK, LoopInv, RegistryInv, NEW c \in Conns, ConstantsAssumption,
           Connect(c) \/ ServeStep(c) \/ GetOutbound(c)
    PROVE  RegistryInv'
<1>1. \A d \in Conns : phase[d] \in HoldingPhases <=> owner = d
  BY DEF LoopInv
<1>2. c # NoConn /\ LocationOf[c] \in Locations
  BY DEF ConstantsAssumption
\* A coroutine that moves between phases in which it holds nothing.
<1>3. ASSUME UNCHANGED <<registry, closed, owner, step, target>>,
             phase[c] \in ServingPhases, NEW p \in ServingPhases,
             phase' = [phase EXCEPT ![c] = p]
      PROVE  RegistryInv'
  BY <1>1, <1>2, <1>3 DEF RegistryInv, TypeOK
<1>4. ASSUME owner = NoConn, phase[c] \in ServingPhases, Leave(c),
             UNCHANGED <<registry, closed>>
      PROVE  RegistryInv'
  BY <1>1, <1>2, <1>4 DEF RegistryInv, TypeOK, Leave, LoopInv
<1>5. CASE Connect(c) \/ AcceptFails(c)
  <2>1. /\ owner = NoConn /\ phase[c] \in {"offline", "accepted"}
        /\ UNCHANGED <<registry, closed, owner, step, target>>
    BY <1>5 DEF Connect, AcceptFails, sessionVars
  <2>2. PICK p \in {"accepted", "gone"} : phase' = [phase EXCEPT ![c] = p]
    BY <1>5 DEF Connect, AcceptFails
  <2>3. ~closed[c] /\ step = "idle"
    BY <2>1 DEF RegistryInv, LoopInv
  <2>4. \A l \in Locations : registry[l] # c
    BY <1>2, <2>1 DEF RegistryInv
  <2> QED
    BY <2>1, <2>2, <2>3, <2>4 DEF RegistryInv, TypeOK
<1>6. CASE RegisterFirst(c)
  BY <1>1, <1>2, <1>6 DEF RegisterFirst, StartServing, RegistryInv, TypeOK,
                          LoopInv, sessionVars, ConstantsAssumption
<1>7. CASE RegisterReplacing(c)
  BY <1>1, <1>2, <1>7 DEF RegisterReplacing, RegistryInv, TypeOK, LoopInv,
                          sessionVars, ConstantsAssumption
<1>8. CASE Unregister(c)
  BY <1>1, <1>2, <1>8 DEF Unregister, RegistryInv, TypeOK, LoopInv,
                          sessionVars, ConstantsAssumption
<1>9. CASE ReceiveDisconnect(c) \/ ReceiveSentinel(c) \/ SavingRaises(c)
           \/ SendRaises(c)
  BY <1>4, <1>9 DEF ReceiveDisconnect, ReceiveSentinel, SavingRaises,
                    SendRaises, AtOutbound, sessionVars
<1>10. CASE RejectResult(c) \/ ReceiveReport(c) \/ ReportSaved(c)
            \/ SendReply(c) \/ SendCommand(c)
  BY <1>3, <1>10 DEF RejectResult, ReceiveReport, Received, ReportSaved,
                     SendReply, SendCommand, AtOutbound, sessionVars
<1>11. CASE PopResult(c)
  BY <1>1, <1>2, <1>11 DEF PopResult, Received, RegistryInv, TypeOK, LoopInv
<1>12. CASE SetResult(c)
  BY <1>1, <1>2, <1>12 DEF SetResult, RegistryInv, TypeOK, LoopInv, sessionVars
<1>13. CASE GetOutbound(c)
  BY <1>13, RegistryStutter DEF GetOutbound, registryVars
<1> QED
  BY <1>5, <1>6, <1>7, <1>8, <1>9, <1>10, <1>11, <1>12, <1>13 DEF ServeStep

\* Every step keeps RegistryInv.
LEMMA RegistryStep ==
    ASSUME TypeOK, LoopInv, RegistryInv, ConstantsAssumption, [Next]_vars
    PROVE  RegistryInv'
<1>1. CASE \E r \in Requests : RequestStep(r) \/ WaitExpires(r)
  <2>1. UNCHANGED registryVars
    BY <1>1 DEF RequestStep, LookupFound, LookupMissing, AddPending,
                RefuseClosed, PutMessage, TakeResult, TakeException,
                ForgetPending, WaitExpires, registryVars, sessionVars, loopVars
  <2> QED
    BY <2>1, RegistryStutter
<1>2. CASE CloseStep
  BY <1>2, RegistryClose
<1>3. CASE \E c \in Conns : Connect(c) \/ ServeStep(c) \/ GetOutbound(c)
  BY <1>3, RegistryServe
<1>4. CASE \E c \in Conns : AgentStep(c) \/ BreakLink(c) \/ StopAgent(c)
  BY <1>4, AgentUnchanged, RegistryStutter
     DEF registryVars, sessionVars, callVars, loopVars
<1>5. CASE UNCHANGED vars
  BY <1>5, RegistryStutter DEF vars, registryVars, sessionVars, loopVars
<1> QED
  BY <1>1, <1>2, <1>3, <1>4, <1>5 DEF Next, Terminating

\* RegistryInv holds for ever.
LEMMA RegistryAlways ==
    ASSUME ConstantsAssumption
    PROVE  Spec => []RegistryInv
<1>1. Init => RegistryInv
  BY RegistryInit
<1>2. TypeOK /\ LoopInv /\ RegistryInv /\ [Next]_vars => RegistryInv'
  BY RegistryStep
<1>3. Spec => [](TypeOK /\ LoopInv)
  BY TypeLoopCorrect
<1> QED
  BY <1>1, <1>2, <1>3, PTL DEF Spec

\* Whenever the event loop is idle, the registry holds an open session of the
\* right location, and no other session lives on unclosed: a late unregister
\* never removes its successor, and no connection is served in vain.
THEOREM RegistryMatchesLoopsCorrect ==
    ASSUME ConstantsAssumption
    PROVE  Spec => []RegistryMatchesLoops
<1>1. TypeOK /\ LoopInv /\ RegistryInv => RegistryMatchesLoops
  BY DEF TypeOK, LoopInv, RegistryInv, RegistryMatchesLoops
<1>2. Spec => [](TypeOK /\ LoopInv) /\ []RegistryInv
  BY TypeLoopCorrect, RegistryAlways
<1> QED
  BY <1>1, <1>2, PTL

-----------------------------------------------------------------------------
(* Where messages and results are.                                         *)

\* s is a stretch of t: what is left of t when frames are lost at its ends.
Stretch(s, t) ==
    \E k \in Nat : \A i \in DOMAIN s : i + k \in DOMAIN t /\ s[i] = t[i + k]

\* What a prefix holds.
LEMMA PrefixStretch ==
    ASSUME NEW S, NEW t \in Seq(S), NEW s \in Prefixes(t)
    PROVE  Stretch(s, t)
<1>1. PICK n \in 0 .. Len(t) : s = SubSeq(t, 1, n)
  BY DEF Prefixes
<1>2. \A i \in 1 .. n : t[i] \in S
  BY <1>1, ElementOfSeq
<1>3. DOMAIN s = 1 .. n /\ \A i \in 1 .. n : s[i] = t[i]
  BY <1>1, <1>2, SubSeqProperties
<1>4. \A i \in DOMAIN s : i + 0 \in DOMAIN t /\ s[i] = t[i + 0]
  BY <1>1, <1>3
<1> QED
  BY <1>4 DEF Stretch

\* What is left once the first frame is read.
LEMMA TailStretch ==
    ASSUME NEW S, NEW t \in Seq(S), t # <<>>
    PROVE  /\ Stretch(Tail(t), t)
           /\ 1 \in DOMAIN t /\ Head(t) = t[1] /\ Head(t) \in S
           /\ Tail(t) \in Seq(S)
           /\ \A i \in DOMAIN Tail(t) : i + 1 \in DOMAIN t /\ Tail(t)[i] = t[i + 1]
<1>1. \A i \in DOMAIN Tail(t) : i + 1 \in DOMAIN t /\ Tail(t)[i] = t[i + 1]
  BY HeadTailProperties
<1>2. 1 \in DOMAIN t /\ Head(t) = t[1] /\ Head(t) \in S /\ Tail(t) \in Seq(S)
  BY HeadTailProperties
<1> QED
  BY <1>1, <1>2 DEF Stretch

\* Nothing is left.
LEMMA EmptyStretch == ASSUME NEW t PROVE Stretch(<<>>, t)
BY DEF Stretch

\* Where the frames are once another is sent behind them.
LEMMA AppendAt ==
    ASSUME NEW S, NEW t \in Seq(S), NEW x \in S
    PROVE  /\ Append(t, x) \in Seq(S)
           /\ \A i \in DOMAIN Append(t, x) :
                 \/ i \in DOMAIN t /\ Append(t, x)[i] = t[i]
                 \/ i = Len(t) + 1 /\ Append(t, x)[i] = x
           /\ \A i \in DOMAIN t : i < Len(t) + 1
BY AppendProperties

\* A dispatched request stays with its session.
LEMMA DispatchedStays ==
    ASSUME TypeOK, [Next]_vars, NEW r \in Requests,
           pc[r] \in {"waiting", "expired", "done"}
    PROVE  pc'[r] \in {"waiting", "expired", "done"} /\ session'[r] = session[r]
<1>1. CASE \E q \in Requests : RequestStep(q) \/ WaitExpires(q)
  BY <1>1 DEF RequestStep, LookupFound, LookupMissing, AddPending, RefuseClosed,
              PutMessage, TakeResult, TakeException, ForgetPending, WaitExpires,
              Return, TypeOK
<1>2. CASE CloseStep
  BY <1>2 DEF CloseStep, CloseAgain, CloseMark, CloseFail, CloseSentinelPut,
              callVars
<1>3. CASE \E d \in Conns : Connect(d) \/ ServeStep(d) \/ GetOutbound(d)
  BY <1>3 DEF ServeStep, Connect, AcceptFails, RegisterFirst, RegisterReplacing,
              Unregister, ReceiveDisconnect, RejectResult, PopResult, SetResult,
              ReceiveReport, ReportSaved, SavingRaises, SendReply, SendCommand,
              ReceiveSentinel, SendRaises, GetOutbound, callVars
<1>4. CASE \E d \in Conns : AgentStep(d) \/ BreakLink(d) \/ StopAgent(d)
  BY <1>4, AgentUnchanged DEF callVars
<1>5. CASE UNCHANGED vars
  BY <1>5 DEF vars, callVars
<1> QED
  BY <1>1, <1>2, <1>3, <1>4, <1>5 DEF Next, Terminating

USE DEF Dispatched, Unsent

messageVars == <<outbound, outItem, toAgent, executed>>

\* Initially nothing is under way.
LEMMA MessageInit == ASSUME ConstantsAssumption PROVE Init => MessageInv
  BY DEF Init, MessageInv, ConstantsAssumption

\* A step that moves no message keeps MessageInv.
LEMMA MessageStutter ==
    ASSUME TypeOK, MessageInv, [Next]_vars, UNCHANGED messageVars
    PROVE  MessageInv'
<1>1. \A r \in Requests : pc[r] \in {"waiting", "expired", "done"} =>
         pc'[r] \in {"waiting", "expired", "done"} /\ session'[r] = session[r]
  BY DispatchedStays
<1> QED
  BY <1>1 DEF MessageInv, messageVars, InPlace, OnWire

\* Frames to the agent are only lost, or read and ignored.
LEMMA MessageLost ==
    ASSUME TypeOK, MessageInv, [Next]_vars, NEW c \in Conns,
           NEW s \in Seq(Requests \union {Reply}),
           toAgent' = [toAgent EXCEPT ![c] = s], Stretch(s, toAgent[c]),
           UNCHANGED <<outbound, outItem, executed>>
    PROVE  MessageInv'
<1>1. \A r \in Requests : pc[r] \in {"waiting", "expired", "done"} =>
         pc'[r] \in {"waiting", "expired", "done"} /\ session'[r] = session[r]
  BY DispatchedStays
<1>2. PICK k \in Nat : \A i \in DOMAIN s :
                          i + k \in DOMAIN toAgent[c] /\ s[i] = toAgent[c][i + k]
  BY DEF Stretch
<1>3. \A d \in Conns : toAgent'[d] = IF d = c THEN s ELSE toAgent[d]
  BY DEF TypeOK
<1>4. DOMAIN s \subseteq Int
  OBVIOUS
<1>5. ASSUME NEW i \in DOMAIN s, s[i] \in Requests
      PROVE  /\ s[i] = toAgent[c][i + k] /\ i + k \in DOMAIN toAgent[c]
             /\ InPlace(s, i)
  <2>1. InPlace(toAgent[c], i + k)
    BY <1>2, <1>5 DEF MessageInv
  <2> QED
    BY <1>2, <1>4, <2>1 DEF InPlace
<1>6. \A d \in Conns, r \in Requests :
         (\E i \in DOMAIN toAgent'[d] : toAgent'[d][i] = r) => OnWire(r, d)
  BY <1>2, <1>3 DEF OnWire
<1>7. ASSUME NEW d \in Conns, NEW i \in DOMAIN toAgent'[d], toAgent'[d][i] \in Requests
      PROVE  Unsent(toAgent'[d][i], d) /\ InPlace(toAgent'[d], i)
  BY <1>3, <1>5, <1>7 DEF MessageInv
<1> QED
  BY <1>1, <1>6, <1>7 DEF MessageInv, OnWire, InPlace

\* A request thread puts a message that is nowhere yet.
LEMMA MessageRequest ==
    ASSUME TypeOK, LoopInv, MessageInv, ResultInv, [Next]_vars, NEW r \in Requests,
           RequestStep(r) \/ WaitExpires(r), ConstantsAssumption
    PROVE  MessageInv'
<1>1. CASE PutMessage(r)
  <2> DEFINE c == session[r]
             q == Append(outbound[c], r)
  <2>1. /\ pc[r] = "registered" /\ c \in Conns
        /\ pc' = [pc EXCEPT ![r] = "waiting"]
        /\ outbound' = [outbound EXCEPT ![c] = q]
        /\ UNCHANGED <<session, outItem, toAgent, executed>>
    BY <1>1 DEF PutMessage, loopVars, wireVars, agentVars, LoopInv
  <2>2. /\ \A i \in DOMAIN q : \/ i \in DOMAIN outbound[c] /\ q[i] = outbound[c][i]
                               \/ i = Len(outbound[c]) + 1 /\ q[i] = r
    BY <2>1, AppendAt DEF TypeOK
  <2>3. \A d \in Conns : outbound'[d] = IF d = c THEN q ELSE outbound[d]
    BY <2>1 DEF TypeOK
  <2>4. /\ \A d \in Conns : ~Unsent(r, d)
        /\ r \notin executed
    BY <2>1 DEF ResultInv, ExecutedBy
  <2>5. /\ \A d \in Conns : \A i \in DOMAIN outbound[d] : outbound[d][i] # r
        /\ \A d \in Conns : outItem[d] # r
        /\ \A d \in Conns : ~OnWire(r, d)
    BY <2>4 DEF MessageInv, OnWire
  <2>6. \A p \in Requests : pc[p] \in {"waiting", "expired", "done"} =>
           pc'[p] \in {"waiting", "expired", "done"}
    BY DispatchedStays
  <2>7. ASSUME NEW i \in DOMAIN q, q[i] \in Requests
        PROVE  /\ session[q[i]] = c /\ pc'[q[i]] \in {"waiting", "expired", "done"}
               /\ q[i] \notin executed /\ InPlace(q, i)
               /\ q[i] # outItem[c] /\ ~OnWire(q[i], c)
    <3>1. CASE i \in DOMAIN outbound[c] /\ q[i] = outbound[c][i]
      <4>1. InPlace(q, i)
        BY <2>1, <2>2, <2>5, <3>1, <2>7 DEF MessageInv, InPlace
      <4> QED
        BY <2>1, <2>6, <3>1, <4>1, <2>7 DEF MessageInv
    <3>2. CASE i = Len(outbound[c]) + 1 /\ q[i] = r
      <4>1. InPlace(q, i)
        BY <2>1, <2>2, <2>5, <3>2 DEF InPlace
      <4> QED
        BY <2>1, <2>4, <2>5, <3>2, <4>1 DEF TypeOK
    <3> QED
      BY <2>2, <2>7, <3>1, <3>2
  <2> HIDE DEF q
  <2> QED
    BY <2>1, <2>3, <2>6, <2>7 DEF MessageInv, InPlace, OnWire
<1>2. CASE ~PutMessage(r)
  <2>1. UNCHANGED messageVars
    BY <1>2 DEF RequestStep, LookupFound, LookupMissing, AddPending, RefuseClosed,
                TakeResult, TakeException, ForgetPending, WaitExpires,
                sessionVars, loopVars, wireVars, agentVars, messageVars
  <2> QED
    BY <2>1, MessageStutter
<1> QED
  BY <1>1, <1>2

\* close() puts nothing but its sentinel.
LEMMA MessageClose ==
    ASSUME TypeOK, LoopInv, MessageInv, [Next]_vars, CloseStep, ConstantsAssumption
    PROVE  MessageInv'
<1>1. CASE CloseSentinelPut
  <2> DEFINE q == Append(outbound[target], CloseSentinel)
  <2>1. /\ target \in Conns
        /\ outbound' = [outbound EXCEPT ![target] = q]
        /\ UNCHANGED <<pc, session, outItem, toAgent, executed>>
    BY <1>1 DEF CloseSentinelPut, LoopInv, callVars, agentVars
  <2>2. \A i \in DOMAIN q :
           \/ i \in DOMAIN outbound[target] /\ q[i] = outbound[target][i]
           \/ q[i] = CloseSentinel
    BY <2>1, AppendAt DEF TypeOK
  <2>3. \A d \in Conns : outbound'[d] = IF d = target THEN q ELSE outbound[d]
    BY <2>1 DEF TypeOK
  <2>4. CloseSentinel \notin Requests
    BY DEF ConstantsAssumption
  <2> HIDE DEF q
  <2>5. ASSUME NEW i \in DOMAIN q, q[i] \in Requests
        PROVE  /\ i \in DOMAIN outbound[target] /\ q[i] = outbound[target][i]
               /\ InPlace(q, i)
    BY <2>1, <2>2, <2>4, <2>5 DEF MessageInv, InPlace
  <2> QED
    BY <2>1, <2>3, <2>5 DEF MessageInv, InPlace, OnWire
<1>2. CASE ~CloseSentinelPut
  <2>1. UNCHANGED messageVars
    BY <1>2 DEF CloseStep, CloseAgain, CloseMark, CloseFail, sessionVars,
                wireVars, agentVars, messageVars
  <2> QED
    BY <2>1, MessageStutter
<1> QED
  BY <1>1, <1>2

\* A message leaves its queue when the loop's task takes it, and the loop's hands
\* when it is sent.
LEMMA MessageServe ==
    ASSUME TypeOK, MessageInv, [Next]_vars, NEW c \in Conns, ConstantsAssumption,
           Connect(c) \/ ServeStep(c) \/ GetOutbound(c)
    PROVE  MessageInv'
<1>1. CASE GetOutbound(c)
  <2> DEFINE q == outbound[c]
             h == Head(q)
             t == Tail(q)
  <2>1. /\ q # <<>> /\ q \in Seq(Items)
        /\ outItem' = [outItem EXCEPT ![c] = h]
        /\ outbound' = [outbound EXCEPT ![c] = t]
        /\ UNCHANGED <<pc, session, toAgent, executed>>
    BY <1>1 DEF GetOutbound, callVars, wireVars, agentVars, TypeOK
  <2>2. /\ 1 \in DOMAIN q /\ h = q[1]
        /\ \A i \in DOMAIN t : i + 1 \in DOMAIN q /\ t[i] = q[i + 1]
        /\ DOMAIN t \subseteq Nat \ {0}
    BY <2>1, TailStretch, HeadTailProperties
  <2>3. \A d \in Conns : /\ outbound'[d] = IF d = c THEN t ELSE outbound[d]
                         /\ outItem'[d] = IF d = c THEN h ELSE outItem[d]
    BY <2>1 DEF TypeOK
  <2>4. ASSUME NEW i \in DOMAIN t, t[i] \in Requests
        PROVE  /\ Unsent(t[i], c) /\ InPlace(t, i)
               /\ t[i] # h /\ ~OnWire(t[i], c)
    <3>1. InPlace(q, i + 1) /\ i + 1 # 1 /\ t[i] = q[i + 1]
          /\ i + 1 \in DOMAIN q
      BY <2>2, <2>4 DEF MessageInv
    <3>2. InPlace(t, i)
      BY <2>2, <3>1 DEF InPlace
    <3> QED
      BY <2>2, <2>4, <3>1, <3>2 DEF MessageInv, InPlace
  <2>5. h \in Requests => Unsent(h, c) /\ ~OnWire(h, c)
    BY <2>2 DEF MessageInv
  <2> HIDE DEF q, h, t
  <2> QED
    BY <2>1, <2>3, <2>4, <2>5 DEF MessageInv, InPlace, OnWire
<1>2. CASE SendCommand(c) /\ link[c] = "up"
  <2> DEFINE r == outItem[c]
             w == Append(toAgent[c], r)
  <2>1. /\ r \in Requests
        /\ toAgent' = [toAgent EXCEPT ![c] = w]
        /\ outItem' = [outItem EXCEPT ![c] = NoItem]
        /\ UNCHANGED <<pc, session, outbound, executed>>
    BY <1>2 DEF SendCommand, Transmit, sessionVars, callVars, agentVars
  <2>2. /\ DOMAIN toAgent[c] \subseteq Int
        /\ \A i \in DOMAIN w : \/ i \in DOMAIN toAgent[c] /\ w[i] = toAgent[c][i]
                               \/ i = Len(toAgent[c]) + 1 /\ w[i] = r
    BY <2>1, AppendAt DEF TypeOK
  <2>3. \A d \in Conns : /\ toAgent'[d] = IF d = c THEN w ELSE toAgent[d]
                         /\ outItem'[d] = IF d = c THEN NoItem ELSE outItem[d]
    BY <2>1 DEF TypeOK
  <2>4. Unsent(r, c) /\ ~OnWire(r, c) /\ NoItem \notin Requests
    BY <2>1 DEF MessageInv, ConstantsAssumption
  <2>5. ASSUME NEW i \in DOMAIN w, w[i] \in Requests
        PROVE  Unsent(w[i], c) /\ InPlace(w, i)
    <3>1. CASE i \in DOMAIN toAgent[c] /\ w[i] = toAgent[c][i]
      BY <2>2, <2>4, <2>5, <3>1 DEF MessageInv, InPlace, OnWire
    <3>2. CASE i = Len(toAgent[c]) + 1 /\ w[i] = r
      BY <2>2, <2>4, <3>2 DEF InPlace, OnWire
    <3> QED
      BY <2>2, <3>1, <3>2
  <2>6. ASSUME NEW i \in DOMAIN outbound[c], outbound[c][i] \in Requests
        PROVE  \A j \in DOMAIN w : w[j] # outbound[c][i]
    BY <2>2, <2>6 DEF MessageInv, OnWire
  <2> HIDE DEF w
  <2> QED
    BY <2>1, <2>3, <2>4, <2>5, <2>6 DEF MessageInv, InPlace, OnWire
<1>3. CASE SendCommand(c) /\ link[c] # "up"
  <2>1. /\ outItem' = [outItem EXCEPT ![c] = NoItem]
        /\ UNCHANGED <<pc, session, outbound, toAgent, executed>>
    BY <1>3 DEF SendCommand, Transmit, sessionVars, callVars, agentVars
  <2>2. \A d \in Conns : outItem'[d] = IF d = c THEN NoItem ELSE outItem[d]
    BY <2>1 DEF TypeOK
  <2>3. NoItem \notin Requests
    BY DEF ConstantsAssumption
  <2> QED
    BY <2>1, <2>2, <2>3 DEF MessageInv, InPlace, OnWire
<1>4. CASE SendReply(c) /\ link[c] = "up"
  <2> DEFINE w == Append(toAgent[c], Reply)
  <2>1. /\ toAgent' = [toAgent EXCEPT ![c] = w]
        /\ UNCHANGED <<pc, session, outbound, outItem, executed>>
    BY <1>4 DEF SendReply, Transmit, sessionVars, callVars, agentVars
  <2>2. \A i \in DOMAIN w : \/ i \in DOMAIN toAgent[c] /\ w[i] = toAgent[c][i]
                            \/ w[i] = Reply
    BY <2>1, AppendAt DEF TypeOK
  <2>3. \A d \in Conns : toAgent'[d] = IF d = c THEN w ELSE toAgent[d]
    BY <2>1 DEF TypeOK
  <2>4. Reply \notin Requests
    BY DEF ConstantsAssumption
  <2> HIDE DEF w
  <2>5. ASSUME NEW i \in DOMAIN w, w[i] \in Requests
        PROVE  Unsent(w[i], c) /\ InPlace(w, i)
    BY <2>2, <2>4, <2>5 DEF MessageInv, InPlace
  <2>6. ASSUME NEW r \in Requests, ~OnWire(r, c)
        PROVE  \A j \in DOMAIN w : w[j] # r
    BY <2>2, <2>4, <2>6 DEF OnWire
  <2> QED
    BY <2>1, <2>3, <2>5, <2>6 DEF MessageInv, InPlace, OnWire
<1>5. CASE SendReply(c) /\ link[c] # "up"
  BY <1>5, MessageStutter DEF SendReply, Transmit, sessionVars, agentVars, messageVars
<1>6. CASE ~GetOutbound(c) /\ ~SendCommand(c) /\ ~SendReply(c)
  <2>1. UNCHANGED messageVars
    BY <1>6 DEF ServeStep, Connect, AcceptFails, RegisterFirst,
                RegisterReplacing, Unregister, ReceiveDisconnect, RejectResult,
                PopResult, SetResult, ReceiveReport, ReportSaved, SavingRaises,
                ReceiveSentinel, SendRaises, sessionVars, wireVars, agentVars,
                messageVars
  <2> QED
    BY <2>1, MessageStutter
<1> QED
  BY <1>1, <1>2, <1>3, <1>4, <1>5, <1>6

\* Taken by the agent, a message is nowhere any more.
LEMMA MessageAgent ==
    ASSUME TypeOK, MessageInv, [Next]_vars, NEW c \in Conns, ConstantsAssumption,
           AgentStep(c) \/ BreakLink(c) \/ StopAgent(c)
    PROVE  MessageInv'
<1>1. CASE TakeCommand(c)
  <2> DEFINE q == toAgent[c]
             h == Head(q)
             t == Tail(q)
  <2>1. /\ q # <<>> /\ q \in Seq(Requests \union {Reply}) /\ h \in Requests
        /\ toAgent' = [toAgent EXCEPT ![c] = t]
        /\ executed' = executed \union {h}
        /\ UNCHANGED <<pc, session, outbound, outItem>>
    BY <1>1 DEF TakeCommand, AgentReads, sessionVars, callVars, loopVars, TypeOK
  <2>2. /\ 1 \in DOMAIN q /\ h = q[1]
        /\ \A i \in DOMAIN t : i + 1 \in DOMAIN q /\ t[i] = q[i + 1]
        /\ DOMAIN t \subseteq Nat \ {0}
    BY <2>1, TailStretch, HeadTailProperties
  <2>3. \A d \in Conns : toAgent'[d] = IF d = c THEN t ELSE toAgent[d]
    BY <2>1 DEF TypeOK
  <2>4. /\ Unsent(h, c) /\ OnWire(h, c)
        /\ \A j \in DOMAIN q : j # 1 => q[j] # h
    BY <2>1, <2>2 DEF MessageInv, InPlace, OnWire
  <2>5. ASSUME NEW i \in DOMAIN t, t[i] \in Requests
        PROVE  Unsent(t[i], c) /\ InPlace(t, i) /\ t[i] # h /\ OnWire(t[i], c)
    <3>1. InPlace(q, i + 1) /\ i + 1 # 1 /\ t[i] = q[i + 1]
          /\ i + 1 \in DOMAIN q
      BY <2>2, <2>5 DEF MessageInv
    <3>2. InPlace(t, i)
      BY <2>2, <3>1 DEF InPlace
    <3> QED
      BY <2>2, <2>4, <2>5, <3>1, <3>2 DEF MessageInv, OnWire
  \* h is neither in c's queue nor in the hands of its loop, and it belongs to c.
  <2>6. /\ \A d \in Conns : \A i \in DOMAIN outbound[d] : outbound[d][i] # h
        /\ \A d \in Conns : outItem[d] # h
        /\ \A d \in Conns \ {c} : ~OnWire(h, d)
    BY <2>1, <2>4 DEF MessageInv, OnWire
  <2> HIDE DEF q, h, t
  <2> QED
    BY <2>1, <2>3, <2>5, <2>6 DEF MessageInv, InPlace, OnWire
<1>2. CASE IgnoreReply(c) \/ EndExchange(c)
  <2>1. /\ toAgent[c] # <<>> /\ toAgent[c] \in Seq(Requests \union {Reply})
        /\ toAgent' = [toAgent EXCEPT ![c] = Tail(toAgent[c])]
        /\ UNCHANGED <<outbound, outItem, executed>>
    BY <1>2 DEF IgnoreReply, EndExchange, AgentReads, sessionVars, loopVars,
                agentVars, TypeOK
  <2>2. /\ Stretch(Tail(toAgent[c]), toAgent[c])
        /\ Tail(toAgent[c]) \in Seq(Requests \union {Reply})
    BY <2>1, TailStretch
  <2> QED
    BY <2>1, <2>2, MessageLost
<1>3. CASE BreakLink(c) \/ StopAgent(c)
  <2>1. UNCHANGED <<outbound, outItem, executed>>
    BY <1>3 DEF BreakLink, StopAgent, sessionVars, loopVars, agentVars
  <2>2. PICK s \in Prefixes(toAgent[c]) \union {<<>>} :
                toAgent' = [toAgent EXCEPT ![c] = s]
    BY <1>3 DEF BreakLink, StopAgent
  <2>3. Stretch(s, toAgent[c]) /\ s \in Seq(Requests \union {Reply})
    <3>1. toAgent[c] \in Seq(Requests \union {Reply})
      BY DEF TypeOK
    <3>2. CASE s \in Prefixes(toAgent[c])
      BY <3>1, <3>2, PrefixStretch, PrefixType
    <3>3. CASE s = <<>>
      BY <3>3, EmptyStretch
    <3> QED
      BY <3>2, <3>3
  <2> QED
    BY <2>1, <2>2, <2>3, MessageLost
<1>4. CASE SendResult(c) \/ AgentEof(c)
  <2>1. UNCHANGED messageVars
    BY <1>4 DEF SendResult, AgentEof, sessionVars, loopVars, wireVars, messageVars
  <2> QED
    BY <2>1, MessageStutter
<1> QED
  BY <1>1, <1>2, <1>3, <1>4 DEF AgentStep

\* Every step keeps MessageInv.
LEMMA MessageStep ==
    ASSUME TypeOK, LoopInv, MessageInv, ResultInv, ConstantsAssumption, [Next]_vars
    PROVE  MessageInv'
<1>1. CASE \E r \in Requests : RequestStep(r) \/ WaitExpires(r)
  BY <1>1, MessageRequest
<1>2. CASE CloseStep
  BY <1>2, MessageClose
<1>3. CASE \E c \in Conns : Connect(c) \/ ServeStep(c) \/ GetOutbound(c)
  BY <1>3, MessageServe
<1>4. CASE \E c \in Conns : AgentStep(c) \/ BreakLink(c) \/ StopAgent(c)
  BY <1>4, MessageAgent
<1>5. CASE UNCHANGED vars
  BY <1>5, MessageStutter
     DEF vars, messageVars, sessionVars, loopVars, wireVars, agentVars
<1> QED
  BY <1>1, <1>2, <1>3, <1>4, <1>5 DEF Next, Terminating

-----------------------------------------------------------------------------
(* Whose results are under way.                                            *)

USE DEF ExecutedBy

\* Initially nothing was carried out.
LEMMA ResultInit == ASSUME ConstantsAssumption PROVE Init => ResultInv
  BY DEF Init, ResultInv, ConstantsAssumption

\* What was carried out stays so, at the end of the same session.
LEMMA ExecutedStays ==
    ASSUME TypeOK, [Next]_vars, executed \subseteq executed', NEW r \in Requests,
           NEW c \in Conns, ExecutedBy(r, c)
    PROVE  /\ r \in executed' /\ c \in ControlConns /\ session'[r] = c
           /\ pc'[r] \in {"waiting", "expired", "done"}
BY DispatchedStays

\* A request thread takes the answer that its future holds.
LEMMA ResultRequest ==
    ASSUME TypeOK, LoopInv, FutureInv, RegistryInv, ResultInv, [Next]_vars,
           NEW r \in Requests, RequestStep(r) \/ WaitExpires(r), ConstantsAssumption
    PROVE  ResultInv'
<1>1. UNCHANGED <<future, left, owner, phase, step, target, job, toPortal, executed>>
  BY DEF RequestStep, LookupFound, LookupMissing, AddPending, RefuseClosed,
         PutMessage, TakeResult, TakeException, ForgetPending, WaitExpires,
         loopVars, wireVars, agentVars
<1>2. \A q \in Requests : q # r => /\ session'[q] = session[q]
                                   /\ pc'[q] = pc[q] /\ outcome'[q] = outcome[q]
  BY DEF RequestStep, LookupFound, LookupMissing, AddPending, RefuseClosed,
         PutMessage, TakeResult, TakeException, ForgetPending, WaitExpires,
         Return, TypeOK
<1>3. /\ outcome'[r] = "ok" => future[r] = "result"
      /\ outcome'[r] = "none" <=> pc'[r] # "done"
  BY DEF RequestStep, LookupFound, LookupMissing, AddPending, RefuseClosed,
         PutMessage, TakeResult, TakeException, ForgetPending, WaitExpires,
         Return, ResultInv, TypeOK
<1>4. session'[r] # session[r] =>
         /\ pc[r] = "start"
         /\ session'[r] # NoConn /\ LocationOf[session'[r]] = TargetOf[r]
  BY DEF RequestStep, LookupFound, LookupMissing, AddPending, RefuseClosed,
         PutMessage, TakeResult, TakeException, ForgetPending, WaitExpires,
         RegistryInv, TypeOK, ConstantsAssumption
<1>5. r \in left => session'[r] = session[r]
  BY <1>4 DEF FutureInv
<1>6. \A q \in Requests, c \in Conns : ExecutedBy(q, c) =>
         /\ q \in executed' /\ c \in ControlConns /\ session'[q] = c
         /\ pc'[q] \in {"waiting", "expired", "done"}
  BY <1>1, ExecutedStays
<1>7. left \subseteq Requests /\ executed \subseteq Requests
  BY DEF TypeOK
<1>8. /\ \A q \in executed' : (\E c \in Conns : ExecutedBy(q, c))'
      /\ \A c \in Conns :
          /\ job'[c] \in Requests => ExecutedBy(job[c], c)'
          /\ \A i \in DOMAIN toPortal'[c] :
                toPortal'[c][i] \in Requests => ExecutedBy(toPortal[c][i], c)'
  BY <1>1, <1>6, <1>7 DEF ResultInv
<1>9. \A q \in left' :
          /\ owner' # NoConn /\ phase'[owner'] = "resolving" => ExecutedBy(q, owner)'
          /\ step' = "fail" => session'[q] = target'
  BY <1>1, <1>2, <1>5, <1>6, <1>7 DEF ResultInv, TypeOK
<1>10. \A q \in Requests :
          /\ future'[q] = "result" => q \in executed'
          /\ outcome'[q] = "ok" => future'[q] = "result"
          /\ outcome'[q] = "none" <=> pc'[q] # "done"
          /\ session'[q] # NoConn => LocationOf[session'[q]] = TargetOf[q]
  BY <1>1, <1>2, <1>3, <1>4 DEF ResultInv
<1> QED
  BY <1>8, <1>9, <1>10 DEF ResultInv

\* What is left to show of ResultInv when the callers do not move.
LEMMA ResultKept ==
    ASSUME TypeOK, ResultInv, [Next]_vars, executed' = executed, job' = job,
           UNCHANGED <<session, outcome, pc>>,
           \A c \in Conns : \A i \in DOMAIN toPortal'[c] :
              toPortal'[c][i] \in Requests => \E j \in DOMAIN toPortal[c] :
                                                  toPortal'[c][i] = toPortal[c][j],
           \A r \in left' :
              /\ owner' # NoConn /\ phase'[owner'] = "resolving" =>
                    /\ r \in executed /\ owner' \in ControlConns /\ session[r] = owner'
                    /\ pc[r] \in {"waiting", "expired", "done"}
              /\ step' = "fail" => session[r] = target',
           \A r \in Requests :
              /\ future'[r] = "result" => r \in executed
              /\ future[r] = "result" => future'[r] = "result"
    PROVE  ResultInv'
BY DEF ResultInv

\* close() fails futures of the session it closes.
LEMMA ResultClose ==
    ASSUME TypeOK, LoopInv, FutureInv, ResultInv, [Next]_vars, CloseStep,
           ConstantsAssumption
    PROVE  ResultInv'
<1>1. UNCHANGED <<session, outcome, pc, job, executed>>
  BY DEF CloseStep, CloseAgain, CloseMark, CloseFail, CloseSentinelPut, callVars,
         agentVars
<1>2. /\ step # "idle" /\ owner \in Conns /\ target \in Conns
      /\ phase[owner] \in {"replacing", "leaving", "dropping"}
  BY DEF CloseStep, CloseAgain, CloseMark, CloseFail, CloseSentinelPut, LoopInv
<1>3. CASE CloseAgain \/ CloseSentinelPut
  <2>1. /\ AfterClose /\ left = {} /\ left' = {} /\ future' = future
    BY <1>3 DEF CloseAgain, CloseSentinelPut, callVars, LoopInv
  <2>2. \A c \in Conns : toPortal'[c] = toPortal[c] \/ toPortal'[c] = <<>>
    BY <1>2, <2>1 DEF AfterClose, TypeOK
  <2>3. \A c \in Conns : \A i \in DOMAIN toPortal'[c] :
           \E j \in DOMAIN toPortal[c] : toPortal'[c][i] = toPortal[c][j]
    BY <2>2
  <2>4. \A r \in Requests : future'[r] = "result" => r \in executed
    BY <2>1 DEF ResultInv
  <2> QED
    BY <1>1, <2>1, <2>3, <2>4, ResultKept
<1>4. CASE CloseMark
  <2>1. /\ left' = pending[target] /\ step' = "fail"
        /\ UNCHANGED <<owner, phase, target, toPortal, future>>
    BY <1>4 DEF CloseMark, callVars, wireVars
  <2>2. \A r \in left' : session[r] = target
    BY <1>2, <2>1 DEF FutureInv
  <2>3. \A r \in Requests : future'[r] = "result" => r \in executed
    BY <2>1 DEF ResultInv
  <2> QED
    BY <1>1, <1>2, <2>1, <2>2, <2>3, ResultKept
<1>5. CASE CloseFail
  <2>1. /\ left' \subseteq left /\ step = "fail"
        /\ UNCHANGED <<owner, phase, step, target, toPortal>>
    BY <1>5 DEF CloseFail, wireVars
  <2>2. \A r \in left' : session[r] = target
    BY <2>1 DEF ResultInv
  <2>3. PICK r \in left : future' = [future EXCEPT ![r] = "exception"]
    BY <1>5 DEF CloseFail
  <2>4. future[r] = "pending"
    BY DEF FutureInv
  <2>5. \A q \in Requests : /\ future'[q] = "result" => q \in executed
                            /\ future[q] = "result" => future'[q] = "result"
    BY <2>3, <2>4 DEF ResultInv, TypeOK
  <2> QED
    BY <1>1, <1>2, <2>1, <2>2, <2>5, ResultKept
<1> QED
  BY <1>3, <1>4, <1>5 DEF CloseStep

\* The message loop completes the future that a result of its own session names.
LEMMA ResultServe ==
    ASSUME TypeOK, LoopInv, FutureInv, ResultInv, [Next]_vars, NEW c \in Conns,
           ConstantsAssumption, Connect(c) \/ ServeStep(c) \/ GetOutbound(c)
    PROVE  ResultInv'
<1>1. UNCHANGED <<session, outcome, pc, job, executed>>
  BY DEF ServeStep, Connect, AcceptFails, RegisterFirst, RegisterReplacing,
         Unregister, ReceiveDisconnect, RejectResult, PopResult, SetResult,
         ReceiveReport, ReportSaved, SavingRaises, SendReply, SendCommand,
         ReceiveSentinel, SendRaises, GetOutbound, callVars, agentVars
<1>2. c # NoConn /\ Report \notin Requests
  BY DEF ConstantsAssumption
<1>3. ASSUME Received(c)
      PROVE  \A d \in Conns : \A i \in DOMAIN toPortal'[d] :
                \E j \in DOMAIN toPortal[d] : toPortal'[d][i] = toPortal[d][j]
  <2>1. /\ toPortal[c] # <<>> /\ toPortal[c] \in Seq(Requests \union {Report})
        /\ toPortal' = [toPortal EXCEPT ![c] = Tail(toPortal[c])]
    BY <1>3 DEF Received, TypeOK
  <2>2. \A i \in DOMAIN Tail(toPortal[c]) :
           i + 1 \in DOMAIN toPortal[c] /\ Tail(toPortal[c])[i] = toPortal[c][i + 1]
    BY <2>1, TailStretch
  <2>3. \A d \in Conns : toPortal'[d] = IF d = c THEN Tail(toPortal[c]) ELSE toPortal[d]
    BY <2>1 DEF TypeOK
  <2> HIDE DEF TypeOK
  <2> QED
    BY <2>2, <2>3
<1>4. CASE PopResult(c)
  <2> DEFINE r == Head(toPortal[c])
  <2>1. /\ Received(c) /\ r \in Requests /\ r \in pending[c]
        /\ left' = {r} /\ owner' = c /\ owner = NoConn
        /\ UNCHANGED <<future, step>>
    BY <1>4 DEF PopResult, Received, callVars
  <2>2. step' = "idle"
    BY <2>1 DEF LoopInv
  <2>3. 1 \in DOMAIN toPortal[c] /\ r = toPortal[c][1]
    BY <2>1, TailStretch DEF Received, TypeOK
  <2>4. ExecutedBy(r, c)
    BY <2>1, <2>3 DEF ResultInv
  <2>5. \A q \in Requests : future'[q] = "result" => q \in executed
    BY <2>1 DEF ResultInv
  <2> HIDE DEF r
  <2> QED
    BY <1>1, <1>3, <2>1, <2>2, <2>4, <2>5, ResultKept
<1>5. CASE SetResult(c)
  <2>1. PICK r \in left : future' = [future EXCEPT ![r] = "result"]
    BY <1>5 DEF SetResult
  <2>2. /\ owner = c /\ phase[c] = "resolving" /\ owner' = NoConn
        /\ left' \subseteq left /\ UNCHANGED <<step, target, toPortal>>
    BY <1>5 DEF SetResult, wireVars
  <2>3. ExecutedBy(r, c) /\ step = "idle"
    BY <1>2, <2>2 DEF ResultInv, LoopInv
  <2>4. \A q \in Requests : /\ future'[q] = "result" => q \in executed
                            /\ future[q] = "result" => future'[q] = "result"
    BY <2>1, <2>3 DEF ResultInv, TypeOK
  <2> QED
    BY <1>1, <2>2, <2>3, <2>4, ResultKept
<1>6. CASE ~PopResult(c) /\ ~SetResult(c)
  <2>1. left' = left /\ future' = future
    BY <1>6 DEF ServeStep, Connect, AcceptFails, RegisterFirst,
                RegisterReplacing, Unregister, ReceiveDisconnect, RejectResult,
                ReceiveReport, ReportSaved, SavingRaises, SendReply,
                SendCommand, ReceiveSentinel, SendRaises, GetOutbound, callVars
  <2>2. \A d \in Conns : \A i \in DOMAIN toPortal'[d] :
           toPortal'[d][i] \in Requests =>
              \E j \in DOMAIN toPortal[d] : toPortal'[d][i] = toPortal[d][j]
    <3>1. CASE RejectResult(c) \/ ReceiveReport(c)
      BY <1>3, <3>1 DEF RejectResult, ReceiveReport
    <3>2. CASE Connect(c)
      BY <1>2, <3>2 DEF Connect, TypeOK
    <3>3. CASE ~RejectResult(c) /\ ~ReceiveReport(c) /\ ~Connect(c)
      <4>1. toPortal' = toPortal
        BY <1>6, <3>3 DEF ServeStep, AcceptFails, RegisterFirst,
                RegisterReplacing, Unregister, ReceiveDisconnect, ReportSaved,
                SavingRaises, SendReply, SendCommand, ReceiveSentinel,
                SendRaises, GetOutbound, wireVars
      <4> QED
        BY <4>1
    <3> QED
      BY <3>1, <3>2, <3>3
  \* The loop holds futures in GetOutbound only, which moves no coroutine.
  <2>3. \/ left = {}
        \/ UNCHANGED <<owner, phase, step, target>>
    BY <1>6 DEF ServeStep, Connect, AcceptFails, RegisterFirst,
                RegisterReplacing, Unregister, ReceiveDisconnect, RejectResult,
                ReceiveReport, ReportSaved, SavingRaises, SendReply,
                SendCommand, ReceiveSentinel, SendRaises, GetOutbound, Received,
                AtOutbound, LoopInv
  <2>4. \A q \in Requests : future'[q] = "result" => q \in executed
    BY <2>1 DEF ResultInv
  <2>5. \A r \in left' :
           /\ owner' # NoConn /\ phase'[owner'] = "resolving" => ExecutedBy(r, owner')
           /\ step' = "fail" => session[r] = target'
    BY <2>1, <2>3 DEF ResultInv
  <2> QED
    BY <1>1, <2>1, <2>2, <2>4, <2>5, ResultKept
<1> QED
  BY <1>4, <1>5, <1>6

\* An agent carries a request out and answers it on its own connection.
LEMMA ResultAgent ==
    ASSUME TypeOK, MessageInv, ResultInv, [Next]_vars, NEW c \in Conns,
           ConstantsAssumption, AgentStep(c) \/ BreakLink(c) \/ StopAgent(c)
    PROVE  ResultInv'
<1>1. UNCHANGED <<pc, session, outcome, future, left, owner, phase, step, target>>
  BY AgentUnchanged DEF callVars, loopVars
<1>2. NoItem \notin Requests
  BY DEF ConstantsAssumption
<1>3. /\ \A d \in Conns : job'[d] \in Requests =>
            \/ job'[d] = job[d]
            \/ d \in ControlConns /\ job'[d] \in executed' /\ Dispatched(job'[d], d)
      /\ \A r \in executed' \ executed : \E d \in Conns :
            d \in ControlConns /\ Dispatched(r, d)
      /\ executed \subseteq executed'
  <2>1. CASE TakeCommand(c)
    <3>1. /\ toAgent[c] # <<>> /\ toAgent[c] \in Seq(Requests \union {Reply})
          /\ Head(toAgent[c]) \in Requests
      BY <2>1 DEF TakeCommand, AgentReads, TypeOK
    <3>2. 1 \in DOMAIN toAgent[c] /\ Head(toAgent[c]) = toAgent[c][1]
      BY <3>1, TailStretch
    <3>3. Dispatched(Head(toAgent[c]), c)
      BY <3>1, <3>2 DEF MessageInv
    <3> QED
      BY <2>1, <3>3 DEF TakeCommand, TypeOK
  <2>2. CASE ~TakeCommand(c)
    BY <1>2, <2>2 DEF AgentStep, IgnoreReply, SendResult, AgentEof, EndExchange,
              BreakLink, StopAgent, agentVars, TypeOK
  <2> QED
    BY <2>1, <2>2
<1>4. \A d \in Conns : \A i \in DOMAIN toPortal'[d] :
         \/ \E j \in DOMAIN toPortal[d] : toPortal'[d][i] = toPortal[d][j]
         \/ toPortal'[d][i] = job[d]
  <2>1. CASE SendResult(c)
    <3>1. job[c] \in Requests
      BY <2>1 DEF SendResult, TypeOK
    <3>2. /\ toPortal[c] \in Seq(Requests \union {Report})
          /\ \A i \in DOMAIN Append(toPortal[c], job[c]) :
                \/ /\ i \in DOMAIN toPortal[c]
                   /\ Append(toPortal[c], job[c])[i] = toPortal[c][i]
                \/ Append(toPortal[c], job[c])[i] = job[c]
      BY <3>1, AppendAt DEF TypeOK
    <3>3. \A d \in Conns : toPortal'[d] = IF d = c THEN Append(toPortal[c], job[c])
                                                   ELSE toPortal[d]
      BY <2>1 DEF SendResult, TypeOK
    <3> QED
      BY <3>2, <3>3
  <2>2. CASE BreakLink(c) \/ StopAgent(c)
    <3>1. PICK s \in Prefixes(toPortal[c]) : toPortal' = [toPortal EXCEPT ![c] = s]
      BY <2>2 DEF BreakLink, StopAgent
    <3>2. Stretch(s, toPortal[c])
      BY PrefixStretch DEF TypeOK
    <3>3. \A d \in Conns : toPortal'[d] = IF d = c THEN s ELSE toPortal[d]
      BY <3>1 DEF TypeOK
    <3> QED
      BY <3>2, <3>3 DEF Stretch
  <2>3. CASE ~SendResult(c) /\ ~BreakLink(c) /\ ~StopAgent(c)
    BY <2>3 DEF AgentStep, TakeCommand, IgnoreReply, AgentEof, EndExchange, wireVars
  <2> QED
    BY <2>1, <2>2, <2>3
<1>5. \A d \in Conns : \A i \in DOMAIN toPortal'[d] :
         toPortal'[d][i] \in Requests =>
            /\ toPortal'[d][i] \in executed /\ d \in ControlConns
            /\ Dispatched(toPortal'[d][i], d)
  BY <1>4 DEF ResultInv
<1> QED
  BY <1>1, <1>3, <1>5 DEF ResultInv

\* Every step keeps ResultInv.
LEMMA ResultStep ==
    ASSUME TypeOK, LoopInv, FutureInv, RegistryInv, MessageInv, ResultInv,
           ConstantsAssumption, [Next]_vars
    PROVE  ResultInv'
<1>1. CASE \E r \in Requests : RequestStep(r) \/ WaitExpires(r)
  BY <1>1, ResultRequest
<1>2. CASE CloseStep
  BY <1>2, ResultClose
<1>3. CASE \E c \in Conns : Connect(c) \/ ServeStep(c) \/ GetOutbound(c)
  BY <1>3, ResultServe
<1>4. CASE \E c \in Conns : AgentStep(c) \/ BreakLink(c) \/ StopAgent(c)
  BY <1>4, ResultAgent
<1>5. CASE UNCHANGED vars
  BY <1>5 DEF ResultInv, vars, sessionVars, callVars, loopVars, wireVars, agentVars
<1> QED
  BY <1>1, <1>2, <1>3, <1>4, <1>5 DEF Next, Terminating

\* Both hold for ever.
LEMMA MessageResultAlways ==
    ASSUME ConstantsAssumption
    PROVE  Spec => [](MessageInv /\ ResultInv)
<1>1. Init => MessageInv /\ ResultInv
  BY MessageInit, ResultInit
<1>2. TypeOK /\ LoopInv /\ FutureInv /\ RegistryInv /\ MessageInv /\ ResultInv
         /\ [Next]_vars => MessageInv' /\ ResultInv'
  BY MessageStep, ResultStep
<1>3. Spec => [](TypeOK /\ LoopInv) /\ []FutureInv /\ []RegistryInv
  BY TypeLoopCorrect, FutureAlways, RegistryAlways
<1> QED
  BY <1>1, <1>2, <1>3, PTL DEF Spec

\* A caller is answered with its own result only, after an agent of the addressed
\* location has carried out that request, for any number of locations and agents.
THEOREM AnswerIsOwnCorrect ==
    ASSUME ConstantsAssumption
    PROVE  Spec => []AnswerIsOwn
<1>1. TypeOK /\ ResultInv => AnswerIsOwn
  BY DEF TypeOK, ResultInv, AnswerIsOwn, ConstantsAssumption
<1>2. Spec => [](TypeOK /\ LoopInv) /\ [](MessageInv /\ ResultInv)
  BY TypeLoopCorrect, MessageResultAlways
<1> QED
  BY <1>1, <1>2, PTL

\* No agent starts a request that any agent has started before, whatever the
\* queues, replaced sessions and callers that give up do with its message.
THEOREM ExecutedOnceCorrect ==
    ASSUME ConstantsAssumption
    PROVE  Spec => ExecutedOnce
<1> DEFINE Once == \A c \in Conns : job'[c] # job[c] /\ job'[c] \in Requests
                                       => job'[c] \notin executed
<1>1. ASSUME TypeOK, MessageInv, [Next]_vars PROVE Once
  <2> SUFFICES ASSUME NEW c \in Conns, job'[c] # job[c], job'[c] \in Requests
               PROVE  job'[c] \notin executed
    OBVIOUS
  <2>1. NoItem \notin Requests
    BY DEF ConstantsAssumption
  <2>2. CASE TakeCommand(c)
    <3>1. /\ toAgent[c] # <<>> /\ toAgent[c] \in Seq(Requests \union {Reply})
          /\ job'[c] = Head(toAgent[c])
      BY <1>1, <2>2 DEF TakeCommand, AgentReads, TypeOK
    <3>2. 1 \in DOMAIN toAgent[c] /\ Head(toAgent[c]) = toAgent[c][1]
      BY <3>1, TailStretch
    <3> QED
      BY <1>1, <3>1, <3>2 DEF MessageInv
  <2>3. CASE \E d \in Conns : AgentStep(d) \/ BreakLink(d) \/ StopAgent(d)
    BY <1>1, <2>1, <2>2, <2>3 DEF AgentStep, TakeCommand, IgnoreReply, SendResult,
              AgentEof, EndExchange, BreakLink, StopAgent, agentVars, TypeOK
  <2>4. CASE \E r \in Requests : RequestStep(r) \/ WaitExpires(r)
    BY <2>4 DEF RequestStep, LookupFound, LookupMissing, AddPending,
                RefuseClosed, PutMessage, TakeResult, TakeException,
                ForgetPending, WaitExpires, agentVars
  <2>5. CASE CloseStep
    BY <2>5 DEF CloseStep, CloseAgain, CloseMark, CloseFail, CloseSentinelPut,
                agentVars
  <2>6. CASE \E d \in Conns : Connect(d) \/ ServeStep(d) \/ GetOutbound(d)
    BY <2>6 DEF ServeStep, Connect, AcceptFails, RegisterFirst,
                RegisterReplacing, Unregister, ReceiveDisconnect, RejectResult,
                PopResult, SetResult, ReceiveReport, ReportSaved, SavingRaises,
                SendReply, SendCommand, ReceiveSentinel, SendRaises, GetOutbound,
                agentVars
  <2>7. CASE UNCHANGED vars
    BY <2>7 DEF vars, agentVars
  <2> QED
    BY <1>1, <2>3, <2>4, <2>5, <2>6, <2>7 DEF Next, Terminating
<1>2. Spec => [](TypeOK /\ LoopInv) /\ [](MessageInv /\ ResultInv)
  BY TypeLoopCorrect, MessageResultAlways
<1>3. TypeOK /\ MessageInv /\ [Next]_vars => [Once]_vars
  BY <1>1
<1> QED
  BY <1>2, <1>3, PTL DEF Spec, ExecutedOnce

-----------------------------------------------------------------------------
(* What lies behind a sentinel.                                            *)

\* Initially the queues are empty.
LEMMA SentinelInit == ASSUME ConstantsAssumption PROVE Init => SentinelInv
  BY DEF Init, SentinelInv

\* A request that is put on the queue of a closed session has its exception, unless
\* the session is being closed this moment.
LEMMA LateIsFailed ==
    ASSUME LoopInv, FutureInv, ResultInv, TypeOK, NEW r \in Requests,
           pc[r] = "registered", closed[session[r]],
           ~(step = "fail" /\ target = session[r])
    PROVE  future[r] = "exception"
<1>1. session[r] \in Conns /\ r \notin executed
  BY DEF LoopInv, ResultInv, TypeOK
<1>2. future[r] # "result"
  BY <1>1 DEF ResultInv
<1>3. r \notin left
  <2>1. SUFFICES ASSUME r \in left PROVE FALSE
    OBVIOUS
  <2>2. step # "fail"
    BY <2>1 DEF ResultInv
  <2>3. owner # NoConn /\ phase[owner] = "resolving"
    BY <2>1, <2>2 DEF LoopInv, TypeOK
  <2> QED
    BY <1>1, <2>1, <2>3 DEF ResultInv
<1>4. future[r] # "pending"
  BY <1>1, <1>3 DEF FutureInv, WaiterIsHeld
<1> QED
  BY <1>2, <1>4 DEF TypeOK

\* A step that puts nothing on a queue keeps SentinelInv, when no closing ends.
LEMMA SentinelStutter ==
    ASSUME SentinelInv, UNCHANGED <<outbound, closed, step, target>>,
           \A r \in Requests : future[r] = "exception" => future'[r] = "exception"
    PROVE  SentinelInv'
BY DEF SentinelInv

\* A request thread may put its message behind the sentinel.
LEMMA SentinelRequest ==
    ASSUME TypeOK, LoopInv, FutureInv, ResultInv, SentinelInv, NEW r \in Requests,
           RequestStep(r) \/ WaitExpires(r), ConstantsAssumption
    PROVE  SentinelInv'
<1>1. CASE PutMessage(r)
  <2> DEFINE c == session[r]
             q == Append(outbound[c], r)
  <2>1. /\ pc[r] = "registered" /\ c \in Conns
        /\ outbound' = [outbound EXCEPT ![c] = q]
        /\ UNCHANGED <<closed, step, target, future>>
    BY <1>1 DEF PutMessage, loopVars, LoopInv
  <2>2. /\ \A i \in DOMAIN q : \/ i \in DOMAIN outbound[c] /\ q[i] = outbound[c][i]
                               \/ i = Len(outbound[c]) + 1 /\ q[i] = r
        /\ \A i \in DOMAIN outbound[c] : i < Len(outbound[c]) + 1
    BY <2>1, AppendAt DEF TypeOK
  <2>3. \A d \in Conns : outbound'[d] = IF d = c THEN q ELSE outbound[d]
    BY <2>1 DEF TypeOK
  <2>4. closed[c] /\ ~(step = "fail" /\ target = c) => future[r] = "exception"
    BY <2>1, LateIsFailed
  <2>5. CloseSentinel \notin Requests /\ DOMAIN outbound[c] \subseteq Int
        /\ Len(outbound[c]) \in Int
    BY <2>1 DEF ConstantsAssumption, TypeOK
  <2> HIDE DEF q
  <2>6. ASSUME NEW i \in DOMAIN q, q[i] = CloseSentinel
        PROVE  /\ closed[c]
               /\ ~(step = "fail" /\ target = c)
               /\ \A j \in DOMAIN q : i < j => /\ q[j] \in Requests
                                               /\ future[q[j]] = "exception"
    <3>1. i \in DOMAIN outbound[c] /\ outbound[c][i] = CloseSentinel
      BY <2>2, <2>5, <2>6
    <3>2. closed[c] /\ ~(step = "fail" /\ target = c)
      BY <2>1, <3>1 DEF SentinelInv
    <3>3. ASSUME NEW j \in DOMAIN q, i < j
          PROVE  q[j] \in Requests /\ future[q[j]] = "exception"
      BY <2>1, <2>2, <2>4, <3>1, <3>2, <3>3 DEF SentinelInv
    <3> QED
      BY <3>2, <3>3
  <2> QED
    BY <2>1, <2>3, <2>6 DEF SentinelInv
<1>2. CASE ~PutMessage(r)
  <2>1. UNCHANGED <<outbound, closed, step, target, future>>
    BY <1>2 DEF RequestStep, LookupFound, LookupMissing, AddPending, RefuseClosed,
                TakeResult, TakeException, ForgetPending, WaitExpires,
                sessionVars, loopVars
  <2> QED
    BY <2>1, SentinelStutter
<1> QED
  BY <1>1, <1>2

\* close() puts its sentinel once.
LEMMA SentinelClose ==
    ASSUME TypeOK, LoopInv, FutureInv, RegistryInv, SentinelInv, CloseStep,
           ConstantsAssumption
    PROVE  SentinelInv'
<1>1. target \in Conns
  BY DEF CloseStep, CloseAgain, CloseMark, CloseFail, CloseSentinelPut, LoopInv
<1>2. CASE CloseAgain
  <2>1. step' = "idle" /\ UNCHANGED <<outbound, closed, future>>
    BY <1>2 DEF CloseAgain, AfterClose, sessionVars, callVars
  <2> QED
    BY <2>1 DEF SentinelInv
<1>3. CASE CloseMark
  <2>1. /\ ~closed[target] /\ UNCHANGED <<outbound, target, future>>
        /\ closed' = [closed EXCEPT ![target] = TRUE]
    BY <1>3 DEF CloseMark, callVars
  <2>2. \A i \in DOMAIN outbound[target] : outbound[target][i] # CloseSentinel
    BY <1>1, <2>1 DEF SentinelInv
  <2> QED
    BY <1>1, <2>1, <2>2 DEF SentinelInv, TypeOK
<1>4. CASE CloseFail
  <2>1. PICK r \in left : future' = [future EXCEPT ![r] = "exception"]
    BY <1>4 DEF CloseFail
  <2>2. UNCHANGED <<outbound, closed, step, target>>
    BY <1>4 DEF CloseFail, sessionVars
  <2> QED
    BY <2>1, <2>2, SentinelStutter DEF TypeOK
<1>5. CASE CloseSentinelPut
  <2> DEFINE q == Append(outbound[target], CloseSentinel)
  <2>1. /\ step = "fail" /\ step' = "idle" /\ closed[target]
        /\ outbound' = [outbound EXCEPT ![target] = q]
        /\ UNCHANGED <<closed, future>>
    BY <1>5 DEF CloseSentinelPut, AfterClose, callVars, RegistryInv
  <2>2. /\ \A i \in DOMAIN q :
              \/ i \in DOMAIN outbound[target] /\ q[i] = outbound[target][i]
              \/ i = Len(outbound[target]) + 1
        /\ \A i \in DOMAIN outbound[target] : i < Len(outbound[target]) + 1
    BY <1>1, <2>1, AppendAt DEF TypeOK
  <2>3. \A d \in Conns : outbound'[d] = IF d = target THEN q ELSE outbound[d]
    BY <2>1 DEF TypeOK
  <2>4. DOMAIN outbound[target] \subseteq Int /\ Len(outbound[target]) \in Int
    BY <1>1 DEF TypeOK
  <2> HIDE DEF q
  <2>5. ASSUME NEW i \in DOMAIN q, q[i] = CloseSentinel
        PROVE  \A j \in DOMAIN q : ~(i < j)
    BY <1>1, <2>1, <2>2, <2>4, <2>5 DEF SentinelInv
  <2> QED
    BY <2>1, <2>3, <2>5 DEF SentinelInv
<1> QED
  BY <1>2, <1>3, <1>4, <1>5 DEF CloseStep

\* The loop's task takes from the front; a closing starts only where none is.
LEMMA SentinelServe ==
    ASSUME TypeOK, LoopInv, FutureInv, SentinelInv, NEW c \in Conns,
           Connect(c) \/ ServeStep(c) \/ GetOutbound(c), ConstantsAssumption
    PROVE  SentinelInv'
<1>1. CASE GetOutbound(c)
  <2> DEFINE q == outbound[c]
             t == Tail(q)
  <2>1. /\ q # <<>> /\ q \in Seq(Items)
        /\ outbound' = [outbound EXCEPT ![c] = t]
        /\ UNCHANGED <<closed, step, target, future>>
    BY <1>1 DEF GetOutbound, callVars, TypeOK
  <2>2. /\ \A i \in DOMAIN t : i + 1 \in DOMAIN q /\ t[i] = q[i + 1]
        /\ DOMAIN t \subseteq Int
    BY <2>1, TailStretch, HeadTailProperties
  <2>3. \A d \in Conns : outbound'[d] = IF d = c THEN t ELSE outbound[d]
    BY <2>1 DEF TypeOK
  <2>4. ASSUME NEW i \in DOMAIN t, t[i] = CloseSentinel
        PROVE  /\ closed[c]
               /\ ~(step = "fail" /\ target = c)
               /\ \A j \in DOMAIN t : i < j => /\ t[j] \in Requests
                                               /\ future[t[j]] = "exception"
    BY <2>2, <2>4 DEF SentinelInv
  <2> HIDE DEF q, t
  <2> QED
    BY <2>1, <2>3, <2>4 DEF SentinelInv
<1>2. CASE ~GetOutbound(c)
  <2>1. /\ UNCHANGED <<outbound, closed>>
        /\ step' # "fail" \/ UNCHANGED <<step, target>>
    BY <1>2 DEF ServeStep, Connect, AcceptFails, RegisterFirst,
                RegisterReplacing, Unregister, ReceiveDisconnect, RejectResult,
                PopResult, SetResult, ReceiveReport, ReportSaved, SavingRaises,
                SendReply, SendCommand, ReceiveSentinel, SendRaises, Leave,
                sessionVars
  <2>2. \A r \in Requests : future[r] = "exception" => future'[r] = "exception"
    <3>1. CASE SetResult(c)
      BY <3>1 DEF SetResult, FutureInv, TypeOK
    <3>2. CASE ~SetResult(c)
      BY <1>2, <3>2 DEF ServeStep, Connect, AcceptFails, RegisterFirst,
                RegisterReplacing, Unregister, ReceiveDisconnect, RejectResult,
                PopResult, ReceiveReport, ReportSaved, SavingRaises,
                SendReply, SendCommand, ReceiveSentinel, SendRaises, callVars
    <3> QED
      BY <3>1, <3>2
  <2> QED
    BY <2>1, <2>2 DEF SentinelInv
<1> QED
  BY <1>1, <1>2

\* Every step keeps SentinelInv.
LEMMA SentinelStep ==
    ASSUME TypeOK, LoopInv, FutureInv, RegistryInv, ResultInv, SentinelInv,
           ConstantsAssumption, [Next]_vars
    PROVE  SentinelInv'
<1>1. CASE \E r \in Requests : RequestStep(r) \/ WaitExpires(r)
  BY <1>1, SentinelRequest
<1>2. CASE CloseStep
  BY <1>2, SentinelClose
<1>3. CASE \E c \in Conns : Connect(c) \/ ServeStep(c) \/ GetOutbound(c)
  BY <1>3, SentinelServe
<1>4. CASE \E c \in Conns : AgentStep(c) \/ BreakLink(c) \/ StopAgent(c)
  BY <1>4, AgentUnchanged, SentinelStutter DEF sessionVars, callVars, loopVars
<1>5. CASE UNCHANGED vars
  BY <1>5, SentinelStutter DEF vars, sessionVars, callVars, loopVars
<1> QED
  BY <1>1, <1>2, <1>3, <1>4, <1>5 DEF Next, Terminating

\* SentinelInv holds for ever.
LEMMA SentinelAlways ==
    ASSUME ConstantsAssumption
    PROVE  Spec => []SentinelInv
<1>1. Init => SentinelInv
  BY SentinelInit
<1>2. TypeOK /\ LoopInv /\ FutureInv /\ RegistryInv /\ ResultInv /\ SentinelInv
         /\ [Next]_vars => SentinelInv'
  BY SentinelStep
<1>3. Spec => [](TypeOK /\ LoopInv) /\ []FutureInv /\ []RegistryInv
              /\ [](MessageInv /\ ResultInv)
  BY TypeLoopCorrect, FutureAlways, RegistryAlways, MessageResultAlways
<1> QED
  BY <1>1, <1>2, <1>3, PTL DEF Spec

\* Behind a sentinel there are only requests whose callers already have their
\* exception: a message that is never sent keeps nobody waiting.
THEOREM SentinelIsLastCorrect ==
    ASSUME ConstantsAssumption
    PROVE  Spec => []SentinelIsLast
<1>1. SentinelInv => SentinelIsLast
  BY DEF SentinelInv, SentinelIsLast
<1> QED
  BY <1>1, SentinelAlways, PTL

-----------------------------------------------------------------------------
(* The link implements what LiveCommand promises, step by step.            *)

\* A request thread asks, is refused, answered or fails; the other steps of it its
\* caller does not see.
LEMMA CallRequest ==
    ASSUME TypeOK, ResultInv, NEW r \in Requests, RequestStep(r) \/ WaitExpires(r),
           ConstantsAssumption
    PROVE  LC!Next \/ UNCHANGED LC!vars
<1>1. executed' = executed
  BY DEF RequestStep, LookupFound, LookupMissing, AddPending, RefuseClosed,
         PutMessage, TakeResult, TakeException, ForgetPending, WaitExpires,
         agentVars
<1>2. outcome[r] = "none" <=> pc[r] # "done"
  BY DEF ResultInv
<1>3. CASE LookupMissing(r)
  <2>1. LC!Refuse(r)
    BY <1>1, <1>2, <1>3 DEF LookupMissing, Return, LC!Refuse, callState, TypeOK
  <2> QED
    BY <2>1 DEF LC!Next
<1>4. CASE LookupFound(r)
  <2>1. pc[r] = "start" /\ pc' = [pc EXCEPT ![r] = "found"] /\ outcome' = outcome
    BY <1>4 DEF LookupFound
  <2>2. outcome[r] = "none" /\ callState[r] = "idle"
    BY <1>2, <2>1 DEF callState
  <2>3. callState' = [callState EXCEPT ![r] = "asked"]
    BY <2>1, <2>2 DEF callState, TypeOK
  <2>4. LC!Ask(r)
    BY <1>1, <2>2, <2>3 DEF LC!Ask
  <2> QED
    BY <2>4 DEF LC!Next
<1>5. CASE RefuseClosed(r) \/ TakeException(r) \/ ForgetPending(r)
  <2>1. PICK how \in {"unavailable", "timeout"} : Return(r, how)
    BY <1>5 DEF RefuseClosed, TakeException, ForgetPending
  <2>2. pc[r] \in {"found", "waiting", "expired"}
    BY <1>5 DEF RefuseClosed, TakeException, ForgetPending
  <2>3. pc' = [pc EXCEPT ![r] = "done"] /\ outcome' = [outcome EXCEPT ![r] = how]
    BY <2>1 DEF Return
  <2>4. outcome[r] = "none" /\ callState[r] = "asked"
    BY <1>2, <2>2 DEF callState
  <2>5. callState' = [callState EXCEPT ![r] = "failed"]
    BY <2>1, <2>3, <2>4 DEF callState, TypeOK
  <2>6. LC!Fail(r)
    BY <1>1, <2>4, <2>5 DEF LC!Fail
  <2> QED
    BY <2>6 DEF LC!Next
<1>6. CASE TakeResult(r)
  <2>1. r \in executed
    BY <1>6 DEF TakeResult, ResultInv
  <2>2. LC!Answer(r)
    BY <1>1, <1>2, <1>6, <2>1 DEF TakeResult, Return, LC!Answer, callState, TypeOK
  <2> QED
    BY <2>2 DEF LC!Next
<1>7. CASE AddPending(r) \/ PutMessage(r) \/ WaitExpires(r)
  <2>1. /\ pc[r] # "start" /\ outcome' = outcome
        /\ \E p \in {"registered", "waiting", "expired"} : pc' = [pc EXCEPT ![r] = p]
    BY <1>7 DEF AddPending, PutMessage, WaitExpires
  <2>2. callState' = callState
    BY <2>1 DEF callState, TypeOK
  <2> QED
    BY <1>1, <2>2 DEF LC!vars
<1> QED
  BY <1>3, <1>4, <1>5, <1>6, <1>7 DEF RequestStep

\* Taking a command carries it out, once.
LEMMA CallTaken ==
    ASSUME TypeOK, MessageInv, ResultInv, NEW c \in Conns, TakeCommand(c)
    PROVE  LC!Next
<1> DEFINE r == Head(toAgent[c])
<1>1. /\ toAgent[c] # <<>> /\ toAgent[c] \in Seq(Requests \union {Reply})
      /\ r \in Requests /\ executed' = executed \union {r}
      /\ UNCHANGED <<pc, outcome>>
  BY DEF TakeCommand, AgentReads, callVars, TypeOK
<1>2. 1 \in DOMAIN toAgent[c] /\ r = toAgent[c][1]
  BY <1>1, TailStretch
<1>3. r \notin executed /\ pc[r] \in {"waiting", "expired", "done"}
  BY <1>1, <1>2 DEF MessageInv
<1>4. outcome[r] # "ok"
  BY <1>1, <1>3 DEF ResultInv
<1> HIDE DEF r
<1>5. LC!Execute(r)
  BY <1>1, <1>3, <1>4 DEF LC!Execute, callState, TypeOK
<1> QED
  BY <1>1, <1>5 DEF LC!Next

\* Every step of the link is a step of LiveCommand, or none that a caller or the
\* PBX would see.
LEMMA CallStep ==
    ASSUME TypeOK, MessageInv, ResultInv, ConstantsAssumption, [Next]_vars
    PROVE  LC!Next \/ UNCHANGED LC!vars
<1>1. CASE \E r \in Requests : RequestStep(r) \/ WaitExpires(r)
  BY <1>1, CallRequest
<1>2. CASE \E c \in Conns : TakeCommand(c)
  BY <1>2, CallTaken
<1>3. ASSUME UNCHANGED <<pc, outcome, executed>> PROVE UNCHANGED LC!vars
  BY <1>3 DEF LC!vars, callState
<1>4. CASE CloseStep
  BY <1>3, <1>4 DEF CloseStep, CloseAgain, CloseMark, CloseFail,
                    CloseSentinelPut, callVars, agentVars
<1>5. CASE \E c \in Conns : Connect(c) \/ ServeStep(c) \/ GetOutbound(c)
  BY <1>3, <1>5 DEF ServeStep, Connect, AcceptFails, RegisterFirst,
            RegisterReplacing, Unregister, ReceiveDisconnect, RejectResult,
            PopResult, SetResult, ReceiveReport, ReportSaved, SavingRaises,
            SendReply, SendCommand, ReceiveSentinel, SendRaises, GetOutbound,
            callVars, agentVars
<1>6. CASE \E c \in Conns : AgentStep(c) \/ BreakLink(c) \/ StopAgent(c)
  BY <1>2, <1>3, <1>6 DEF AgentStep, IgnoreReply, SendResult, AgentEof,
            EndExchange, BreakLink, StopAgent, callVars, agentVars
<1>7. CASE UNCHANGED vars
  BY <1>3, <1>7 DEF vars, callVars, agentVars
<1> QED
  BY <1>1, <1>4, <1>5, <1>6, <1>7 DEF Next, Terminating

\* The link implements LiveCommand's safety for any number of requests, locations and
\* connections: an outcome is final, an answer is earned, and nothing is carried out
\* twice.  That every caller gets an outcome is left to TLC.
THEOREM ImplementsLiveCommandSafety ==
    ASSUME ConstantsAssumption
    PROVE  Spec => LC!SafeSpec
<1>1. Init => LC!Init
  BY DEF Init, LC!Init, callState
<1>2. TypeOK /\ MessageInv /\ ResultInv /\ [Next]_vars => [LC!Next]_LC!vars
  BY CallStep
<1>3. Spec => [](TypeOK /\ LoopInv) /\ [](MessageInv /\ ResultInv)
  BY TypeLoopCorrect, MessageResultAlways
<1> QED
  BY <1>1, <1>2, <1>3, PTL DEF Spec, LC!SafeSpec

\* The whole inductive invariant of the link: types, one coroutine that closes at a time,
\* the places of the futures, and the registry, however connections, closings, requests
\* and results interleave.
THEOREM LinkInvCorrect ==
    ASSUME ConstantsAssumption
    PROVE  Spec => []LinkInv
<1>1. Spec => /\ [](TypeOK /\ LoopInv) /\ []FutureInv /\ []RegistryInv
              /\ [](MessageInv /\ ResultInv) /\ []SentinelInv
  BY TypeLoopCorrect, FutureAlways, RegistryAlways, MessageResultAlways,
     SentinelAlways
<1>2. TypeOK /\ LoopInv /\ FutureInv /\ RegistryInv /\ MessageInv
         /\ ResultInv /\ SentinelInv => LinkInv
  BY DEF LinkInv
<1> QED
  BY <1>1, <1>2, PTL
=============================================================================
