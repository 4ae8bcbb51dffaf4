---------------------------- MODULE LiveCommand ----------------------------
(***************************************************************************)
(* What the portal promises about live operations, whatever carries them:  *)
(* a request that is asked ends exactly once, as answered or as failed; it *)
(* is answered only when the PBX side has carried it out; and the PBX side *)
(* carries it out at most once, possibly after its caller was told that it *)
(* failed (run_location_live_command and run_location_recording_playback). *)
(***************************************************************************)
CONSTANT Requests

VARIABLES
    call,       \* [Requests -> CallState], as the caller sees it
    executed    \* the requests the agent has carried out

vars == <<call, executed>>

CallState == {"idle", "asked", "answered", "failed"}

TypeOK == /\ call \in [Requests -> CallState]
          /\ executed \in SUBSET Requests

Init == /\ call = [r \in Requests |-> "idle"]
        /\ executed = {}

\* The request is refused at once, or handed to the connected agent.
Refuse(r) == /\ call[r] = "idle"
             /\ call' = [call EXCEPT ![r] = "failed"]
             /\ UNCHANGED executed

Ask(r) == /\ call[r] = "idle"
          /\ call' = [call EXCEPT ![r] = "asked"]
          /\ UNCHANGED executed

\* The agent carries out a request it was handed, even one its caller gave up.
Execute(r) == /\ call[r] \in {"asked", "failed"}
              /\ r \notin executed
              /\ executed' = executed \union {r}
              /\ UNCHANGED call

Answer(r) == /\ call[r] = "asked"
             /\ r \in executed
             /\ call' = [call EXCEPT ![r] = "answered"]
             /\ UNCHANGED executed

Fail(r) == /\ call[r] = "asked"
           /\ call' = [call EXCEPT ![r] = "failed"]
           /\ UNCHANGED executed

Next == \E r \in Requests :
            Refuse(r) \/ Ask(r) \/ Execute(r) \/ Answer(r) \/ Fail(r)

Fairness == \A r \in Requests : WF_vars(Answer(r) \/ Fail(r))

SafeSpec == Init /\ [][Next]_vars
Spec == SafeSpec /\ Fairness
============================================================================
