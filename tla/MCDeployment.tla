---------------------------- MODULE MCDeployment ----------------------------
(***************************************************************************)
(* Instances of Deployment for TLC.  In the passing one a behaviour makes  *)
(* three attempts of two versions in turn, the last a rollback to the      *)
(* first; or two attempts: at once, which is enough for every interleaving *)
(* of two swap scripts, or in turn where the script has nothing to copy.   *)
(* Attempts at once have a marker that is copied from the volume: of a     *)
(* marker apart no property says anything then, and scripts that copy none *)
(* only end earlier.                                                       *)
(***************************************************************************)
EXTENDS Deployment

CONSTANTS d1, d2, d3

DeployTwoThenRollBack == [d \in Deployments |-> IF d = d2 THEN 2 ELSE 1]

ThreeAttempts == inTurn /\ setting \in {"copied", "apart"}

\* Nothing goes on in a behaviour without d1.
OthersOver == /\ Settled /\ \A d \in Deployments \ {d1} : pc[d] # "idle"
              /\ UNCHANGED vars

\* Two attempts are those of d2 and d3.
BothNext == \/ Next /\ (ThreeAttempts \/ pc'[d1] = "idle")
            \/ ~ThreeAttempts /\ OthersOver

BothInit == Init /\ (inTurn \/ setting = "copied")
BothSpec == BothInit /\ [][BothNext]_vars
=============================================================================
