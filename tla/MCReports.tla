------------------------------ MODULE MCReports ------------------------------
(***************************************************************************)
(* What the agent tells the portal, in one instance for TLC: the version   *)
(* it runs, in the row of its location; its recordings; the answers of the *)
(* manager interface.  The three share no state; each behaviour is about   *)
(* one of them, its "part".                                                *)
(***************************************************************************)
EXTENDS LocationRow, RecordingState, AmiState, TLC

CONSTANTS r1, r2, p1, c1, c2, n1, n2, n3, i1

VARIABLE part       \* row, recordings or ami

Recordings == INSTANCE RecordingPlayback

\* One item in each list: five lists of two are too many.
Ami == INSTANCE AmiSession

ASSUME Recordings!ConstantsAssumption /\ JobsAssumption

recordingVars == <<now, written, present, retention, kept, scan, listed, play>>
amiVars == <<pc, job, turn, wire, broken, got, answers, failed, result, said, extra>>
allVars == <<part, vars, recordingVars, amiVars>>

-----------------------------------------------------------------------------
\* Two requests at a time during one report and one deployment, or one request and
\* three of each.
RowScenario == req[r2].pc # "new" => reads <= 1 /\ records <= 1

\* Several recordings in two days and none asked for, or one and up to four days.
RecordingScenario ==
    \/ now <= 1 /\ retention = 1 /\ kept \in {0, 1} /\ play.pc = "idle"
    \/ {n \in {n1, n2, n3} : written[n] # Never} \subseteq {n1}

PartInit ==
    /\ part \in {"row", "recordings", "ami"}
    /\ Init /\ (part # "row" => row = NoRow)
    /\ Recordings!RecordingInit /\ (part # "recordings" => retention = 1 /\ kept = 0)
    /\ Ami!Init /\ (part # "ami" => job = "control")

PartNext ==
    /\ \/ part = "row" /\ Next /\ RowScenario' /\ UNCHANGED <<recordingVars, amiVars>>
       \/ /\ part = "recordings" /\ Recordings!RecordingNext /\ RecordingScenario'
          /\ UNCHANGED <<vars, amiVars>>
       \/ part = "ami" /\ Ami!Next /\ UNCHANGED <<vars, recordingVars>>
    /\ UNCHANGED part

PartSpec == PartInit /\ [][PartNext]_allVars

Symmetry == Permutations({c1, c2})

=============================================================================
