-------------------------- MODULE Deployment_proofs --------------------------
(***************************************************************************)
(* Theorems about Deployment, for any number of attempts and versions.     *)
(***************************************************************************)
EXTENDS Deployment, TLAPS

USE DEF recordVars, dbVars, hostVars, DepOrNone, Volumes, RemoteSteps, ScriptSteps,
        EndedPhases, Goto, Raise, Finish, ScriptGoto

\* The initial state has the types.
LEMMA TypeInit == ASSUME ConstantsAssumption PROVE Init => TypeOK
  BY DEF Init, TypeOK, Directory, NoDirectory, ConstantsAssumption

\* What a mv makes of two directories is a directory (Moved).
LEMMA MovedType ==
    ASSUME NEW from \in Directory, NEW to \in Directory
    PROVE  Moved(from, to) \in Directory
  BY DEF Moved, Directory

\* The portal's steps over SSH keep the types.
LEMMA TypePortal ==
    ASSUME TypeOK, NEW d \in Deployments, ConstantsAssumption, UNCHANGED <<inTurn, setting>>,
           \/ Start(d) \/ Accept(d) \/ Reject(d) \/ StepDone(d) \/ StepFails(d)
           \/ SwapReturns(d) \/ SwapLost(d) \/ Reload(d) \/ ReloadFails(d) \/ Kill(d)
    PROVE  TypeOK'
<1> USE DEF TypeOK
<1>1. CASE Start(d)
  BY <1>1 DEF Start
<1>2. CASE Accept(d)
  BY <1>2 DEF Accept
<1>3. CASE Reject(d)
  <2>1. PICK e \in {"denied", "failure"} : Raise(d, e)
    BY <1>3 DEF Reject
  <2> QED
    BY <1>3, <2>1 DEF Reject
\* Only directories of the bundle reach the staging directory.
<1>4. ASSUME Stage(d) \/ UNCHANGED staged
      PROVE  staged' \in [Deployments -> SUBSET {"asterisk", "tftp", "scripts", "active-config"}]
  BY <1>4 DEF Stage, BundleRoots
<1>5. CASE StepDone(d)
  <2>1. AfterStep(pc[d]) \in {"upload", "verify", "swapping"}
    BY <1>5 DEF StepDone, AfterStep
  <2>2. staged' \in [Deployments -> SUBSET {"asterisk", "tftp", "scripts", "active-config"}]
    BY <1>4, <1>5 DEF StepDone
  <2> QED
    BY <1>5, <2>1, <2>2 DEF StepDone
<1>6. CASE StepFails(d)
  <2>1. staged' \in [Deployments -> SUBSET {"asterisk", "tftp", "scripts", "active-config"}]
    BY <1>4, <1>6 DEF StepFails
  <2> QED
    BY <1>6, <2>1 DEF StepFails
<1>7. CASE SwapReturns(d)
  BY <1>7 DEF SwapReturns
<1>8. CASE SwapLost(d)
  BY <1>8 DEF SwapLost
<1>9. active["asterisk"].top \in DepOrNone
  BY DEF Directory
<1>10. CASE Reload(d)
  BY <1>9, <1>10 DEF Reload
<1>11. CASE ReloadFails(d)
  <2>1. PICK e \in {"reload", "failure"} : Raise(d, e)
    BY <1>11 DEF ReloadFails
  <2> QED
    BY <1>9, <1>11, <2>1 DEF ReloadFails
<1>12. CASE Kill(d)
  BY <1>12 DEF Kill
<1> QED
  BY <1>1, <1>2, <1>3, <1>5, <1>6, <1>7, <1>8, <1>10, <1>11, <1>12

\* The swap script keeps the types.
LEMMA TypeScript ==
    ASSUME TypeOK, NEW d \in Deployments, ConstantsAssumption, UNCHANGED <<inTurn, setting>>, ScriptStep(d)
    PROVE  TypeOK'
<1> USE DEF TypeOK
<1>1. NoDirectory \in Directory /\ Staged(d) \in Directory
  BY DEF NoDirectory, Staged, Directory
<1>2. CASE RemovePrevious(d)
  BY <1>1, <1>2 DEF RemovePrevious
<1>3. CASE TestActive(d)
  BY <1>3 DEF TestActive, AfterTest
<1>4. CASE BackUpActive(d)
  <2>1. Moved(active[vol[d]], previous[vol[d]]) \in Directory
    BY MovedType
  <2> QED
    BY <1>1, <1>4, <2>1 DEF BackUpActive
<1>5. CASE MoveStaged(d)
  <2>1. Moved(Staged(d), active[vol[d]]) \in Directory
    BY <1>1, MovedType
  <2> QED
    BY <1>5, <2>1 DEF MoveStaged
<1>6. CASE InstallScript(d)
  BY <1>6 DEF InstallScript, MarkerCommands, Settings
<1>7. CASE TestMarker(d)
  BY <1>7 DEF TestMarker
<1>8. CASE BackUpMarker(d)
  BY <1>8 DEF BackUpMarker
<1>9. CASE CopyMarker(d)
  BY <1>9 DEF CopyMarker, MarkerSource, Directory
<1>10. CASE ProtectMarker(d)
  BY <1>10 DEF ProtectMarker
<1>11. CASE CommandFails(d)
  BY <1>11 DEF CommandFails
<1> QED
  BY <1>2, <1>3, <1>4, <1>5, <1>6, <1>7, <1>8, <1>9, <1>10, <1>11 DEF ScriptStep

\* The portal's transactions and its failure handler keep the types.
LEMMA TypeRecords ==
    ASSUME TypeOK, NEW d \in Deployments, ConstantsAssumption, UNCHANGED <<inTurn, setting>>,
           \/ LockVersion(d) \/ Commit(d) \/ CommitFails(d)
           \/ AuditSuccess(d) \/ AuditRaises(d)
           \/ FailRecord(d) \/ FailLocation(d) \/ AuditFailure(d) \/ HandlerRaises(d)
    PROVE  TypeOK'
<1> USE DEF TypeOK
<1>1. CASE LockVersion(d)
  BY <1>1 DEF LockVersion
<1>2. CASE Commit(d)
  BY <1>2 DEF Commit, ConstantsAssumption
<1>3. CASE CommitFails(d)
  BY <1>3 DEF CommitFails
<1>4. CASE AuditSuccess(d)
  BY <1>4 DEF AuditSuccess
<1>5. CASE AuditRaises(d)
  BY <1>5 DEF AuditRaises
<1>6. CASE FailRecord(d)
  <2>1. PICK res \in {"not_run", "success", "failed"} :
           reload' = [reload EXCEPT ![d] = res]
    BY <1>6 DEF FailRecord
  <2> QED
    BY <1>6, <2>1 DEF FailRecord
<1>7. CASE FailLocation(d)
  BY <1>7 DEF FailLocation, FailedLocation
<1>8. CASE AuditFailure(d)
  BY <1>8 DEF AuditFailure
<1>9. CASE HandlerRaises(d)
  BY <1>9 DEF HandlerRaises
<1> QED
  BY <1>1, <1>2, <1>3, <1>4, <1>5, <1>6, <1>7, <1>8, <1>9

\* The variables keep their types.
THEOREM TypeCorrect ==
    ASSUME ConstantsAssumption
    PROVE  Spec => []TypeOK
<1>1. Init => TypeOK
  BY TypeInit
<1>2. TypeOK /\ [Next]_vars => TypeOK'
  <2> SUFFICES ASSUME TypeOK, [Next]_vars PROVE TypeOK'
    OBVIOUS
  <2>1. CASE \E d \in Deployments : AttemptStep(d)
    BY <2>1, TypePortal, TypeScript, TypeRecords DEF AttemptStep, PortalStep
  <2>2. CASE UNCHANGED vars
    BY <2>2 DEF TypeOK, vars
  <2> QED
    BY <2>1, <2>2 DEF Next, Terminating
<1> QED
  BY <1>1, <1>2, PTL DEF Spec
-----------------------------------------------------------------------------
(* The attempts: each lemma is about the attempt e when d takes a step.    *)

\* The script's position and the staging directory go together.
LEMMA ScriptStepInv ==
    ASSUME TypeOK, AttemptInv, NEW d \in Deployments, NEW e \in Deployments,
           ConstantsAssumption, PortalStep(d) \/ ScriptStep(d) \/ Kill(d)
    PROVE  ScriptInv(e)'
<1> USE DEF TypeOK, AttemptInv, ScriptInv
<1>1. CASE Start(d)
  BY <1>1 DEF Start, Settled
<1>2. CASE Accept(d)
  BY <1>2 DEF Accept
<1>3. CASE Reject(d)
  BY <1>3 DEF Reject
<1>4. CASE StepDone(d)
  BY <1>4 DEF StepDone, AfterStep, Stage, BundleRoots
<1>5. CASE StepFails(d)
  BY <1>5 DEF StepFails, Stage, BundleRoots
<1>6. CASE SwapReturns(d)
  BY <1>6 DEF SwapReturns
<1>7. CASE SwapLost(d)
  BY <1>7 DEF SwapLost
<1>8. CASE Reload(d)
  BY <1>8 DEF Reload
<1>9. CASE ReloadFails(d)
  BY <1>9 DEF ReloadFails
<1>10. CASE LockVersion(d)
  BY <1>10 DEF LockVersion
<1>11. CASE Commit(d)
  BY <1>11 DEF Commit
<1>12. CASE CommitFails(d)
  BY <1>12 DEF CommitFails
<1>13. CASE AuditSuccess(d)
  BY <1>13 DEF AuditSuccess
<1>14. CASE AuditRaises(d)
  BY <1>14 DEF AuditRaises
<1>15. CASE FailRecord(d)
  BY <1>15 DEF FailRecord
<1>16. CASE FailLocation(d)
  BY <1>16 DEF FailLocation, FailedLocation
<1>17. CASE AuditFailure(d)
  BY <1>17 DEF AuditFailure
<1>18. CASE HandlerRaises(d)
  BY <1>18 DEF HandlerRaises
<1>19. CASE RemovePrevious(d)
  BY <1>19 DEF RemovePrevious
<1>20. CASE TestActive(d)
  BY <1>20 DEF TestActive, AfterTest
<1>21. CASE BackUpActive(d)
  BY <1>21 DEF BackUpActive
<1>22. CASE MoveStaged(d)
  BY <1>22 DEF MoveStaged
<1>23. CASE InstallScript(d)
  BY <1>23 DEF InstallScript, MarkerCommands, Settings
<1>24. CASE TestMarker(d)
  BY <1>24 DEF TestMarker
<1>25. CASE BackUpMarker(d)
  BY <1>25 DEF BackUpMarker
<1>26. CASE CopyMarker(d)
  BY <1>26 DEF CopyMarker
<1>27. CASE ProtectMarker(d)
  BY <1>27 DEF ProtectMarker
<1>28. CASE CommandFails(d)
  BY <1>28 DEF CommandFails
<1>29. CASE Kill(d)
  BY <1>29 DEF Kill
<1> QED
  BY <1>1, <1>2, <1>3, <1>4, <1>5, <1>6, <1>7, <1>8, <1>9, <1>10, <1>11,
     <1>12, <1>13, <1>14, <1>15, <1>16, <1>17, <1>18, <1>19, <1>20, <1>21,
     <1>22, <1>23, <1>24, <1>25, <1>26, <1>27, <1>28, <1>29 DEF PortalStep, ScriptStep

\* A record, its reload result and its audit go together with the attempt.
LEMMA RecordStepInv ==
    ASSUME TypeOK, AttemptInv, NEW d \in Deployments, NEW e \in Deployments,
           ConstantsAssumption, PortalStep(d) \/ ScriptStep(d) \/ Kill(d)
    PROVE  RecordInv(e)'
<1> USE DEF TypeOK, AttemptInv, RecordInv
<1>1. CASE Start(d)
  BY <1>1 DEF Start, Settled
<1>2. CASE Accept(d)
  BY <1>2 DEF Accept
<1>3. CASE Reject(d)
  BY <1>3 DEF Reject
<1>4. CASE StepDone(d)
  BY <1>4 DEF StepDone, AfterStep, Stage, BundleRoots
<1>5. CASE StepFails(d)
  BY <1>5 DEF StepFails, Stage, BundleRoots
<1>6. CASE SwapReturns(d)
  BY <1>6 DEF SwapReturns
<1>7. CASE SwapLost(d)
  BY <1>7 DEF SwapLost
<1>8. CASE Reload(d)
  BY <1>8 DEF Reload
<1>9. CASE ReloadFails(d)
  BY <1>9 DEF ReloadFails
<1>10. CASE LockVersion(d)
  BY <1>10 DEF LockVersion
<1>11. CASE Commit(d)
  BY <1>11 DEF Commit, ConstantsAssumption
<1>12. CASE CommitFails(d)
  BY <1>12 DEF CommitFails
<1>13. CASE AuditSuccess(d)
  BY <1>13 DEF AuditSuccess
<1>14. CASE AuditRaises(d)
  BY <1>14 DEF AuditRaises
<1>15. CASE FailRecord(d)
  BY <1>15 DEF FailRecord
<1>16. CASE FailLocation(d)
  BY <1>16 DEF FailLocation, FailedLocation
<1>17. CASE AuditFailure(d)
  BY <1>17 DEF AuditFailure
<1>18. CASE HandlerRaises(d)
  BY <1>18 DEF HandlerRaises
<1>19. CASE RemovePrevious(d)
  BY <1>19 DEF RemovePrevious
<1>20. CASE TestActive(d)
  BY <1>20 DEF TestActive, AfterTest
<1>21. CASE BackUpActive(d)
  BY <1>21 DEF BackUpActive
<1>22. CASE MoveStaged(d)
  BY <1>22 DEF MoveStaged
<1>23. CASE InstallScript(d)
  BY <1>23 DEF InstallScript
<1>24. CASE TestMarker(d)
  BY <1>24 DEF TestMarker
<1>25. CASE BackUpMarker(d)
  BY <1>25 DEF BackUpMarker
<1>26. CASE CopyMarker(d)
  BY <1>26 DEF CopyMarker
<1>27. CASE ProtectMarker(d)
  BY <1>27 DEF ProtectMarker
<1>28. CASE CommandFails(d)
  BY <1>28 DEF CommandFails
<1>29. CASE Kill(d)
  BY <1>29 DEF Kill
<1> QED
  BY <1>1, <1>2, <1>3, <1>4, <1>5, <1>6, <1>7, <1>8, <1>9, <1>10, <1>11,
     <1>12, <1>13, <1>14, <1>15, <1>16, <1>17, <1>18, <1>19, <1>20, <1>21,
     <1>22, <1>23, <1>24, <1>25, <1>26, <1>27, <1>28, <1>29 DEF PortalStep, ScriptStep

\* Without overlap only the latest attempt writes to the location.
LEMMA SerialStepInv ==
    ASSUME TypeOK, AttemptInv, NEW d \in Deployments, NEW e \in Deployments,
           ConstantsAssumption, UNCHANGED <<inTurn, setting>>, PortalStep(d) \/ ScriptStep(d) \/ Kill(d)
    PROVE  SerialInv(e)'
<1> USE DEF TypeOK, AttemptInv, RecordInv, SerialInv
<1>1. CASE Start(d)
  BY <1>1 DEF Start, Settled
<1>2. CASE Accept(d)
  BY <1>2 DEF Accept
<1>3. CASE Reject(d)
  BY <1>3 DEF Reject
<1>4. CASE StepDone(d)
  BY <1>4 DEF StepDone, AfterStep, Stage, BundleRoots
<1>5. CASE StepFails(d)
  BY <1>5 DEF StepFails, Stage, BundleRoots
<1>6. CASE SwapReturns(d)
  BY <1>6 DEF SwapReturns
<1>7. CASE SwapLost(d)
  BY <1>7 DEF SwapLost
<1>8. CASE Reload(d)
  BY <1>8 DEF Reload
<1>9. CASE ReloadFails(d)
  BY <1>9 DEF ReloadFails
<1>10. CASE LockVersion(d)
  BY <1>10 DEF LockVersion
<1>11. CASE Commit(d)
  BY <1>11 DEF Commit
<1>12. CASE CommitFails(d)
  BY <1>12 DEF CommitFails
<1>13. CASE AuditSuccess(d)
  BY <1>13 DEF AuditSuccess
<1>14. CASE AuditRaises(d)
  BY <1>14 DEF AuditRaises
<1>15. CASE FailRecord(d)
  BY <1>15 DEF FailRecord
<1>16. CASE FailLocation(d)
  BY <1>16 DEF FailLocation, FailedLocation
<1>17. CASE AuditFailure(d)
  BY <1>17 DEF AuditFailure
<1>18. CASE HandlerRaises(d)
  BY <1>18 DEF HandlerRaises
<1>19. CASE RemovePrevious(d)
  BY <1>19 DEF RemovePrevious
<1>20. CASE TestActive(d)
  BY <1>20 DEF TestActive, AfterTest
<1>21. CASE BackUpActive(d)
  BY <1>21 DEF BackUpActive
<1>22. CASE MoveStaged(d)
  BY <1>22 DEF MoveStaged
<1>23. CASE InstallScript(d)
  BY <1>23 DEF InstallScript
<1>24. CASE TestMarker(d)
  BY <1>24 DEF TestMarker
<1>25. CASE BackUpMarker(d)
  BY <1>25 DEF BackUpMarker
<1>26. CASE CopyMarker(d)
  BY <1>26 DEF CopyMarker
<1>27. CASE ProtectMarker(d)
  BY <1>27 DEF ProtectMarker
<1>28. CASE CommandFails(d)
  BY <1>28 DEF CommandFails
<1>29. CASE Kill(d)
  BY <1>29 DEF Kill
<1> QED
  BY <1>1, <1>2, <1>3, <1>4, <1>5, <1>6, <1>7, <1>8, <1>9, <1>10, <1>11,
     <1>12, <1>13, <1>14, <1>15, <1>16, <1>17, <1>18, <1>19, <1>20, <1>21,
     <1>22, <1>23, <1>24, <1>25, <1>26, <1>27, <1>28, <1>29 DEF PortalStep, ScriptStep

\* Before the first attempt there is nothing to relate.
LEMMA AttemptInit == ASSUME ConstantsAssumption PROVE Init => AttemptInv
<1> SUFFICES ASSUME Init, NEW d \in Deployments
             PROVE  ScriptInv(d) /\ RecordInv(d) /\ SerialInv(d)
  BY DEF AttemptInv
<1>1. ScriptInv(d)
  BY DEF Init, ScriptInv
<1>2. /\ pc[d] = "idle" /\ err[d] = "none"
      /\ reload[d] = "not_run" /\ audit[d] = "none"
  BY DEF Init
<1>3. RecordInv(d)
  BY <1>2 DEF RecordInv
<1>4. SerialInv(d)
  BY <1>2 DEF SerialInv
<1> QED
  BY <1>1, <1>3, <1>4

\* Every step preserves what is known of every attempt.
LEMMA AttemptNext ==
    ASSUME ConstantsAssumption, TypeOK, AttemptInv, [Next]_vars
    PROVE  AttemptInv'
<1>1. CASE \E d \in Deployments : AttemptStep(d)
  <2>1. PICK d \in Deployments : /\ PortalStep(d) \/ ScriptStep(d) \/ Kill(d)
                                 /\ UNCHANGED <<inTurn, setting>>
    BY <1>1 DEF AttemptStep
  <2> SUFFICES ASSUME NEW e \in Deployments
               PROVE  (ScriptInv(e) /\ RecordInv(e) /\ SerialInv(e))'
    BY DEF AttemptInv
  <2> QED
    BY <2>1, ScriptStepInv, RecordStepInv, SerialStepInv
<1>2. CASE UNCHANGED vars
  BY <1>2 DEF vars, AttemptInv, ScriptInv, RecordInv, SerialInv
<1> QED
  BY <1>1, <1>2 DEF Next, AttemptStep, Terminating

\* Where an attempt is determines what its script has left behind and what its
\* records say (deploy_config_version and its failure handler).
THEOREM AttemptInvCorrect ==
    ASSUME ConstantsAssumption
    PROVE  Spec => []AttemptInv
<1>1. Init => AttemptInv
  BY AttemptInit
<1>2. TypeOK /\ AttemptInv /\ [Next]_vars => AttemptInv'
  BY AttemptNext
<1> QED
  BY <1>1, <1>2, TypeCorrect, PTL DEF Spec

\* The audit log's successes agree with the records and the versions, whatever
\* attempts follow or overlap (_record_deployment_audit after the commit).
THEOREM AuditAgreesCorrect ==
    ASSUME ConstantsAssumption
    PROVE  Spec => []AuditAgrees
<1>1. AttemptInv => AuditAgrees
  BY DEF AttemptInv, RecordInv, AuditAgrees
<1> QED
  BY <1>1, AttemptInvCorrect, PTL

\* A failure in the audit log shows on the record, and on the location if
\* attempts follow each other (_mark_deployment_failed before the audit).
THEOREM FailureIsShownCorrect ==
    ASSUME ConstantsAssumption
    PROVE  Spec => []FailureIsShown
<1>1. AttemptInv => FailureIsShown
  BY DEF AttemptInv, RecordInv, SerialInv, FailureIsShown
<1> QED
  BY <1>1, AttemptInvCorrect, PTL
-----------------------------------------------------------------------------
\* What makes attempt d the proof that its version was loaded.
Reloaded(d) == /\ reload[d] = "success"
               /\ at[d] = "ok"
               /\ staged[d] \intersect Volumes = {}

\* An attempt whose script ended well stays so: nothing runs after it.
LEMMA ReloadedStays ==
    ASSUME ConstantsAssumption, TypeOK, AttemptInv, NEW d \in Deployments,
           NEW e \in Deployments, PortalStep(d) \/ ScriptStep(d) \/ Kill(d),
           Reloaded(e)
    PROVE  Reloaded(e)'
<1> USE DEF TypeOK, AttemptInv, ScriptInv, RecordInv, Reloaded
<1>1. CASE StepDone(d)
  BY <1>1 DEF StepDone, Stage
<1>2. CASE StepFails(d)
  BY <1>2 DEF StepFails, Stage
<1>3. CASE Commit(d)
  BY <1>3 DEF Commit
<1>4. CASE FailRecord(d)
  BY <1>4 DEF FailRecord
<1>5. CASE ScriptStep(d)
  BY <1>5 DEF ScriptStep, RemovePrevious, TestActive, BackUpActive, MoveStaged,
     InstallScript, TestMarker, BackUpMarker, CopyMarker, ProtectMarker, CommandFails
<1>6. CASE UNCHANGED <<reload, at, staged>>
  BY <1>6
<1> QED
  BY <1>1, <1>2, <1>3, <1>4, <1>5, <1>6
  DEF PortalStep, Start, Accept, Reject, SwapReturns, SwapLost, Reload, ReloadFails,
      LockVersion, CommitFails, AuditSuccess, AuditRaises, FailLocation,
      AuditFailure, HandlerRaises, Kill

\* Only a commit changes what a version's status is.
LEMMA OnlyCommit ==
    ASSUME NEW d \in Deployments, PortalStep(d) \/ ScriptStep(d) \/ Kill(d), ~Commit(d)
    PROVE  version' = version
  BY DEF PortalStep, Start, Accept, Reject, StepDone, StepFails, SwapReturns, SwapLost,
     Reload, ReloadFails, LockVersion, CommitFails, AuditSuccess, AuditRaises,
     FailRecord, FailLocation, AuditFailure, HandlerRaises, Kill, ScriptStep,
     RemovePrevious, TestActive, BackUpActive, MoveStaged, InstallScript, TestMarker,
     BackUpMarker, CopyMarker, ProtectMarker, CommandFails

\* A step keeps every deployed version backed by an attempt of it.
LEMMA DeployedNext ==
    ASSUME ConstantsAssumption, TypeOK, AttemptInv, DeployedWasReloaded, [Next]_vars
    PROVE  DeployedWasReloaded'
<1> SUFFICES ASSUME NEW v \in Versions, version'[v] # "not_deployed"
             PROVE  \E d \in Deployments : VersionOf[d] = v /\ Reloaded(d)'
  BY DEF DeployedWasReloaded, Reloaded
<1>1. CASE UNCHANGED vars
  BY <1>1 DEF vars, DeployedWasReloaded, Reloaded
<1>2. ASSUME NEW d \in Deployments, PortalStep(d) \/ ScriptStep(d) \/ Kill(d)
      PROVE  \E e \in Deployments : VersionOf[e] = v /\ Reloaded(e)'
  <2>1. CASE version[v] # "not_deployed"
    <3>1. PICK e \in Deployments : VersionOf[e] = v /\ Reloaded(e)
      BY <2>1 DEF DeployedWasReloaded, Reloaded
    <3> QED
      BY <1>2, <3>1, ReloadedStays
  <2>2. CASE version[v] = "not_deployed"
    <3>1. Commit(d)
      BY <1>2, <2>2, OnlyCommit
    <3>2. VersionOf[d] = v
      BY <2>2, <3>1 DEF Commit, TypeOK
    <3>3. Reloaded(d)'
      BY <3>1 DEF Commit, TypeOK, AttemptInv, ScriptInv, Reloaded
    <3> QED
      BY <3>2, <3>3
  <2> QED
    BY <2>1, <2>2
<1> QED
  BY <1>1, <1>2 DEF Next, AttemptStep, Terminating

\* A version is called deployed only after an attempt of it has moved both
\* volumes into place and Asterisk has confirmed the reload, also when attempts
\* overlap, workers are killed and sessions are lost.
THEOREM DeployedWasReloadedCorrect ==
    ASSUME ConstantsAssumption
    PROVE  Spec => []DeployedWasReloaded
<1>1. Init => DeployedWasReloaded
  BY DEF Init, DeployedWasReloaded
<1>2. TypeOK /\ AttemptInv /\ DeployedWasReloaded /\ [Next]_vars => DeployedWasReloaded'
  BY DeployedNext
<1> QED
  BY <1>1, <1>2, TypeCorrect, AttemptInvCorrect, PTL DEF Spec
-----------------------------------------------------------------------------
\* The times of the commits: a step that touches none of what they depend on ...
LEMMA StampUntouched ==
    ASSUME StampInv, UNCHANGED <<location, clock, version, deployedAt, stamp>>,
           \A e \in Deployments : pc'[e] = "committing" => pc[e] = "committing"
    PROVE  StampInv'
  BY DEF StampInv

\* ... and every other step of the portal.
LEMMA StampPortal ==
    ASSUME ConstantsAssumption, TypeOK, StampInv, NEW d \in Deployments,
           \/ LockVersion(d) \/ Commit(d) \/ CommitFails(d)
           \/ FailLocation(d) \/ Kill(d)
    PROVE  StampInv'
<1> USE DEF TypeOK, StampInv
<1>1. CASE LockVersion(d)
  BY <1>1 DEF LockVersion, RowsFree
<1>2. CASE Commit(d)
  <2> DEFINE u == VersionOf[d]
  <2>1. /\ u \in Versions
        /\ stamp[d] \in Nat /\ location.at < stamp[d] /\ stamp[d] <= clock
    BY <1>2 DEF Commit, ConstantsAssumption
  <2>2. /\ clock' = clock
        /\ location'.at = stamp[d]
        /\ \A v \in Versions : deployedAt'[v] = IF v = u THEN stamp[d] ELSE deployedAt[v]
        /\ \A v \in Versions : v # u => version'[v] = version[v]
        /\ version'[u] # "not_deployed"
    BY <1>2, <2>1 DEF Commit
  <2>3. \A e \in Deployments : pc'[e] # "committing"
    BY <1>2 DEF Commit
  <2>4. location.at \in Nat /\ clock \in Nat
    OBVIOUS
  <2>5. \A v \in Versions : deployedAt[v] \in Nat
    OBVIOUS
  <2>6. \A v \in Versions : version'[v] # "not_deployed" => deployedAt'[v] > 0
    BY <2>1, <2>2, <2>4
  <2>7. \A v \in Versions : deployedAt'[v] <= location'.at
    BY <2>1, <2>2, <2>4, <2>5
  <2>8. \A v, w \in Versions : v # w /\ deployedAt'[v] = deployedAt'[w]
                             => deployedAt'[v] = 0
    BY <2>1, <2>2, <2>4, <2>5
  <2>9. \E v \in Versions : version'[v] # "not_deployed" /\ deployedAt'[v] = location'.at
    <3>1. u \in Versions /\ version'[u] # "not_deployed" /\ deployedAt'[u] = location'.at
      BY ONLY <2>1, <2>2
    <3> HIDE DEF u
    <3> QED
      BY ONLY <3>1
  <2> QED
    BY <2>1, <2>2, <2>3, <2>6, <2>7, <2>8, <2>9
<1>3. CASE CommitFails(d)
  BY <1>3 DEF CommitFails
<1>4. CASE FailLocation(d)
  <2>1. location'.at = location.at
    BY <1>4 DEF FailLocation, FailedLocation
  <2> QED
    BY <1>4, <2>1 DEF FailLocation
<1>5. CASE Kill(d)
  BY <1>5 DEF Kill
<1> QED
  BY <1>1, <1>2, <1>3, <1>4, <1>5

\* Every step keeps the times in order.
LEMMA StampNext ==
    ASSUME ConstantsAssumption, TypeOK, StampInv, [Next]_vars
    PROVE  StampInv'
<1>1. CASE UNCHANGED vars
  BY <1>1, StampUntouched DEF vars
<1>2. ASSUME NEW d \in Deployments, PortalStep(d) \/ ScriptStep(d) \/ Kill(d)
      PROVE  StampInv'
  <2>1. CASE LockVersion(d) \/ Commit(d) \/ CommitFails(d) \/ FailLocation(d) \/ Kill(d)
    BY <2>1, StampPortal
  <2>2. CASE StepDone(d)
    <3>1. AfterStep(pc[d]) # "committing"
      BY <2>2 DEF StepDone, AfterStep
    <3> QED
      BY <2>2, <3>1, StampUntouched DEF StepDone, TypeOK
  <2>3. CASE ScriptStep(d)
    BY <2>3, StampUntouched DEF ScriptStep, RemovePrevious, TestActive, BackUpActive,
       MoveStaged, InstallScript, TestMarker, BackUpMarker, CopyMarker, ProtectMarker,
       CommandFails
  <2>4. CASE \/ Start(d) \/ Accept(d) \/ Reject(d) \/ StepFails(d) \/ SwapReturns(d)
             \/ SwapLost(d) \/ Reload(d) \/ ReloadFails(d) \/ AuditSuccess(d)
             \/ AuditRaises(d) \/ FailRecord(d) \/ AuditFailure(d) \/ HandlerRaises(d)
    <3>1. UNCHANGED <<location, clock, version, deployedAt, stamp>>
      BY <2>4 DEF Start, Accept, Reject, StepFails, SwapReturns, SwapLost, Reload,
         ReloadFails, AuditSuccess, AuditRaises, FailRecord, AuditFailure, HandlerRaises
    <3>2. PICK p : p # "committing" /\ pc' = [pc EXCEPT ![d] = p]
      BY <2>4 DEF Start, Accept, Reject, StepFails, SwapReturns, SwapLost, Reload,
         ReloadFails, AuditSuccess, AuditRaises, FailRecord, AuditFailure, HandlerRaises
    <3> QED
      BY <3>1, <3>2, StampUntouched DEF TypeOK
  <2> QED
    BY <1>2, <2>1, <2>2, <2>3, <2>4 DEF PortalStep
<1> QED
  BY <1>1, <1>2 DEF Next, AttemptStep, Terminating

\* The order of the commits is the order of the times.
THEOREM StampInvCorrect ==
    ASSUME ConstantsAssumption
    PROVE  Spec => []StampInv
<1>1. Init => StampInv
  BY DEF Init, StampInv
<1>2. TypeOK /\ StampInv /\ [Next]_vars => StampInv'
  BY StampNext
<1> QED
  BY <1>1, <1>2, TypeCorrect, PTL DEF Spec

\* The dashboard calls exactly one version the latest deployed one, and the
\* location's last_deployed_at is its time, also when attempts overlap
\* (_mark_deployment_success under the row locks, _dashboard_location).
THEOREM DashboardAgreesCorrect ==
    ASSUME ConstantsAssumption
    PROVE  Spec => []DashboardAgrees
<1>1. ASSUME TypeOK, StampInv
      PROVE  DashboardAgrees
  <2> USE <1>1 DEF TypeOK
  <2> SUFFICES ASSUME NEW u \in Versions, version[u] # "not_deployed"
               PROVE  \E v \in Versions : LatestDeployed = {v} /\ deployedAt[v] = location.at
    BY DEF DashboardAgrees
  <2>1. location.at > 0
    BY DEF StampInv
  <2>2. PICK v \in Versions : version[v] # "not_deployed" /\ deployedAt[v] = location.at
    BY <2>1 DEF StampInv
  <2>3. v \in LatestDeployed
    BY <2>2 DEF LatestDeployed, StampInv
  <2>4. \A w \in LatestDeployed : w = v
    BY <2>1, <2>2 DEF LatestDeployed, StampInv
  <2>5. LatestDeployed = {v}
    <3> HIDE DEF TypeOK
    <3> QED
      BY <2>3, <2>4
  <2> QED
    BY <2>2, <2>5
<1> QED
  BY <1>1, TypeCorrect, StampInvCorrect, PTL

-----------------------------------------------------------------------------
(* The marker, and what the host is when attempts follow each other.       *)

\* A step of the portal changes neither the volumes nor the marker, and of the scripts
\* at most that it starts one.
LEMMA PortalOnHost ==
    ASSUME TypeOK, NEW d \in Deployments, PortalStep(d) \/ Kill(d)
    PROVE  /\ UNCHANGED <<active, marker, vol>>
           /\ \/ at' = at
              \/ pc[d] = "verify" /\ StepDone(d) /\ at' = [at EXCEPT ![d] = "rm"]
<1>1. CASE StepDone(d)
  BY <1>1 DEF StepDone
<1>2. CASE ~StepDone(d)
  BY <1>2 DEF PortalStep, Start, Accept, Reject, StepFails, SwapReturns, SwapLost,
       Reload, ReloadFails, LockVersion, Commit, CommitFails, AuditSuccess, AuditRaises,
       FailRecord, FailLocation, AuditFailure, HandlerRaises, Kill
<1> QED
  BY <1>1, <1>2

\* A script's step moves no record and only its own place.
LEMMA ScriptOnPortal ==
    ASSUME TypeOK, NEW d \in Deployments, ScriptStep(d)
    PROVE  /\ UNCHANGED <<pc, err, recordVars, dbVars, running>>
           /\ \A e \in Deployments : e # d => at'[e] = at[e] /\ vol'[e] = vol[e]
           /\ at[d] \in ScriptSteps
BY DEF TypeOK, ScriptStep, RemovePrevious, TestActive, BackUpActive, MoveStaged,
       InstallScript, TestMarker, BackUpMarker, CopyMarker, ProtectMarker, CommandFails

\* In turn, only the latest attempt takes steps, except for the start of the next.
LEMMA OnlyLatest ==
    ASSUME TypeOK, AttemptInv, TurnInv, inTurn, NEW d \in Deployments,
           PortalStep(d) \/ ScriptStep(d) \/ Kill(d), ~Start(d)
    PROVE  d = latest
<1>1. CASE ScriptStep(d)
  BY <1>1, ScriptOnPortal DEF TurnInv
<1>2. CASE PortalStep(d) \/ Kill(d)
  <2>1. pc[d] \notin EndedPhases
    BY <1>2 DEF PortalStep, Accept, Reject, StepDone, StepFails, SwapReturns, SwapLost,
       Reload, ReloadFails, LockVersion, Commit, CommitFails, AuditSuccess, AuditRaises,
       FailRecord, FailLocation, AuditFailure, HandlerRaises, Kill
  <2> QED
    BY <2>1 DEF TurnInv
<1> QED
  BY <1>1, <1>2

\* What the script of the latest attempt does to the host.
LEMMA HostScript ==
    ASSUME TypeOK, AttemptInv, NEW d \in Deployments, HostInv(d), ScriptStep(d),
           UNCHANGED setting, ConstantsAssumption
    PROVE  HostInv(d)'
<1> USE DEF TypeOK, HostInv
<1>1. d # NoDep /\ Staged(d).top = d
  BY DEF ConstantsAssumption, Staged
<1>2. CASE RemovePrevious(d)
  BY <1>2 DEF RemovePrevious
<1>3. CASE TestActive(d)
  BY <1>3 DEF TestActive, AfterTest
<1>4. CASE BackUpActive(d)
  <2>1. NoDirectory.top = NoDep
    BY DEF NoDirectory
  <2> QED
    BY <1>4, <2>1 DEF BackUpActive
<1>5. CASE MoveStaged(d)
  <2>1. Moved(Staged(d), active[vol[d]]) = Staged(d)
    BY <1>5 DEF MoveStaged, Moved
  <2> QED
    BY <1>5, <2>1 DEF MoveStaged
<1>6. CASE InstallScript(d)
  BY <1>6 DEF InstallScript, MarkerCommands, Settings
<1>7. CASE TestMarker(d)
  BY <1>7 DEF TestMarker
<1>8. CASE BackUpMarker(d)
  BY <1>8 DEF BackUpMarker
<1>9. CASE CopyMarker(d)
  BY <1>1, <1>9 DEF CopyMarker, MarkerSource
<1>10. CASE ProtectMarker(d)
  BY <1>10 DEF ProtectMarker
<1>11. CASE CommandFails(d)
  BY <1>11 DEF CommandFails
<1> QED
  BY <1>2, <1>3, <1>4, <1>5, <1>6, <1>7, <1>8, <1>9, <1>10, <1>11 DEF ScriptStep

\* The portal's step of the latest attempt: it loads what its script has put there.
LEMMA HostPortal ==
    ASSUME TypeOK, AttemptInv, NEW d \in Deployments, HostInv(d),
           PortalStep(d) \/ Kill(d), UNCHANGED setting, ConstantsAssumption
    PROVE  HostInv(d)'
<1> USE DEF TypeOK
<1>1. ScriptInv(d)
  BY DEF AttemptInv
<1>2. UNCHANGED <<active, marker, vol>>
  BY PortalOnHost
<1>3. CASE Reload(d)
  <2>1. at[d] = "ok"
    BY <1>1, <1>3 DEF Reload, ScriptInv
  <2>2. active["asterisk"] = Staged(d)
    BY <2>1 DEF HostInv
  <2> QED
    BY <1>2, <1>3, <2>1, <2>2 DEF Reload, HostInv, Staged
<1>4. CASE StepDone(d) /\ pc[d] = "verify"
  <2>1. vol[d] = "asterisk" /\ at'[d] = "rm" /\ pc'[d] = "swapping"
    BY <1>1, <1>4 DEF StepDone, AfterStep, ScriptInv
  <2> QED
    BY <1>2, <2>1 DEF HostInv
<1>5. CASE ~Reload(d) /\ ~(StepDone(d) /\ pc[d] = "verify")
  <2>1. at' = at
    BY <1>5, PortalOnHost
  <2>2. pc'[d] \in {"marking", "committing", "auditing"}
           => /\ pc[d] \in {"marking", "committing", "auditing"}
              /\ running' = running
    BY <1>5 DEF PortalStep, Start, Accept, Reject, StepDone, AfterStep, StepFails,
       SwapReturns, SwapLost, ReloadFails, LockVersion, Commit, CommitFails,
       AuditSuccess, AuditRaises, FailRecord, FailLocation, AuditFailure,
       HandlerRaises, Kill
  <2> QED
    BY <1>2, <2>1, <2>2 DEF HostInv
<1> QED
  BY <1>3, <1>4, <1>5

\* A success of the latest attempt stands until its own failure is recorded.
LEMMA LiveStep ==
    ASSUME TypeOK, AttemptInv, NEW d \in Deployments, HostInv(d), LiveInv(d),
           PortalStep(d) \/ ScriptStep(d) \/ Kill(d), ~Start(d), ConstantsAssumption
    PROVE  LiveInv(d)'
<1> USE DEF TypeOK
<1>1. ScriptInv(d) /\ RecordInv(d) /\ VersionOf[d] \in Versions
  BY DEF AttemptInv, ConstantsAssumption
<1>2. CASE ScriptStep(d)
  <2>1. record[d] # "success"
    BY <1>2, ScriptOnPortal DEF LiveInv
  <2> QED
    BY <1>2, <2>1, ScriptOnPortal DEF LiveInv
<1>3. CASE Commit(d)
  BY <1>1, <1>3 DEF Commit, LiveInv, HostInv, ScriptInv
<1>4. CASE FailRecord(d)
  BY <1>4 DEF FailRecord, LiveInv
<1>5. CASE FailLocation(d)
  <2>1. record[d] = "failed"
    BY <1>1, <1>5 DEF FailLocation, RecordInv
  <2> QED
    BY <1>5, <2>1 DEF FailLocation, LiveInv
<1>6. CASE AuditSuccess(d) \/ AuditRaises(d) \/ HandlerRaises(d) \/ AuditFailure(d)
           \/ Kill(d)
  <2>1. UNCHANGED <<record, at, running, version, location, deployedAt>>
    BY <1>6 DEF AuditSuccess, AuditRaises, HandlerRaises, AuditFailure, Kill
  <2>2. pc'[d] \in {"failing", "done"}
    BY <1>6 DEF AuditSuccess, AuditRaises, HandlerRaises, AuditFailure, Kill
  <2> QED
    BY <2>1, <2>2 DEF LiveInv
<1>7. CASE \/ Accept(d) \/ Reject(d) \/ StepDone(d) \/ StepFails(d) \/ SwapReturns(d)
           \/ SwapLost(d) \/ Reload(d) \/ ReloadFails(d) \/ LockVersion(d)
           \/ CommitFails(d)
  <2>1. /\ pc[d] \notin {"auditing", "failing", "done"}
        /\ record' = record
    BY <1>7 DEF Accept, Reject, StepDone, StepFails, SwapReturns, SwapLost, Reload,
                ReloadFails, LockVersion, CommitFails
  <2> QED
    BY <2>1 DEF LiveInv
<1> QED
  BY <1>2, <1>3, <1>4, <1>5, <1>6, <1>7 DEF PortalStep

\* Every step keeps TurnInv.
LEMMA TurnNext ==
    ASSUME ConstantsAssumption, TypeOK, AttemptInv, TurnInv, [Next]_vars
    PROVE  TurnInv'
<1>1. CASE UNCHANGED vars
  BY <1>1 DEF vars, TurnInv, HostInv, LiveInv
<1>2. ASSUME NEW d \in Deployments, PortalStep(d) \/ ScriptStep(d) \/ Kill(d),
             UNCHANGED <<inTurn, setting>>
      PROVE  TurnInv'
  <2> SUFFICES ASSUME inTurn
               PROVE  /\ \A e \in Deployments \ {latest'} :
                            pc'[e] \in EndedPhases /\ at'[e] \notin ScriptSteps
                      /\ latest' # NoDep => HostInv(latest)' /\ LiveInv(latest)'
    BY <1>2 DEF TurnInv
  \* The next attempt starts from nothing of its own.
  <2>1. CASE Start(d)
    <3>1. /\ Settled /\ pc[d] = "idle" /\ latest' = d
          /\ pc' = [pc EXCEPT ![d] = "checking"]
          /\ record'[d] = "pending"
          /\ UNCHANGED <<at, vol, active, marker, running>>
      BY <2>1 DEF Start, TypeOK
    <3>2. at[d] = "off"
      BY <3>1 DEF AttemptInv, ScriptInv
    <3>3. \A e \in Deployments \ {latest'} :
             pc'[e] \in EndedPhases /\ at'[e] \notin ScriptSteps
      BY <3>1 DEF Settled, TypeOK
    <3>4. HostInv(d)' /\ LiveInv(d)'
      BY <3>1, <3>2 DEF HostInv, LiveInv, TypeOK
    <3> QED
      BY <3>1, <3>3, <3>4 DEF HostInv, LiveInv
  <2>2. CASE ~Start(d)
    <3>1. d = latest /\ d # NoDep
      BY <1>2, <2>2, OnlyLatest DEF ConstantsAssumption
    <3>2. latest' = latest
      BY <1>2, <2>2 DEF PortalStep, Accept, Reject, StepDone, StepFails, SwapReturns,
         SwapLost, Reload, ReloadFails, LockVersion, Commit, CommitFails, AuditSuccess,
         AuditRaises, FailRecord, FailLocation, AuditFailure, HandlerRaises, Kill,
         ScriptStep, RemovePrevious, TestActive, BackUpActive, MoveStaged,
         InstallScript, TestMarker, BackUpMarker, CopyMarker, ProtectMarker, CommandFails
    <3>3. HostInv(d) /\ LiveInv(d)
      BY <3>1 DEF TurnInv
    <3>4. HostInv(d)' /\ LiveInv(d)'
      BY <1>2, <2>2, <3>3, HostScript, HostPortal, LiveStep
    <3>5. ASSUME NEW e \in Deployments \ {latest}
          PROVE  pc'[e] = pc[e] /\ at'[e] = at[e]
      BY <1>2, <3>1 DEF TypeOK, PortalStep, Start, Accept, Reject, StepDone, StepFails,
         SwapReturns, SwapLost, Reload, ReloadFails, LockVersion, Commit, CommitFails,
         AuditSuccess, AuditRaises, FailRecord, FailLocation, AuditFailure,
         HandlerRaises, Kill, ScriptStep, RemovePrevious, TestActive, BackUpActive,
         MoveStaged, InstallScript, TestMarker, BackUpMarker, CopyMarker,
         ProtectMarker, CommandFails
    <3> QED
      BY <3>1, <3>2, <3>4, <3>5 DEF TurnInv, HostInv, LiveInv
  <2> QED
    BY <2>1, <2>2
<1> QED
  BY <1>1, <1>2 DEF Next, AttemptStep, Terminating

\* When attempts follow each other, the place of the latest one tells what is in the
\* volumes, and its success what runs and what the location says.
THEOREM TurnInvCorrect ==
    ASSUME ConstantsAssumption
    PROVE  Spec => []TurnInv
<1>1. Init => TurnInv
  BY DEF Init, TurnInv
<1>2. TypeOK /\ AttemptInv /\ TurnInv /\ [Next]_vars => TurnInv'
  BY TurnNext
<1> QED
  BY <1>1, <1>2, TypeCorrect, AttemptInvCorrect, PTL DEF Spec

\* A marker that is copied is that of Asterisk's volume, also where it comes from the
\* staging directory and attempts follow each other.
LEMMA CopiedMarker ==
    ASSUME ConstantsAssumption, TypeOK, TurnInv, setting # "apart" \/ inTurn,
           NEW d \in Deployments, CopyMarker(d)
    PROVE  marker' = active'["asterisk"].top
<1>1. active' = active /\ marker' = MarkerSource(d) /\ MarkerSource(d) # NoDep
  BY DEF CopyMarker
<1>2. CASE setting # "apart"
  BY <1>1, <1>2 DEF MarkerSource
<1>3. CASE setting = "apart" /\ inTurn
  <2>1. d = latest /\ latest # NoDep
    BY <1>3 DEF CopyMarker, TurnInv, TypeOK, ConstantsAssumption
  <2>2. active["asterisk"] = Staged(d)
    BY <1>3, <2>1 DEF TurnInv, HostInv, CopyMarker
  <2>3. MarkerSource(d) = d
    BY <1>1, <1>3 DEF MarkerSource
  <2> QED
    BY <1>1, <2>2, <2>3 DEF Staged
<1> QED
  BY <1>2, <1>3

\* A script that changes the volume goes on to copy the marker, or fails.
LEMMA MarkerScript ==
    ASSUME ConstantsAssumption, TypeOK, TurnInv, MarkerInv, NEW d \in Deployments, ScriptStep(d),
           UNCHANGED <<inTurn, setting>>
    PROVE  MarkerInv'
<1> DEFINE Done == {"off", "mchmod", "ok"}
           Copying == {"mtest", "mbackup", "mcopy"}
<1>1. CASE setting \in {"inPlace", "relative"}
  <2>1. marker = NoDep /\ \A e \in Deployments : at[e] \notin Copying
    BY <1>1 DEF MarkerInv
  <2>2. at'[d] \notin Copying /\ marker' = marker
    BY <1>1, <2>1 DEF ScriptStep, RemovePrevious, TestActive, AfterTest, BackUpActive,
                MoveStaged, InstallScript, MarkerCommands, TestMarker, BackUpMarker,
                CopyMarker, ProtectMarker, CommandFails, TypeOK
  <2>3. \A e \in Deployments : at'[e] \notin Copying
    BY <2>1, <2>2, ScriptOnPortal
  <2> QED
    BY <1>1, <2>1, <2>2, <2>3 DEF MarkerInv
<1>2. CASE setting = "apart" /\ ~inTurn
  BY <1>2 DEF MarkerInv
<1>3. CASE setting = "copied" \/ (setting = "apart" /\ inTurn)
  <2>1. ASSUME at'[d] \notin Done PROVE MarkerInv'
    BY <1>3, <2>1 DEF MarkerInv
  <2>2. CASE CopyMarker(d)
    <3>1. marker' = active'["asterisk"].top
      BY <1>3, <2>2, CopiedMarker
    <3> QED
      BY <1>3, <3>1 DEF MarkerInv
  <2>3. CASE ProtectMarker(d)
    <3>1. \A e \in Deployments : at[e] \notin Done => at'[e] \notin Done
      BY <2>3 DEF ProtectMarker, TypeOK
    <3> QED
      BY <1>3, <2>3, <3>1 DEF ProtectMarker, MarkerInv
  <2>4. CASE ~CopyMarker(d) /\ ~ProtectMarker(d)
    <3>1. at'[d] \notin Done
      BY <1>3, <2>4 DEF ScriptStep, RemovePrevious, TestActive, AfterTest, BackUpActive,
                  MoveStaged, InstallScript, MarkerCommands, TestMarker, BackUpMarker,
                  CommandFails, TypeOK
    <3> QED
      BY <2>1, <3>1
  <2> QED
    BY <2>2, <2>3, <2>4
<1> QED
  BY <1>1, <1>2, <1>3 DEF TypeOK, Settings

\* Every step keeps MarkerInv.
LEMMA MarkerNext ==
    ASSUME ConstantsAssumption, TypeOK, TurnInv, MarkerInv, [Next]_vars
    PROVE  MarkerInv'
<1>1. ASSUME NEW d \in Deployments, ScriptStep(d), UNCHANGED <<inTurn, setting>>
      PROVE  MarkerInv'
  BY <1>1, MarkerScript
<1>2. ASSUME NEW d \in Deployments, PortalStep(d) \/ Kill(d), UNCHANGED <<inTurn, setting>>
      PROVE  MarkerInv'
  <2>1. /\ UNCHANGED <<active, marker>>
        /\ at' = at \/ at' = [at EXCEPT ![d] = "rm"]
    BY <1>2, PortalOnHost
  <2> QED
    BY <1>2, <2>1 DEF MarkerInv, TypeOK
<1>3. CASE UNCHANGED vars
  BY <1>3 DEF MarkerInv, vars
<1> QED
  BY <1>1, <1>2, <1>3 DEF Next, AttemptStep, Terminating

\* The marker names what Asterisk's volume holds, or a script is on its way there, or
\* has failed (_install_active_marker_commands after the swap of the volumes).
THEOREM MarkerInvCorrect ==
    ASSUME ConstantsAssumption
    PROVE  Spec => []MarkerInv
<1>1. Init => MarkerInv
  BY DEF Init, MarkerInv
<1>2. TypeOK /\ TurnInv /\ MarkerInv /\ [Next]_vars => MarkerInv'
  BY MarkerNext
<1> QED
  BY <1>1, <1>2, TypeCorrect, TurnInvCorrect, PTL DEF Spec

\* When no script is under way and none has failed, the marker the agent reads names
\* the configuration that Asterisk would load: however the scripts overlapped if it is
\* kept under /etc/asterisk, and where attempts follow each other wherever it is kept.
THEOREM MarkerTellsAsteriskCorrect ==
    ASSUME ConstantsAssumption
    PROVE  Spec => []MarkerTellsAsterisk
<1>1. TypeOK /\ MarkerInv => MarkerTellsAsterisk
  BY DEF TypeOK, Settings, MarkerInv, MarkerTellsAsterisk, ReportedIsActive, MarkerRead
<1> QED
  BY <1>1, TypeCorrect, MarkerInvCorrect, PTL

\* A success of the last attempt is a success whatever came before it: both volumes,
\* the marker, the loaded configuration, the location and the dashboard name it, for
\* any number of failed, killed and lost attempts before.
THEOREM SuccessIsLiveCorrect ==
    ASSUME ConstantsAssumption
    PROVE  Spec => []SuccessIsLive
<1>1. ASSUME TypeOK, TurnInv, StampInv PROVE SuccessIsLive
  <2> SUFFICES ASSUME inTurn, latest # NoDep, record[latest] = "success"
               PROVE  /\ \A v \in Volumes : active[v] = Staged(latest)
                      /\ setting # "relative" => MarkerRead = latest
                      /\ running = latest
                      /\ location.status = "deployed"
                      /\ location.at = deployedAt[VersionOf[latest]]
                      /\ LatestDeployed = {VersionOf[latest]}
    BY DEF SuccessIsLive
  <2> DEFINE u == VersionOf[latest]
  <2>1. HostInv(latest) /\ LiveInv(latest)
    BY <1>1 DEF TurnInv
  <2>2. /\ at[latest] = "ok" /\ running = latest /\ version[u] # "not_deployed"
        /\ location = [status |-> "deployed", at |-> deployedAt[u]]
    BY <2>1 DEF LiveInv
  <2>3. u \in Versions
    BY <1>1 DEF TypeOK, ConstantsAssumption
  <2>4. location.status = "deployed" /\ location.at = deployedAt[u] /\ deployedAt[u] > 0
    BY <1>1, <2>2, <2>3 DEF StampInv
  <2>5. u \in LatestDeployed
    BY <1>1, <2>2, <2>3, <2>4 DEF LatestDeployed, StampInv
  <2>6. \A w \in LatestDeployed : w = u
    <3> SUFFICES ASSUME NEW w \in Versions, w \in LatestDeployed PROVE w = u
      BY DEF LatestDeployed
    <3>1. deployedAt[u] <= deployedAt[w] /\ deployedAt[w] <= deployedAt[u]
      BY <1>1, <2>2, <2>3, <2>4 DEF LatestDeployed, StampInv
    <3>2. deployedAt[w] \in Nat /\ deployedAt[u] \in Nat
      BY <1>1, <2>3 DEF TypeOK
    <3>3. deployedAt[w] = deployedAt[u] /\ deployedAt[u] # 0
      BY <2>4, <3>1, <3>2
    <3> QED
      BY <1>1, <2>3, <3>3 DEF StampInv
  <2>7. LatestDeployed = {u}
    BY <2>5, <2>6
  <2>8. \A v \in Volumes : active[v] = Staged(latest)
    BY <2>1, <2>2 DEF HostInv
  <2>9. setting # "relative" => MarkerRead = latest
    BY <1>1, <2>1, <2>2, <2>8 DEF HostInv, MarkerRead, Staged, TypeOK, Settings
  <2> QED
    BY <2>2, <2>4, <2>7, <2>8, <2>9
<1> QED
  BY <1>1, TypeCorrect, TurnInvCorrect, StampInvCorrect, PTL

\* The whole inductive invariant of deployments: what an attempt's place tells of its
\* script, its record and its audit, and the order of committed times
\* (deploy_config_version, _mark_deployment_success, the swap script).
THEOREM DeploymentInvCorrect ==
    ASSUME ConstantsAssumption
    PROVE  Spec => []DeploymentInv
<1>1. Spec => []TypeOK /\ []AttemptInv /\ []StampInv /\ []MarkerInv /\ []TurnInv
  BY TypeCorrect, AttemptInvCorrect, StampInvCorrect, MarkerInvCorrect, TurnInvCorrect
<1>2. TypeOK /\ AttemptInv /\ StampInv /\ MarkerInv /\ TurnInv => DeploymentInv
  BY DEF DeploymentInv
<1> QED
  BY <1>1, <1>2, PTL
=============================================================================
