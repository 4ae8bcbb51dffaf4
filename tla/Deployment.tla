----------------------------- MODULE Deployment -----------------------------
(***************************************************************************)
(* Deploying config versions to one location's PBX host                    *)
(* (deploy_config_version): the portal's steps over SSH, the shell script  *)
(* that swaps the Asterisk and TFTP volumes on the host, and the records   *)
(* the portal keeps of it.  Nothing in the code stops two deployments of a *)
(* location from running at once; a portal worker may be killed at any     *)
(* point and an SSH session may be lost, and then a remote script that was *)
(* started runs on.                                                        *)
(*                                                                         *)
(* A directory on the host is named by the deployment it was staged by.    *)
(***************************************************************************)
EXTENDS Naturals

CONSTANTS
    Deployments,    \* attempts, each of one version
    Versions,       \* version numbers of the location
    VersionOf,
    Rollbacks,      \* the attempts made by location_config_export_rollback
    NoDep

ASSUME ConstantsAssumption ==
    /\ VersionOf \in [Deployments -> Versions]
    /\ Versions \subseteq Nat \ {0}
    /\ Rollbacks \subseteq Deployments
    /\ NoDep \notin Deployments

VARIABLES
    pc,         \* where deploy_config_version is
    err,        \* the exception being handled, if any
    record,     \* DeploymentRecord.status
    reload,     \* DeploymentRecord.reload_result
    latest,     \* the first of the records by -started_at
    audit,      \* the deployment's audit outcome
    stamp,      \* deployed_at, as the open transaction has set it
    version,    \* ConfigVersion.deployment_status
    deployedAt, \* ConfigVersion.deployed_at; 0 for null
    location,   \* Location.deployment_status and last_deployed_at
    clock,      \* timezone.now()
    at, vol,    \* where the remote swap script is, and on which volume
    staged,     \* what is left in the deployment's staging directory
    active, previous,   \* the volumes and their .previous directories
    marker,     \* whose active-version marker is installed
    hostScript, \* whose recording-retention script is installed
    running,    \* whose configuration Asterisk has loaded
    inTurn,     \* whether each attempt of this behaviour starts after the last ended
    setting     \* where PBX_ACTIVE_CONFIG_MARKER has the marker

recordVars == <<record, reload, latest, audit>>
dbVars     == <<stamp, version, deployedAt, location, clock>>
hostVars   == <<at, vol, staged, active, previous, marker, hostScript, running>>
vars == <<pc, err, recordVars, dbVars, hostVars, inTurn, setting>>

Volumes   == {"asterisk", "tftp"}
DepOrNone == Deployments \union {NoDep}
Directory == [top : DepOrNone, inner : DepOrNone]
NoDirectory == [top |-> NoDep, inner |-> NoDep]

RemoteSteps == {"prepare", "upload", "verify"}
ScriptSteps == {"rm", "test", "backup", "move", "script", "mtest", "mbackup",
                "mcopy", "mchmod"}
EndedPhases == {"idle", "done"}

\* The marker of every version is at one configured path:
\*   copied    under /etc/asterisk, and the location's Asterisk volume is elsewhere
\*   inPlace   under /etc/asterisk, which is the location's Asterisk volume
\*   apart     an absolute path outside of /etc/asterisk and of the volumes
\*   relative  a relative path, which is not installed (nor is a missing marker)
Settings == {"copied", "inPlace", "apart", "relative"}

TypeOK ==
    /\ pc \in [Deployments -> EndedPhases \union RemoteSteps \union
                 {"checking", "swapping", "reloading", "marking", "committing",
                  "auditing", "failing", "failingLocation", "auditingFailure"}]
    /\ err \in [Deployments -> {"none", "denied", "failure", "reload",
                               "commit"}]
    /\ record \in [Deployments -> {"none", "pending", "success", "failed"}]
    /\ reload \in [Deployments -> {"not_run", "success", "failed"}]
    /\ latest \in DepOrNone
    /\ audit \in [Deployments -> {"none", "success", "failure", "denied"}]
    /\ stamp \in [Deployments -> Nat]
    /\ version \in [Versions -> {"not_deployed", "deployed", "rolled_back"}]
    /\ deployedAt \in [Versions -> Nat]
    /\ location \in [status : {"ready", "deployed", "failed"}, at : Nat]
    /\ clock \in Nat
    /\ at \in [Deployments -> {"off", "ok", "failed"} \union ScriptSteps]
    /\ vol \in [Deployments -> Volumes]
    /\ staged \in [Deployments -> SUBSET {"asterisk", "tftp", "scripts", "active-config"}]
    /\ active \in [Volumes -> Directory]
    /\ previous \in [Volumes -> Directory]
    /\ marker \in DepOrNone
    /\ hostScript \in DepOrNone
    /\ running \in DepOrNone
    /\ inTurn \in BOOLEAN
    /\ setting \in Settings

Init ==
    /\ pc = [d \in Deployments |-> "idle"]
    /\ err = [d \in Deployments |-> "none"]
    /\ record = [d \in Deployments |-> "none"]
    /\ reload = [d \in Deployments |-> "not_run"]
    /\ latest = NoDep
    /\ audit = [d \in Deployments |-> "none"]
    /\ stamp = [d \in Deployments |-> 0]
    /\ version = [v \in Versions |-> "not_deployed"]
    /\ deployedAt = [v \in Versions |-> 0]
    /\ location = [status |-> "ready", at |-> 0]
    /\ clock = 0
    /\ at = [d \in Deployments |-> "off"]
    /\ vol = [d \in Deployments |-> "asterisk"]
    /\ staged = [d \in Deployments |-> {}]
    /\ active = [v \in Volumes |-> NoDirectory]
    /\ previous = [v \in Volumes |-> NoDirectory]
    /\ marker = NoDep /\ hostScript = NoDep /\ running = NoDep
    /\ inTurn \in BOOLEAN
    /\ setting \in Settings

-----------------------------------------------------------------------------
(* The portal: deploy_config_version up to the swap.                       *)

Settled == \A d \in Deployments : pc[d] \in EndedPhases /\ at[d] \notin ScriptSteps

\* Faulty forms of operators below, each what a plausible bug would make of it.
\* The specification uses none of them: they show that the properties notice.
SwapUnawaited(p)   == CASE p = "prepare" -> "upload"
                        [] p = "upload"  -> "verify"
                        [] p = "verify"  -> "reloading"
NeverBackUp(v)     == "move"
StagedMarker(d)    == d
LocationUntouched  == location
VersionRowFree(d)  == \A e \in Deployments : pc[e] = "committing"
                                                => VersionOf[e] # VersionOf[d]
CommitFailureLost(d, e) == /\ pc' = [pc EXCEPT ![d] = IF e = "commit" THEN "auditing"
                                                     ELSE "failing"]
                           /\ err' = [err EXCEPT ![d] = e]

\* upload_bundle packs these of the extracted bundle's directories; the marker is in one
\* of its own unless it belongs under /etc/asterisk (active_config_marker_bundle_path).
BundleRoots == {"asterisk", "tftp"}
               \union IF setting \in {"apart", "relative"} THEN {"active-config"} ELSE {}

AfterStep(p) == CASE p = "prepare" -> "upload"
                  [] p = "upload"  -> "verify"
                  [] p = "verify"  -> "swapping"

\* The script's test for an active volume.
AfterTest(v) == IF active[v].top = NoDep THEN "move" ELSE "backup"

\* _active_marker_source_path: in the active Asterisk volume, or in the staging directory.
MarkerSource(d) == CASE setting # "apart" -> active["asterisk"].top
                     [] setting = "apart" /\ "active-config" \in staged[d] -> d
                     [] OTHER -> NoDep

\* Whose marker is at the configured path, where the agent reads it.
MarkerRead == IF setting = "inPlace" THEN active["asterisk"].top ELSE marker

\* What _swap_volumes_command has the script do about the marker.
MarkerCommands == CASE setting \in {"copied", "apart"} -> "mtest"
                    [] setting = "inPlace" -> "mchmod"
                    [] setting = "relative" -> "ok"

\* No open transaction holds the row of this version or of the location.
RowsFree(d) == \A e \in Deployments : pc[e] # "committing"

\* The failure handler leaves last_deployed_at as it is.
FailedLocation == [location EXCEPT !.status = "failed"]

Goto(d, p) == pc' = [pc EXCEPT ![d] = p]
Raise(d, e) == Goto(d, "failing") /\ err' = [err EXCEPT ![d] = e]
Finish(d)   == Goto(d, "done") /\ err' = [err EXCEPT ![d] = "none"]

Start(d) ==
    /\ pc[d] = "idle"
    /\ inTurn => Settled
    /\ record' = [record EXCEPT ![d] = "pending"]
    /\ latest' = d
    /\ Goto(d, "checking")
    /\ UNCHANGED <<err, reload, audit, dbVars, hostVars>>

\* The confirmation, the target settings and the archive are in order ...
Accept(d) ==
    /\ pc[d] = "checking"
    /\ Goto(d, "prepare")
    /\ UNCHANGED <<err, recordVars, dbVars, hostVars>>

\* ... or one of them is not: DeploymentConfirmationError, or another error.
Reject(d) ==
    /\ pc[d] = "checking"
    /\ \E e \in {"denied", "failure"} : Raise(d, e)
    /\ UNCHANGED <<recordVars, dbVars, hostVars>>

\* What a step leaves in the staging directory (its name is unique: uuid4).
Stage(d) == staged' = IF pc[d] = "upload"
                      THEN [staged EXCEPT ![d] = BundleRoots] ELSE staged

StepDone(d) ==
    /\ pc[d] \in RemoteSteps
    /\ Stage(d)
    /\ Goto(d, AfterStep(pc[d]))
    /\ at' = IF pc[d] = "verify" THEN [at EXCEPT ![d] = "rm"] ELSE at
    /\ UNCHANGED <<err, recordVars, dbVars, vol, active, previous, marker,
                   hostScript, running>>

\* A non-zero exit status, whether or not the command took effect.
StepFails(d) ==
    /\ pc[d] \in RemoteSteps
    /\ Stage(d) \/ UNCHANGED staged
    /\ Raise(d, "failure")
    /\ UNCHANGED <<recordVars, dbVars, at, vol, active, previous, marker,
                   hostScript, running>>

SwapReturns(d) ==
    /\ pc[d] = "swapping"
    /\ \/ at[d] = "ok" /\ Goto(d, "reloading") /\ UNCHANGED err
       \/ at[d] = "failed" /\ Raise(d, "failure")
    /\ UNCHANGED <<recordVars, dbVars, hostVars>>

\* The session is lost: ssh exits with 255 while the script runs on.
SwapLost(d) ==
    /\ pc[d] = "swapping"
    /\ Raise(d, "failure")
    /\ UNCHANGED <<recordVars, dbVars, hostVars>>

\* "asterisk -rx 'core reload'" reads the volume that is active now.
Reload(d) ==
    /\ pc[d] = "reloading"
    /\ running' = active["asterisk"].top
    /\ Goto(d, "marking")
    /\ UNCHANGED <<err, recordVars, dbVars, at, vol, staged, active, previous,
                   marker, hostScript>>

\* The command fails, or the step cannot be written down afterwards.
ReloadFails(d) ==
    /\ pc[d] = "reloading"
    /\ running' \in {running, active["asterisk"].top}
    /\ \E e \in {"reload", "failure"} : Raise(d, e)
    /\ UNCHANGED <<recordVars, dbVars, at, vol, staged, active, previous,
                   marker, hostScript>>

-----------------------------------------------------------------------------
(* The remote script of _swap_volumes_command ("set -eu").                 *)

ScriptGoto(d, s) == at' = [at EXCEPT ![d] = s]

\* mv of one directory onto the name of another: if that exists, it moves
\* into it, which fails when something of the name is there already.
CanMove(from, to) == from.top # NoDep /\ (to.top = NoDep \/ to.inner = NoDep)
Moved(from, to)   == IF to.top = NoDep THEN from
                     ELSE [to EXCEPT !.inner = from.top]

RemovePrevious(d) ==
    /\ at[d] = "rm"
    /\ previous' = [previous EXCEPT ![vol[d]] = NoDirectory]
    /\ ScriptGoto(d, "test")
    /\ UNCHANGED <<pc, err, recordVars, dbVars, vol, staged, active, marker,
                   hostScript, running>>

TestActive(d) ==
    /\ at[d] = "test"
    /\ ScriptGoto(d, AfterTest(vol[d]))
    /\ UNCHANGED <<pc, err, recordVars, dbVars, vol, staged, active, previous,
                   marker, hostScript, running>>

BackUpActive(d) ==
    /\ at[d] = "backup"
    /\ CanMove(active[vol[d]], previous[vol[d]])
    /\ previous' = [previous EXCEPT ![vol[d]] = Moved(active[vol[d]], @)]
    /\ active' = [active EXCEPT ![vol[d]] = NoDirectory]
    /\ ScriptGoto(d, "move")
    /\ UNCHANGED <<pc, err, recordVars, dbVars, vol, staged, marker,
                   hostScript, running>>

Staged(d) == [top |-> d, inner |-> NoDep]

MoveStaged(d) ==
    /\ at[d] = "move"
    /\ vol[d] \in staged[d]
    /\ CanMove(Staged(d), active[vol[d]])
    /\ active' = [active EXCEPT ![vol[d]] = Moved(Staged(d), @)]
    /\ staged' = [staged EXCEPT ![d] = @ \ {vol[d]}]
    /\ vol' = [vol EXCEPT ![d] = IF @ = "asterisk" THEN "tftp" ELSE "asterisk"]
    /\ ScriptGoto(d, IF vol[d] = "asterisk" THEN "rm" ELSE "script")
    /\ UNCHANGED <<pc, err, recordVars, dbVars, previous, marker, hostScript,
                   running>>

\* _install_script_commands: only if the script has been staged.
InstallScript(d) ==
    /\ at[d] = "script"
    /\ hostScript' = IF "scripts" \in staged[d] THEN d ELSE hostScript
    /\ ScriptGoto(d, MarkerCommands)
    /\ UNCHANGED <<pc, err, recordVars, dbVars, vol, staged, active, previous,
                   marker, running>>

\* _install_active_marker_commands; only the last is there if source and target are one.
TestMarker(d) ==
    /\ at[d] = "mtest"
    /\ ScriptGoto(d, IF marker = NoDep THEN "mcopy" ELSE "mbackup")
    /\ UNCHANGED <<pc, err, recordVars, dbVars, vol, staged, active, previous,
                   marker, hostScript, running>>

BackUpMarker(d) ==
    /\ at[d] = "mbackup"
    /\ marker # NoDep
    /\ marker' = NoDep
    /\ ScriptGoto(d, "mcopy")
    /\ UNCHANGED <<pc, err, recordVars, dbVars, vol, staged, active, previous,
                   hostScript, running>>

CopyMarker(d) ==
    /\ at[d] = "mcopy"
    /\ MarkerSource(d) # NoDep
    /\ marker' = MarkerSource(d)
    /\ ScriptGoto(d, "mchmod")
    /\ UNCHANGED <<pc, err, recordVars, dbVars, vol, staged, active, previous,
                   hostScript, running>>

ProtectMarker(d) ==
    /\ at[d] = "mchmod"
    /\ MarkerRead # NoDep
    /\ ScriptGoto(d, "ok")
    /\ UNCHANGED <<pc, err, recordVars, dbVars, vol, staged, active, previous,
                   marker, hostScript, running>>

\* A command fails, for want of what it moves or for any other reason, and
\* the script stops there.  Nothing undoes the commands before it.
CommandFails(d) ==
    /\ at[d] \in ScriptSteps
    /\ ScriptGoto(d, "failed")
    /\ vol' = [vol EXCEPT ![d] = "asterisk"]
    /\ UNCHANGED <<pc, err, recordVars, dbVars, staged, active, previous,
                   marker, hostScript, running>>

-----------------------------------------------------------------------------
(* The portal's records: _mark_deployment_success, _mark_deployment_failed *)
(* and _record_deployment_audit.                                           *)

\* "select_for_update().select_related("location")" locks the rows of the version
\* and of its location until the transaction ends; the version is stamped then.
LockVersion(d) ==
    /\ pc[d] = "marking"
    /\ RowsFree(d)
    /\ clock' = clock + 1
    /\ stamp' = [stamp EXCEPT ![d] = clock + 1]
    /\ Goto(d, "committing")
    /\ UNCHANGED <<err, recordVars, version, deployedAt, location, hostVars>>

Commit(d) ==
    /\ pc[d] = "committing"
    /\ version' = [version EXCEPT ![VersionOf[d]] =
                       IF d \in Rollbacks THEN "rolled_back" ELSE "deployed"]
    /\ deployedAt' = [deployedAt EXCEPT ![VersionOf[d]] = stamp[d]]
    /\ location' = [status |-> "deployed", at |-> stamp[d]]
    /\ record' = [record EXCEPT ![d] = "success"]
    /\ reload' = [reload EXCEPT ![d] = "success"]
    /\ stamp' = [stamp EXCEPT ![d] = 0]
    /\ Goto(d, "auditing")
    /\ UNCHANGED <<err, latest, audit, clock, hostVars>>

\* The transaction is rolled back; the record in memory may be filled in.
CommitFails(d) ==
    /\ pc[d] \in {"marking", "committing"}
    /\ Raise(d, "commit")
    /\ stamp' = [stamp EXCEPT ![d] = 0]
    /\ UNCHANGED <<recordVars, version, deployedAt, location, clock, hostVars>>

AuditSuccess(d) ==
    /\ pc[d] = "auditing"
    /\ audit' = [audit EXCEPT ![d] = "success"]
    /\ Goto(d, "done")
    /\ UNCHANGED <<err, record, reload, latest, dbVars, hostVars>>

\* This is still inside the try: the successful record is marked failed next.
AuditRaises(d) ==
    /\ pc[d] = "auditing"
    /\ Raise(d, "failure")
    /\ UNCHANGED <<recordVars, dbVars, hostVars>>

\* A faulty form of the next: the failure is not saved.
FailureUnsaved(d) ==
    /\ pc[d] = "failing"
    /\ Goto(d, "failingLocation")
    /\ UNCHANGED <<err, recordVars, dbVars, hostVars>>

FailRecord(d) ==
    /\ pc[d] = "failing"
    /\ record' = [record EXCEPT ![d] = "failed"]
    /\ \E res \in CASE err[d] = "reload" -> {"failed"}
                    [] err[d] = "commit" -> {reload[d], "success"}
                    [] OTHER             -> {reload[d]} :
          reload' = [reload EXCEPT ![d] = res]
    /\ Goto(d, "failingLocation")
    /\ UNCHANGED <<err, latest, audit, dbVars, hostVars>>

FailLocation(d) ==
    /\ pc[d] = "failingLocation"
    /\ RowsFree(d)     \* the update waits for the location's row
    /\ location' = FailedLocation
    /\ Goto(d, "auditingFailure")
    /\ UNCHANGED <<err, recordVars, stamp, version, deployedAt, clock, hostVars>>

AuditFailure(d) ==
    /\ pc[d] = "auditingFailure"
    /\ audit' = [audit EXCEPT ![d] = IF err[d] = "denied" THEN "denied"
                                     ELSE "failure"]
    /\ Finish(d)
    /\ UNCHANGED <<record, reload, latest, dbVars, hostVars>>

\* The handler itself cannot reach the database: the exception goes up.
HandlerRaises(d) ==
    /\ pc[d] \in {"failing", "failingLocation", "auditingFailure"}
    /\ Finish(d)
    /\ UNCHANGED <<recordVars, dbVars, hostVars>>

\* The worker process is killed (gunicorn's timeout): an open transaction is
\* rolled back, a script on the host runs on.
Kill(d) ==
    /\ pc[d] \notin EndedPhases
    /\ Finish(d)
    /\ stamp' = [stamp EXCEPT ![d] = 0]
    /\ UNCHANGED <<recordVars, version, deployedAt, location, clock, hostVars>>

-----------------------------------------------------------------------------
PortalStep(d) ==
    \/ Start(d) \/ Accept(d) \/ Reject(d) \/ StepDone(d) \/ StepFails(d)
    \/ SwapReturns(d) \/ SwapLost(d) \/ Reload(d) \/ ReloadFails(d)
    \/ LockVersion(d) \/ Commit(d) \/ CommitFails(d)
    \/ AuditSuccess(d) \/ AuditRaises(d)
    \/ FailRecord(d) \/ FailLocation(d) \/ AuditFailure(d) \/ HandlerRaises(d)

ScriptStep(d) ==
    \/ RemovePrevious(d) \/ TestActive(d) \/ BackUpActive(d) \/ MoveStaged(d)
    \/ InstallScript(d) \/ TestMarker(d) \/ BackUpMarker(d) \/ CopyMarker(d)
    \/ ProtectMarker(d) \/ CommandFails(d)

\* Every attempt has been made and has ended.
Terminating == /\ Settled
               /\ \A d \in Deployments : pc[d] # "idle"
               /\ UNCHANGED vars

AttemptStep(d) == /\ PortalStep(d) \/ ScriptStep(d) \/ Kill(d)
                  /\ UNCHANGED <<inTurn, setting>>

Next == (\E d \in Deployments : AttemptStep(d)) \/ Terminating

Spec == Init /\ [][Next]_vars

-----------------------------------------------------------------------------
(* Safety.                                                                 *)

\* What the dashboard calls the latest deployed version (_dashboard_location).
LatestDeployed ==
    {v \in Versions :
        /\ version[v] # "not_deployed"
        /\ \A w \in Versions : version[w] # "not_deployed"
                                    => deployedAt[w] <= deployedAt[v]}

\* When attempts follow each other, a success is a success whatever came before
\* it: both volumes, the marker (wherever it is), the running configuration, the location
\* and the dashboard all name its version.  Half-done swaps, killed workers and
\* lost sessions of earlier attempts leave nothing behind that spoils it.
SuccessIsLive ==
    (inTurn /\ Settled /\ latest # NoDep /\ record[latest] = "success") =>
        /\ \A v \in Volumes : active[v] = Staged(latest)
        /\ setting # "relative" => MarkerRead = latest
        /\ running = latest
        /\ location.status = "deployed"
        /\ location.at = deployedAt[VersionOf[latest]]
        /\ LatestDeployed = {VersionOf[latest]}

\* A failure that reached the audit log also shows on the record and, when
\* attempts follow each other, on the location until the next success.
FailureIsShown ==
    \A d \in Deployments : audit[d] \in {"failure", "denied"} =>
        /\ record[d] = "failed"
        /\ inTurn /\ d = latest => location.status = "failed"

\* A version counts as deployed only if some attempt of it swapped both volumes
\* and Asterisk confirmed the reload, also when attempts overlap.
DeployedWasReloaded ==
    \A v \in Versions : version[v] # "not_deployed" =>
        \E d \in Deployments :
            /\ VersionOf[d] = v
            /\ reload[d] = "success"
            /\ at[d] = "ok"
            /\ staged[d] \intersect Volumes = {}

\* Once every script that was started has run to its end, the marker the agent reads
\* names the configuration in the Asterisk volume.  Not true of a marker that is apart
\* (_active_marker_source_path), see below.
ReportedIsActive ==
    (\A d \in Deployments : at[d] \in {"off", "ok"}) /\ MarkerRead # NoDep
        => MarkerRead = active["asterisk"].top

\* That holds of a marker under /etc/asterisk however the scripts overlapped: each moves
\* the volume first and copies the marker out of it.  Of one that is apart it holds where
\* attempts follow each other.
MarkerTellsAsterisk == setting # "apart" \/ inTurn => ReportedIsActive

\* The dashboard's latest deployed version is one version, and the location's
\* last_deployed_at is the time of that version, also when attempts overlap: times
\* are taken under the lock, in the order in which they are committed.
DashboardAgrees ==
    (\E v \in Versions : version[v] # "not_deployed") =>
        \E v \in Versions : LatestDeployed = {v} /\ deployedAt[v] = location.at

\* The audit log calls a deployment a success only if its record and its
\* version agree, also after every later attempt: the audit comes after the
\* commit and nothing that follows it can still fail the record.
AuditAgrees ==
    \A d \in Deployments : audit[d] = "success" =>
        /\ record[d] = "success"
        /\ reload[d] = "success"
        /\ version[VersionOf[d]] # "not_deployed"

-----------------------------------------------------------------------------
(* The inductive invariants behind the properties above.                   *)

\* Where the script of attempt d is, and what it has left in the staging directory.
ScriptInv(d) ==
    /\ pc[d] \in {"idle", "checking"} \union RemoteSteps => at[d] = "off"
    /\ pc[d] \in {"reloading", "marking", "committing", "auditing"} => at[d] = "ok"
    /\ at[d] = "off" => vol[d] = "asterisk"
    /\ at[d] \in {"rm", "test", "backup", "move"} /\ vol[d] = "tftp"
          => "asterisk" \notin staged[d]
    /\ at[d] \in {"script", "mtest", "mbackup", "mcopy", "mchmod", "ok"}
          => staged[d] \intersect Volumes = {}

\* What the record says while the attempt goes on, and after its audit.
RecordInv(d) ==
    /\ pc[d] \in {"idle", "checking", "swapping", "reloading", "marking",
                  "committing"} \union RemoteSteps => reload[d] = "not_run"
    /\ pc[d] \notin {"failing", "failingLocation", "auditingFailure"} => err[d] = "none"
    /\ err[d] = "reload" => reload[d] # "success"
    /\ pc[d] = "auditing" \/ audit[d] = "success" =>
          /\ record[d] = "success"
          /\ reload[d] = "success"
          /\ version[VersionOf[d]] # "not_deployed"
    /\ pc[d] \in {"failingLocation", "auditingFailure"}
              \/ audit[d] \in {"failure", "denied"} => record[d] = "failed"
    /\ audit[d] # "none" => pc[d] = "done"

\* Attempts that follow each other: only the latest is under way, and what its
\* failure has written to the location stays until the next.
SerialInv(d) ==
    inTurn =>
        /\ pc[d] \notin EndedPhases => latest = d
        /\ pc[d] = "auditingFailure"
              \/ (latest = d /\ audit[d] \in {"failure", "denied"})
           => location.status = "failed"

AttemptInv == \A d \in Deployments : ScriptInv(d) /\ RecordInv(d) /\ SerialInv(d)

\* The times behind DashboardAgrees: every committed time is another one, the
\* location's is the last, and the open transaction's is later still.
StampInv ==
    /\ location.at <= clock
    /\ \A v \in Versions : version[v] # "not_deployed" => deployedAt[v] > 0
    /\ \A v \in Versions : deployedAt[v] <= location.at
    /\ \A v, w \in Versions : v # w /\ deployedAt[v] = deployedAt[w]
                               => deployedAt[v] = 0
    /\ location.at > 0 => \E v \in Versions : version[v] # "not_deployed"
                                             /\ deployedAt[v] = location.at
    /\ \A d, e \in Deployments : pc[d] = "committing" /\ pc[e] = "committing" => d = e
    /\ \A d \in Deployments : pc[d] = "committing"
                                 => location.at < stamp[d] /\ stamp[d] <= clock

\* A marker that names another configuration than Asterisk's volume holds is one that
\* a script has still to replace, or would have replaced had it not failed; where no
\* script copies it, there is none.
MarkerInv ==
    /\ setting \in {"inPlace", "relative"} =>
          marker = NoDep /\ \A d \in Deployments : at[d] \notin {"mtest", "mbackup", "mcopy"}
    /\ setting = "copied" \/ (setting = "apart" /\ inTurn) =>
          \/ marker \in {NoDep, active["asterisk"].top}
          \/ \E d \in Deployments : at[d] \notin {"off", "mchmod", "ok"}

\* Attempts that follow each other: what the latest has done to the host by the place
\* it is at, and what a success of it is worth from its commit on.
HostInv(d) ==
    /\ at[d] = "move" => active[vol[d]].top = NoDep
    /\ at[d] \in ScriptSteps /\ vol[d] = "tftp" => active["asterisk"] = Staged(d)
    /\ at[d] \in {"script", "mtest", "mbackup", "mcopy", "mchmod", "ok"}
          => \A v \in Volumes : active[v] = Staged(d)
    /\ at[d] \in {"mchmod", "ok"} /\ setting \in {"copied", "apart"} => marker = d
    /\ pc[d] \in {"marking", "committing", "auditing"} => running = d

LiveInv(d) ==
    record[d] = "success" =>
        /\ pc[d] \in {"auditing", "failing", "done"}
        /\ at[d] = "ok"
        /\ running = d
        /\ version[VersionOf[d]] # "not_deployed"
        /\ location = [status |-> "deployed", at |-> deployedAt[VersionOf[d]]]

TurnInv ==
    inTurn =>
        /\ \A d \in Deployments \ {latest} : /\ pc[d] \in EndedPhases
                                            /\ at[d] \notin ScriptSteps
        /\ latest # NoDep => HostInv(latest) /\ LiveInv(latest)

\* All of them, and the types: each script has left what its place tells, each record
\* says what its attempt has reached, committed times are in order, the marker is on
\* its way, and in turn the host is what the latest attempt has made of it.
DeploymentInv == TypeOK /\ AttemptInv /\ StampInv /\ MarkerInv /\ TurnInv

-----------------------------------------------------------------------------
(* What the tests and the specification say, and the code does not do.     *)

\* ReportedIsActive above is what the specification says of the marker, of every setting:
\* "Report current active config version from the deployed PBX config/version marker."

\* core/tests.py:4011 expects the bundle's recording-retention script to be
\* uploaded with a deployment, so that the swap can install it.
SuccessInstallsScript ==
    \A d \in Deployments : record[d] = "success" => hostScript # NoDep

\* "Portal deploys that previous version to the remote PBX host over SSH": a
\* rollback that succeeded is not buried inside another attempt's volume.
RollbackIsDeployed ==
    \A d \in Rollbacks : record[d] = "success" =>
        \A v \in Volumes : active[v].inner # d
=============================================================================
