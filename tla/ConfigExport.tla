---------------------------- MODULE ConfigExport ----------------------------
(***************************************************************************)
(* Exporting a location's configuration as a numbered, immutable config    *)
(* version (create_config_version), while operators edit its rows.  The    *)
(* database is PostgreSQL in its default isolation: every query reads what *)
(* is committed at that moment.  An export validates first and only then   *)
(* locks the location's row, numbers the version and builds the archive.   *)
(*                                                                         *)
(* Of the configuration the model keeps what the hard export block is      *)
(* about: an extension that may dial emergency routes needs an active      *)
(* emergency route and the location's emergency caller ID.                 *)
(***************************************************************************)
EXTENDS Naturals, Sequences

CONSTANTS
    Exports,    \* requests to export the location
    MaxEdits    \* bound on the edits of the rows

ASSUME ConstantsAssumption == MaxEdits \in Nat

VARIABLES
    config,     \* the committed rows
    edits,      \* how many edits have been committed
    pc,         \* where location_config_export is
    loaded,     \* the emergency caller ID of the location the view loaded
    checked,    \* what the validation has read of the extensions
    number,     \* version_number
    draft,      \* what has been read for the archive
    since,      \* the number of edits when the export began
    versions,   \* the location's ConfigVersion rows in the order of their commits
    audit       \* the outcome in the audit log

rowVars    == <<config, edits>>
exportVars == <<pc, loaded, checked, number, draft, since>>
vars == <<rowVars, exportVars, versions, audit>>

\* extension: some active extension may dial emergency routes;
\* route: there is an active emergency route; callerId: the location has one.
Config == [extension : BOOLEAN, route : BOOLEAN, callerId : BOOLEAN]
Nothing == [extension |-> FALSE, route |-> FALSE, callerId |-> FALSE]

Version == [by : Exports, number : Nat \ {0}, content : Config, unedited : BOOLEAN]

\* Where the export holds the location's row (select_for_update).
LockPhases == {"locked", "building", "built"}

TypeOK ==
    /\ config \in Config
    /\ edits \in 0..MaxEdits
    /\ pc \in [Exports -> {"idle", "loaded", "validating", "validated", "refused",
                           "auditing", "collided", "done"} \union LockPhases]
    /\ loaded \in [Exports -> BOOLEAN]
    /\ checked \in [Exports -> BOOLEAN]
    /\ number \in [Exports -> Nat]
    /\ draft \in [Exports -> Config]
    /\ since \in [Exports -> 0..MaxEdits]
    /\ versions \in Seq(Version)
    /\ audit \in [Exports -> {"none", "success", "failure"}]

Init ==
    /\ config \in Config
    /\ edits = 0
    /\ pc = [e \in Exports |-> "idle"]
    /\ loaded = [e \in Exports |-> FALSE]
    /\ checked = [e \in Exports |-> FALSE]
    /\ number = [e \in Exports |-> 0]
    /\ draft = [e \in Exports |-> Nothing]
    /\ since = [e \in Exports |-> 0]
    /\ versions = <<>>
    /\ audit = [e \in Exports |-> "none"]

-----------------------------------------------------------------------------
\* Faulty forms of operators below, each what a plausible bug would make of it.
\* The specification uses none of them: they show that the properties notice.
RowIgnored(e)                 == TRUE
CallerIdOfView(e)             == loaded[e]
CallerIdOnly(ext, route, cid) == ext /\ ~cid
AuditAnyway                   == "auditing"

RowFree(e) == \A f \in Exports \ {e} : pc[f] \notin LockPhases

\* Max("version_number"), or 0.
Numbers    == {0} \union {versions[i].number : i \in DOMAIN versions}
LastNumber == CHOOSE n \in Numbers : \A m \in Numbers : m <= n

\* The archive is built from the row as it was read under the lock.
CallerIdOfArchive(e) == config.callerId

\* missing_emergency_caller_id and missing_emergency_route.
Blocked(ext, route, cid) == ext /\ (~cid \/ ~route)

\* Where an exception that is not a validation error leads: out of the view.
AfterException == "done"

Goto(e, p) == pc' = [pc EXCEPT ![e] = p]

-----------------------------------------------------------------------------
(* location_config_export.                                                 *)

Load(e) ==
    /\ pc[e] = "idle"
    /\ loaded' = [loaded EXCEPT ![e] = config.callerId]
    /\ since' = [since EXCEPT ![e] = edits]
    /\ Goto(e, "loaded")
    /\ UNCHANGED <<rowVars, checked, number, draft, versions, audit>>

\* validate_location_routing queries the extensions first, then the routes.
CheckExtensions(e) ==
    /\ pc[e] = "loaded"
    /\ checked' = [checked EXCEPT ![e] = config.extension]
    /\ Goto(e, "validating")
    /\ UNCHANGED <<rowVars, loaded, number, draft, since, versions, audit>>

CheckRoutes(e) ==
    /\ pc[e] = "validating"
    /\ Goto(e, IF Blocked(checked[e], config.route, loaded[e]) THEN "refused"
               ELSE "validated")
    /\ UNCHANGED <<rowVars, loaded, checked, number, draft, since, versions, audit>>

\* The transaction begins: the location's row is locked and read again, and the
\* number is one more than the largest.
Lock(e) ==
    /\ pc[e] = "validated"
    /\ RowFree(e)
    /\ draft' = [draft EXCEPT ![e].callerId = CallerIdOfArchive(e)]
    /\ number' = [number EXCEPT ![e] = LastNumber + 1]
    /\ Goto(e, "locked")
    /\ UNCHANGED <<rowVars, loaded, checked, since, versions, audit>>

\* build_config_export_archive does not validate again; each file it renders
\* queries the tables anew.
BuildExtensions(e) ==
    /\ pc[e] = "locked"
    /\ draft' = [draft EXCEPT ![e].extension = config.extension]
    /\ Goto(e, "building")
    /\ UNCHANGED <<rowVars, loaded, checked, number, since, versions, audit>>

BuildRoutes(e) ==
    /\ pc[e] = "building"
    /\ draft' = [draft EXCEPT ![e].route = config.route]
    /\ Goto(e, "built")
    /\ UNCHANGED <<rowVars, loaded, checked, number, since, versions, audit>>

\* The row is inserted and the transaction commits, unless the number is taken
\* (unique_config_version_per_location).
Insert(e) ==
    LET taken == \E i \in DOMAIN versions : versions[i].number = number[e]
    IN  /\ pc[e] = "built"
        /\ versions' = IF taken THEN versions
                       ELSE Append(versions, [by |-> e, number |-> number[e],
                                              content |-> draft[e],
                                              unedited |-> since[e] = edits])
        /\ Goto(e, IF taken THEN "collided" ELSE "auditing")
        /\ UNCHANGED <<rowVars, loaded, checked, number, draft, since, audit>>

\* Any other exception, or the end of the worker process: the transaction is
\* rolled back and no audit entry is written.
Abort(e) ==
    /\ pc[e] \notin {"idle", "auditing", "refused", "collided", "done"}
    /\ Goto(e, AfterException)
    /\ UNCHANGED <<rowVars, loaded, checked, number, draft, since, versions, audit>>

Audit(e) ==
    /\ \/ pc[e] = "auditing" /\ audit' = [audit EXCEPT ![e] = "success"]
       \/ pc[e] = "refused" /\ audit' = [audit EXCEPT ![e] = "failure"]
    /\ Goto(e, "done")
    /\ UNCHANGED <<rowVars, loaded, checked, number, draft, since, versions>>

\* The process ends before the audit entry is written.
AuditLost(e) ==
    /\ pc[e] \in {"auditing", "refused"}
    /\ Goto(e, "done")
    /\ UNCHANGED <<rowVars, loaded, checked, number, draft, since, versions, audit>>

-----------------------------------------------------------------------------
(* Edits of the rows by other requests.                                    *)

\* Existing extensions and routes are updated or deleted without the
\* location's row.
Edit(column) ==
    /\ edits < MaxEdits
    /\ config' = [config EXCEPT ![column] = ~@]
    /\ edits' = edits + 1
    /\ UNCHANGED <<exportVars, versions, audit>>

\* An update of the location waits for an export that holds its row.
EditLocation == (\A e \in Exports : pc[e] \notin LockPhases) /\ Edit("callerId")

ExportStep(e) ==
    \/ Load(e) \/ CheckExtensions(e) \/ CheckRoutes(e) \/ Lock(e)
    \/ BuildExtensions(e) \/ BuildRoutes(e) \/ Insert(e)
    \/ Abort(e) \/ Audit(e) \/ AuditLost(e)

\* Every export has been answered.
Terminating == (\A e \in Exports : pc[e] \in {"done", "collided"}) /\ UNCHANGED vars

Next == \/ \E e \in Exports : ExportStep(e)
        \/ \E column \in {"extension", "route"} : Edit(column)
        \/ EditLocation
        \/ Terminating

Spec == Init /\ [][Next]_vars

-----------------------------------------------------------------------------
(* Safety.                                                                 *)

\* Versions are numbered 1, 2, 3, ... in the order in which they appear, and no
\* export fails because another has taken its number, although the number is
\* computed long before the row is inserted.
NumbersInOrder ==
    /\ \A i \in DOMAIN versions : versions[i].number = i
    /\ \A e \in Exports : pc[e] # "collided"

\* A version that appears carries the emergency caller ID in force at that
\* moment, not the one the view had loaded (locked_location).
CallerIdInForce ==
    [][\A i \in DOMAIN versions' \ DOMAIN versions :
          versions'[i].content.callerId = config.callerId]_versions

\* Only an edit during the export lets an archive through that the hard
\* export block would have refused.
UneditedIsValid ==
    \A i \in DOMAIN versions : versions[i].unedited =>
        LET c == versions[i].content
        IN  ~(c.extension /\ ~(c.route /\ c.callerId))

\* A success in the audit log is about exactly one version, a failure about none.
AuditMatchesVersions ==
    \A e \in Exports :
        LET own == {i \in DOMAIN versions : versions[i].by = e} IN
        /\ audit[e] = "success" => \E i \in own : own = {i}
        /\ audit[e] = "failure" => own = {}

\* "Hard export block: Missing emergency route or emergency caller ID for the
\* location when any extension is allowed to dial emergency routes"
\* (pbx-config-portal-tech-spec.md:390): no archive is an exception.
ArchivedIsValid ==
    \A i \in DOMAIN versions :
        LET c == versions[i].content
        IN  ~(c.extension /\ ~(c.route /\ c.callerId))

-----------------------------------------------------------------------------
(* The inductive invariant behind NumbersInOrder and AuditMatchesVersions. *)

\* One export at a time holds the row; its number is the next one.
HolderInv ==
    /\ \A e, f \in Exports : pc[e] \in LockPhases /\ pc[f] \in LockPhases => e = f
    /\ \A e \in Exports : pc[e] \in LockPhases => number[e] = Len(versions) + 1

\* An export has its version from the commit on, and has it once.
OwnVersionInv ==
    /\ \A i, j \in DOMAIN versions : versions[i].by = versions[j].by => i = j
    /\ \A i \in DOMAIN versions : pc[versions[i].by] \in {"auditing", "done"}
    /\ \A e \in Exports :
          /\ pc[e] = "auditing" \/ audit[e] = "success"
                => \E i \in DOMAIN versions : versions[i].by = e
          /\ audit[e] = "failure" => \A i \in DOMAIN versions : versions[i].by # e
          /\ audit[e] # "none" => pc[e] = "done"

NumberingInv == HolderInv /\ OwnVersionInv /\ NumbersInOrder

-----------------------------------------------------------------------------
(* The inductive invariant behind UneditedIsValid and CallerIdInForce.     *)

\* What an export has read is what is committed, as long as nothing was edited
\* since it began: then it archives what it has validated.
ReadInv ==
    \A e \in Exports : since[e] <= edits /\ (since[e] = edits =>
        /\ pc[e] # "idle" => loaded[e] = config.callerId
        /\ pc[e] \in {"validating", "validated"} \union LockPhases
               => checked[e] = config.extension
        /\ pc[e] \in {"validated"} \union LockPhases
               => ~(config.extension /\ ~(config.route /\ config.callerId))
        /\ pc[e] \in {"building", "built"} => draft[e].extension = config.extension
        /\ pc[e] = "built" => draft[e].route = config.route)

\* The caller ID read under the lock is the one in force until the row is released.
CallerIdInv ==
    \A e \in Exports : pc[e] \in LockPhases => draft[e].callerId = config.callerId

ContentInv == ReadInv /\ CallerIdInv /\ UneditedIsValid

-----------------------------------------------------------------------------
\* The invariants of the proofs together: types, numbers and contents of versions.
ExportInv == TypeOK /\ NumberingInv /\ ContentInv
=============================================================================
