---------------------------- MODULE AdminBackup -----------------------------
(***************************************************************************)
(* Generating an admin backup (create_admin_backup) of a portal that is in *)
(* use.  A backup is put together part by part, each part from queries of  *)
(* its own and without a transaction around them, while operators upload   *)
(* IVR prompts, delete IVRs or the location, and export versions.          *)
(*                                                                         *)
(* An upload stands for one submitted IVR form with an audio file: its     *)
(* AudioPrompt row, the two files of that row, and the IVR it is for.      *)
(***************************************************************************)
EXTENDS BackupState

\* An entry names the kind of object it is about.
ConstantsAssumption == NoRow \notin Uploads /\ Ivrs \intersect {"create", "delete"} = {}

uploadVars == <<files, step, target>>
backupVars == <<reading, archive>>
vars == <<rows, log, uploadVars, backupVars>>

Init ==
    /\ rows = NoRows
    /\ log = {}
    /\ files = [u \in Uploads |-> "absent"]
    /\ step = [u \in Uploads |-> "idle"]
    /\ target \in [Uploads -> Ivrs]
    /\ reading = [b \in Backups |-> "idle"]
    /\ archive = [b \in Backups |-> EmptyArchive]

-----------------------------------------------------------------------------
\* The row is saved after both files.
RowDue(u) == step[u] = "saved"

-----------------------------------------------------------------------------
(* ivr_create and ivr_update with an uploaded prompt.                      *)

At(u, from, to) == step[u] = from /\ step' = [step EXCEPT ![u] = to]

\* The file has been converted; it is saved chunk by chunk under a fresh name.
SaveFiles(u) ==
    /\ \/ At(u, "idle", "saving") /\ files' = [files EXCEPT ![u] = "partial"]
       \/ At(u, "saving", "saved") /\ files' = [files EXCEPT ![u] = "whole"]
    /\ UNCHANGED <<rows, log, target, backupVars>>

\* The prompt, the IVR and the audit entry become visible together.
CommitIvr(u) ==
    /\ RowDue(u)
    /\ rows.location
    /\ step' = [step EXCEPT ![u] = "done"]
    /\ rows' = [rows EXCEPT !.prompts = @ \union {u}, !.ivrs[target[u]] = u]
    /\ log' = log \union {<<target[u], u>>}
    /\ UNCHANGED <<files, target, backupVars>>

\* ffmpeg fails, the name has been taken, the location is gone, ...: the
\* transaction is rolled back, the files stay.
UploadFails(u) ==
    /\ step[u] \in {"idle", "saving", "saved"}
    /\ step' = [step EXCEPT ![u] = "failed"]
    /\ UNCHANGED <<rows, log, files, target, backupVars>>

-----------------------------------------------------------------------------
(* Other requests that change what is backed up.                           *)

\* A deleted IVR leaves its prompt and the files.
DeleteIvr(i) ==
    /\ rows.ivrs[i] # NoRow
    /\ rows' = [rows EXCEPT !.ivrs[i] = NoRow]
    /\ log' = log \union {<<i, NoRow>>}
    /\ UNCHANGED <<uploadVars, backupVars>>

\* Every row of the location goes with it; the files stay.
DeleteLocation ==
    /\ rows.location
    /\ rows' = [NoRows EXCEPT !.location = FALSE]
    /\ log' = log \union {LocationGone}
    /\ UNCHANGED <<uploadVars, backupVars>>

ExportVersion(v) ==
    /\ rows.location
    /\ v \notin rows.versions
    /\ rows' = [rows EXCEPT !.versions = @ \union {v}]
    /\ UNCHANGED <<log, uploadVars, backupVars>>

-----------------------------------------------------------------------------
(* create_admin_backup.                                                    *)

After(part) == Order[1 + CHOOSE k \in DOMAIN Order : Order[k] = part]

Begin(b) ==
    /\ reading[b] = "idle"
    /\ reading' = [reading EXCEPT ![b] = Order[1]]
    /\ UNCHANGED <<rows, log, uploadVars, archive>>

\* pg_dump reads one snapshot.
PostgresDump(b) ==
    /\ reading[b] = "database"
    /\ archive[b].method = "none"
    /\ archive' = [archive EXCEPT ![b].method = "pg_dump", ![b].dump = rows,
                                  ![b].dumpLog = log]
    /\ reading' = [reading EXCEPT ![b] = After(@)]
    /\ UNCHANGED <<rows, log, uploadVars>>

\* A fixture that has one more table.
DumpWith(dump, table) ==
    [dump EXCEPT !.prompts = IF table = "prompts" THEN rows.prompts ELSE dump.prompts,
                 !.ivrs = IF table = "ivrs" THEN rows.ivrs ELSE dump.ivrs,
                 !.versions = IF table = "versions" THEN rows.versions ELSE dump.versions]
WithTable(a, table) ==
    [a EXCEPT !.method = "django_dumpdata", !.tables = a.tables + 1,
              !.dumpLog = IF table = "log" THEN log ELSE a.dumpLog,
              !.dump = DumpWith(a.dump, table)]

\* No pg_dump, or it fails or times out: a fixture, read table by table.
FixtureDump(b) ==
    /\ reading[b] = "database"
    /\ archive[b].method # "pg_dump"
    /\ LET read == archive[b].tables + 1
       IN  /\ archive' = [archive EXCEPT ![b] = WithTable(archive[b], Tables[read])]
           /\ reading' = [reading EXCEPT ![b] = IF read = Len(Tables) THEN After(@) ELSE @]
    /\ UNCHANGED <<rows, log, uploadVars>>

\* _media_archive_files, _export_metadata, _config_archive_files, _audit_logs.
ReadPart(b) ==
    /\ \/ reading[b] = "media" /\ archive' = [archive EXCEPT ![b].media = files]
       \/ reading[b] = "exports" /\ archive' = [archive EXCEPT ![b].exports = rows.versions]
       \/ reading[b] = "config" /\ archive' = [archive EXCEPT ![b].config = rows.ivrs]
       \/ reading[b] = "audit" /\ archive' = [archive EXCEPT ![b].audit = log]
    /\ reading' = [reading EXCEPT ![b] = After(@)]
    /\ UNCHANGED <<rows, log, uploadVars>>

\* The archive is packed and its row committed.
Store(b) ==
    /\ reading[b] = "packed"
    /\ reading' = [reading EXCEPT ![b] = "stored"]
    /\ UNCHANGED <<rows, log, uploadVars, archive>>

RecordBackup(b) ==
    /\ reading[b] = "stored"
    /\ log' = log \union {<<"create", b>>}
    /\ reading' = [reading EXCEPT ![b] = "done"]
    /\ UNCHANGED <<rows, uploadVars, archive>>

\* An exception or the end of the process: of what is not stored nothing is
\* left, what is stored may stay without its entry.
BackupFails(b) ==
    /\ reading[b] \notin {"idle", "done", "failed"}
    /\ reading' = [reading EXCEPT ![b] = IF reading[b] = "stored" THEN "done" ELSE "failed"]
    /\ UNCHANGED <<rows, log, uploadVars, archive>>

UploadStep(u) == SaveFiles(u) \/ CommitIvr(u) \/ UploadFails(u)
BackupStep(b) ==
    \/ Begin(b) \/ PostgresDump(b) \/ FixtureDump(b) \/ ReadPart(b)
    \/ Store(b) \/ RecordBackup(b) \/ BackupFails(b)

Next ==
    \/ \E u \in Uploads : UploadStep(u)
    \/ \E i \in Ivrs : DeleteIvr(i)
    \/ DeleteLocation
    \/ \E v \in Versions : ExportVersion(v)
    \/ \E b \in Backups : BackupStep(b)

Spec == Init /\ [][Next]_vars
=============================================================================
