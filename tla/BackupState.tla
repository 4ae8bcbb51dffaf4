---------------------------- MODULE BackupState -----------------------------
(***************************************************************************)
(* The state of AdminBackup: the rows and files of a portal, the archives  *)
(* that are made of them, and what is to hold of an archive.               *)
(***************************************************************************)
EXTENDS Naturals, Sequences, FiniteSets, Functions

CONSTANTS
    Ivrs,       \* the IVRs of the location
    Uploads,    \* IVR forms submitted with an audio file
    Versions,   \* the config versions that are exported meanwhile
    Backups,    \* requests to generate a backup
    NoRow       \* the value of an IVR that has no row

VARIABLES
    rows,       \* the committed rows of the portal
    log,        \* the committed audit entries
    files,      \* what the media directory has of each upload's files
    step,       \* where each upload's request is
    target,     \* the IVR each upload is for
    reading,    \* the part each backup reads next, or its end
    archive     \* the parts each backup has read

Rows == [location : BOOLEAN, prompts : SUBSET Uploads,
         ivrs : [Ivrs -> Uploads \union {NoRow}], versions : SUBSET Versions]

\* An entry about an IVR says what its row has become.
LocationGone == <<"delete", "location">>
Entries == (Ivrs \X (Uploads \union {NoRow})) \union {LocationGone}
           \union ({"create"} \X Backups)

\* Faulty forms of definitions below, each what a plausible bug would make of it.
\* The specification uses none of them: they show that the properties notice.
MediaFirst           == <<"media", "database", "exports", "config", "audit", "packed">>
AuditBeforeConfig    == <<"database", "media", "exports", "audit", "config", "packed">>
ReferringFirst       == <<"log", "ivrs", "prompts", "versions">>

\* The tables of a fixture in its order; core.AdminBackup is not one of them.
Tables == <<"log", "prompts", "ivrs", "versions">>

\* The parts of the archive in the order in which they are read.
Order == <<"database", "media", "exports", "config", "audit", "packed">>

Archives == [method : {"none", "pg_dump", "django_dumpdata"}, tables : 0..4,
             dump : Rows, dumpLog : SUBSET Entries,
             media : [Uploads -> {"absent", "partial", "whole"}],
             exports : SUBSET Versions,
             config : [Ivrs -> Uploads \union {NoRow}], audit : SUBSET Entries]

NoRows == [location |-> TRUE, prompts |-> {}, ivrs |-> [i \in Ivrs |-> NoRow],
           versions |-> {}]

EmptyArchive == [method |-> "none", tables |-> 0, dump |-> NoRows, dumpLog |-> {},
                 media |-> [u \in Uploads |-> "absent"], exports |-> {},
                 config |-> [i \in Ivrs |-> NoRow], audit |-> {}]

BackupTypeOK ==
    /\ rows \in Rows
    /\ log \subseteq Entries
    /\ files \in [Uploads -> {"absent", "partial", "whole"}]
    /\ step \in [Uploads -> {"idle", "saving", "saved", "done", "failed"}]
    /\ target \in [Uploads -> Ivrs]
    /\ reading \in [Backups -> Range(Order) \union {"idle", "stored", "done", "failed"}]
    /\ archive \in [Backups -> Archives]

-----------------------------------------------------------------------------
(* Safety.                                                                 *)

Kept == {b \in Backups : reading[b] \in {"stored", "done"}}

\* Every prompt row, in the portal and in every dump, has its whole files in
\* the media directory and in the archive: the files are saved before the row
\* and read after it, however uploads and backups interleave.
MediaComplete ==
    /\ \A u \in rows.prompts : files[u] = "whole"
    /\ \A b \in Kept : \A u \in archive[b].dump.prompts : archive[b].media[u] = "whole"

\* The parts of an archive are of different moments, but its audit history tells
\* every difference between the dump and the generated configuration, and why a
\* dumped version is missing from the export metadata.
DifferencesExplained ==
    \A b \in Kept :
        LET a == archive[b] IN
        /\ \A i \in Ivrs : a.config[i] # a.dump.ivrs[i] =>
              \/ <<i, a.config[i]>> \in a.audit
              \/ a.config[i] = NoRow /\ LocationGone \in a.audit
        /\ a.dump.versions \subseteq a.exports \/ LocationGone \in a.audit

\* An IVR in a dump refers to a prompt that is in the dump as well, unless the
\* dump is a fixture and its own audit table does not know of that IVR's upload.
DanglingIsRecent ==
    \A b \in Kept : \A i \in Ivrs :
        LET a == archive[b] IN
        a.dump.ivrs[i] \notin a.dump.prompts \union {NoRow} =>
            /\ a.method = "django_dumpdata"
            /\ <<i, a.dump.ivrs[i]>> \notin a.dumpLog

\* The rows agree with the files before them and with the log written beside them.
RowsInv ==
    /\ \A u \in rows.prompts : step[u] = "done"
    /\ \A u \in Uploads : step[u] \in {"saved", "done"} => files[u] = "whole"
    /\ \A i \in Ivrs :
          /\ rows.ivrs[i] # NoRow => /\ rows.ivrs[i] \in rows.prompts
                                     /\ <<i, rows.ivrs[i]>> \in log
          /\ rows.ivrs[i] = NoRow => \/ {<<i, NoRow>>, LocationGone} \intersect log # {}
                                     \/ \A u \in Uploads : <<i, u>> \notin log
          /\ \A u \in Uploads : <<i, u>> \in log => u \in rows.prompts \/ ~rows.location
    /\ ~rows.location => LocationGone \in log /\ \A i \in Ivrs : rows.ivrs[i] = NoRow

\* A backup at this place has read this part.
Past(place, part) ==
    place \notin {"idle", "failed"} /\ \A k \in DOMAIN Order : Order[k] = place =>
        \E m \in 1..k - 1 : Order[m] = part

\* What was dumped is explained by what the log says now, or said when it was read.
DumpOf(b) ==
    LET a == archive[b] IN
    /\ a.dumpLog \subseteq log
    /\ \A u \in a.dump.prompts : step[u] = "done"
    /\ \A i \in Ivrs : a.dump.ivrs[i] # NoRow => <<i, a.dump.ivrs[i]>> \in log
    /\ a.dump.versions \subseteq rows.versions \/ LocationGone \in log
    /\ a.method = "none" => reading[b] \in {"idle", "database", "failed"} /\ a.tables = 0
    /\ reading[b] = "idle" => a.method = "none"
    /\ reading[b] = "database" => a.tables < Len(Tables)
    /\ a.method # "pg_dump" /\ a.tables < 3 => \A i \in Ivrs : a.dump.ivrs[i] = NoRow
    /\ a.method = "django_dumpdata" /\ a.tables >= 2 =>
          \A i \in Ivrs : \A u \in Uploads :
              <<i, u>> \in a.dumpLog => u \in a.dump.prompts \/ ~rows.location
    /\ \A i \in Ivrs : a.dump.ivrs[i] \notin a.dump.prompts \union {NoRow} =>
          a.method = "django_dumpdata" /\ <<i, a.dump.ivrs[i]>> \notin a.dumpLog

\* The later parts, and the log until it is read itself.
PartsOf(b) ==
    LET a == archive[b]
        told == IF Past(reading[b], "audit") THEN a.audit ELSE log
    IN
    /\ Past(reading[b], "media") => \A u \in a.dump.prompts : a.media[u] = "whole"
    /\ Past(reading[b], "exports") => a.dump.versions \subseteq a.exports \/ LocationGone \in told
    /\ Past(reading[b], "config") => \A i \in Ivrs : a.config[i] # a.dump.ivrs[i] =>
          \/ <<i, a.config[i]>> \in told
          \/ a.config[i] = NoRow /\ LocationGone \in told

BackupInv == \A b \in Backups : DumpOf(b) /\ PartsOf(b)

\* An archive is complete and consistent, or its history says why not.
ArchiveConsistent ==
    /\ BackupTypeOK
    /\ MediaComplete
    /\ DifferencesExplained
    /\ DanglingIsRecent
    /\ RowsInv /\ BackupInv
=============================================================================
