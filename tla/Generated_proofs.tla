--------------------------- MODULE Generated_proofs ---------------------------
(***************************************************************************)
(* Theorems about what is made of the portal's rows.  Of backups           *)
(* (AdminBackup) for any number of IVRs, uploads, versions and backups;    *)
(* of the forms of trunks and routes (TrunkRoutes) for any locations,      *)
(* providers, trunks and routes: that no reference dangles, for any number *)
(* of open pages, and that forms make no link that breaks a rule, for one  *)
(* at a time, which is what the property says; and of calls in the         *)
(* generated dial plan (CallRouting), for any configurations and calls.    *)
(***************************************************************************)
EXTENDS AdminBackup, TrunkRoutes, CallRouting, TLAPS, FiniteSetTheorems,
        WellFoundedInduction

Places == {"idle", "database", "media", "exports", "config", "audit", "packed",
           "stored", "done", "failed"}

BackupTypes == reading \in [Backups -> Places] /\ archive \in [Backups -> Archives]

UploadTypes ==
    /\ rows \in Rows /\ log \subseteq Entries
    /\ files \in [Uploads -> {"absent", "partial", "whole"}]
    /\ step \in [Uploads -> {"idle", "saving", "saved", "done", "failed"}]
    /\ target \in [Uploads -> Ivrs]

\* What the three conclusions of ArchiveConsistent follow from.
Inv == UploadTypes /\ BackupTypes /\ RowsInv /\ BackupInv

-----------------------------------------------------------------------------
(* The order of the parts.                                                 *)

LEMMA OrderIs ==
    /\ DOMAIN Order = 1..6
    /\ Order[1] = "database" /\ Order[2] = "media" /\ Order[3] = "exports"
    /\ Order[4] = "config" /\ Order[5] = "audit" /\ Order[6] = "packed"
    /\ Range(Order) = {"database", "media", "exports", "config", "audit", "packed"}
<1>1. /\ DOMAIN Order = 1..6
      /\ Order[1] = "database" /\ Order[2] = "media" /\ Order[3] = "exports"
      /\ Order[4] = "config" /\ Order[5] = "audit" /\ Order[6] = "packed"
  BY DEF Order
<1>2. 1..6 = {1, 2, 3, 4, 5, 6}
  OBVIOUS
<1> HIDE DEF Order
<1> QED
  BY <1>1, <1>2 DEF Range

\* A table is the IVRs, the versions or the log.
LEMMA TablesAre ==
    /\ Len(Tables) = 4
    /\ Tables[1] = "log" /\ Tables[2] = "prompts" /\ Tables[3] = "ivrs"
    /\ Tables[4] = "versions"
BY DEF Tables

\* The parts of a backup that come after another.
LEMMA AfterIs ==
    /\ After("database") = "media" /\ After("media") = "exports"
    /\ After("exports") = "config" /\ After("config") = "audit"
    /\ After("audit") = "packed"
<1> DEFINE at(part) == CHOOSE k \in DOMAIN Order : Order[k] = part
<1>1. ASSUME NEW k \in DOMAIN Order PROVE at(Order[k]) = k
  <2>1. k \in {1, 2, 3, 4, 5, 6} /\ at(Order[k]) \in DOMAIN Order
        /\ Order[at(Order[k])] = Order[k]
    BY <1>1, OrderIs
  <2>2. at(Order[k]) \in {1, 2, 3, 4, 5, 6}
    BY <2>1, OrderIs
  <2> HIDE DEF at
  <2> QED
    BY <2>1, <2>2, OrderIs
<1>2. at("database") = 1 /\ at("media") = 2 /\ at("exports") = 3 /\ at("config") = 4
      /\ at("audit") = 5
  <2> HIDE DEF at
  <2> QED
    BY <1>1, OrderIs
<1>3. \A part : After(part) = Order[1 + at(part)]
  BY DEF After
<1> HIDE DEF at
<1> QED
  BY <1>2, <1>3, OrderIs

\* The parts of a backup that are read at its place.
LEMMA PastIs ==
    ASSUME NEW p \in Places
    PROVE  /\ Past(p, "media") <=>
                  p \in {"exports", "config", "audit", "packed", "stored", "done"}
           /\ Past(p, "exports") <=> p \in {"config", "audit", "packed", "stored", "done"}
           /\ Past(p, "config") <=> p \in {"audit", "packed", "stored", "done"}
           /\ Past(p, "audit") <=> p \in {"packed", "stored", "done"}
<1>1. \A k \in 1..6 : k \in {1, 2, 3, 4, 5, 6}
  OBVIOUS
<1>2. \A part : Past(p, part) <=>
          p \notin {"idle", "failed"} /\ \A k \in 1..6 : Order[k] = p =>
              \E m \in 1..6 : m < k /\ Order[m] = part
  BY OrderIs, <1>1 DEF Past
<1> QED
  BY OrderIs, <1>1, <1>2 DEF Places

-----------------------------------------------------------------------------
(* Initial states.                                                         *)

LEMMA TypesAre == BackupTypeOK <=> UploadTypes /\ BackupTypes
BY OrderIs, Zenon DEF BackupTypeOK, UploadTypes, BackupTypes, Places

\* Nothing is archived at first.
LEMMA InitInv ==
    ASSUME ConstantsAssumption, Init
    PROVE  Inv
<1>1. NoRows \in Rows
  BY DEF NoRows, Rows
<1>2. EmptyArchive \in Archives
  BY <1>1 DEF EmptyArchive, Archives
<1>3. UploadTypes /\ BackupTypes
  BY <1>1, <1>2 DEF Init, UploadTypes, BackupTypes, Places
<1>4. RowsInv
  BY DEF Init, RowsInv, NoRows, ConstantsAssumption
<1>5. ASSUME NEW b \in Backups PROVE DumpOf(b) /\ PartsOf(b)
  <2>1. reading[b] = "idle" /\ archive[b] = EmptyArchive /\ rows = NoRows
    BY DEF Init
  <2>2. DumpOf(b)
    BY <2>1, TablesAre DEF DumpOf, EmptyArchive, NoRows
  <2>3. PartsOf(b)
    BY <2>1 DEF PartsOf, Past
  <2> QED
    BY <2>2, <2>3
<1> QED
  BY <1>3, <1>4, <1>5 DEF Inv, BackupInv

-----------------------------------------------------------------------------
(* Requests that change rows: a log only grows, a location never comes     *)
(* back, versions go only with it.                                         *)

LEMMA BackupKeeps ==
    ASSUME ConstantsAssumption, Inv, UNCHANGED backupVars,
           log \subseteq log', \A u \in Uploads : step[u] = "done" => step'[u] = "done",
           rows.versions \subseteq rows'.versions \/ LocationGone \in log',
           ~rows.location => ~rows'.location
    PROVE  BackupInv'
<1> SUFFICES ASSUME NEW b \in Backups PROVE DumpOf(b)' /\ PartsOf(b)'
  BY DEF BackupInv
<1>1. /\ DumpOf(b) /\ PartsOf(b) /\ reading[b] \in Places /\ archive[b] \in Archives
      /\ reading' = reading /\ archive' = archive
  BY DEF Inv, BackupInv, BackupTypes, backupVars
<1>2. archive[b].dump.prompts \subseteq Uploads
  BY <1>1 DEF Archives, Rows
<1>3. DumpOf(b)'
  BY <1>1, <1>2 DEF DumpOf
<1>4. PartsOf(b)'
  BY <1>1 DEF PartsOf
<1> QED
  BY <1>3, <1>4

\* Rows, files and log change under a backup.
LEMMA RowStep ==
    ASSUME ConstantsAssumption, Inv,
           \/ \E u \in Uploads : UploadStep(u)
           \/ \E i \in Ivrs : DeleteIvr(i)
           \/ DeleteLocation
           \/ \E v \in Versions : ExportVersion(v)
    PROVE  Inv'
<1>1. UploadTypes /\ RowsInv
  BY DEF Inv
<1>2. ASSUME UploadTypes', RowsInv', BackupInv', UNCHANGED backupVars PROVE Inv'
  BY <1>2 DEF Inv, BackupTypes, backupVars
<1>3. ASSUME NEW u \in Uploads, SaveFiles(u) PROVE Inv'
  <2>1. UploadTypes'
    BY <1>1, <1>3 DEF SaveFiles, UploadTypes, At
  <2>2. RowsInv'
    <3>1. /\ UNCHANGED <<rows, log>> /\ step[u] \in {"idle", "saving"}
          /\ \A w \in Uploads : w # u => step'[w] = step[w] /\ files'[w] = files[w]
          /\ step'[u] \in {"saved", "done"} => files'[u] = "whole"
      BY <1>1, <1>3 DEF SaveFiles, UploadTypes, At
    <3>2. rows.prompts \subseteq Uploads
      BY <1>1 DEF UploadTypes, Rows
    <3>3. \A w \in rows.prompts : w # u /\ step'[w] = "done"
      BY <1>1, <3>1, <3>2 DEF RowsInv
    <3>4. \A w \in Uploads : step'[w] \in {"saved", "done"} => files'[w] = "whole"
      BY <1>1, <3>1 DEF RowsInv
    <3> QED
      BY <1>1, <3>1, <3>3, <3>4 DEF RowsInv
  <2>3. BackupInv'
    BY <1>1, <1>3, BackupKeeps DEF SaveFiles, At, UploadTypes
  <2> QED
    BY <1>2, <1>3, <2>1, <2>2, <2>3 DEF SaveFiles
<1>4. ASSUME NEW u \in Uploads, UploadFails(u) PROVE Inv'
  <2>1. UploadTypes'
    BY <1>1, <1>4 DEF UploadFails, UploadTypes
  <2>2. RowsInv'
    BY <1>1, <1>4 DEF UploadFails, UploadTypes, RowsInv
  <2>3. BackupInv'
    BY <1>1, <1>4, BackupKeeps DEF UploadFails, UploadTypes
  <2> QED
    BY <1>2, <1>4, <2>1, <2>2, <2>3 DEF UploadFails
<1>5. ASSUME NEW u \in Uploads, CommitIvr(u) PROVE Inv'
  <2>1. /\ step[u] = "saved" /\ rows.location /\ target[u] \in Ivrs
        /\ step' = [step EXCEPT ![u] = "done"] /\ log' = log \union {<<target[u], u>>}
        /\ UNCHANGED <<files, target, backupVars>>
    BY <1>1, <1>5 DEF CommitIvr, RowDue, UploadTypes
  <2>2. /\ rows' \in Rows /\ rows'.location = rows.location
        /\ rows'.prompts = rows.prompts \union {u} /\ rows'.versions = rows.versions
        /\ rows'.ivrs = [rows.ivrs EXCEPT ![target[u]] = u]
    BY <1>1, <1>5, <2>1 DEF CommitIvr, UploadTypes, Rows
  <2>3. UploadTypes'
    BY <1>1, <2>1, <2>2 DEF UploadTypes, Entries
  <2>4. RowsInv'
    <3>1. \A i \in Ivrs : rows'.ivrs[i] = IF i = target[u] THEN u ELSE rows.ivrs[i]
      BY <1>1, <2>1, <2>2 DEF UploadTypes, Rows
    <3>2. u # NoRow /\ NoRow \notin Uploads
      BY DEF ConstantsAssumption
    <3>3. \A i \in Ivrs : \A w \in Uploads :
              <<i, w>> \in log' => w \in rows'.prompts \/ ~rows'.location
      BY <1>1, <2>1, <2>2 DEF RowsInv
    <3>4. \A i \in Ivrs : rows'.ivrs[i] # NoRow =>
              rows'.ivrs[i] \in rows'.prompts /\ <<i, rows'.ivrs[i]>> \in log'
      BY <1>1, <2>1, <2>2, <3>1 DEF RowsInv
    <3>5. \A i \in Ivrs : rows'.ivrs[i] = NoRow =>
              \/ {<<i, NoRow>>, LocationGone} \intersect log' # {}
              \/ \A w \in Uploads : <<i, w>> \notin log'
      BY <1>1, <2>1, <3>1, <3>2 DEF RowsInv
    <3>6. \A w \in Uploads : step'[w] \in {"saved", "done"} => files'[w] = "whole"
      BY <1>1, <2>1 DEF RowsInv, UploadTypes
    <3>7. \A w \in rows'.prompts : step'[w] = "done"
      BY <1>1, <2>1, <2>2 DEF RowsInv, UploadTypes
    <3> QED
      BY <2>1, <2>2, <3>3, <3>4, <3>5, <3>6, <3>7 DEF RowsInv
  <2>5. BackupInv'
    BY <1>1, <2>1, <2>2, BackupKeeps DEF UploadTypes
  <2> QED
    BY <1>2, <2>1, <2>3, <2>4, <2>5
<1>6. ASSUME NEW i \in Ivrs, DeleteIvr(i) PROVE Inv'
  <2>1. rows.ivrs[i] # NoRow /\ log' = log \union {<<i, NoRow>>}
        /\ UNCHANGED <<uploadVars, backupVars>>
    BY <1>6 DEF DeleteIvr
  <2>2. /\ rows' \in Rows /\ rows'.location = rows.location
        /\ rows'.prompts = rows.prompts /\ rows'.versions = rows.versions
        /\ rows'.ivrs = [rows.ivrs EXCEPT ![i] = NoRow]
    BY <1>1, <1>6 DEF DeleteIvr, UploadTypes, Rows
  <2>3. UploadTypes'
    BY <1>1, <2>1, <2>2 DEF UploadTypes, Entries, uploadVars
  <2>4. RowsInv'
    <3>1. \A j \in Ivrs : rows'.ivrs[j] = IF j = i THEN NoRow ELSE rows.ivrs[j]
      BY <1>1, <2>2 DEF UploadTypes, Rows
    <3>2. \A j \in Ivrs, w \in Uploads : <<j, w>> \in log' => <<j, w>> \in log
      BY <2>1 DEF ConstantsAssumption
    <3>3. /\ step' = step /\ files' = files /\ rows'.prompts = rows.prompts
          /\ rows'.location = rows.location /\ log \subseteq log' /\ <<i, NoRow>> \in log'
      BY <2>1, <2>2 DEF uploadVars
    <3>4. \A w \in rows'.prompts : step'[w] = "done"
      BY <1>1, <3>3 DEF RowsInv
    <3>5. \A w \in Uploads : step'[w] \in {"saved", "done"} => files'[w] = "whole"
      BY <1>1, <3>3 DEF RowsInv
    <3>6. \A j \in Ivrs : rows'.ivrs[j] # NoRow =>
              rows'.ivrs[j] \in rows'.prompts /\ <<j, rows'.ivrs[j]>> \in log'
      BY <1>1, <3>1, <3>3 DEF RowsInv
    <3>7. \A j \in Ivrs : rows'.ivrs[j] = NoRow =>
              \/ {<<j, NoRow>>, LocationGone} \intersect log' # {}
              \/ \A w \in Uploads : <<j, w>> \notin log'
      BY <1>1, <3>1, <3>2, <3>3 DEF RowsInv
    <3>8. \A j \in Ivrs : \A w \in Uploads :
              <<j, w>> \in log' => w \in rows'.prompts \/ ~rows'.location
      BY <1>1, <3>2, <3>3 DEF RowsInv
    <3>9. ~rows'.location => LocationGone \in log' /\ \A j \in Ivrs : rows'.ivrs[j] = NoRow
      BY <1>1, <3>1, <3>3 DEF RowsInv
    <3> QED
      BY <3>4, <3>5, <3>6, <3>7, <3>8, <3>9 DEF RowsInv
  <2>5. BackupInv'
    BY <1>1, <2>1, <2>2, BackupKeeps DEF uploadVars
  <2> QED
    BY <1>2, <2>1, <2>3, <2>4, <2>5
<1>7. CASE DeleteLocation
  <2>1. log' = log \union {LocationGone} /\ UNCHANGED <<uploadVars, backupVars>>
    BY <1>7 DEF DeleteLocation
  <2>2. /\ rows' \in Rows /\ ~rows'.location /\ rows'.prompts = {}
        /\ \A i \in Ivrs : rows'.ivrs[i] = NoRow
    BY <1>7 DEF DeleteLocation, NoRows, Rows
  <2>3. UploadTypes'
    BY <1>1, <2>1, <2>2 DEF UploadTypes, Entries, uploadVars
  <2>4. RowsInv'
    BY <1>1, <2>1, <2>2 DEF RowsInv, uploadVars
  <2>5. BackupInv'
    BY <1>1, <2>1, <2>2, BackupKeeps DEF uploadVars
  <2> QED
    BY <1>2, <2>1, <2>3, <2>4, <2>5
<1>8. ASSUME NEW v \in Versions, ExportVersion(v) PROVE Inv'
  <2>1. UNCHANGED <<log, uploadVars, backupVars>>
    BY <1>8 DEF ExportVersion
  <2>2. /\ rows' \in Rows /\ rows'.location = rows.location
        /\ rows'.prompts = rows.prompts /\ rows'.versions = rows.versions \union {v}
        /\ rows'.ivrs = rows.ivrs
    BY <1>1, <1>8 DEF ExportVersion, UploadTypes, Rows
  <2>3. UploadTypes'
    BY <1>1, <2>1, <2>2 DEF UploadTypes, uploadVars
  <2>4. RowsInv'
    BY <1>1, <2>1, <2>2 DEF RowsInv, uploadVars
  <2>5. BackupInv'
    BY <1>1, <2>1, <2>2, BackupKeeps DEF uploadVars
  <2> QED
    BY <1>2, <2>1, <2>3, <2>4, <2>5
<1> QED
  BY <1>3, <1>4, <1>5, <1>6, <1>7, <1>8 DEF UploadStep

-----------------------------------------------------------------------------
(* Steps of a backup.                                                      *)

\* What holds of the backup that moves is to be shown; the others stay.
LEMMA OthersStay ==
    ASSUME ConstantsAssumption, Inv, UNCHANGED <<rows, uploadVars>>, NEW b \in Backups,
           log' \in {log, log \union {<<"create", b>>}},
           NEW p \in Places, reading' = [reading EXCEPT ![b] = p],
           NEW a \in Archives, archive' = [archive EXCEPT ![b] = a],
           DumpOf(b)', PartsOf(b)'
    PROVE  Inv'
<1>1. UploadTypes'
  BY DEF Inv, UploadTypes, uploadVars, Entries
<1>2. BackupTypes'
  BY DEF Inv, BackupTypes
<1>3. RowsInv'
  <2>1. \A i \in Ivrs, u \in Uploads : <<i, u>> \in log' => <<i, u>> \in log
    BY DEF ConstantsAssumption
  <2> QED
    BY <2>1 DEF Inv, RowsInv, uploadVars
<1>4. ASSUME NEW c \in Backups PROVE DumpOf(c)' /\ PartsOf(c)'
  <2>1. CASE c = b
    BY <2>1
  <2>2. CASE c # b
    <3>1. /\ reading'[c] = reading[c] /\ archive'[c] = archive[c] /\ log \subseteq log'
          /\ DumpOf(c) /\ PartsOf(c)
      BY <2>2 DEF Inv, BackupTypes, BackupInv
    <3>2. DumpOf(c)'
      BY <3>1 DEF DumpOf, uploadVars
    <3>3. PartsOf(c)'
      BY <3>1 DEF PartsOf
    <3> QED
      BY <3>2, <3>3
  <2> QED
    BY <2>1, <2>2
<1> QED
  BY <1>1, <1>2, <1>3, <1>4 DEF Inv, BackupInv

\* A backup that begins, is packed, recorded or given up reads nothing.
LEMMA ReadsNothing ==
    ASSUME ConstantsAssumption, Inv, NEW b \in Backups,
           Begin(b) \/ Store(b) \/ RecordBackup(b) \/ BackupFails(b)
    PROVE  Inv'
<1>1. PICK p \in Places :
          /\ reading' = [reading EXCEPT ![b] = p] /\ archive' = archive
          /\ log' \in {log, log \union {<<"create", b>>}} /\ UNCHANGED <<rows, uploadVars>>
          /\ \/ reading[b] = "idle" /\ p = "database"
             \/ reading[b] = "packed" /\ p = "stored"
             \/ reading[b] = "stored" /\ p = "done"
             \/ reading[b] \notin {"idle", "done"} /\ p = "failed"
  BY OrderIs DEF Begin, Store, RecordBackup, BackupFails, Places
<1>2. /\ DumpOf(b) /\ PartsOf(b) /\ reading[b] \in Places /\ archive[b] \in Archives
      /\ reading'[b] = p /\ archive' = [archive EXCEPT ![b] = archive[b]] /\ log \subseteq log'
  BY <1>1 DEF Inv, BackupInv, BackupTypes
<1>3. DumpOf(b)'
  <2>1. archive[b].method = "none" => archive[b].tables = 0
    BY <1>2 DEF DumpOf
  <2> QED
    BY <1>1, <1>2, <2>1, TablesAre DEF DumpOf, uploadVars
<1>4. PartsOf(b)'
  BY <1>1, <1>2, PastIs DEF PartsOf
<1> QED
  BY <1>1, <1>2, <1>3, <1>4, OthersStay

\* One snapshot: an IVR in it refers to a prompt that is in it too.
LEMMA DumpsSnapshot ==
    ASSUME ConstantsAssumption, Inv, NEW b \in Backups, PostgresDump(b)
    PROVE  Inv'
<1> DEFINE a == [archive[b] EXCEPT !.method = "pg_dump", !.dump = rows, !.dumpLog = log]
<1>1. archive[b] \in Archives /\ rows \in Rows /\ log \in SUBSET Entries /\ RowsInv
  BY DEF Inv, BackupTypes, UploadTypes
<1>2. a \in Archives /\ a.method = "pg_dump" /\ a.dump = rows /\ a.dumpLog = log
  BY <1>1 DEF Archives
<1>3. archive' = [archive EXCEPT ![b] = a] /\ UNCHANGED <<rows, log, uploadVars>>
  BY DEF PostgresDump
<1>4. reading' = [reading EXCEPT ![b] = "media"] /\ "media" \in Places
  BY AfterIs DEF PostgresDump, Places
<1>5. reading'[b] = "media" /\ archive'[b] = a
  BY <1>3, <1>4 DEF Inv, BackupTypes
<1> HIDE DEF a
<1>6. DumpOf(b)'
  BY <1>1, <1>2, <1>3, <1>5 DEF DumpOf, RowsInv, uploadVars
<1>7. PartsOf(b)'
  BY <1>4, <1>5, PastIs DEF PartsOf
<1> QED
  BY <1>2, <1>3, <1>4, <1>6, <1>7, OthersStay

\* Table by table: the log is read before the prompts, these before the IVRs, so
\* that a prompt which is missing was not yet in the log that was dumped.
LEMMA DumpsTables ==
    ASSUME ConstantsAssumption, Inv, NEW b \in Backups, FixtureDump(b)
    PROVE  Inv'
<1> DEFINE old == archive[b]
           n == old.tables + 1
           table == Tables[n]
           a == WithTable(old, table)
           p == IF n = Len(Tables) THEN After(reading[b]) ELSE reading[b]
<1>1. /\ old \in Archives /\ rows \in Rows /\ log \in SUBSET Entries /\ RowsInv
      /\ DumpOf(b) /\ reading[b] = "database" /\ old.method # "pg_dump"
  BY DEF Inv, BackupTypes, BackupInv, UploadTypes, FixtureDump
<1>2. n \in {1, 2, 3, 4} /\ n = old.tables + 1
  BY <1>1, TablesAre DEF DumpOf, Archives
<1>3. /\ (table = "log" <=> n = 1) /\ (table = "prompts" <=> n = 2)
      /\ (table = "ivrs" <=> n = 3) /\ (table = "versions" <=> n = 4)
  <2> HIDE DEF n
  <2> QED
    BY <1>2, TablesAre
<1>4. /\ archive' = [archive EXCEPT ![b] = a] /\ UNCHANGED <<rows, log, uploadVars>>
  BY DEF FixtureDump
<1> DEFINE dump == DumpWith(old.dump, table)
           seen == IF table = "log" THEN log ELSE old.dumpLog
<1>5. a = [old EXCEPT !.method = "django_dumpdata", !.tables = n,
                       !.dumpLog = seen, !.dump = dump]
  BY DEF WithTable
<1>6. /\ a \in Archives /\ a.method = "django_dumpdata" /\ a.tables = n
     /\ a.dumpLog = (IF n = 1 THEN log ELSE old.dumpLog)
     /\ a.dump.prompts = (IF n = 2 THEN rows.prompts ELSE old.dump.prompts)
     /\ a.dump.ivrs = (IF n = 3 THEN rows.ivrs ELSE old.dump.ivrs)
     /\ a.dump.versions = (IF n = 4 THEN rows.versions ELSE old.dump.versions)
  <2> HIDE DEF a, n, table, old
  <2>1. old.dump \in Rows /\ old \in Archives /\ rows \in Rows /\ log \subseteq Entries
    BY <1>1 DEF Archives
  <2>2. /\ dump \in Rows
        /\ dump.prompts = (IF n = 2 THEN rows.prompts ELSE old.dump.prompts)
        /\ dump.ivrs = (IF n = 3 THEN rows.ivrs ELSE old.dump.ivrs)
        /\ dump.versions = (IF n = 4 THEN rows.versions ELSE old.dump.versions)
    BY <1>3, <2>1 DEF Rows, DumpWith
  <2>3. seen \in SUBSET Entries /\ n \in 0..4
    BY <1>2, <2>1 DEF Archives
  <2>4. seen = IF n = 1 THEN log ELSE old.dumpLog
    BY <1>3
  <2> HIDE DEF dump, seen
  <2>5. /\ a \in Archives /\ a.method = "django_dumpdata" /\ a.tables = n
        /\ a.dumpLog = seen /\ a.dump = dump
    BY <1>2, <1>5, <2>1, <2>2, <2>3 DEF Archives
  <2> QED
    BY <2>2, <2>4, <2>5
<1>7. archive'[b] = a
  BY <1>4 DEF Inv, BackupTypes
<1>8. reading' = [reading EXCEPT ![b] = p] /\ p \in {"database", "media"} /\ p \in Places
      /\ (p = "database" => n < 4)
  BY <1>1, <1>2, AfterIs, TablesAre DEF FixtureDump, Places
<1>9. reading'[b] = p
  BY <1>8 DEF Inv, BackupTypes
<1>10. /\ old.dumpLog \subseteq log /\ \A u \in old.dump.prompts : step[u] = "done"
       /\ \A i \in Ivrs : old.dump.ivrs[i] # NoRow => <<i, old.dump.ivrs[i]>> \in log
       /\ old.dump.versions \subseteq rows.versions \/ LocationGone \in log
       /\ n < 4 => \A i \in Ivrs : old.dump.ivrs[i] = NoRow
       /\ n >= 3 => \A i \in Ivrs : \A u \in Uploads :
             <<i, u>> \in old.dumpLog => u \in old.dump.prompts \/ ~rows.location
      /\ \A i \in Ivrs : old.dump.ivrs[i] \notin old.dump.prompts \union {NoRow} =>
             <<i, old.dump.ivrs[i]>> \notin old.dumpLog
  <2>1. old.method \in {"none", "django_dumpdata"} /\ (old.method = "none" => n = 1)
    BY <1>1, <1>2 DEF DumpOf, Archives
  <2>2. /\ old.tables < 3 <=> n < 4
        /\ old.tables >= 2 <=> n >= 3
    BY <1>1, <1>2 DEF Archives
  <2>3. old.method = "none" => n < 3
    BY <2>1
  <2> HIDE DEF n
  <2> QED
    BY <1>1, <2>1, <2>2, <2>3 DEF DumpOf
<1>11. /\ \A u \in rows.prompts : step[u] = "done"
       /\ \A i \in Ivrs : rows.ivrs[i] # NoRow =>
              <<i, rows.ivrs[i]>> \in log /\ rows.location /\ rows.ivrs[i] \in Uploads
       /\ \A i \in Ivrs, u \in Uploads :
              <<i, u>> \in log => u \in rows.prompts \/ ~rows.location
  BY <1>1 DEF RowsInv, Rows
<1> HIDE DEF a, old, n, p, dump, seen
<1>12. DumpOf(b)'
  BY <1>2, <1>4, <1>6, <1>7, <1>8, <1>9, <1>10, <1>11, TablesAre DEF DumpOf, uploadVars
<1>13. PartsOf(b)'
  BY <1>8, <1>9, PastIs DEF PartsOf
<1> QED
  BY <1>4, <1>6, <1>8, <1>12, <1>13, OthersStay

\* Each later part is read when the log says why it differs from the dump; the log
\* itself is read last.
LEMMA ReadsPart ==
    ASSUME ConstantsAssumption, Inv, NEW b \in Backups, ReadPart(b)
    PROVE  Inv'
<1> DEFINE old == archive[b]
<1>1. /\ old \in Archives /\ rows \in Rows /\ log \in SUBSET Entries /\ RowsInv
      /\ files \in [Uploads -> {"absent", "partial", "whole"}]
      /\ DumpOf(b) /\ PartsOf(b) /\ reading[b] \in Places
  BY DEF Inv, BackupTypes, BackupInv, UploadTypes
<1>2. PICK a \in Archives, p \in Places :
          /\ archive' = [archive EXCEPT ![b] = a] /\ reading' = [reading EXCEPT ![b] = p]
          /\ UNCHANGED <<rows, log, uploadVars>>
          /\ \/ reading[b] = "media" /\ p = "exports" /\ a = [old EXCEPT !.media = files]
             \/ reading[b] = "exports" /\ p = "config"
                /\ a = [old EXCEPT !.exports = rows.versions]
             \/ reading[b] = "config" /\ p = "audit" /\ a = [old EXCEPT !.config = rows.ivrs]
             \/ reading[b] = "audit" /\ p = "packed" /\ a = [old EXCEPT !.audit = log]
  <2>1. /\ [old EXCEPT !.media = files] \in Archives
        /\ [old EXCEPT !.exports = rows.versions] \in Archives
        /\ [old EXCEPT !.config = rows.ivrs] \in Archives
        /\ [old EXCEPT !.audit = log] \in Archives
    <3> HIDE DEF old
    <3> QED
      BY <1>1 DEF Archives, Rows
  <2>2. {"exports", "config", "audit", "packed"} \subseteq Places
    BY DEF Places
  <2> QED
    BY <2>1, <2>2, AfterIs DEF ReadPart
<1>3. archive'[b] = a /\ reading'[b] = p
  BY <1>2 DEF Inv, BackupTypes
<1>4. /\ a.dump = old.dump /\ a.dumpLog = old.dumpLog /\ a.method = old.method
      /\ a.tables = old.tables
      /\ a.media = (IF reading[b] = "media" THEN files ELSE old.media)
      /\ a.exports = (IF reading[b] = "exports" THEN rows.versions ELSE old.exports)
      /\ a.config = (IF reading[b] = "config" THEN rows.ivrs ELSE old.config)
      /\ a.audit = (IF reading[b] = "audit" THEN log ELSE old.audit)
  <2> HIDE DEF old
  <2> QED
    BY <1>1, <1>2 DEF Archives
<1>5. old.dump \in Rows
  BY <1>1 DEF Archives
<1> USE DEF uploadVars
<1>6. DumpOf(b)'
  BY <1>1, <1>2, <1>3, <1>4 DEF DumpOf
<1>7. /\ \A u \in old.dump.prompts : files[u] = "whole"
      /\ old.dump.versions \subseteq rows.versions \/ LocationGone \in log
      /\ \A i \in Ivrs : rows.ivrs[i] # old.dump.ivrs[i] =>
             \/ <<i, rows.ivrs[i]>> \in log
             \/ rows.ivrs[i] = NoRow /\ LocationGone \in log
  <2>1. \A u \in old.dump.prompts : u \in Uploads /\ step[u] = "done"
    BY <1>1, <1>5 DEF DumpOf, Rows
  <2>2. \A i \in Ivrs : old.dump.ivrs[i] # NoRow =>
            old.dump.ivrs[i] \in Uploads /\ <<i, old.dump.ivrs[i]>> \in log
    BY <1>1, <1>5 DEF DumpOf, Rows
  <2>3. ASSUME NEW i \in Ivrs, rows.ivrs[i] # old.dump.ivrs[i]
        PROVE  \/ <<i, rows.ivrs[i]>> \in log
               \/ rows.ivrs[i] = NoRow /\ LocationGone \in log
    <3>1. rows.ivrs[i] = NoRow => {<<i, NoRow>>, LocationGone} \intersect log # {}
      BY <1>1, <2>2, <2>3 DEF RowsInv
    <3>2. rows.ivrs[i] # NoRow => <<i, rows.ivrs[i]>> \in log
      BY <1>1 DEF RowsInv
    <3> QED
      BY <3>1, <3>2
  <2>4. \A u \in old.dump.prompts : files[u] = "whole"
    BY <1>1, <2>1 DEF RowsInv
  <2>5. old.dump.versions \subseteq rows.versions \/ LocationGone \in log
    BY <1>1 DEF DumpOf
  <2> QED
    BY <2>3, <2>4, <2>5
<1> HIDE DEF old
<1>8. PartsOf(b)'
  <2>1. CASE reading[b] = "media"
    BY <1>2, <1>3, <1>4, <1>7, <2>1, PastIs DEF PartsOf
  <2>2. CASE reading[b] = "exports"
    BY <1>1, <1>2, <1>3, <1>4, <1>7, <2>2, PastIs DEF PartsOf, old
  <2>3. CASE reading[b] = "config"
    BY <1>1, <1>2, <1>3, <1>4, <1>7, <2>3, PastIs DEF PartsOf, old
  <2>4. CASE reading[b] = "audit"
    BY <1>1, <1>2, <1>3, <1>4, <1>7, <2>4, PastIs DEF PartsOf, old
  <2> QED
    BY <1>2, <2>1, <2>2, <2>3, <2>4
<1> QED
  BY <1>2, <1>6, <1>8, OthersStay

-----------------------------------------------------------------------------
\* The invariant says enough: of a backup that is kept, every part has been read.
LEMMA InvImplies ==
    ASSUME ConstantsAssumption, Inv
    PROVE  ArchiveConsistent
<1>1. ASSUME NEW b \in Kept
      PROVE  /\ b \in Backups /\ reading[b] \in {"stored", "done"} /\ reading[b] \in Places
             /\ DumpOf(b) /\ PartsOf(b)
             /\ Past(reading[b], "media") /\ Past(reading[b], "exports")
                /\ Past(reading[b], "config")
             /\ Past(reading[b], "audit")
  BY <1>1, PastIs DEF Kept, Inv, BackupInv, BackupTypes
<1>2. MediaComplete
  <2>1. \A u \in rows.prompts : files[u] = "whole"
    BY DEF Inv, RowsInv, UploadTypes, Rows
  <2>2. \A b \in Kept : \A u \in archive[b].dump.prompts : archive[b].media[u] = "whole"
    BY <1>1 DEF PartsOf
  <2> QED
    BY <2>1, <2>2 DEF MediaComplete
<1>3. DifferencesExplained
  BY <1>1 DEF PartsOf, DifferencesExplained
<1>4. DanglingIsRecent
  BY <1>1 DEF DumpOf, DanglingIsRecent
<1> QED
  BY <1>2, <1>3, <1>4, TypesAre DEF ArchiveConsistent, Inv

\* Every prompt of a dump has its whole files in the archive, and the audit history of
\* the archive tells every difference between its parts, however many uploads, edits
\* and backups interleave and whichever fail (create_admin_backup).
THEOREM ArchiveConsistentCorrect ==
    ASSUME ConstantsAssumption
    PROVE  Spec => []ArchiveConsistent
<1>1. Init => Inv
  BY InitInv
<1>2. Inv /\ [Next]_vars => Inv'
  <2> SUFFICES ASSUME Inv, [Next]_vars PROVE Inv'
    OBVIOUS
  <2>1. CASE UNCHANGED vars
    BY <2>1 DEF Inv, UploadTypes, BackupTypes, RowsInv, BackupInv, DumpOf, PartsOf,
                vars, uploadVars, backupVars
  <2>2. CASE Next
    BY <2>2, RowStep, ReadsNothing, DumpsSnapshot, DumpsTables, ReadsPart
       DEF Next, BackupStep
  <2> QED
    BY <2>1, <2>2
<1>3. Inv => ArchiveConsistent
  BY InvImplies
<1> QED
  BY <1>1, <1>2, <1>3, PTL DEF Spec

-----------------------------------------------------------------------------
USE DEF HasTrunk, HasRoute

\* A row that is not there is no row.
LEMMA AbsentRows == Absent \notin TrunkRows /\ Absent \notin RouteRows /\ Closed \notin PageRows
<1>1. DOMAIN Absent = {"loc"} /\ DOMAIN Closed = {"open"}
  BY DEF Absent, Closed
<1>2. \A x \in TrunkRows : "provider" \in DOMAIN x
  BY DEF TrunkRows
<1>3. \A x \in RouteRows : "emergency" \in DOMAIN x
  BY DEF RouteRows
<1>4. \A x \in PageRows : "route" \in DOMAIN x
  BY DEF PageRows
<1> QED
  BY <1>1, <1>2, <1>3, <1>4

\* What the pages that offer trunks may choose from.
LEMMA SelectableRows ==
    ASSUME TrunkTypeOK, NEW l, NEW emergency \in BOOLEAN, NEW t \in Selectable(l, emergency)
    PROVE  /\ t \in Trunks /\ trunk[t] # Absent /\ trunk[t].loc = l
           /\ emergency => trunk[t].capable
  BY DEF Selectable

-----------------------------------------------------------------------------
(* Types.                                                                  *)

\* The initial state has the types.
LEMMA TypeInit == TrunkInit => TrunkTypeOK
  BY DEF TrunkInit, TrunkTypeOK

\* What is posted are trunks for the route that the page is about.
LEMMA Posts ==
    ASSUME TrunkTypeOK, NEW q \in Pages, PostPage(q)
    PROVE  \E r \in Routes, row \in RouteRows : \E posted \in SUBSET Trunks :
              /\ r = page[q].route /\ page[q] \in PageRows
              /\ page[q].new = (route[r] = Absent)
              /\ posted \subseteq Selectable(row.loc, row.emergency)
              /\ route' = [route EXCEPT ![r] = row]
              /\ links' = [links EXCEPT ![r] = posted \union (links[r] \ page[q].shown)]
<1>1. page[q] \in PageRows /\ page[q].route \in Routes
  BY DEF PostPage, TrunkTypeOK, PageRows
<1>2. \A l, e : Selectable(l, e) \subseteq Trunks
  BY DEF Selectable
<1>3. PICK row \in RouteRows : \E posted \in SUBSET Selectable(row.loc, row.emergency) :
          /\ route' = [route EXCEPT ![page[q].route] = row]
          /\ links' = [links EXCEPT ![page[q].route] =
                                       posted \union (links[page[q].route] \ page[q].shown)]
  BY DEF PostPage
<1>4. PICK posted \in SUBSET Selectable(row.loc, row.emergency) :
          /\ route' = [route EXCEPT ![page[q].route] = row]
          /\ links' = [links EXCEPT ![page[q].route] =
                                       posted \union (links[page[q].route] \ page[q].shown)]
  BY <1>3
<1>5. page[q].new = (route[page[q].route] = Absent)
  BY DEF PostPage
<1> QED
  BY <1>1, <1>2, <1>3, <1>4, <1>5

\* Every step keeps the types.
LEMMA TypeStep == TrunkTypeOK /\ [TrunkNext]_trunkVars => TrunkTypeOK'
<1> SUFFICES ASSUME TrunkTypeOK, [TrunkNext]_trunkVars PROVE TrunkTypeOK'
  OBVIOUS
<1> USE DEF TrunkTypeOK
<1>1. ASSUME NEW p \in Providers, SaveProvider(p) \/ DeleteProvider(p)
      PROVE  TrunkTypeOK'
  BY <1>1 DEF SaveProvider, DeleteProvider
<1>2. ASSUME NEW t \in Trunks, SaveTrunk(t) \/ DeleteTrunk(t)
      PROVE  TrunkTypeOK'
  BY <1>2 DEF SaveTrunk, DeleteTrunk
<1>3. ASSUME NEW l \in Locations, ChooseEmergencyTrunk(l)
      PROVE  TrunkTypeOK'
  BY <1>3 DEF ChooseEmergencyTrunk, Selectable
<1>4. ASSUME NEW r \in Routes, NEW q \in Pages, OpenPage(q, r)
      PROVE  TrunkTypeOK'
  <2>1. [open |-> TRUE, route |-> r, new |-> ~(route[r] # Absent), shown |-> links[r]] \in PageRows
    BY DEF PageRows
  <2> QED
    BY <1>4, <2>1 DEF OpenPage
<1>5. ASSUME NEW q \in Pages, PostPage(q)
      PROVE  TrunkTypeOK'
  <2>1. PICK r \in Routes, row \in RouteRows : \E posted \in SUBSET Trunks :
            /\ route' = [route EXCEPT ![r] = row]
            /\ links' = [links EXCEPT ![r] = posted \union (links[r] \ page[q].shown)]
    BY <1>5, Posts
  <2>2. PICK posted \in SUBSET Trunks :
            links' = [links EXCEPT ![r] = posted \union (links[r] \ page[q].shown)]
    BY <2>1
  <2>3. route' \in [Routes -> RouteRows \union {Absent}] /\ links' \in [Routes -> SUBSET Trunks]
    BY <2>1, <2>2
  <2>4. page' \in [Pages -> PageRows \union {Closed}]
        /\ UNCHANGED <<provider, trunk, chosen, demoted>>
    BY <1>5 DEF PostPage
  <2> QED
    BY <2>3, <2>4
<1>6. ASSUME NEW q \in Pages, LeavePage(q)
      PROVE  TrunkTypeOK'
  BY <1>6 DEF LeavePage
<1>7. ASSUME NEW r \in Routes, DeleteRoute(r)
      PROVE  TrunkTypeOK'
  BY <1>7 DEF DeleteRoute
<1>8. CASE UNCHANGED trunkVars
  BY <1>8 DEF trunkVars
<1> QED
  BY <1>1, <1>2, <1>3, <1>4, <1>5, <1>6, <1>7, <1>8 DEF TrunkNext

-----------------------------------------------------------------------------
(* References.                                                             *)

\* The steps about one provider, trunk or location leave no reference to nothing.
LEMMA RowsStay ==
    ASSUME TrunkTypeOK, NothingDangles,
           \/ \E p \in Providers : SaveProvider(p) \/ DeleteProvider(p)
           \/ \E t \in Trunks : SaveTrunk(t) \/ DeleteTrunk(t)
           \/ \E l \in Locations : ChooseEmergencyTrunk(l)
    PROVE  NothingDangles'
<1> USE DEF TrunkTypeOK, NothingDangles
<1>1. ASSUME NEW p \in Providers, SaveProvider(p)
      PROVE  NothingDangles'
  BY <1>1 DEF SaveProvider, Types
<1>2. ASSUME NEW p \in Providers, DeleteProvider(p)
      PROVE  NothingDangles'
  <2>1. \A t \in Trunks : trunk[t] # Absent => trunk[t].provider # p
    BY <1>2 DEF DeleteProvider, TrunksOf
  <2> QED
    BY <1>2, <2>1 DEF DeleteProvider
<1>3. ASSUME NEW t \in Trunks, SaveTrunk(t)
      PROVE  NothingDangles'
  <2>1. PICK row \in TrunkRows : TrunkValid(row) /\ trunk' = [trunk EXCEPT ![t] = row]
    BY <1>3 DEF SaveTrunk
  <2>2. trunk'[t] = row /\ \A u \in Trunks \ {t} : trunk'[u] = trunk[u]
    BY <2>1
  <2>3. row # Absent
    BY AbsentRows
  <2>4. \A u \in Trunks : trunk'[u] # Absent => provider[trunk'[u].provider] # "none"
    BY <2>1, <2>2 DEF TrunkValid
  <2>5. \A u \in Trunks : trunk[u] # Absent => trunk'[u] # Absent
    BY <2>2, <2>3
  <2>6. UNCHANGED <<provider, route, links, chosen>>
    BY <1>3 DEF SaveTrunk
  <2>7. \A l \in Locations : chosen[l] # NoTrunk => chosen[l] \in Trunks
    OBVIOUS
  <2> QED
    BY <2>4, <2>5, <2>6, <2>7
<1>4. ASSUME NEW t \in Trunks, DeleteTrunk(t)
      PROVE  NothingDangles'
  <2>1. (\A r \in Routes : t \notin links[r]) /\ (\A l \in Locations : chosen[l] # t)
    BY <1>4 DEF DeleteTrunk, UsersOf
  <2> QED
    BY <1>4, <2>1 DEF DeleteTrunk
<1>5. ASSUME NEW l \in Locations, ChooseEmergencyTrunk(l)
      PROVE  NothingDangles'
  <2>1. PICK t \in Selectable(l, TRUE) \union {NoTrunk} : chosen' = [chosen EXCEPT ![l] = t]
    BY <1>5 DEF ChooseEmergencyTrunk
  <2>2. t # NoTrunk => t \in Trunks /\ trunk[t] # Absent
    BY SelectableRows
  <2> QED
    BY <1>5, <2>1, <2>2 DEF ChooseEmergencyTrunk
<1> QED
  BY <1>1, <1>2, <1>3, <1>4, <1>5

\* So do those about one route.
LEMMA LinksStay ==
    ASSUME TrunkTypeOK, NothingDangles,
           \/ \E r \in Routes : DeleteRoute(r) \/ (\E q \in Pages : OpenPage(q, r))
           \/ \E q \in Pages : PostPage(q) \/ LeavePage(q)
    PROVE  NothingDangles'
<1> USE DEF TrunkTypeOK, NothingDangles
<1>1. ASSUME NEW r \in Routes, DeleteRoute(r)
      PROVE  NothingDangles'
  BY <1>1 DEF DeleteRoute
<1>2. ASSUME UNCHANGED <<provider, trunk, route, links, chosen>>
      PROVE  NothingDangles'
  BY <1>2
<1>3. ASSUME NEW q \in Pages, PostPage(q)
      PROVE  NothingDangles'
  <2>1. PICK r \in Routes, row \in RouteRows : \E posted \in SUBSET Trunks :
            /\ r = page[q].route /\ page[q] \in PageRows
            /\ page[q].new = (route[r] = Absent)
            /\ posted \subseteq Selectable(row.loc, row.emergency)
            /\ route' = [route EXCEPT ![r] = row]
            /\ links' = [links EXCEPT ![r] = posted \union (links[r] \ page[q].shown)]
    BY <1>3, Posts
  <2>2. PICK posted \in SUBSET Trunks :
            /\ posted \subseteq Selectable(row.loc, row.emergency)
            /\ links' = [links EXCEPT ![r] = posted \union (links[r] \ page[q].shown)]
    BY <2>1
  <2>3. UNCHANGED <<provider, trunk, chosen>>
    BY <1>3 DEF PostPage
  <2>4. \A t \in links'[r] : trunk[t] # Absent
    <3>1. \A t \in posted : trunk[t] # Absent
      BY <2>2 DEF Selectable
    <3> QED
      BY <2>2, <3>1
  <2>5. route'[r] # Absent
    BY <2>1, AbsentRows
  <2>6. \A o \in Routes \ {r} : route'[o] = route[o] /\ links'[o] = links[o]
    BY <2>1, <2>2
  <2> QED
    BY <2>3, <2>4, <2>5, <2>6
<1> QED
  BY <1>1, <1>2, <1>3 DEF OpenPage, LeavePage

\* Every step leaves no reference to nothing.
LEMMA DanglesStep == TrunkTypeOK /\ NothingDangles /\ [TrunkNext]_trunkVars => NothingDangles'
<1>1. ASSUME NothingDangles, UNCHANGED trunkVars
      PROVE  NothingDangles'
  BY <1>1 DEF trunkVars, NothingDangles
<1> QED
  BY <1>1, RowsStay, LinksStay DEF TrunkNext

\* Whatever is deleted in which order, with any number of open pages, every reference
\* is to a row that exists.
THEOREM NothingDanglesCorrect == TrunkSpec => []NothingDangles
<1>1. TrunkInit => TrunkTypeOK /\ NothingDangles
  BY TypeInit DEF TrunkInit, NothingDangles
<1>2. TrunkTypeOK /\ NothingDangles /\ [TrunkNext]_trunkVars => TrunkTypeOK' /\ NothingDangles'
  BY TypeStep, DanglesStep
<1> QED
  BY <1>1, <1>2, PTL DEF TrunkSpec

-----------------------------------------------------------------------------
(* Rules that span two rows.                                               *)

\* One page at a time: a posted page checks the links it was rendered with, not those
\* that another one has added since.
OnePage == \A p, q \in Pages : p = q

\* An open page shows all links of its route.
LEMMA ShownStep ==
    ASSUME OnePage, TrunkTypeOK, PageShowsAll, [TrunkNext]_trunkVars
    PROVE  PageShowsAll'
<1> USE DEF TrunkTypeOK, PageShowsAll
<1>1. ASSUME UNCHANGED <<route, links, page>>
      PROVE  PageShowsAll'
  BY <1>1
<1>2. ASSUME NEW r \in Routes, NEW q \in Pages, OpenPage(q, r)
      PROVE  PageShowsAll'
  <2>1. UNCHANGED <<route, links>> /\ \A p \in Pages \ {q} : page'[p] = page[p]
    BY <1>2 DEF OpenPage
  <2>2. page'[q].route = r /\ page'[q].new = ~HasRoute(r) /\ page'[q].shown = links[r]
    BY <1>2 DEF OpenPage
  <2> QED
    BY <2>1, <2>2
<1>3. ASSUME NEW q \in Pages, PostPage(q)
      PROVE  PageShowsAll'
  <2>1. page'[q] = Closed
    BY <1>3 DEF PostPage
  <2> QED
    BY <2>1 DEF OnePage
<1>4. ASSUME NEW q \in Pages, LeavePage(q)
      PROVE  PageShowsAll'
  BY <1>4 DEF LeavePage
<1>5. ASSUME NEW r \in Routes, DeleteRoute(r)
      PROVE  PageShowsAll'
  <2> SUFFICES ASSUME NEW q \in Pages, page'[q] # Closed
               PROVE  /\ page'[q].shown = links'[page'[q].route]
                      /\ page'[q].new = ~HasRoute(page[q].route)'
    BY <1>5 DEF DeleteRoute
  <2>1. /\ page'[q] = page[q] /\ page[q] # Closed
        /\ page[q].route = r => page[q].new
    BY <1>5 DEF DeleteRoute
  <2>2. page[q].route # r
    BY <1>5, <2>1 DEF DeleteRoute
  <2>3. page[q].route \in Routes
    BY <2>1 DEF PageRows
  <2>4. route'[page[q].route] = route[page[q].route]
        /\ links'[page[q].route] = links[page[q].route]
    BY <1>5, <2>2, <2>3 DEF DeleteRoute
  <2> QED
    BY <2>1, <2>4
<1> QED
  BY <1>1, <1>2, <1>3, <1>4, <1>5
     DEF TrunkNext, trunkVars, SaveProvider, DeleteProvider, SaveTrunk, DeleteTrunk,
         ChooseEmergencyTrunk

\* No step but an edit of a trunk makes a link or a choice that breaks a rule.
LEMMA RulesStep ==
    ASSUME OnePage, TrunkTypeOK, NothingDangles, PageShowsAll, OnlyTrunkEditsBreakRules,
           [TrunkNext]_trunkVars
    PROVE  OnlyTrunkEditsBreakRules'
<1> USE DEF TrunkTypeOK, OnlyTrunkEditsBreakRules, LinkClean
<1>1. ASSUME UNCHANGED <<trunk, route, links, chosen, demoted>>
      PROVE  OnlyTrunkEditsBreakRules'
  BY <1>1
<1>2. ASSUME NEW t \in Trunks, SaveTrunk(t)
      PROVE  OnlyTrunkEditsBreakRules'
  <2>1. UNCHANGED <<route, links, chosen>> /\ \A u \in Trunks \ {t} : trunk'[u] = trunk[u]
    BY <1>2 DEF SaveTrunk
  <2>2. demoted \subseteq demoted' /\ (UsersOf(t) # {} => t \in demoted')
    BY <1>2 DEF SaveTrunk
  <2>3. ASSUME NEW r \in Routes, NEW u \in links[r]
        PROVE  LinkClean(r, u)' \/ u \in demoted'
    <3>1. CASE u = t
      BY <2>2, <3>1 DEF UsersOf
    <3>2. CASE u # t
      BY <2>1, <2>2, <3>2
    <3> QED
      BY <3>1, <3>2
  <2>4. ASSUME NEW l \in Locations, chosen[l] # NoTrunk
        PROVE  \/ trunk'[chosen[l]].loc = l /\ trunk'[chosen[l]].capable
               \/ chosen[l] \in demoted'
    <3>1. CASE chosen[l] = t
      BY <2>2, <3>1 DEF UsersOf
    <3>2. CASE chosen[l] # t
      BY <2>1, <2>2, <2>4, <3>2
    <3> QED
      BY <3>1, <3>2
  <2> QED
    BY <2>1, <2>3, <2>4
<1>3. ASSUME NEW t \in Trunks, DeleteTrunk(t)
      PROVE  OnlyTrunkEditsBreakRules'
  <2>1. (\A r \in Routes : t \notin links[r]) /\ (\A l \in Locations : chosen[l] # t)
    BY <1>3 DEF DeleteTrunk, UsersOf
  <2>2. /\ UNCHANGED <<route, links, chosen>> /\ \A u \in Trunks \ {t} : trunk'[u] = trunk[u]
        /\ demoted' = demoted \ {t}
    BY <1>3 DEF DeleteTrunk
  <2> QED
    BY <2>1, <2>2
<1>4. ASSUME NEW l \in Locations, ChooseEmergencyTrunk(l)
      PROVE  OnlyTrunkEditsBreakRules'
  <2>1. PICK t \in Selectable(l, TRUE) \union {NoTrunk} : chosen' = [chosen EXCEPT ![l] = t]
    BY <1>4 DEF ChooseEmergencyTrunk
  <2>2. t # NoTrunk => trunk[t].loc = l /\ trunk[t].capable
    BY SelectableRows
  <2>3. UNCHANGED <<trunk, route, links, demoted>>
    BY <1>4 DEF ChooseEmergencyTrunk
  <2>4. \A m \in Locations : chosen'[m] = IF m = l THEN t ELSE chosen[m]
    BY <2>1
  <2> QED
    BY <2>2, <2>3, <2>4
<1>5. ASSUME NEW q \in Pages, PostPage(q)
      PROVE  OnlyTrunkEditsBreakRules'
  <2>1. PICK r \in Routes, row \in RouteRows : \E posted \in SUBSET Trunks :
            /\ r = page[q].route /\ page[q] \in PageRows
            /\ page[q].new = (route[r] = Absent)
            /\ posted \subseteq Selectable(row.loc, row.emergency)
            /\ route' = [route EXCEPT ![r] = row]
            /\ links' = [links EXCEPT ![r] = posted \union (links[r] \ page[q].shown)]
    BY <1>5, Posts
  <2>2. PICK posted \in SUBSET Trunks :
            /\ posted \subseteq Selectable(row.loc, row.emergency)
            /\ links' = [links EXCEPT ![r] = posted \union (links[r] \ page[q].shown)]
    BY <2>1
  <2>3. page[q].shown = links[r]
    BY <1>5, <2>1 DEF PageShowsAll, PostPage
  <2>4. links'[r] = posted /\ route'[r] = row
    BY <2>1, <2>2, <2>3
  <2>5. \A o \in Routes \ {r} : route'[o] = route[o] /\ links'[o] = links[o]
    BY <2>1, <2>2
  <2>6. UNCHANGED <<trunk, chosen, demoted>>
    BY <1>5 DEF PostPage
  <2>7. \A t \in posted : trunk[t].loc = row.loc /\ (row.emergency => trunk[t].capable)
    BY <2>2 DEF Selectable
  <2> QED
    BY <2>4, <2>5, <2>6, <2>7
<1>6. ASSUME NEW r \in Routes, DeleteRoute(r)
      PROVE  OnlyTrunkEditsBreakRules'
  <2>1. links'[r] = {} /\ \A o \in Routes \ {r} : route'[o] = route[o] /\ links'[o] = links[o]
    BY <1>6 DEF DeleteRoute
  <2>2. UNCHANGED <<trunk, chosen, demoted>>
    BY <1>6 DEF DeleteRoute
  <2> QED
    BY <2>1, <2>2
<1> QED
  BY <1>1, <1>2, <1>3, <1>4, <1>5, <1>6
     DEF TrunkNext, trunkVars, SaveProvider, DeleteProvider, OpenPage, LeavePage

\* With one page of a route open at a time no reference dangles, and a link or a choice
\* that breaks a rule had a trunk that was edited afterwards.
THEOREM TrunkRulesCorrect == ASSUME OnePage PROVE TrunkSpec => []TrunkRules
<1>1. TrunkInit => TrunkRules
  BY TypeInit DEF TrunkInit, TrunkRules, NothingDangles, OnlyTrunkEditsBreakRules, PageShowsAll
<1>2. TrunkRules /\ [TrunkNext]_trunkVars => TrunkRules'
  BY TypeStep, DanglesStep, ShownStep, RulesStep DEF TrunkRules
<1> QED
  BY <1>1, <1>2, PTL DEF TrunkSpec
-----------------------------------------------------------------------------
\* A set of naturals that is not empty has a least element: the intervals below its
\* elements have one that is included in no other's.
LEMMA LeastNat ==
    ASSUME NEW T, T \subseteq Nat, T # {}
    PROVE  \E m \in T : \A k \in T : m <= k
<1> DEFINE below == {1..k : k \in T}
<1>1. below \subseteq FiniteSubsetsOf(Nat) /\ below # {}
  <2>1. ASSUME NEW k \in T PROVE 1..k \in FiniteSubsetsOf(Nat)
    <3>1. k \in Int /\ 1 \in Int /\ 1..k \subseteq Nat
      OBVIOUS
    <3> QED
      BY <3>1, FS_Interval DEF FiniteSubsetsOf
  <2> QED
    BY <2>1
<1>2. \E b \in below : \A c \in below : ~ (<<c, b>> \in StrictSubsetOrdering(Nat))
  <2> HIDE DEF below
  <2> QED
    BY ONLY <1>1, FS_StrictSubsetOrderingWellFounded, WFMin
<1>3. PICK m \in T : \A k \in T : ~ (<<1..k, 1..m>> \in StrictSubsetOrdering(Nat))
  BY <1>2
<1>4. ASSUME NEW k \in T PROVE m <= k
  <2>1. m \in Nat /\ k \in Nat
    OBVIOUS
  <2>2. 1..k \in FiniteSubsetsOf(Nat) /\ 1..m \in FiniteSubsetsOf(Nat)
    BY <1>1
  <2>3. SUFFICES ASSUME k < m PROVE FALSE
    BY <2>1
  <2>4. 1..k \subseteq 1..m /\ m \in 1..m /\ m \notin 1..k
    BY <2>1, <2>3
  <2> QED
    BY <1>3, <2>2, <2>4 DEF StrictSubsetOrdering, FiniteSubsetsOf
<1> QED
  BY <1>4

\* Induction over the naturals up to n, for a set of them.
LEMMA UpTo ==
    ASSUME NEW n \in Nat, NEW T, 0 \in T, \A k \in 0..(n - 1) : k \in T => k + 1 \in T
    PROVE  0..n \subseteq T
<1> DEFINE bad == (0..n) \ T
<1>1. SUFFICES ASSUME bad # {} PROVE FALSE
  OBVIOUS
<1>2. bad \subseteq Nat
  OBVIOUS
<1>3. PICK m \in bad : \A k \in bad : m <= k
  <2> HIDE DEF bad
  <2> QED
    BY <1>1, <1>2, LeastNat
<1>4. m - 1 \in 0..(n - 1) /\ m - 1 \in T
  BY <1>3
<1> QED
  BY <1>3, <1>4

-----------------------------------------------------------------------------
(* The trunks of a route.                                                  *)

\* A sequence has the trunks at these places, in their order.
InOrder(trunks, s, places) ==
    \A k, l \in DOMAIN s : k < l =>
       \E i, j \in places : i < j /\ s[k] = trunks[i] /\ s[l] = trunks[j]

\* The active ones of the first n links of a route, as a relation.
Selects(c, trunks, s, n) ==
    LET up == {k \in 1..n : c.trunk[trunks[k]]} IN
    /\ s \in Seq({trunks[k] : k \in DOMAIN trunks})
    /\ {s[k] : k \in DOMAIN s} = {trunks[k] : k \in up}
    /\ InOrder(trunks, s, up)

\* The trunks that a route is written with are the active ones of all its links.
LEMMA TrunksInOrder ==
    ASSUME NEW c, NEW r, IsSequence(r.trunks)
    PROVE  Selects(c, r.trunks, ActiveTrunks(c, r), Len(r.trunks))
<1> DEFINE t == r.trunks
           N == Len(r.trunks)
           S == {t[k] : k \in DOMAIN t}
           Step(before, k) == IF c.trunk[t[k]] THEN Append(before, t[k]) ELSE before
           Is(f, n) == f = [k \in 0..n |-> IF k = 0 THEN << >> ELSE Step(f[k - 1], k)]
           T == {n \in 0..N : \E f : Is(f, n)}
<1>1. t \in Seq(S) /\ N \in Nat /\ DOMAIN t = 1..N
  BY DEF IsSequence
<1>2. ActiveTrunks(c, r) = (CHOOSE f : Is(f, N))[N]
  BY DEF ActiveTrunks
<1> HIDE DEF Step
<1>3. 0 \in T
  <2>1. Is([k \in 0..0 |-> << >>], 0)
    OBVIOUS
  <2>2. 0 \in 0..N
    BY <1>1
  <2> HIDE DEF Is
  <2> QED
    BY <2>1, <2>2
<1>4. ASSUME NEW n \in 0..(N - 1), n \in T PROVE n + 1 \in T
  <2>1. PICK f : Is(f, n)
    BY <1>4
  <2> DEFINE g == [k \in 0..(n + 1) |-> IF k = n + 1 THEN Step(f[n], n + 1) ELSE f[k]]
  <2>2. ASSUME NEW k \in 0..(n + 1) PROVE g[k] = IF k = 0 THEN << >> ELSE Step(g[k - 1], k)
    <3>1. CASE k = n + 1
      BY <1>1, <3>1
    <3>2. CASE k # n + 1
      <4>1. k \in 0..n /\ (k # 0 => k - 1 \in 0..n)
        BY <1>1, <3>2
      <4>2. g[k] = f[k] /\ (k # 0 => g[k - 1] = f[k - 1])
        BY <1>1, <4>1
      <4>3. f[k] = IF k = 0 THEN << >> ELSE Step(f[k - 1], k)
        BY <2>1, <4>1
      <4> QED
        BY <4>2, <4>3
    <3> QED
      BY <3>1, <3>2
  <2>3. Is(g, n + 1)
    <3>1. g = [k \in 0..(n + 1) |-> g[k]]
      OBVIOUS
    <3> HIDE DEF g
    <3> QED
      BY <2>2, <3>1
  <2>4. n + 1 \in 0..N
    BY <1>1
  <2> HIDE DEF Is, g
  <2> QED
    BY <2>3, <2>4
<1>5. 0..N \subseteq T
  <2> HIDE DEF T, N
  <2> QED
    BY <1>1, <1>3, <1>4, UpTo
<1>6. PICK f : Is(f, N) /\ ActiveTrunks(c, r) = f[N]
  <2>1. \E f : Is(f, N)
    BY <1>1, <1>5
  <2> HIDE DEF Is
  <2> QED
    BY <1>2, <2>1
<1> DEFINE R == {n \in 0..N : Selects(c, t, f[n], n)}
<1>7. 0 \in R
  <2>1. f[0] = << >> /\ 0 \in 0..N /\ {k \in 1..0 : c.trunk[t[k]]} = {}
    BY <1>1, <1>6
  <2>2. Selects(c, t, << >>, 0)
    <3>1. << >> \in Seq(S) /\ DOMAIN << >> = {}
      OBVIOUS
    <3>2. InOrder(t, << >>, {})
      BY <3>1 DEF InOrder
    <3> QED
      BY <2>1, <3>1, <3>2 DEF Selects
  <2> QED
    BY <2>1, <2>2
<1>8. ASSUME NEW n \in 0..(N - 1), n \in R PROVE n + 1 \in R
  <2> DEFINE s == f[n]
             u == f[n + 1]
             up == {k \in 1..n : c.trunk[t[k]]}
             next == {k \in 1..(n + 1) : c.trunk[t[k]]}
  <2>1. n \in Nat /\ n + 1 \in 0..N /\ n + 1 \in DOMAIN t /\ n + 1 - 1 = n
    BY <1>1
  <2>2. s \in Seq(S) /\ {s[k] : k \in DOMAIN s} = {t[k] : k \in up} /\ InOrder(t, s, up)
    BY <1>8 DEF Selects
  <2>3. u = IF c.trunk[t[n + 1]] THEN Append(s, t[n + 1]) ELSE s
    <3>1. f[n + 1] = Step(f[n], n + 1)
      BY <1>6, <2>1
    <3> QED
      BY <3>1 DEF Step
  <2> HIDE DEF s, u
  <2>4. CASE ~c.trunk[t[n + 1]]
    <3>1. next = up /\ u = s
      BY <2>1, <2>3, <2>4
    <3> HIDE DEF up, next
    <3> QED
      BY <2>1, <2>2, <3>1 DEF Selects, u, next
  <2>5. CASE c.trunk[t[n + 1]]
    <3>1. next = up \union {n + 1} /\ u = Append(s, t[n + 1]) /\ t[n + 1] \in S
      BY <2>1, <2>3, <2>5
    <3>2. /\ u \in Seq(S) /\ Len(u) = Len(s) + 1 /\ Len(s) \in Nat
          /\ DOMAIN u = 1..(Len(s) + 1) /\ DOMAIN s = 1..Len(s)
          /\ u[Len(s) + 1] = t[n + 1] /\ \A k \in DOMAIN s : u[k] = s[k]
      <4> HIDE DEF S
      <4>1. s \in Seq(S) /\ t[n + 1] \in S
        BY <2>2, <3>1
      <4> QED
        BY <3>1, <4>1
    <3>3. {u[k] : k \in DOMAIN u} = {t[k] : k \in next}
      <4>1. {u[k] : k \in DOMAIN u} = {s[k] : k \in DOMAIN s} \union {t[n + 1]}
        BY <3>2
      <4>2. {t[k] : k \in next} = {t[k] : k \in up} \union {t[n + 1]}
        BY <3>1
      <4> QED
        BY <2>2, <4>1, <4>2
    <3>4. ASSUME NEW k \in DOMAIN u, NEW l \in DOMAIN u, k < l
          PROVE  \E i, j \in next : i < j /\ u[k] = t[i] /\ u[l] = t[j]
      <4>1. CASE l \in DOMAIN s
        <5>1. k \in DOMAIN s
          BY <3>2, <3>4, <4>1
        <5>2. u[k] = s[k] /\ u[l] = s[l] /\ up \subseteq next
          BY <3>1, <3>2, <4>1, <5>1
        <5> HIDE DEF up, next
        <5> QED
          BY <2>2, <3>4, <4>1, <5>1, <5>2 DEF InOrder
      <4>2. CASE l \notin DOMAIN s
        <5>1. k \in DOMAIN s /\ l = Len(s) + 1
          BY <3>2, <3>4, <4>2
        <5>2. PICK i \in up : s[k] = t[i]
          <6> HIDE DEF up
          <6> QED
            BY <2>2, <5>1
        <5>3. i \in next /\ n + 1 \in next /\ i < n + 1
          BY <2>1, <3>1
        <5> HIDE DEF up, next
        <5> QED
          BY <3>2, <5>1, <5>2, <5>3
      <4> QED
        BY <4>1, <4>2
    <3> HIDE DEF next
    <3>5. InOrder(t, u, next)
      BY <3>4 DEF InOrder
    <3> QED
      BY <2>1, <3>2, <3>3, <3>5 DEF Selects, u, next
  <2> QED
    BY <2>4, <2>5
<1>9. 0..N \subseteq R
  <2> HIDE DEF R, N
  <2> QED
    BY <1>1, <1>7, <1>8, UpTo
<1>10. N \in R
  <2> HIDE DEF R, N
  <2> QED
    BY <1>1, <1>9
<1> QED
  BY <1>6, <1>10

-----------------------------------------------------------------------------
(* The lines of the plan.                                                  *)

\* The applications that leave the number of the caller alone and lead nowhere else.
Quiet == {"record", "dial", "playback", "hangup"}

\* All but those that set the number of the caller.
Plain == Quiet \union {"goto", "if-business-hours", "wait-digit", "voicemail",
                       "voicemail-main", "page", "pickup", "park"}

\* A sequence of lines with these applications.
LinesOf(s, apps) == IsSequence(s) /\ \A k \in DOMAIN s : s[k].app \in apps

\* The numbers that a route may present to its provider.
RouteNumbers(c) == {c.defaultDid, c.emergencyId} \union {c.route[n].number : n \in DOMAIN c.route}

\* After the number of the caller is set, if it is, there are only quiet lines.
Decent(c, s) ==
    /\ IsSequence(s)
    /\ \A k \in DOMAIN s :
          /\ s[k].app \in Plain \union {"caller-id", "caller-id-of"}
          /\ s[k].app = "caller-id" => s[k].arg \in RouteNumbers(c)
          /\ s[k].app \notin Plain => \A m \in DOMAIN s : k < m => s[m].app \in Quiet

\* A sequence is a function on 1..Len, whatever set its elements are taken from.
LEMMA SequenceIs ==
    ASSUME NEW s
    PROVE  /\ IsSequence(s) => Len(s) \in Nat /\ DOMAIN s = 1..Len(s)
           /\ \A S : s \in Seq(S) => IsSequence(s)
<1>1. ASSUME IsSequence(s) PROVE Len(s) \in Nat /\ DOMAIN s = 1..Len(s)
  BY <1>1 DEF IsSequence
<1>2. ASSUME NEW S, s \in Seq(S) PROVE IsSequence(s)
  <2> DEFINE R == {s[k] : k \in DOMAIN s}
  <2>1. Len(s) \in Nat /\ DOMAIN s = 1..Len(s) /\ s = [k \in 1..Len(s) |-> s[k]]
    BY <1>2
  <2>2. \A k \in 1..Len(s) : s[k] \in R
    BY <2>1
  <2> HIDE DEF R
  <2>3. [k \in 1..Len(s) |-> s[k]] \in Seq(R)
    BY <2>1, <2>2
  <2> QED
    BY <2>1, <2>3 DEF IsSequence, R
<1> QED
  BY <1>1, <1>2

\* The elements of two sequences that are joined, and where they are.
LEMMA Joined ==
    ASSUME NEW s, NEW t, IsSequence(s), IsSequence(t)
    PROVE  /\ IsSequence(s \o t) /\ Len(s \o t) = Len(s) + Len(t)
           /\ DOMAIN (s \o t) = 1..(Len(s) + Len(t))
           /\ \A k \in DOMAIN s : k \in DOMAIN (s \o t) /\ (s \o t)[k] = s[k]
           /\ \A k \in DOMAIN (s \o t) :
                 \/ k \in DOMAIN s /\ (s \o t)[k] = s[k]
                 \/ /\ k > Len(s) /\ k - Len(s) \in DOMAIN t
                    /\ (s \o t)[k] = t[k - Len(s)]
<1> DEFINE S == {s[k] : k \in DOMAIN s} \union {t[k] : k \in DOMAIN t}
<1>1. s \in Seq(S) /\ t \in Seq(S)
  <2>1. s \in Seq({s[k] : k \in DOMAIN s}) /\ t \in Seq({t[k] : k \in DOMAIN t})
    BY DEF IsSequence
  <2>2. {s[k] : k \in DOMAIN s} \subseteq S /\ {t[k] : k \in DOMAIN t} \subseteq S
    OBVIOUS
  <2> HIDE DEF S
  <2> QED
    BY <2>1, <2>2
<1> HIDE DEF S
<1>2. s \o t \in Seq(S) /\ Len(s) \in Nat /\ Len(t) \in Nat
      /\ DOMAIN s = 1..Len(s) /\ DOMAIN t = 1..Len(t)
  BY <1>1
<1>3. IsSequence(s \o t)
  BY <1>2, SequenceIs
<1>4. Len(s \o t) = Len(s) + Len(t) /\ DOMAIN (s \o t) = 1..(Len(s) + Len(t))
  BY <1>1, <1>2
<1>5. ASSUME NEW k \in DOMAIN (s \o t)
      PROVE  (s \o t)[k] = IF k <= Len(s) THEN s[k] ELSE t[k - Len(s)]
  BY <1>1, <1>2, <1>4
<1> QED
  BY <1>2, <1>3, <1>4, <1>5

\* Sequences with the same elements, and three that are joined.
LEMMA SameSequence ==
    ASSUME NEW s, NEW t, IsSequence(s), IsSequence(t), Len(s) = Len(t),
           \A k \in 1..Len(s) : s[k] = t[k]
    PROVE  s = t
<1>1. s \in Seq({s[k] : k \in DOMAIN s}) /\ t \in Seq({t[k] : k \in DOMAIN t})
  BY DEF IsSequence
<1>2. s = [k \in 1..Len(s) |-> s[k]] /\ t = [k \in 1..Len(t) |-> t[k]]
  BY <1>1
<1> QED
  BY <1>2

\* Of three sequences it does not matter which two are joined first.
LEMMA Associative ==
    ASSUME NEW s, NEW t, NEW u, IsSequence(s), IsSequence(t), IsSequence(u)
    PROVE  s \o t \o u = s \o (t \o u)
<1> DEFINE S == {s[k] : k \in DOMAIN s} \union {t[k] : k \in DOMAIN t}
                \union {u[k] : k \in DOMAIN u}
<1>1. /\ {s[k] : k \in DOMAIN s} \subseteq S /\ {t[k] : k \in DOMAIN t} \subseteq S
      /\ {u[k] : k \in DOMAIN u} \subseteq S
  OBVIOUS
<1>2. /\ s \in Seq({s[k] : k \in DOMAIN s}) /\ t \in Seq({t[k] : k \in DOMAIN t})
      /\ u \in Seq({u[k] : k \in DOMAIN u})
  BY DEF IsSequence
<1> HIDE DEF S
<1>3. s \in Seq(S) /\ t \in Seq(S) /\ u \in Seq(S)
  BY <1>1, <1>2
<1> QED
  BY <1>3

\* Lines with some applications stay such lines when they are joined.
LEMMA JoinedLines ==
    ASSUME NEW apps, NEW s, NEW t, LinesOf(s, apps), LinesOf(t, apps)
    PROVE  LinesOf(s \o t, apps)
<1>1. IsSequence(s) /\ \A k \in DOMAIN s : s[k].app \in apps
  BY DEF LinesOf
<1>2. IsSequence(t) /\ \A k \in DOMAIN t : t[k].app \in apps
  BY DEF LinesOf
<1> DEFINE u == s \o t
<1>3. /\ IsSequence(u)
      /\ \A k \in DOMAIN u : \/ k \in DOMAIN s /\ u[k] = s[k]
                             \/ k - Len(s) \in DOMAIN t /\ u[k] = t[k - Len(s)]
  BY ONLY <1>1, <1>2, Joined
<1> HIDE DEF u
<1>4. \A k \in DOMAIN u : u[k].app \in apps
  BY ONLY <1>1, <1>2, <1>3
<1>5. LinesOf(u, apps)
  BY ONLY <1>3, <1>4 DEF LinesOf
<1> QED
  BY <1>5 DEF u

\* A single line as a sequence.
LEMMA OneLine ==
    ASSUME NEW app, NEW arg
    PROVE  LET s == <<Line(app, arg)>> IN
           /\ IsSequence(s) /\ Len(s) = 1 /\ DOMAIN s = 1..1 /\ s[1] = Line(app, arg)
           /\ s[1].app = app /\ s[1].arg = arg
           /\ \A apps : app \in apps => LinesOf(s, apps)
<1> DEFINE s == <<Line(app, arg)>>
<1>1. s \in Seq({Line(app, arg)}) /\ Len(s) = 1 /\ DOMAIN s = 1..1 /\ s[1] = Line(app, arg)
  OBVIOUS
<1>2. Line(app, arg).app = app /\ Line(app, arg).arg = arg
  BY DEF Line
<1>3. IsSequence(s)
  <2> HIDE DEF s
  <2> QED
    BY <1>1, SequenceIs
<1> HIDE DEF s
<1>4. \A apps : app \in apps => LinesOf(s, apps)
  BY <1>1, <1>2, <1>3 DEF LinesOf
<1> QED
  BY <1>1, <1>2, <1>3, <1>4 DEF s

\* No line as a sequence.
LEMMA NoLine ==
    ASSUME NEW apps
    PROVE  LinesOf(<< >>, apps) /\ IsSequence(<< >>) /\ Len(<< >>) = 0
<1>1. << >> \in Seq({}) /\ Len(<< >>) = 0 /\ DOMAIN << >> = {}
  OBVIOUS
<1> QED
  BY <1>1, SequenceIs DEF LinesOf

\* Lines that do not set the number of the caller need not be in any order.
LEMMA PlainIsDecent ==
    ASSUME NEW c, NEW s, LinesOf(s, Plain)
    PROVE  Decent(c, s)
BY DEF LinesOf, Decent, Plain, Quiet

\* The applications of the pieces that the lines are put together from.
LEMMA Pieces ==
    /\ LinesOf(Hangup, Quiet) /\ LinesOf(Playback, Quiet)
    /\ \A on, what : LinesOf(RecordHook(on, what), Quiet)
    /\ \A context, exten : LinesOf(Goto(context, exten), Plain)
    /\ \A d : LinesOf(DestinationApp(d), Plain)
    /\ \A s : LinesOf(s, Quiet) => LinesOf(s, Plain)
<1>1. LinesOf(Hangup, Quiet) /\ LinesOf(Playback, Quiet)
  BY OneLine DEF Hangup, Playback, Quiet
<1>2. \A on, what : LinesOf(RecordHook(on, what), Quiet)
  BY OneLine, NoLine DEF RecordHook, Quiet
<1>3. \A context, exten : LinesOf(Goto(context, exten), Plain)
  BY OneLine DEF Goto, Plain
<1>4. \A s : LinesOf(s, Quiet) => LinesOf(s, Plain)
  BY DEF LinesOf, Plain
<1>5. \A d : LinesOf(DestinationApp(d), Plain)
  BY <1>1, <1>3, <1>4 DEF DestinationApp
<1> QED
  BY <1>1, <1>2, <1>3, <1>4, <1>5

\* An entry of another context than those of emergency calls and of phones, with plain
\* lines.
Elsewhere(n) ==
    /\ LinesOf(n.lines, Plain)
    /\ n.context \notin {Named("emergency"), Named("from-pjsip")}

\* The names of the contexts are different.
LEMMA Contexts ==
    /\ \A name \in {"local-extensions", "remote-extensions", "inbound", "outbound", "voicemail",
                    "paging", "feature-codes", "ivrs", "ring-groups", "queues"} :
          Named(name) \notin {Named("emergency"), Named("from-pjsip")}
    /\ \A name : IvrContext(name) \notin {Named("emergency"), Named("from-pjsip")}
    /\ Named("emergency") # Named("from-pjsip") /\ Named("from-iax2") # Named("from-pjsip")
BY DEF Named, IvrContext

\* The fields of an entry.
LEMMA EntryIs ==
    ASSUME NEW context, NEW match, NEW only, NEW lines
    PROVE  LET n == Entry(context, match, only, lines) IN
           n.context = context /\ n.match = match /\ n.only = only /\ n.lines = lines
BY DEF Entry

\* An exten of another context, of plain lines.
LEMMA ExtenElsewhere ==
    ASSUME NEW context, NEW exten, NEW lines, LinesOf(lines, Plain),
           context \notin {Named("emergency"), Named("from-pjsip")}
    PROVE  Elsewhere(Exten(context, exten, lines))
BY EntryIs DEF Exten, Elsewhere

\* The extens of extensions, DIDs, codes, ring groups and queues.
LEMMA ExtensElsewhere ==
    ASSUME ConfigsAssumption, NEW c \in Configs,
           NEW n \in LocalExtensions(c) \union RemoteExtensions(c) \union Inbound(c)
                    \union Voicemail(c) \union Paging(c) \union FeatureCodes(c)
                    \union RingGroups(c) \union Queues(c)
    PROVE  Elsewhere(n)
<1>1. ASSUME NEW app \in Plain, NEW arg PROVE LinesOf(<<Line(app, arg)>>, Plain)
  BY OneLine
<1>2. LinesOf(Hangup, Plain) /\ LinesOf(Playback, Plain) /\ LinesOf(<< >>, Plain)
      /\ \A on, what : LinesOf(RecordHook(on, what), Plain)
  BY Pieces, NoLine
<1>3. \A s, t : LinesOf(s, Plain) /\ LinesOf(t, Plain) => LinesOf(s \o t, Plain)
  BY JoinedLines
<1>4. {"dial", "voicemail", "voicemail-main", "page", "pickup", "park"} \subseteq Plain
  BY DEF Plain, Quiet
<1>5. CASE n \in LocalExtensions(c)
  <2>1. PICK e \in ActiveRows(c.ext) :
           n = Exten(Named("local-extensions"), e,
                     RecordHook(c.ext[e].record, <<"extension", e>>)
                     \o <<Line("dial", {<<"extension", e>>})>>
                     \o (IF c.ext[e].voicemail THEN <<Line("voicemail", e)>> ELSE << >>)
                     \o Hangup)
    BY <1>5 DEF LocalExtensions
  <2> DEFINE mail == IF c.ext[e].voicemail THEN <<Line("voicemail", e)>> ELSE << >>
  <2>2. LinesOf(mail, Plain) /\ LinesOf(<<Line("dial", {<<"extension", e>>})>>, Plain)
    BY <1>1, <1>2, <1>4
  <2> HIDE DEF mail
  <2>3. LinesOf(RecordHook(c.ext[e].record, <<"extension", e>>)
                \o <<Line("dial", {<<"extension", e>>})>> \o mail \o Hangup, Plain)
    BY <1>2, <1>3, <2>2
  <2> QED
    BY <2>1, <2>3, ExtenElsewhere, Contexts DEF mail
<1>6. CASE n \in RemoteExtensions(c)
  <2>1. PICK e \in c.remote : n = Exten(Named("remote-extensions"), e,
                                         <<Line("dial", {<<"remote", e>>})>> \o Hangup)
    BY <1>6 DEF RemoteExtensions
  <2>2. LinesOf(<<Line("dial", {<<"remote", e>>})>> \o Hangup, Plain)
    BY <1>1, <1>2, <1>3, <1>4
  <2> QED
    BY <2>1, <2>2, ExtenElsewhere, Contexts
<1>7. CASE n \in Inbound(c)
  <2>1. PICK exten, d : n = Exten(Named("inbound"), exten, DestinationApp(d))
    BY <1>7 DEF Inbound
  <2> QED
    BY <2>1, Pieces, ExtenElsewhere, Contexts
<1>8. CASE n \in Voicemail(c)
  <2>1. PICK exten : n = Exten(Named("voicemail"), exten,
                               <<Line("voicemail-main", Nothing)>> \o Hangup)
    BY <1>8 DEF Voicemail
  <2>2. LinesOf(<<Line("voicemail-main", Nothing)>> \o Hangup, Plain)
    BY <1>1, <1>2, <1>3, <1>4
  <2> QED
    BY <2>1, <2>2, ExtenElsewhere, Contexts
<1>9. CASE n \in Paging(c)
  <2>1. PICK p : n = Exten(Named("paging"), p, <<Line("page", c.page[p].members)>> \o Hangup)
    BY <1>9 DEF Paging
  <2>2. LinesOf(<<Line("page", c.page[p].members)>> \o Hangup, Plain)
    BY <1>1, <1>2, <1>3, <1>4
  <2> QED
    BY <2>1, <2>2, ExtenElsewhere, Contexts
<1>10. CASE n \in FeatureCodes(c)
  <2>1. PICK exten : n = Exten(Named("feature-codes"), exten, FeatureLines(c.code[exten]) \o Hangup)
    BY <1>10 DEF FeatureCodes
  <2>2. LinesOf(FeatureLines(c.code[exten]), Plain)
    BY <1>1, <1>4, Pieces DEF FeatureLines
  <2>3. LinesOf(FeatureLines(c.code[exten]) \o Hangup, Plain)
    BY <1>2, <1>3, <2>2
  <2> QED
    BY <2>1, <2>3, ExtenElsewhere, Contexts
<1>11. CASE n \in RingGroups(c)
  <2>1. PICK g \in ActiveRows(c.group) :
           n = Exten(Named("ring-groups"), g,
                     (IF c.group[g].hunt THEN HuntLines(c.group[g].members)
                      ELSE <<Line("dial", RingTargets(c, g))>>) \o Hangup)
    BY <1>11 DEF RingGroups
  <2>2. LinesOf(HuntLines(c.group[g].members), Plain)
    <3> DEFINE m == c.group[g].members
               h == HuntLines(m)
    <3>1. IsSequence(m)
      BY DEF ConfigsAssumption, ActiveRows
    <3>2. Len(m) \in Nat /\ DOMAIN m = 1..Len(m)
      BY <3>1, SequenceIs
    <3>3. h = [k \in 1..Len(m) |-> Line("dial", {<<"extension", m[k]>>})]
      BY <3>2 DEF HuntLines
    <3>4. \A k \in 1..Len(m) : h[k].app = "dial"
      BY <3>3 DEF Line
    <3> HIDE DEF m
    <3>5. h \in Seq({h[k] : k \in 1..Len(m)}) /\ DOMAIN h = 1..Len(m)
      BY <3>2, <3>3
    <3> HIDE DEF h
    <3>6. LinesOf(h, Plain)
      BY <1>4, <3>4, <3>5, SequenceIs DEF LinesOf
    <3> QED
      BY <3>6 DEF h, m
  <2>3. LinesOf(<<Line("dial", RingTargets(c, g))>>, Plain)
    BY <1>1, <1>4
  <2> DEFINE ring == IF c.group[g].hunt THEN HuntLines(c.group[g].members)
                     ELSE <<Line("dial", RingTargets(c, g))>>
  <2>4. LinesOf(ring, Plain)
    BY <2>2, <2>3
  <2> HIDE DEF ring
  <2>5. LinesOf(ring \o Hangup, Plain)
    BY <1>2, <1>3, <2>4
  <2> QED
    BY <2>1, <2>5, ExtenElsewhere, Contexts DEF ring
<1>12. CASE n \in Queues(c)
  <2>1. PICK q \in ActiveRows(c.queue) :
           n = Exten(Named("queues"), q,
                     RecordHook(c.queue[q].record, <<"queue", q>>)
                     \o <<Line("dial", {<<"extension", e>> : e \in c.queue[q].members})>>
                     \o (IF c.queue[q].overflow = Nothing THEN << >>
                         ELSE DestinationApp(c.queue[q].overflow))
                     \o Hangup)
    BY <1>12 DEF Queues
  <2> DEFINE over == IF c.queue[q].overflow = Nothing THEN << >>
                     ELSE DestinationApp(c.queue[q].overflow)
             all == {<<"extension", e>> : e \in c.queue[q].members}
  <2>2. LinesOf(over, Plain)
    BY <1>2, Pieces
  <2>3. LinesOf(<<Line("dial", all)>>, Plain)
    BY <1>1, <1>4
  <2> HIDE DEF over, all
  <2>4. LinesOf(RecordHook(c.queue[q].record, <<"queue", q>>) \o <<Line("dial", all)>>
                \o over \o Hangup, Plain)
    BY <1>2, <1>3, <2>2, <2>3
  <2> QED
    BY <2>1, <2>4, ExtenElsewhere, Contexts DEF over, all
<1> QED
  BY <1>5, <1>6, <1>7, <1>8, <1>9, <1>10, <1>11, <1>12

\* The contexts of the IVRs.
LEMMA IvrsElsewhere ==
    ASSUME NEW c, NEW i, NEW n \in IvrEntries(c, i)
    PROVE  Elsewhere(n)
<1> DEFINE here == IvrContext(c.ivr[i].name)
<1>1. \A s, t : LinesOf(s, Plain) /\ LinesOf(t, Plain) => LinesOf(s \o t, Plain)
  BY JoinedLines
<1>2. LinesOf(Hangup, Plain) /\ \A d : LinesOf(DestinationApp(d), Plain)
  BY Pieces
<1>3. \A d : LinesOf(DestinationApp(d) \o Hangup, Plain)
  BY <1>1, <1>2
<1>4. here \notin {Named("emergency"), Named("from-pjsip")}
      /\ OpenContext(c, i) \notin {Named("emergency"), Named("from-pjsip")}
  BY Contexts DEF OpenContext
<1>5. LinesOf(<<Line("if-business-hours", <<here, "business-hours">>)>>
              \o Goto(here, "after-hours"), Plain)
      /\ LinesOf(<<Line("wait-digit", here)>> \o Goto(here, "t"), Plain)
      /\ LinesOf(Goto(here, "s"), Plain)
  <2> HIDE DEF here
  <2>1. \A context, exten : LinesOf(Goto(context, exten), Plain)
    BY Pieces
  <2>2. LinesOf(<<Line("if-business-hours", <<here, "business-hours">>)>>, Plain)
        /\ LinesOf(<<Line("wait-digit", here)>>, Plain)
    BY OneLine DEF Plain
  <2> QED
    BY <1>1, <2>1, <2>2
<1>6. CASE n = Exten(OpenContext(c, i), c.ivr[i].name, Goto(here, "s"))
  <2> HIDE DEF here
  <2> QED
    BY <1>4, <1>5, <1>6, ExtenElsewhere
<1>7. CASE \E exten, d : n = Exten(here, exten, DestinationApp(d) \o Hangup)
  <2> HIDE DEF here
  <2> QED
    BY <1>3, <1>4, <1>7, ExtenElsewhere
<1>8. CASE n = Exten(here, "s", <<Line("if-business-hours", <<here, "business-hours">>)>>
                                \o Goto(here, "after-hours"))
  <2> HIDE DEF here
  <2> QED
    BY <1>4, <1>5, <1>8, ExtenElsewhere
<1>9. CASE n = Exten(here, "s", <<Line("wait-digit", here)>> \o Goto(here, "t"))
  <2> HIDE DEF here
  <2> QED
    BY <1>4, <1>5, <1>9, ExtenElsewhere
<1> QED
  BY <1>6, <1>7, <1>8, <1>9 DEF IvrEntries

\* A pattern has the lines of one of its routes.
LEMMA FirstIs ==
    ASSUME NEW c, NEW emergency, NEW p \in Patterns(c, emergency), IsSequence(c.route)
    PROVE  \E m \in RoutesFor(c, emergency) :
              c.route[m].pattern = p /\ FirstRoute(c, emergency, p) = c.route[m]
<1> DEFINE same == {n \in RoutesFor(c, emergency) : c.route[n].pattern = p}
<1>1. same # {} /\ same \subseteq Nat
  BY SequenceIs DEF Patterns, RoutesFor, ActiveRows
<1> HIDE DEF same
<1>2. \E n \in same : \A m \in same : n <= m
  BY <1>1, LeastNat
<1>3. (CHOOSE n \in same : \A m \in same : n <= m) \in same
  BY <1>2
<1> QED
  BY <1>3 DEF FirstRoute, same

\* What is behind the lines for the number of the caller.
Dials(c, r) ==
    [n \in DOMAIN ActiveTrunks(c, r) |-> Line("dial", {<<"trunk", ActiveTrunks(c, r)[n]>>})]
Way(c, r) ==
    IF ActiveTrunks(c, r) = << >> THEN Playback
    ELSE RecordHook(r.record, <<"route", r.pattern>>) \o Dials(c, r)

\* The lines of a route: the number, the trunks and the end.
LEMMA RouteLinesAre ==
    ASSUME NEW c, NEW r
    PROVE  RouteLines(c, r) = CallerIdLines(c, r) \o Way(c, r) \o Hangup
BY DEF RouteLines, Way, Dials

\* Behind the lines for the number none sets it again.
LEMMA WayIsQuiet ==
    ASSUME NEW c, NEW r, IsSequence(r.trunks)
    PROVE  /\ LinesOf(Way(c, r), Quiet) /\ LinesOf(Way(c, r) \o Hangup, Quiet)
           /\ IsSequence(ActiveTrunks(c, r)) /\ IsSequence(Dials(c, r))
           /\ Len(Dials(c, r)) = Len(ActiveTrunks(c, r))
<1> DEFINE T == ActiveTrunks(c, r)
           d == Dials(c, r)
<1>1. IsSequence(T)
  BY TrunksInOrder, SequenceIs DEF Selects
<1>2. Len(T) \in Nat /\ DOMAIN T = 1..Len(T)
  BY <1>1, SequenceIs
<1>3. d = [k \in 1..Len(T) |-> Line("dial", {<<"trunk", T[k]>>})]
  BY <1>2 DEF Dials
<1> HIDE DEF T
<1>4. \A k \in 1..Len(T) : d[k].app = "dial"
  BY <1>3 DEF Line
<1>5. d \in Seq({d[k] : k \in 1..Len(T)}) /\ DOMAIN d = 1..Len(T) /\ Len(d) = Len(T)
  BY <1>2, <1>3
<1> HIDE DEF d
<1>6. LinesOf(d, Quiet) /\ IsSequence(d)
  BY <1>4, <1>5, SequenceIs DEF LinesOf, Quiet
<1>7. LinesOf(Way(c, r), Quiet)
  BY <1>6, Pieces, JoinedLines DEF Way, d, T
<1>8. LinesOf(Way(c, r) \o Hangup, Quiet)
  BY <1>7, Pieces, JoinedLines
<1> QED
  BY <1>1, <1>5, <1>6, <1>7, <1>8 DEF T, d

\* There is at most one line for the number, and it sets one that a route may present.
LEMMA CallerIdLinesAre ==
    ASSUME NEW c, NEW r, r.number \in RouteNumbers(c)
    PROVE  \/ CallerIdLines(c, r) = << >>
           \/ CallerIdLines(c, r) = <<Line("caller-id-of", Nothing)>>
           \/ \E x \in RouteNumbers(c) : CallerIdLines(c, r) = <<Line("caller-id", x)>>
<1>1. c.emergencyId \in RouteNumbers(c) /\ c.defaultDid \in RouteNumbers(c)
  BY DEF RouteNumbers
<1>2. CASE r.source = "extension_did"
  BY <1>2 DEF CallerIdLines
<1>3. CASE r.source # "extension_did"
  <2>1. CASE r.source = "emergency" /\ c.emergencyId # Nothing
    BY <1>1, <2>1 DEF CallerIdLines
  <2>2. CASE r.source = "custom"
    BY <2>2 DEF CallerIdLines
  <2>3. CASE r.source = "location_default" /\ c.defaultDid # Nothing
    BY <1>1, <2>3 DEF CallerIdLines
  <2>4. CASE ~ (r.source = "emergency" /\ c.emergencyId # Nothing) /\ r.source # "custom"
             /\ ~ (r.source = "location_default" /\ c.defaultDid # Nothing)
    BY <1>3, <2>4 DEF CallerIdLines
  <2> QED
    BY <2>1, <2>2, <2>3, <2>4
<1> QED
  BY <1>2, <1>3

\* The lines of a route are decent.
LEMMA RouteIsDecent ==
    ASSUME NEW c, NEW r, IsSequence(r.trunks), r.number \in RouteNumbers(c)
    PROVE  Decent(c, RouteLines(c, r))
<1> DEFINE first == CallerIdLines(c, r)
           w == Way(c, r)
           s == w \o Hangup
<1>1. LinesOf(w, Quiet) /\ LinesOf(s, Quiet) /\ LinesOf(Hangup, Quiet)
  BY WayIsQuiet, Pieces
<1>2. RouteLines(c, r) = first \o w \o Hangup
  BY RouteLinesAre
<1>3. IsSequence(first)
      /\ \/ LinesOf(first, Quiet)
         \/ /\ DOMAIN first = 1..1
            /\ first[1].app \in {"caller-id", "caller-id-of"}
            /\ first[1].app = "caller-id" => first[1].arg \in RouteNumbers(c)
  BY CallerIdLinesAre, OneLine, NoLine
<1> HIDE DEF first, w
<1> DEFINE L == first \o s
<1>4. first \o w \o Hangup = L
  <2>1. IsSequence(w) /\ IsSequence(Hangup)
    BY ONLY <1>1 DEF LinesOf
  <2>2. IsSequence(first)
    BY <1>3
  <2>3. first \o w \o Hangup = first \o (w \o Hangup)
    BY ONLY <2>1, <2>2, Associative
  <2> QED
    BY ONLY <2>3
<1>5. IsSequence(s) /\ \A k \in DOMAIN s : s[k].app \in Quiet
  BY <1>1 DEF LinesOf
<1> HIDE DEF s
<1>6. CASE LinesOf(first, Quiet)
  <2>1. LinesOf(L, Quiet)
    BY <1>1, <1>6, JoinedLines
  <2>2. Decent(c, L)
    BY <2>1, Pieces, PlainIsDecent
  <2> QED
    BY <1>2, <1>4, <2>2
<1>7. CASE /\ DOMAIN first = 1..1
           /\ first[1].app \in {"caller-id", "caller-id-of"}
           /\ first[1].app = "caller-id" => first[1].arg \in RouteNumbers(c)
  <2>1. Len(first) = 1
    BY <1>3, <1>7, SequenceIs
  <2>2. /\ IsSequence(L) /\ DOMAIN L = 1..(1 + Len(s)) /\ L[1] = first[1]
        /\ \A k \in DOMAIN L : k # 1 => k - 1 \in DOMAIN s /\ L[k] = s[k - 1]
    <3>1. /\ IsSequence(L) /\ DOMAIN L = 1..(1 + Len(s))
          /\ \A k \in DOMAIN first : k \in DOMAIN L /\ L[k] = first[k]
          /\ \A k \in DOMAIN L :
                \/ k \in DOMAIN first /\ L[k] = first[k]
                \/ k > 1 /\ k - 1 \in DOMAIN s /\ L[k] = s[k - 1]
      <4>1. /\ IsSequence(L) /\ DOMAIN L = 1..(Len(first) + Len(s))
            /\ \A k \in DOMAIN first : k \in DOMAIN L /\ L[k] = first[k]
            /\ \A k \in DOMAIN L :
                  \/ k \in DOMAIN first /\ L[k] = first[k]
                  \/ /\ k > Len(first) /\ k - Len(first) \in DOMAIN s
                     /\ L[k] = s[k - Len(first)]
        BY <1>3, <1>5, Joined
      <4> HIDE DEF L
      <4> QED
        BY <2>1, <4>1
    <3> HIDE DEF L
    <3>2. 1 \in DOMAIN first /\ \A k \in DOMAIN first : k = 1
      BY <1>7
    <3> QED
      BY <3>1, <3>2
  <2> HIDE DEF L
  <2>3. \A k \in DOMAIN L : k # 1 => L[k].app \in Quiet
    BY <1>5, <2>2
  <2>4. Len(s) \in Nat
    BY <1>5, SequenceIs
  <2>5. Decent(c, L)
    BY <1>7, <2>2, <2>3, <2>4 DEF Decent, Plain, Quiet
  <2> QED
    BY <1>2, <1>4, <2>5
<1> QED
  BY <1>3, <1>6, <1>7

\* An entry of a route's pattern has the lines of such a route.
LEMMA RouteEntryIs ==
    ASSUME ConfigsAssumption, NEW c \in Configs, NEW emergency, NEW context,
           NEW n \in RouteEntries(c, emergency, context)
    PROVE  /\ n.context = Named(context) /\ n.only = Nothing
           /\ \E m \in RoutesFor(c, emergency) :
                 /\ n.match = c.route[m].pattern /\ n.lines = RouteLines(c, c.route[m])
                 /\ IsSequence(c.route[m].trunks) /\ c.route[m].number \in RouteNumbers(c)
<1>1. PICK p \in Patterns(c, emergency) :
         n = Entry(Named(context), p, Nothing, RouteLines(c, FirstRoute(c, emergency, p)))
  BY DEF RouteEntries
<1>2. PICK m \in RoutesFor(c, emergency) :
         c.route[m].pattern = p /\ FirstRoute(c, emergency, p) = c.route[m]
  BY FirstIs DEF ConfigsAssumption
<1>3. m \in DOMAIN c.route
  BY DEF RoutesFor, ActiveRows
<1> QED
  BY <1>1, <1>2, <1>3, EntryIs DEF ConfigsAssumption, RouteNumbers

\* An entry that refuses the emergency calls of one extension.
LEMMA BlockIs ==
    ASSUME NEW c, NEW n \in EmergencyBlocks(c)
    PROVE  /\ n.context = Named("emergency") /\ n.only \in BlockedCallers(c)
           /\ n.match \in EmergencyPatterns(c)
           /\ n.lines = Playback \o Hangup /\ LinesOf(n.lines, {"playback", "hangup"})
<1>1. PICK p \in EmergencyPatterns(c), e \in BlockedCallers(c) :
         n = Entry(Named("emergency"), p, e, Playback \o Hangup)
  BY DEF EmergencyBlocks
<1>2. LinesOf(Playback \o Hangup, {"playback", "hangup"})
  BY OneLine, JoinedLines DEF Playback, Hangup
<1> DEFINE lines == Playback \o Hangup
<1>3. LinesOf(lines, {"playback", "hangup"})
  BY <1>2
<1>4. n = Entry(Named("emergency"), p, e, lines)
  BY <1>1
<1> HIDE DEF lines
<1>5. n.context = Named("emergency") /\ n.only = e /\ n.match = p /\ n.lines = lines
  BY <1>4, EntryIs
<1> QED
  BY <1>1, <1>3, <1>5 DEF lines

\* Every line of the plan is decent, and only those for emergency calls are in their
\* context.
LEMMA PlanIs ==
    ASSUME ConfigsAssumption, NEW c \in Configs, NEW n \in DialPlan(c)
    PROVE  /\ Decent(c, n.lines) /\ n.context # Named("from-pjsip")
           /\ n.context = Named("emergency") =>
                 n \in EmergencyBlocks(c) \union RouteEntries(c, TRUE, "emergency")
<1>1. CASE Elsewhere(n)
  BY <1>1, PlainIsDecent DEF Elsewhere
<1>2. CASE n \in RouteEntries(c, FALSE, "outbound")
  <2>1. PICK m \in RoutesFor(c, FALSE) :
           /\ n.context = Named("outbound") /\ n.lines = RouteLines(c, c.route[m])
           /\ IsSequence(c.route[m].trunks) /\ c.route[m].number \in RouteNumbers(c)
    BY <1>2, RouteEntryIs
  <2>2. Decent(c, n.lines)
    BY <2>1, RouteIsDecent
  <2> QED
    BY <2>1, <2>2, Contexts
<1>3. CASE n \in RouteEntries(c, TRUE, "emergency")
  <2>1. PICK m \in RoutesFor(c, TRUE) :
           /\ n.context = Named("emergency") /\ n.lines = RouteLines(c, c.route[m])
           /\ IsSequence(c.route[m].trunks) /\ c.route[m].number \in RouteNumbers(c)
    BY <1>3, RouteEntryIs
  <2>2. Decent(c, n.lines)
    BY <2>1, RouteIsDecent
  <2> QED
    BY <1>3, <2>1, <2>2, Contexts
<1>4. CASE n \in EmergencyBlocks(c)
  <2>1. n.context = Named("emergency") /\ LinesOf(n.lines, Plain)
    BY <1>4, BlockIs DEF LinesOf, Plain, Quiet
  <2> QED
    BY <1>4, <2>1, Contexts, PlainIsDecent
<1> DEFINE extens == LocalExtensions(c) \union RemoteExtensions(c) \union Inbound(c)
                     \union Voicemail(c) \union Paging(c) \union FeatureCodes(c)
                     \union RingGroups(c) \union Queues(c)
           ivrs == UNION {IvrEntries(c, i) : i \in ActiveRows(c.ivr)}
<1>5. \/ n \in extens \/ \E i : n \in IvrEntries(c, i)
      \/ n \in RouteEntries(c, FALSE, "outbound") \/ n \in RouteEntries(c, TRUE, "emergency")
      \/ n \in EmergencyBlocks(c)
  <2>1. n \in ivrs => \E i : n \in IvrEntries(c, i)
    OBVIOUS
  <2>2. \/ n \in extens \/ n \in ivrs
        \/ n \in RouteEntries(c, FALSE, "outbound") \/ n \in RouteEntries(c, TRUE, "emergency")
        \/ n \in EmergencyBlocks(c)
    <3> HIDE DEF ivrs
    <3> QED
      BY DEF DialPlan, ivrs
  <2> QED
    BY <2>1, <2>2
<1>6. n \in extens => Elsewhere(n)
  BY ExtensElsewhere
<1>7. (\E i : n \in IvrEntries(c, i)) => Elsewhere(n)
  BY IvrsElsewhere
<1> HIDE DEF extens
<1> QED
  BY <1>1, <1>2, <1>3, <1>4, <1>5, <1>6, <1>7

-----------------------------------------------------------------------------
(* A call to an emergency number.                                          *)

\* For a phone there is a number in the context of emergency calls, and nowhere before it;
\* there an entry for the caller hides one of the same pattern for everybody.
EmergencyFound(number, e) ==
    /\ Found(Named("from-pjsip"), number, e) # {}
    /\ \A n \in Found(Named("from-pjsip"), number, e) :
          /\ n \in plan /\ n.context = Named("emergency") /\ number \in n.match
          /\ n.only \in {Nothing, e}
          /\ n.only = e \/ ~\E m \in plan : /\ m.context = Named("emergency")
                                           /\ m.only = e /\ m.match = n.match

\* A number that has an entry there is found so.
LEMMA FoundFirst ==
    ASSUME ConfigsAssumption, cfg \in Configs, plan = DialPlan(cfg), NEW e, NEW number,
           NEW x \in plan, x.context = Named("emergency"), number \in x.match,
           x.only \in {Nothing, e}
    PROVE  EmergencyFound(number, e)
<1> DEFINE In(y) == {n \in plan : /\ n.context = y /\ number \in n.match
                                 /\ n.only \in {Nothing, e}}
           search == <<Named("from-pjsip")>> \o Includes(Named("from-pjsip"))
           hits == {k \in DOMAIN search : In(search[k]) # {}}
           here == In(search[CHOOSE k \in hits : \A m \in hits : k <= m])
<1>1. /\ search[1] = Named("from-pjsip") /\ search[2] = Named("emergency")
      /\ DOMAIN search = 1..8
  BY DEF Includes
<1>2. In(Named("from-pjsip")) = {} /\ x \in In(Named("emergency"))
  BY PlanIs
<1>3. Found(Named("from-pjsip"), number, e) =
         IF hits = {} THEN {}
         ELSE {n \in here : n.only = e \/ ~\E m \in here : m.only = e /\ m.match = n.match}
  BY DEF Found
<1> HIDE DEF In, search
<1>4. 2 \in hits /\ \A k \in hits : 2 <= k
  BY <1>1, <1>2
<1>5. here = In(Named("emergency"))
  <2>1. hits \subseteq Nat
    BY <1>1
  <2> HIDE DEF hits
  <2>2. (CHOOSE k \in hits : \A m \in hits : k <= m) = 2
    <3> DEFINE least == CHOOSE k \in hits : \A m \in hits : k <= m
    <3>1. least \in hits /\ \A m \in hits : least <= m
      BY <1>4
    <3> HIDE DEF least
    <3>2. least <= 2 /\ 2 <= least /\ least \in Nat
      BY <1>4, <2>1, <3>1
    <3>3. least = 2
      BY <3>2
    <3> QED
      BY <3>3 DEF least
  <2> QED
    BY <1>1, <2>2
<1> HIDE DEF hits, here
<1>6. Found(Named("from-pjsip"), number, e) =
         {n \in here : n.only = e \/ ~\E m \in here : m.only = e /\ m.match = n.match}
  BY <1>3, <1>4
<1>7. Found(Named("from-pjsip"), number, e) # {}
  <2>1. CASE \E m \in here : m.only = e /\ m.match = x.match
    BY <1>6, <2>1
  <2>2. CASE ~\E m \in here : m.only = e /\ m.match = x.match
    BY <1>2, <1>5, <1>6, <2>2
  <2> QED
    BY <2>1, <2>2
<1>8. ASSUME NEW n \in Found(Named("from-pjsip"), number, e)
      PROVE  /\ n \in plan /\ n.context = Named("emergency") /\ number \in n.match
             /\ n.only \in {Nothing, e}
             /\ n.only = e \/ ~\E m \in plan : /\ m.context = Named("emergency")
                                              /\ m.only = e /\ m.match = n.match
  BY <1>5, <1>6 DEF In
<1> QED
  BY ONLY <1>7, <1>8 DEF EmergencyFound

\* The call of a phone to an emergency number.
Calling(e) == e \in ActiveRows(cfg.ext) /\ e # Nothing /\ IsEmergency /\ call.from = e

\* Who may not make emergency calls hears an announcement.
LEMMA BlockedFinds ==
    ASSUME ConfigsAssumption, cfg \in Configs, plan = DialPlan(cfg), NEW e, Calling(e),
           ~cfg.ext[e].emergency
    PROVE  /\ Found(Named("from-pjsip"), call.number, e) # {}
           /\ \A n \in Found(Named("from-pjsip"), call.number, e) :
                 LinesOf(n.lines, {"playback", "hangup"})
<1>1. PICK p \in EmergencyPatterns(cfg) : call.number \in p
  BY DEF Calling, IsEmergency
<1>2. e \in BlockedCallers(cfg) /\ e # Nothing
  BY DEF Calling, BlockedCallers
<1> DEFINE Block(q) == Entry(Named("emergency"), q, e, Playback \o Hangup)
<1>3. ASSUME NEW q \in EmergencyPatterns(cfg)
      PROVE  /\ Block(q) \in plan /\ Block(q).context = Named("emergency")
             /\ Block(q).only = e /\ Block(q).match = q
  <2>1. Block(q) \in EmergencyBlocks(cfg)
    BY <1>2 DEF EmergencyBlocks
  <2>2. Block(q) \in plan
    BY <2>1 DEF DialPlan
  <2> DEFINE lines == Playback \o Hangup
  <2>3. Block(q) = Entry(Named("emergency"), q, e, lines)
    OBVIOUS
  <2> HIDE DEF lines, Block
  <2> QED
    BY <2>2, <2>3, EntryIs
<1> HIDE DEF Block
<1>4. /\ Found(Named("from-pjsip"), call.number, e) # {}
      /\ \A n \in Found(Named("from-pjsip"), call.number, e) :
            /\ n \in plan /\ n.context = Named("emergency") /\ n.only \in {Nothing, e}
            /\ n.only = e \/ ~\E m \in plan : /\ m.context = Named("emergency")
                                             /\ m.only = e /\ m.match = n.match
  <2> DEFINE x == Block(p)
  <2>1. /\ x \in plan /\ x.context = Named("emergency") /\ call.number \in x.match
        /\ x.only \in {Nothing, e}
    BY <1>1, <1>3
  <2> HIDE DEF x
  <2>2. EmergencyFound(call.number, e)
    BY <2>1, FoundFirst
  <2> QED
    BY ONLY <2>2 DEF EmergencyFound
<1>5. ASSUME NEW n \in Found(Named("from-pjsip"), call.number, e)
      PROVE  LinesOf(n.lines, {"playback", "hangup"})
  <2>1. n \in EmergencyBlocks(cfg) \/ n \in RouteEntries(cfg, TRUE, "emergency")
    BY <1>4, PlanIs
  <2>2. CASE n \in EmergencyBlocks(cfg)
    BY <2>2, BlockIs
  <2>3. CASE n \in RouteEntries(cfg, TRUE, "emergency")
    <3>1. PICK m \in RoutesFor(cfg, TRUE) : n.match = cfg.route[m].pattern /\ n.only = Nothing
      BY <2>3, RouteEntryIs
    <3>2. n.match \in EmergencyPatterns(cfg)
      BY <3>1 DEF EmergencyPatterns, Patterns
    <3> QED
      BY <1>2, <1>3, <1>4, <3>1, <3>2
  <2> QED
    BY <2>1, <2>2, <2>3
<1> QED
  BY <1>4, <1>5

\* Anybody else finds the lines of an emergency route for the number.
LEMMA OthersFind ==
    ASSUME ConfigsAssumption, cfg \in Configs, plan = DialPlan(cfg), NEW e, Calling(e),
           Valid(cfg), Exportable(cfg), cfg.ext[e].emergency
    PROVE  /\ Found(Named("from-pjsip"), call.number, e) # {}
           /\ \A n \in Found(Named("from-pjsip"), call.number, e) :
                 \E m \in RoutesFor(cfg, TRUE) :
                    /\ call.number \in cfg.route[m].pattern
                    /\ n.lines = RouteLines(cfg, cfg.route[m])
                    /\ IsSequence(cfg.route[m].trunks)
<1>1. PICK p \in EmergencyPatterns(cfg) : call.number \in p
  BY DEF Calling, IsEmergency
<1>2. RoutesFor(cfg, TRUE) # {}
  BY DEF Exportable, EmergencyReady, Calling
<1>3. p \in Patterns(cfg, TRUE)
  <2>1. Patterns(cfg, TRUE) # {}
    BY <1>2 DEF Patterns
  <2> QED
    BY <1>1, <2>1 DEF EmergencyPatterns
<1> DEFINE x == Entry(Named("emergency"), p, Nothing,
                      RouteLines(cfg, FirstRoute(cfg, TRUE, p)))
<1>4. x \in plan
  BY <1>3 DEF DialPlan, RouteEntries
<1>5. x.context = Named("emergency") /\ x.match = p /\ x.only = Nothing
  <2> DEFINE lines == RouteLines(cfg, FirstRoute(cfg, TRUE, p))
  <2>1. x = Entry(Named("emergency"), p, Nothing, lines)
    OBVIOUS
  <2> HIDE DEF x, lines
  <2> QED
    BY <2>1, EntryIs
<1> HIDE DEF x
<1>6. /\ Found(Named("from-pjsip"), call.number, e) # {}
      /\ \A n \in Found(Named("from-pjsip"), call.number, e) :
            /\ n \in plan /\ n.context = Named("emergency") /\ n.only \in {Nothing, e}
            /\ call.number \in n.match
  <2>1. EmergencyFound(call.number, e)
    BY <1>1, <1>4, <1>5, FoundFirst
  <2> QED
    BY ONLY <2>1 DEF EmergencyFound
<1>7. ASSUME NEW n \in Found(Named("from-pjsip"), call.number, e)
      PROVE  \E m \in RoutesFor(cfg, TRUE) :
                /\ call.number \in cfg.route[m].pattern
                /\ n.lines = RouteLines(cfg, cfg.route[m])
                /\ IsSequence(cfg.route[m].trunks)
  <2>1. n \in EmergencyBlocks(cfg) \/ n \in RouteEntries(cfg, TRUE, "emergency")
    BY <1>6, PlanIs
  <2>2. n \notin EmergencyBlocks(cfg)
    <3>1. e \notin BlockedCallers(cfg) /\ Nothing \notin BlockedCallers(cfg)
      BY DEF BlockedCallers, ActiveRows, ConfigsAssumption
    <3> QED
      BY <1>6, <3>1, BlockIs
  <2>3. n \in RouteEntries(cfg, TRUE, "emergency")
    BY <2>1, <2>2
  <2>4. PICK m \in RoutesFor(cfg, TRUE) :
           /\ n.match = cfg.route[m].pattern /\ n.lines = RouteLines(cfg, cfg.route[m])
           /\ IsSequence(cfg.route[m].trunks)
    BY <2>3, RouteEntryIs
  <2> QED
    BY <1>6, <2>4
<1> QED
  BY <1>6, <1>7

-----------------------------------------------------------------------------
(* What a step does.                                                       *)

Fields == {"from", "number", "at", "lines", "phase", "callerId", "monitors", "path",
           "trunks", "by"}

\* The configuration, its plan and what the call is for.
Keeps ==
    /\ cfg' = cfg /\ plan' = plan /\ DOMAIN call' = Fields
    /\ call'.from = call.from /\ call'.number = call.number

\* The call goes on at an exten, or is lost.
Enters(context, exten) ==
    /\ call'.callerId = call.callerId /\ call'.trunks = call.trunks
    /\ \/ /\ Found(context, exten, call.from) = {}
          /\ call'.lines = << >> /\ call'.phase = "lost"
       \/ \E n \in plan :
             /\ Found(context, exten, call.from) # {} => n \in Found(context, exten, call.from)
             /\ call'.lines = n.lines /\ call'.phase = "running"

\* The call goes on with the next line.
Passes ==
    /\ call.phase = "running" /\ call.lines # << >> /\ Current.app # "hangup"
    /\ call'.lines = Rest /\ call'.phase = "running"

\* The number of the caller and the trunks that were dialled, after a line.
NumberAfter ==
    CASE Current.app = "caller-id" -> {Current.arg}
      [] Current.app = "caller-id-of" -> CallerIdsOf(cfg, call.callerId)
      [] OTHER -> {call.callerId}
TrunksAfter == IF Current.app = "dial" THEN Offered.trunks ELSE call.trunks

\* The call leaves the plan.
Leaves ==
    /\ call.phase = "running" /\ call'.lines = << >> /\ call'.callerId = call.callerId
    /\ \/ Running("dial") /\ call'.phase = "talking"
       \/ Running("voicemail") /\ call'.phase = "voicemail" /\ call'.trunks = call.trunks
       \/ /\ call.lines = << >> \/ Current.app = "hangup"
          /\ call'.phase = "ended" /\ call'.trunks = call.trunks

\* A call that is sent to an exten enters the lines found there, or is lost.
LEMMA EnterIs ==
    ASSUME DOMAIN call = Fields, NEW context, NEW exten, EnterFrom(call, context, exten)
    PROVE  Keeps /\ Enters(context, exten)
<1> DEFINE found == Found(context, exten, call.from)
           invalid == Found(context, "i", call.from)
<1>1. cfg' = cfg /\ plan' = plan
  BY DEF EnterFrom, Becomes
<1>2. CASE found \union invalid = {}
  <2>1. call' = [call EXCEPT !.at = <<context, exten>>, !.lines = << >>, !.phase = "lost"]
    BY <1>2 DEF EnterFrom, Becomes
  <2>2. /\ DOMAIN call' = Fields /\ call'.from = call.from /\ call'.number = call.number
        /\ call'.callerId = call.callerId /\ call'.trunks = call.trunks
        /\ call'.lines = << >> /\ call'.phase = "lost"
    BY <2>1 DEF Fields
  <2> QED
    BY <1>1, <1>2, <2>2 DEF Keeps, Enters
<1>3. CASE found \union invalid # {}
  <2>1. PICK n \in IF found # {} THEN found ELSE invalid :
           call' = [call EXCEPT !.at = <<n.context, exten>>, !.lines = n.lines,
                                !.phase = "running",
                                !.path = call.path \union {<<n.context, exten>>}]
    BY <1>3 DEF EnterFrom, Becomes
  <2>2. /\ DOMAIN call' = Fields /\ call'.from = call.from /\ call'.number = call.number
        /\ call'.callerId = call.callerId /\ call'.trunks = call.trunks
        /\ call'.lines = n.lines /\ call'.phase = "running"
    BY <2>1 DEF Fields
  <2>3. n \in plan /\ (found # {} => n \in found)
    <3>1. \A number, caller, m : m \in Found(context, number, caller) => m \in plan
      BY DEF Found
    <3> QED
      BY <1>3, <3>1
  <2> QED
    BY <1>1, <2>2, <2>3 DEF Keeps, Enters
<1> QED
  BY <1>2, <1>3

\* A line may let the call go on with the next one and change nothing but what is in
\* other fields.
LEMMA PassIs ==
    ASSUME DOMAIN call = Fields, NEW k, Becomes(k), k.lines = Rest, DOMAIN k = Fields,
           k.from = call.from, k.number = call.number, k.phase = call.phase,
           k.callerId \in NumberAfter, k.trunks = TrunksAfter,
           call.phase = "running", call.lines # << >>, Current.app # "hangup"
    PROVE  Keeps /\ Passes /\ call'.callerId \in NumberAfter /\ call'.trunks = TrunksAfter
BY DEF Becomes, Keeps, Passes

\* The fields of an offered call.
LEMMA OfferedIs ==
    ASSUME DOMAIN call = Fields
    PROVE  /\ DOMAIN Offered = Fields /\ Offered.from = call.from
           /\ Offered.number = call.number /\ Offered.phase = call.phase
           /\ Offered.callerId = call.callerId /\ Offered.lines = call.lines
           /\ LET trunks == {x \in Current.arg : x[1] = "trunk"} IN
              Offered.trunks = IF trunks = {} THEN call.trunks
                               ELSE Append(call.trunks, (CHOOSE x \in trunks : TRUE)[2])
BY DEF Offered, Fields

\* The five kinds of steps.
LEMMA StepIs ==
    ASSUME DOMAIN call = Fields, RoutingNext
    PROVE  /\ Keeps
           /\ \/ call.phase = "incoming" /\ Enters(Entrance(call.from), call.number)
              \/ \E app \in {"goto", "if-business-hours", "wait-digit"} :
                    Running(app) /\ \E context, exten : Enters(context, exten)
              \/ Passes /\ call'.callerId \in NumberAfter /\ call'.trunks = TrunksAfter
              \/ Leaves
<1>1. CASE Arrive
  BY <1>1, EnterIs DEF Arrive
<1>2. CASE DoGoto
  BY <1>2, EnterIs DEF DoGoto
<1> DEFINE next == [call EXCEPT !.lines = Rest]
<1>3. /\ DOMAIN next = Fields /\ next.lines = Rest /\ next.from = call.from
      /\ next.number = call.number /\ next.phase = call.phase
      /\ next.callerId = call.callerId /\ next.trunks = call.trunks
  BY DEF Fields
<1> HIDE DEF next
<1>4. ASSUME call.phase = "running", call.lines # << >>, Becomes(next),
             Current.app \notin {"caller-id", "caller-id-of", "dial", "hangup"}
      PROVE  Keeps /\ Passes /\ call'.callerId \in NumberAfter /\ call'.trunks = TrunksAfter
  <2>1. call.callerId \in NumberAfter /\ call.trunks = TrunksAfter
    BY <1>4 DEF NumberAfter, TrunksAfter
  <2> QED
    BY <1>3, <1>4, <2>1, PassIs
<1>5. CASE DoHours
  <2>1. Running("if-business-hours") /\ call.phase = "running" /\ call.lines # << >>
        /\ Current.app \notin {"caller-id", "caller-id-of", "dial", "hangup"}
    BY <1>5 DEF DoHours, Running
  <2>2. EnterFrom(call, Current.arg[1], Current.arg[2]) \/ Becomes(next)
    BY <1>5 DEF DoHours, next
  <2> QED
    BY <1>4, <2>1, <2>2, EnterIs
<1>6. CASE DoDigit
  <2>1. Running("wait-digit") /\ call.phase = "running" /\ call.lines # << >>
        /\ Current.app \notin {"caller-id", "caller-id-of", "dial", "hangup"}
    BY <1>6 DEF DoDigit, Running
  <2>2. (\E d \in Digits : EnterFrom(call, Current.arg, d)) \/ Becomes(next)
    BY <1>6 DEF DoDigit, next
  <2> QED
    BY <1>4, <2>1, <2>2, EnterIs
<1>7. CASE DoOther
  <2>1. call.phase = "running" /\ call.lines # << >> /\ Becomes(next)
        /\ Current.app \notin {"caller-id", "caller-id-of", "dial", "hangup"}
    BY <1>7 DEF DoOther, next
  <2> QED
    BY <1>4, <2>1
<1>8. CASE DoVoicemail
  <2>1. Running("voicemail") /\ call.phase = "running" /\ call.lines # << >>
        /\ Current.app \notin {"caller-id", "caller-id-of", "dial", "hangup"}
    BY <1>8 DEF DoVoicemail, Running
  <2>2. Becomes([call EXCEPT !.phase = "voicemail", !.lines = << >>]) \/ Becomes(next)
    BY <1>8 DEF DoVoicemail, next
  <2>3. CASE Becomes([call EXCEPT !.phase = "voicemail", !.lines = << >>])
    <3>1. Keeps /\ call'.lines = << >> /\ call'.callerId = call.callerId
          /\ call'.phase = "voicemail" /\ call'.trunks = call.trunks
      BY <2>3 DEF Becomes, Fields, Keeps
    <3> QED
      BY <2>1, <3>1 DEF Leaves
  <2> QED
    BY <1>4, <2>1, <2>2, <2>3
<1>9. CASE DoRecord
  <2>1. PICK m : Becomes([call EXCEPT !.lines = Rest, !.monitors = m])
    BY <1>9 DEF DoRecord
  <2>2. call.phase = "running" /\ call.lines # << >> /\ Current.app = "record"
    BY <1>9 DEF DoRecord, Running
  <2> DEFINE k == [call EXCEPT !.lines = Rest, !.monitors = m]
  <2>3. /\ DOMAIN k = Fields /\ k.lines = Rest /\ k.from = call.from /\ k.number = call.number
        /\ k.phase = call.phase /\ k.callerId = call.callerId /\ k.trunks = call.trunks
    BY DEF Fields
  <2>4. call.callerId \in NumberAfter /\ call.trunks = TrunksAfter
    BY <2>2 DEF NumberAfter, TrunksAfter
  <2> HIDE DEF k
  <2> QED
    BY <2>1, <2>2, <2>3, <2>4, PassIs DEF k
<1>10. CASE DoCallerId \/ DoCallerIdOf
  <2>1. PICK id \in NumberAfter : Becomes([call EXCEPT !.lines = Rest, !.callerId = id])
    BY <1>10 DEF DoCallerId, DoCallerIdOf, NumberAfter, Running
  <2>2. call.phase = "running" /\ call.lines # << >> /\ Current.app \notin {"dial", "hangup"}
    BY <1>10 DEF DoCallerId, DoCallerIdOf, Running
  <2> DEFINE k == [call EXCEPT !.lines = Rest, !.callerId = id]
  <2>3. /\ DOMAIN k = Fields /\ k.lines = Rest /\ k.from = call.from /\ k.number = call.number
        /\ k.phase = call.phase /\ k.callerId = id /\ k.trunks = call.trunks
    BY DEF Fields
  <2>4. call.trunks = TrunksAfter
    BY <2>2 DEF TrunksAfter
  <2> HIDE DEF k
  <2> QED
    BY <2>1, <2>2, <2>3, <2>4, PassIs DEF k
<1>11. CASE DoDial
  <2>1. call.phase = "running" /\ call.lines # << >> /\ Current.app = "dial" /\ Running("dial")
    BY <1>11 DEF DoDial, Running
  <2>2. (\E x : Becomes(Answered(Offered, x))) \/ Becomes([Offered EXCEPT !.lines = Rest])
    BY <1>11 DEF DoDial
  <2>3. ASSUME NEW x, Becomes(Answered(Offered, x)) PROVE Keeps /\ Leaves
    <3>1. call' = [Offered EXCEPT !.phase = "talking", !.by = x, !.lines = << >>]
          /\ cfg' = cfg /\ plan' = plan
      BY <2>3 DEF Becomes, Answered
    <3>2. /\ DOMAIN call' = Fields /\ call'.from = call.from /\ call'.number = call.number
          /\ call'.lines = << >> /\ call'.callerId = call.callerId /\ call'.phase = "talking"
      BY <3>1, OfferedIs DEF Fields
    <3> QED
      BY <2>1, <3>1, <3>2 DEF Keeps, Leaves
  <2>4. ASSUME Becomes([Offered EXCEPT !.lines = Rest])
        PROVE  Keeps /\ Passes /\ call'.callerId \in NumberAfter /\ call'.trunks = TrunksAfter
    <3> DEFINE k == [Offered EXCEPT !.lines = Rest]
    <3>1. /\ DOMAIN k = Fields /\ k.lines = Rest /\ k.from = call.from
          /\ k.number = call.number /\ k.phase = call.phase /\ k.callerId = call.callerId
          /\ k.trunks = Offered.trunks
      BY OfferedIs DEF Fields
    <3>2. call.callerId \in NumberAfter /\ Offered.trunks = TrunksAfter
      BY <2>1 DEF NumberAfter, TrunksAfter
    <3> HIDE DEF k
    <3> QED
      BY <2>1, <2>4, <3>1, <3>2, PassIs DEF k
  <2> QED
    BY <2>2, <2>3, <2>4
<1>12. CASE Finish
  <2>1. call' = [call EXCEPT !.phase = "ended", !.lines = << >>] /\ cfg' = cfg /\ plan' = plan
        /\ call.phase = "running" /\ (call.lines = << >> \/ Current.app = "hangup")
    BY <1>12 DEF Finish, Becomes
  <2>2. /\ DOMAIN call' = Fields /\ call'.from = call.from /\ call'.number = call.number
        /\ call'.lines = << >> /\ call'.callerId = call.callerId /\ call'.phase = "ended"
        /\ call'.trunks = call.trunks
    BY <2>1 DEF Fields
  <2> QED
    BY <2>1, <2>2 DEF Keeps, Leaves
<1> QED
  BY <1>1, <1>2, <1>5, <1>6, <1>7, <1>8, <1>9, <1>10, <1>11, <1>12 DEF RoutingNext

-----------------------------------------------------------------------------
(* The inductive invariant of calls.                                       *)

\* A phone that calls belongs to an active extension.
PlanInv ==
    /\ cfg \in Configs /\ Valid(cfg) /\ Exportable(cfg) /\ plan = DialPlan(cfg)
    /\ DOMAIN call = Fields
    /\ call.from \in DOMAIN cfg.ext => cfg.ext[call.from].active

\* Once the number of a phone's call is another one, only quiet lines are left.
Allowed(e) ==
    {e, cfg.ext[e].callerId} \union {d \in DOMAIN cfg.did : cfg.did[d].direct = e}
    \union RouteNumbers(cfg)
NumberInv ==
    \A e \in Caller :
       /\ call.callerId \in Allowed(e)
       /\ Decent(cfg, call.lines)
       /\ call.callerId # e => call.phase # "incoming" /\ LinesOf(call.lines, Quiet)

\* Who may not make emergency calls is on lines that dial nobody.
BlockedInv ==
    \A e \in Caller : ~cfg.ext[e].emergency /\ IsEmergency =>
       /\ call.trunks = << >>
       /\ call.phase # "incoming" => LinesOf(call.lines, {"playback", "hangup"})

\* The lines that are left of a route when m of its trunks have been dialled.
Remaining(c, r, m, s) ==
    LET T == ActiveTrunks(c, r) IN
    /\ m \in 0..Len(T) /\ IsSequence(s) /\ Len(s) = Len(T) - m + 1
    /\ \A k \in 1..(Len(T) - m) : s[k] = Line("dial", {<<"trunk", T[m + k]>>})
    /\ s[Len(T) - m + 1] = Line("hangup", Nothing)

\* The trunks that were dialled are the first m of the route.
Dialled(r, m) ==
    /\ IsSequence(call.trunks) /\ Len(call.trunks) = m
    /\ \A k \in 1..m : call.trunks[k] = ActiveTrunks(cfg, r)[k]

\* A phone's emergency call on its way through the lines of an emergency route.
OnRoute(r) ==
    \/ call.phase = "running" /\ call.trunks = << >> /\ call.lines = RouteLines(cfg, r)
    \/ /\ call.callerId = cfg.emergencyId
       /\ \/ /\ call.phase = "running" /\ call.trunks = << >> /\ call.lines # << >>
             /\ Current.app \in {"record", "playback"} /\ Remaining(cfg, r, 0, Rest)
          \/ /\ call.phase = "running"
             /\ \E m \in Nat : Dialled(r, m) /\ Remaining(cfg, r, m, call.lines)
          \/ call.phase = "talking"
          \/ call.phase = "ended" /\ call.trunks = ActiveTrunks(cfg, r)

PlacedInv ==
    \A e \in Caller : cfg.ext[e].emergency /\ IsEmergency =>
       \/ call.phase = "incoming" /\ call.trunks = << >>
       \/ \E n \in RoutesFor(cfg, TRUE) :
             /\ call.number \in cfg.route[n].pattern /\ IsSequence(cfg.route[n].trunks)
             /\ OnRoute(cfg.route[n])

CallInv == PlanInv /\ NumberInv /\ BlockedInv /\ PlacedInv

\* The caller of a phone's call is an active extension of the location.
LEMMA CallerIs ==
    ASSUME ConfigsAssumption, PlanInv, NEW e \in Caller
    PROVE  /\ e = call.from /\ e \in ActiveRows(cfg.ext) /\ e # Nothing
           /\ Entrance(call.from) = Named("from-pjsip") /\ (IsEmergency => Calling(e))
BY DEF Caller, FromPhone, PlanInv, ActiveRows, ConfigsAssumption, Entrance, Calling

\* The invariant holds when a call begins.
LEMMA CallBegins ==
    ASSUME ConfigsAssumption, RoutingInit
    PROVE  CallInv
<1>1. PICK k \in Calls : (k.from \in DOMAIN cfg.ext => cfg.ext[k.from].active) /\ call = NewCall(k)
  BY DEF RoutingInit
<1>2. /\ DOMAIN call = Fields /\ call.from = k.from /\ call.phase = "incoming"
      /\ call.trunks = << >> /\ call.callerId = call.from /\ call.lines = << >>
  BY <1>1 DEF NewCall, Fields
<1>3. PlanInv
  BY <1>1, <1>2 DEF RoutingInit, PlanInv
<1>4. Decent(cfg, << >>)
  BY NoLine, PlainIsDecent
<1>5. NumberInv
  BY <1>2, <1>3, <1>4, CallerIs DEF NumberInv, Allowed
<1>6. BlockedInv /\ PlacedInv
  BY <1>2 DEF BlockedInv, PlacedInv
<1> QED
  BY <1>3, <1>5, <1>6 DEF CallInv

\* The line that is passed and those that are left.
LEMMA RestIs ==
    ASSUME NEW s, IsSequence(s), s # << >>
    PROVE  /\ IsSequence(Tail(s)) /\ Len(s) >= 1 /\ 1 \in DOMAIN s /\ Head(s) = s[1]
           /\ Len(Tail(s)) = Len(s) - 1
           /\ \A k \in DOMAIN Tail(s) : k + 1 \in DOMAIN s /\ Tail(s)[k] = s[k + 1]
<1> DEFINE S == {s[k] : k \in DOMAIN s}
<1>1. s \in Seq(S)
  BY DEF IsSequence
<1> HIDE DEF S
<1>2. Tail(s) \in Seq(S)
  BY <1>1
<1>3. IsSequence(Tail(s))
  BY <1>2, SequenceIs
<1>4. Len(s) \in Nat /\ DOMAIN s = 1..Len(s) /\ Len(s) >= 1 /\ Head(s) = s[1]
  BY <1>1
<1>5. Len(Tail(s)) = Len(s) - 1 /\ DOMAIN Tail(s) = 1..(Len(s) - 1)
  BY <1>1, <1>2, <1>4
<1>6. \A k \in 1..(Len(s) - 1) : Tail(s)[k] = s[k + 1]
  BY <1>1, <1>4
<1> QED
  BY <1>3, <1>4, <1>5, <1>6

\* What is left of lines with some applications.
LEMMA RestOfLines ==
    ASSUME NEW apps, NEW s, LinesOf(s, apps), s # << >>
    PROVE  LinesOf(Tail(s), apps) /\ Head(s).app \in apps
BY RestIs DEF LinesOf

\* What is left of decent lines.
LEMMA RestIsDecent ==
    ASSUME NEW c, NEW s, Decent(c, s), s # << >>
    PROVE  /\ Decent(c, Tail(s)) /\ (Head(s).app \notin Plain => LinesOf(Tail(s), Quiet))
           /\ (Head(s).app = "caller-id" => Head(s).arg \in RouteNumbers(c))
<1>1. IsSequence(s)
  BY DEF Decent
<1>2. /\ IsSequence(Tail(s)) /\ 1 \in DOMAIN s /\ Head(s) = s[1]
      /\ \A k \in DOMAIN Tail(s) : k + 1 \in DOMAIN s /\ Tail(s)[k] = s[k + 1]
      /\ DOMAIN Tail(s) = 1..Len(Tail(s)) /\ Len(Tail(s)) \in Nat
  BY <1>1, RestIs, SequenceIs
<1> DEFINE t == Tail(s)
<1> HIDE DEF t
<1>3. ASSUME NEW k \in DOMAIN t
      PROVE  /\ t[k].app \in Plain \union {"caller-id", "caller-id-of"}
             /\ t[k].app = "caller-id" => t[k].arg \in RouteNumbers(c)
             /\ t[k].app \notin Plain => \A m \in DOMAIN t : k < m => t[m].app \in Quiet
  <2>1. k + 1 \in DOMAIN s /\ t[k] = s[k + 1] /\ k \in Nat
    BY <1>2 DEF t
  <2>2. ASSUME NEW m \in DOMAIN t, k < m, t[k].app \notin Plain PROVE t[m].app \in Quiet
    <3>1. m + 1 \in DOMAIN s /\ t[m] = s[m + 1] /\ m \in Nat
      BY <1>2 DEF t
    <3> QED
      BY <2>1, <2>2, <3>1 DEF Decent
  <2> QED
    BY <2>1, <2>2 DEF Decent
<1>4. Decent(c, t)
  BY <1>2, <1>3 DEF Decent, t
<1>5. ASSUME s[1].app \notin Plain PROVE LinesOf(t, Quiet)
  <2>1. ASSUME NEW k \in DOMAIN t PROVE t[k].app \in Quiet
    <3>1. k + 1 \in DOMAIN s /\ t[k] = s[k + 1] /\ k \in Nat /\ 1 < k + 1
      BY <1>2 DEF t
    <3> QED
      BY <1>2, <1>5, <3>1 DEF Decent
  <2> QED
    BY <1>2, <2>1 DEF LinesOf, t
<1> QED
  BY <1>2, <1>4, <1>5 DEF Decent, t

\* What a step leaves of a caller.
LEMMA SameCaller ==
    ASSUME Keeps
    PROVE  Caller' = Caller /\ IsEmergency' = IsEmergency /\ \A e : Allowed(e)' = Allowed(e)
BY DEF Keeps, Caller, FromPhone, IsEmergency, Allowed

\* No step makes the number of the caller one that is not allowed.
LEMMA NumberStep ==
    ASSUME ConfigsAssumption, CallInv, RoutingNext
    PROVE  NumberInv'
<1>1. Keeps /\ cfg' = cfg
  BY StepIs DEF CallInv, PlanInv, Keeps
<1>2. SUFFICES ASSUME NEW e \in Caller
               PROVE  /\ call'.callerId \in Allowed(e)
                      /\ Decent(cfg, call'.lines)
                      /\ call'.callerId # e => /\ call'.phase # "incoming"
                                             /\ LinesOf(call'.lines, Quiet)
  BY <1>1, SameCaller DEF NumberInv
<1>3. /\ e = call.from /\ e \in ActiveRows(cfg.ext) /\ PlanInv
      /\ call.callerId \in Allowed(e) /\ Decent(cfg, call.lines)
      /\ call.callerId # e => call.phase # "incoming" /\ LinesOf(call.lines, Quiet)
  BY CallerIs DEF CallInv, NumberInv
<1>4. ASSUME NEW context, NEW exten, Enters(context, exten), call.callerId = e
      PROVE  call'.callerId = e /\ Decent(cfg, call'.lines)
  <2>1. Decent(cfg, << >>)
    BY NoLine, PlainIsDecent
  <2>2. \A n \in plan : Decent(cfg, n.lines)
    BY <1>3, PlanIs DEF PlanInv
  <2> QED
    BY <1>4, <2>1, <2>2 DEF Enters
<1>5. CASE call.phase = "incoming" /\ Enters(Entrance(call.from), call.number)
  BY <1>3, <1>4, <1>5
<1>6. CASE \E app \in {"goto", "if-business-hours", "wait-digit"} :
              Running(app) /\ \E context, exten : Enters(context, exten)
  <2>1. call.lines # << >> /\ Current.app \notin Quiet
    BY <1>6 DEF Running, Quiet
  <2>2. call.callerId = e
    BY <1>3, <2>1, RestOfLines DEF Current
  <2> QED
    BY <1>3, <1>4, <1>6, <2>2
<1>7. CASE Passes /\ call'.callerId \in NumberAfter
  <2>1. /\ call.lines # << >> /\ call'.lines = Tail(call.lines) /\ call'.phase = "running"
        /\ Decent(cfg, call'.lines)
        /\ Current.app \notin Plain => LinesOf(call'.lines, Quiet)
        /\ Current.app = "caller-id" => Current.arg \in RouteNumbers(cfg)
    BY <1>3, <1>7, RestIsDecent DEF Passes, Rest, Current
  <2>2. call.callerId # e => Current.app \in Quiet /\ LinesOf(call'.lines, Quiet)
    BY <1>3, <2>1, RestOfLines DEF Current
  <2>3. CASE Current.app = "caller-id"
    <3>1. call'.callerId = Current.arg /\ LinesOf(call'.lines, Quiet)
      BY <1>7, <2>1, <2>3 DEF NumberAfter, Plain, Quiet
    <3> QED
      BY <2>1, <2>3, <3>1 DEF Allowed
  <2>4. CASE Current.app = "caller-id-of"
    <3>1. call.callerId = e /\ LinesOf(call'.lines, Quiet)
      BY <2>1, <2>2, <2>4 DEF Plain, Quiet
    <3>2. call'.callerId \in CallerIdsOf(cfg, e)
      BY <1>7, <2>4, <3>1 DEF NumberAfter
    <3>3. CallerIdsOf(cfg, e) \subseteq Allowed(e)
      BY <1>3 DEF CallerIdsOf, DirectDids, Allowed, RouteNumbers
    <3> QED
      BY <2>1, <3>1, <3>2, <3>3
  <2>5. CASE Current.app \notin {"caller-id", "caller-id-of"}
    <3>1. call'.callerId = call.callerId
      BY <1>7, <2>5 DEF NumberAfter
    <3> QED
      BY <1>3, <2>1, <2>2, <3>1
  <2> QED
    BY <2>3, <2>4, <2>5
<1>8. CASE Leaves
  <2>1. call'.lines = << >> /\ call'.callerId = call.callerId /\ call'.phase # "incoming"
    BY <1>8 DEF Leaves
  <2>2. Decent(cfg, << >>) /\ LinesOf(<< >>, Quiet)
    BY NoLine, PlainIsDecent
  <2> QED
    BY <1>3, <2>1, <2>2
<1> QED
  BY <1>3, <1>5, <1>6, <1>7, <1>8, StepIs DEF PlanInv

\* No step takes a blocked emergency call to a trunk.
LEMMA BlockedStep ==
    ASSUME ConfigsAssumption, CallInv, RoutingNext
    PROVE  BlockedInv'
<1>1. Keeps /\ cfg' = cfg
  BY StepIs DEF CallInv, PlanInv, Keeps
<1>2. SUFFICES ASSUME NEW e \in Caller, ~cfg.ext[e].emergency, IsEmergency
               PROVE  /\ call'.trunks = << >>
                      /\ LinesOf(call'.lines, {"playback", "hangup"})
  BY <1>1, SameCaller DEF BlockedInv
<1>3. /\ e = call.from /\ Calling(e) /\ PlanInv /\ call.trunks = << >>
      /\ Entrance(call.from) = Named("from-pjsip")
      /\ call.phase # "incoming" => LinesOf(call.lines, {"playback", "hangup"})
  BY <1>2, CallerIs DEF CallInv, BlockedInv
<1>4. ASSUME call.phase = "running", call.lines # << >>
      PROVE  /\ Current.app \in {"playback", "hangup"}
             /\ LinesOf(Rest, {"playback", "hangup"})
  BY <1>3, <1>4, RestOfLines DEF Current, Rest
<1>5. CASE call.phase = "incoming" /\ Enters(Entrance(call.from), call.number)
  <2>1. /\ Found(Named("from-pjsip"), call.number, e) # {}
        /\ \A n \in Found(Named("from-pjsip"), call.number, e) :
              LinesOf(n.lines, {"playback", "hangup"})
    BY <1>2, <1>3, BlockedFinds DEF PlanInv
  <2> QED
    BY <1>3, <1>5, <2>1 DEF Enters
<1>6. CASE \E app \in {"goto", "if-business-hours", "wait-digit"} :
              Running(app) /\ \E context, exten : Enters(context, exten)
  BY <1>4, <1>6 DEF Running
<1>7. CASE Passes /\ call'.trunks = TrunksAfter
  BY <1>3, <1>4, <1>7 DEF Passes, TrunksAfter
<1>8. CASE Leaves
  <2>1. call'.lines = << >> /\ call'.trunks = call.trunks
    BY <1>4, <1>8 DEF Leaves, Running
  <2> QED
    BY <1>3, <2>1, NoLine
<1> QED
  BY <1>3, <1>5, <1>6, <1>7, <1>8, StepIs DEF PlanInv

-----------------------------------------------------------------------------
(* The lines of an emergency route.                                        *)

\* A line before others.
LEMMA LineBefore ==
    ASSUME NEW app, NEW arg, NEW rest, IsSequence(rest)
    PROVE  LET s == <<Line(app, arg)>> \o rest IN
           /\ IsSequence(s) /\ s # << >> /\ Head(s) = Line(app, arg) /\ Tail(s) = rest
<1> DEFINE first == <<Line(app, arg)>>
           s == first \o rest
<1>1. IsSequence(first) /\ Len(first) = 1 /\ first[1] = Line(app, arg) /\ DOMAIN first = 1..1
  BY OneLine
<1> HIDE DEF first
<1>2. /\ IsSequence(s) /\ Len(s) = 1 + Len(rest) /\ s[1] = first[1]
      /\ \A k \in DOMAIN rest : s[k + 1] = rest[k]
  <2>1. /\ IsSequence(s) /\ Len(s) = Len(first) + Len(rest)
        /\ \A k \in DOMAIN first : s[k] = first[k]
        /\ DOMAIN s = 1..(Len(first) + Len(rest))
        /\ \A k \in DOMAIN s :
              \/ k \in DOMAIN first /\ s[k] = first[k]
              \/ k > Len(first) /\ s[k] = rest[k - Len(first)]
    BY <1>1, Joined
  <2>2. Len(rest) \in Nat /\ DOMAIN rest = 1..Len(rest)
    BY SequenceIs
  <2> HIDE DEF s
  <2>3. ASSUME NEW k \in DOMAIN rest PROVE s[k + 1] = rest[k]
    <3>1. k + 1 \in DOMAIN s /\ k + 1 \notin DOMAIN first /\ k + 1 - 1 = k
      BY <1>1, <2>1, <2>2
    <3> QED
      BY <1>1, <2>1, <3>1
  <2> QED
    BY <1>1, <2>1, <2>2, <2>3
<1> HIDE DEF s
<1>3. s # << >> /\ Head(s) = first[1]
  <2>1. Len(rest) \in Nat /\ Len(<< >>) = 0
    BY SequenceIs, NoLine
  <2>2. s # << >>
    BY <1>2, <2>1
  <2> QED
    BY <1>2, <2>2, RestIs
<1>4. Tail(s) = rest
  <2>1. /\ IsSequence(Tail(s)) /\ Len(Tail(s)) = Len(rest) /\ Len(rest) \in Nat
        /\ \A k \in DOMAIN Tail(s) : Tail(s)[k] = s[k + 1]
    BY <1>2, <1>3, RestIs, SequenceIs
  <2>2. \A k \in 1..Len(rest) : Tail(s)[k] = rest[k]
    BY <1>2, <2>1, SequenceIs
  <2> QED
    BY <2>1, <2>2, SameSequence
<1> QED
  BY <1>1, <1>2, <1>3, <1>4 DEF s, first

\* The lines of an emergency route begin with the emergency number of the location.
LEMMA RouteBegins ==
    ASSUME NEW c, NEW r, r.source = "emergency", c.emergencyId # Nothing, IsSequence(r.trunks)
    PROVE  LET s == RouteLines(c, r) IN
           /\ IsSequence(s) /\ s # << >> /\ Head(s) = Line("caller-id", c.emergencyId)
           /\ Tail(s) = Way(c, r) \o Hangup
<1> DEFINE first == <<Line("caller-id", c.emergencyId)>>
           w == Way(c, r)
           rest == w \o Hangup
<1>1. CallerIdLines(c, r) = first
  BY DEF CallerIdLines
<1>2. IsSequence(first) /\ IsSequence(w) /\ IsSequence(Hangup) /\ IsSequence(rest)
  BY OneLine, WayIsQuiet, Pieces DEF LinesOf
<1>3. RouteLines(c, r) = first \o w \o Hangup
  BY <1>1, RouteLinesAre
<1> HIDE DEF w
<1>4. first \o w \o Hangup = first \o rest
  BY <1>2, Associative
<1> HIDE DEF rest
<1> DEFINE s == first \o rest
<1>5. IsSequence(s) /\ s # << >> /\ Head(s) = Line("caller-id", c.emergencyId) /\ Tail(s) = rest
  BY <1>2, LineBefore
<1>6. RouteLines(c, r) = s
  BY <1>3, <1>4
<1> HIDE DEF s
<1> QED
  BY <1>5, <1>6 DEF rest, w

\* The trunks are dialled one after the other.
LEMMA DialsRemain ==
    ASSUME NEW c, NEW r, IsSequence(r.trunks)
    PROVE  Remaining(c, r, 0, Dials(c, r) \o Hangup)
<1> DEFINE T == ActiveTrunks(c, r)
           d == Dials(c, r)
           s == d \o Hangup
<1>1. IsSequence(T) /\ IsSequence(d) /\ Len(d) = Len(T)
  BY WayIsQuiet
<1>2. Len(T) \in Nat /\ DOMAIN T = 1..Len(T) /\ DOMAIN d = 1..Len(T)
  BY <1>1, SequenceIs
<1>3. \A k \in 1..Len(T) : d[k] = Line("dial", {<<"trunk", T[k]>>})
  BY <1>2 DEF Dials
<1>4. IsSequence(Hangup) /\ Len(Hangup) = 1 /\ Hangup[1] = Line("hangup", Nothing)
      /\ DOMAIN Hangup = 1..1
  BY OneLine DEF Hangup
<1> HIDE DEF d, T
<1>5. /\ IsSequence(s) /\ Len(s) = Len(d) + Len(Hangup)
      /\ DOMAIN s = 1..(Len(d) + Len(Hangup))
      /\ \A k \in DOMAIN d : k \in DOMAIN s /\ s[k] = d[k]
      /\ \A k \in DOMAIN s :
            \/ k \in DOMAIN d /\ s[k] = d[k]
            \/ k > Len(d) /\ s[k] = Hangup[k - Len(d)]
  BY <1>1, <1>4, Joined
<1> HIDE DEF s
<1>6. IsSequence(s) /\ Len(s) = Len(T) - 0 + 1 /\ 0 \in 0..Len(T)
  BY <1>1, <1>2, <1>4, <1>5
<1>7. \A k \in 1..(Len(T) - 0) : s[k] = Line("dial", {<<"trunk", T[0 + k]>>})
  BY <1>2, <1>3, <1>5
<1>8. s[Len(T) - 0 + 1] = Line("hangup", Nothing)
  <2>1. Len(T) + 1 \in DOMAIN s /\ Len(T) + 1 \notin DOMAIN d /\ Len(T) + 1 - Len(d) = 1
    BY <1>1, <1>2, <1>4, <1>5
  <2>2. s[Len(T) + 1] = Hangup[1]
    BY <1>5, <2>1
  <2> QED
    BY <1>2, <1>4, <2>2
<1> QED
  BY <1>6, <1>7, <1>8 DEF Remaining, s, d, T

\* Before that there may be a line that records, or one that announces that there is no
\* trunk.
LEMMA WayLeads ==
    ASSUME NEW c, NEW r, IsSequence(r.trunks)
    PROVE  LET s == Way(c, r) \o Hangup IN
           \/ Remaining(c, r, 0, s)
           \/ /\ s # << >> /\ Head(s).app \in {"record", "playback"}
              /\ Remaining(c, r, 0, Tail(s))
<1> DEFINE T == ActiveTrunks(c, r)
           d == Dials(c, r)
<1>1. IsSequence(T) /\ IsSequence(d) /\ IsSequence(Hangup) /\ IsSequence(d \o Hangup)
  BY WayIsQuiet, Pieces, Joined DEF LinesOf
<1>2. \A app, arg : Line(app, arg).app = app
  BY DEF Line
<1>3. CASE T = << >>
  <2>1. Way(c, r) = <<Line("playback", Nothing)>>
    BY <1>3 DEF Way, Playback
  <2>2. Remaining(c, r, 0, Hangup)
    BY <1>3, OneLine DEF Remaining, Hangup
  <2> QED
    <3> DEFINE s == <<Line("playback", Nothing)>> \o Hangup
    <3>1. s # << >> /\ Head(s) = Line("playback", Nothing) /\ Tail(s) = Hangup
      BY <1>1, LineBefore
    <3>2. Way(c, r) \o Hangup = s
      BY <2>1
    <3> HIDE DEF s
    <3> QED
      BY <1>2, <2>2, <3>1, <3>2
<1>4. CASE T # << >> /\ r.record
  <2> DEFINE hook == <<Line("record", <<"route", r.pattern>>)>>
  <2>1. Way(c, r) = hook \o d
    BY <1>4 DEF Way, RecordHook
  <2>2. IsSequence(hook)
    BY OneLine
  <2> HIDE DEF d, hook
  <2>3. IsSequence(d) /\ IsSequence(Hangup)
    BY <1>1
  <2>4. hook \o d \o Hangup = hook \o (d \o Hangup)
    BY ONLY <2>2, <2>3, Associative
  <2>5. Way(c, r) \o Hangup = hook \o (d \o Hangup)
    BY ONLY <2>1, <2>4
  <2> USE DEF hook
  <2>6. LET s == hook \o (d \o Hangup) IN
        s # << >> /\ Head(s).app = "record" /\ Tail(s) = d \o Hangup
    BY <1>1, <1>2, LineBefore
  <2> HIDE DEF hook
  <2>7. Remaining(c, r, 0, d \o Hangup)
    BY DialsRemain DEF d
  <2> QED
    BY <2>5, <2>6, <2>7
<1>5. CASE T # << >> /\ ~r.record
  <2>1. Way(c, r) = << >> \o d
    BY <1>5 DEF Way, RecordHook
  <2>2. << >> \o d = d
    <3>1. d \in Seq({d[k] : k \in DOMAIN d})
      BY <1>1 DEF IsSequence
    <3> HIDE DEF d
    <3> QED
      BY <3>1
  <2> QED
    BY <2>1, <2>2, DialsRemain
<1> QED
  BY <1>3, <1>4, <1>5

\* A trunk is dialled, and the next one remains.
LEMMA RemainingIs ==
    ASSUME NEW c, NEW r, IsSequence(r.trunks), NEW m \in Nat, NEW s, Remaining(c, r, m, s)
    PROVE  /\ s # << >>
           /\ \/ /\ m < Len(ActiveTrunks(c, r)) /\ Remaining(c, r, m + 1, Tail(s))
                 /\ Head(s) = Line("dial", {<<"trunk", ActiveTrunks(c, r)[m + 1]>>})
              \/ m = Len(ActiveTrunks(c, r)) /\ Head(s) = Line("hangup", Nothing)
<1> DEFINE T == ActiveTrunks(c, r)
<1>1. Len(T) \in Nat /\ m \in 0..Len(T)
  BY WayIsQuiet, SequenceIs DEF Remaining
<1> HIDE DEF T
<1>2. /\ IsSequence(s) /\ Len(s) = Len(T) - m + 1
      /\ \A k \in 1..(Len(T) - m) : s[k] = Line("dial", {<<"trunk", T[m + k]>>})
      /\ s[Len(T) - m + 1] = Line("hangup", Nothing)
  BY DEF Remaining, T
<1>3. s # << >>
  BY <1>1, <1>2, NoLine
<1>4. /\ Head(s) = s[1] /\ IsSequence(Tail(s)) /\ Len(Tail(s)) = Len(s) - 1
      /\ DOMAIN Tail(s) = 1..(Len(s) - 1)
      /\ \A k \in DOMAIN Tail(s) : Tail(s)[k] = s[k + 1]
  BY <1>2, <1>3, RestIs, SequenceIs
<1>5. CASE m = Len(T)
  BY <1>1, <1>2, <1>3, <1>4, <1>5 DEF T
<1>6. CASE m < Len(T)
  <2> DEFINE t == Tail(s)
  <2> HIDE DEF t
  <2>1. /\ m + 1 \in 0..Len(T) /\ IsSequence(t) /\ Len(t) = Len(T) - (m + 1) + 1
    BY <1>1, <1>2, <1>4, <1>6 DEF t
  <2>2. ASSUME NEW k \in 1..(Len(T) - (m + 1))
        PROVE  t[k] = Line("dial", {<<"trunk", T[m + 1 + k]>>})
    <3>1. k \in 1..(Len(s) - 1) /\ k + 1 \in 1..(Len(T) - m) /\ m + (k + 1) = m + 1 + k
      BY <1>1, <1>2, <1>6
    <3> QED
      BY <1>2, <1>4, <3>1 DEF t
  <2>3. t[Len(T) - (m + 1) + 1] = Line("hangup", Nothing)
    <3>1. Len(T) - (m + 1) + 1 \in 1..(Len(s) - 1)
          /\ Len(T) - (m + 1) + 1 + 1 = Len(T) - m + 1
      BY <1>1, <1>2, <1>6
    <3> QED
      BY <1>2, <1>4, <3>1 DEF t
  <2>4. Remaining(c, r, m + 1, t)
    BY <2>1, <2>2, <2>3 DEF Remaining, T
  <2>5. Head(s) = Line("dial", {<<"trunk", T[m + 1]>>})
    <3>1. 1 \in 1..(Len(T) - m)
      BY <1>1, <1>6
    <3> QED
      BY <1>2, <1>4, <3>1
  <2> QED
    BY <1>3, <1>6, <2>4, <2>5 DEF t, T
<1> QED
  BY <1>1, <1>5, <1>6

-----------------------------------------------------------------------------
(* An emergency call keeps to its route.                                   *)

\* A line that dials one trunk.
LEMMA OneTrunk ==
    ASSUME DOMAIN call = Fields, NEW x, Current = Line("dial", {<<"trunk", x>>})
    PROVE  Current.app = "dial" /\ Offered.trunks = Append(call.trunks, x)
<1>1. Current.app = "dial" /\ Current.arg = {<<"trunk", x>>}
  BY DEF Line
<1>2. {y \in Current.arg : y[1] = "trunk"} = {<<"trunk", x>>}
  BY <1>1
<1>3. (CHOOSE y \in {<<"trunk", x>>} : TRUE) = <<"trunk", x>>
  OBVIOUS
<1>4. Offered.trunks = Append(call.trunks, <<"trunk", x>>[2])
  <2> DEFINE trunks == {y \in Current.arg : y[1] = "trunk"}
  <2>1. trunks = {<<"trunk", x>>}
    BY <1>2
  <2>2. Offered.trunks = IF trunks = {} THEN call.trunks
                         ELSE Append(call.trunks, (CHOOSE y \in trunks : TRUE)[2])
    BY OfferedIs
  <2> HIDE DEF trunks
  <2> QED
    BY <1>3, <2>1, <2>2
<1> QED
  BY <1>1, <1>4

\* One more trunk of the route was dialled.
LEMMA OneMore ==
    ASSUME NEW r, IsSequence(r.trunks), NEW m \in Nat, Dialled(r, m),
           m < Len(ActiveTrunks(cfg, r)),
           call'.trunks = Append(call.trunks, ActiveTrunks(cfg, r)[m + 1]), cfg' = cfg
    PROVE  Dialled(r, m + 1)'
<1> DEFINE T == ActiveTrunks(cfg, r)
<1>1. PICK was : was = call.trunks
  OBVIOUS
<1>2. PICK now : now = call'.trunks
  OBVIOUS
<1>3. /\ now = Append(was, T[m + 1]) /\ IsSequence(was) /\ Len(was) = m
      /\ \A k \in 1..m : was[k] = T[k]
  BY <1>1, <1>2 DEF Dialled
<1> HIDE DEF T
<1> DEFINE S == {was[k] : k \in DOMAIN was} \union {T[m + 1]}
<1>4. was \in Seq(S) /\ T[m + 1] \in S
  <2>1. was \in Seq({was[k] : k \in DOMAIN was})
    BY <1>3 DEF IsSequence
  <2>2. {was[k] : k \in DOMAIN was} \subseteq S /\ T[m + 1] \in S
    OBVIOUS
  <2> HIDE DEF S
  <2> QED
    BY <2>1, <2>2
<1> HIDE DEF S
<1>5. now \in Seq(S) /\ Len(now) = m + 1 /\ now[m + 1] = T[m + 1]
      /\ \A k \in 1..m : now[k] = was[k]
  BY <1>3, <1>4
<1>6. IsSequence(now) /\ \A k \in 1..(m + 1) : now[k] = T[k]
  <2>1. IsSequence(now)
    BY <1>5, SequenceIs
  <2>2. \A k \in 1..(m + 1) : k \in 1..m \/ k = m + 1
    OBVIOUS
  <2> QED
    BY <1>3, <1>5, <2>1, <2>2
<1>7. IsSequence(call'.trunks) /\ Len(call'.trunks) = m + 1
      /\ \A k \in 1..(m + 1) : call'.trunks[k] = ActiveTrunks(cfg', r)[k]
  BY <1>2, <1>5, <1>6 DEF T
<1> QED
  BY <1>7 DEF Dialled

\* A step from a route's lines keeps to them, or ends the call there.
LEMMA RouteStep ==
    ASSUME PlanInv, RoutingNext, Keeps, NEW r, IsSequence(r.trunks), OnRoute(r),
           r.source = "emergency", cfg.emergencyId # Nothing
    PROVE  OnRoute(r)'
<1>1. \/ call.phase = "incoming" /\ Enters(Entrance(call.from), call.number)
      \/ \E app \in {"goto", "if-business-hours", "wait-digit"} : Running(app)
      \/ Passes /\ call'.callerId \in NumberAfter /\ call'.trunks = TrunksAfter
      \/ Leaves
  BY StepIs DEF PlanInv
<1>2. cfg' = cfg /\ DOMAIN call = Fields
  BY DEF Keeps, PlanInv
<1>3. \A app, arg : Line(app, arg).app = app /\ Line(app, arg).arg = arg
  BY DEF Line
<1>4. CASE call.phase = "running" /\ call.trunks = << >> /\ call.lines = RouteLines(cfg, r)
  <2>1. /\ call.lines # << >> /\ Current = Line("caller-id", cfg.emergencyId)
        /\ Rest = Way(cfg, r) \o Hangup
    BY <1>4, RouteBegins DEF Current, Rest
  <2>2. Current.app = "caller-id" /\ Current.arg = cfg.emergencyId
    BY <1>3, <2>1
  <2>3. Passes /\ call'.callerId = cfg.emergencyId /\ call'.trunks = << >>
    <3>1. Passes /\ call'.callerId \in NumberAfter /\ call'.trunks = TrunksAfter
      BY <1>1, <1>4, <2>1, <2>2 DEF Running, Leaves
    <3> QED
      BY <1>4, <2>2, <3>1 DEF NumberAfter, TrunksAfter
  <2>4. PICK s : s = Way(cfg, r) \o Hangup
    OBVIOUS
  <2>5. call'.lines = s /\ call'.phase = "running"
    BY <2>1, <2>3, <2>4 DEF Passes
  <2>6. \/ Remaining(cfg, r, 0, s)
        \/ s # << >> /\ Head(s).app \in {"record", "playback"} /\ Remaining(cfg, r, 0, Tail(s))
    BY <2>4, WayLeads
  <2>7. CASE Remaining(cfg, r, 0, s)
    <3>1. Dialled(r, 0)'
      BY <2>3, NoLine DEF Dialled
    <3>2. Remaining(cfg', r, 0, call'.lines) /\ 0 \in Nat
      BY <1>2, <2>5, <2>7
    <3> QED
      BY <1>2, <2>3, <2>5, <3>1, <3>2 DEF OnRoute
  <2>8. CASE s # << >> /\ Head(s).app \in {"record", "playback"}
             /\ Remaining(cfg, r, 0, Tail(s))
    BY <1>2, <2>3, <2>5, <2>8 DEF OnRoute, Current, Rest
  <2> QED
    BY <2>6, <2>7, <2>8
<1>5. CASE /\ call.callerId = cfg.emergencyId
           /\ call.phase = "running" /\ call.trunks = << >> /\ call.lines # << >>
           /\ Current.app \in {"record", "playback"} /\ Remaining(cfg, r, 0, Rest)
  <2>1. Passes /\ call'.callerId = cfg.emergencyId /\ call'.trunks = << >>
    <3>1. Passes /\ call'.callerId \in NumberAfter /\ call'.trunks = TrunksAfter
      BY <1>1, <1>5 DEF Running, Leaves
    <3> QED
      BY <1>5, <3>1 DEF NumberAfter, TrunksAfter
  <2>2. call'.lines = Rest /\ call'.phase = "running"
    BY <2>1 DEF Passes
  <2>3. Dialled(r, 0)'
    BY <2>1, NoLine DEF Dialled
  <2>4. Remaining(cfg', r, 0, call'.lines) /\ 0 \in Nat
    BY <1>2, <1>5, <2>2
  <2> QED
    BY <1>2, <2>1, <2>2, <2>3, <2>4 DEF OnRoute
<1>6. ASSUME NEW m \in Nat, call.callerId = cfg.emergencyId, call.phase = "running",
             Dialled(r, m), Remaining(cfg, r, m, call.lines)
      PROVE  OnRoute(r)'
  <2> DEFINE T == ActiveTrunks(cfg, r)
  <2>1. /\ call.lines # << >>
        /\ \/ /\ m < Len(T) /\ Remaining(cfg, r, m + 1, Rest)
              /\ Current = Line("dial", {<<"trunk", T[m + 1]>>})
           \/ m = Len(T) /\ Current = Line("hangup", Nothing)
    BY <1>6, RemainingIs DEF Current, Rest
  <2>2. CASE /\ m < Len(T) /\ Remaining(cfg, r, m + 1, Rest)
             /\ Current = Line("dial", {<<"trunk", T[m + 1]>>})
    <3>1. Current.app = "dial" /\ Offered.trunks = Append(call.trunks, T[m + 1])
      BY <1>2, <2>2, OneTrunk
    <3>2. CASE Leaves
      <4>1. call'.phase = "talking" /\ call'.callerId = call.callerId
        BY <2>1, <3>1, <3>2 DEF Leaves, Running
      <4> QED
        BY <1>2, <1>6, <4>1 DEF OnRoute
    <3>3. CASE Passes /\ call'.callerId \in NumberAfter /\ call'.trunks = TrunksAfter
      <4>1. /\ call'.callerId = cfg.emergencyId /\ call'.trunks = Append(call.trunks, T[m + 1])
            /\ call'.lines = Rest /\ call'.phase = "running"
        BY <1>6, <3>1, <3>3 DEF NumberAfter, TrunksAfter, Passes
      <4>2. Dialled(r, m + 1)'
        BY <1>2, <1>6, <2>2, <4>1, OneMore
      <4>3. Remaining(cfg', r, m + 1, call'.lines) /\ m + 1 \in Nat
        BY <1>2, <2>2, <4>1
      <4> QED
        BY <1>2, <4>1, <4>2, <4>3 DEF OnRoute
    <3> QED
      BY <1>1, <1>6, <3>1, <3>2, <3>3 DEF Running
  <2>3. CASE m = Len(T) /\ Current = Line("hangup", Nothing)
    <3>1. Current.app = "hangup"
      BY <1>3, <2>3
    <3>2. call.trunks = T
      BY <1>6, <2>3, WayIsQuiet, SameSequence DEF Dialled
    <3>3. CASE Leaves
      <4>1. /\ call'.phase = "ended" /\ call'.callerId = call.callerId
            /\ call'.trunks = call.trunks
        BY <2>1, <3>1, <3>3 DEF Leaves, Running
      <4> QED
        BY <1>2, <1>6, <3>2, <4>1 DEF OnRoute
    <3>4. ~Passes
      BY <3>1 DEF Passes
    <3> QED
      BY <1>1, <1>6, <3>1, <3>3, <3>4 DEF Running
  <2> QED
    BY <2>1, <2>2, <2>3
<1>7. call.phase = "running"
  BY <1>1 DEF OnRoute, Running, Passes, Leaves
<1> QED
  BY <1>4, <1>5, <1>6, <1>7 DEF OnRoute

\* No step takes an emergency call off its route.
LEMMA PlacedStep ==
    ASSUME ConfigsAssumption, CallInv, RoutingNext
    PROVE  PlacedInv'
<1>1. Keeps /\ cfg' = cfg /\ call'.number = call.number /\ PlanInv
  BY StepIs DEF CallInv, PlanInv, Keeps
<1>2. SUFFICES ASSUME NEW e \in Caller, cfg.ext[e].emergency, IsEmergency
               PROVE  \E n \in RoutesFor(cfg, TRUE) :
                         /\ call.number \in cfg.route[n].pattern
                         /\ IsSequence(cfg.route[n].trunks) /\ OnRoute(cfg.route[n])'
  BY <1>1, SameCaller DEF PlacedInv
<1>3. e = call.from /\ Calling(e) /\ Entrance(call.from) = Named("from-pjsip")
  BY <1>1, <1>2, CallerIs
<1>4. CASE call.phase = "incoming" /\ call.trunks = << >>
  <2>1. Enters(Named("from-pjsip"), call.number)
    BY <1>1, <1>3, <1>4, StepIs DEF PlanInv, Running, Passes, Leaves
  <2>2. /\ Found(Named("from-pjsip"), call.number, e) # {}
        /\ \A n \in Found(Named("from-pjsip"), call.number, e) :
              \E m \in RoutesFor(cfg, TRUE) :
                 /\ call.number \in cfg.route[m].pattern
                 /\ n.lines = RouteLines(cfg, cfg.route[m])
                 /\ IsSequence(cfg.route[m].trunks)
    BY <1>1, <1>2, <1>3, OthersFind DEF PlanInv
  <2>3. PICK n \in Found(Named("from-pjsip"), call.number, e) :
           call'.lines = n.lines /\ call'.phase = "running" /\ call'.trunks = call.trunks
    BY <1>3, <2>1, <2>2 DEF Enters
  <2>4. PICK m \in RoutesFor(cfg, TRUE) :
           /\ call.number \in cfg.route[m].pattern
           /\ n.lines = RouteLines(cfg, cfg.route[m]) /\ IsSequence(cfg.route[m].trunks)
    BY <2>2, <2>3
  <2>5. PICK r : r = cfg.route[m]
    OBVIOUS
  <2>6. OnRoute(r)'
    BY <1>1, <1>4, <2>3, <2>4, <2>5 DEF OnRoute
  <2>7. OnRoute(cfg.route[m])'
    BY <1>1, <2>5, <2>6
  <2> QED
    BY <2>4, <2>7
<1>5. ASSUME NEW n \in RoutesFor(cfg, TRUE), call.number \in cfg.route[n].pattern,
             IsSequence(cfg.route[n].trunks), OnRoute(cfg.route[n])
      PROVE  OnRoute(cfg.route[n])'
  <2>1. cfg.route[n].source = "emergency" /\ cfg.emergencyId # Nothing
    <3>1. n \in DOMAIN cfg.route /\ cfg.route[n].emergency
      BY DEF RoutesFor, ActiveRows
    <3>2. cfg.emergencyId # Nothing
      BY <1>1, <1>2, <1>3 DEF PlanInv, Exportable, EmergencyReady, Calling
    <3> QED
      BY <1>1, <3>1, <3>2 DEF PlanInv, Valid, RoutesValid
  <2>2. PICK r : r = cfg.route[n]
    OBVIOUS
  <2>3. OnRoute(r)'
    BY <1>1, <1>5, <2>1, <2>2, RouteStep
  <2> QED
    BY <1>1, <2>2, <2>3
<1> QED
  BY <1>2, <1>4, <1>5 DEF CallInv, PlacedInv

\* Every step keeps the invariant.
LEMMA CallGoesOn ==
    ASSUME ConfigsAssumption, CallInv, [RoutingNext]_routingVars
    PROVE  CallInv'
<1>1. CASE RoutingNext
  <2>1. Keeps
    BY <1>1, StepIs DEF CallInv, PlanInv
  <2>2. PlanInv'
    BY <2>1 DEF CallInv, PlanInv, Keeps
  <2> QED
    BY <1>1, <2>2, NumberStep, BlockedStep, PlacedStep DEF CallInv
<1>2. CASE UNCHANGED routingVars
  <2>1. cfg' = cfg /\ plan' = plan /\ call' = call
    BY <1>2 DEF routingVars
  <2>2. PlanInv'
    BY <2>1 DEF CallInv, PlanInv
  <2>3. Caller' = Caller /\ IsEmergency' = IsEmergency
    BY <2>1 DEF Caller, FromPhone, IsEmergency
  <2>4. NumberInv' /\ BlockedInv'
    BY <2>1, <2>3 DEF CallInv, NumberInv, BlockedInv, Allowed
  <2>5. PlacedInv'
    BY <2>1, <2>3 DEF CallInv, PlacedInv, OnRoute, Dialled, Current, Rest
  <2> QED
    BY <2>2, <2>4, <2>5 DEF CallInv
<1> QED
  BY <1>1, <1>2

\* The trunks of the route, all of them, are those that are active, in their order.
LEMMA RouteIsOffered ==
    ASSUME NEW r, IsSequence(r.trunks), call.trunks = ActiveTrunks(cfg, r)
    PROVE  OfferedAll(r.trunks)
<1> DEFINE up == {k \in DOMAIN r.trunks : cfg.trunk[r.trunks[k]]}
<1>1. Selects(cfg, r.trunks, call.trunks, Len(r.trunks))
  BY TrunksInOrder
<1>2. DOMAIN r.trunks = 1..Len(r.trunks)
  BY SequenceIs
<1>3. /\ {call.trunks[k] : k \in DOMAIN call.trunks} = {r.trunks[k] : k \in up}
      /\ InOrder(r.trunks, call.trunks, up)
  BY <1>1, <1>2 DEF Selects
<1> HIDE DEF up
<1> QED
  BY <1>3 DEF OfferedAll, InOrder, up

\* The invariant says what is promised of emergency calls.
LEMMA CallInvImplies ==
    ASSUME ConfigsAssumption, CallInv
    PROVE  EmergencyCalls
<1>1. EmergencyBlocked
  BY DEF CallInv, BlockedInv, EmergencyBlocked
<1>2. EmergencyPlaced
  <2>1. SUFFICES ASSUME NEW e \in Caller, cfg.ext[e].emergency, IsEmergency
                 PROVE  /\ call.trunks # << >> => call.callerId = cfg.emergencyId
                        /\ call.phase # "lost"
                        /\ call.phase = "ended" =>
                              \E n \in RoutesFor(cfg, TRUE) :
                                 /\ call.number \in cfg.route[n].pattern
                                 /\ OfferedAll(cfg.route[n].trunks)
    BY DEF EmergencyPlaced
  <2>2. CASE call.phase = "incoming" /\ call.trunks = << >>
    BY <2>2
  <2>3. ASSUME NEW n \in RoutesFor(cfg, TRUE), call.number \in cfg.route[n].pattern,
               IsSequence(cfg.route[n].trunks), OnRoute(cfg.route[n])
        PROVE  /\ call.trunks # << >> => call.callerId = cfg.emergencyId
               /\ call.phase # "lost"
               /\ call.phase = "ended" => OfferedAll(cfg.route[n].trunks)
    BY <2>3, RouteIsOffered DEF OnRoute
  <2> QED
    BY <2>1, <2>2, <2>3 DEF CallInv, PlacedInv
<1>3. NoForeignCallerId
  BY DEF CallInv, NumberInv, Allowed, RouteNumbers, NoForeignCallerId
<1> QED
  BY <1>1, <1>2, <1>3 DEF EmergencyCalls

\* Emergency calls of phones are placed or blocked as the rows say, for any location: one
\* whose extension may make them is offered to all active trunks of an emergency route, in
\* their order and with the location's number, until one takes it; no other reaches a trunk.
THEOREM EmergencyCallsCorrect ==
    ASSUME ConfigsAssumption
    PROVE  RoutingSpec => []EmergencyCalls
<1>1. RoutingInit => CallInv
  BY CallBegins
<1>2. CallInv /\ [RoutingNext]_routingVars => CallInv'
  BY CallGoesOn
<1>3. CallInv => EmergencyCalls
  BY CallInvImplies
<1> QED
  BY <1>1, <1>2, <1>3, PTL DEF RoutingSpec
-----------------------------------------------------------------------------
(* The entries of the plan, by what they dial and record.                  *)

\* Lines that dial none of the location's extensions but these.
Dialling(s, T) ==
    \A k \in DOMAIN s : s[k].app = "dial" =>
       \A x \in s[k].arg : x[1] = "extension" => x[2] \in T

\* A line that records comes first, when the policy is on, and there is no other.
Hooked(s, on) ==
    /\ on => 1 \in DOMAIN s
    /\ \A k \in DOMAIN s : s[k].app = "record" <=> on /\ k = 1

\* Lines that dial some extensions, and record by a policy or never.
Policed(s, T, on) == IsSequence(s) /\ Dialling(s, T) /\ Hooked(s, on)
Bare(s, T) == IsSequence(s) /\ Dialling(s, T) /\ \A k \in DOMAIN s : s[k].app # "record"

\* Bare lines do not change what is recorded.
LEMMA JoinedBare ==
    ASSUME NEW s, NEW t, NEW T, Bare(t, T)
    PROVE  /\ Bare(s, T) => Bare(s \o t, T)
           /\ \A on : Policed(s, T, on) => Policed(s \o t, T, on)
<1>1. ASSUME IsSequence(s), Dialling(s, T)
      PROVE  /\ IsSequence(s \o t) /\ Dialling(s \o t, T)
             /\ \A k \in DOMAIN s : k \in DOMAIN (s \o t) /\ (s \o t)[k] = s[k]
             /\ \A k \in DOMAIN (s \o t) :
                   \/ k \in DOMAIN s /\ (s \o t)[k] = s[k]
                   \/ k > Len(s) /\ (s \o t)[k].app # "record"
  <2>1. /\ IsSequence(s \o t)
        /\ \A k \in DOMAIN s : k \in DOMAIN (s \o t) /\ (s \o t)[k] = s[k]
        /\ \A k \in DOMAIN (s \o t) :
              \/ k \in DOMAIN s /\ (s \o t)[k] = s[k]
              \/ k > Len(s) /\ k - Len(s) \in DOMAIN t /\ (s \o t)[k] = t[k - Len(s)]
    BY <1>1, Joined DEF Bare
  <2> DEFINE u == s \o t
  <2> HIDE DEF u
  <2>2. Dialling(u, T)
    BY <1>1, <2>1 DEF Bare, Dialling, u
  <2> QED
    BY <2>1, <2>2 DEF Bare, u
<1> DEFINE u == s \o t
<1> HIDE DEF u
<1>2. Bare(s, T) => Bare(u, T)
  BY <1>1 DEF Bare, u
<1>3. ASSUME NEW on, Policed(s, T, on) PROVE Policed(u, T, on)
  <2>1. Len(s) \in Nat /\ DOMAIN s = 1..Len(s)
    BY <1>3, SequenceIs DEF Policed
  <2>2. on => 1 \in DOMAIN u
    BY <1>1, <1>3 DEF Policed, Hooked, u
  <2>3. ASSUME NEW k \in DOMAIN u PROVE u[k].app = "record" <=> on /\ k = 1
    <3>1. CASE k \in DOMAIN s /\ u[k] = s[k]
      BY <1>3, <3>1 DEF Policed, Hooked
    <3>2. CASE k > Len(s) /\ u[k].app # "record"
      BY <1>3, <2>1, <3>2 DEF Policed, Hooked
    <3> QED
      BY <1>1, <1>3, <3>1, <3>2 DEF Policed, u
  <2> QED
    BY <1>1, <1>3, <2>2, <2>3 DEF Policed, Hooked, u
<1> QED
  BY <1>2, <1>3 DEF u

\* Single lines that are bare, and the hook.
LEMMA BareLines ==
    ASSUME NEW T
    PROVE  /\ \A app, arg : app \notin {"record", "dial"} => Bare(<<Line(app, arg)>>, T)
           /\ \A arg : (\A x \in arg : x[1] = "extension" => x[2] \in T)
                       => Bare(<<Line("dial", arg)>>, T)
           /\ Bare(Hangup, T) /\ Bare(Playback, T) /\ Bare(<< >>, T)
           /\ \A context, exten : Bare(Goto(context, exten), T)
           /\ \A d : Bare(DestinationApp(d), T)
           /\ \A on, what : Policed(RecordHook(on, what), T, on)
<1>1. ASSUME NEW app, NEW arg,
             app # "record",
             app = "dial" => \A x \in arg : x[1] = "extension" => x[2] \in T
      PROVE  Bare(<<Line(app, arg)>>, T)
  <2> DEFINE s == <<Line(app, arg)>>
  <2>1. IsSequence(s) /\ DOMAIN s = 1..1 /\ s[1].app = app /\ s[1].arg = arg
    BY OneLine
  <2> HIDE DEF s
  <2>2. \A k \in DOMAIN s : k = 1
    BY <2>1
  <2>3. Bare(s, T)
    BY <1>1, <2>1, <2>2 DEF Bare, Dialling
  <2> QED
    BY <2>3 DEF s
<1>2. Bare(<< >>, T)
  BY NoLine DEF Bare, Dialling, LinesOf
<1>3. \A app, arg : app \notin {"record", "dial"} => Bare(<<Line(app, arg)>>, T)
  BY <1>1
<1>4. \A arg : (\A x \in arg : x[1] = "extension" => x[2] \in T)
               => Bare(<<Line("dial", arg)>>, T)
  BY <1>1
<1>5. Bare(Hangup, T) /\ Bare(Playback, T)
  BY <1>3 DEF Hangup, Playback
<1>6. \A context, exten : Bare(Goto(context, exten), T)
  BY <1>3 DEF Goto
<1>7. \A d : Bare(DestinationApp(d), T)
  BY <1>5, <1>6 DEF DestinationApp
<1>8. ASSUME NEW on, NEW what PROVE Policed(RecordHook(on, what), T, on)
  <2>1. CASE on
    <3> DEFINE s == <<Line("record", what)>>
    <3>1. IsSequence(s) /\ DOMAIN s = 1..1 /\ s[1].app = "record" /\ RecordHook(on, what) = s
      BY <2>1, OneLine DEF RecordHook
    <3> HIDE DEF s
    <3>2. 1 \in DOMAIN s /\ \A k \in DOMAIN s : k = 1
      BY <3>1
    <3> QED
      BY <2>1, <3>1, <3>2 DEF Policed, Dialling, Hooked
  <2>2. CASE ~on
    <3>1. RecordHook(on, what) = << >>
      BY <2>2 DEF RecordHook
    <3> QED
      BY <1>2, <2>2, <3>1 DEF Policed, Bare, Hooked
  <2> QED
    BY <2>1, <2>2
<1> QED
  BY <1>2, <1>3, <1>4, <1>5, <1>6, <1>7, <1>8

\* Lines that ring one extension and take its messages.
Rings(s, e) ==
    /\ LinesOf(s, Quiet \union {"voicemail"})
    /\ \A k \in DOMAIN s : s[k].app = "dial" => s[k].arg = {<<"extension", e>>}

\* Such lines can be joined, and are put together from these.
LEMMA RingLines ==
    ASSUME NEW e
    PROVE  /\ \A s, t : Rings(s, e) /\ Rings(t, e) => Rings(s \o t, e)
           /\ \A app, arg : app \in {"record", "playback", "hangup", "voicemail"}
                            => Rings(<<Line(app, arg)>>, e)
           /\ Rings(<<Line("dial", {<<"extension", e>>})>>, e)
           /\ Rings(Hangup, e) /\ Rings(Playback, e) /\ Rings(<< >>, e)
           /\ \A on, what : Rings(RecordHook(on, what), e)
<1>1. ASSUME NEW s, NEW t, Rings(s, e), Rings(t, e) PROVE Rings(s \o t, e)
  <2> DEFINE u == s \o t
  <2>1. \A k \in DOMAIN u : \/ k \in DOMAIN s /\ u[k] = s[k]
                            \/ k - Len(s) \in DOMAIN t /\ u[k] = t[k - Len(s)]
    <3>1. IsSequence(s) /\ IsSequence(t)
      BY <1>1 DEF Rings, LinesOf
    <3> QED
      BY <3>1, Joined
  <2>2. LinesOf(u, Quiet \union {"voicemail"})
    BY <1>1, JoinedLines DEF Rings
  <2> HIDE DEF u
  <2>3. Rings(u, e)
    BY <1>1, <2>1, <2>2 DEF Rings
  <2> QED
    BY <2>3 DEF u
<1>2. ASSUME NEW app \in Quiet \union {"voicemail"}, NEW arg,
             app = "dial" => arg = {<<"extension", e>>}
      PROVE  Rings(<<Line(app, arg)>>, e)
  <2> DEFINE s == <<Line(app, arg)>>
  <2>1. DOMAIN s = 1..1 /\ s[1].app = app /\ s[1].arg = arg
        /\ LinesOf(s, Quiet \union {"voicemail"})
    BY OneLine
  <2> HIDE DEF s
  <2>2. \A k \in DOMAIN s : k = 1
    BY <2>1
  <2>3. Rings(s, e)
    BY <1>2, <2>1, <2>2 DEF Rings
  <2> QED
    BY <2>3 DEF s
<1>3. \A app, arg : app \in {"record", "playback", "hangup", "voicemail"}
                    => Rings(<<Line(app, arg)>>, e)
  BY <1>2 DEF Quiet
<1>4. Rings(<<Line("dial", {<<"extension", e>>})>>, e)
  BY <1>2 DEF Quiet
<1>5. Rings(<< >>, e)
  BY NoLine DEF Rings
<1>6. Rings(Hangup, e) /\ Rings(Playback, e)
  BY <1>3 DEF Hangup, Playback
<1>7. \A on, what : Rings(RecordHook(on, what), e)
  BY <1>3, <1>5 DEF RecordHook
<1> QED
  BY <1>1, <1>3, <1>4, <1>5, <1>6, <1>7

\* What the extens of extensions, ring groups and queues dial and record.
LocalEntry(c, n) ==
    /\ n.context = Named("local-extensions")
    /\ \E e \in ActiveRows(c.ext) :
          n.match = {e} /\ Policed(n.lines, {e}, c.ext[e].record) /\ Rings(n.lines, e)
GroupEntry(c, n) ==
    /\ n.context = Named("ring-groups")
    /\ \E g \in ActiveRows(c.group) : n.match = {g} /\ Bare(n.lines, Members(c, g))
QueueEntry(c, n) ==
    /\ n.context = Named("queues")
    /\ \E q \in ActiveRows(c.queue) :
          n.match = {q} /\ Policed(n.lines, c.queue[q].members, c.queue[q].record)

\* The extens of DIDs: one that is assigned to an extension leads to it.
DidEntry(c, n) ==
    /\ n.context = Named("inbound") /\ Bare(n.lines, {})
    /\ \/ n.match = {"s"}
       \/ \E d \in ActiveRows(c.did) :
             /\ n.match = {d}
             /\ n.lines = DestinationApp(EffectiveDestination(c, d))

\* The lines of a route lead nowhere else and dial no extension of the location.
Leading == {"goto", "if-business-hours", "wait-digit"}
Straight(s) ==
    /\ IsSequence(s) /\ Dialling(s, {})
    /\ \A k \in DOMAIN s : s[k].app \notin Leading
RouteEntry(n) ==
    n.context \in {Named("outbound"), Named("emergency")} /\ Straight(n.lines)

\* All other extens.
OtherEntry(n) ==
    /\ n.context \notin {Named(name) : name \in {"local-extensions", "ring-groups", "queues",
                                                 "inbound", "outbound", "emergency"}}
    /\ Bare(n.lines, {})

\* What is written for the active extensions.
LEMMA LocalEntries ==
    ASSUME NEW c, NEW n \in LocalExtensions(c)
    PROVE  LocalEntry(c, n)
<1>1. PICK e \in ActiveRows(c.ext) :
         n = Exten(Named("local-extensions"), e,
                   RecordHook(c.ext[e].record, <<"extension", e>>)
                   \o <<Line("dial", {<<"extension", e>>})>>
                   \o (IF c.ext[e].voicemail THEN <<Line("voicemail", e)>> ELSE << >>)
                   \o Hangup)
  BY DEF LocalExtensions
<1> DEFINE hook == RecordHook(c.ext[e].record, <<"extension", e>>)
           dial == <<Line("dial", {<<"extension", e>>})>>
           mail == IF c.ext[e].voicemail THEN <<Line("voicemail", e)>> ELSE << >>
<1>2. /\ Policed(hook, {e}, c.ext[e].record) /\ Bare(dial, {e}) /\ Bare(mail, {e})
      /\ Bare(Hangup, {e})
  <2>1. \A x \in {<<"extension", e>>} : x[1] = "extension" => x[2] \in {e}
    OBVIOUS
  <2> QED
    BY <2>1, BareLines
<1>3. Rings(hook, e) /\ Rings(dial, e) /\ Rings(mail, e) /\ Rings(Hangup, e)
  BY RingLines
<1>4. n = Exten(Named("local-extensions"), e, hook \o dial \o mail \o Hangup)
  BY <1>1
<1> HIDE DEF hook, dial, mail
<1> DEFINE lines == hook \o dial \o mail \o Hangup
<1>5. Policed(lines, {e}, c.ext[e].record)
  <2>1. Policed(hook \o dial, {e}, c.ext[e].record)
    BY <1>2, JoinedBare
  <2>2. Policed(hook \o dial \o mail, {e}, c.ext[e].record)
    BY <1>2, <2>1, JoinedBare
  <2> QED
    BY <1>2, <2>2, JoinedBare
<1>6. Rings(lines, e)
  BY <1>3, RingLines
<1>7. n = Exten(Named("local-extensions"), e, lines)
  BY <1>4
<1> HIDE DEF lines
<1>8. n.context = Named("local-extensions") /\ n.match = {e} /\ n.lines = lines
  BY <1>7, EntryIs DEF Exten
<1> QED
  BY <1>5, <1>6, <1>8 DEF LocalEntry

\* For the active queues.
LEMMA QueueEntries ==
    ASSUME NEW c, NEW n \in Queues(c)
    PROVE  QueueEntry(c, n)
<1>1. PICK q \in ActiveRows(c.queue) :
         n = Exten(Named("queues"), q,
                   RecordHook(c.queue[q].record, <<"queue", q>>)
                   \o <<Line("dial", {<<"extension", e>> : e \in c.queue[q].members})>>
                   \o (IF c.queue[q].overflow = Nothing THEN << >>
                       ELSE DestinationApp(c.queue[q].overflow))
                   \o Hangup)
  BY DEF Queues
<1> DEFINE T == c.queue[q].members
           all == {<<"extension", e>> : e \in T}
           hook == RecordHook(c.queue[q].record, <<"queue", q>>)
           dial == <<Line("dial", all)>>
           over == IF c.queue[q].overflow = Nothing THEN << >>
                   ELSE DestinationApp(c.queue[q].overflow)
<1>2. Policed(hook, T, c.queue[q].record)
  BY BareLines
<1>3. Bare(dial, T)
  <2>1. \A x \in all : x[1] = "extension" => x[2] \in T
    OBVIOUS
  <2> HIDE DEF all, T
  <2> QED
    BY <2>1, BareLines
<1>4. Bare(over, T) /\ Bare(Hangup, T)
  BY BareLines
<1>5. n = Exten(Named("queues"), q, hook \o dial \o over \o Hangup)
  BY <1>1
<1> HIDE DEF hook, dial, over, T
<1> DEFINE lines == hook \o dial \o over \o Hangup
<1>6. Policed(lines, T, c.queue[q].record)
  <2>1. Policed(hook \o dial, T, c.queue[q].record)
    BY <1>2, <1>3, JoinedBare
  <2>2. Policed(hook \o dial \o over, T, c.queue[q].record)
    BY <1>4, <2>1, JoinedBare
  <2> QED
    BY <1>4, <2>2, JoinedBare
<1>7. n = Exten(Named("queues"), q, lines)
  BY <1>5
<1> HIDE DEF lines
<1>8. n.context = Named("queues") /\ n.match = {q} /\ n.lines = lines
  BY <1>7, EntryIs DEF Exten
<1> QED
  BY <1>6, <1>8 DEF QueueEntry, T

\* For the active ring groups.
LEMMA GroupEntries ==
    ASSUME ConfigsAssumption, NEW c \in Configs, NEW n \in RingGroups(c)
    PROVE  GroupEntry(c, n)
<1>1. PICK g \in ActiveRows(c.group) :
         n = Exten(Named("ring-groups"), g,
                   (IF c.group[g].hunt THEN HuntLines(c.group[g].members)
                    ELSE <<Line("dial", RingTargets(c, g))>>) \o Hangup)
  BY DEF RingGroups
<1> DEFINE T == Members(c, g)
           m == c.group[g].members
           h == HuntLines(m)
<1>2. Bare(h, T)
  <2>1. IsSequence(m)
    BY DEF ConfigsAssumption, ActiveRows
  <2>2. Len(m) \in Nat /\ DOMAIN m = 1..Len(m) /\ \A k \in DOMAIN m : m[k] \in T
    BY <2>1, SequenceIs DEF Members
  <2> HIDE DEF m, T
  <2>3. h = [k \in 1..Len(m) |-> Line("dial", {<<"extension", m[k]>>})]
    BY <2>2 DEF HuntLines
  <2>4. h \in Seq({h[k] : k \in 1..Len(m)}) /\ DOMAIN h = 1..Len(m)
    BY <2>2, <2>3
  <2>5. \A k \in 1..Len(m) : h[k].app = "dial" /\ h[k].arg = {<<"extension", m[k]>>}
    BY <2>3 DEF Line
  <2> HIDE DEF h
  <2>6. IsSequence(h)
    BY <2>4, SequenceIs
  <2> QED
    BY <2>2, <2>4, <2>5, <2>6 DEF Bare, Dialling
<1>3. Bare(<<Line("dial", RingTargets(c, g))>>, T)
  <2>1. \A x \in RingTargets(c, g) : x[1] = "extension" => x[2] \in T
    BY DEF RingTargets
  <2> HIDE DEF T
  <2> QED
    BY <2>1, BareLines
<1> DEFINE ring == IF c.group[g].hunt THEN h ELSE <<Line("dial", RingTargets(c, g))>>
<1>4. Bare(ring, T)
  BY <1>2, <1>3
<1>5. n = Exten(Named("ring-groups"), g, ring \o Hangup)
  BY <1>1
<1> HIDE DEF ring
<1> DEFINE lines == ring \o Hangup
<1>6. Bare(lines, T)
  BY <1>4, BareLines, JoinedBare
<1>7. n = Exten(Named("ring-groups"), g, lines)
  BY <1>5
<1> HIDE DEF lines
<1>8. n.context = Named("ring-groups") /\ n.match = {g} /\ n.lines = lines
  BY <1>7, EntryIs DEF Exten
<1> QED
  BY <1>6, <1>8 DEF GroupEntry

\* For the active DIDs, and for any other number from the network.
LEMMA DidEntries ==
    ASSUME NEW c, NEW n \in Inbound(c)
    PROVE  DidEntry(c, n)
<1>1. \A exten, lines : LET m == Exten(Named("inbound"), exten, lines) IN
         m.context = Named("inbound") /\ m.match = {exten} /\ m.lines = lines
  BY EntryIs DEF Exten
<1>2. \A d : Bare(DestinationApp(d), {})
  BY BareLines
<1>3. \/ n = Exten(Named("inbound"), "s", DestinationApp(c.default))
      \/ \E d \in ActiveRows(c.did) :
            n = Exten(Named("inbound"), d, DestinationApp(EffectiveDestination(c, d)))
  BY DEF Inbound
<1> QED
  BY <1>1, <1>2, <1>3 DEF DidEntry

\* The contexts of the other extens.
Special == {Named(name) : name \in {"local-extensions", "ring-groups", "queues",
                                    "inbound", "outbound", "emergency"}}

\* The contexts have names of their own.
LEMMA SpecialContexts ==
    /\ \A name \in {"remote-extensions", "voicemail", "paging", "feature-codes", "ivrs"} :
          Named(name) \notin Special
    /\ \A name : IvrContext(name) \notin Special
    /\ \A a, b : Named(a) = Named(b) => a = b
BY DEF Named, IvrContext, Special

\* An exten of such a context.
LEMMA OtherExten ==
    ASSUME NEW context, NEW exten, NEW lines, context \notin Special, Bare(lines, {})
    PROVE  OtherEntry(Exten(context, exten, lines))
<1>1. Exten(context, exten, lines).context = context /\ Exten(context, exten, lines).lines = lines
  BY EntryIs DEF Exten
<1> QED
  BY <1>1 DEF OtherEntry, Special

\* For phones of other locations, mailboxes, pages and feature codes.
LEMMA OtherEntries ==
    ASSUME NEW c, NEW n \in RemoteExtensions(c) \union Voicemail(c) \union Paging(c)
                           \union FeatureCodes(c)
    PROVE  OtherEntry(n)
<1>1. \A s, t : Bare(s, {}) /\ Bare(t, {}) => Bare(s \o t, {})
  BY JoinedBare
<1>2. /\ Bare(Hangup, {})
      /\ \A app, arg : app \notin {"record", "dial"} => Bare(<<Line(app, arg)>>, {})
  BY BareLines
<1>3. CASE n \in RemoteExtensions(c)
  <2>1. PICK e \in c.remote : n = Exten(Named("remote-extensions"), e,
                                        <<Line("dial", {<<"remote", e>>})>> \o Hangup)
    BY <1>3 DEF RemoteExtensions
  <2>2. Bare(<<Line("dial", {<<"remote", e>>})>>, {})
    <3>1. \A x \in {<<"remote", e>>} : x[1] = "extension" => x[2] \in {}
      OBVIOUS
    <3> QED
      BY <3>1, BareLines
  <2>3. Bare(<<Line("dial", {<<"remote", e>>})>> \o Hangup, {})
    BY <1>1, <1>2, <2>2
  <2> QED
    BY <2>1, <2>3, OtherExten, SpecialContexts
<1>4. CASE n \in Voicemail(c)
  <2>1. PICK exten : n = Exten(Named("voicemail"), exten,
                               <<Line("voicemail-main", Nothing)>> \o Hangup)
    BY <1>4 DEF Voicemail
  <2>2. Bare(<<Line("voicemail-main", Nothing)>> \o Hangup, {})
    BY <1>1, <1>2
  <2> QED
    BY <2>1, <2>2, OtherExten, SpecialContexts
<1>5. CASE n \in Paging(c)
  <2>1. PICK p : n = Exten(Named("paging"), p, <<Line("page", c.page[p].members)>> \o Hangup)
    BY <1>5 DEF Paging
  <2>2. Bare(<<Line("page", c.page[p].members)>> \o Hangup, {})
    BY <1>1, <1>2
  <2> QED
    BY <2>1, <2>2, OtherExten, SpecialContexts
<1>6. CASE n \in FeatureCodes(c)
  <2>1. PICK exten : n = Exten(Named("feature-codes"), exten, FeatureLines(c.code[exten]) \o Hangup)
    BY <1>6 DEF FeatureCodes
  <2>2. Bare(FeatureLines(c.code[exten]), {})
    BY <1>2, BareLines DEF FeatureLines
  <2>3. Bare(FeatureLines(c.code[exten]) \o Hangup, {})
    BY <1>1, <1>2, <2>2
  <2> QED
    BY <2>1, <2>3, OtherExten, SpecialContexts
<1> QED
  BY <1>3, <1>4, <1>5, <1>6

\* For the IVRs.
LEMMA MenuEntries ==
    ASSUME NEW c, NEW i, NEW n \in IvrEntries(c, i)
    PROVE  OtherEntry(n)
<1> DEFINE here == IvrContext(c.ivr[i].name)
<1>1. \A s, t : Bare(s, {}) /\ Bare(t, {}) => Bare(s \o t, {})
  BY JoinedBare
<1>2. /\ Bare(Hangup, {}) /\ \A d : Bare(DestinationApp(d), {})
      /\ \A app, arg : app \notin {"record", "dial"} => Bare(<<Line(app, arg)>>, {})
      /\ \A context, exten : Bare(Goto(context, exten), {})
  BY BareLines
<1>3. \A d : Bare(DestinationApp(d) \o Hangup, {})
  BY <1>1, <1>2
<1>4. here \notin Special /\ OpenContext(c, i) \notin Special
  BY SpecialContexts DEF OpenContext
<1>5. Bare(<<Line("if-business-hours", <<here, "business-hours">>)>>
           \o Goto(here, "after-hours"), {})
      /\ Bare(<<Line("wait-digit", here)>> \o Goto(here, "t"), {})
      /\ Bare(Goto(here, "s"), {})
  <2> HIDE DEF here
  <2> QED
    BY <1>1, <1>2
<1>6. CASE n = Exten(OpenContext(c, i), c.ivr[i].name, Goto(here, "s"))
  <2> HIDE DEF here
  <2> QED
    BY <1>4, <1>5, <1>6, OtherExten
<1>7. CASE \E exten, d : n = Exten(here, exten, DestinationApp(d) \o Hangup)
  <2> HIDE DEF here
  <2> QED
    BY <1>3, <1>4, <1>7, OtherExten
<1>8. CASE n = Exten(here, "s", <<Line("if-business-hours", <<here, "business-hours">>)>>
                                \o Goto(here, "after-hours"))
  <2> HIDE DEF here
  <2> QED
    BY <1>4, <1>5, <1>8, OtherExten
<1>9. CASE n = Exten(here, "s", <<Line("wait-digit", here)>> \o Goto(here, "t"))
  <2> HIDE DEF here
  <2> QED
    BY <1>4, <1>5, <1>9, OtherExten
<1> QED
  BY <1>6, <1>7, <1>8, <1>9 DEF IvrEntries

\* Lines that lead nowhere and dial no extension can be joined.
LEMMA JoinedStraight ==
    ASSUME NEW s, NEW t, Straight(s), Straight(t)
    PROVE  Straight(s \o t)
<1> DEFINE u == s \o t
<1>1. IsSequence(u) /\ \A k \in DOMAIN u : \/ k \in DOMAIN s /\ u[k] = s[k]
                                           \/ k - Len(s) \in DOMAIN t /\ u[k] = t[k - Len(s)]
  BY Joined DEF Straight
<1> HIDE DEF u
<1>2. Straight(u)
  BY <1>1 DEF Straight, Dialling
<1> QED
  BY <1>2 DEF u

\* Quiet lines that dial trunks, or nothing.
LEMMA StraightLines ==
    /\ \A app, arg : app \notin Leading \union {"dial"} => Straight(<<Line(app, arg)>>)
    /\ Straight(Hangup) /\ Straight(Playback) /\ Straight(<< >>)
    /\ \A on, what : Straight(RecordHook(on, what))
<1>1. ASSUME NEW app, NEW arg, app \notin Leading \union {"dial"}
      PROVE  Straight(<<Line(app, arg)>>)
  <2> DEFINE s == <<Line(app, arg)>>
  <2>1. IsSequence(s) /\ DOMAIN s = 1..1 /\ s[1].app = app
    BY OneLine
  <2> HIDE DEF s
  <2>2. \A k \in DOMAIN s : k = 1
    BY <2>1
  <2>3. Straight(s)
    BY <1>1, <2>1, <2>2 DEF Straight, Dialling
  <2> QED
    BY <2>3 DEF s
<1>2. Straight(<< >>)
  BY NoLine DEF Straight, Dialling, LinesOf
<1>3. Straight(Hangup) /\ Straight(Playback)
  BY <1>1 DEF Hangup, Playback, Leading
<1>4. \A on, what : Straight(RecordHook(on, what))
  BY <1>1, <1>2 DEF RecordHook, Leading
<1> QED
  BY <1>1, <1>2, <1>3, <1>4

\* For the routes.
LEMMA RouteIsStraight ==
    ASSUME NEW c, NEW r, IsSequence(r.trunks), r.number \in RouteNumbers(c)
    PROVE  Straight(RouteLines(c, r))
<1> DEFINE T == ActiveTrunks(c, r)
           d == Dials(c, r)
<1>1. IsSequence(T) /\ IsSequence(d)
  BY WayIsQuiet
<1>2. Straight(d)
  <2>1. Len(T) \in Nat /\ DOMAIN T = 1..Len(T)
    BY <1>1, SequenceIs
  <2>2. d = [k \in 1..Len(T) |-> Line("dial", {<<"trunk", T[k]>>})]
    BY <2>1 DEF Dials
  <2> HIDE DEF T
  <2>3. \A k \in 1..Len(T) : d[k].app = "dial" /\ d[k].arg = {<<"trunk", T[k]>>}
    BY <2>2 DEF Line
  <2>4. DOMAIN d = 1..Len(T)
    BY <2>1, <2>2
  <2> HIDE DEF d
  <2>5. \A t : <<"trunk", t>>[1] # "extension"
    OBVIOUS
  <2> QED
    BY <1>1, <2>3, <2>4, <2>5 DEF Straight, Dialling, Leading
<1> HIDE DEF d, T
<1>3. Straight(Way(c, r))
  <2>1. Straight(RecordHook(r.record, <<"route", r.pattern>>) \o d)
    BY <1>2, JoinedStraight, StraightLines
  <2> QED
    BY <2>1, StraightLines DEF Way, d
<1>4. Straight(CallerIdLines(c, r))
  BY CallerIdLinesAre, StraightLines DEF Leading
<1> QED
  BY <1>3, <1>4, JoinedStraight, StraightLines, RouteLinesAre

\* What every entry of the plan dials, records and is for.
LEMMA EntryKinds ==
    ASSUME ConfigsAssumption, NEW c \in Configs, NEW n \in DialPlan(c)
    PROVE  \/ LocalEntry(c, n) \/ GroupEntry(c, n) \/ QueueEntry(c, n) \/ DidEntry(c, n)
           \/ RouteEntry(n) \/ OtherEntry(n)
<1>2. CASE n \in EmergencyBlocks(c)
  <2>1. n.context = Named("emergency") /\ n.lines = Playback \o Hangup
    BY <1>2, BlockIs
  <2>2. Straight(Playback \o Hangup)
    BY StraightLines, JoinedStraight
  <2> QED
    BY <2>1, <2>2 DEF RouteEntry
<1>3. ASSUME NEW i, n \in IvrEntries(c, i) PROVE OtherEntry(n)
  BY <1>3, MenuEntries
<1> DEFINE ivrs == UNION {IvrEntries(c, i) : i \in ActiveRows(c.ivr)}
<1>4. n \in ivrs => OtherEntry(n)
  BY <1>3
<1>1. CASE n \in RouteEntries(c, FALSE, "outbound")
  <2>1. PICK m \in RoutesFor(c, FALSE) :
           /\ n.context = Named("outbound") /\ n.lines = RouteLines(c, c.route[m])
           /\ IsSequence(c.route[m].trunks) /\ c.route[m].number \in RouteNumbers(c)
    BY <1>1, RouteEntryIs
  <2>2. Straight(n.lines)
    BY <2>1, RouteIsStraight
  <2> QED
    BY <2>1, <2>2 DEF RouteEntry
<1>5. CASE n \in RouteEntries(c, TRUE, "emergency")
  <2>1. PICK m \in RoutesFor(c, TRUE) :
           /\ n.context = Named("emergency") /\ n.lines = RouteLines(c, c.route[m])
           /\ IsSequence(c.route[m].trunks) /\ c.route[m].number \in RouteNumbers(c)
    BY <1>5, RouteEntryIs
  <2>2. Straight(n.lines)
    BY <2>1, RouteIsStraight
  <2> QED
    BY <2>1, <2>2 DEF RouteEntry
<1>6. \/ n \in LocalExtensions(c) \/ n \in Inbound(c) \/ n \in RingGroups(c) \/ n \in Queues(c)
      \/ n \in RemoteExtensions(c) \union Voicemail(c) \union Paging(c) \union FeatureCodes(c)
      \/ n \in RouteEntries(c, FALSE, "outbound") \/ n \in RouteEntries(c, TRUE, "emergency")
      \/ n \in EmergencyBlocks(c) \/ n \in ivrs
  <2> HIDE DEF ivrs
  <2> QED
    BY DEF DialPlan, ivrs
<1> HIDE DEF ivrs
<1> QED
  BY <1>1, <1>2, <1>4, <1>5, <1>6, LocalEntries, GroupEntries, QueueEntries, DidEntries,
     OtherEntries

-----------------------------------------------------------------------------
(* Where calls go.                                                         *)

\* What is found for a number is for it, and in the context itself when this includes no
\* other.
LEMMA FoundIs ==
    ASSUME NEW context, NEW number, NEW caller, NEW n \in Found(context, number, caller)
    PROVE  /\ n \in plan /\ number \in n.match
           /\ Includes(context) = << >> => n.context = context
<1> DEFINE In(y) == {m \in plan : /\ m.context = y /\ number \in m.match
                                 /\ m.only \in {Nothing, caller}}
           search == <<context>> \o Includes(context)
           hits == {k \in DOMAIN search : In(search[k]) # {}}
           first == CHOOSE k \in hits : \A m \in hits : k <= m
           here == In(search[first])
<1>1. Found(context, number, caller) =
         IF hits = {} THEN {}
         ELSE {m \in here : \/ m.only = caller
                            \/ ~\E o \in here : o.only = caller /\ o.match = m.match}
  BY DEF Found
<1>2. ASSUME Includes(context) = << >> PROVE DOMAIN search = 1..1 /\ search[1] = context
  BY <1>2
<1> HIDE DEF search
<1>3. hits # {} /\ n \in here
  <2> HIDE DEF hits, here
  <2> QED
    BY <1>1
<1>4. n \in plan /\ number \in n.match /\ n.context = search[first]
  BY <1>3
<1>5. ASSUME Includes(context) = << >> PROVE n.context = context
  <2>1. DOMAIN search = 1..1 /\ search[1] = context
    BY <1>2, <1>5
  <2>2. hits = {1}
    <3>1. \A k \in hits : k = 1
      BY <2>1
    <3> HIDE DEF hits
    <3> QED
      BY <1>3, <3>1
  <2> HIDE DEF hits
  <2>3. first = 1
    BY <2>2
  <2> HIDE DEF first
  <2> QED
    BY <1>4, <2>1, <2>3
<1> QED
  BY <1>4, <1>5

\* An entry for everybody is found in its own context, or one that goes before it.
LEMMA FoundHere ==
    ASSUME NEW x \in plan, NEW number \in x.match, NEW caller, x.only = Nothing
    PROVE  Found(x.context, number, caller) # {}
<1> DEFINE In(y) == {m \in plan : /\ m.context = y /\ number \in m.match
                                 /\ m.only \in {Nothing, caller}}
           search == <<x.context>> \o Includes(x.context)
           hits == {k \in DOMAIN search : In(search[k]) # {}}
           first == CHOOSE k \in hits : \A m \in hits : k <= m
           here == In(search[first])
<1>1. Found(x.context, number, caller) =
         IF hits = {} THEN {}
         ELSE {m \in here : \/ m.only = caller
                            \/ ~\E o \in here : o.only = caller /\ o.match = m.match}
  BY DEF Found
<1>2. search[1] = x.context /\ 1 \in DOMAIN search /\ DOMAIN search \subseteq Nat
  <2>1. \A a, b, c, d, e, f, g :
           /\ <<a, b, c, d, e, f, g>> \in Seq({a, b, c, d, e, f, g})
           /\ <<a, b>> \in Seq({a, b}) /\ <<a>> \in Seq({a}) /\ << >> \in Seq({})
    OBVIOUS
  <2>2. IsSequence(Includes(x.context)) /\ IsSequence(<<x.context>>)
    <3>1. \/ \E a, b, c, d, e, f, g : Includes(x.context) = <<a, b, c, d, e, f, g>>
          \/ \E a, b : Includes(x.context) = <<a, b>>
          \/ Includes(x.context) = << >>
      BY DEF Includes
    <3>2. IsSequence(Includes(x.context))
      BY <2>1, <3>1, SequenceIs
    <3> QED
      BY <2>1, <3>2, SequenceIs
  <2>3. DOMAIN <<x.context>> = 1..1 /\ <<x.context>>[1] = x.context
    OBVIOUS
  <2>4. DOMAIN search = 1..Len(search) /\ Len(search) \in Nat
    BY <2>2, Joined, SequenceIs
  <2>5. 1 \in DOMAIN search /\ search[1] = x.context
    BY <2>2, <2>3, Joined
  <2> HIDE DEF search
  <2> QED
    BY <2>4, <2>5
<1> HIDE DEF search
<1>3. 1 \in hits /\ hits \subseteq Nat
  BY <1>2
<1>4. first \in hits
  <2> HIDE DEF hits
  <2>1. \E k \in hits : \A m \in hits : k <= m
    BY <1>3, LeastNat
  <2> QED
    BY <2>1
<1>5. here # {}
  <2> HIDE DEF first
  <2> QED
    BY <1>4
<1> HIDE DEF hits, here
<1>6. PICK m \in here : TRUE
  BY <1>5
<1>7. CASE \E o \in here : o.only = caller /\ o.match = m.match
  BY <1>1, <1>3, <1>7
<1>8. CASE ~\E o \in here : o.only = caller /\ o.match = m.match
  BY <1>1, <1>3, <1>6, <1>8
<1> QED
  BY <1>7, <1>8

\* The lines of an active row are where a destination looks for them.
LEMMA PlacesFound ==
    ASSUME ConfigsAssumption, OneIvr, cfg \in Configs, plan = DialPlan(cfg),
           NEW place \in ActivePlaces, NEW caller
    PROVE  Found(place[1], place[2], caller) # {}
<1>1. \A context, exten, lines :
         LET x == Exten(context, exten, lines) IN
         x.context = context /\ x.match = {exten} /\ x.only = Nothing
  BY EntryIs DEF Exten
<1>2. ASSUME NEW context, NEW exten, NEW lines, Exten(context, exten, lines) \in plan
      PROVE  Found(context, exten, caller) # {}
  <2> DEFINE x == Exten(context, exten, lines)
  <2>1. x \in plan /\ x.context = context /\ x.match = {exten} /\ x.only = Nothing
    BY <1>1, <1>2
  <2> HIDE DEF x
  <2>2. exten \in x.match
    BY <2>1
  <2> QED
    BY <2>1, <2>2, FoundHere
<1>3. ASSUME NEW e \in ActiveRows(cfg.ext)
      PROVE  \E lines : Exten(Named("local-extensions"), e, lines) \in plan
  BY <1>3 DEF DialPlan, LocalExtensions
<1>4. ASSUME NEW g \in ActiveRows(cfg.group)
      PROVE  \E lines : Exten(Named("ring-groups"), g, lines) \in plan
  BY <1>4 DEF DialPlan, RingGroups
<1>5. ASSUME NEW q \in ActiveRows(cfg.queue)
      PROVE  \E lines : Exten(Named("queues"), q, lines) \in plan
  BY <1>5 DEF DialPlan, Queues
<1>6. ASSUME NEW n \in ActiveRows(cfg.ivr)
      PROVE  \E lines : Exten(Named("ivrs"), cfg.ivr[n].name, lines) \in plan
  <2>1. {m \in ActiveRows(cfg.ivr) : m < n} = {}
    <3>1. \A m \in ActiveRows(cfg.ivr) : m = n
      BY DEF OneIvr
    <3>2. n \in Nat
      BY SequenceIs DEF ConfigsAssumption, ActiveRows
    <3>3. ASSUME NEW m \in ActiveRows(cfg.ivr), m < n PROVE FALSE
      <4>1. n < n
        BY <3>1, <3>3
      <4> QED
        BY <3>2, <4>1
    <3> QED
      BY <3>3
  <2>2. OpenContext(cfg, n) = Named("ivrs")
    BY <2>1 DEF OpenContext
  <2> DEFINE x == Exten(Named("ivrs"), cfg.ivr[n].name, Goto(IvrContext(cfg.ivr[n].name), "s"))
  <2>3. x \in IvrEntries(cfg, n)
    BY <2>2 DEF IvrEntries
  <2> HIDE DEF x
  <2>4. x \in UNION {IvrEntries(cfg, m) : m \in ActiveRows(cfg.ivr)}
    BY <2>3
  <2> QED
    BY <2>4 DEF DialPlan, x
<1>7. place \in {<<Named("local-extensions"), e>> : e \in ActiveRows(cfg.ext)}
               \union {<<Named("ivrs"), cfg.ivr[n].name>> : n \in ActiveRows(cfg.ivr)}
               \union {<<Named("ring-groups"), g>> : g \in ActiveRows(cfg.group)}
               \union {<<Named("queues"), q>> : q \in ActiveRows(cfg.queue)}
  BY DEF ActivePlaces
<1>8. \E lines : Exten(place[1], place[2], lines) \in plan
  BY <1>3, <1>4, <1>5, <1>6, <1>7
<1> QED
  BY <1>2, <1>8

-----------------------------------------------------------------------------
(* Where a step leads.                                                     *)

\* The call goes on at an exten of the plan, or is lost.
Arrives(context, exten) ==
    LET found == Found(context, exten, call.from)
        invalid == Found(context, "i", call.from) IN
    /\ call'.monitors = call.monitors /\ call'.by = call.by
    /\ \/ /\ found = {} /\ call'.phase = "lost" /\ call'.lines = << >>
          /\ call'.at = <<context, exten>> /\ call'.path = call.path
       \/ \E n \in plan :
             /\ n \in found \/ (found = {} /\ n \in invalid)
             /\ call'.phase = "running" /\ call'.lines = n.lines
             /\ call'.path = call.path \union {<<n.context, exten>>}

\* A line is passed, or the call ends with an answer, in a mailbox or at the end.
GoesOn ==
    /\ call.phase = "running" /\ call.lines # << >>
    /\ call'.phase = "running" /\ call'.lines = Rest
    /\ call'.path = call.path /\ call'.by = call.by
    /\ call'.monitors = IF Current.app = "record" /\ call.monitors = 0 THEN 1 ELSE call.monitors
Stops ==
    /\ call.phase = "running" /\ call'.lines = << >>
    /\ call'.path = call.path /\ call'.monitors = call.monitors
    /\ \/ call'.phase \in {"voicemail", "ended"}
       \/ /\ call.lines # << >> /\ Current.app = "dial"
          /\ call'.phase = "talking" /\ call'.by \in Current.arg

\* Entering a place changes nothing else.
LEMMA ArrivesIs ==
    ASSUME DOMAIN call = Fields, NEW context, NEW exten, EnterFrom(call, context, exten)
    PROVE  Arrives(context, exten)
<1> DEFINE found == Found(context, exten, call.from)
           invalid == Found(context, "i", call.from)
<1>1. CASE found \union invalid = {}
  <2>1. call' = [call EXCEPT !.at = <<context, exten>>, !.lines = << >>, !.phase = "lost"]
    BY <1>1 DEF EnterFrom, Becomes
  <2>2. /\ call'.monitors = call.monitors /\ call'.by = call.by /\ call'.phase = "lost"
        /\ call'.lines = << >> /\ call'.at = <<context, exten>> /\ call'.path = call.path
    BY <2>1 DEF Fields
  <2> QED
    BY <1>1, <2>2 DEF Arrives
<1>2. CASE found \union invalid # {}
  <2>1. PICK n \in IF found # {} THEN found ELSE invalid :
           call' = [call EXCEPT !.at = <<n.context, exten>>, !.lines = n.lines,
                                !.phase = "running",
                                !.path = call.path \union {<<n.context, exten>>}]
    BY <1>2 DEF EnterFrom, Becomes
  <2>2. /\ call'.monitors = call.monitors /\ call'.by = call.by /\ call'.phase = "running"
        /\ call'.lines = n.lines /\ call'.path = call.path \union {<<n.context, exten>>}
    BY <2>1 DEF Fields
  <2>3. n \in found \/ (found = {} /\ n \in invalid)
    <3> HIDE DEF found, invalid
    <3> QED
      BY <1>2, <2>1
  <2>4. n \in plan
    BY <2>3, FoundIs
  <2> QED
    BY <2>2, <2>3, <2>4 DEF Arrives
<1> QED
  BY <1>1, <1>2

\* The kinds of steps.
LEMMA MoveIs ==
    ASSUME DOMAIN call = Fields, RoutingNext
    PROVE  \/ call.phase = "incoming" /\ Arrives(Entrance(call.from), call.number)
           \/ /\ call.phase = "running" /\ call.lines # << >> /\ Current.app \in Leading
              /\ \E context, exten :
                    /\ Current.app = "goto" => Current.arg[1] = context /\ Current.arg[2] = exten
                    /\ Arrives(context, exten)
           \/ GoesOn \/ Stops
<1> DEFINE next == [call EXCEPT !.lines = Rest]
<1>1. /\ next.lines = Rest /\ next.phase = call.phase /\ next.path = call.path
      /\ next.by = call.by /\ next.monitors = call.monitors
  BY DEF Fields
<1> HIDE DEF next
<1>2. ASSUME call.phase = "running", call.lines # << >>, Current.app # "record", NEW k,
             Becomes(k), k.lines = Rest, k.phase = call.phase, k.path = call.path,
             k.by = call.by, k.monitors = call.monitors
      PROVE  GoesOn
  BY <1>2 DEF Becomes, GoesOn
<1>3. CASE Arrive
  BY <1>3, ArrivesIs DEF Arrive
<1>4. CASE DoGoto
  <2>1. EnterFrom(call, Current.arg[1], Current.arg[2]) /\ Running("goto")
    BY <1>4 DEF DoGoto
  <2> QED
    BY <2>1, ArrivesIs DEF Running, Leading
<1>5. CASE DoHours
  <2>1. call.phase = "running" /\ call.lines # << >> /\ Current.app = "if-business-hours"
    BY <1>5 DEF DoHours, Running
  <2>2. EnterFrom(call, Current.arg[1], Current.arg[2]) \/ Becomes(next)
    BY <1>5 DEF DoHours, next
  <2>3. CASE EnterFrom(call, Current.arg[1], Current.arg[2])
    BY <2>1, <2>3, ArrivesIs DEF Leading
  <2> QED
    BY <1>1, <1>2, <2>1, <2>2, <2>3
<1>6. CASE DoDigit
  <2>1. call.phase = "running" /\ call.lines # << >> /\ Current.app = "wait-digit"
    BY <1>6 DEF DoDigit, Running
  <2>2. (\E d \in Digits : EnterFrom(call, Current.arg, d)) \/ Becomes(next)
    BY <1>6 DEF DoDigit, next
  <2>3. CASE \E d \in Digits : EnterFrom(call, Current.arg, d)
    BY <2>1, <2>3, ArrivesIs DEF Leading
  <2> QED
    BY <1>1, <1>2, <2>1, <2>2, <2>3
<1>7. CASE DoDial
  <2>1. call.phase = "running" /\ call.lines # << >> /\ Current.app = "dial"
    BY <1>7 DEF DoDial, Running
  <2>2. DOMAIN Offered = Fields /\ Offered.path = call.path /\ Offered.by = call.by
        /\ Offered.monitors = call.monitors /\ Offered.phase = call.phase
    BY DEF Offered, Fields
  <2>3. (\E x \in Current.arg : Becomes(Answered(Offered, x)))
        \/ Becomes([Offered EXCEPT !.lines = Rest])
    BY <1>7 DEF DoDial
  <2>4. ASSUME NEW x \in Current.arg, Becomes(Answered(Offered, x)) PROVE Stops
    <3>1. call' = [Offered EXCEPT !.phase = "talking", !.by = x, !.lines = << >>]
      BY <2>4 DEF Becomes, Answered
    <3>2. /\ call'.phase = "talking" /\ call'.by = x /\ call'.lines = << >>
          /\ call'.path = call.path /\ call'.monitors = call.monitors
      BY <2>2, <3>1 DEF Fields
    <3> QED
      BY <2>1, <3>2 DEF Stops
  <2>5. ASSUME Becomes([Offered EXCEPT !.lines = Rest]) PROVE GoesOn
    <3> DEFINE k == [Offered EXCEPT !.lines = Rest]
    <3>1. /\ k.lines = Rest /\ k.phase = call.phase /\ k.path = call.path
          /\ k.by = call.by /\ k.monitors = call.monitors
      BY <2>2 DEF Fields
    <3> HIDE DEF k
    <3> QED
      BY <1>2, <2>1, <2>5, <3>1 DEF k
  <2> QED
    BY <2>3, <2>4, <2>5
<1>8. CASE DoVoicemail
  <2>1. call.phase = "running" /\ call.lines # << >> /\ Current.app = "voicemail"
    BY <1>8 DEF DoVoicemail, Running
  <2>2. Becomes([call EXCEPT !.phase = "voicemail", !.lines = << >>]) \/ Becomes(next)
    BY <1>8 DEF DoVoicemail, next
  <2>3. CASE Becomes([call EXCEPT !.phase = "voicemail", !.lines = << >>])
    <3>1. /\ call'.lines = << >> /\ call'.phase = "voicemail"
          /\ call'.path = call.path /\ call'.monitors = call.monitors
      BY <2>3 DEF Becomes, Fields
    <3> QED
      BY <2>1, <3>1 DEF Stops
  <2> QED
    BY <1>1, <1>2, <2>1, <2>2, <2>3
<1>9. CASE DoRecord
  <2>1. call.phase = "running" /\ call.lines # << >> /\ Current.app = "record"
    BY <1>9 DEF DoRecord, Running
  <2>2. call' = [call EXCEPT !.lines = Rest,
                             !.monitors = IF call.monitors = 0 THEN call.monitors + 1
                                          ELSE call.monitors]
    BY <1>9 DEF DoRecord, Becomes, NotRecording
  <2>3. /\ call'.lines = Rest /\ call'.phase = call.phase /\ call'.path = call.path
        /\ call'.by = call.by
        /\ call'.monitors = IF call.monitors = 0 THEN call.monitors + 1 ELSE call.monitors
    BY <2>2 DEF Fields
  <2>4. call.monitors = 0 => call.monitors + 1 = 1
    OBVIOUS
  <2> QED
    BY <2>1, <2>3, <2>4 DEF GoesOn
<1>10. CASE DoCallerId \/ DoCallerIdOf
  <2>1. PICK id : Becomes([call EXCEPT !.lines = Rest, !.callerId = id])
    BY <1>10 DEF DoCallerId, DoCallerIdOf
  <2>2. call.phase = "running" /\ call.lines # << >> /\ Current.app # "record"
    BY <1>10 DEF DoCallerId, DoCallerIdOf, Running
  <2> DEFINE k == [call EXCEPT !.lines = Rest, !.callerId = id]
  <2>3. /\ k.lines = Rest /\ k.phase = call.phase /\ k.path = call.path
        /\ k.by = call.by /\ k.monitors = call.monitors
    BY DEF Fields
  <2> HIDE DEF k
  <2> QED
    BY <1>2, <2>1, <2>2, <2>3 DEF k
<1>11. CASE DoOther
  <2>1. call.phase = "running" /\ call.lines # << >> /\ Current.app # "record" /\ Becomes(next)
    BY <1>11 DEF DoOther, next
  <2> QED
    BY <1>1, <1>2, <2>1
<1>12. CASE Finish
  <2>1. call' = [call EXCEPT !.phase = "ended", !.lines = << >>] /\ call.phase = "running"
    BY <1>12 DEF Finish, Becomes
  <2>2. /\ call'.lines = << >> /\ call'.phase = "ended"
        /\ call'.path = call.path /\ call'.monitors = call.monitors
    BY <2>1 DEF Fields
  <2> QED
    BY <2>1, <2>2 DEF Stops
<1> QED
  BY <1>3, <1>4, <1>5, <1>6, <1>7, <1>8, <1>9, <1>10, <1>11, <1>12 DEF RoutingNext

-----------------------------------------------------------------------------
(* What is kept on the way of a call.                                      *)

\* A DID that is assigned to an extension rings only there.
DirectInv ==
    \A d \in {call.number} \intersect DOMAIN cfg.did :
       LET e == cfg.did[d].direct IN
       call.from = "trunk" /\ e \in DOMAIN cfg.ext =>
          /\ call.phase = "talking" => call.by = <<"extension", e>>
          /\ \/ call.phase = "incoming"
             \/ call.lines = Goto(Named("local-extensions"), e)
             \/ Rings(call.lines, e)

\* The lines dial no extension that was not to be called.
TargetInv ==
    /\ IsSequence(call.lines)
    /\ \A k \in DOMAIN call.lines : call.lines[k].app = "dial" =>
          \A x \in call.lines[k].arg : x[1] = "extension" => IsTarget(x[2])
    /\ AnsweredByTarget

\* The recording that the policies so far ask for, but for a policy whose hook comes
\* next; the lines of a route, which may record as well, put nobody of the location
\* through.
Due == call.monitors = IF Recorded = {} THEN 0 ELSE 1
PolicyInv ==
    /\ PolicyKept
    /\ \/ call.phase # "incoming" /\ Straight(call.lines)
       \/ Hooked(call.lines, FALSE) /\ Due
       \/ Hooked(call.lines, TRUE) /\ Recorded # {} /\ call.monitors \in {0, 1}

GoesInv == PlanInv /\ CallTypeOK /\ DirectInv /\ TargetInv /\ PolicyInv

\* The invariant holds when a call begins.
LEMMA CallComes ==
    ASSUME ConfigsAssumption, RoutingInit
    PROVE  GoesInv /\ DestinationsWork
<1>1. PlanInv
  BY CallBegins DEF CallInv
<1>2. /\ call.phase = "incoming" /\ call.lines = << >> /\ call.monitors = 0
      /\ call.path = {} /\ call.by = Nothing
  BY DEF RoutingInit, NewCall
<1>3. IsSequence(call.lines) /\ DOMAIN call.lines = {}
  BY <1>2, NoLine
<1>4. CallTypeOK /\ DestinationsWork /\ DirectInv
  BY <1>2 DEF CallTypeOK, Phases, DestinationsWork, DirectInv
<1>5. TargetInv
  BY <1>2, <1>3 DEF TargetInv, AnsweredByTarget
<1>6. PolicyInv
  BY <1>2, <1>3 DEF PolicyInv, PolicyKept, Hooked, Due, Recorded
<1> QED
  BY <1>1, <1>4, <1>5, <1>6 DEF GoesInv

\* What is for one number of an extension, a ring group or a queue is not for i.
LEMMA PlainIs ==
    ASSUME PlainNames, PlanInv,
           NEW n, LocalEntry(cfg, n) \/ GroupEntry(cfg, n) \/ QueueEntry(cfg, n)
    PROVE  "i" \notin n.match
BY DEF PlainNames, PlanInv, LocalEntry, GroupEntry, QueueEntry, ActiveRows

\* The types of a call are kept.
LEMMA CallTypeStep ==
    ASSUME GoesInv, RoutingNext
    PROVE  CallTypeOK'
<1>1. cfg' = cfg /\ plan' = plan /\ DOMAIN call = Fields
  BY StepIs DEF Keeps, GoesInv, PlanInv
<1>2. ASSUME NEW context, NEW exten, Arrives(context, exten) PROVE CallTypeOK'
  <2>1. CASE call'.phase = "lost" /\ call'.lines = << >> /\ call'.path = call.path
             /\ call'.monitors = call.monitors
    BY <1>1, <2>1 DEF GoesInv, CallTypeOK, Phases
  <2>2. CASE \E n \in plan : call'.phase = "running"
                             /\ call'.path = call.path \union {<<n.context, exten>>}
                             /\ call'.monitors = call.monitors
    BY <1>1, <2>2 DEF GoesInv, CallTypeOK, Phases
  <2> QED
    BY <1>2, <2>1, <2>2 DEF Arrives
<1>3. ASSUME GoesOn PROVE CallTypeOK'
  <2>1. call'.monitors \in Nat
    BY <1>3 DEF GoesOn, GoesInv, CallTypeOK
  <2> QED
    BY <1>1, <1>3, <2>1 DEF GoesOn, GoesInv, CallTypeOK, Phases
<1>4. ASSUME Stops PROVE CallTypeOK'
  BY <1>1, <1>4 DEF Stops, GoesInv, CallTypeOK, Phases
<1> QED
  BY <1>1, <1>2, <1>3, <1>4, MoveIs

\* A call is lost only where nothing was written for an active row.
LEMMA PlaceStep ==
    ASSUME ConfigsAssumption, OneIvr, GoesInv, RoutingNext
    PROVE  DestinationsWork'
<1>1. cfg' = cfg /\ plan' = plan /\ DOMAIN call = Fields
  BY StepIs DEF Keeps, GoesInv, PlanInv
<1>2. ActivePlaces' = ActivePlaces
  BY <1>1 DEF ActivePlaces
<1>3. ASSUME NEW context, NEW exten, Arrives(context, exten) PROVE DestinationsWork'
  <2>1. CASE Found(context, exten, call.from) = {} /\ call'.at = <<context, exten>>
    <3>1. ASSUME <<context, exten>> \in ActivePlaces PROVE FALSE
      <4>1. PICK place \in ActivePlaces : place = <<context, exten>>
        BY <3>1
      <4>2. Found(place[1], place[2], call.from) # {}
        BY PlacesFound DEF GoesInv, PlanInv
      <4> QED
        BY <2>1, <4>1, <4>2
    <3> QED
      BY <1>2, <2>1, <3>1 DEF DestinationsWork
  <2>2. CASE call'.phase = "running"
    BY <2>2 DEF DestinationsWork
  <2> QED
    BY <1>3, <2>1, <2>2 DEF Arrives
<1>4. ASSUME GoesOn \/ Stops PROVE DestinationsWork'
  BY <1>4 DEF GoesOn, Stops, DestinationsWork
<1> QED
  BY <1>1, <1>3, <1>4, MoveIs

\* Who is reached through an extension, a ring group or a queue dialled its number.
LEMMA NumberIs ==
    ASSUME PlainNames, PlanInv, NEW context, NEW exten,
           NEW n, LocalEntry(cfg, n) \/ GroupEntry(cfg, n) \/ QueueEntry(cfg, n),
           \/ n \in Found(context, exten, call.from)
           \/ n \in Found(context, "i", call.from)
    PROVE  exten \in n.match
<1>1. exten \in n.match \/ "i" \in n.match
  BY FoundIs
<1>2. "i" \notin n.match
  BY PlainIs
<1> QED
  BY <1>1, <1>2

\* Who was to be called on the way remains so.
LEMMA TargetsStay ==
    ASSUME cfg' = cfg, call.path \subseteq call'.path, NEW e, IsTarget(e)
    PROVE  IsTarget(e)'
<1>1. PICK place \in call.path :
         \/ place[1] = Named("local-extensions") /\ place[2] = e
         \/ /\ place[1] = Named("ring-groups")
            /\ \E k \in DOMAIN cfg.group[place[2]].members : cfg.group[place[2]].members[k] = e
         \/ place[1] = Named("queues") /\ e \in cfg.queue[place[2]].members
  BY DEF IsTarget
<1>2. place \in call'.path
  BY <1>1
<1> QED
  BY <1>1, <1>2 DEF IsTarget

\* The extensions that lines dial are on the way once their place is.
LEMMA TargetsCome ==
    ASSUME ConfigsAssumption, PlainNames, PlanInv, cfg' = cfg, NEW context, NEW exten,
           NEW n \in plan,
           \/ n \in Found(context, exten, call.from)
           \/ n \in Found(context, "i", call.from),
           call'.path = call.path \union {<<n.context, exten>>}
    PROVE  /\ IsSequence(n.lines)
           /\ \A k \in DOMAIN n.lines : n.lines[k].app = "dial" =>
                 \A x \in n.lines[k].arg : x[1] = "extension" => IsTarget(x[2])'
<1>1. \/ LocalEntry(cfg, n) \/ GroupEntry(cfg, n) \/ QueueEntry(cfg, n) \/ DidEntry(cfg, n)
      \/ RouteEntry(n) \/ OtherEntry(n)
  BY EntryKinds DEF PlanInv
<1>2. PICK place \in call'.path : place = <<n.context, exten>>
  OBVIOUS
<1>3. place[1] = n.context /\ place[2] = exten
  BY <1>2
<1>4. CASE LocalEntry(cfg, n)
  <2>1. exten \in n.match
    BY <1>4, NumberIs
  <2>2. n.context = Named("local-extensions") /\ IsSequence(n.lines) /\ Dialling(n.lines, {exten})
    BY <1>4, <2>1 DEF LocalEntry, Policed
  <2>3. IsTarget(exten)'
    BY <1>2, <1>3, <2>2 DEF IsTarget
  <2> QED
    BY <2>2, <2>3 DEF Dialling
<1>5. CASE GroupEntry(cfg, n)
  <2>1. exten \in n.match
    BY <1>5, NumberIs
  <2>2. /\ n.context = Named("ring-groups") /\ IsSequence(n.lines)
        /\ Dialling(n.lines, Members(cfg, exten))
    BY <1>5, <2>1 DEF GroupEntry, Bare
  <2>3. ASSUME NEW e \in Members(cfg, exten) PROVE IsTarget(e)'
    <3>1. \E k \in DOMAIN cfg.group[place[2]].members : cfg.group[place[2]].members[k] = e
      BY <1>3, <2>3 DEF Members
    <3> QED
      BY <1>2, <1>3, <2>2, <3>1 DEF IsTarget
  <2> QED
    BY <2>2, <2>3 DEF Dialling
<1>6. CASE QueueEntry(cfg, n)
  <2>1. exten \in n.match
    BY <1>6, NumberIs
  <2>2. /\ n.context = Named("queues") /\ IsSequence(n.lines)
        /\ Dialling(n.lines, cfg.queue[exten].members)
    BY <1>6, <2>1 DEF QueueEntry, Policed
  <2>3. ASSUME NEW e \in cfg.queue[exten].members PROVE IsTarget(e)'
    BY <1>2, <1>3, <2>2, <2>3 DEF IsTarget
  <2> QED
    BY <2>2, <2>3 DEF Dialling
<1>7. CASE DidEntry(cfg, n) \/ RouteEntry(n) \/ OtherEntry(n)
  <2>1. IsSequence(n.lines) /\ Dialling(n.lines, {})
    BY <1>7 DEF DidEntry, RouteEntry, OtherEntry, Bare, Straight
  <2> QED
    BY <2>1 DEF Dialling
<1> QED
  BY <1>1, <1>4, <1>5, <1>6, <1>7

\* Nobody answers who was not to be called.
LEMMA TargetStep ==
    ASSUME ConfigsAssumption, PlainNames, GoesInv, RoutingNext
    PROVE  TargetInv'
<1>1. cfg' = cfg /\ DOMAIN call = Fields /\ IsSequence(call.lines)
  BY StepIs DEF Keeps, GoesInv, PlanInv, TargetInv
<1>2. ASSUME NEW context, NEW exten, Arrives(context, exten) PROVE TargetInv'
  <2>1. CASE call'.phase = "lost" /\ call'.lines = << >>
    <3>1. IsSequence(call'.lines) /\ DOMAIN call'.lines = {}
      BY <2>1, NoLine
    <3> QED
      BY <2>1, <3>1 DEF TargetInv, AnsweredByTarget
  <2>2. ASSUME NEW n \in plan, call'.phase = "running", call'.lines = n.lines,
               call'.path = call.path \union {<<n.context, exten>>},
               \/ n \in Found(context, exten, call.from)
               \/ n \in Found(context, "i", call.from)
        PROVE  TargetInv'
    <3>1. /\ IsSequence(n.lines)
          /\ \A k \in DOMAIN n.lines : n.lines[k].app = "dial" =>
                \A x \in n.lines[k].arg : x[1] = "extension" => IsTarget(x[2])'
      BY <1>1, <2>2, TargetsCome DEF GoesInv
    <3> QED
      BY <2>2, <3>1 DEF TargetInv, AnsweredByTarget
  <2> QED
    BY <1>2, <2>1, <2>2 DEF Arrives
<1>3. ASSUME GoesOn PROVE TargetInv'
  <2>1. IsSequence(Rest) /\ \A k \in DOMAIN Rest : k + 1 \in DOMAIN call.lines
                                                   /\ Rest[k] = call.lines[k + 1]
    BY <1>1, <1>3, RestIs DEF GoesOn, Rest
  <2>2. ASSUME NEW k \in DOMAIN Rest, Rest[k].app = "dial",
               NEW x \in Rest[k].arg, x[1] = "extension"
        PROVE  IsTarget(x[2])'
    <3>1. IsTarget(x[2])
      BY <2>1, <2>2 DEF GoesInv, TargetInv
    <3> QED
      BY <1>1, <1>3, <3>1, TargetsStay DEF GoesOn
  <2>3. call'.phase = "running" /\ call'.lines = Rest
    BY <1>3 DEF GoesOn
  <2> HIDE DEF Rest
  <2> QED
    BY <2>1, <2>2, <2>3 DEF TargetInv, AnsweredByTarget
<1>4. ASSUME Stops PROVE TargetInv'
  <2>1. IsSequence(call'.lines) /\ DOMAIN call'.lines = {}
    BY <1>4, NoLine DEF Stops
  <2>2. ASSUME call'.phase = "talking", call'.by[1] = "extension" PROVE IsTarget(call.by[2])'
    <3>1. call.lines # << >> /\ Current.app = "dial" /\ call'.by \in Current.arg
      BY <1>4, <2>2 DEF Stops
    <3>2. 1 \in DOMAIN call.lines /\ Current = call.lines[1]
      BY <1>1, <3>1, RestIs DEF Current
    <3>3. PICK e : e = call'.by[2]
      OBVIOUS
    <3>4. IsTarget(e)
      BY <2>2, <3>1, <3>2, <3>3 DEF GoesInv, TargetInv
    <3>5. IsTarget(e)'
      BY <1>1, <1>4, <3>4, TargetsStay DEF Stops
    <3> QED
      BY <3>3, <3>5 DEF IsTarget
  <2>3. AnsweredByTarget'
    BY <2>2 DEF AnsweredByTarget
  <2> QED
    BY <2>1, <2>3 DEF TargetInv
<1> QED
  BY <1>1, <1>2, <1>3, <1>4, MoveIs

\* In the context of the DIDs and in that of the extensions there are only these.
LEMMA OnlyThese ==
    ASSUME ConfigsAssumption, PlanInv, NEW n \in plan
    PROVE  /\ n.context = Named("inbound") => DidEntry(cfg, n)
           /\ n.context = Named("local-extensions") => LocalEntry(cfg, n)
<1>1. \/ LocalEntry(cfg, n) \/ GroupEntry(cfg, n) \/ QueueEntry(cfg, n) \/ DidEntry(cfg, n)
      \/ RouteEntry(n) \/ OtherEntry(n)
  BY EntryKinds DEF PlanInv
<1>2. \A a, b : Named(a) = Named(b) => a = b
  BY SpecialContexts
<1>3. OtherEntry(n) => n.context # Named("inbound") /\ n.context # Named("local-extensions")
  BY DEF OtherEntry
<1> QED
  BY <1>1, <1>2, <1>3 DEF LocalEntry, GroupEntry, QueueEntry, DidEntry, RouteEntry

\* A context that includes no other.
LEMMA IncludesNothing ==
    Includes(Named("inbound")) = << >> /\ Includes(Named("local-extensions")) = << >>
<1>1. \A a, b : Named(a) = Named(b) => a = b
  BY SpecialContexts
<1> QED
  BY <1>1 DEF Includes

\* What is found for a DID that is assigned to an extension leads to that extension.
LEMMA DirectBegins ==
    ASSUME ConfigsAssumption, PlainNames, PlanInv, NEW d \in DOMAIN cfg.did,
           cfg.did[d].direct \in DOMAIN cfg.ext, NEW caller, NEW n,
           n \in Found(Named("inbound"), d, caller) \/ n \in Found(Named("inbound"), "i", caller)
    PROVE  \/ n.lines = Goto(Named("local-extensions"), cfg.did[d].direct)
           \/ Rings(n.lines, cfg.did[d].direct)
<1> DEFINE e == cfg.did[d].direct
<1>1. n \in plan /\ n.context = Named("inbound") /\ (d \in n.match \/ "i" \in n.match)
  BY FoundIs, IncludesNothing
<1>2. DidEntry(cfg, n)
  BY <1>1, OnlyThese
<1>3. d # "s" /\ d # "i" /\ "i" \notin DOMAIN cfg.did
  BY DEF PlainNames, PlanInv
<1>4. n.lines = DestinationApp(EffectiveDestination(cfg, d))
  BY <1>1, <1>2, <1>3 DEF DidEntry, ActiveRows
<1>5. e # Nothing
  BY DEF ConfigsAssumption, PlanInv
<1>6. n.lines = DestinationApp(<<"extension", e>>)
  BY <1>4, <1>5 DEF EffectiveDestination
<1>7. ContextOf["extension"] = Named("local-extensions")
  BY DEF ContextOf
<1> HIDE DEF e
<1>8. CASE <<"extension", e>> = Nothing
  <2>1. n.lines = Playback
    BY <1>6, <1>8 DEF DestinationApp
  <2>2. Rings(Playback, e)
    BY RingLines
  <2> QED
    BY <2>1, <2>2 DEF e
<1>9. CASE <<"extension", e>> # Nothing
  <2>1. n.lines = Goto(Named("local-extensions"), e)
    BY <1>6, <1>7, <1>9 DEF DestinationApp
  <2> QED
    BY <2>1 DEF e
<1> QED
  BY <1>8, <1>9

\* And what is found for the extension rings it.
LEMMA DirectRings ==
    ASSUME ConfigsAssumption, PlainNames, PlanInv, NEW e, NEW caller, NEW n,
           \/ n \in Found(Named("local-extensions"), e, caller)
           \/ n \in Found(Named("local-extensions"), "i", caller)
    PROVE  Rings(n.lines, e)
<1>1. n \in plan /\ n.context = Named("local-extensions") /\ (e \in n.match \/ "i" \in n.match)
  BY FoundIs, IncludesNothing
<1>2. LocalEntry(cfg, n)
  BY <1>1, OnlyThese
<1>3. "i" \notin n.match
  BY <1>2, PlainIs
<1> QED
  BY <1>1, <1>2, <1>3 DEF LocalEntry

\* Ringing lines lead nowhere, and remain so.
LEMMA RingsOn ==
    ASSUME NEW s, NEW e, Rings(s, e), s # << >>
    PROVE  /\ Rings(Tail(s), e) /\ Head(s).app \notin Leading
           /\ Head(s).app = "dial" => Head(s).arg = {<<"extension", e>>}
<1>1. IsSequence(s)
  BY DEF Rings, LinesOf
<1>2. /\ IsSequence(Tail(s)) /\ 1 \in DOMAIN s /\ Head(s) = s[1]
      /\ \A k \in DOMAIN Tail(s) : k + 1 \in DOMAIN s /\ Tail(s)[k] = s[k + 1]
  BY <1>1, RestIs
<1> QED
  BY <1>2 DEF Rings, LinesOf, Quiet, Leading

\* A DID that is assigned to an extension rings nowhere else.
LEMMA DirectStep ==
    ASSUME ConfigsAssumption, PlainNames, GoesInv, RoutingNext
    PROVE  DirectInv'
<1>1. /\ cfg' = cfg /\ plan' = plan /\ DOMAIN call = Fields
      /\ call'.from = call.from /\ call'.number = call.number
  BY StepIs DEF Keeps, GoesInv, PlanInv
<1>2. SUFFICES ASSUME NEW d \in {call.number} \intersect DOMAIN cfg.did, call.from = "trunk",
                      cfg.did[d].direct \in DOMAIN cfg.ext
               PROVE  LET e == cfg.did[d].direct IN
                      /\ call'.phase = "talking" => call'.by = <<"extension", e>>
                      /\ \/ call'.phase = "incoming"
                         \/ call'.lines = Goto(Named("local-extensions"), e)
                         \/ Rings(call'.lines, e)
  BY <1>1 DEF DirectInv
<1> DEFINE e == cfg.did[d].direct
<1>3. /\ d = call.number
      /\ \/ call.phase = "incoming"
         \/ call.lines = Goto(Named("local-extensions"), e)
         \/ Rings(call.lines, e)
  BY <1>2 DEF GoesInv, DirectInv
<1>4. Rings(<< >>, e)
  BY RingLines
<1> DEFINE Good == /\ call'.phase # "talking"
                   /\ \/ call'.lines = Goto(Named("local-extensions"), e)
                      \/ Rings(call'.lines, e)
<1>5. CASE call.phase = "incoming" /\ Arrives(Entrance(call.from), call.number)
  <2>1. Entrance(call.from) = Named("inbound")
    BY <1>2 DEF Entrance
  <2>2. ASSUME NEW n, \/ n \in Found(Named("inbound"), d, call.from)
                      \/ n \in Found(Named("inbound"), "i", call.from)
        PROVE  n.lines = Goto(Named("local-extensions"), e) \/ Rings(n.lines, e)
    BY <1>2, <2>2, DirectBegins DEF GoesInv
  <2> HIDE DEF e
  <2>3. Good
    BY <1>3, <1>4, <1>5, <2>1, <2>2 DEF Arrives
  <2> QED
    BY <2>3 DEF e
<1>6. ASSUME call.phase = "running", call.lines # << >>, Current.app \in Leading,
             NEW context, NEW exten,
             Current.app = "goto" => Current.arg[1] = context /\ Current.arg[2] = exten,
             Arrives(context, exten)
      PROVE  Good
  <2>1. call.lines = Goto(Named("local-extensions"), e)
    BY <1>3, <1>6, RingsOn DEF Current
  <2>2. Current = Line("goto", <<Named("local-extensions"), e>>)
    BY <2>1 DEF Goto, Current
  <2>3. context = Named("local-extensions") /\ exten = e
    BY <1>6, <2>2 DEF Line
  <2>4. ASSUME NEW n, \/ n \in Found(Named("local-extensions"), e, call.from)
                      \/ n \in Found(Named("local-extensions"), "i", call.from)
        PROVE  Rings(n.lines, e)
    BY <2>4, DirectRings DEF GoesInv
  <2> HIDE DEF e
  <2> QED
    BY <1>4, <1>6, <2>3, <2>4 DEF Arrives
<1>7. CASE GoesOn
  <2>1. call.phase = "running" /\ call.lines # << >> /\ call'.lines = Tail(call.lines)
        /\ call'.phase = "running"
    BY <1>7 DEF GoesOn, Rest
  <2>2. CASE call.lines = Goto(Named("local-extensions"), e)
    <3> DEFINE l == Line("goto", <<Named("local-extensions"), e>>)
    <3>1. call.lines = <<l>>
      BY <2>2 DEF Goto
    <3> HIDE DEF l
    <3>2. call'.lines = << >>
      BY <2>1, <3>1
    <3> QED
      BY <1>4, <2>1, <3>2
  <2>3. CASE Rings(call.lines, e)
    <3> HIDE DEF e
    <3>1. Rings(call'.lines, e)
      BY <2>1, <2>3, RingsOn
    <3> QED
      BY <2>1, <3>1 DEF e
  <2> QED
    BY <1>3, <2>1, <2>2, <2>3
<1>8. CASE Stops
  <2>1. call.phase = "running" /\ call'.lines = << >>
    BY <1>8 DEF Stops
  <2>2. ASSUME call'.phase = "talking" PROVE call'.by = <<"extension", e>>
    <3>1. call.lines # << >> /\ Current.app = "dial" /\ call'.by \in Current.arg
      BY <1>8, <2>2 DEF Stops
    <3>2. CASE call.lines = Goto(Named("local-extensions"), e)
      <4>1. Current = Line("goto", <<Named("local-extensions"), e>>)
        BY <3>2 DEF Goto, Current
      <4> QED
        BY <3>1, <4>1 DEF Line
    <3>3. CASE Rings(call.lines, e)
      <4> HIDE DEF e
      <4>1. Current.arg = {<<"extension", e>>}
        BY <3>1, <3>3, RingsOn DEF Current
      <4> QED
        BY <3>1, <4>1
    <3> QED
      BY <1>3, <2>1, <3>2, <3>3
  <2> QED
    BY <1>4, <2>1, <2>2
<1> QED
  BY <1>1, <1>5, <1>6, <1>7, <1>8, MoveIs

\* A place on the way counts as recorded when its extension or queue has a policy.
LEMMA RecordedGrows ==
    ASSUME cfg' = cfg, NEW context, NEW exten,
           call'.path = call.path \union {<<context, exten>>}
    PROVE  /\ Recorded \subseteq Recorded'
           /\ context \notin {Named("local-extensions"), Named("queues")} => Recorded' = Recorded
           /\ context = Named("local-extensions") =>
                 IF cfg.ext[exten].record THEN Recorded' # {} ELSE Recorded' = Recorded
           /\ context = Named("queues") =>
                 IF cfg.queue[exten].record THEN Recorded' # {} ELSE Recorded' = Recorded
<1> DEFINE R(p) == \/ p[1] = Named("local-extensions") /\ cfg.ext[p[2]].record
                   \/ p[1] = Named("queues") /\ cfg.queue[p[2]].record
           here == <<context, exten>>
<1>1. Recorded = {p \in call.path : R(p)} /\ Recorded' = {p \in call'.path : R(p)}
  BY DEF Recorded
<1>2. Recorded' = Recorded \union {p \in {here} : R(p)}
  <2> HIDE DEF R, here
  <2> QED
    BY <1>1 DEF here
<1>3. here[1] = context /\ here[2] = exten
  OBVIOUS
<1>4. R(here) <=> \/ context = Named("local-extensions") /\ cfg.ext[exten].record
                  \/ context = Named("queues") /\ cfg.queue[exten].record
  BY <1>3
<1> HIDE DEF R, here
<1>5. IF R(here) THEN Recorded' # {} ELSE Recorded' = Recorded
  BY <1>2
<1>6. Named("local-extensions") # Named("queues")
  BY SpecialContexts
<1> QED
  BY <1>2, <1>4, <1>5, <1>6

\* The lines that a call arrives at are those of a route, or ask for their recording
\* first if the place has a policy and do not record otherwise.
LEMMA PolicyComes ==
    ASSUME ConfigsAssumption, PlainNames, PlanInv, cfg' = cfg, NEW context, NEW exten,
           NEW n \in plan,
           \/ n \in Found(context, exten, call.from)
           \/ n \in Found(context, "i", call.from),
           call'.path = call.path \union {<<n.context, exten>>}
    PROVE  \/ Straight(n.lines)
           \/ Hooked(n.lines, FALSE) /\ Recorded' = Recorded
           \/ Hooked(n.lines, TRUE) /\ Recorded' # {}
<1>1. \/ LocalEntry(cfg, n) \/ GroupEntry(cfg, n) \/ QueueEntry(cfg, n) \/ DidEntry(cfg, n)
      \/ RouteEntry(n) \/ OtherEntry(n)
  BY EntryKinds DEF PlanInv
<1>2. /\ n.context \notin {Named("local-extensions"), Named("queues")} => Recorded' = Recorded
      /\ n.context = Named("local-extensions") =>
            IF cfg.ext[exten].record THEN Recorded' # {} ELSE Recorded' = Recorded
      /\ n.context = Named("queues") =>
            IF cfg.queue[exten].record THEN Recorded' # {} ELSE Recorded' = Recorded
  BY RecordedGrows
<1>3. CASE LocalEntry(cfg, n)
  <2>1. exten \in n.match
    BY <1>3, NumberIs
  <2>2. n.context = Named("local-extensions") /\ Hooked(n.lines, cfg.ext[exten].record)
    BY <1>3, <2>1 DEF LocalEntry, Policed
  <2> QED
    BY <1>2, <2>2 DEF Hooked
<1>4. CASE QueueEntry(cfg, n)
  <2>1. exten \in n.match
    BY <1>4, NumberIs
  <2>2. n.context = Named("queues") /\ Hooked(n.lines, cfg.queue[exten].record)
    BY <1>4, <2>1 DEF QueueEntry, Policed
  <2> QED
    BY <1>2, <2>2 DEF Hooked
<1>5. CASE GroupEntry(cfg, n) \/ DidEntry(cfg, n) \/ OtherEntry(n)
  <2>1. Hooked(n.lines, FALSE)
    BY <1>5 DEF GroupEntry, DidEntry, OtherEntry, Bare, Hooked
  <2>2. \A a, b : Named(a) = Named(b) => a = b
    BY SpecialContexts
  <2>3. OtherEntry(n) => n.context # Named("queues") /\ n.context # Named("local-extensions")
    BY DEF OtherEntry
  <2>4. n.context \notin {Named("local-extensions"), Named("queues")}
    BY <1>5, <2>2, <2>3 DEF GroupEntry, DidEntry
  <2> QED
    BY <1>2, <2>1, <2>4
<1>6. CASE RouteEntry(n)
  BY <1>6 DEF RouteEntry
<1> QED
  BY <1>1, <1>3, <1>4, <1>5, <1>6

\* No line.
LEMMA NothingLeft ==
    Straight(<< >>)
BY StraightLines

\* A call is recorded as the policies on its way say, once.
LEMMA PolicyStep ==
    ASSUME ConfigsAssumption, PlainNames, GoesInv, RoutingNext
    PROVE  PolicyInv'
<1>1. cfg' = cfg /\ DOMAIN call = Fields /\ IsSequence(call.lines)
  BY StepIs DEF Keeps, GoesInv, PlanInv, TargetInv
<1>2. \/ call.phase # "incoming" /\ Straight(call.lines)
      \/ Hooked(call.lines, FALSE) /\ Due
      \/ Hooked(call.lines, TRUE) /\ Recorded # {} /\ call.monitors \in {0, 1}
  BY DEF GoesInv, PolicyInv
<1>3. ASSUME call.lines # << >>
      PROVE  1 \in DOMAIN call.lines /\ Current = call.lines[1]
  BY <1>1, <1>3, RestIs DEF Current
<1>4. call'.path = call.path => Recorded' = Recorded
  BY <1>1 DEF Recorded
<1>5. ASSUME call.phase = "incoming" \/ (call.lines # << >> /\ Current.app \in Leading),
             NEW context, NEW exten, Arrives(context, exten)
      PROVE  PolicyInv'
  <2>1. Due
    <3>1. CASE call.phase = "incoming"
      <4>1. DOMAIN call.lines = {}
        BY <3>1, NoLine DEF GoesInv, CallTypeOK
      <4> QED
        BY <1>2, <3>1, <4>1 DEF Hooked
    <3>2. CASE call.lines # << >> /\ Current.app \in Leading
      BY <1>2, <1>3, <3>2 DEF Hooked, Straight, Leading
    <3> QED
      BY <1>5, <3>1, <3>2
  <2>2. call'.monitors = call.monitors /\ call.monitors \in {0, 1}
    BY <1>5, <2>1 DEF Arrives, Due
  <2>3. CASE call'.phase = "lost" /\ call'.lines = << >>
    BY <2>3, NothingLeft DEF PolicyInv, PolicyKept
  <2>4. ASSUME NEW n \in plan, call'.phase = "running", call'.lines = n.lines,
               call'.path = call.path \union {<<n.context, exten>>},
               \/ n \in Found(context, exten, call.from)
               \/ n \in Found(context, "i", call.from)
        PROVE  PolicyInv'
    <3>1. \/ Straight(n.lines)
          \/ Hooked(n.lines, FALSE) /\ Recorded' = Recorded
          \/ Hooked(n.lines, TRUE) /\ Recorded' # {}
      BY <1>1, <2>4, PolicyComes DEF GoesInv
    <3> QED
      BY <2>1, <2>2, <2>4, <3>1 DEF PolicyInv, PolicyKept, Due
  <2> QED
    BY <1>5, <2>3, <2>4 DEF Arrives
<1>6. ASSUME GoesOn PROVE PolicyInv'
  <2>1. call.lines # << >> /\ call'.phase = "running" /\ call'.lines = Rest
        /\ Recorded' = Recorded
        /\ call'.monitors = IF Current.app = "record" /\ call.monitors = 0 THEN 1
                            ELSE call.monitors
    BY <1>4, <1>6 DEF GoesOn
  <2>2. /\ IsSequence(Rest) /\ DOMAIN Rest \subseteq Nat \ {0}
        /\ \A k \in DOMAIN Rest : k + 1 \in DOMAIN call.lines /\ Rest[k] = call.lines[k + 1]
    BY <1>1, <2>1, RestIs, SequenceIs DEF Rest
  <2> HIDE DEF Rest
  <2>3. CASE Straight(call.lines)
    <3>1. Straight(Rest)
      BY <2>2, <2>3 DEF Straight, Dialling
    <3> QED
      BY <2>1, <3>1 DEF PolicyInv, PolicyKept
  <2>4. ASSUME Hooked(call.lines, FALSE) \/ Hooked(call.lines, TRUE)
        PROVE  Hooked(Rest, FALSE)
    <3>1. \A k \in DOMAIN Rest : k + 1 # 1
      BY <2>2
    <3> QED
      BY <2>2, <2>4, <3>1 DEF Hooked
  <2>5. CASE Hooked(call.lines, FALSE) /\ Due
    <3>1. Current.app # "record"
      BY <1>3, <2>1, <2>5 DEF Hooked
    <3>2. Due'
      BY <2>1, <2>5, <3>1 DEF Due
    <3> QED
      BY <2>1, <2>4, <2>5, <3>2 DEF PolicyInv, PolicyKept
  <2>6. CASE Hooked(call.lines, TRUE) /\ Recorded # {} /\ call.monitors \in {0, 1}
    <3>1. Current.app = "record"
      BY <1>3, <2>1, <2>6 DEF Hooked
    <3>2. Due'
      BY <2>1, <2>6, <3>1 DEF Due
    <3> QED
      BY <2>1, <2>4, <2>6, <3>2 DEF PolicyInv, PolicyKept
  <2> QED
    BY <1>2, <2>3, <2>5, <2>6
<1>7. ASSUME Stops PROVE PolicyInv'
  <2>1. call'.lines = << >> /\ Recorded' = Recorded /\ call'.monitors = call.monitors
        /\ call'.phase \in {"voicemail", "ended", "talking"}
    BY <1>4, <1>7 DEF Stops
  <2>2. ASSUME call'.phase = "talking", call'.by[1] = "extension"
        PROVE  Due
    <3>1. call.lines # << >> /\ Current.app = "dial" /\ call'.by \in Current.arg
      BY <1>7, <2>2 DEF Stops
    <3>2. ~Hooked(call.lines, TRUE)
      BY <1>3, <3>1 DEF Hooked
    <3>3. ~Straight(call.lines)
      BY <1>3, <2>2, <3>1 DEF Straight, Dialling
    <3> QED
      BY <1>2, <3>2, <3>3
  <2>3. PolicyKept'
    BY <2>1, <2>2 DEF PolicyKept, Due
  <2> QED
    BY <2>1, <2>3, NothingLeft DEF PolicyInv
<1>8. \/ call.phase = "incoming" /\ Arrives(Entrance(call.from), call.number)
      \/ /\ call.lines # << >> /\ Current.app \in Leading
         /\ \E context, exten : Arrives(context, exten)
      \/ GoesOn \/ Stops
  BY <1>1, MoveIs
<1> QED
  BY <1>5, <1>6, <1>7, <1>8

\* Every step keeps the invariant.
LEMMA CallMoves ==
    ASSUME ConfigsAssumption, PlainNames, GoesInv, [RoutingNext]_routingVars
    PROVE  GoesInv'
<1>1. CASE RoutingNext
  <2>1. Keeps
    BY <1>1, StepIs DEF GoesInv, PlanInv
  <2>2. PlanInv'
    BY <2>1 DEF GoesInv, PlanInv, Keeps
  <2> QED
    BY <1>1, <2>2, CallTypeStep, DirectStep, TargetStep, PolicyStep DEF GoesInv
<1>2. CASE UNCHANGED routingVars
  <2>1. cfg' = cfg /\ plan' = plan /\ call' = call
    BY <1>2 DEF routingVars
  <2>2. PlanInv' /\ CallTypeOK'
    BY <2>1 DEF GoesInv, PlanInv, CallTypeOK
  <2>3. DirectInv'
    BY <2>1 DEF GoesInv, DirectInv
  <2>4. TargetInv'
    BY <2>1 DEF GoesInv, TargetInv, AnsweredByTarget, IsTarget
  <2>5. PolicyInv'
    BY <2>1 DEF GoesInv, PolicyInv, PolicyKept, Due, Recorded
  <2> QED
    BY <2>2, <2>3, <2>4, <2>5 DEF GoesInv
<1> QED
  BY <1>1, <1>2

\* The invariant says what is promised of calls, but that none is lost.
LEMMA GoesInvImplies ==
    ASSUME GoesInv
    PROVE  CallTypeOK /\ DirectDidRings /\ AnsweredByTarget /\ PolicyKept
BY DEF GoesInv, DirectInv, DirectDidRings, TargetInv, PolicyInv

\* Calls are answered and recorded as the rows say, for any location with plain names: a
\* DID that is assigned to an extension rings only there, nobody answers who was not to be
\* called, and a call is recorded as the policies on its way say, once.
THEOREM AnswersAreAsConfigured ==
    ASSUME ConfigsAssumption, PlainNames
    PROVE  RoutingSpec => [](CallTypeOK /\ DirectDidRings /\ AnsweredByTarget /\ PolicyKept)
<1>1. RoutingInit => GoesInv
  BY CallComes
<1>2. GoesInv /\ [RoutingNext]_routingVars => GoesInv'
  BY CallMoves
<1>3. GoesInv => CallTypeOK /\ DirectDidRings /\ AnsweredByTarget /\ PolicyKept
  BY GoesInvImplies
<1> QED
  BY <1>1, <1>2, <1>3, PTL DEF RoutingSpec

\* And none is lost on its way to an active row, when the location has one active IVR.
THEOREM CallsGoAsConfiguredCorrect ==
    ASSUME ConfigsAssumption, OneIvr, PlainNames
    PROVE  RoutingSpec => []CallsGoAsConfigured
<1> DEFINE WayInv == GoesInv /\ DestinationsWork
<1>1. RoutingInit => WayInv
  BY CallComes
<1>2. WayInv /\ [RoutingNext]_routingVars => WayInv'
  <2>1. SUFFICES ASSUME WayInv, [RoutingNext]_routingVars PROVE WayInv'
    OBVIOUS
  <2>2. GoesInv'
    BY <2>1, CallMoves
  <2>3. CASE RoutingNext
    BY <2>1, <2>2, <2>3, PlaceStep
  <2>4. CASE UNCHANGED routingVars
    BY <2>1, <2>2, <2>4 DEF routingVars, DestinationsWork, ActivePlaces
  <2> QED
    BY <2>1, <2>3, <2>4
<1>3. WayInv => CallsGoAsConfigured
  BY GoesInvImplies DEF CallsGoAsConfigured
<1> QED
  BY <1>1, <1>2, <1>3, PTL DEF RoutingSpec
=============================================================================
