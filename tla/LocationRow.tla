---------------------------- MODULE LocationRow -----------------------------
(***************************************************************************)
(* The row of one location and everybody who writes it: the form that      *)
(* edits it, the rotation of the AMI credentials, the reports of the PBX   *)
(* agent and the deployments.                                              *)
(*                                                                         *)
(* Only the form writes every column, from a copy of the row it read       *)
(* before it validated; the others name the columns they write.  No one    *)
(* but a deployment that succeeds locks the row.  The versions themselves  *)
(* have rows of their own (modules ConfigExport and Deployment); of them   *)
(* this module keeps what the dashboard compares with the row.             *)
(*                                                                         *)
(* The columns that are only settings are one, is_active; the AMI fields   *)
(* of an administrator's form are like its agent secret and left out.      *)
(***************************************************************************)
EXTENDS Naturals, FiniteSets

CONSTANTS
    Requests,       \* requests to the portal
    Administrators, \* those of them whose user holds the administer permission
    Kinds,          \* what they ask for
    Reports,        \* reports of the active configuration that may be under way
    DefaultCodes,   \* DEFAULT_FEATURE_CODES
    MaxVersions,    \* bound: versions that are exported
    MaxReads,       \* bound: reports that are begun
    MaxDeployments  \* bound: deployments and rollbacks

AllKinds == {"edit", "rotate", "create", "delete", "seed"}

ASSUME ConstantsAssumption ==
    /\ Administrators \subseteq Requests
    /\ Kinds \subseteq AllKinds
    /\ MaxVersions \in Nat /\ MaxReads \in Nat /\ MaxDeployments \in Nat

VARIABLES
    row,        \* the row of the location, or NoRow
    codes,      \* the default feature codes the location has
    exported,   \* the number of its newest version, 0 when there is none
    deployed,   \* the version that was marked deployed last, 0 for none
    records,    \* how many deployment records there are
    deploying,  \* the version being deployed, 0 for none
    marker,     \* the version in the marker file of the PBX, 0 without a file
    agentKey,   \* the PBX_AGENT_SECRET the agent runs with
    req,        \* where each request is and what it holds
    rep,        \* where each report is and what it carries
    mine,       \* history: the value its own writer gave each column last
    undone,     \* history: the columns a form has written back an old value of
    entered,    \* history: the agent secrets that administrators have entered
    reads,      \* history: how many reports were begun
    heard,      \* history: the latest begun of the reports the row was given
    cut         \* history: a default feature code may be missing

host == <<deploying, marker, agentKey>>
versions == <<exported, deployed, records>>
vars == <<row, codes, versions, host, req, rep, mine, undone, entered, reads, heard, cut>>

FailureForgotten == {"not_deployed", "ready", "deployed"} \* a faulty form, see below

Statuses == {"not_deployed", "ready", "deployed", "failed"}
Secrets == 0..2
NoSecret == 0
Columns == {"active", "secret", "ami", "status", "report"}
Rows == [active : BOOLEAN, secret : Secrets, ami : Nat, status : Statuses \union {"none"},
         report : 0..MaxVersions]
NoRow == [active |-> FALSE, secret |-> NoSecret, ami |-> 0, status |-> "none", report |-> 0]
First == [active |-> TRUE, secret |-> 1, ami |-> 1, status |-> "not_deployed", report |-> 0]
Exists == row.status # "none"

NoReq == [pc |-> "new", kind |-> "edit", copy |-> NoRow, left |-> {}]
NothingHeard == [turn |-> 0, value |-> 0]
NoRep == [pc |-> "idle", value |-> 0, turn |-> 0]

TypeOK ==
    /\ row \in Rows /\ codes \subseteq DefaultCodes
    /\ exported \in 0..MaxVersions /\ deployed \in 0..exported
    /\ records \in 0..MaxDeployments /\ deploying \in 0..exported
    /\ marker \in 0..exported
    /\ agentKey \in Secrets
    /\ req \in [Requests ->
           [pc : {"new", "loaded", "seeding", "done"}, kind : AllKinds, copy : Rows,
            left : SUBSET DefaultCodes]]
    /\ rep \in [Reports ->
           [pc : {"idle", "open"}, value : 0..exported, turn : 0..reads]]
    /\ mine \in Rows /\ undone \subseteq Columns /\ entered \subseteq Secrets
    /\ reads \in 0..MaxReads
    /\ heard \in [turn : 0..reads, value : 0..exported]
    /\ cut \in BOOLEAN

Init ==
    /\ \/ row = First /\ codes = DefaultCodes
       \/ row = NoRow /\ codes = {} /\ "create" \in Kinds
    /\ exported = 0 /\ deployed = 0 /\ records = 0
    /\ deploying = 0 /\ marker = 0 /\ agentKey = row.secret
    /\ req = [r \in Requests |-> NoReq]
    /\ rep = [p \in Reports |-> NoRep]
    /\ mine = row /\ undone = {} /\ entered = {row.secret} \ {NoSecret}
    /\ reads = 0 /\ heard = NothingHeard
    /\ cut = FALSE

\* Faulty forms of definitions below, each what a plausible bug would make of it.
\* The specification uses none of them: they show that the properties notice.
Unreported(active, newest, last) == newest # 0 /\ last # 0 /\ newest # last
WholeRow(now, cols, new) == new
BlankSecret(r, secret) == secret
FirstCode == {CHOOSE c \in DefaultCodes : TRUE}
NeverProtected == FALSE

-----------------------------------------------------------------------------
\* What save(update_fields = cols) makes of the row: the named columns of "new".
SaveColumns(now, cols, new) == [c \in Columns |-> IF c \in cols THEN new[c] ELSE now[c]]

\* A writer stores its columns; they hold what it wrote until somebody undoes it.
Write(cols, new) ==
    /\ row' = SaveColumns(row, cols, new)
    /\ mine' = [c \in Columns |-> IF c \in cols THEN new[c] ELSE mine[c]]
    /\ undone' = undone \ cols

Step(r, from, to) ==
    /\ req[r].pc = from
    /\ req' = [req EXCEPT ![r].pc = to]

Telemetry == <<rep, reads, heard>>

\* get_object_or_404: the request keeps a copy of the row.
Load(r, kind) ==
    /\ kind \in Kinds /\ Exists
    /\ kind = "rotate" => r \in Administrators
    /\ req[r].pc = "new"
    /\ req' = [req EXCEPT ![r] = [@ EXCEPT !.pc = "loaded", !.kind = kind, !.copy = row]]
    /\ UNCHANGED <<row, codes, versions, host, Telemetry, mine, undone, entered, cut>>

\* LocationForm.save keeps the secret of the copy when the field is blank or absent.
SecretToSave(r, secret) == IF secret = NoSecret THEN req[r].copy.secret ELSE secret

\* Only an administrator's form has the field of the secret.
SecretField(r) == IF r \in Administrators THEN Secrets ELSE {NoSecret}

\* A valid form is saved: every column of the copy, with what the form changed.  The
\* status is a field of the form.  When the row was deleted meanwhile, save() inserts
\* it again, without the rows that were deleted with it.
SaveEdit(r) ==
    /\ req[r].kind = "edit" /\ Step(r, "loaded", "done")
    /\ \E active \in BOOLEAN, status \in Statuses, secret \in SecretField(r) :
          LET set == {"active", "status"} \union (IF secret = NoSecret THEN {} ELSE {"secret"})
              new == [req[r].copy EXCEPT !.active = active, !.status = status,
                                         !.secret = SecretToSave(r, secret)] IN
          /\ row' = new
          /\ mine' = [c \in Columns |-> IF c \in set \/ ~Exists THEN new[c] ELSE mine[c]]
          /\ undone' = (undone \union {c \in Columns : req[r].copy[c] # row[c]}) \ set
          /\ entered' = entered \union ({secret} \ {NoSecret})
    /\ cut' = (cut \/ ~Exists)
    /\ UNCHANGED <<codes, versions, host, Telemetry>>

NewCredentials == 1 + (IF mine.ami > row.ami THEN mine.ami ELSE row.ami)

\* location_ami_rotate: new credentials, and no other column.  Without a row the
\* save fails, and with it the request.
SaveRotation(r) ==
    /\ req[r].kind = "rotate" /\ Step(r, "loaded", "done")
    /\ IF Exists THEN Write({"ami"}, [req[r].copy EXCEPT !.ami = NewCredentials])
                 ELSE UNCHANGED <<row, mine, undone>>
    /\ UNCHANGED <<codes, versions, host, Telemetry, entered, cut>>

\* A deployment record protects the version it is about, and with it the location.
Protected == records > 0

DeleteLocation(r) ==
    /\ req[r].kind = "delete" /\ Step(r, "loaded", "done")
    /\ IF Protected
       THEN UNCHANGED <<row, mine, undone, codes, exported>>
       ELSE /\ row' = NoRow /\ mine' = NoRow /\ undone' = {}
            /\ codes' = {} /\ exported' = 0
    /\ heard' = IF Protected THEN heard ELSE NothingHeard
    /\ UNCHANGED <<deployed, records, host, rep, reads, entered, cut>>

\* The form is not valid, or the worker is killed.
GiveUp(r) ==
    /\ req[r].pc \in {"loaded", "seeding"}
    /\ req' = [req EXCEPT ![r].pc = "done"]
    /\ cut' = (cut \/ req[r].pc = "seeding")
    /\ UNCHANGED <<row, codes, versions, host, Telemetry, mine, undone, entered>>

\* The codes ensure_default_feature_codes goes through.
CodesToEnsure == DefaultCodes

Seed(r, kind) ==
    /\ kind \in Kinds /\ req[r].pc = "new"
    /\ req' = [req EXCEPT ![r] =
                  [@ EXCEPT !.pc = "seeding", !.kind = kind, !.left = CodesToEnsure]]
    /\ cut' = FALSE

\* location_create commits the location, with generated AMI credentials; its feature
\* codes follow in queries of their own.
CreateLocation(r) ==
    /\ r \in Administrators /\ entered = {}
    /\ Seed(r, "create")
    /\ row' = First /\ mine' = First /\ undone' = {}
    /\ entered' = {First.secret}
    /\ UNCHANGED <<codes, versions, host, Telemetry>>

\* feature_code_seed_defaults, for a location that lacks one.
SeedDefaults(r) ==
    /\ Exists /\ codes # DefaultCodes
    /\ Seed(r, "seed")
    /\ UNCHANGED <<row, codes, versions, host, Telemetry, mine, undone, entered>>

\* get_or_create of the next code, which fails when the location is gone.
EnsureCode(r) ==
    /\ req[r].pc = "seeding" /\ req[r].left # {}
    /\ IF Exists
       THEN \E c \in req[r].left :
               /\ codes' = codes \union {c}
               /\ req' = [req EXCEPT ![r].left = @ \ {c}]
       ELSE /\ req' = [req EXCEPT ![r].pc = "done", ![r].left = {}]
            /\ UNCHANGED codes
    /\ UNCHANGED <<row, versions, host, Telemetry, mine, undone, entered, cut>>

SeedingDone(r) ==
    /\ req[r].left = {} /\ Step(r, "seeding", "done")
    /\ UNCHANGED <<row, codes, versions, host, Telemetry, mine, undone, entered, cut>>

\* An editor deletes a default code.
DeleteCode(c) ==
    /\ c \in codes /\ "seed" \in Kinds
    /\ codes' = codes \ {c} /\ cut' = TRUE
    /\ UNCHANGED <<row, versions, host, Telemetry, req, mine, undone, entered>>

-----------------------------------------------------------------------------
Export ==
    /\ Exists /\ exported < MaxVersions
    /\ exported' = exported + 1
    /\ UNCHANGED <<row, codes, deployed, records, host, req, Telemetry, mine, undone, entered, cut>>

\* A deployment or a rollback: its record is created, and its files replace those of
\* the PBX, the marker among them, unless an earlier step fails.
DeployFiles(v) ==
    /\ Exists /\ deploying = 0 /\ records < MaxDeployments
    /\ deploying' = v /\ records' = records + 1
    /\ marker' \in {v, marker}
    /\ UNCHANGED <<row, codes, exported, deployed, agentKey, req, Telemetry, mine, undone,
                   entered, cut>>

\* _mark_deployment_success.
DeploySucceeds ==
    /\ deploying # 0 /\ marker = deploying
    /\ deploying' = 0 /\ deployed' = deploying
    /\ Write({"status"}, [row EXCEPT !.status = "deployed"])
    /\ UNCHANGED <<codes, exported, records, marker, agentKey, req, Telemetry, entered, cut>>

\* _mark_deployment_failed: a step before the files were replaced, or the reload.
DeployFails ==
    /\ deploying # 0
    /\ deploying' = 0
    /\ Write({"status"}, [row EXCEPT !.status = "failed"])
    /\ UNCHANGED <<codes, versions, marker, agentKey, req, Telemetry, entered, cut>>

\* The agent is restarted with the secret of the location.
RestartAgent ==
    /\ Exists /\ agentKey # row.secret
    /\ agentKey' = row.secret
    /\ UNCHANGED <<row, codes, versions, deploying, marker, req, Telemetry, mine, undone,
                   entered, cut>>

\* report_active_config_once: the agent reads its marker and is let in.
OpenReport(p) ==
    /\ rep[p].pc = "idle" /\ reads < MaxReads
    /\ marker # 0
    /\ Exists /\ row.active /\ agentKey = row.secret
    /\ reads' = reads + 1
    /\ rep' = [rep EXCEPT ![p] = [pc |-> "open", value |-> marker, turn |-> reads + 1]]
    /\ UNCHANGED <<row, codes, versions, host, req, heard, mine, undone, entered, cut>>

\* update_active_config_report reads the row again and writes the report's columns;
\* it asks neither whether the location is still active nor which report is newer.
TakeReport(p) ==
    /\ rep[p].pc = "open" /\ Exists
    /\ Write({"report"}, [row EXCEPT !.report = rep[p].value])
    /\ heard' = IF rep[p].turn > heard.turn
                THEN [turn |-> rep[p].turn, value |-> rep[p].value] ELSE heard
    /\ rep' = [rep EXCEPT ![p] = NoRep]
    /\ UNCHANGED <<codes, versions, host, req, reads, entered, cut>>

LoseReport(p) ==
    /\ rep[p].pc = "open"
    /\ rep' = [rep EXCEPT ![p] = NoRep]
    /\ UNCHANGED <<row, codes, versions, host, req, reads, heard, mine, undone, entered, cut>>

Next ==
    \/ \E r \in Requests :
          \/ \E kind \in {"edit", "rotate", "delete"} : Load(r, kind)
          \/ SaveEdit(r) \/ SaveRotation(r) \/ DeleteLocation(r) \/ GiveUp(r)
          \/ CreateLocation(r) \/ SeedDefaults(r) \/ EnsureCode(r) \/ SeedingDone(r)
    \/ \E c \in DefaultCodes : DeleteCode(c)
    \/ Export \/ DeploySucceeds \/ DeployFails \/ RestartAgent
    \/ \E v \in 1..exported : DeployFiles(v)
    \/ \E p \in Reports : OpenReport(p) \/ TakeReport(p) \/ LoseReport(p)

Spec == Init /\ [][Next]_vars

-----------------------------------------------------------------------------
\* _config_drift: what the dashboard warns about.
Drift(active, newest, last) ==
    \/ active = 0 /\ (newest # 0 \/ last # 0)
    \/ active # 0 /\ newest # 0 /\ active # newest
    \/ active # 0 /\ last # 0 /\ active # last
    \/ newest # 0 /\ last # 0 /\ newest # last

\* The dashboard highlights drift: when the report the agent began last has arrived
\* and named another version than the newest exported or the last deployed one, the
\* dashboard warns, unless a form has written an older report back.
DriftShown ==
    (/\ Exists /\ "report" \notin undone
     /\ reads > 0 /\ heard.turn = reads
     /\ heard.value # exported \/ (deployed # 0 /\ heard.value # deployed))
    => Drift(row.report, exported, deployed)

\* Every column of the row has the value its own writer gave it last, but for what a
\* form wrote back from a copy that was older than that: no other writer undoes the
\* work of another, whatever is under way at the same time.
ColumnsStand == Exists => \A c \in Columns \ undone : row[c] = mine[c]

\* The secret that lets an agent in is one that an administrator has entered: a form
\* without that field, or with the field left blank, changes nothing about who gets in
\* except to bring an earlier secret back.
SecretsFromAdministrators == Exists => row.secret \in entered

\* A location has all the default feature codes unless its creation or the seeding
\* was cut short, somebody deleted one, or a form brought the deleted location back.
CodesComplete ==
    (Exists /\ ~cut /\ \A r \in Requests : req[r].pc # "seeding") => codes = DefaultCodes

\* A location that has ever been deployed stays: its deployment records protect it.
DeployedLocationStays == records > 0 => Exists

\* Nothing is told of a location that is not there, nothing deployed or reported
\* before there is a deployment record; a copy has a secret that was entered.
HistoryInv ==
    /\ ~Exists => row = NoRow /\ heard = NothingHeard
    /\ records = 0 => deployed = 0 /\ deploying = 0 /\ marker = 0
    /\ \A p \in Reports : rep[p].value # 0 => records > 0
    /\ \A r \in Requests : req[r].pc = "loaded" => req[r].copy.secret \in entered

\* Unless something was cut short, the codes that are missing are those that some
\* request has yet to ensure.
SeedingInv ==
    Exists /\ ~cut =>
        \/ codes = DefaultCodes
        \/ \E r \in Requests : req[r].pc = "seeding" /\ DefaultCodes \ req[r].left \subseteq codes

\* With one report at a time, the one under way is the last that was begun, and the
\* row has what was heard last, unless a form has written an older report back.
OneReport == \A p, q \in Reports : p = q
ReportInv ==
    /\ \A p \in Reports : rep[p].pc = "open" =>
           rep[p].value # 0 /\ rep[p].turn = reads /\ heard.turn < reads
    /\ heard.turn > 0 => heard.value # 0
    /\ Exists /\ "report" \notin undone => row.report = heard.value

\* The row of a location keeps what its writers gave it, and a deployed one stays.
RowStands ==
    /\ TypeOK
    /\ ColumnsStand
    /\ SecretsFromAdministrators
    /\ CodesComplete
    /\ DeployedLocationStays
    /\ HistoryInv /\ SeedingInv /\ (OneReport => ReportInv)
=============================================================================
