------------------------- MODULE LocationRow_proofs -------------------------
(***************************************************************************)
(* Theorems about LocationRow, for any number of requests, versions and    *)
(* deployments; DriftShown for one report at a time, as the agent makes    *)
(* them.                                                                   *)
(***************************************************************************)
EXTENDS LocationRow, TLAPS

USE ConstantsAssumption DEF ConstantsAssumption

Reqs == [pc : {"new", "loaded", "seeding", "done"}, kind : AllKinds, copy : Rows,
         left : SUBSET DefaultCodes]

-----------------------------------------------------------------------------
(* The operators.                                                          *)

\* A row has its five columns, and rows that agree in all of them are the same.
LEMMA RowColumns ==
    ASSUME NEW x \in Rows
    PROVE  /\ x.active \in BOOLEAN /\ x.secret \in Secrets /\ x.ami \in Nat
           /\ x.status \in Statuses \union {"none"} /\ x.report \in 0..MaxVersions
           /\ DOMAIN x = Columns
  BY DEF Rows, Columns

\* Saving some columns of one row over another gives a row.
LEMMA SavedRow ==
    ASSUME NEW now \in Rows, NEW cols \in SUBSET Columns, NEW new \in Rows
    PROVE  /\ SaveColumns(now, cols, new) \in Rows
           /\ \A c \in Columns :
                 SaveColumns(now, cols, new)[c] = IF c \in cols THEN new[c] ELSE now[c]
<1> DEFINE saved == [c \in Columns |-> IF c \in cols THEN new[c] ELSE now[c]]
<1>1. /\ saved["active"] \in BOOLEAN /\ saved["secret"] \in Secrets /\ saved["ami"] \in Nat
      /\ saved["status"] \in Statuses \union {"none"} /\ saved["report"] \in 0..MaxVersions
  BY DEF Columns, Rows
<1>2. saved \in Rows
  BY <1>1 DEF Rows, Columns
<1> QED
  BY <1>2 DEF SaveColumns

\* What a writer of some columns leaves behind.
LEMMA Writes ==
    ASSUME TypeOK, NEW cols \in SUBSET Columns, NEW new \in Rows, Write(cols, new)
    PROVE  /\ row' \in Rows /\ mine' \in Rows /\ undone' \subseteq Columns
           /\ \A c \in Columns : /\ row'[c] = IF c \in cols THEN new[c] ELSE row[c]
                                 /\ mine'[c] = IF c \in cols THEN new[c] ELSE mine[c]
           /\ undone' = undone \ cols
<1>1. row \in Rows /\ mine \in Rows /\ undone \subseteq Columns
  BY DEF TypeOK
<1>2. row' = SaveColumns(row, cols, new) /\ mine' = SaveColumns(mine, cols, new)
  BY DEF Write, SaveColumns
<1>3. row' \in Rows /\ \A c \in Columns : row'[c] = IF c \in cols THEN new[c] ELSE row[c]
  BY <1>1, <1>2, SavedRow
<1>4. mine' \in Rows /\ \A c \in Columns : mine'[c] = IF c \in cols THEN new[c] ELSE mine[c]
  BY <1>1, <1>2, SavedRow
<1>5. undone' = undone \ cols
  BY DEF Write
<1> QED
  BY <1>1, <1>3, <1>4, <1>5

\* What happens to a request.
LEMMA Requested ==
    ASSUME TypeOK, NEW r \in Requests, NEW to \in {"done"}, NEW from, Step(r, from, to)
    PROVE  req' \in [Requests -> Reqs] /\ req'[r].pc = to
           /\ \A s \in Requests \ {r} : req'[s] = req[s]
<1>1. req \in [Requests -> Reqs]
  BY DEF TypeOK, Reqs
<1>2. [req[r] EXCEPT !.pc = to] \in Reqs /\ [req[r] EXCEPT !.pc = to].pc = to
  BY <1>1 DEF Reqs
<1>3. req' = [req EXCEPT ![r] = [req[r] EXCEPT !.pc = to]]
  BY <1>1 DEF Step
<1> QED
  BY <1>1, <1>2, <1>3

-----------------------------------------------------------------------------
(* The actions that change the row, in the terms the invariants need.      *)

\* A valid form that is saved.
LEMMA Edits ==
    ASSUME TypeOK, NEW r \in Requests, SaveEdit(r)
    PROVE  /\ row' \in Rows /\ mine' \in Rows /\ undone' \subseteq Columns
           /\ entered' \subseteq Secrets /\ entered \subseteq entered'
           /\ row'.status # "none"
           /\ row'.secret \in entered' \/ row'.secret = req[r].copy.secret
           /\ row'.report = req[r].copy.report
           /\ "report" \in undone \/ req[r].copy.report # row.report => "report" \in undone'
           /\ Exists /\ (\A c \in Columns \ undone : row[c] = mine[c])
                 => \A c \in Columns \ undone' : row'[c] = mine'[c]
           /\ ~Exists => \A c \in Columns : row'[c] = mine'[c]
<1>1. req[r].copy \in Rows /\ row \in Rows /\ mine \in Rows
  BY DEF TypeOK
<1>2. PICK active \in BOOLEAN, status \in Statuses, secret \in SecretField(r) :
          LET set == {"active", "status"} \union (IF secret = NoSecret THEN {} ELSE {"secret"})
              new == [req[r].copy EXCEPT !.active = active, !.status = status,
                                         !.secret = SecretToSave(r, secret)] IN
          /\ row' = new
          /\ mine' = [c \in Columns |-> IF c \in set \/ ~Exists THEN new[c] ELSE mine[c]]
          /\ undone' = (undone \union {c \in Columns : req[r].copy[c] # row[c]}) \ set
          /\ entered' = entered \union ({secret} \ {NoSecret})
  BY DEF SaveEdit
<1> DEFINE set == {"active", "status"} \union (IF secret = NoSecret THEN {} ELSE {"secret"})
           saved == IF secret = NoSecret THEN req[r].copy.secret ELSE secret
           new == [req[r].copy EXCEPT !.active = active, !.status = status, !.secret = saved]
<1>3. secret \in Secrets /\ saved \in Secrets
  BY <1>1 DEF Rows, SecretField, Secrets, NoSecret
<1>4. new \in Rows
  BY <1>1, <1>3 DEF Rows
<1>5. /\ new.active = active /\ new.status = status /\ new.secret = saved
      /\ new.ami = req[r].copy.ami /\ new.report = req[r].copy.report
  BY <1>1 DEF Rows
<1>6. \A c \in Columns \ set : new[c] = req[r].copy[c]
  BY <1>5 DEF Columns
<1>7. /\ row' = new
      /\ mine' = [c \in Columns |-> IF c \in set \/ ~Exists THEN new[c] ELSE mine[c]]
      /\ undone' = (undone \union {c \in Columns : req[r].copy[c] # row[c]}) \ set
      /\ entered' = entered \union ({secret} \ {NoSecret})
  BY <1>2 DEF SecretToSave
<1> HIDE DEF new
<1>8. mine' \in Rows
  <2> DEFINE cols == IF Exists THEN set ELSE Columns
  <2>1. mine' = SaveColumns(mine, cols, new)
    BY <1>7 DEF SaveColumns
  <2>2. cols \in SUBSET Columns
    BY DEF Columns
  <2> HIDE DEF cols
  <2> QED
    BY <1>1, <1>4, <2>1, <2>2, SavedRow
<1>9. undone' \subseteq Columns /\ entered' \subseteq Secrets /\ entered \subseteq entered'
  BY <1>3, <1>7 DEF TypeOK
<1>10. row'.secret \in entered' \/ row'.secret = req[r].copy.secret
  BY <1>5, <1>7
<1>11. row'.status # "none" /\ row'.report = req[r].copy.report
  BY <1>5, <1>7 DEF Statuses
<1>12. "report" \in undone \/ req[r].copy.report # row.report => "report" \in undone'
  BY <1>7 DEF Columns
<1>13. ASSUME Exists, \A c \in Columns \ undone : row[c] = mine[c]
       PROVE  \A c \in Columns \ undone' : row'[c] = mine'[c]
  BY <1>6, <1>7, <1>13
<1>14. ~Exists => \A c \in Columns : row'[c] = mine'[c]
  BY <1>7
<1> QED
  BY <1>4, <1>7, <1>8, <1>9, <1>10, <1>11, <1>12, <1>13, <1>14

-----------------------------------------------------------------------------
(* Types, and what is not told of a location that is not there.            *)

\* The rows there are at the start.
LEMMA FirstRows == NoRow \in Rows /\ First \in Rows
  BY DEF NoRow, First, Rows, Secrets, NoSecret, Statuses

\* A row that is not there has no status.
LEMMA NoRowStatus == NoRow.status = "none" /\ First.status # "none" /\ NoRow.report = 0
                     /\ First.report = 0 /\ First.secret = 1
  BY DEF NoRow, First

\* The initial state has the types.
LEMMA TypeInit == Init => TypeOK /\ HistoryInv
<1> SUFFICES ASSUME Init PROVE TypeOK /\ HistoryInv
  OBVIOUS
<1>1. row \in Rows /\ codes \subseteq DefaultCodes /\ (~Exists => row = NoRow)
  BY FirstRows, NoRowStatus DEF Init, Exists
<1>2. row.secret \in Secrets
  BY <1>1 DEF Rows
<1>3. req \in [Requests -> Reqs] /\ \A r \in Requests : req[r].pc = "new"
  BY FirstRows DEF Init, NoReq, Reqs, AllKinds
<1>4. rep \in [Reports -> [pc : {"idle", "open"}, value : 0..0, turn : 0..0]]
      /\ \A p \in Reports : rep[p].value = 0
  BY DEF Init, NoRep
<1>5. heard \in [turn : 0..0, value : 0..0]
  BY DEF Init, NothingHeard
<1>6. TypeOK
  <2>1. /\ exported = 0 /\ deployed = 0 /\ records = 0 /\ deploying = 0 /\ marker = 0
        /\ agentKey = row.secret /\ mine = row /\ undone = {} /\ reads = 0 /\ cut = FALSE
        /\ entered = {row.secret} \ {NoSecret}
    BY DEF Init
  <2>2. 0..0 = {0} /\ 0 \in 0..MaxVersions /\ 0 \in 0..MaxDeployments /\ 0 \in 0..MaxReads
    OBVIOUS
  <2>3. /\ exported \in 0..MaxVersions /\ deployed \in 0..exported
        /\ records \in 0..MaxDeployments /\ deploying \in 0..exported /\ marker \in 0..exported
        /\ reads \in 0..MaxReads /\ cut \in BOOLEAN
    BY <2>1, <2>2
  <2>4. agentKey \in Secrets /\ entered \subseteq Secrets
    BY <1>2, <2>1
  <2>5. /\ rep \in [Reports -> [pc : {"idle", "open"}, value : 0..exported, turn : 0..reads]]
        /\ heard \in [turn : 0..reads, value : 0..exported]
    BY <1>4, <1>5, <2>1
  <2> QED
    BY <1>1, <1>3, <2>1, <2>3, <2>4, <2>5 DEF TypeOK, Reqs
<1>7. HistoryInv
  BY <1>1, <1>3, <1>4 DEF Init, HistoryInv
<1> QED
  BY <1>6, <1>7

\* The requests that read the row, and those that ensure the codes.
LEMMA TypeRequest ==
    ASSUME TypeOK, HistoryInv, SecretsFromAdministrators, NEW r \in Requests,
           \/ \E kind \in {"edit", "rotate", "delete"} : Load(r, kind)
           \/ GiveUp(r) \/ CreateLocation(r) \/ SeedDefaults(r) \/ EnsureCode(r)
           \/ SeedingDone(r)
    PROVE  TypeOK' /\ HistoryInv'
<1> USE DEF TypeOK, HistoryInv
<1>0. req \in [Requests -> Reqs] /\ req[r] \in Reqs
  BY DEF Reqs
<1>1. ASSUME NEW kind \in {"edit", "rotate", "delete"}, Load(r, kind)
      PROVE  TypeOK' /\ HistoryInv'
  <2> DEFINE q == [req[r] EXCEPT !.pc = "loaded", !.kind = kind, !.copy = row]
  <2>1. q \in Reqs /\ q.pc = "loaded" /\ q.copy = row
    BY <1>0 DEF Reqs, AllKinds
  <2>2. req' = [req EXCEPT ![r] = q]
    BY <1>0, <1>1 DEF Load
  <2> HIDE DEF q
  <2>3. req' \in [Requests -> Reqs] /\ \A s \in Requests : req'[s] = IF s = r THEN q ELSE req[s]
    BY <1>0, <2>1, <2>2
  <2>4. row.secret \in entered
    BY <1>1 DEF Load, SecretsFromAdministrators
  <2>5. UNCHANGED <<row, codes, versions, host, Telemetry, mine, undone, entered, cut>>
    BY <1>1 DEF Load
  <2>6. TypeOK'
    BY <2>3, <2>5 DEF versions, host, Telemetry, Reqs
  <2>7. HistoryInv'
    BY <2>1, <2>3, <2>4, <2>5 DEF versions, host, Telemetry, Exists
  <2> QED
    BY <2>6, <2>7
<1>2. CASE GiveUp(r)
  <2>1. req' = [req EXCEPT ![r] = [req[r] EXCEPT !.pc = "done"]]
    BY <1>0, <1>2 DEF GiveUp
  <2>2. [req[r] EXCEPT !.pc = "done"] \in Reqs /\ [req[r] EXCEPT !.pc = "done"].pc = "done"
    BY <1>0 DEF Reqs
  <2>3. /\ req' \in [Requests -> Reqs] /\ req'[r].pc = "done"
        /\ \A s \in Requests \ {r} : req'[s] = req[s]
    BY <1>0, <2>1, <2>2
  <2>4. UNCHANGED <<row, codes, versions, host, Telemetry, mine, undone, entered>>
        /\ cut' \in BOOLEAN
    BY <1>2 DEF GiveUp
  <2> QED
    BY <2>3, <2>4 DEF versions, host, Telemetry, Reqs, Exists
<1>3. CASE CreateLocation(r) \/ SeedDefaults(r)
  <2>1. PICK kind \in AllKinds : Seed(r, kind)
    BY <1>3 DEF CreateLocation, SeedDefaults, AllKinds
  <2> DEFINE q == [req[r] EXCEPT !.pc = "seeding", !.kind = kind, !.left = CodesToEnsure]
  <2>2. q \in Reqs /\ q.pc = "seeding"
    BY <1>0 DEF Reqs, CodesToEnsure
  <2>3. req' = [req EXCEPT ![r] = q] /\ cut' = FALSE
    BY <1>0, <2>1 DEF Seed
  <2> HIDE DEF q
  <2>4. req' \in [Requests -> Reqs] /\ \A s \in Requests : req'[s] = IF s = r THEN q ELSE req[s]
    BY <1>0, <2>2, <2>3
  <2>5. UNCHANGED <<versions, host, Telemetry>>
    BY <1>3 DEF CreateLocation, SeedDefaults
  <2>6. CASE CreateLocation(r)
    <3>1. /\ row' = First /\ mine' = First /\ undone' = {} /\ entered' = {First.secret}
          /\ entered = {} /\ UNCHANGED codes
      BY <2>6 DEF CreateLocation
    <3>2. row' \in Rows /\ mine' \in Rows /\ entered' \subseteq Secrets
      BY <3>1, FirstRows, NoRowStatus DEF Secrets
    <3> HIDE DEF First
    <3>4. TypeOK'
      BY <2>3, <2>4, <2>5, <3>1, <3>2 DEF versions, host, Telemetry, Reqs
    <3>3. HistoryInv'
      BY <2>2, <2>4, <2>5, <3>1, NoRowStatus DEF versions, host, Telemetry, Exists
    <3> QED
      BY <3>3, <3>4
  <2>7. CASE SeedDefaults(r)
    <3>1. UNCHANGED <<row, codes, mine, undone, entered>>
      BY <2>7 DEF SeedDefaults
    <3>2. TypeOK'
      BY <2>3, <2>4, <2>5, <3>1 DEF versions, host, Telemetry, Reqs
    <3>3. HistoryInv'
      BY <2>2, <2>4, <2>5, <3>1 DEF versions, host, Telemetry, Exists
    <3> QED
      BY <3>2, <3>3
  <2> QED
    BY <1>3, <2>6, <2>7
<1>4. CASE EnsureCode(r) \/ SeedingDone(r)
  <2>1. /\ req' \in [Requests -> Reqs] /\ req'[r].pc # "loaded" /\ codes' \subseteq DefaultCodes
        /\ \A s \in Requests \ {r} : req'[s] = req[s]
    <3>1. CASE SeedingDone(r)
      BY <3>1, Requested DEF SeedingDone
    <3>2. CASE EnsureCode(r) /\ Exists
      <4>1. PICK c \in req[r].left : /\ codes' = codes \union {c}
                                     /\ req' = [req EXCEPT ![r].left = @ \ {c}]
        BY <3>2 DEF EnsureCode
      <4>2. c \in DefaultCodes
        BY <1>0 DEF Reqs
      <4>3. [req[r] EXCEPT !.left = @ \ {c}] \in Reqs
        BY <1>0 DEF Reqs
      <4>4. [req[r] EXCEPT !.left = @ \ {c}].pc = "seeding"
        BY <1>0, <3>2 DEF Reqs, EnsureCode
      <4>5. req' = [req EXCEPT ![r] = [req[r] EXCEPT !.left = @ \ {c}]]
        BY <1>0, <4>1
      <4> QED
        BY <1>0, <4>1, <4>2, <4>3, <4>4, <4>5
    <3>3. CASE EnsureCode(r) /\ ~Exists
      <4>1. [req[r] EXCEPT !.pc = "done", !.left = {}] \in Reqs
        BY <1>0 DEF Reqs
      <4>2. [req[r] EXCEPT !.pc = "done", !.left = {}].pc = "done"
        BY <1>0 DEF Reqs
      <4>3. req' = [req EXCEPT ![r] = [req[r] EXCEPT !.pc = "done", !.left = {}]]
            /\ UNCHANGED codes
        BY <1>0, <3>3 DEF EnsureCode
      <4> QED
        BY <1>0, <4>1, <4>2, <4>3
    <3> QED
      BY <1>4, <3>1, <3>2, <3>3
  <2>2. UNCHANGED <<row, versions, host, Telemetry, mine, undone, entered, cut>>
    BY <1>4 DEF EnsureCode, SeedingDone
  <2> QED
    BY <2>1, <2>2 DEF versions, host, Telemetry, Reqs, Exists
<1> QED
  BY <1>1, <1>2, <1>3, <1>4

\* The requests that write the row or delete it.
LEMMA TypeSave ==
    ASSUME TypeOK, HistoryInv, DeployedLocationStays, NEW r \in Requests,
           SaveEdit(r) \/ SaveRotation(r) \/ DeleteLocation(r)
    PROVE  TypeOK' /\ HistoryInv'
<1>1. /\ req' \in [Requests -> Reqs] /\ req'[r].pc = "done"
      /\ \A s \in Requests \ {r} : req'[s] = req[s]
  BY Requested DEF SaveEdit, SaveRotation, DeleteLocation
<1> USE DEF TypeOK, HistoryInv
<1>2. CASE SaveEdit(r)
  <2>1. /\ row' \in Rows /\ mine' \in Rows /\ undone' \subseteq Columns
        /\ entered' \subseteq Secrets /\ entered \subseteq entered' /\ row'.status # "none"
    BY <1>2, Edits
  <2>2. UNCHANGED <<codes, versions, host, Telemetry>> /\ cut' \in BOOLEAN
    BY <1>2 DEF SaveEdit
  <2>3. TypeOK'
    BY <1>1, <2>1, <2>2 DEF versions, host, Telemetry, Reqs
  <2>4. HistoryInv'
    BY <1>1, <2>1, <2>2 DEF versions, host, Telemetry, Exists
  <2> QED
    BY <2>3, <2>4
<1>3. CASE SaveRotation(r)
  <2>1. UNCHANGED <<codes, versions, host, Telemetry, entered, cut>>
    BY <1>3 DEF SaveRotation
  <2>2. row' \in Rows /\ mine' \in Rows /\ undone' \subseteq Columns /\ row'.status = row.status
        /\ (~Exists => row' = row)
    <3>1. CASE Exists
      <4> DEFINE new == [req[r].copy EXCEPT !.ami = NewCredentials]
      <4>1. NewCredentials \in Nat
        BY DEF NewCredentials, Rows
      <4>2. new \in Rows
        BY <4>1 DEF Rows
      <4>3. Write({"ami"}, new) /\ {"ami"} \in SUBSET Columns /\ "status" \in Columns
        BY <1>3, <3>1 DEF SaveRotation, Columns
      <4> HIDE DEF new
      <4>4. row' \in Rows /\ mine' \in Rows /\ undone' \subseteq Columns
        BY <4>2, <4>3, Writes
      <4>5. \A c \in Columns : row'[c] = IF c \in {"ami"} THEN new[c] ELSE row[c]
        BY <4>2, <4>3, Writes
      <4>6. row'["status"] = row["status"]
        BY <4>3, <4>5
      <4> QED
        BY <3>1, <4>4, <4>6
    <3>2. CASE ~Exists
      BY <1>3, <3>2 DEF SaveRotation
    <3> QED
      BY <3>1, <3>2
  <2>3. TypeOK'
    BY <1>1, <2>1, <2>2 DEF versions, host, Telemetry, Reqs
  <2>4. HistoryInv'
    BY <1>1, <2>1, <2>2 DEF versions, host, Telemetry, Exists
  <2> QED
    BY <2>3, <2>4
<1>4. CASE DeleteLocation(r) /\ Protected
  BY <1>1, <1>4 DEF DeleteLocation, host, Exists, Reqs
<1>5. CASE DeleteLocation(r) /\ ~Protected
  <2>1. records = 0
    BY <1>5 DEF Protected
  <2>2. deployed = 0 /\ deploying = 0 /\ marker = 0 /\ \A p \in Reports : rep[p].value = 0
    BY <2>1
  <2>3. /\ row' = NoRow /\ mine' = NoRow /\ undone' = {} /\ codes' = {} /\ exported' = 0
        /\ heard' = NothingHeard /\ UNCHANGED <<deployed, records, host, rep, reads, entered, cut>>
    BY <1>5 DEF DeleteLocation
  <2>4. rep' \in [Reports -> [pc : {"idle", "open"}, value : 0..0, turn : 0..reads]]
    BY <2>2, <2>3
  <2>5. heard' \in [turn : 0..reads, value : 0..0]
    BY <2>3 DEF NothingHeard
  <2>6. 0..0 = {0} /\ 0 \in 0..MaxVersions
    OBVIOUS
  <2>7. TypeOK'
    BY <1>1, <2>2, <2>3, <2>4, <2>5, <2>6, FirstRows DEF host, Reqs
  <2>8. HistoryInv'
    BY <1>1, <2>2, <2>3 DEF host, Exists
  <2> QED
    BY <2>7, <2>8
<1> QED
  BY <1>2, <1>3, <1>4, <1>5

\* Codes that are deleted, versions that are exported, an agent that is restarted.
LEMMA TypeOther ==
    ASSUME TypeOK, HistoryInv,
           (\E c \in DefaultCodes : DeleteCode(c)) \/ Export \/ RestartAgent
    PROVE  TypeOK' /\ HistoryInv'
<1> USE DEF TypeOK, HistoryInv, versions, host, Telemetry, Exists
<1>1. ASSUME NEW c \in DefaultCodes, DeleteCode(c)
      PROVE  TypeOK' /\ HistoryInv'
  BY <1>1 DEF DeleteCode
<1>2. CASE Export
  <2>1. exported' = exported + 1 /\ exported' \in 0..MaxVersions /\ 0..exported \subseteq 0..exported'
    BY <1>2 DEF Export
  <2>2. UNCHANGED <<row, codes, deployed, records, host, req, Telemetry, mine, undone, entered, cut>>
    BY <1>2 DEF Export
  <2>3. rep' \in [Reports -> [pc : {"idle", "open"}, value : 0..exported', turn : 0..reads]]
    <3>1. \A p \in Reports :
             rep[p] \in [pc : {"idle", "open"}, value : 0..exported', turn : 0..reads]
      BY <2>1
    <3> QED
      BY <2>2, <3>1
  <2>4. heard' \in [turn : 0..reads', value : 0..exported']
    BY <2>1, <2>2
  <2> QED
    BY <2>1, <2>2, <2>3, <2>4
<1>3. CASE RestartAgent
  <2>1. row.secret \in Secrets
    BY DEF Rows
  <2> QED
    BY <1>3, <2>1 DEF RestartAgent
<1> QED
  BY <1>1, <1>2, <1>3

\* Deployments and their outcome.
LEMMA TypeDeploy ==
    ASSUME TypeOK, HistoryInv, DeployedLocationStays,
           (\E v \in 1..exported : DeployFiles(v)) \/ DeploySucceeds \/ DeployFails
    PROVE  TypeOK' /\ HistoryInv'
<1> USE DEF TypeOK, HistoryInv, host, Telemetry
<1>1. ASSUME NEW v \in 1..exported, DeployFiles(v)
      PROVE  TypeOK' /\ HistoryInv'
  <2>1. /\ deploying' = v /\ records' = records + 1 /\ marker' \in {v, marker}
        /\ Exists /\ records < MaxDeployments
        /\ UNCHANGED <<row, codes, exported, deployed, agentKey, req, Telemetry, mine, undone,
                       entered, cut>>
    BY <1>1 DEF DeployFiles
  <2>2. records' \in 0..MaxDeployments /\ records' # 0 /\ v \in 0..exported
    BY <2>1
  <2> QED
    BY <2>1, <2>2 DEF Exists
<1>2. ASSUME DeploySucceeds \/ DeployFails
      PROVE  TypeOK' /\ HistoryInv'
  <2>1. PICK outcome \in {"deployed", "failed"} : Write({"status"}, [row EXCEPT !.status = outcome])
    BY <1>2 DEF DeploySucceeds, DeployFails
  <2> DEFINE new == [row EXCEPT !.status = outcome]
  <2>2. new \in Rows /\ new["status"] = outcome /\ {"status"} \in SUBSET Columns
    BY DEF Rows, Columns, Statuses
  <2>3. Write({"status"}, new)
    BY <2>1
  <2> HIDE DEF new
  <2>4. row' \in Rows /\ mine' \in Rows /\ undone' \subseteq Columns /\ row'["status"] = outcome
    BY <2>2, <2>3, Writes
  <2>5. records # 0 /\ Exists'
    BY <1>2, <2>4 DEF DeploySucceeds, DeployFails, Exists
  <2>6. /\ deploying' = 0 /\ deployed' \in 0..exported
        /\ UNCHANGED <<codes, exported, records, marker, agentKey, req, Telemetry, entered, cut>>
    BY <1>2 DEF DeploySucceeds, DeployFails, versions
  <2>7. 0 \in 0..exported
    OBVIOUS
  <2> QED
    BY <2>4, <2>5, <2>6, <2>7
<1> QED
  BY <1>1, <1>2

\* Reports.
LEMMA TypeReport ==
    ASSUME TypeOK, HistoryInv, NEW p \in Reports, OpenReport(p) \/ TakeReport(p) \/ LoseReport(p)
    PROVE  TypeOK' /\ HistoryInv'
<1> USE DEF TypeOK, HistoryInv, versions, host
<1> DEFINE Reps == [pc : {"idle", "open"}, value : 0..exported, turn : 0..reads]
<1>0. NoRep \in Reps /\ NoRep.value = 0
  BY DEF NoRep
<1>1. CASE OpenReport(p)
  <2> DEFINE q == [pc |-> "open", value |-> marker, turn |-> reads + 1]
             Later == [pc : {"idle", "open"}, value : 0..exported, turn : 0..(reads + 1)]
  <2>1. reads + 1 \in 0..MaxReads /\ 0..reads \subseteq 0..(reads + 1)
    BY <1>1 DEF OpenReport
  <2>2. q \in Later /\ q.value = marker /\ Reps \subseteq Later
    BY <2>1
  <2>3. /\ reads' = reads + 1 /\ rep' = [rep EXCEPT ![p] = q] /\ marker # 0
        /\ UNCHANGED <<row, codes, versions, host, req, heard, mine, undone, entered, cut>>
    BY <1>1 DEF OpenReport
  <2> HIDE DEF q
  <2>4. rep' \in [Reports -> Later] /\ \A o \in Reports : rep'[o] = IF o = p THEN q ELSE rep[o]
    BY <2>2, <2>3
  <2>5. heard' \in [turn : 0..reads', value : 0..exported]
    BY <2>1, <2>3
  <2>6. TypeOK'
    BY <2>1, <2>3, <2>4, <2>5
  <2>7. HistoryInv'
    BY <2>2, <2>3, <2>4 DEF Exists
  <2> QED
    BY <2>6, <2>7
<1>2. CASE TakeReport(p)
  <2> DEFINE new == [row EXCEPT !.report = rep[p].value]
  <2>1. new \in Rows /\ {"report"} \in SUBSET Columns /\ "status" \in Columns
    BY DEF Rows, Columns
  <2>2. Write({"report"}, new) /\ Exists
    BY <1>2 DEF TakeReport
  <2> HIDE DEF new
  <2>3. row' \in Rows /\ mine' \in Rows /\ undone' \subseteq Columns /\ row'["status"] = row["status"]
    <3>1. \A c \in Columns : row'[c] = IF c \in {"report"} THEN new[c] ELSE row[c]
      BY <2>1, <2>2, Writes
    <3>2. row'["status"] = row["status"]
      BY <2>1, <3>1
    <3> QED
      BY <2>1, <2>2, <3>2, Writes
  <2>4. /\ rep' = [rep EXCEPT ![p] = NoRep]
        /\ heard' = IF rep[p].turn > heard.turn
                    THEN [turn |-> rep[p].turn, value |-> rep[p].value] ELSE heard
        /\ UNCHANGED <<codes, versions, host, req, reads, entered, cut>>
    BY <1>2 DEF TakeReport
  <2> HIDE DEF Reps
  <2>5. rep' \in [Reports -> Reps] /\ \A o \in Reports : rep'[o] = IF o = p THEN NoRep ELSE rep[o]
    BY <1>0, <2>4 DEF Reps
  <2>6. heard' \in [turn : 0..reads, value : 0..exported]
    BY <2>4
  <2>7. Exists'
    BY <2>2, <2>3 DEF Exists
  <2>8. TypeOK'
    BY <2>3, <2>4, <2>5, <2>6 DEF Reps
  <2>9. HistoryInv'
    BY <1>0, <2>4, <2>5, <2>7
  <2> QED
    BY <2>8, <2>9
<1>3. CASE LoseReport(p)
  BY <1>0, <1>3 DEF LoseReport, Exists
<1> QED
  BY <1>1, <1>2, <1>3

-----------------------------------------------------------------------------
(* What a step does to the row.                                            *)

\* A writer of columns that are neither settings nor secrets nor reports.
WritesOther ==
    \E cols \in SUBSET {"ami", "status"}, new \in Rows :
        /\ Write(cols, new) /\ Exists /\ new.status # "none"
        /\ UNCHANGED <<Telemetry, entered, codes, cut>>

\* A step is of one of these kinds.
LEMMA RowSteps ==
    ASSUME TypeOK, HistoryInv, DeployedLocationStays, Next
    PROVE  \/ \E r \in Requests : SaveEdit(r) \/ CreateLocation(r)
           \/ \E r \in Requests : DeleteLocation(r) /\ ~Protected
           \/ \E p \in Reports : TakeReport(p)
           \/ WritesOther
           \/ UNCHANGED <<row, mine, undone, entered>>
<1>1. ASSUME NEW r \in Requests, SaveRotation(r)
      PROVE  WritesOther \/ UNCHANGED <<row, mine, undone, entered>>
  <2>1. CASE Exists
    <3> DEFINE new == [req[r].copy EXCEPT !.ami = NewCredentials]
               own == [row EXCEPT !.ami = NewCredentials]
    <3>1. NewCredentials \in Nat /\ row \in Rows /\ mine \in Rows
      BY DEF NewCredentials, Rows, TypeOK
    <3>2. own \in Rows /\ own.status = row.status /\ own.ami = NewCredentials
      BY <3>1 DEF Rows
    <3>3. req[r].copy \in Rows
      BY DEF TypeOK
    <3>4. new.ami = NewCredentials
      BY <3>3 DEF Rows
    <3>5. Write({"ami"}, new)
      BY <1>1, <2>1 DEF SaveRotation
    <3>6. SaveColumns(row, {"ami"}, new) = SaveColumns(row, {"ami"}, own)
      BY <3>2, <3>4 DEF SaveColumns
    <3>7. [c \in Columns |-> IF c \in {"ami"} THEN new[c] ELSE mine[c]]
             = [c \in Columns |-> IF c \in {"ami"} THEN own[c] ELSE mine[c]]
      BY <3>2, <3>4
    <3> HIDE DEF new, own
    <3>8. Write({"ami"}, own)
      BY <3>5, <3>6, <3>7 DEF Write
    <3>9. UNCHANGED <<Telemetry, entered, codes, cut>>
      BY <1>1 DEF SaveRotation
    <3> QED
      BY <2>1, <3>2, <3>8, <3>9 DEF WritesOther, Exists
  <2>2. CASE ~Exists
    BY <1>1, <2>2 DEF SaveRotation
  <2> QED
    BY <2>1, <2>2
<1>2. ASSUME DeploySucceeds \/ DeployFails
      PROVE  WritesOther
  <2>1. PICK outcome \in {"deployed", "failed"} : Write({"status"}, [row EXCEPT !.status = outcome])
    BY <1>2 DEF DeploySucceeds, DeployFails
  <2> DEFINE new == [row EXCEPT !.status = outcome]
  <2>2. new \in Rows /\ new.status # "none"
    BY DEF Rows, Statuses, TypeOK
  <2>3. Write({"status"}, new)
    BY <2>1
  <2> HIDE DEF new
  <2>4. Exists
    BY <1>2 DEF DeploySucceeds, DeployFails, HistoryInv, DeployedLocationStays, TypeOK
  <2>5. UNCHANGED <<Telemetry, entered, codes, cut>>
    BY <1>2 DEF DeploySucceeds, DeployFails
  <2> QED
    BY <2>2, <2>3, <2>4, <2>5 DEF WritesOther
<1>3. ASSUME NEW r \in Requests, DeleteLocation(r) /\ Protected
      PROVE  UNCHANGED <<row, mine, undone, entered>>
  BY <1>3 DEF DeleteLocation
<1> QED
  BY <1>1, <1>2, <1>3
     DEF Next, Load, GiveUp, SeedDefaults, EnsureCode, SeedingDone, DeleteCode, Export,
         RestartAgent, DeployFiles, OpenReport, LoseReport

\* Such a writer leaves the settings, the secret and the report as they are.
LEMMA OtherWritten ==
    ASSUME TypeOK, WritesOther
    PROVE  /\ Exists /\ Exists' /\ UNCHANGED <<Telemetry, entered, codes, cut>>
           /\ row'.secret = row.secret /\ row'.report = row.report
           /\ "report" \in undone' <=> "report" \in undone
           /\ ColumnsStand => ColumnsStand'
<1>1. PICK cols \in SUBSET {"ami", "status"}, new \in Rows :
          /\ Write(cols, new) /\ Exists /\ new.status # "none"
          /\ UNCHANGED <<Telemetry, entered, codes, cut>>
  BY DEF WritesOther
<1>2. cols \in SUBSET Columns /\ {"secret", "report", "status"} \subseteq Columns
  BY DEF Columns
<1>3. \A c \in Columns : row'[c] = IF c \in cols THEN new[c] ELSE row[c]
  BY <1>1, <1>2, Writes
<1>4. \A c \in Columns : mine'[c] = IF c \in cols THEN new[c] ELSE mine[c]
  BY <1>1, <1>2, Writes
<1>5. undone' = undone \ cols
  BY <1>1, <1>2, Writes
<1>6. row'["secret"] = row["secret"] /\ row'["report"] = row["report"]
  BY <1>2, <1>3
<1>7. row'["status"] # "none"
  <2>1. row'["status"] = IF "status" \in cols THEN new["status"] ELSE row["status"]
    BY <1>2, <1>3
  <2> QED
    BY <1>1, <2>1 DEF Exists
<1>8. ColumnsStand => ColumnsStand'
  BY <1>1, <1>3, <1>4, <1>5 DEF ColumnsStand
<1> QED
  BY <1>1, <1>5, <1>6, <1>7, <1>8 DEF Exists

\* A report writes its column.
LEMMA ReportWritten ==
    ASSUME TypeOK, NEW p \in Reports, TakeReport(p)
    PROVE  /\ Exists /\ Exists' /\ UNCHANGED <<entered, codes, cut>>
           /\ row'.secret = row.secret /\ row'.report = rep[p].value
           /\ ColumnsStand => ColumnsStand'
<1> DEFINE new == [row EXCEPT !.report = rep[p].value]
<1>1. new \in Rows /\ new["report"] = rep[p].value
  BY DEF Rows, TypeOK
<1>2. Write({"report"}, new) /\ Exists /\ UNCHANGED <<entered, codes, cut>>
  BY DEF TakeReport
<1> HIDE DEF new
<1>3. {"report"} \in SUBSET Columns /\ {"secret", "report", "status"} \subseteq Columns
  BY DEF Columns
<1>4. \A c \in Columns : row'[c] = IF c \in {"report"} THEN new[c] ELSE row[c]
  BY <1>1, <1>2, <1>3, Writes
<1>5. \A c \in Columns : mine'[c] = IF c \in {"report"} THEN new[c] ELSE mine[c]
  BY <1>1, <1>2, <1>3, Writes
<1>6. undone' = undone \ {"report"}
  BY <1>1, <1>2, <1>3, Writes
<1>7. row'["secret"] = row["secret"] /\ row'["status"] = row["status"]
      /\ row'["report"] = rep[p].value
  BY <1>1, <1>3, <1>4
<1>8. ColumnsStand => ColumnsStand'
  BY <1>2, <1>4, <1>5, <1>6 DEF ColumnsStand
<1> QED
  BY <1>2, <1>7, <1>8 DEF Exists

-----------------------------------------------------------------------------
(* The row keeps what it was given.                                        *)

\* Every step leaves the columns of the others, lets no secret in that nobody entered,
\* and keeps a location that was deployed.
LEMMA RowStep ==
    ASSUME TypeOK, HistoryInv, ColumnsStand, SecretsFromAdministrators, DeployedLocationStays,
           [Next]_vars
    PROVE  ColumnsStand' /\ SecretsFromAdministrators' /\ DeployedLocationStays'
<1>1. ColumnsStand' /\ SecretsFromAdministrators'
  <2>1. ASSUME NEW r \in Requests, SaveEdit(r)
        PROVE  ColumnsStand' /\ SecretsFromAdministrators'
    <3>1. req[r].copy.secret \in entered
      BY <2>1 DEF SaveEdit, Step, HistoryInv
    <3> QED
      BY <2>1, <3>1, Edits DEF ColumnsStand, SecretsFromAdministrators
  <2>2. ASSUME NEW r \in Requests, CreateLocation(r)
        PROVE  ColumnsStand' /\ SecretsFromAdministrators'
    BY <2>2 DEF CreateLocation, ColumnsStand, SecretsFromAdministrators
  <2>3. ASSUME NEW r \in Requests, DeleteLocation(r) /\ ~Protected
        PROVE  ColumnsStand' /\ SecretsFromAdministrators'
    BY <2>3, NoRowStatus DEF DeleteLocation, ColumnsStand, SecretsFromAdministrators, Exists
  <2>4. ASSUME NEW p \in Reports, TakeReport(p)
        PROVE  ColumnsStand' /\ SecretsFromAdministrators'
    BY <2>4, ReportWritten DEF SecretsFromAdministrators
  <2>5. CASE WritesOther
    BY <2>5, OtherWritten DEF SecretsFromAdministrators
  <2>6. CASE UNCHANGED <<row, mine, undone, entered>>
    BY <2>6 DEF ColumnsStand, SecretsFromAdministrators, Exists
  <2> QED
    BY <2>1, <2>2, <2>3, <2>4, <2>5, <2>6, RowSteps DEF vars
<1>2. DeployedLocationStays'
  <2>1. CASE UNCHANGED records
    <3>1. ASSUME NEW r \in Requests, DeleteLocation(r) /\ ~Protected
          PROVE  DeployedLocationStays'
      BY <2>1, <3>1 DEF Protected, DeployedLocationStays
    <3>2. ASSUME NEW r \in Requests, SaveEdit(r) \/ CreateLocation(r)
          PROVE  Exists'
      BY <3>2, Edits, NoRowStatus DEF CreateLocation, Exists
    <3>3. UNCHANGED row => DeployedLocationStays'
      BY <2>1 DEF DeployedLocationStays, Exists
    <3> QED
      BY <2>1, <3>1, <3>2, <3>3, RowSteps, OtherWritten, ReportWritten
         DEF DeployedLocationStays, vars
  <2>2. ASSUME NEW v \in 1..exported, DeployFiles(v)
        PROVE  DeployedLocationStays'
    BY <2>2 DEF DeployFiles, DeployedLocationStays, Exists
  <2> QED
    BY <2>1, <2>2
       DEF Next, vars, versions, Load, SaveEdit, SaveRotation, DeleteLocation, GiveUp,
           CreateLocation, SeedDefaults, EnsureCode, SeedingDone, DeleteCode, Export,
           DeploySucceeds, DeployFails, RestartAgent, OpenReport, TakeReport, LoseReport
<1> QED
  BY <1>1, <1>2

-----------------------------------------------------------------------------
(* The default feature codes.                                              *)

\* Who ensures the codes that are missing.
Ensures(r) == req[r].pc = "seeding" /\ DefaultCodes \ req[r].left \subseteq codes

\* A step of one request leaves the others' codes to them.
LEMMA EnsuresStays ==
    ASSUME NEW s \in Requests, Ensures(s), req'[s] = req[s], codes \subseteq codes'
    PROVE  Ensures(s)'
  BY DEF Ensures

\* The request that ensures the codes goes on until none is missing.
LEMMA SeedingSelf ==
    ASSUME TypeOK, SeedingInv, NEW r \in Requests,
           GiveUp(r) \/ CreateLocation(r) \/ SeedDefaults(r) \/ EnsureCode(r) \/ SeedingDone(r)
    PROVE  SeedingInv'
<1>0. req \in [Requests -> Reqs]
  BY DEF TypeOK, Reqs
<1>1. CASE GiveUp(r)
  <2>1. /\ UNCHANGED <<row, codes>> /\ \A s \in Requests \ {r} : req'[s] = req[s]
        /\ cut' = (cut \/ req[r].pc = "seeding")
    BY <1>0, <1>1 DEF GiveUp
  <2>2. ASSUME Exists, ~cut'
        PROVE  codes = DefaultCodes \/ \E s \in Requests : Ensures(s)'
    <3>1. req[r].pc # "seeding" /\ ~cut
      BY <2>1, <2>2
    <3>2. ASSUME NEW s \in Requests, Ensures(s)
          PROVE  Ensures(s)'
      <4>1. s # r
        BY <3>1, <3>2 DEF Ensures
      <4> QED
        BY <2>1, <3>2, <4>1, EnsuresStays
    <3> QED
      BY <2>2, <3>1, <3>2 DEF SeedingInv, Ensures
  <2> QED
    BY <2>1, <2>2 DEF SeedingInv, Ensures, Exists
<1>2. CASE CreateLocation(r) \/ SeedDefaults(r)
  <2>1. PICK kind \in AllKinds : Seed(r, kind)
    BY <1>2 DEF CreateLocation, SeedDefaults, AllKinds
  <2>2. req'[r].pc = "seeding" /\ req'[r].left = DefaultCodes
    BY <1>0, <2>1 DEF Seed, CodesToEnsure, Reqs
  <2> QED
    BY <2>2 DEF SeedingInv
<1>3. CASE EnsureCode(r) /\ Exists
  <2>1. PICK c \in req[r].left : /\ codes' = codes \union {c}
                                 /\ req' = [req EXCEPT ![r].left = @ \ {c}]
    BY <1>3 DEF EnsureCode
  <2>2. /\ req'[r].pc = req[r].pc /\ req'[r].left = req[r].left \ {c}
        /\ \A s \in Requests \ {r} : req'[s] = req[s]
    BY <1>0, <2>1 DEF Reqs
  <2>3. c \in DefaultCodes
    BY <1>0 DEF Reqs
  <2>4. ASSUME NEW s \in Requests, Ensures(s)
        PROVE  Ensures(s)'
    <3>1. CASE s = r
      BY <2>1, <2>2, <2>4, <3>1 DEF Ensures
    <3>2. CASE s # r
      BY <2>1, <2>2, <2>4, <3>2, EnsuresStays
    <3> QED
      BY <3>1, <3>2
  <2>5. codes = DefaultCodes => codes' = DefaultCodes
    BY <2>1, <2>3
  <2>6. UNCHANGED <<row, cut>>
    BY <1>3 DEF EnsureCode
  <2> QED
    BY <2>4, <2>5, <2>6 DEF SeedingInv, Ensures, Exists
<1>4. CASE EnsureCode(r) /\ ~Exists
  BY <1>4 DEF EnsureCode, SeedingInv, Exists
<1>5. CASE SeedingDone(r)
  <2>1. /\ \A s \in Requests \ {r} : req'[s] = req[s]
        /\ req[r].left = {} /\ UNCHANGED <<row, codes, cut>>
    BY <1>5, Requested DEF SeedingDone
  <2>2. Ensures(r) => codes = DefaultCodes
    BY <2>1 DEF Ensures, TypeOK
  <2>3. \A s \in Requests \ {r} : Ensures(s) => Ensures(s)'
    BY <2>1, EnsuresStays
  <2> QED
    BY <2>1, <2>2, <2>3 DEF SeedingInv, Ensures, Exists
<1> QED
  BY <1>1, <1>2, <1>3, <1>4, <1>5

\* Nobody else takes a code away without saying so.
LEMMA SeedingStep ==
    ASSUME TypeOK, HistoryInv, DeployedLocationStays, SeedingInv, [Next]_vars
    PROVE  SeedingInv'
<1>0. req \in [Requests -> Reqs]
  BY DEF TypeOK, Reqs
<1>1. ASSUME Exists' => Exists, UNCHANGED <<codes, cut, req>>
      PROVE  SeedingInv'
  BY <1>1 DEF SeedingInv
<1>2. ASSUME NEW r \in Requests, req[r].pc # "seeding",
             \A s \in Requests \ {r} : req'[s] = req[s],
             Exists' /\ ~cut' => Exists /\ ~cut, UNCHANGED codes
      PROVE  SeedingInv'
  <2>1. ASSUME NEW s \in Requests, Ensures(s)
        PROVE  Ensures(s)'
    <3>1. s # r
      BY <1>2, <2>1 DEF Ensures
    <3> QED
      BY <1>2, <2>1, <3>1, EnsuresStays
  <2> QED
    BY <1>2, <2>1 DEF SeedingInv, Ensures
<1>3. ASSUME NEW r \in Requests, \E kind \in {"edit", "rotate", "delete"} : Load(r, kind)
      PROVE  SeedingInv'
  <2>1. /\ req[r].pc = "new" /\ \A s \in Requests \ {r} : req'[s] = req[s]
        /\ UNCHANGED <<row, codes, cut>>
    BY <1>0, <1>3 DEF Load
  <2> QED
    BY <1>2, <2>1 DEF Exists
<1>4. ASSUME NEW r \in Requests, SaveEdit(r) \/ SaveRotation(r)
      PROVE  SeedingInv'
  <2>1. req[r].pc = "loaded" /\ \A s \in Requests \ {r} : req'[s] = req[s]
    BY <1>4, Requested DEF SaveEdit, SaveRotation, Step
  <2>2. CASE SaveEdit(r)
    BY <1>2, <2>1, <2>2 DEF SaveEdit
  <2>3. CASE SaveRotation(r)
    <3>1. Exists' => Exists
      BY <1>4, <2>3, OtherWritten DEF SaveRotation, Exists
    <3> QED
      BY <1>2, <2>1, <2>3, <3>1 DEF SaveRotation
  <2> QED
    BY <1>4, <2>2, <2>3
<1>5. ASSUME NEW r \in Requests, DeleteLocation(r)
      PROVE  SeedingInv'
  <2>1. req[r].pc = "loaded" /\ \A s \in Requests \ {r} : req'[s] = req[s]
    BY <1>5, Requested DEF DeleteLocation, Step
  <2>2. CASE Protected
    BY <1>2, <1>5, <2>1, <2>2 DEF DeleteLocation, Exists
  <2>3. CASE ~Protected
    BY <1>5, <2>3, NoRowStatus DEF DeleteLocation, SeedingInv, Exists
  <2> QED
    BY <2>2, <2>3
<1>6. ASSUME NEW c \in DefaultCodes, DeleteCode(c)
      PROVE  SeedingInv'
  BY <1>6 DEF DeleteCode, SeedingInv
<1>7. CASE DeploySucceeds \/ DeployFails
  <2>1. Exists
    BY <1>7 DEF DeploySucceeds, DeployFails, HistoryInv, DeployedLocationStays, TypeOK
  <2> QED
    BY <1>1, <1>7, <2>1 DEF DeploySucceeds, DeployFails
<1>8. ASSUME NEW p \in Reports, TakeReport(p)
      PROVE  SeedingInv'
  BY <1>1, <1>8 DEF TakeReport
<1>9. CASE UNCHANGED <<row, codes, cut, req>>
  BY <1>1, <1>9 DEF Exists
<1>10. Export \/ RestartAgent => UNCHANGED <<row, codes, cut, req>>
  BY DEF Export, RestartAgent
<1>11. \A v \in 1..exported : DeployFiles(v) => UNCHANGED <<row, codes, cut, req>>
  BY DEF DeployFiles
<1>12. \A p \in Reports : OpenReport(p) \/ LoseReport(p) => UNCHANGED <<row, codes, cut, req>>
  BY DEF OpenReport, LoseReport
<1> QED
  BY <1>3, <1>4, <1>5, <1>6, <1>7, <1>8, <1>9, <1>10, <1>11, <1>12, SeedingSelf DEF Next, vars

-----------------------------------------------------------------------------
(* Reports.                                                                *)

\* A report that is begun is newer than any that was heard.
LEMMA ReportOpens ==
    ASSUME OneReport, TypeOK, ReportInv, NEW p \in Reports, OpenReport(p)
    PROVE  ReportInv'
<1>1. /\ reads' = reads + 1 /\ UNCHANGED <<row, undone, heard>> /\ marker # 0
      /\ rep' = [rep EXCEPT ![p] = [pc |-> "open", value |-> marker, turn |-> reads + 1]]
  BY DEF OpenReport
<1>2. rep'[p].value # 0 /\ rep'[p].turn = reads + 1
  BY <1>1 DEF TypeOK
<1>3. heard.turn \in Nat /\ reads \in Nat /\ heard.turn <= reads
  BY DEF TypeOK
<1>4. heard.turn < reads + 1
  BY <1>3
<1>5. \A o \in Reports : o = p
  BY DEF OneReport
<1> QED
  BY <1>1, <1>2, <1>4, <1>5 DEF ReportInv, Exists

\* A report that is taken is the newest, and what the row has.
LEMMA ReportTaken ==
    ASSUME OneReport, TypeOK, ReportInv, NEW p \in Reports, TakeReport(p)
    PROVE  ReportInv'
<1>1. rep[p].value # 0 /\ rep[p].turn = reads /\ heard.turn < reads
  BY DEF TakeReport, ReportInv
<1>2. heard' = [turn |-> rep[p].turn, value |-> rep[p].value]
  BY <1>1 DEF TakeReport
<1>3. rep'[p].pc = "idle"
  BY DEF TakeReport, NoRep, TypeOK
<1>4. \A o \in Reports : o = p
  BY DEF OneReport
<1>5. row'.report = heard'.value /\ heard'.value # 0
  BY <1>1, <1>2, ReportWritten
<1> QED
  BY <1>3, <1>4, <1>5 DEF ReportInv

\* With one report at a time, the row has what was heard last unless a form undid it.
LEMMA ReportStep ==
    ASSUME OneReport, TypeOK, HistoryInv, SecretsFromAdministrators, DeployedLocationStays,
           ReportInv, [Next]_vars
    PROVE  ReportInv'
<1>1. ASSUME NEW r \in Requests, SaveEdit(r)
      PROVE  ReportInv'
  <2>1. UNCHANGED Telemetry
    BY <1>1 DEF SaveEdit
  <2>2. ASSUME "report" \notin undone'
        PROVE  row'.report = heard.value
    <3>1. "report" \notin undone /\ row'.report = row.report
      BY <1>1, <2>2, Edits
    <3>2. CASE Exists
      BY <3>1, <3>2 DEF ReportInv
    <3>3. CASE ~Exists
      BY <3>1, <3>3, NoRowStatus DEF HistoryInv, NothingHeard
    <3> QED
      BY <3>2, <3>3
  <2> QED
    BY <2>1, <2>2 DEF ReportInv, Telemetry
<1>2. ASSUME NEW r \in Requests, CreateLocation(r)
      PROVE  ReportInv'
  <2>1. entered = {} /\ row' = First /\ UNCHANGED Telemetry
    BY <1>2 DEF CreateLocation
  <2>2. ~Exists
    BY <2>1 DEF SecretsFromAdministrators
  <2>3. heard.value = 0
    BY <2>2 DEF HistoryInv, NothingHeard
  <2> QED
    BY <2>1, <2>3, NoRowStatus DEF ReportInv, Telemetry
<1>3. ASSUME NEW r \in Requests, DeleteLocation(r) /\ ~Protected
      PROVE  ReportInv'
  <2>1. row' = NoRow /\ heard' = NothingHeard /\ UNCHANGED <<rep, reads>>
    BY <1>3 DEF DeleteLocation
  <2>2. ~Exists'
    BY <2>1, NoRowStatus DEF Exists
  <2>3. NothingHeard.turn = 0 /\ NothingHeard.value = 0
    BY DEF NothingHeard
  <2>4. heard.turn \in Nat /\ reads \in Nat
    BY DEF TypeOK
  <2> QED
    BY <2>1, <2>2, <2>3, <2>4 DEF ReportInv
<1>4. CASE WritesOther
  BY <1>4, OtherWritten DEF ReportInv, Telemetry
<1>5. ASSUME NEW p \in Reports, LoseReport(p)
      PROVE  ReportInv'
  <2>1. rep'[p].pc = "idle"
    BY <1>5 DEF LoseReport, NoRep, TypeOK
  <2>2. \A o \in Reports : o = p
    BY DEF OneReport
  <2> QED
    BY <1>5, <2>1, <2>2 DEF LoseReport, ReportInv, Exists
<1>6. CASE UNCHANGED <<row, undone, rep, reads, heard>>
  BY <1>6 DEF ReportInv, Exists
<1>7. CASE UNCHANGED <<row, mine, undone, entered>> /\ Next
  <2>1. ASSUME NEW p \in Reports, OpenReport(p) \/ TakeReport(p) \/ LoseReport(p)
        PROVE  ReportInv'
    BY <1>5, <2>1, ReportOpens, ReportTaken
  <2>2. ASSUME NEW r \in Requests, DeleteLocation(r)
        PROVE  ReportInv'
    BY <1>3, <1>6, <1>7, <2>2 DEF DeleteLocation
  <2>3. ASSUME NEW r \in Requests, SaveEdit(r) \/ SaveRotation(r) \/ CreateLocation(r)
        PROVE  ReportInv'
    BY <1>6, <1>7, <2>3 DEF SaveEdit, SaveRotation, CreateLocation, Telemetry
  <2> QED
    BY <1>6, <1>7, <2>1, <2>2, <2>3
       DEF Next, Telemetry, Load, GiveUp, SeedDefaults, EnsureCode, SeedingDone, DeleteCode,
           Export, DeployFiles, DeploySucceeds, DeployFails, RestartAgent
<1>8. CASE UNCHANGED vars
  BY <1>6, <1>8 DEF vars
<1>9. CASE Next
  BY <1>1, <1>2, <1>3, <1>4, <1>7, <1>9, ReportTaken, RowSteps
<1> QED
  BY <1>8, <1>9

-----------------------------------------------------------------------------
(* The theorems.                                                           *)

\* Types and history through every step.
LEMMA TypeStep ==
    ASSUME TypeOK, HistoryInv, SecretsFromAdministrators, DeployedLocationStays, [Next]_vars
    PROVE  TypeOK' /\ HistoryInv'
<1>1. CASE UNCHANGED vars
  BY <1>1 DEF vars, versions, host, TypeOK, HistoryInv, Exists
<1>2. CASE Next
  BY <1>2, TypeRequest, TypeSave, TypeOther, TypeDeploy, TypeReport DEF Next
<1> QED
  BY <1>1, <1>2

\* The inductive invariant, without what it implies.
Inv ==
    /\ TypeOK /\ HistoryInv
    /\ ColumnsStand /\ SecretsFromAdministrators /\ DeployedLocationStays
    /\ SeedingInv
    /\ OneReport => ReportInv

\* It holds at the start.
LEMMA InvInit == Init => Inv
<1> SUFFICES ASSUME Init PROVE Inv
  OBVIOUS
<1>1. TypeOK /\ HistoryInv
  BY TypeInit
<1>2. ColumnsStand /\ DeployedLocationStays
  BY DEF Init, ColumnsStand, DeployedLocationStays
<1>3. SecretsFromAdministrators
  <2>1. Exists => row = First
    BY NoRowStatus DEF Init, Exists
  <2> QED
    BY <2>1, NoRowStatus DEF Init, SecretsFromAdministrators, NoSecret
<1>4. SeedingInv
  BY NoRowStatus DEF Init, SeedingInv, Exists
<1>5. ReportInv
  <2>1. row.report = 0
    BY NoRowStatus DEF Init
  <2> QED
    BY <2>1 DEF Init, ReportInv, NoRep, NothingHeard
<1> QED
  BY <1>1, <1>2, <1>3, <1>4, <1>5 DEF Inv

\* Every step keeps it.
LEMMA InvStep == Inv /\ [Next]_vars => Inv'
  BY TypeStep, RowStep, SeedingStep, ReportStep DEF Inv, OneReport

\* The row of a location keeps what its writers gave it, and a deployed one stays.
THEOREM RowStandsCorrect == Spec => []RowStands
<1>1. Inv => RowStands
  BY DEF Inv, RowStands, CodesComplete, SeedingInv
<1> QED
  BY <1>1, InvInit, InvStep, PTL DEF Spec

\* With one report at a time, the dashboard warns whenever the report that was begun
\* last named another version than the newest or the deployed one.
THEOREM DriftShownCorrect == ASSUME OneReport PROVE Spec => []DriftShown
<1>1. Inv => DriftShown
  <2> SUFFICES ASSUME Inv, Exists, "report" \notin undone, reads > 0, heard.turn = reads,
                      heard.value # exported \/ (deployed # 0 /\ heard.value # deployed)
               PROVE  Drift(row.report, exported, deployed)
    BY DEF DriftShown
  <2>1. row.report = heard.value /\ heard.value # 0
    BY DEF Inv, ReportInv
  <2>2. exported # 0
    BY <2>1 DEF Inv, TypeOK
  <2> QED
    BY <2>1, <2>2 DEF Drift
<1> QED
  BY <1>1, InvInit, InvStep, PTL DEF Spec

=============================================================================
