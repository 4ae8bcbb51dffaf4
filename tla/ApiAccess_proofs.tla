-------------------------- MODULE ApiAccess_proofs ---------------------------
(***************************************************************************)
(* Theorems about ApiAccess, for any users, identities, keys and number of *)
(* overlapping requests, each of which may be killed.                      *)
(***************************************************************************)
EXTENDS ApiAccess, TLAPS

USE ConstantsAssumption DEF tables, Principals, Secrets, At

-----------------------------------------------------------------------------
(* The operators.                                                          *)

\* What can be asked for is a job, and is about a row of the kind the operation is about.
LEMMA JobTypes ==
    ASSUME NEW op \in AllOps, NEW j \in JobSet(op)
    PROVE  /\ j \in Jobs /\ j.op = op
           /\ op \in KeyOps => j.on \in Keys
           /\ op = "issue" => j.on \in Users \union Identities
           /\ op \in {"addIdentity", "patchIdentity"} => j.on \in Identities
           /\ op \in PatchOps \union {"createUser", "addUser", "setRole", "deleteUser"}
                 => j.on \in Users
           /\ op \in NewRowOps => j.set.active = "active" /\ j.set.grant \in Grants
           /\ op = "setRole" => j.set.grant \in Grants
           /\ j.set.active \in {"keep", "active", "inactive"}
           /\ j.set.grant \in Grants \union {"keep"}
<1> USE DEF JobSet, AllOps, KeyOps, PatchOps, NewRowOps
<1>1. j.op = op /\ j.on \in Targets(op) /\ j.set \in SettingsFor(op)
  OBVIOUS
<1>2. Targets(op) \subseteq Users \union Identities \union Keys
  BY DEF Targets
<1>3. SettingsFor(op) \subseteq Settings
  BY DEF SettingsFor, Settings, Keep
<1>4. j \in Jobs
  BY <1>1, <1>2, <1>3 DEF Jobs
<1>5. op \in KeyOps => j.on \in Keys
  BY <1>1 DEF Targets
<1>6. op = "issue" => j.on \in Users \union Identities
  BY <1>1 DEF Targets
<1>7. op \in {"addIdentity", "patchIdentity"} => j.on \in Identities
  BY <1>1 DEF Targets
<1>8. op \in PatchOps \union {"createUser", "addUser", "setRole", "deleteUser"}
         => j.on \in Users
  BY <1>1 DEF Targets
<1>9. op \in NewRowOps => j.set.active = "active" /\ j.set.grant \in Grants
  BY <1>1 DEF SettingsFor
<1>10. op = "setRole" => j.set.grant \in Grants
  BY <1>1 DEF SettingsFor
<1>11. j.set \in Settings
  BY <1>1, <1>3
<1> QED
  BY <1>1, <1>4, <1>5, <1>6, <1>7, <1>8, <1>9, <1>10, <1>11 DEF Settings

\* A principal is read as the columns stand.
LEMMA ReadType ==
    ASSUME TypeOK, NEW p \in Users \union Identities
    PROVE  Read(p) \in Copies
  BY DEF TypeOK, Read, Copies

\* Making a missing profile gives grants of the type.
LEMMA ProfileType ==
    ASSUME TypeOK, NEW r \in Requests
    PROVE  ProfileMade(r) \in [Principals -> Grants \union {"none"}]
<1> DEFINE who == req[r].caller.who
<1>1. CASE who \in Users /\ Role(r) # "none"
  <2>1. who \notin Identities
    BY <1>1
  <2>2. Role(r) \in Grants \union {"none"}
    BY <1>1, <2>1 DEF Role, TypeOK
  <2> QED
    BY <1>1, <2>2 DEF ProfileMade, TypeOK
<1>2. CASE ~(who \in Users /\ Role(r) # "none")
  BY <1>2 DEF ProfileMade, TypeOK
<1> QED
  BY <1>1, <1>2

\* save(update_fields=...) writes the named columns of the one row.
LEMMA SavedRow ==
    ASSUME TypeOK, NEW k \in Keys, NEW instance \in KeyRows, NEW fields
    PROVE  /\ Saved(k, instance, fields) \in [Keys -> KeyRows]
           /\ \A j \in Keys \ {k} : Saved(k, instance, fields)[j] = keys[j]
           /\ \A f \in {"state", "owner", "secret"} :
                 Saved(k, instance, fields)[k][f]
                    = IF f \in fields THEN instance[f] ELSE keys[k][f]
<1> DEFINE new == [f \in DOMAIN keys[k] |-> IF f \in fields THEN instance[f] ELSE keys[k][f]]
<1>1. keys \in [Keys -> KeyRows] /\ keys[k] \in KeyRows
  BY DEF TypeOK
<1>2. DOMAIN keys[k] = {"state", "owner", "secret"}
  BY <1>1 DEF KeyRows
<1>3. new \in KeyRows
  BY <1>1, <1>2 DEF KeyRows
<1>4. Saved(k, instance, fields) = [keys EXCEPT ![k] = new]
  BY DEF Saved
<1> QED
  BY <1>1, <1>2, <1>3, <1>4

-----------------------------------------------------------------------------
(* Types, and what a request holds.                                        *)

\* One request changes what it holds.
LEMMA HoldsNew ==
    ASSUME TypeOK, HeldInv, NEW r \in Requests, NEW q \in ReqStates, Held(q),
           req' = [req EXCEPT ![r] = q]
    PROVE  req' \in [Requests -> ReqStates] /\ HeldInv'
<1>1. req' \in [Requests -> ReqStates]
  BY DEF TypeOK
<1>2. \A s \in Requests : req'[s] = IF s = r THEN q ELSE req[s]
  BY DEF TypeOK
<1>3. \A s \in Requests : Held(req'[s])
  BY <1>2 DEF HeldInv
<1> QED
  BY <1>1, <1>3 DEF HeldInv

\* A request that has ended holds nothing.
LEMMA HoldsNothing ==
    ASSUME TypeOK, HeldInv, NEW r \in Requests, NEW did \in SUBSET Fields, Ends(r, did)
    PROVE  req' \in [Requests -> ReqStates] /\ HeldInv'
<1> DEFINE q == [NewReq EXCEPT !.pc = "done", !.did = did]
<1>1. q \in ReqStates
  BY DEF NewReq, NoRow, Keep, ReqStates, Jobs, AllOps, Settings, Copies, States
<1>2. Held(q)
  BY DEF NewReq, Held, Admitted, Reading
<1>3. req' = [req EXCEPT ![r] = q]
  BY DEF Ends
<1> HIDE DEF q
<1> QED
  BY <1>1, <1>2, <1>3, HoldsNew

\* A request that goes on holds what it held.
LEMMA HoldsSame ==
    ASSUME TypeOK, HeldInv, NEW r \in Requests, NEW to, Goes(r, to),
           \/ to = "addressed" /\ req[r].pc = "loaded"
           \/ to = "vetted" /\ req[r].pc = "permitted" /\ req[r].job.op \in NewRowOps \union {"issue"}
    PROVE  req' \in [Requests -> ReqStates] /\ HeldInv'
<1> DEFINE q == [req[r] EXCEPT !.pc = to]
<1>2. req[r] \in ReqStates /\ Held(req[r])
  BY DEF TypeOK, HeldInv
<1>3. q \in ReqStates
  BY <1>2 DEF ReqStates
<1>4. /\ q.pc = to
      /\ q.caller = req[r].caller /\ q.via = req[r].via /\ q.job = req[r].job
      /\ q.copy = req[r].copy
  BY <1>2 DEF ReqStates
<1>5. req' = [req EXCEPT ![r] = q]
  BY <1>2 DEF Goes, TypeOK
<1> HIDE DEF q
<1>6. Held(q)
  BY <1>2, <1>4 DEF Held, Admitted, Reading, PatchOps, NewRowOps, KeyOps, SavesAll
<1> QED
  BY <1>3, <1>5, <1>6, HoldsNew

\* The history variables that Observe sets have the types.
LEMMA ObserveType ==
    ASSUME TypeOK, Observe
    PROVE  wasAdmin' \subseteq Requests /\ older' \in [Principals -> SUBSET Requests]
  BY DEF TypeOK, Observe, Busy

\* A use of a key saves none of the columns that matter here.
LEMMA UseKeeps ==
    ASSUME TypeOK, HeldInv, NEW r \in Requests, SaveUse(r)
    PROVE  keys' = keys
<1> DEFINE k == req[r].via
<1>1. k \in Keys
  BY DEF SaveUse, HeldInv, Held
<1>2. keys \in [Keys -> KeyRows]
  BY DEF TypeOK
<1>3. \A j \in Keys : [f \in DOMAIN keys[j] |-> keys[j][f]] = keys[j]
  BY <1>2 DEF KeyRows
<1>4. keys' = keys \/ keys' = [keys EXCEPT ![k] = [f \in DOMAIN keys[k] |-> keys[k][f]]]
  BY DEF SaveUse, Saved, UseFields
<1> QED
  BY <1>1, <1>2, <1>3, <1>4

\* Reading who calls, and what for.
LEMMA TypeCaller ==
    ASSUME TypeOK, HeldInv, SecretInv, NEW r \in Requests,
           \/ \E u \in Users : Login(r, u)
           \/ \E k \in Keys : FindKey(r, k)
           \/ SaveUse(r) \/ Permit(r) \/ Refuse(r)
    PROVE  TypeOK' /\ HeldInv'
<1>1. wasAdmin' \subseteq Requests /\ older' \in [Principals -> SUBSET Requests]
  BY ObserveType DEF Login, FindKey, SaveUse, Permit, Refuse
<1>2. req[r] \in ReqStates /\ Held(req[r]) /\ req \in [Requests -> ReqStates]
  BY DEF TypeOK, HeldInv
<1>3. ASSUME NEW u \in Users, Login(r, u)
      PROVE  TypeOK' /\ HeldInv'
  <2> DEFINE q == [req[r] EXCEPT !.pc = "known", !.caller = Read(u)]
  <2>1. q \in ReqStates
    BY <1>2, ReadType DEF ReqStates
  <2>2. Held(q)
    BY <1>2, <1>3 DEF ReqStates, Held, Admitted, Reading, Read, Login
  <2>3. req' = [req EXCEPT ![r] = q]
    BY <1>2, <1>3 DEF Login
  <2> HIDE DEF q
  <2>4. req' \in [Requests -> ReqStates] /\ HeldInv'
    BY <2>1, <2>2, <2>3, HoldsNew
  <2> QED
    BY <1>1, <1>3, <2>4 DEF Login, TypeOK
<1>4. ASSUME NEW k \in Keys, FindKey(r, k)
      PROVE  TypeOK' /\ HeldInv'
  <2> DEFINE q == [req[r] EXCEPT !.pc = "found", !.via = k, !.caller = Read(keys[k].owner),
                                 !.copy = keys[k]]
  <2>1. keys[k] \in KeyRows
    BY DEF TypeOK
  <2>2. keys[k].owner \in Users \union Identities
    BY <1>4 DEF FindKey, SecretInv
  <2>3. q \in ReqStates
    BY <1>2, <2>1, <2>2, ReadType DEF ReqStates
  <2>4. Held(q)
    BY <1>2, <1>4, <2>2 DEF ReqStates, Held, Admitted, Reading, Read, FindKey
  <2>5. req' = [req EXCEPT ![r] = q]
    BY <1>2, <1>4 DEF FindKey
  <2> HIDE DEF q
  <2>6. req' \in [Requests -> ReqStates] /\ HeldInv'
    BY <2>3, <2>4, <2>5, HoldsNew
  <2> QED
    BY <1>1, <1>4, <2>6 DEF FindKey, TypeOK
<1>5. CASE SaveUse(r)
  <2>1. CASE keys[req[r].via].state # "absent"
    <3> DEFINE k == req[r].via
               q == [req[r] EXCEPT !.pc = "known", !.copy = NoRow]
    <3>1. k \in Keys
      BY <1>2, <1>5 DEF SaveUse, Held
    <3>2. keys' = keys
      BY <1>5, UseKeeps
    <3>3. q \in ReqStates
      BY <1>2 DEF ReqStates, NoRow, Copies, States
    <3>4. Held(q)
      BY <1>2, <1>5 DEF ReqStates, Held, Admitted, Reading, SaveUse
    <3>5. req' = [req EXCEPT ![r] = q]
      BY <1>2, <1>5, <2>1 DEF SaveUse
    <3> HIDE DEF q
    <3>6. req' \in [Requests -> ReqStates] /\ HeldInv'
      BY <3>3, <3>4, <3>5, HoldsNew
    <3> QED
      BY <1>1, <1>5, <3>2, <3>6 DEF SaveUse, TypeOK
  <2>2. CASE ~(keys[req[r].via].state # "absent")
    <3>1. Ends(r, {}) /\ UNCHANGED keys
      BY <1>5, <2>2 DEF SaveUse
    <3>2. req' \in [Requests -> ReqStates] /\ HeldInv'
      BY <3>1, HoldsNothing
    <3> QED
      BY <1>1, <1>5, <3>1, <3>2 DEF SaveUse, TypeOK
  <2> QED
    BY <2>1, <2>2
<1>6. CASE Permit(r)
  <2>0. PICK op \in Ops : \E j \in JobSet(op) :
            Fits(j, r) /\ req' = [req EXCEPT ![r].pc = "permitted", ![r].job = j]
    BY <1>6 DEF Permit
  <2>1. PICK j \in JobSet(op) :
            Fits(j, r) /\ req' = [req EXCEPT ![r].pc = "permitted", ![r].job = j]
    BY <2>0
  <2> DEFINE q == [req[r] EXCEPT !.pc = "permitted", !.job = j]
  <2>2. op \in AllOps
    OBVIOUS
  <2>3. j \in Jobs /\ j.op = op
    BY <2>1, <2>2, JobTypes
  <2>4. q \in ReqStates
    BY <1>2, <2>3 DEF ReqStates
  <2>5. Held(q)
    BY <1>2, <1>6, <2>1, <2>3 DEF ReqStates, Held, Admitted, Reading, Fits, Permit
  <2>6. req' = [req EXCEPT ![r] = q]
    BY <1>2, <2>1
  <2> HIDE DEF q
  <2>7. req' \in [Requests -> ReqStates] /\ HeldInv'
    BY <2>4, <2>5, <2>6, HoldsNew
  <2>8. grant' \in [Principals -> Grants \union {"none"}]
    BY <1>6, ProfileType DEF Permit
  <2> QED
    BY <1>1, <1>6, <2>7, <2>8 DEF Permit, TypeOK
<1>7. CASE Refuse(r)
  <2>1. req' \in [Requests -> ReqStates] /\ HeldInv'
    BY <1>7, HoldsNothing DEF Refuse
  <2>2. grant' \in [Principals -> Grants \union {"none"}]
    BY <1>7, ProfileType DEF Refuse
  <2> QED
    BY <1>1, <1>7, <2>1, <2>2 DEF Refuse, TypeOK
<1> QED
  BY <1>3, <1>4, <1>5, <1>6, <1>7

\* Reading the row.
LEMMA TypeLoad ==
    ASSUME TypeOK, HeldInv, NEW r \in Requests,
           \/ Answer(r) \/ LoadNothing(r) \/ LoadKey(r) \/ LoadPrincipal(r)
           \/ CheckTarget(r) \/ CheckFields(r)
    PROVE  TypeOK' /\ HeldInv'
<1> DEFINE j == req[r].job
<1>1. wasAdmin' \subseteq Requests /\ older' \in [Principals -> SUBSET Requests]
  BY ObserveType DEF Answer, LoadNothing, LoadKey, LoadPrincipal, CheckTarget, CheckFields
<1>2. req[r] \in ReqStates /\ Held(req[r]) /\ req \in [Requests -> ReqStates]
  BY DEF TypeOK, HeldInv
<1>3. UNCHANGED <<state, keys, minted, keyLog, userLog, retired>>
  BY DEF Answer, LoadNothing, LoadKey, LoadPrincipal, CheckTarget, CheckFields
<1>4. grant' \in [Principals -> Grants \union {"none"}]
  <2>1. grant' = grant \/ grant' = ProfileMade(r)
    BY DEF Answer, LoadNothing, LoadKey, LoadPrincipal, CheckTarget, CheckFields
  <2> QED
    BY <2>1, ProfileType DEF TypeOK
<1>5. SUFFICES req' \in [Requests -> ReqStates] /\ HeldInv'
  BY <1>1, <1>3, <1>4 DEF TypeOK
<1>6. CASE Ends(r, {})
  BY <1>6, HoldsNothing
<1>7. req[r].pc \in Admitted
  BY DEF Answer, LoadNothing, LoadKey, LoadPrincipal, CheckTarget, CheckFields, Admitted
<1>8. j.op \in AllOps /\ j \in JobSet(j.op) /\ j \in Jobs
  BY <1>2, <1>7 DEF ReqStates, Jobs, Held
<1>9. CASE Answer(r) \/ LoadNothing(r)
  BY <1>6, <1>9, HoldsSame DEF Answer, LoadNothing
<1>10. CASE LoadKey(r) /\ ~Ends(r, {})
  <2> DEFINE q == [req[r] EXCEPT !.pc = "vetted", !.copy = keys[j.on]]
  <2>1. j.on \in Keys
    BY <1>8, <1>10, JobTypes DEF LoadKey
  <2>2. keys[j.on] \in KeyRows
    BY <2>1 DEF TypeOK
  <2>3. q \in ReqStates
    BY <1>2, <2>2 DEF ReqStates
  <2>4. q.pc = "vetted" /\ q.copy = keys[j.on] /\ q.caller = req[r].caller /\ q.job = j
    BY <1>2 DEF ReqStates
  <2>5. req' = [req EXCEPT ![r] = q]
    BY <1>2, <1>10 DEF LoadKey
  <2> HIDE DEF q
  <2>6. Held(q)
    BY <1>2, <1>7, <1>10, <2>2, <2>4
       DEF Held, Admitted, Reading, SavesAll, PatchOps, KeyOps, LoadKey
  <2> QED
    BY <2>3, <2>5, <2>6, HoldsNew
<1>11. CASE LoadPrincipal(r) /\ ~Ends(r, {})
  <2> DEFINE copy == IF j.op = "patchMe" THEN req[r].caller ELSE Read(j.on)
             pc == CASE j.op = "patchUser" -> "loaded"
                     [] j.op \in {"patchMe", "adminPatchUser"} -> "addressed"
                     [] OTHER -> "vetted"
             log == IF j.op = "setRole" /\ grant[j.on] # j.set.grant THEN {"role"} ELSE {}
             q == [req[r] EXCEPT !.pc = pc, !.copy = copy, !.log = log]
  <2>1. j.on \in Users \union Identities
    BY <1>8, <1>11, JobTypes DEF LoadPrincipal, AllOps
  <2>2. copy \in Copies
    BY <1>2, <2>1, ReadType DEF ReqStates
  <2>3. log \in SUBSET Fields /\ pc \in {"loaded", "addressed", "vetted"}
    BY DEF Fields
  <2>4. q \in ReqStates
    BY <1>2, <2>2, <2>3 DEF ReqStates
  <2>5. q.pc = pc /\ q.copy = copy /\ q.caller = req[r].caller /\ q.job = j
    BY <1>2 DEF ReqStates
  <2>6. req' = [req EXCEPT ![r] = q]
    BY <1>2, <1>11 DEF LoadPrincipal
  <2>7. j.op \in SavesAll \union {"setRole", "deleteUser"} /\ req[r].pc = "permitted"
    BY <1>11 DEF LoadPrincipal, SavesAll
  <2>8. j.op # "patchMe" => state[j.on] # "absent"
    BY <1>11 DEF LoadPrincipal
  <2>9. copy.who = j.on /\ (j.op # "setRole" => copy.state # "absent")
    BY <1>2, <1>7, <2>1, <2>7, <2>8 DEF Held, Read, Admitted
  <2> HIDE DEF q, copy, log
  <2>10. Held(q)
    BY <1>2, <1>7, <2>2, <2>5, <2>7, <2>9
       DEF Held, Admitted, Reading, SavesAll, PatchOps, KeyOps
  <2> QED
    BY <2>4, <2>6, <2>10, HoldsNew
<1>12. CASE CheckTarget(r) /\ ~Ends(r, {})
  <2>1. req[r].pc = "loaded" /\ Goes(r, "addressed")
    BY <1>12 DEF CheckTarget
  <2> QED
    BY <2>1, HoldsSame
<1>13. CASE CheckFields(r) /\ ~Ends(r, {})
  <2> DEFINE log == (IF j.set.active \in {"keep", req[r].copy.state} THEN {} ELSE {"active"})
                      \union (IF j.set.grant \in {"keep", grant[j.on]} THEN {} ELSE {"role"})
             q == [req[r] EXCEPT !.pc = "vetted", !.log = log]
  <2>1. log \in SUBSET Fields
    BY DEF Fields
  <2>2. q \in ReqStates
    BY <1>2, <2>1 DEF ReqStates
  <2>3. /\ q.pc = "vetted" /\ q.copy = req[r].copy /\ q.caller = req[r].caller /\ q.job = j
        /\ req[r].pc = "addressed"
    BY <1>2, <1>13 DEF ReqStates, CheckFields
  <2>4. req' = [req EXCEPT ![r] = q]
    BY <1>2, <1>13 DEF CheckFields
  <2> HIDE DEF q, log
  <2>5. Held(q)
    BY <1>2, <1>7, <2>3 DEF Held, Admitted, Reading, SavesAll, PatchOps, KeyOps
  <2> QED
    BY <2>2, <2>4, <2>5, HoldsNew
<1> QED
  BY <1>6, <1>9, <1>10, <1>11, <1>12, <1>13

\* A request that has written, and will be logged.
LEMMA HoldsCommitted ==
    ASSUME TypeOK, HeldInv, NEW r \in Requests, req[r].pc = "vetted",
           req[r].job.op \in PatchOps \union {"setRole", "createUser"},
           NEW log \in SUBSET Fields, NEW did \in SUBSET Fields,
           req' = [req EXCEPT ![r] = [req[r] EXCEPT !.pc = "committed", !.log = log, !.did = did]]
    PROVE  req' \in [Requests -> ReqStates] /\ HeldInv'
<1> DEFINE q == [req[r] EXCEPT !.pc = "committed", !.log = log, !.did = did]
<1>1. req[r] \in ReqStates /\ Held(req[r])
  BY DEF TypeOK, HeldInv
<1>2. q \in ReqStates
  BY <1>1 DEF ReqStates
<1>3. q.pc = "committed" /\ q.job = req[r].job /\ q.caller = req[r].caller
  BY <1>1 DEF ReqStates
<1> HIDE DEF q
<1>4. Held(q)
  BY <1>1, <1>3 DEF Held, Admitted, Reading
<1>5. req' = [req EXCEPT ![r] = q]
  BY DEF q
<1> QED
  BY <1>2, <1>4, <1>5, HoldsNew

\* Writing rows of users and identities.
LEMMA TypeCommitRow ==
    ASSUME TypeOK, HeldInv, NEW r \in Requests,
           CommitPatch(r) \/ CommitIdentity(r) \/ CommitRole(r) \/ CommitNew(r)
    PROVE  TypeOK' /\ HeldInv'
<1> DEFINE j == req[r].job
<1>1. wasAdmin' \subseteq Requests /\ older' \in [Principals -> SUBSET Requests]
  BY ObserveType DEF CommitPatch, CommitIdentity, CommitRole, CommitNew
<1>2. req[r] \in ReqStates /\ Held(req[r]) /\ req \in [Requests -> ReqStates]
  BY DEF TypeOK, HeldInv
<1>3. UNCHANGED <<keys, minted, keyLog, userLog, retired>> /\ req[r].pc = "vetted"
  BY DEF CommitPatch, CommitIdentity, CommitRole, CommitNew
<1>4. j.op \in AllOps /\ j \in JobSet(j.op) /\ j \in Jobs
  BY <1>2, <1>3 DEF ReqStates, Jobs, Held, Admitted
<1>5. SUFFICES /\ req' \in [Requests -> ReqStates] /\ HeldInv'
               /\ state' \in [Principals -> States]
               /\ grant' \in [Principals -> Grants \union {"none"}]
  BY <1>1, <1>3 DEF TypeOK
<1>6. state \in [Principals -> States] /\ grant \in [Principals -> Grants \union {"none"}]
  BY DEF TypeOK
<1>7. j.op \in SavesAll => SavedState(r) \in States
  <2>1. ASSUME j.op \in SavesAll PROVE req[r].copy.state \in States
    BY <1>2, <1>3, <2>1 DEF Held, Reading, Copies
  <2>2. j.set.active \in {"keep", "active", "inactive"}
    BY <1>4, JobTypes
  <2> QED
    BY <2>1, <2>2 DEF SavedState, States
<1>8. CASE CommitPatch(r)
  <2> DEFINE role == IF j.set.grant = "keep" THEN grant[j.on] ELSE j.set.grant
             did == (IF state[j.on] = SavedState(r) THEN {} ELSE {"active"})
                      \union (IF grant[j.on] = role THEN {} ELSE {"role"})
  <2>1. j.on \in Users
    BY <1>4, <1>8, JobTypes DEF CommitPatch
  <2>2. role \in Grants \union {"none"}
    BY <1>4, <1>6, <2>1, JobTypes
  <2>3. did \in SUBSET Fields /\ req[r].log \in SUBSET Fields
    BY <1>2 DEF Fields, ReqStates
  <2>4. req' = [req EXCEPT ![r] = [req[r] EXCEPT !.pc = "committed", !.log = req[r].log,
                                                 !.did = did]]
    BY <1>2, <1>8 DEF CommitPatch, ReqStates
  <2>5. j.op \in PatchOps
    BY <1>8 DEF CommitPatch
  <2> HIDE DEF did
  <2>6. req' \in [Requests -> ReqStates] /\ HeldInv'
    BY <1>3, <2>3, <2>4, <2>5, HoldsCommitted
  <2> QED
    BY <1>6, <1>7, <1>8, <2>1, <2>2, <2>5, <2>6 DEF CommitPatch, SavesAll
<1>9. CASE CommitIdentity(r)
  <2>1. j.on \in Identities /\ j.set.grant \in Grants \union {"keep"}
    BY <1>4, <1>9, JobTypes DEF CommitIdentity
  <2>2. req[r].copy.grant \in Grants \union {"none"}
    BY <1>2, <1>3, <1>9 DEF Held, Reading, Copies, CommitIdentity, SavesAll
  <2>3. req' \in [Requests -> ReqStates] /\ HeldInv'
    BY <1>9, HoldsNothing DEF CommitIdentity
  <2> QED
    BY <1>6, <1>7, <1>9, <2>1, <2>2, <2>3 DEF CommitIdentity, SavesAll
<1>10. CASE CommitRole(r)
  <2>1. j.on \in Users /\ j.set.grant \in Grants
    BY <1>4, <1>10, JobTypes DEF CommitRole
  <2>2. CASE state[j.on] = "absent"
    BY <1>6, <1>10, <2>2, HoldsNothing DEF CommitRole
  <2>3. CASE state[j.on] # "absent"
    <3> DEFINE did == IF grant[j.on] = j.set.grant THEN {} ELSE {"role"}
    <3>1. did \in SUBSET Fields /\ req[r].log \in SUBSET Fields
      BY <1>2 DEF Fields, ReqStates
    <3>2. req' = [req EXCEPT ![r].pc = "committed", ![r].did = did]
      BY <1>10, <2>3 DEF CommitRole
    <3>3. req' = [req EXCEPT ![r] = [req[r] EXCEPT !.pc = "committed", !.log = req[r].log,
                                                   !.did = did]]
      <4> HIDE DEF did
      <4> QED
        BY <1>2, <3>2 DEF ReqStates
    <3>4. j.op \in PatchOps \union {"setRole", "createUser"}
      BY <1>10 DEF CommitRole
    <3> HIDE DEF did
    <3>5. req' \in [Requests -> ReqStates] /\ HeldInv'
      BY <1>3, <3>1, <3>3, <3>4, HoldsCommitted
    <3> QED
      BY <1>6, <1>10, <2>1, <2>3, <3>5 DEF CommitRole
  <2> QED
    BY <2>2, <2>3
<1>11. CASE CommitNew(r)
  <2>1. j.on \in Principals /\ j.set.grant \in Grants /\ j.set.active = "active"
    BY <1>4, <1>11, JobTypes DEF CommitNew, NewRowOps
  <2>2. CASE Ends(r, {})
    <3>1. req' \in [Requests -> ReqStates] /\ HeldInv'
      BY <2>2, HoldsNothing
    <3> QED
      BY <1>6, <1>11, <2>1, <3>1 DEF CommitNew, States
  <2>3. CASE ~Ends(r, {})
    <3>1. j.op = "createUser" /\ req' = [req EXCEPT ![r].pc = "committed", ![r].log = Fields]
      BY <1>11, <2>3 DEF CommitNew
    <3>2. req' = [req EXCEPT ![r] = [req[r] EXCEPT !.pc = "committed", !.log = Fields,
                                                   !.did = req[r].did]]
      BY <1>2, <3>1 DEF ReqStates
    <3>3. req[r].did \in SUBSET Fields
      BY <1>2 DEF ReqStates
    <3>4. req' \in [Requests -> ReqStates] /\ HeldInv'
      BY <1>3, <3>1, <3>2, <3>3, HoldsCommitted
    <3> QED
      BY <1>6, <1>11, <2>1, <3>4 DEF CommitNew, States
  <2> QED
    BY <2>2, <2>3
<1> QED
  BY <1>8, <1>9, <1>10, <1>11

\* Writing a row of a user is logged, if at all, with the fields it has.
LEMMA LogType ==
    ASSUME TypeOK, NEW r \in Requests, NEW u \in Users,
           NEW fields \in SUBSET (Fields \union {"deleted"})
    PROVE  userLog \union {[by |-> r, on |-> u, fields |-> fields]}
              \subseteq [by : Requests, on : Users, fields : SUBSET (Fields \union {"deleted"})]
  BY DEF TypeOK

\* An entry about a key.
LEMMA KeyLogType ==
    ASSUME TypeOK, NEW k \in Keys, NEW what \in {"create", "rotate", "revoke"}, NEW s \in Nat,
           Logged(k, what, s)
    PROVE  /\ keyLog' \in [Keys -> Seq({"create", "rotate", "revoke"} \X Nat)]
           /\ keyLog'[k] = Append(keyLog[k], <<what, s>>)
           /\ \A j \in Keys \ {k} : keyLog'[j] = keyLog[j]
<1> DEFINE Entries == {"create", "rotate", "revoke"} \X Nat
<1>1. <<what, s>> \in Entries
  OBVIOUS
<1>2. keyLog \in [Keys -> Seq(Entries)]
  BY DEF TypeOK
<1> HIDE DEF Entries
<1>3. keyLog[k] \in Seq(Entries)
  BY <1>2
<1>4. Append(keyLog[k], <<what, s>>) \in Seq(Entries)
  BY <1>1, <1>3
<1>5. keyLog' = [keyLog EXCEPT ![k] = Append(keyLog[k], <<what, s>>)]
  BY DEF Logged
<1>6. keyLog' \in [Keys -> Seq(Entries)]
  BY <1>2, <1>4, <1>5
<1> QED
  BY <1>2, <1>5, <1>6 DEF Entries

\* Deleting, writing keys, and what ends without writing rows.
LEMMA TypeCommitRest ==
    ASSUME TypeOK, HeldInv, NEW r \in Requests,
           \/ CommitDelete(r) \/ CommitKey(r) \/ RollBack(r)
           \/ \E k \in Keys : CommitIssue(r, k)
           \/ AuditUpdate(r) \/ Kill(r)
    PROVE  TypeOK' /\ HeldInv'
<1> DEFINE j == req[r].job
<1>1. wasAdmin' \subseteq Requests /\ older' \in [Principals -> SUBSET Requests]
  BY ObserveType DEF CommitDelete, CommitKey, RollBack, CommitIssue, AuditUpdate, Kill
<1>2. req[r] \in ReqStates /\ Held(req[r]) /\ req \in [Requests -> ReqStates]
  BY DEF TypeOK, HeldInv
<1>3. req' \in [Requests -> ReqStates] /\ HeldInv'
  <2>1. PICK did \in SUBSET Fields : Ends(r, did)
    BY <1>2 DEF CommitDelete, CommitKey, RollBack, CommitIssue, AuditUpdate, Kill, ReqStates
  <2> QED
    BY <2>1, HoldsNothing
<1>4. req[r].pc \in Admitted =>
         j.op \in AllOps /\ j \in JobSet(j.op) /\ j \in Jobs
  BY <1>2 DEF ReqStates, Jobs, Held
<1>5. CASE CommitDelete(r)
  <2>1. j.on \in Users
    BY <1>4, <1>5, JobTypes DEF CommitDelete, Admitted
  <2>2. state' \in [Principals -> States] /\ grant' \in [Principals -> Grants \union {"none"}]
    BY <1>5, <2>1 DEF CommitDelete, TypeOK, States
  <2>3. keys' \in [Keys -> KeyRows]
    BY <1>5 DEF CommitDelete, Without, TypeOK, NoKey, KeyRows
  <2>4. userLog' \subseteq [by : Requests, on : Users, fields : SUBSET (Fields \union {"deleted"})]
    BY <1>5, <2>1, LogType DEF CommitDelete
  <2>5. retired' \subseteq Nat
    <3>1. \A k \in Keys : keys[k].secret \in Nat
      BY DEF TypeOK, KeyRows
    <3> QED
      BY <1>5, <3>1 DEF CommitDelete, TypeOK
  <2> QED
    BY <1>1, <1>3, <1>5, <2>2, <2>3, <2>4, <2>5 DEF CommitDelete, TypeOK
<1>6. CASE CommitKey(r)
  <2> DEFINE k == j.on
             rotates == j.op = "rotate"
             instance == IF rotates THEN [req[r].copy EXCEPT !.secret = minted + 1]
                                    ELSE [req[r].copy EXCEPT !.state = "revoked"]
             fields == IF rotates THEN RotateFields ELSE RevokeFields
  <2>1. k \in Keys /\ j.op \in {"rotate", "revoke"}
    BY <1>4, <1>6, JobTypes DEF CommitKey, Admitted, KeyOps
  <2>2. req[r].copy \in KeyRows
    BY <1>2, <1>6 DEF CommitKey, Held, Reading
  <2>3. minted \in Nat
    BY DEF TypeOK
  <2>4. instance \in KeyRows
    BY <2>2, <2>3 DEF KeyRows
  <2>5. keys' = Saved(k, instance, fields) /\ Logged(k, j.op, instance.secret)
    BY <1>6 DEF CommitKey
  <2>6. instance.secret \in Nat
    BY <2>4 DEF KeyRows
  <2> HIDE DEF instance, fields
  <2>7. keys' \in [Keys -> KeyRows]
    BY <2>1, <2>4, <2>5, SavedRow
  <2>8. keyLog' \in [Keys -> Seq({"create", "rotate", "revoke"} \X Nat)]
    BY <2>1, <2>5, <2>6, KeyLogType
  <2>9. minted' \in Nat /\ retired' \subseteq Nat
    <3>1. minted' = IF rotates THEN minted + 1 ELSE minted
      BY <1>6 DEF CommitKey
    <3>2. retired' = retired \union {keys[k].secret}
                       \union (IF rotates /\ keys[k].state = "revoked" THEN {minted'} ELSE {})
      BY <1>6 DEF CommitKey
    <3>3. keys[k].secret \in Nat /\ retired \subseteq Nat
      BY <2>1 DEF TypeOK, KeyRows
    <3>4. minted' \in Nat
      BY ONLY <2>3, <3>1
    <3> QED
      BY ONLY <3>2, <3>3, <3>4
  <2> QED
    BY <1>1, <1>3, <1>6, <2>7, <2>8, <2>9 DEF CommitKey, TypeOK
<1>7. ASSUME NEW k \in Keys, CommitIssue(r, k)
      PROVE  TypeOK' /\ HeldInv'
  <2>1. j.on \in Principals
    BY <1>4, <1>7, JobTypes DEF CommitIssue, Admitted
  <2>2. minted \in Nat /\ minted + 1 \in Nat
    BY DEF TypeOK
  <2>3. keys' \in [Keys -> KeyRows]
    BY <1>7, <2>1, <2>2 DEF CommitIssue, TypeOK, KeyRows
  <2>4. keyLog' \in [Keys -> Seq({"create", "rotate", "revoke"} \X Nat)]
    BY <1>7, <2>2, KeyLogType DEF CommitIssue
  <2> QED
    BY <1>1, <1>3, <1>7, <2>2, <2>3, <2>4 DEF CommitIssue, TypeOK
<1>8. CASE RollBack(r) \/ Kill(r)
  BY <1>1, <1>3, <1>8 DEF RollBack, Kill, TypeOK
<1>9. CASE AuditUpdate(r)
  <2>1. j.on \in Users /\ req[r].log \in SUBSET Fields
    BY <1>2, <1>4, <1>9, JobTypes DEF AuditUpdate, Admitted, Held, ReqStates
  <2>2. userLog' \subseteq [by : Requests, on : Users, fields : SUBSET (Fields \union {"deleted"})]
    BY <1>9, <2>1, LogType DEF AuditUpdate, TypeOK
  <2> QED
    BY <1>1, <1>3, <1>9, <2>2 DEF AuditUpdate, TypeOK
<1> QED
  BY <1>5, <1>6, <1>7, <1>8, <1>9

\* The initial state has the types; nobody holds anything.
LEMMA TypeInit == Init => TypeOK /\ HeldInv
<1> SUFFICES ASSUME Init PROVE TypeOK /\ HeldInv
  OBVIOUS
<1>1. PICK present \in SUBSET Identities :
          state = [p \in Principals |->
                     IF p \in {Admin, Member} \union present THEN "active" ELSE "absent"]
  BY DEF Init
<1>2. PICK g \in [Identities -> Grants] :
          grant = [p \in Principals |->
                     IF p = Admin THEN "admin" ELSE IF p = Member THEN "viewer"
                     ELSE IF state[p] = "active" THEN g[p] ELSE "none"]
  BY DEF Init
<1>3. state \in [Principals -> States]
  BY <1>1 DEF States
<1>4. grant \in [Principals -> Grants \union {"none"}]
  <2>1. \A p \in Principals : state[p] = "active" /\ p \notin {Admin, Member} => p \in Identities
    BY <1>1
  <2> QED
    BY <1>2, <2>1
<1> DEFINE k == CHOOSE k \in Keys : TRUE
<1>5. PICK p \in Principals :
          /\ keys = [j \in Keys |-> IF j # k THEN NoKey
                                    ELSE [state |-> "live", owner |-> p, secret |-> 1]]
          /\ keyLog = [j \in Keys |-> IF j # k THEN <<>> ELSE << <<"create", 1>> >>]
  BY DEF Init
<1> HIDE DEF k
<1>6. keys \in [Keys -> KeyRows]
  BY <1>5 DEF KeyRows, NoKey
<1>7. keyLog \in [Keys -> Seq({"create", "rotate", "revoke"} \X Nat)]
  <2> DEFINE Entries == {"create", "rotate", "revoke"} \X Nat
  <2>1. <<"create", 1>> \in Entries
    OBVIOUS
  <2> HIDE DEF Entries
  <2>2. << <<"create", 1>> >> \in Seq(Entries) /\ <<>> \in Seq(Entries)
    BY <2>1
  <2>3. keyLog \in [Keys -> Seq(Entries)]
    BY <1>5, <2>2
  <2> QED
    BY <2>3 DEF Entries
<1>8. NewReq \in ReqStates /\ Held(NewReq)
  BY DEF NewReq, NoRow, Keep, ReqStates, Jobs, AllOps, Settings, Copies, States, Held, Admitted,
         Reading
<1>9. req \in [Requests -> ReqStates] /\ HeldInv
  BY <1>8 DEF Init, HeldInv
<1> QED
  BY <1>3, <1>4, <1>6, <1>7, <1>9 DEF Init, TypeOK

\* Types, and what requests hold, through every step.
LEMMA TypeStep ==
    ASSUME TypeOK, HeldInv, SecretInv, NEW r \in Requests, Step(r)
    PROVE  TypeOK' /\ HeldInv'
  BY TypeCaller, TypeLoad, TypeCommitRow, TypeCommitRest DEF Step

-----------------------------------------------------------------------------
(* Keys, their secrets and their history.                                  *)

\* The initial key is the one that is logged.
LEMMA SecretInit == Init => SecretInv /\ KeyLogInv
<1> SUFFICES ASSUME Init PROVE SecretInv /\ KeyLogInv
  OBVIOUS
<1> DEFINE k == CHOOSE k \in Keys : TRUE
<1>1. PICK p \in Principals :
          /\ keys = [j \in Keys |-> IF j # k THEN NoKey
                                    ELSE [state |-> "live", owner |-> p, secret |-> 1]]
          /\ keyLog = [j \in Keys |-> IF j # k THEN <<>> ELSE << <<"create", 1>> >>]
  BY DEF Init
<1> HIDE DEF k
<1>2. minted = 1 /\ retired = {}
  BY DEF Init
<1>3. SecretInv
  BY <1>1, <1>2 DEF SecretInv, NoKey
<1>4. KeyLogInv
  <2> SUFFICES ASSUME NEW j \in Keys, keys[j].state # "absent"
               PROVE  /\ \E i \in DOMAIN keyLog[j] : LastMade(j, i) /\ keyLog[j][i][2] = keys[j].secret
                      /\ keys[j].state = "revoked" <=> \E i \in DOMAIN keyLog[j] : keyLog[j][i][1] = "revoke"
    BY DEF KeyLogInv
  <2>1. j = k
    BY <1>1 DEF NoKey
  <2>2. keyLog[j] = << <<"create", 1>> >> /\ keys[j].secret = 1 /\ keys[j].state = "live"
    BY <1>1, <2>1
  <2>3. DOMAIN keyLog[j] = {1} /\ keyLog[j][1] = <<"create", 1>>
    BY <2>2
  <2>4. LastMade(j, 1)
    BY <2>3 DEF LastMade, Makes
  <2> QED
    BY <2>2, <2>3, <2>4
<1> QED
  BY <1>3, <1>4

\* Where keys, secrets and their history stay, so do the invariants.
LEMMA SecretQuiet ==
    ASSUME SecretInv, KeyLogInv, UNCHANGED <<keys, minted, keyLog, retired>>
    PROVE  SecretInv' /\ KeyLogInv'
<1>1. SecretInv'
  BY DEF SecretInv
<1>2. KeyLogInv'
  BY DEF KeyLogInv, LastMade
<1> QED
  BY <1>1, <1>2

\* An entry is the last one of its key's history; the others stay.
LEMMA Logs ==
    ASSUME TypeOK, NEW k \in Keys, NEW what \in {"create", "rotate", "revoke"}, NEW s \in Nat,
           Logged(k, what, s)
    PROVE  \E n \in Nat :
              /\ DOMAIN keyLog[k] = 1..n /\ DOMAIN keyLog'[k] = 1..(n + 1)
              /\ \A i \in 1..n : keyLog'[k][i] = keyLog[k][i]
              /\ keyLog'[k][n + 1][1] = what /\ keyLog'[k][n + 1][2] = s
<1> DEFINE Entries == {"create", "rotate", "revoke"} \X Nat
           n == Len(keyLog[k])
           e == <<what, s>>
<1>1. keyLog'[k] = Append(keyLog[k], e)
  BY KeyLogType
<1>2. keyLog[k] \in Seq(Entries)
  BY DEF TypeOK
<1>3. e[1] = what /\ e[2] = s
  OBVIOUS
<1> HIDE DEF Entries, e
<1>4. n \in Nat /\ DOMAIN keyLog[k] = 1..n
  BY <1>2
<1>5. /\ DOMAIN keyLog'[k] = 1..(n + 1)
      /\ \A i \in 1..n : keyLog'[k][i] = keyLog[k][i]
      /\ keyLog'[k][n + 1] = e
  BY <1>1, <1>2
<1> QED
  BY <1>3, <1>4, <1>5

\* A key whose row and entries stay keeps its history.
LEMMA HistoryStays ==
    ASSUME KeyLogInv, NEW k \in Keys, keys'[k] = keys[k], keyLog'[k] = keyLog[k],
           keys'[k].state # "absent"
    PROVE  /\ \E i \in DOMAIN keyLog'[k] : LastMade(k, i)' /\ keyLog'[k][i][2] = keys'[k].secret
           /\ keys'[k].state = "revoked" <=> \E i \in DOMAIN keyLog'[k] : keyLog'[k][i][1] = "revoke"
  BY DEF KeyLogInv, LastMade

\* The keys of a user who is deleted go with the user, and their secrets are dead.
LEMMA SecretDelete ==
    ASSUME TypeOK, HeldInv, SecretInv, KeyLogInv, NEW r \in Requests, CommitDelete(r)
    PROVE  SecretInv' /\ KeyLogInv' /\ KeepsRevoked
<1> DEFINE u == req[r].job.on
<1>1. u \in Users
  BY JobTypes DEF CommitDelete, TypeOK, HeldInv, Held, Admitted, ReqStates, Jobs
<1>2. /\ keys' = [k \in Keys |-> IF keys[k].owner = u THEN NoKey ELSE keys[k]]
      /\ retired' = retired \union {keys[k].secret : k \in {k \in Keys : keys[k].owner = u}}
      /\ UNCHANGED <<minted, keyLog>>
  BY DEF CommitDelete, Without
<1>3. \A k \in Keys : keys[k].owner = u => keys[k].state # "absent"
  BY <1>1 DEF SecretInv, NoKey
<1>4. NoKey.state = "absent"
  BY DEF NoKey
<1> HIDE DEF u
<1>5. SecretInv'
  <2>1. \A s \in retired' : s <= minted'
    BY <1>2, <1>3 DEF SecretInv
  <2>2. \A k \in Keys : keys'[k].state = "absent" => keys'[k] = NoKey
    BY <1>2, <1>4 DEF SecretInv
  <2>3. \A k \in Keys : keys'[k].state # "absent"
                           => keys'[k].secret <= minted' /\ keys'[k].owner \in Principals
    BY <1>2, <1>4 DEF SecretInv
  <2>4. \A j, k \in Keys : keys'[j].state # "absent" /\ keys'[k].state # "absent"
                              /\ keys'[j].secret = keys'[k].secret => j = k
    BY <1>2, <1>4 DEF SecretInv
  <2>5. ASSUME NEW k \in Keys, keys'[k].state = "live"
        PROVE  keys'[k].secret \notin retired'
    <3>1. keys'[k] = keys[k] /\ keys[k].owner # u /\ keys[k].state # "absent"
      BY <1>2, <1>4, <2>5
    <3>2. ASSUME NEW j \in Keys, keys[j].owner = u, keys[j].secret = keys[k].secret
          PROVE  FALSE
      BY <1>3, <3>1, <3>2 DEF SecretInv
    <3>3. keys[k].secret \notin retired
      BY <2>5, <3>1 DEF SecretInv
    <3> QED
      BY <1>2, <3>1, <3>2, <3>3
  <2> QED
    BY <2>1, <2>2, <2>3, <2>4, <2>5 DEF SecretInv
<1>6. KeyLogInv'
  BY <1>2, <1>4, HistoryStays DEF KeyLogInv
<1>7. KeepsRevoked
  BY <1>2, <1>4 DEF KeepsRevoked
<1> QED
  BY <1>5, <1>6, <1>7

\* A new key has a new secret and the first entry.
LEMMA SecretIssue ==
    ASSUME TypeOK, HeldInv, SecretInv, KeyLogInv, NEW r \in Requests, NEW k \in Keys,
           CommitIssue(r, k)
    PROVE  SecretInv' /\ KeyLogInv' /\ KeepsRevoked
<1> DEFINE owner == req[r].job.on
           new == [state |-> "live", owner |-> owner, secret |-> minted + 1]
<1>1. owner \in Principals
  BY JobTypes DEF CommitIssue, TypeOK, HeldInv, Held, Admitted, ReqStates, Jobs
<1>2. /\ keys' = [keys EXCEPT ![k] = new]
      /\ minted' = minted + 1 /\ retired' = retired
      /\ Logged(k, "create", minted + 1) /\ keyLog[k] = <<>>
  BY DEF CommitIssue
<1>3. new.state = "live" /\ new.owner = owner /\ new.secret = minted + 1
  OBVIOUS
<1> HIDE DEF owner, new
<1>4. minted \in Nat /\ keys \in [Keys -> KeyRows] /\ \A j \in Keys : keys[j].secret \in Nat
  BY DEF TypeOK, KeyRows
<1>5. keys'[k] = new /\ \A j \in Keys \ {k} : keys'[j] = keys[j]
  BY <1>2, <1>4
<1>6. retired \subseteq Nat
  BY DEF TypeOK
<1>7. SecretInv'
  <2>1. \A s \in retired' : s <= minted'
    BY <1>2, <1>4, <1>6 DEF SecretInv
  <2>2. \A j \in Keys : keys'[j].state = "absent" => keys'[j] = NoKey
    BY <1>3, <1>5 DEF SecretInv
  <2>3. \A j \in Keys : keys'[j].state # "absent"
                           => keys'[j].secret <= minted' /\ keys'[j].owner \in Principals
    BY <1>1, <1>2, <1>3, <1>4, <1>5 DEF SecretInv
  <2>4. \A i, j \in Keys : keys'[i].state # "absent" /\ keys'[j].state # "absent"
                              /\ keys'[i].secret = keys'[j].secret => i = j
    <3>1. \A j \in Keys \ {k} : keys'[j].state # "absent" => keys'[j].secret # minted + 1
      BY <1>4, <1>5 DEF SecretInv
    <3> QED
      BY <1>3, <1>5, <3>1 DEF SecretInv
  <2>5. \A j \in Keys : keys'[j].state = "live" => keys'[j].secret \notin retired'
    <3>1. minted + 1 \notin retired
      BY <1>4, <1>6 DEF SecretInv
    <3> QED
      BY <1>2, <1>3, <1>5, <3>1 DEF SecretInv
  <2> QED
    BY <2>1, <2>2, <2>3, <2>4, <2>5 DEF SecretInv
<1>8. \A j \in Keys \ {k} : keyLog'[j] = keyLog[j]
  BY <1>2, <1>4, KeyLogType
<1>9. PICK n \in Nat : /\ DOMAIN keyLog[k] = 1..n /\ DOMAIN keyLog'[k] = 1..(n + 1)
                       /\ \A i \in 1..n : keyLog'[k][i] = keyLog[k][i]
                       /\ keyLog'[k][n + 1][1] = "create" /\ keyLog'[k][n + 1][2] = minted + 1
  BY <1>2, <1>4, Logs
<1>10. n = 0
  BY <1>2, <1>9
<1>11. DOMAIN keyLog'[k] = {1} /\ keyLog'[k][1][1] = "create" /\ keyLog'[k][1][2] = minted + 1
  BY <1>9, <1>10
<1>12. LastMade(k, 1)'
  BY <1>11 DEF LastMade, Makes
<1>13. KeyLogInv'
  <2> SUFFICES ASSUME NEW j \in Keys, keys'[j].state # "absent"
               PROVE  /\ \E i \in DOMAIN keyLog'[j] :
                            LastMade(j, i)' /\ keyLog'[j][i][2] = keys'[j].secret
                      /\ keys'[j].state = "revoked"
                            <=> \E i \in DOMAIN keyLog'[j] : keyLog'[j][i][1] = "revoke"
    BY DEF KeyLogInv
  <2>1. CASE j = k
    BY <1>3, <1>5, <1>11, <1>12, <2>1
  <2>2. CASE j # k
    BY <1>5, <1>8, <2>2, HistoryStays
  <2> QED
    BY <2>1, <2>2
<1>14. KeepsRevoked
  <2>1. keys[k].state = "absent"
    BY <1>2 DEF KeyLogInv
  <2> QED
    BY <1>5, <2>1 DEF KeepsRevoked
<1> QED
  BY <1>7, <1>13, <1>14

\* A rotation gives a new secret, a revocation takes the key for good; either is logged.
LEMMA SecretKey ==
    ASSUME TypeOK, HeldInv, SecretInv, KeyLogInv, NEW r \in Requests, CommitKey(r)
    PROVE  SecretInv' /\ KeyLogInv' /\ KeepsRevoked
<1>0. req[r].job.on \in Keys /\ req[r].job.op \in {"rotate", "revoke"} /\ req[r].copy \in KeyRows
  BY JobTypes DEF CommitKey, TypeOK, HeldInv, Held, Admitted, Reading, ReqStates, Jobs, KeyOps
<1> PICK k \in Keys, op \in {"rotate", "revoke"} : k = req[r].job.on /\ op = req[r].job.op
  BY <1>0
<1> DEFINE rotates == op = "rotate"
           instance == IF rotates THEN [req[r].copy EXCEPT !.secret = minted + 1]
                                  ELSE [req[r].copy EXCEPT !.state = "revoked"]
           fields == IF rotates THEN RotateFields ELSE RevokeFields
<1>1. k \in Keys /\ op \in {"rotate", "revoke"} /\ req[r].copy \in KeyRows
  BY <1>0
<1>2. /\ minted \in Nat /\ keys \in [Keys -> KeyRows] /\ keys[k] \in KeyRows
      /\ \A j \in Keys : keys[j].secret \in Nat
      /\ retired \subseteq Nat
  BY <1>1 DEF TypeOK, KeyRows
<1>3. /\ keys' = Saved(k, instance, fields)
      /\ minted' = IF rotates THEN minted + 1 ELSE minted
      /\ Logged(k, op, instance.secret)
      /\ retired' = retired \union {keys[k].secret}
                      \union (IF rotates /\ keys[k].state = "revoked" THEN {minted'} ELSE {})
      /\ keys[k].state # "absent"
  BY DEF CommitKey
<1>4. instance \in KeyRows /\ instance.secret \in Nat
      /\ (rotates => instance.secret = minted + 1) /\ (~rotates => instance.state = "revoked")
  BY <1>1, <1>2 DEF KeyRows
<1>5. /\ \A j \in Keys \ {k} : keys'[j] = keys[j]
      /\ keys'[k].state = IF rotates THEN keys[k].state ELSE "revoked"
      /\ keys'[k].secret = IF rotates THEN minted + 1 ELSE keys[k].secret
      /\ keys'[k].owner = keys[k].owner
  <2> HIDE DEF instance
  <2>1. \A f \in {"state", "owner", "secret"} :
           keys'[k][f] = IF f \in fields THEN instance[f] ELSE keys[k][f]
    BY <1>1, <1>3, <1>4, SavedRow
  <2>2. \A j \in Keys \ {k} : keys'[j] = keys[j]
    BY <1>1, <1>3, <1>4, SavedRow
  <2>3. fields = IF rotates THEN {"secret"} ELSE {"state"}
    BY DEF RotateFields, RevokeFields
  <2>4. keys'[k]["state"] = IF rotates THEN keys[k].state ELSE "revoked"
    BY <1>4, <2>1, <2>3
  <2>5. keys'[k]["secret"] = IF rotates THEN minted + 1 ELSE keys[k].secret
    BY <1>4, <2>1, <2>3
  <2>6. keys'[k]["owner"] = keys[k].owner
    BY <2>1, <2>3
  <2> QED
    BY <2>2, <2>4, <2>5, <2>6
<1> PICK s \in Nat : s = instance.secret
  BY <1>4
<1>6. PICK n \in Nat : /\ DOMAIN keyLog[k] = 1..n /\ DOMAIN keyLog'[k] = 1..(n + 1)
                       /\ \A i \in 1..n : keyLog'[k][i] = keyLog[k][i]
                       /\ keyLog'[k][n + 1][1] = op /\ keyLog'[k][n + 1][2] = s
  <2>1. Logged(k, op, s)
    BY <1>3
  <2>2. op \in {"create", "rotate", "revoke"}
    OBVIOUS
  <2>3. TypeOK /\ k \in Keys /\ s \in Nat
    OBVIOUS
  <2> HIDE DEF instance, fields
  <2> QED
    BY ONLY TypeOK, <2>1, <2>2, <2>3, Logs
<1>7. \A j \in Keys \ {k} : keyLog'[j] = keyLog[j]
  <2>1. Logged(k, op, s)
    BY <1>3
  <2>2. op \in {"create", "rotate", "revoke"} /\ k \in Keys /\ s \in Nat
    OBVIOUS
  <2> HIDE DEF instance, fields
  <2> QED
    BY ONLY TypeOK, <2>1, <2>2, KeyLogType
<1> HIDE DEF instance, fields
<1>8. \A j \in Keys \ {k} : keys[j].state # "absent" => keys[j].secret # keys[k].secret
  BY <1>1, <1>3 DEF SecretInv
<1>9. SecretInv'
  <2>1. minted' \in Nat /\ minted <= minted' /\ keys[k].secret <= minted
    BY <1>1, <1>2, <1>3 DEF SecretInv
  <2>2. \A t \in retired' : t <= minted'
    <3>1. \A t \in retired : t \in Nat /\ t <= minted
      BY <1>2 DEF SecretInv
    <3>2. minted \in Nat /\ keys[k].secret \in Nat
      BY <1>2
    <3> QED
      BY ONLY <1>3, <2>1, <3>1, <3>2
  <2>3. \A j \in Keys : keys'[j].state = "absent" => keys'[j] = NoKey
    <3>1. \A j \in Keys : keys[j].state = "absent" => keys[j] = NoKey
      BY DEF SecretInv
    <3>2. keys[k].state # "absent"
      BY <1>3
    <3>3. keys'[k].state # "absent"
      BY ONLY <1>5, <3>2
    <3>4. \A j \in Keys \ {k} : keys'[j] = keys[j]
      BY ONLY <1>5
    <3> QED
      BY ONLY <3>1, <3>3, <3>4
  <2>4. \A j \in Keys : keys'[j].state # "absent"
                           => keys'[j].secret <= minted' /\ keys'[j].owner \in Principals
    <3>1. ASSUME NEW j \in Keys \ {k}, keys'[j].state # "absent"
          PROVE  keys'[j].secret <= minted' /\ keys'[j].owner \in Principals
      <4>1. keys'[j] = keys[j]
        BY <1>5, <3>1
      <4>2. keys[j].secret <= minted /\ keys[j].owner \in Principals /\ keys[j].secret \in Nat
        BY <1>2, <3>1, <4>1 DEF SecretInv
      <4> QED
        BY <1>2, <2>1, <4>1, <4>2
    <3>2. keys'[k].secret <= minted' /\ keys'[k].owner \in Principals
      <4>1. keys[k].owner \in Principals
        BY <1>1, <1>3 DEF SecretInv
      <4>2. minted' = IF rotates THEN minted + 1 ELSE minted
        BY <1>3
      <4>3. keys'[k].secret = (IF rotates THEN minted + 1 ELSE keys[k].secret)
            /\ keys'[k].owner = keys[k].owner /\ keys[k].secret \in Nat /\ minted \in Nat
        BY <1>2, <1>5
      <4> QED
        BY ONLY <2>1, <4>1, <4>2, <4>3
    <3> QED
      BY <3>1, <3>2
  <2>5. \A j \in Keys \ {k} : keys[j].state # "absent" => keys[j].secret # minted + 1
    BY <1>2 DEF SecretInv
  <2>6. \A i, j \in Keys : keys'[i].state # "absent" /\ keys'[j].state # "absent"
                              /\ keys'[i].secret = keys'[j].secret => i = j
    BY <1>5, <1>8, <2>5 DEF SecretInv
  <2>7. ASSUME NEW j \in Keys, keys'[j].state = "live"
        PROVE  keys'[j].secret \notin retired'
    <3>1. minted + 1 \notin retired
      BY <1>2 DEF SecretInv
    <3>2. CASE j = k
      <4>1. rotates /\ keys[k].state = "live" /\ keys'[k].secret = minted + 1
        BY <1>5, <2>7, <3>2
      <4>2. retired' = retired \union {keys[k].secret}
        BY <1>3, <4>1
      <4> QED
        BY <1>2, <2>1, <3>1, <3>2, <4>1, <4>2
    <3>3. CASE j # k
      <4>1. keys'[j] = keys[j] /\ keys[j].state = "live"
        BY <1>5, <2>7, <3>3
      <4>2. keys[j].secret \notin retired /\ keys[j].secret # keys[k].secret
            /\ keys[j].secret # minted + 1
        BY <1>8, <2>5, <3>3, <4>1 DEF SecretInv
      <4> QED
        BY <1>3, <4>1, <4>2
    <3> QED
      BY <3>2, <3>3
  <2> QED
    BY <2>2, <2>3, <2>4, <2>6, <2>7 DEF SecretInv
<1>10. KeyLogInv'
  <2> SUFFICES ASSUME NEW j \in Keys, keys'[j].state # "absent"
               PROVE  /\ \E i \in DOMAIN keyLog'[j] :
                            LastMade(j, i)' /\ keyLog'[j][i][2] = keys'[j].secret
                      /\ keys'[j].state = "revoked"
                            <=> \E i \in DOMAIN keyLog'[j] : keyLog'[j][i][1] = "revoke"
    BY DEF KeyLogInv
  <2>1. CASE j # k
    BY <1>5, <1>7, <2>1, HistoryStays
  <2>2. CASE j = k /\ rotates
    <3>1. LastMade(k, n + 1)'
      BY <1>6, <2>2 DEF LastMade, Makes
    <3>2. keyLog'[k][n + 1][2] = keys'[k].secret
      BY <1>4, <1>5, <1>6, <2>2
    <3>3. keys'[k].state = keys[k].state
      BY <1>5, <2>2
    <3>4. (\E i \in DOMAIN keyLog'[k] : keyLog'[k][i][1] = "revoke")
             <=> \E i \in DOMAIN keyLog[k] : keyLog[k][i][1] = "revoke"
      <4>1. keyLog'[k][n + 1][1] # "revoke"
        BY <1>6, <2>2
      <4>2. ASSUME NEW i \in 1..(n + 1), keyLog'[k][i][1] = "revoke"
            PROVE  i \in 1..n
        BY <4>1, <4>2
      <4>3. 1..n \subseteq 1..(n + 1)
        OBVIOUS
      <4> QED
        BY <1>6, <4>2, <4>3
    <3>5. n + 1 \in DOMAIN keyLog'[k]
      BY <1>6
    <3> QED
      BY <1>1, <1>3, <2>2, <3>1, <3>2, <3>3, <3>4, <3>5 DEF KeyLogInv
  <2>3. CASE j = k /\ ~rotates
    <3>1. PICK i \in DOMAIN keyLog[k] : LastMade(k, i) /\ keyLog[k][i][2] = keys[k].secret
      BY <1>1, <1>3 DEF KeyLogInv
    <3>2. op = "revoke"
      BY <1>1, <2>3
    <3>3. LastMade(k, i)'
      <4>1. i \in 1..n /\ keyLog'[k][i] = keyLog[k][i] /\ Makes(keyLog[k][i])
        BY <1>6, <3>1 DEF LastMade
      <4>2. ~Makes(keyLog'[k][n + 1])
        BY <1>6, <3>2 DEF Makes
      <4>3. ASSUME NEW d \in 1..(n + 1), Makes(keyLog'[k][d])
            PROVE  d <= i
        <5>1. d \in 1..n
          BY <4>2, <4>3
        <5> QED
          BY <1>6, <3>1, <4>3, <5>1 DEF LastMade
      <4>4. i \in DOMAIN keyLog'[k] /\ Makes(keyLog'[k][i]) /\ DOMAIN keyLog'[k] = 1..(n + 1)
        BY <1>6, <4>1
      <4> QED
        BY ONLY <4>3, <4>4 DEF LastMade, Makes
    <3>4. i \in DOMAIN keyLog'[k] /\ keyLog'[k][i][2] = keys'[k].secret
      <4>1. i \in 1..n /\ keyLog[k][i][2] = keys[k].secret /\ keys'[k].secret = keys[k].secret
        BY <1>5, <1>6, <2>3, <3>1 DEF LastMade
      <4>2. keyLog'[k][i] = keyLog[k][i] /\ i \in 1..(n + 1)
        BY <1>6, <4>1
      <4>3. DOMAIN keyLog'[k] = 1..(n + 1)
        BY <1>6
      <4> QED
        BY ONLY <4>1, <4>2, <4>3
    <3>5. keys'[k].state = "revoked" /\ n + 1 \in DOMAIN keyLog'[k]
      BY <1>5, <1>6, <2>3
    <3> QED
      BY <1>6, <2>3, <3>2, <3>3, <3>4, <3>5
  <2> QED
    BY <2>1, <2>2, <2>3
<1>11. KeepsRevoked
  BY <1>5 DEF KeepsRevoked
<1> QED
  BY <1>9, <1>10, <1>11

\* So it is with every step.
LEMMA SecretStep ==
    ASSUME TypeOK, HeldInv, SecretInv, KeyLogInv, NEW r \in Requests, Step(r)
    PROVE  SecretInv' /\ KeyLogInv' /\ KeepsRevoked
<1>1. \/ CommitDelete(r) \/ CommitKey(r) \/ (\E k \in Keys : CommitIssue(r, k))
      \/ UNCHANGED <<keys, minted, keyLog, retired>>
  BY UseKeeps
     DEF Step, Login, FindKey, SaveUse, Permit, Refuse, Answer, LoadNothing, LoadKey,
         LoadPrincipal, CheckTarget, CheckFields, CommitPatch, CommitIdentity, CommitRole,
         CommitNew, RollBack, AuditUpdate, Kill
<1>2. ASSUME UNCHANGED <<keys, minted, keyLog, retired>> PROVE KeepsRevoked
  BY <1>2 DEF KeepsRevoked
<1> QED
  BY <1>1, <1>2, SecretDelete, SecretKey, SecretIssue, SecretQuiet

-----------------------------------------------------------------------------
(* Whose step it is, and what it leaves to the others.                     *)

\* A step is of one request, which has not ended; it sets the history variables.
LEMMA StepOfOne ==
    ASSUME TypeOK, NEW r \in Requests, Step(r)
    PROVE  /\ \A s \in Requests \ {r} : req'[s] = req[s]
           /\ req[r].pc # "done"
           /\ Observe
<1>1. \A s \in Requests \ {r} : req'[s] = req[s]
  <2>1. req \in [Requests -> ReqStates]
    BY DEF TypeOK
  <2>2. \A to : Goes(r, to) => \A s \in Requests \ {r} : req'[s] = req[s]
    BY <2>1 DEF Goes
  <2>3. \A did : Ends(r, did) => \A s \in Requests \ {r} : req'[s] = req[s]
    BY <2>1 DEF Ends
  <2>4. CASE \/ \E u \in Users : Login(r, u)
             \/ \E k \in Keys : FindKey(r, k)
             \/ Permit(r) \/ SaveUse(r) \/ Refuse(r) \/ Answer(r)
    BY <2>1, <2>3, <2>4 DEF Login, FindKey, Permit, SaveUse, Refuse, Answer
  <2>5. CASE \/ LoadNothing(r) \/ LoadKey(r) \/ LoadPrincipal(r) \/ CheckTarget(r)
             \/ CheckFields(r)
    BY <2>1, <2>2, <2>3, <2>5 DEF LoadNothing, LoadKey, LoadPrincipal, CheckTarget, CheckFields
  <2>6. CASE CommitPatch(r) \/ CommitIdentity(r) \/ CommitRole(r) \/ CommitNew(r)
    BY <2>1, <2>3, <2>6 DEF CommitPatch, CommitIdentity, CommitRole, CommitNew
  <2>7. CASE \/ CommitDelete(r) \/ CommitKey(r) \/ RollBack(r)
             \/ \E k \in Keys : CommitIssue(r, k)
             \/ AuditUpdate(r) \/ Kill(r)
    BY <2>3, <2>7 DEF CommitDelete, CommitKey, RollBack, CommitIssue, AuditUpdate, Kill
  <2> QED
    BY <2>4, <2>5, <2>6, <2>7 DEF Step
<1>2. req[r].pc # "done" /\ Observe
  BY DEF Step, Login, FindKey, Permit, SaveUse, Refuse, Answer, LoadNothing, LoadKey,
         LoadPrincipal, CheckTarget, CheckFields, CommitPatch, CommitIdentity, CommitRole,
         CommitNew, CommitDelete, CommitKey, RollBack, CommitIssue, AuditUpdate, Kill
<1> QED
  BY <1>1, <1>2

\* Who is remembered stays remembered while it is busy.
LEMMA Remembered ==
    ASSUME TypeOK, Observe, NEW s \in Requests, s \in Busy
    PROVE  /\ s \in wasAdmin => s \in wasAdmin'
           /\ \A p \in Principals : state'[p] # "active" /\ (state[p] # "active" => s \in older[p])
                                       => s \in older'[p]
<1>1. s \in wasAdmin => s \in wasAdmin'
  BY DEF Observe
<1>2. ASSUME NEW p \in Principals, state'[p] # "active", state[p] # "active" => s \in older[p]
      PROVE  s \in older'[p]
  <2>1. older'[p] = IF state[p] = "active" /\ state'[p] # "active" THEN Busy
                                                                   ELSE older[p] \intersect Busy
    BY DEF Observe
  <2> QED
    BY <1>2, <2>1
<1> QED
  BY <1>1, <1>2

\* A caller who passes a check for administrators is one when the check is made.
LEMMA CheckedAdmin ==
    ASSUME TypeOK, HeldInv, Observe, NEW r \in Requests, req[r].pc \notin {"new", "done"},
           HasPermission(r, "administer"), grant' = ProfileMade(r),
           req'[r].caller = req[r].caller, req'[r].pc \notin {"new", "done"}
    PROVE  r \in wasAdmin'
<1> DEFINE c == req[r].caller
<1>1. c.who \in Users \union Identities
  BY DEF HeldInv, Held
<1>2. r \in Busy'
  BY DEF Busy
<1>3. CASE c.who \in Identities
  <2>1. "administer" \in RolePermissions[c.grant]
    BY <1>3 DEF HasPermission, Role
  <2>2. c.who \notin Users
    BY <1>3
  <2>3. Administers(req[r].caller)'
    BY <1>3, <2>1, <2>2 DEF Administers
  <2> QED
    BY <1>2, <2>3 DEF Observe
<1>4. CASE c.who \in Users
  <2>1. c.who \notin Identities
    BY <1>4
  <2>2. grant[c.who] # "none"
    BY <1>4, <2>1 DEF HasPermission, Role, RolePermissions
  <2>3. Role(r) = grant[c.who] /\ "administer" \in RolePermissions[grant[c.who]]
    BY <2>1, <2>2 DEF HasPermission, Role
  <2>4. grant'[c.who] = grant[c.who]
    BY <1>4, <2>2, <2>3 DEF ProfileMade, TypeOK
  <2>5. Administers(req[r].caller)'
    BY <1>4, <2>2, <2>3, <2>4 DEF Administers
  <2> QED
    BY <1>2, <2>5 DEF Observe
<1> QED
  BY <1>1, <1>3, <1>4

-----------------------------------------------------------------------------
(* Administrators.                                                         *)

\* The operations of those who are no administrators.
LEMMA ViewOps ==
    ASSUME NEW op \in AllOps, Needed(op) = "view"
    PROVE  op \in {"use", "patchMe", "patchUser"}
  BY DEF Needed

\* The step of a request that is not remembered leaves it unprivileged, or remembers it.
LEMMA AuthorityOwn ==
    ASSUME TypeOK, HeldInv, NEW r \in Requests, Step(r), Unprivileged(req[r])
    PROVE  r \in wasAdmin' \/ Unprivileged(req'[r])
<1> DEFINE op == req[r].job.op
<1>1. Observe
  BY StepOfOne
<1>2. req[r] \in ReqStates /\ Held(req[r]) /\ req \in [Requests -> ReqStates]
  BY DEF TypeOK, HeldInv
<1>3. op \in AllOps
  BY <1>2 DEF ReqStates, Jobs
<1>4. req[r].pc \in Admitted => op \in {"use", "patchMe", "patchUser"}
  BY <1>3, ViewOps DEF Unprivileged
<1>5. ASSUME req'[r].pc \in {"found", "known", "done"}
      PROVE  Unprivileged(req'[r])
  BY <1>5 DEF Unprivileged, Admitted
<1>6. CASE \/ \E u \in Users : Login(r, u)
           \/ \E k \in Keys : FindKey(r, k)
           \/ SaveUse(r) \/ Refuse(r) \/ Answer(r) \/ Kill(r) \/ AuditUpdate(r)
           \/ CommitIdentity(r) \/ CommitDelete(r) \/ CommitKey(r) \/ RollBack(r)
           \/ \E k \in Keys : CommitIssue(r, k)
  <2>1. req'[r].pc \in {"found", "known", "done"}
    <3>1. \A did : Ends(r, did) => req'[r].pc = "done"
      BY <1>2 DEF Ends, NewReq
    <3>2. CASE (\E u \in Users : Login(r, u)) \/ (\E k \in Keys : FindKey(r, k))
      <4>1. ASSUME NEW u \in Users, Login(r, u) PROVE req'[r].pc = "known"
        BY <1>2, <4>1 DEF Login, ReqStates
      <4>2. ASSUME NEW k \in Keys, FindKey(r, k) PROVE req'[r].pc = "found"
        BY <1>2, <4>2 DEF FindKey, ReqStates
      <4> QED
        BY <3>2, <4>1, <4>2
    <3>3. CASE SaveUse(r)
      BY <1>2, <3>1, <3>3 DEF SaveUse, ReqStates
    <3>4. CASE \/ Refuse(r) \/ Answer(r) \/ Kill(r) \/ AuditUpdate(r)
               \/ CommitIdentity(r) \/ CommitDelete(r) \/ CommitKey(r) \/ RollBack(r)
               \/ \E k \in Keys : CommitIssue(r, k)
      BY <3>1, <3>4 DEF Refuse, Answer, Kill, AuditUpdate, CommitIdentity, CommitDelete,
                        CommitKey, RollBack, CommitIssue
    <3> QED
      BY <1>6, <3>2, <3>3, <3>4
  <2> QED
    BY <1>5, <2>1
<1>7. CASE Permit(r)
  <2>1. PICK o \in Ops : /\ HasPermission(r, Needed(o))
                         /\ \E j \in JobSet(o) : Fits(j, r) /\
                               req' = [req EXCEPT ![r].pc = "permitted", ![r].job = j]
    BY <1>7 DEF Permit
  <2>2. PICK j \in JobSet(o) : req' = [req EXCEPT ![r].pc = "permitted", ![r].job = j]
    BY <2>1
  <2>3. j.op = o
    BY JobTypes
  <2>4. req'[r].pc = "permitted" /\ req'[r].job = j /\ req'[r].caller = req[r].caller
    BY <1>2, <2>2 DEF ReqStates
  <2>5. CASE Needed(o) = "view"
    BY <2>3, <2>4, <2>5 DEF Unprivileged
  <2>6. CASE Needed(o) = "administer"
    <3>1. req[r].pc = "known" /\ grant' = ProfileMade(r)
      BY <1>7 DEF Permit
    <3> QED
      BY <1>1, <2>1, <2>4, <2>6, <3>1, CheckedAdmin
  <2> QED
    BY <2>5, <2>6 DEF Needed
<1>8. CASE LoadNothing(r) \/ LoadKey(r)
  BY <1>4, <1>8 DEF LoadNothing, LoadKey, NewRowOps, KeyOps, Admitted
<1>9. CASE LoadPrincipal(r)
  <2>1. CASE Ends(r, {})
    BY <1>2, <1>5, <2>1 DEF Ends, NewReq
  <2>2. CASE ~Ends(r, {})
    <3>1. op \in {"patchMe", "patchUser"}
      BY <1>4, <1>9 DEF LoadPrincipal, Admitted, PatchOps
    <3>2. req'[r].job = req[r].job /\ req'[r].caller = req[r].caller
      BY <1>2, <1>9, <2>2 DEF LoadPrincipal, ReqStates
    <3>3. op = "patchUser" => req'[r].pc = "loaded"
      BY <1>2, <1>9, <2>2 DEF LoadPrincipal, ReqStates
    <3>4. op = "patchMe" => req'[r].pc = "addressed"
      BY <1>2, <1>9, <2>2 DEF LoadPrincipal, ReqStates
    <3> QED
      BY <3>1, <3>2, <3>3, <3>4 DEF Unprivileged, Needed
  <2> QED
    BY <2>1, <2>2
<1>10. CASE CheckTarget(r)
  <2>1. CASE Ends(r, {})
    BY <1>2, <1>5, <2>1 DEF Ends, NewReq
  <2>2. CASE ~Ends(r, {})
    <3>1. req[r].pc = "loaded" /\ MayTarget(r) /\ Goes(r, "addressed") /\ grant' = ProfileMade(r)
      BY <1>10, <2>2 DEF CheckTarget
    <3>2. req'[r].pc = "addressed" /\ req'[r].job = req[r].job /\ req'[r].caller = req[r].caller
      BY <1>2, <3>1 DEF Goes, ReqStates
    <3>3. CASE HasPermission(r, "administer")
      BY <1>1, <3>1, <3>2, <3>3, CheckedAdmin
    <3>4. CASE req[r].job.on = req[r].caller.who
      BY <1>4, <3>1, <3>2, <3>4 DEF Unprivileged, Admitted, Needed
    <3> QED
      BY <3>1, <3>3, <3>4 DEF MayTarget
  <2> QED
    BY <2>1, <2>2
<1>11. CASE CheckFields(r)
  <2>1. CASE Ends(r, {})
    BY <1>2, <1>5, <2>1 DEF Ends, NewReq
  <2>2. CASE ~Ends(r, {})
    <3>1. /\ req[r].pc = "addressed" /\ op # "adminPatchUser" /\ grant' = ProfileMade(r)
          /\ req[r].job.set = Keep \/ MaySetAll(r)
      BY <1>4, <1>11, <2>2 DEF CheckFields, Admitted
    <3>2. req'[r].pc = "vetted" /\ req'[r].job = req[r].job /\ req'[r].caller = req[r].caller
      BY <1>2, <1>11, <2>2 DEF CheckFields, ReqStates
    <3>3. CASE HasPermission(r, "administer")
      BY <1>1, <3>1, <3>2, <3>3, CheckedAdmin
    <3>4. CASE req[r].job.set = Keep
      BY <3>1, <3>2, <3>4 DEF Unprivileged, Admitted
    <3> QED
      BY <3>1, <3>3, <3>4 DEF MaySetAll
  <2> QED
    BY <2>1, <2>2
<1>12. CASE CommitPatch(r)
  <2>1. req'[r].pc = "committed" /\ req'[r].job = req[r].job /\ req[r].pc = "vetted"
    BY <1>2, <1>12 DEF CommitPatch, ReqStates
  <2> QED
    BY <2>1 DEF Unprivileged, Admitted
<1>13. CASE CommitRole(r) \/ CommitNew(r)
  BY <1>4, <1>13 DEF CommitRole, CommitNew, NewRowOps, Admitted
<1> QED
  BY <1>6, <1>7, <1>8, <1>9, <1>10, <1>11, <1>12, <1>13 DEF Step

\* Every request is remembered or unprivileged.
LEMMA AuthorityStep ==
    ASSUME TypeOK, HeldInv, AuthorityInv, NEW r \in Requests, Step(r)
    PROVE  AuthorityInv'
<1>1. \A s \in Requests : s \in wasAdmin \/ Unprivileged(req[s])
  BY DEF AuthorityInv
<1>2. \A s \in Requests \ Busy : Unprivileged(req[s])
  BY DEF Busy, Unprivileged, Admitted
<1>3. ASSUME NEW s \in Requests
      PROVE  s \in wasAdmin' \/ Unprivileged(req'[s])
  <2>1. CASE Unprivileged(req[s]) /\ s # r
    BY <2>1, StepOfOne
  <2>2. CASE Unprivileged(req[s]) /\ s = r
    BY <2>2, AuthorityOwn
  <2>3. CASE s \in wasAdmin /\ s \in Busy
    BY <2>3, StepOfOne, Remembered
  <2> QED
    BY <1>1, <1>2, <2>1, <2>2, <2>3
<1> QED
  BY <1>3 DEF AuthorityInv

\* Who writes more than its own caller's row is remembered as an administrator.
LEMMA AuthorityHolds ==
    ASSUME TypeOK, HeldInv, AuthorityInv, NEW t \in Requests, Step(t),
           NEW r \in Requests, Writes(r),
           \/ keys' # keys \/ grant' # grant
           \/ \E p \in Principals \ {req[r].caller.who} : state'[p] # state[p]
    PROVE  r \in wasAdmin
<1>1. r = t
  BY StepOfOne DEF Writes
<1>2. SUFFICES ASSUME Unprivileged(req[r])
               PROVE  keys' = keys /\ grant' = grant
                      /\ \A p \in Principals \ {req[r].caller.who} : state'[p] = state[p]
  BY DEF AuthorityInv
<1> DEFINE j == req[r].job
<1>3. req[r] \in ReqStates /\ Held(req[r]) /\ req \in [Requests -> ReqStates]
  BY DEF TypeOK, HeldInv
<1>4. j.op \in {"use", "patchMe", "patchUser"} /\ req[r].pc = "vetted"
  BY <1>2, <1>3, ViewOps DEF ReqStates, Jobs, Unprivileged, Admitted, Writes
<1>5. CASE CommitPatch(r)
  <2>1. j.op \in {"patchMe", "patchUser"}
    BY <1>4, <1>5 DEF CommitPatch, PatchOps
  <2>2. j.set = Keep /\ j.on = req[r].caller.who
    BY <1>2, <1>3, <1>4, <2>1 DEF Unprivileged, Held, Admitted, PatchOps
  <2>3. keys' = keys /\ state' = [state EXCEPT ![j.on] = SavedState(r)]
        /\ grant' = [grant EXCEPT ![j.on] = grant[j.on]]
    BY <1>5, <2>2 DEF CommitPatch, Keep
  <2>4. grant' = grant
    BY <2>3 DEF TypeOK
  <2>5. \A p \in Principals \ {j.on} : state'[p] = state[p]
    BY <2>3 DEF TypeOK
  <2> QED
    BY <2>2, <2>3, <2>4, <2>5
<1>6. CASE RollBack(r) \/ Kill(r)
  BY <1>6 DEF RollBack, Kill
<1>7. CASE ~(CommitPatch(r) \/ RollBack(r) \/ Kill(r))
  <2>1. \/ CommitIdentity(r) \/ CommitRole(r) \/ CommitNew(r) \/ CommitDelete(r) \/ CommitKey(r)
        \/ \E k \in Keys : CommitIssue(r, k)
    BY <1>1, <1>4, <1>7
       DEF Step, Login, FindKey, Permit, SaveUse, Refuse, Answer, LoadNothing, LoadKey,
           LoadPrincipal, CheckTarget, CheckFields, AuditUpdate
  <2> QED
    BY <1>4, <2>1
       DEF CommitIdentity, CommitRole, CommitNew, CommitDelete, CommitKey, CommitIssue, KeyOps,
           NewRowOps
<1> QED
  BY <1>5, <1>6, <1>7

-----------------------------------------------------------------------------
(* Deactivations.                                                          *)

\* Who saves all columns has a copy of a principal's row.
LEMMA CopyOf ==
    ASSUME TypeOK, HeldInv, NEW s \in Requests, req[s].pc \in Reading, req[s].job.op \in SavesAll
    PROVE  req[s].copy.who \in Principals /\ req[s].copy.who = req[s].job.on
<1>1. Held(req[s]) /\ req[s].pc \in Admitted /\ req[s].job.op \in AllOps
  BY DEF TypeOK, HeldInv, ReqStates, Jobs, Admitted, Reading
<1>2. req[s].job \in JobSet(req[s].job.op) /\ req[s].copy.who = req[s].job.on
  BY <1>1 DEF Held
<1> QED
  BY <1>1, <1>2, JobTypes DEF SavesAll

\* A request that holds what it held, and was busy, is as old as it must be.
LEMMA OlderStays ==
    ASSUME TypeOK, HeldInv, OlderInv, Observe, NEW s \in Requests, s \in Busy
    PROVE  /\ Stale(req[s].caller)' /\ req'[s].caller = req[s].caller
                => s \in older'[req'[s].caller.who]
           /\ req[s].pc \in Reading /\ req[s].job.op \in SavesAll
                /\ Stale(req[s].copy)' /\ req'[s].copy = req[s].copy
                => s \in older'[req'[s].copy.who]
<1>1. req[s].caller.who \in Principals
  BY DEF HeldInv, Held, Busy
<1>2. ASSUME Stale(req[s].caller)', req'[s].caller = req[s].caller
      PROVE  s \in older'[req'[s].caller.who]
  <2>1. req[s].caller.state = "active" /\ state'[req[s].caller.who] # "active"
    BY <1>2 DEF Stale
  <2>2. state[req[s].caller.who] # "active" => s \in older[req[s].caller.who]
    BY <2>1 DEF OlderInv, Stale, Busy
  <2> QED
    BY <1>1, <1>2, <2>1, <2>2, Remembered
<1>3. ASSUME req[s].pc \in Reading, req[s].job.op \in SavesAll,
             Stale(req[s].copy)', req'[s].copy = req[s].copy
      PROVE  s \in older'[req'[s].copy.who]
  <2>1. req[s].copy.state = "active" /\ state'[req[s].copy.who] # "active"
    BY <1>3 DEF Stale
  <2>2. state[req[s].copy.who] # "active" => s \in older[req[s].copy.who]
    BY <1>3, <2>1 DEF OlderInv, Stale
  <2>3. req[s].copy.who \in Principals
    BY <1>3, CopyOf
  <2> QED
    BY <1>3, <2>1, <2>2, <2>3, Remembered
<1> QED
  BY <1>2, <1>3

\* Whoever holds an active copy of a row that is not active was there at the time.
AsOld(s) ==
    /\ req[s].pc \notin {"new", "done"} /\ Stale(req[s].caller) => s \in older[req[s].caller.who]
    /\ req[s].pc \in Reading /\ req[s].job.op \in SavesAll /\ Stale(req[s].copy)
          => s \in older[req[s].copy.who]

\* The step of a request keeps this for the request ...
LEMMA OlderOwn ==
    ASSUME TypeOK, HeldInv, OlderInv, NEW r \in Requests, Step(r)
    PROVE  AsOld(r)'
<1> DEFINE j == req[r].job
<1>1. Observe /\ req[r].pc # "done"
  BY StepOfOne
<1>2. req[r] \in ReqStates /\ Held(req[r]) /\ req \in [Requests -> ReqStates]
  BY DEF TypeOK, HeldInv
<1>3. \A did : Ends(r, did) => AsOld(r)'
  <2>1. \A did : Ends(r, did) => req'[r].pc = "done"
    BY <1>2 DEF Ends, NewReq
  <2> QED
    BY <2>1 DEF AsOld, Reading
<1>4. ASSUME NEW u \in Users, Login(r, u)
      PROVE  AsOld(r)'
  <2>1. req'[r].pc = "known" /\ req'[r].caller = Read(u)
    BY <1>2, <1>4 DEF Login, ReqStates
  <2>2. Read(u).who = u /\ state'[u] = "active"
    BY <1>4 DEF Login, Read
  <2> QED
    BY <2>1, <2>2 DEF AsOld, Reading, Stale
<1>5. ASSUME NEW k \in Keys, FindKey(r, k)
      PROVE  AsOld(r)'
  <2>1. req'[r].pc = "found" /\ req'[r].caller = Read(keys[k].owner)
    BY <1>2, <1>5 DEF FindKey, ReqStates
  <2>2. Read(keys[k].owner).who = keys[k].owner /\ state'[keys[k].owner] = "active"
    BY <1>5 DEF FindKey, Read
  <2> QED
    BY <2>1, <2>2 DEF AsOld, Reading, Stale
<1>6. ASSUME r \in Busy, req'[r].caller = req[r].caller, req'[r].pc \notin Reading
      PROVE  AsOld(r)'
  BY <1>1, <1>6, OlderStays DEF AsOld, Stale
<1>7. ASSUME req[r].pc \in Reading, req'[r].job = j, req'[r].caller = req[r].caller,
             req'[r].copy = req[r].copy
      PROVE  AsOld(r)'
  <2>1. r \in Busy
    BY <1>7 DEF Busy, Reading
  <2> QED
    BY <1>1, <1>7, <2>1, OlderStays DEF AsOld, Stale
<1>8. CASE SaveUse(r) \/ Permit(r)
  <2>1. r \in Busy
    BY <1>8 DEF SaveUse, Permit, Busy
  <2>2. SaveUse(r) /\ ~Ends(r, {}) => req'[r].caller = req[r].caller /\ req'[r].pc \notin Reading
    BY <1>2 DEF SaveUse, ReqStates, Reading
  <2>3. Permit(r) => req'[r].caller = req[r].caller /\ req'[r].pc \notin Reading
    BY <1>2 DEF Permit, ReqStates, Reading
  <2> QED
    BY <1>3, <1>6, <1>8, <2>1, <2>2, <2>3
<1>9. ASSUME r \in Busy, req'[r].job = j, req'[r].caller = req[r].caller, j.op \notin SavesAll
      PROVE  AsOld(r)'
  BY <1>1, <1>9, OlderStays DEF AsOld, Stale
<1>10. CASE LoadNothing(r) \/ LoadKey(r)
  <2>1. r \in Busy /\ j.op \notin SavesAll
    BY <1>10 DEF LoadNothing, LoadKey, Busy, NewRowOps, KeyOps, SavesAll, PatchOps
  <2>2. ~Ends(r, {}) => req'[r].job = j /\ req'[r].caller = req[r].caller
    BY <1>2, <1>10 DEF LoadNothing, LoadKey, Goes, ReqStates
  <2> QED
    BY <1>3, <1>9, <2>1, <2>2
<1>11. CASE LoadPrincipal(r) /\ ~Ends(r, {})
  <2>1. r \in Busy /\ UNCHANGED state
    BY <1>11 DEF LoadPrincipal, Busy
  <2>2. /\ req'[r].job = j /\ req'[r].caller = req[r].caller
        /\ req'[r].copy = IF j.op = "patchMe" THEN req[r].caller ELSE Read(j.on)
    BY <1>2, <1>11 DEF LoadPrincipal, ReqStates
  <2>3. CASE j.op = "patchMe"
    <3>1. Stale(req[r].caller)' => r \in older'[req'[r].caller.who]
      BY <1>1, <2>1, <2>2, OlderStays DEF Stale
    <3> QED
      BY <2>2, <2>3, <3>1 DEF AsOld, Stale
  <2>4. CASE j.op # "patchMe"
    <3>1. ~(Stale(req[r].copy)')
      BY <2>1, <2>2, <2>4 DEF Stale, Read
    <3>2. Stale(req[r].caller)' => r \in older'[req'[r].caller.who]
      BY <1>1, <2>1, <2>2, OlderStays DEF Stale
    <3> QED
      BY <3>1, <3>2 DEF AsOld
  <2> QED
    BY <2>3, <2>4
<1>12. CASE (CheckTarget(r) \/ CheckFields(r)) /\ ~Ends(r, {})
  <2>1. req[r].pc \in Reading
    BY <1>12 DEF CheckTarget, CheckFields, Reading
  <2>2. req'[r].job = j /\ req'[r].caller = req[r].caller /\ req'[r].copy = req[r].copy
    BY <1>2, <1>12 DEF CheckTarget, CheckFields, Goes, ReqStates
  <2> QED
    BY <1>7, <2>1, <2>2
<1>13. CASE (CommitPatch(r) \/ CommitRole(r) \/ CommitNew(r)) /\ ~Ends(r, {})
  <2>1. r \in Busy
    BY <1>13 DEF CommitPatch, CommitRole, CommitNew, Busy
  <2>2. req'[r].caller = req[r].caller /\ req'[r].pc = "committed"
    BY <1>2, <1>13 DEF CommitPatch, CommitRole, CommitNew, ReqStates
  <2> QED
    BY <1>6, <2>1, <2>2 DEF Reading
<1>14. CASE \/ Refuse(r) \/ Answer(r) \/ Kill(r) \/ AuditUpdate(r)
            \/ CommitIdentity(r) \/ CommitDelete(r) \/ CommitKey(r) \/ RollBack(r)
            \/ \E k \in Keys : CommitIssue(r, k)
  BY <1>3, <1>14 DEF Refuse, Answer, Kill, AuditUpdate, CommitIdentity, CommitDelete,
                     CommitKey, RollBack, CommitIssue
<1> QED
  BY <1>3, <1>4, <1>5, <1>8, <1>10, <1>11, <1>12, <1>13, <1>14 DEF Step

\* ... and for all others.
LEMMA OlderStep ==
    ASSUME TypeOK, HeldInv, OlderInv, NEW r \in Requests, Step(r)
    PROVE  OlderInv'
<1>1. ASSUME NEW s \in Requests
      PROVE  AsOld(s)'
  <2>1. CASE s = r
    BY <2>1, OlderOwn
  <2>2. CASE s # r
    <3>1. Observe /\ req'[s] = req[s]
      BY <2>2, StepOfOne
    <3>2. CASE s \in Busy
      BY <3>1, <3>2, OlderStays DEF AsOld, Stale
    <3>3. CASE s \notin Busy
      BY <3>1, <3>3 DEF AsOld, Busy, Reading
    <3> QED
      BY <3>2, <3>3
  <2> QED
    BY <2>1, <2>2
<1> QED
  BY <1>1 DEF OlderInv, AsOld

\* A row becomes active again by a request that says so or is as old as the deactivation.
LEMMA ActiveAgain ==
    ASSUME TypeOK, HeldInv, OlderInv, NEW t \in Requests, Step(t),
           NEW r \in Requests, Writes(r), NEW p \in Principals,
           state[p] # "active", state'[p] = "active"
    PROVE  req[r].job.set.active = "active" \/ r \in older[p]
<1> DEFINE j == req[r].job
<1>1. r = t
  BY StepOfOne DEF Writes
<1>2. req[r].pc = "vetted" /\ Held(req[r]) /\ j.op \in AllOps
  BY DEF Writes, TypeOK, HeldInv, ReqStates, Jobs
<1>3. state \in [Principals -> States]
  BY DEF TypeOK
<1>4. CASE CommitPatch(r) \/ CommitIdentity(r)
  <2>1. j.op \in SavesAll /\ state' = [state EXCEPT ![j.on] = SavedState(r)]
    BY <1>4 DEF CommitPatch, CommitIdentity, SavesAll
  <2>2. p = j.on /\ SavedState(r) = "active"
    BY <1>3, <2>1
  <2>3. CASE j.set.active = "keep"
    <3>1. req[r].copy.state = "active" /\ req[r].copy.who = p
      BY <1>2, <2>1, <2>2, <2>3, CopyOf DEF SavedState, Reading
    <3> QED
      BY <1>2, <2>1, <3>1 DEF OlderInv, Stale, Reading
  <2>4. CASE j.set.active # "keep"
    BY <2>2, <2>4 DEF SavedState
  <2> QED
    BY <2>3, <2>4
<1>5. CASE CommitNew(r)
  <2>1. j.op \in NewRowOps /\ j \in JobSet(j.op)
    BY <1>2, <1>5 DEF CommitNew, Held, Admitted
  <2> QED
    BY <1>2, <2>1, JobTypes
<1>6. CASE CommitDelete(r)
  <2>1. state' = [state EXCEPT ![j.on] = "absent"]
    BY <1>6 DEF CommitDelete
  <2> QED
    BY <1>3, <2>1
<1>7. CASE ~(CommitPatch(r) \/ CommitIdentity(r) \/ CommitNew(r) \/ CommitDelete(r))
  <2>1. UNCHANGED state
    BY <1>1, <1>7
       DEF Step, Login, FindKey, Permit, SaveUse, Refuse, Answer, LoadNothing, LoadKey,
           LoadPrincipal, CheckTarget, CheckFields, CommitRole, CommitKey, CommitIssue, RollBack,
           AuditUpdate, Kill
  <2> QED
    BY <2>1
<1> QED
  BY <1>4, <1>5, <1>6, <1>7

-----------------------------------------------------------------------------
(* The theorems.                                                           *)

\* The inductive invariant.
Inv == TypeOK /\ AccessInv

\* It holds at the start.
LEMMA InvInit == Init => Inv
<1> SUFFICES ASSUME Init PROVE Inv
  OBVIOUS
<1>1. TypeOK /\ HeldInv
  BY TypeInit
<1>2. SecretInv /\ KeyLogInv
  BY SecretInit
<1>3. AuthorityInv /\ OlderInv
  BY DEF Init, NewReq, AuthorityInv, Unprivileged, OlderInv, Admitted, Reading
<1> QED
  BY <1>1, <1>2, <1>3 DEF Inv, AccessInv

\* Every step keeps it.
LEMMA InvStep ==
    ASSUME Inv, [Next]_vars
    PROVE  Inv'
<1>1. ASSUME NEW r \in Requests, Step(r)
      PROVE  Inv'
  <2>1. TypeOK' /\ HeldInv'
    BY <1>1, TypeStep DEF Inv, AccessInv
  <2>2. SecretInv' /\ KeyLogInv'
    BY <1>1, SecretStep DEF Inv, AccessInv
  <2>3. AuthorityInv'
    BY <1>1, AuthorityStep DEF Inv, AccessInv
  <2>4. OlderInv'
    BY <1>1, OlderStep DEF Inv, AccessInv
  <2> QED
    BY <2>1, <2>2, <2>3, <2>4 DEF Inv, AccessInv
<1>2. ASSUME UNCHANGED vars
      PROVE  Inv'
  BY <1>2 DEF vars, Inv, TypeOK, AccessInv, HeldInv, SecretInv, KeyLogInv, LastMade, AuthorityInv,
              OlderInv, Stale
<1> QED
  BY <1>1, <1>2 DEF Next

\* The entries of a key tell its row.
LEMMA HistoryAgrees ==
    ASSUME TypeOK, KeyLogInv
    PROVE  KeyHistoryAgrees
<1> SUFFICES ASSUME NEW k \in Keys, keys[k].state # "absent"
             PROVE  LET made == {i \in DOMAIN keyLog[k] : keyLog[k][i][1] \in {"create", "rotate"}}
                        last == CHOOSE i \in made : \A j \in made : j <= i
                    IN  /\ keyLog[k][last][2] = keys[k].secret
                        /\ keys[k].state = "revoked"
                              <=> \E i \in DOMAIN keyLog[k] : keyLog[k][i][1] = "revoke"
  BY DEF KeyHistoryAgrees
<1> DEFINE made == {i \in DOMAIN keyLog[k] : keyLog[k][i][1] \in {"create", "rotate"}}
           last == CHOOSE i \in made : \A j \in made : j <= i
<1>1. PICK i \in DOMAIN keyLog[k] : LastMade(k, i) /\ keyLog[k][i][2] = keys[k].secret
  BY DEF KeyLogInv
<1>2. DOMAIN keyLog[k] \subseteq Nat
  <2> DEFINE Entries == {"create", "rotate", "revoke"} \X Nat
  <2>1. keyLog[k] \in Seq(Entries)
    BY DEF TypeOK
  <2> HIDE DEF Entries
  <2> QED
    BY <2>1
<1>3. i \in made /\ \A j \in made : j <= i
  BY <1>1 DEF LastMade, Makes
<1>4. last \in made /\ \A j \in made : j <= last
  BY <1>3
<1>5. made \subseteq Nat
  BY <1>2
<1> HIDE DEF last, made
<1>6. last = i
  <2>1. last <= i /\ i <= last /\ last \in Nat /\ i \in Nat
    BY <1>3, <1>4, <1>5
  <2> QED
    BY <2>1
<1>7. keyLog[k][last][2] = keys[k].secret
  BY <1>1, <1>6
<1>8. keys[k].state = "revoked" <=> \E d \in DOMAIN keyLog[k] : keyLog[k][d][1] = "revoke"
  BY DEF KeyLogInv
<1> QED
  BY <1>7, <1>8 DEF last, made

\* Types, the history of every key, and what the requests under way may rely on.
THEOREM KeysAgreeCorrect == Spec => []KeysAgree
<1>1. Init => Inv
  BY InvInit
<1>2. Inv /\ [Next]_vars => Inv'
  BY InvStep
<1>3. Inv => KeysAgree
  BY HistoryAgrees DEF Inv, AccessInv, KeysAgree
<1> QED
  BY <1>1, <1>2, <1>3, PTL DEF Spec

\* What is revoked stays revoked, and nobody gets in with a secret that is dead.
THEOREM SecretsStayDeadCorrect == Spec => SecretsStayDead
<1>1. Init => Inv
  BY InvInit
<1>2. Inv /\ [Next]_vars => Inv'
  BY InvStep
<1>3. ASSUME Inv, [Next]_vars
      PROVE  [KeepsRevoked /\ RefusesDead]_vars
  <2> SUFFICES ASSUME NEW t \in Requests, Step(t)
               PROVE  KeepsRevoked /\ RefusesDead
    BY <1>3 DEF Next
  <2>1. KeepsRevoked
    BY <1>3, SecretStep DEF Inv, AccessInv
  <2>2. ASSUME NEW r \in Requests, req[r].pc = "new", req'[r].pc = "found"
        PROVE  keys[req'[r].via].secret \notin retired
    <3>1. r = t
      BY <1>3, <2>2, StepOfOne DEF Inv
    <3>2. req \in [Requests -> ReqStates] /\ req[r] \in ReqStates
      BY <1>3 DEF Inv, TypeOK
    <3>3. ASSUME NEW k \in Keys, FindKey(r, k)
          PROVE  keys[req'[r].via].secret \notin retired
      <4>1. req'[r].via = k
        BY <3>2, <3>3 DEF FindKey, ReqStates
      <4> QED
        BY <1>3, <3>3, <4>1 DEF FindKey, Inv, AccessInv, SecretInv
    <3>4. ASSUME NEW u \in Users, Login(r, u)
          PROVE  FALSE
      BY <2>2, <3>2, <3>4 DEF Login, ReqStates
    <3>5. (\E u \in Users : Login(r, u)) \/ (\E k \in Keys : FindKey(r, k)) \/ Kill(r)
      BY <2>2, <3>1
         DEF Step, SaveUse, Permit, Refuse, Answer, LoadNothing, LoadKey, LoadPrincipal,
             CheckTarget, CheckFields, CommitPatch, CommitIdentity, CommitRole, CommitNew,
             CommitDelete, CommitKey, CommitIssue, RollBack, AuditUpdate
    <3> QED
      BY <2>2, <3>3, <3>4, <3>5 DEF Kill
  <2> QED
    BY <2>1, <2>2 DEF RefusesDead
<1> QED
  BY <1>1, <1>2, <1>3, PTL DEF Spec, SecretsStayDead

\* Whoever writes a key, a role, an identity or another user's row was an administrator
\* at some moment of the request.
THEOREM AuthorityCorrect == Spec => Authority
<1>1. Init => Inv
  BY InvInit
<1>2. Inv /\ [Next]_vars => Inv'
  BY InvStep
<1> DEFINE Holds == \A r \in Requests :
                Writes(r) /\ ( \/ keys' # keys \/ grant' # grant
                               \/ \E p \in Principals \ {req[r].caller.who} : state'[p] # state[p])
                  => r \in wasAdmin
<1>3. ASSUME Inv, [Next]_vars
      PROVE  [Holds]_vars
  <2> SUFFICES ASSUME NEW t \in Requests, Step(t)
               PROVE  Holds
    BY <1>3 DEF Next
  <2> QED
    BY <1>3, AuthorityHolds DEF Inv, AccessInv
<1>4. Spec => [][Holds]_vars
  BY <1>1, <1>2, <1>3, PTL DEF Spec
<1> QED
  BY <1>4 DEF Authority

\* A deactivation is undone only by a request that says so or that was under way.
THEOREM DeactivationHoldsCorrect == Spec => DeactivationHolds
<1>1. Init => Inv
  BY InvInit
<1>2. Inv /\ [Next]_vars => Inv'
  BY InvStep
<1> DEFINE Holds == \A r \in Requests, p \in Principals :
                Writes(r) /\ state[p] # "active" /\ state'[p] = "active"
                  => req[r].job.set.active = "active" \/ r \in older[p]
<1>3. ASSUME Inv, [Next]_vars
      PROVE  [Holds]_vars
  <2> SUFFICES ASSUME NEW t \in Requests, Step(t)
               PROVE  Holds
    BY <1>3 DEF Next
  <2> QED
    BY <1>3, ActiveAgain DEF Inv, AccessInv
<1>4. Spec => [][Holds]_vars
  BY <1>1, <1>2, <1>3, PTL DEF Spec
<1> QED
  BY <1>4 DEF DeactivationHolds

=============================================================================
