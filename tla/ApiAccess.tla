----------------------------- MODULE ApiAccess ------------------------------
(***************************************************************************)
(* Users, service identities and API keys: who may call the portal, and    *)
(* the requests that change it while others are under way.                 *)
(*                                                                         *)
(* A request authenticates by a session or by the secret of an API key,    *)
(* has its permission checked, reads the row it is about, and writes it,   *)
(* each with queries of its own.  Only what a view puts in one             *)
(* transaction.atomic() block is one step; where such a block updates one  *)
(* key, the lock of the row keeps others out until it commits.             *)
(*                                                                         *)
(* The columns of a row that decide nothing about access (names, email,    *)
(* password, descriptions, times) are left out, as is is_superuser.  A     *)
(* role and the permission list of a service identity are both called the  *)
(* grant of the principal; a list is one of those that the roles have.     *)
(***************************************************************************)
EXTENDS Naturals, Sequences

CONSTANTS
    Users, Identities, Keys,    \* rows that exist or may come to exist
    Requests,                   \* requests to the portal
    Killed,                     \* those whose worker may be killed
    Ops,                        \* the operations that are requested
    Grants,                     \* the roles in use
    Admin, Member,              \* users there are from the start
    NoOne                       \* the owner of a key without a row

\* ROLE_PERMISSIONS, without the two permissions that nothing here asks for.
RolePermissions ==
    [viewer |-> {"view"}, editor |-> {"view", "edit_config"},
     operator |-> {"view"}, admin |-> {"view", "edit_config", "administer"}]

Principals == Users \union Identities
KeyOps == {"rotate", "revoke"}
PatchOps == {"patchMe", "patchUser", "adminPatchUser"}
NewRowOps == {"createUser", "addUser", "addIdentity"}
AllOps == KeyOps \union PatchOps \union NewRowOps \union
          {"use", "issue", "setRole", "deleteUser", "patchIdentity"}

ASSUME ConstantsAssumption ==
    /\ {Admin, Member} \subseteq Users
    /\ Users \intersect Identities = {}
    /\ NoOne \notin Principals
    /\ Ops \subseteq AllOps
    /\ {"viewer", "admin"} \subseteq Grants /\ Grants \subseteq DOMAIN RolePermissions

VARIABLES
    state,      \* the is_active of each user and identity that has a row
    grant,      \* the role of each user's profile, the permissions of each identity
    keys,       \* the rows of the API keys
    minted,     \* how many secrets have been generated
    keyLog,     \* the audit entries about each key
    userLog,    \* the audit entries about users
    req,        \* where each request is and what it holds
    retired,    \* history: the secrets that were replaced or revoked
    wasAdmin,   \* history: the requests whose caller was an administrator meanwhile
    older       \* history: the requests under way when a principal was deactivated

tables == <<state, grant, keys, minted, keyLog, userLog>>
vars == <<tables, req, retired, wasAdmin, older>>

Secrets == Nat      \* numbered in the order in which they are generated
States == {"absent", "active", "inactive"}
Fields == {"active", "role"}
KeyRows == [state : {"absent", "live", "revoked"}, owner : Principals \union {NoOne},
            secret : Secrets]
\* A principal as a request has read it.
Copies == [who : Principals \union {NoOne}, state : States, grant : Grants \union {"none"}]
Settings == [active : {"keep", "active", "inactive"}, grant : Grants \union {"keep"}]
Jobs == [op : AllOps, on : Principals \union Keys, set : Settings]

\* What a request holds: the job, the key it came with (NoOne for a session), its
\* caller as read, the row it works on as read, the fields it will log and, as
\* history, those it really changed.
ReqStates == [pc : {"new", "found", "known", "permitted", "loaded", "addressed",
                    "vetted", "committed", "done"},
              job : Jobs, via : Keys \union {NoOne}, caller : Copies, copy : Copies \union KeyRows,
              log : SUBSET Fields, did : SUBSET Fields]

TypeOK ==
    /\ state \in [Principals -> States]
    /\ grant \in [Principals -> Grants \union {"none"}]
    /\ keys \in [Keys -> KeyRows]
    /\ minted \in Secrets
    /\ keyLog \in [Keys -> Seq({"create", "rotate", "revoke"} \X Secrets)]
    /\ userLog \subseteq [by : Requests, on : Users, fields : SUBSET (Fields \union {"deleted"})]
    /\ req \in [Requests -> ReqStates]
    /\ retired \subseteq Secrets
    /\ wasAdmin \subseteq Requests
    /\ older \in [Principals -> SUBSET Requests]

NoKey == [state |-> "absent", owner |-> NoOne, secret |-> 0]
NoRow == [who |-> NoOne, state |-> "absent", grant |-> "none"]
Keep == [active |-> "keep", grant |-> "keep"]
NewReq == [pc |-> "new", job |-> [op |-> "use", on |-> Admin, set |-> Keep], via |-> NoOne,
           caller |-> NoRow, copy |-> NoRow, log |-> {}, did |-> {}]

\* Faulty forms of definitions below, each what a plausible bug would make of it.
\* The specification uses none of them: they show that the properties notice.
RawSetting(r)       == req[r].job.set.active
RotateSavesAll      == {"secret", "state"}
RevokeSavesAll      == {"state", "secret"}
UseSavesAll         == {"secret", "state"}
DefaultsToActive(r) == IF req[r].job.set.active = "keep" THEN "active" ELSE req[r].job.set.active
NoFieldCheck(r)     == TRUE

\* An administrator, a member, the identities, and one key that has been issued.
Init ==
    /\ \E present \in SUBSET Identities :
         state = [p \in Principals |->
                    IF p \in {Admin, Member} \union present THEN "active" ELSE "absent"]
    /\ \E g \in [Identities -> Grants] :
         grant = [p \in Principals |-> IF p = Admin THEN "admin" ELSE IF p = Member THEN "viewer"
                                       ELSE IF state[p] = "active" THEN g[p] ELSE "none"]
    /\ LET k == CHOOSE k \in Keys : TRUE IN \E p \in {q \in Principals : state[q] = "active"} :
         /\ keys = [j \in Keys |-> IF j # k THEN NoKey
                                   ELSE [state |-> "live", owner |-> p, secret |-> 1]]
         /\ keyLog = [j \in Keys |-> IF j # k THEN <<>> ELSE << <<"create", 1>> >>]
    /\ minted = 1
    /\ userLog = {}
    /\ req = [r \in Requests |-> NewReq]
    /\ retired = {}
    /\ wasAdmin = {}
    /\ older = [p \in Principals |-> {}]

-----------------------------------------------------------------------------
(* Who calls, and what the caller may do.                                  *)

\* What update_fields names in rotate, revoke and find_by_secret.
RotateFields == {"secret"}
RevokeFields == {"state"}
UseFields == {}

\* save(update_fields=...) of an instance: the other columns stay as they are.
Saved(k, instance, fields) ==
    [keys EXCEPT ![k] = [f \in DOMAIN @ |-> IF f \in fields THEN instance[f] ELSE @[f]]]

At(r, from) == req[r].pc = from
Goes(r, to) == req' = [req EXCEPT ![r].pc = to]
\* An answer, a refusal, or an error that rolls the transaction back.
Ends(r, did) == req' = [req EXCEPT ![r] = [NewReq EXCEPT !.pc = "done", !.did = did]]
Read(p) == [who |-> p, state |-> state[p], grant |-> grant[p]]

Busy == {r \in Requests : req[r].pc \notin {"new", "done"}}
Administers(c) == "administer" \in
    CASE c.who \in Users /\ grant[c.who] # "none" -> RolePermissions[grant[c.who]]
      [] c.who \in Identities -> RolePermissions[c.grant]
      [] OTHER -> {}

\* The last two history variables follow every step.
Observe ==
    /\ wasAdmin' = (wasAdmin \intersect Busy) \union
                     {r \in Busy' : Administers(req[r].caller)'}
    /\ older' = [p \in Principals |-> IF state[p] = "active" /\ state'[p] # "active"
                                      THEN Busy ELSE older[p] \intersect Busy]

\* A user's role is read at every check, and made if there is none; is_active and a
\* service principal's permissions are those of the instance the request holds.
Role(r) ==
    LET c == req[r].caller
    IN  IF c.who \in Identities THEN c.grant
        ELSE IF grant[c.who] # "none" THEN grant[c.who]
        ELSE IF state[c.who] # "absent" THEN "viewer" ELSE "none"
HasPermission(r, permission) ==
    Role(r) # "none" /\ permission \in RolePermissions[Role(r)]
ProfileMade(r) ==
    IF req[r].caller.who \in Users /\ Role(r) # "none"
    THEN [grant EXCEPT ![req[r].caller.who] = Role(r)] ELSE grant

\* A session: request.user is read when the first decorator asks for it.
Login(r, u) ==
    /\ At(r, "new")
    /\ state[u] = "active"
    /\ req' = [req EXCEPT ![r].pc = "known", ![r].caller = Read(u)]
    /\ UNCHANGED <<tables, retired>>
    /\ Observe

\* find_by_secret: one query for the key and its owner ...
FindKey(r, k) ==
    /\ At(r, "new")
    /\ keys[k].state = "live"
    /\ state[keys[k].owner] = "active"
    /\ req' = [req EXCEPT ![r].pc = "found", ![r].via = k,
                          ![r].caller = Read(keys[k].owner), ![r].copy = keys[k]]
    /\ UNCHANGED <<tables, retired>>
    /\ Observe

\* ... then last_used_at is saved, which fails if the row has gone.
SaveUse(r) ==
    /\ At(r, "found")
    /\ IF keys[req[r].via].state # "absent"
       THEN /\ keys' = Saved(req[r].via, req[r].copy, UseFields)
            /\ req' = [req EXCEPT ![r].pc = "known", ![r].copy = NoRow]
       ELSE Ends(r, {}) /\ UNCHANGED keys
    /\ UNCHANGED <<state, grant, minted, keyLog, userLog, retired>>
    /\ Observe

\* What can be asked for.  Bounds: an update sets at most one of the two fields, and
\* a new row is active.
Targets(op) ==
    CASE op = "use" -> {Admin}
      [] op \in KeyOps -> Keys
      [] op = "issue" -> Principals
      [] op \in {"addIdentity", "patchIdentity"} -> Identities
      [] op \in {"createUser", "addUser"} -> Users \ {Admin, Member}
      [] OTHER -> Users

SettingsFor(op) ==
    CASE op \in NewRowOps -> [active : {"active"}, grant : Grants]
      [] op = "setRole" -> [active : {"keep"}, grant : Grants]
      [] op \in PatchOps \union {"patchIdentity"} ->
            {s \in Settings : "keep" \in {s.active, s.grant}}
      [] OTHER -> {Keep}

JobSet(op) == [op : {op}, on : Targets(op), set : SettingsFor(op)]

\* Pages know sessions only; one's own row is at /me.
PageOps == {"setRole", "createUser", "deleteUser"}
Fits(j, r) ==
    /\ j.op \in PageOps => req[r].via = NoOne
    /\ j.op = "patchMe" => j.on = req[r].caller.who

\* The permission each view asks for.
Needed(op) == IF op \in {"use", "patchMe", "patchUser"} THEN "view" ELSE "administer"

\* The decorator of the view; what is asked for matters from here on.
Permit(r) ==
    /\ At(r, "known")
    /\ \E op \in Ops : HasPermission(r, Needed(op)) /\ \E j \in JobSet(op) :
          /\ Fits(j, r)
          /\ req' = [req EXCEPT ![r].pc = "permitted", ![r].job = j]
    /\ grant' = ProfileMade(r)
    /\ UNCHANGED <<state, keys, minted, keyLog, userLog, retired>>
    /\ Observe

Refuse(r) ==
    /\ At(r, "known")
    /\ ~HasPermission(r, "administer")
    /\ grant' = ProfileMade(r)
    /\ Ends(r, {})
    /\ UNCHANGED <<state, keys, minted, keyLog, userLog, retired>>
    /\ Observe

-----------------------------------------------------------------------------
(* What the view reads before it writes.                                   *)

Answer(r) ==
    /\ At(r, "permitted") /\ req[r].job.op = "use"
    /\ Ends(r, {})
    /\ UNCHANGED <<tables, retired>>
    /\ Observe

\* A new row needs no reading; the scope of a new key must be there.
LoadNothing(r) ==
    LET j == req[r].job
    IN  /\ At(r, "permitted")
        /\ j.op \in NewRowOps \union {"issue"}
        /\ IF j.op = "issue" /\ state[j.on] = "absent" THEN Ends(r, {})
                                                       ELSE Goes(r, "vetted")
        /\ UNCHANGED <<tables, retired>>
        /\ Observe

\* A revoked key is neither rotated nor revoked.
LoadKey(r) ==
    LET k == req[r].job.on
    IN  /\ At(r, "permitted")
        /\ req[r].job.op \in KeyOps
        /\ IF keys[k].state # "live" THEN Ends(r, {})
           ELSE req' = [req EXCEPT ![r].pc = "vetted", ![r].copy = keys[k]]
        /\ UNCHANGED <<tables, retired>>
        /\ Observe

\* /me is about the instance that authenticated the request, and not for services;
\* one's own account cannot be deleted.
LoadPrincipal(r) ==
    LET j == req[r].job
        me == req[r].caller
    IN  /\ At(r, "permitted")
        /\ j.op \in PatchOps \union {"patchIdentity", "setRole", "deleteUser"}
        /\ IF \/ j.op = "patchMe" /\ me.who \in Identities
              \/ j.op # "patchMe" /\ state[j.on] = "absent"
              \/ j.op = "deleteUser" /\ j.on = me.who
           THEN Ends(r, {})
           ELSE req' = [req EXCEPT
                  ![r].pc = CASE j.op = "patchUser" -> "loaded"
                              [] j.op \in {"patchMe", "adminPatchUser"} -> "addressed"
                              [] OTHER -> "vetted",
                  ![r].copy = IF j.op = "patchMe" THEN me ELSE Read(j.on),
                  ![r].log = IF j.op = "setRole" /\ grant[j.on] # j.set.grant
                             THEN {"role"} ELSE {}]
        /\ UNCHANGED <<tables, retired>>
        /\ Observe

\* Only administrators may set the admin fields, or have others for a target; the
\* role is read anew each time.
MaySetAll(r) == req[r].job.op = "adminPatchUser" \/ HasPermission(r, "administer")
MayTarget(r) == req[r].job.on = req[r].caller.who \/ HasPermission(r, "administer")

CheckTarget(r) ==
    /\ At(r, "loaded")
    /\ grant' = ProfileMade(r)
    /\ IF MayTarget(r) THEN Goes(r, "addressed") ELSE Ends(r, {})
    /\ UNCHANGED <<state, keys, minted, keyLog, userLog, retired>>
    /\ Observe

\* _update_user_info_response up to the transaction: is every field permitted, and
\* which differ from the instance and from the stored role.
CheckFields(r) ==
    LET j == req[r].job
    IN  /\ At(r, "addressed")
        /\ grant' = IF j.op = "adminPatchUser" THEN grant ELSE ProfileMade(r)
        /\ IF j.set # Keep /\ ~MaySetAll(r) THEN Ends(r, {})
           ELSE req' = [req EXCEPT ![r].pc = "vetted", ![r].log =
                  (IF j.set.active \in {"keep", req[r].copy.state} THEN {} ELSE {"active"})
                    \union (IF j.set.grant \in {"keep", grant[j.on]} THEN {} ELSE {"role"})]
        /\ UNCHANGED <<state, keys, minted, keyLog, userLog, retired>>
        /\ Observe

-----------------------------------------------------------------------------
(* The transactions.                                                       *)

\* save() writes every column of the instance, and inserts a row that has gone.
SavedState(r) == IF req[r].job.set.active = "keep" THEN req[r].copy.state
                                                   ELSE req[r].job.set.active

CommitPatch(r) ==
    LET j == req[r].job
        role == IF j.set.grant = "keep" THEN grant[j.on] ELSE j.set.grant
    IN  /\ At(r, "vetted") /\ j.op \in PatchOps
        /\ state' = [state EXCEPT ![j.on] = SavedState(r)]
        /\ grant' = [grant EXCEPT ![j.on] = role]
        /\ req' = [req EXCEPT ![r].pc = "committed", ![r].did =
                     (IF state[j.on] = SavedState(r) THEN {} ELSE {"active"})
                       \union (IF grant[j.on] = role THEN {} ELSE {"role"})]
        /\ UNCHANGED <<keys, minted, keyLog, userLog, retired>>
        /\ Observe

\* A service identity is one row, and its changes are not logged.
CommitIdentity(r) ==
    LET j == req[r].job
    IN  /\ At(r, "vetted") /\ j.op = "patchIdentity"
        /\ state' = [state EXCEPT ![j.on] = SavedState(r)]
        /\ grant' = [grant EXCEPT ![j.on] = IF j.set.grant = "keep" THEN req[r].copy.grant
                                                                   ELSE j.set.grant]
        /\ Ends(r, {})
        /\ UNCHANGED <<keys, minted, keyLog, userLog, retired>>
        /\ Observe

\* The profile of a deleted user cannot be saved.
CommitRole(r) ==
    LET j == req[r].job
    IN  /\ At(r, "vetted") /\ j.op = "setRole"
        /\ IF state[j.on] = "absent" THEN Ends(r, {}) /\ UNCHANGED grant
           ELSE /\ grant' = [grant EXCEPT ![j.on] = j.set.grant]
                /\ req' = [req EXCEPT ![r].pc = "committed", ![r].did =
                             IF grant[j.on] = j.set.grant THEN {} ELSE {"role"}]
        /\ UNCHANGED <<state, keys, minted, keyLog, userLog, retired>>
        /\ Observe

\* An entry with an actor whose row has gone cannot be saved.
ActorGone(r) == req[r].caller.who \in Users /\ state[req[r].caller.who] = "absent"

\* A user stands for one primary key, which is not used again.
Deleted(u) == \E e \in userLog : e.on = u /\ "deleted" \in e.fields

\* A name that is taken is refused.  Only the page records a new user.
CommitNew(r) ==
    LET j == req[r].job
    IN  /\ At(r, "vetted") /\ j.op \in NewRowOps
        /\ IF \/ state[j.on] # "absent" \/ Deleted(j.on)
              \/ j.op = "addIdentity" /\ ActorGone(r)
           THEN Ends(r, {}) /\ UNCHANGED <<state, grant>>
           ELSE /\ state' = [state EXCEPT ![j.on] = j.set.active]
                /\ grant' = [grant EXCEPT ![j.on] = j.set.grant]
                /\ IF j.op = "createUser"
                   THEN req' = [req EXCEPT ![r].pc = "committed", ![r].log = Fields]
                   ELSE Ends(r, {})
        /\ UNCHANGED <<keys, minted, keyLog, userLog, retired>>
        /\ Observe

\* The rows that refer to the user go with it, the entry is of the same transaction.
Without(u) == [k \in Keys |-> IF keys[k].owner = u THEN NoKey ELSE keys[k]]

CommitDelete(r) ==
    LET u == req[r].job.on
    IN  /\ At(r, "vetted") /\ req[r].job.op = "deleteUser"
        /\ ~ActorGone(r)
        /\ state' = [state EXCEPT ![u] = "absent"]
        /\ grant' = [grant EXCEPT ![u] = "none"]
        /\ keys' = Without(u)
        /\ userLog' = userLog \union {[by |-> r, on |-> u, fields |-> {"deleted"}]}
        /\ retired' = retired \union {keys[k].secret : k \in {k \in Keys : keys[k].owner = u}}
        /\ Ends(r, {})
        /\ UNCHANGED <<minted, keyLog>>
        /\ Observe

Logged(k, what, s) == keyLog' = [keyLog EXCEPT ![k] = Append(@, <<what, s>>)]

CommitIssue(r, k) ==
    LET owner == req[r].job.on
    IN  /\ At(r, "vetted") /\ req[r].job.op = "issue"
        /\ keyLog[k] = <<>>
        /\ ~ActorGone(r) /\ state[owner] # "absent"
        /\ keys' = [keys EXCEPT ![k] = [state |-> "live", owner |-> owner,
                                        secret |-> minted + 1]]
        /\ minted' = minted + 1
        /\ Logged(k, "create", minted + 1)
        /\ Ends(r, {})
        /\ UNCHANGED <<state, grant, userLog, retired>>
        /\ Observe

\* The instance may be stale; the entry names the prefix the instance has.
CommitKey(r) ==
    LET k == req[r].job.on
        rotates == req[r].job.op = "rotate"
        instance == IF rotates THEN [req[r].copy EXCEPT !.secret = minted + 1]
                               ELSE [req[r].copy EXCEPT !.state = "revoked"]
    IN  /\ At(r, "vetted") /\ req[r].job.op \in KeyOps
        /\ ~ActorGone(r) /\ keys[k].state # "absent"
        /\ keys' = Saved(k, instance, IF rotates THEN RotateFields ELSE RevokeFields)
        /\ minted' = IF rotates THEN minted + 1 ELSE minted
        /\ Logged(k, req[r].job.op, instance.secret)
        /\ retired' = retired \union {keys[k].secret}
                        \union (IF rotates /\ keys[k].state = "revoked" THEN {minted'} ELSE {})
        /\ Ends(r, {})
        /\ UNCHANGED <<state, grant, userLog>>
        /\ Observe

\* The row, its owner or the actor has gone: the transaction is rolled back.
RollBack(r) ==
    LET j == req[r].job
    IN  /\ At(r, "vetted")
        /\ \/ j.op \in KeyOps /\ (ActorGone(r) \/ keys[j.on].state = "absent")
           \/ j.op = "issue" /\ (ActorGone(r) \/ state[j.on] = "absent")
           \/ j.op = "deleteUser" /\ ActorGone(r)
        /\ Ends(r, {})
        /\ UNCHANGED <<tables, retired>>
        /\ Observe

\* The audit entry of a user update has a transaction of its own.
AuditUpdate(r) ==
    /\ At(r, "committed")
    /\ userLog' = IF req[r].log = {} \/ ActorGone(r) THEN userLog
                  ELSE userLog \union {[by |-> r, on |-> req[r].job.on, fields |-> req[r].log]}
    /\ Ends(r, req[r].did)
    /\ UNCHANGED <<state, grant, keys, minted, keyLog, retired>>
    /\ Observe

\* The worker is killed; a transaction that has not ended is rolled back.
Kill(r) ==
    /\ r \in Killed
    /\ req[r].pc \notin {"new", "done"}
    /\ Ends(r, {})
    /\ UNCHANGED <<tables, retired>>
    /\ Observe

-----------------------------------------------------------------------------
Step(r) ==
    \/ \E u \in Users : Login(r, u)
    \/ \E k \in Keys : FindKey(r, k)
    \/ Permit(r) \/ SaveUse(r) \/ Refuse(r) \/ Answer(r)
    \/ LoadNothing(r) \/ LoadKey(r) \/ LoadPrincipal(r) \/ CheckTarget(r) \/ CheckFields(r)
    \/ CommitPatch(r) \/ CommitIdentity(r) \/ CommitRole(r) \/ CommitNew(r)
    \/ CommitDelete(r) \/ CommitKey(r) \/ RollBack(r)
    \/ \E k \in Keys : CommitIssue(r, k)
    \/ AuditUpdate(r) \/ Kill(r)

Next == \E r \in Requests : Step(r)

Spec == Init /\ [][Next]_vars

-----------------------------------------------------------------------------
(* Properties.                                                             *)

Writes(r) == req[r].pc = "vetted" /\ req'[r].pc \in {"committed", "done"}

(***************************************************************************)
(* A revoked key is never usable again, however a rotation, another        *)
(* revocation or a use that read it before are interleaved with it         *)
(* (APIKey.rotate, revoke and find_by_secret save some columns only).      *)
(***************************************************************************)
KeepsRevoked ==
    \A k \in Keys : keys[k].state = "revoked" => keys'[k].state \in {"revoked", "absent"}

(***************************************************************************)
(* No request authenticates with a secret that had been replaced, revoked  *)
(* or deleted before the request looked it up (APIKey.find_by_secret).     *)
(***************************************************************************)
RefusesDead ==
    \A r \in Requests : req[r].pc = "new" /\ req'[r].pc = "found"
                           => keys[req'[r].via].secret \notin retired

(***************************************************************************)
(* The audit entries of a key tell its row: the last one that made a       *)
(* secret names the prefix the key has, and the key is revoked if and only *)
(* if one says so (the entry is written in the transaction of the change). *)
(***************************************************************************)
KeyHistoryAgrees ==
    \A k \in Keys : keys[k].state # "absent" =>
        LET made == {i \in DOMAIN keyLog[k] : keyLog[k][i][1] \in {"create", "rotate"}}
            last == CHOOSE i \in made : \A j \in made : j <= i
        IN  /\ keyLog[k][last][2] = keys[k].secret
            /\ keys[k].state = "revoked" <=> \E i \in DOMAIN keyLog[k] : keyLog[k][i][1] = "revoke"

\* What is revoked stays revoked, and nobody gets in with a secret that is dead.
SecretsStayDead == [][KeepsRevoked /\ RefusesDead]_vars

(***************************************************************************)
(* A request that writes a key, a role, an identity or another user's row  *)
(* had a caller who was an administrator at some moment of the request,    *)
(* although the check, the reading and the writing are separate steps.     *)
(***************************************************************************)
Authority ==
    [][\A r \in Requests :
          Writes(r) /\ ( \/ keys' # keys \/ grant' # grant
                         \/ \E p \in Principals \ {req[r].caller.who} : state'[p] # state[p])
            => r \in wasAdmin]_vars

(***************************************************************************)
(* Deactivating or deleting a principal is undone only by a request that   *)
(* says so or was under way at that time: full-row saves of rows read      *)
(* earlier undo it (Model.save in _update_user_info_response and           *)
(* admin_service_identity_detail), later requests do not.                  *)
(***************************************************************************)
DeactivationHolds ==
    [][\A r \in Requests, p \in Principals :
          Writes(r) /\ state[p] # "active" /\ state'[p] = "active"
            => req[r].job.set.active = "active" \/ r \in older[p]]_vars

-----------------------------------------------------------------------------
(* The inductive invariants behind the properties.                         *)

\* Past the decorator of the view, and before the row is written.
Admitted == {"permitted", "loaded", "addressed", "vetted", "committed"}
Reading == {"loaded", "addressed", "vetted"}

\* Operations that save every column of the copy.
SavesAll == PatchOps \union {"patchIdentity"}

\* What a request holds fits what it is about: its caller was active when it was read,
\* and the copy is of the row it will write.
Held(q) ==
    /\ q.pc \notin {"new", "done"} => q.caller.who \in Principals /\ q.caller.state = "active"
    /\ q.pc = "found" => q.via \in Keys
    /\ q.pc \in Admitted => /\ q.job \in JobSet(q.job.op)
                            /\ q.job.op = "patchMe" => q.job.on = q.caller.who
    /\ q.pc = "loaded" => q.job.op = "patchUser"
    /\ q.pc = "addressed" => q.job.op \in PatchOps
    /\ q.pc = "committed" => q.job.op \in PatchOps \union {"setRole", "createUser"}
    /\ q.pc \in Reading =>
          /\ q.job.op \in KeyOps => q.copy \in KeyRows
          /\ q.job.op \in SavesAll => /\ q.copy \in Copies
                                      /\ q.copy.who = q.job.on
                                      /\ q.copy.state # "absent"

HeldInv == \A r \in Requests : Held(req[r])

\* Secrets are not given twice, that of a live key is not retired, and the log tells
\* the row.
Makes(entry) == entry[1] \in {"create", "rotate"}
LastMade(k, i) ==
    /\ i \in DOMAIN keyLog[k] /\ Makes(keyLog[k][i])
    /\ \A j \in DOMAIN keyLog[k] : Makes(keyLog[k][j]) => j <= i

SecretInv ==
    /\ \A s \in retired : s <= minted
    /\ \A k \in Keys : keys[k].state = "absent" => keys[k] = NoKey
    /\ \A k \in Keys : keys[k].state # "absent"
                        => keys[k].secret <= minted /\ keys[k].owner \in Principals
    /\ \A j, k \in Keys : keys[j].state # "absent" /\ keys[k].state # "absent"
                             /\ keys[j].secret = keys[k].secret => j = k
    /\ \A k \in Keys : keys[k].state = "live" => keys[k].secret \notin retired

KeyLogInv ==
    \A k \in Keys : keys[k].state # "absent" =>
        /\ \E i \in DOMAIN keyLog[k] : LastMade(k, i) /\ keyLog[k][i][2] = keys[k].secret
        /\ keys[k].state = "revoked" <=> \E i \in DOMAIN keyLog[k] : keyLog[k][i][1] = "revoke"

\* Who got past a check had an administrator's rights when it was made; a request of
\* any other caller changes nothing but its own caller's row, and no admin field.
Unprivileged(q) ==
    /\ q.pc \in Admitted => Needed(q.job.op) = "view"
    /\ q.pc \in {"addressed", "vetted"} /\ q.job.op = "patchUser" => q.job.on = q.caller.who
    /\ q.pc = "vetted" /\ q.job.op \in PatchOps => q.job.set = Keep

AuthorityInv == \A r \in Requests : r \in wasAdmin \/ Unprivileged(req[r])

\* Who holds an active copy of a principal that is not active any more was under way
\* when it was deactivated.
Stale(copy) == copy.state = "active" /\ state[copy.who] # "active"
OlderInv ==
    \A r \in Requests :
        /\ req[r].pc \notin {"new", "done"} /\ Stale(req[r].caller)
              => r \in older[req[r].caller.who]
        /\ req[r].pc \in Reading /\ req[r].job.op \in SavesAll /\ Stale(req[r].copy)
              => r \in older[req[r].copy.who]

AccessInv == HeldInv /\ SecretInv /\ KeyLogInv /\ AuthorityInv /\ OlderInv

\* The audit entries of every key tell its row, which has the values of its columns;
\* and what a request holds agrees with the rows as the proofs need it.
KeysAgree == TypeOK /\ KeyHistoryAgrees /\ AccessInv

-----------------------------------------------------------------------------
\* What the specification and a test say, and the code does not do.

(***************************************************************************)
(* What the specification says: API-driven user updates are audit logged.  *)
(* Whatever fields of a user an update changed, its entry names them.      *)
(***************************************************************************)
UserUpdatesLogged ==
    \A r \in Requests : req[r].pc = "done" /\ req[r].did # {} =>
        \E e \in userLog : e.by = r /\ req[r].did \subseteq e.fields

(***************************************************************************)
(* What a test says: a caller who is no administrator cannot change        *)
(* is_active, of itself or anyone (admin-only fields).                     *)
(***************************************************************************)
OnlyAdminsChangeAccess ==
    [][\A r \in Requests : Writes(r) /\ state' # state => r \in wasAdmin]_vars
=============================================================================
