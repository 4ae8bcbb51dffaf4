--------------------------- MODULE ExtensionEdit ----------------------------
(***************************************************************************)
(* Extensions: the form, the deletion and the CSV import of extensions,    *)
(* and the form of the groups they belong to.                              *)
(*                                                                         *)
(* A request reads rows and checks what it is to save, and writes all of   *)
(* it in one transaction; requests overlap.  Reading and checking are one  *)
(* step, for nothing of the request's own is written in between, and so is *)
(* the transaction.  Ring groups stand for queues and paging groups too.   *)
(***************************************************************************)
EXTENDS Naturals, Sequences, FiniteSets

CONSTANTS
    Rows,       \* the keys of extension rows
    Numbers,    \* extension numbers
    Locations,
    Dids,
    DidHome,    \* the location of each DID
    Groups,
    GroupHome,  \* the first location of each group
    Requests,   \* the requests that are handled at a time
    Files,      \* the CSV files: sequences of rows
    First,      \* the extensions there are at first, a function from keys to rows
    Lines,      \* those of them that a line of a phone in their location shows
    None

ASSUME HomesAssumption ==
    /\ DidHome \in [Dids -> Locations] /\ GroupHome \in [Groups -> Locations]
    /\ DOMAIN First \subseteq Rows /\ Lines \subseteq DOMAIN First

\* The columns of an extension, and the cells of a line of a file.
Columns == [number : Numbers, loc : Locations, emergency : BOOLEAN]
FileLines == [number : Numbers, loc : Locations, emergency : BOOLEAN \union {None},
              dids : SUBSET Dids, groups : SUBSET Groups]

\* Numbers are unique at first, and None is nothing else.
ASSUME TablesAssumption ==
    /\ IsFiniteSet(Rows)
    /\ None \notin Rows /\ None \notin BOOLEAN /\ None \notin Columns
    /\ \A i \in DOMAIN First : First[i] \in Columns
    /\ \A i, j \in DOMAIN First : First[i].number = First[j].number => i = j
    /\ Files \subseteq Seq(FileLines)

\* What some properties need besides: requests follow each other, and no line of a file
\* names a DID of another.
OneRequest == \A r, s \in Requests : r = s
DidsOnce ==
    \A file \in Files : \A j, k \in DOMAIN file :
       j # k => file[j].dids \cap file[k].dids = {}

VARIABLES
    ext,        \* the extension of each key, or None
    did,        \* the extension that each DID is assigned to, or None
    member,     \* the memberships: pairs of a group and an extension
    group,      \* the location of each group
    req,        \* what each request is about to write
    audit,      \* the entries about emergency calling that the last step wrote
    turnedOff   \* the rows that an administrator saved with emergency calling off

vars == <<ext, did, member, group, req, audit, turnedOff>>

Idle == [kind |-> "idle"]

-----------------------------------------------------------------------------
\* Faulty forms of definitions below, each what a plausible bug would make of it.
\* The specification uses none of them: they show that the properties notice.
NewIsOff(id) == id # None /\ ext[id].emergency
LogsUpdates(id, enabled) == id # None /\ ext[id].emergency /\ ~enabled
OfAnywhere(loc) == Groups
AnyOf(loc, id) == {d \in Dids : DidHome[d] = loc}
NoConstraint(before, id, row) == TRUE
MembersOnly(before, id, row) ==
    [before EXCEPT !.member = {m \in @ : m[2] # id} \union {<<g, id>> : g \in row.groups}]

-----------------------------------------------------------------------------
Existing == {i \in Rows : ext[i] # None}

Init ==
    /\ ext = [i \in Rows |-> IF i \in DOMAIN First THEN First[i] ELSE None]
    /\ did = [d \in Dids |-> None]
    /\ member = {}
    /\ group = GroupHome
    /\ req = [r \in Requests |-> Idle]
    /\ audit = {}
    /\ turnedOff = {i \in DOMAIN First : ~First[i].emergency}

\* original_enabled: emergency calling is on in an extension that does not exist yet.
OriginalEnabled(id) == id = None \/ ext[id].emergency

\* is_911_disable_change.
DisablesEmergency(id, enabled) == OriginalEnabled(id) /\ ~enabled

\* The log entry of a row that is being saved.
LogsDisable(id, enabled) == DisablesEmergency(id, enabled)

\* The DIDs of a location that are free or its own.
SelectableDids(loc, id) == {d \in Dids : DidHome[d] = loc /\ did[d] \in {None, id}}

SelectableGroups(loc) == {g \in Groups : group[g] = loc}

\* clean_number: no other extension has the number.
NumberFree(number, id) == ~\E i \in Existing \ {id} : ext[i].number = number

Row(id, number, loc, enabled, dids, groups) ==
    [id |-> id, number |-> number, loc |-> loc, emergency |-> enabled, dids |-> dids,
     groups |-> groups, logs |-> LogsDisable(id, enabled)]

Begin(r, w) ==
    /\ req[r] = Idle
    /\ req' = [req EXCEPT ![r] = w]
    /\ UNCHANGED <<ext, did, member, group, turnedOff>>

\* extension_create and extension_update.  An editor who turns emergency calling off
\* gets the form back, and the attempt is logged.
SubmitForm(r, admin) ==
    \E id \in Existing \union {None}, number \in Numbers, loc \in Locations, enabled \in BOOLEAN :
    \E dids \in SUBSET SelectableDids(loc, id), groups \in SUBSET SelectableGroups(loc) :
       /\ NumberFree(number, id)
       /\ IF DisablesEmergency(id, enabled) /\ ~admin
          THEN Begin(r, Idle) /\ audit' = {<<"denied", id>>}
          ELSE /\ Begin(r, [kind |-> "save", admin |-> admin,
                            rows |-> <<Row(id, number, loc, enabled, dids, groups)>>])
               /\ audit' = {}

\* The extension with the number of a line of a file.
Named(number) ==
    IF \E i \in Existing : ext[i].number = number
    THEN CHOOSE i \in Existing : ext[i].number = number ELSE None

\* A blank cell keeps the value of the row, or the default.
Cell(line) ==
    IF line.emergency = None THEN OriginalEnabled(Named(line.number)) ELSE line.emergency

DeniedLines(file, admin) ==
    {k \in DOMAIN file : ~admin /\ DisablesEmergency(Named(file[k].number), Cell(file[k]))}

\* The lines without an error: the DIDs and groups are those of the line's location, and
\* no number is there twice.
GoodLines(file, admin) ==
    {k \in DOMAIN file \ DeniedLines(file, admin) :
        /\ \A j \in 1..(k - 1) : file[j].number # file[k].number
        /\ file[k].dids \subseteq SelectableDids(file[k].loc, Named(file[k].number))
        /\ file[k].groups \subseteq SelectableGroups(file[k].loc)}

\* extension_import: a file with an error is refused as a whole.
SubmitFile(r, admin) ==
    \E file \in Files :
       /\ IF GoodLines(file, admin) = DOMAIN file
          THEN Begin(r, [kind |-> "save", admin |-> admin,
                         rows |-> [k \in DOMAIN file |->
                                      Row(Named(file[k].number), file[k].number, file[k].loc,
                                          Cell(file[k]), file[k].dids, file[k].groups)]])
          ELSE Begin(r, Idle)
       /\ audit' = {<<"denied", Named(file[k].number)>> : k \in DeniedLines(file, admin)}

\* extension_delete.
SubmitDelete(r) ==
    \E id \in Existing : Begin(r, [kind |-> "delete", id |-> id]) /\ audit' = {}

\* ring_group_update: the group may move, and has its members chosen anew.
SubmitGroup(r) ==
    \E g \in Groups, loc \in Locations :
    \E chosen \in SUBSET {i \in Existing : ext[i].loc = loc} :
       /\ Begin(r, [kind |-> "group", group |-> g, loc |-> loc, members |-> chosen])
       /\ audit' = {}

-----------------------------------------------------------------------------
\* The transactions.

Database == [ext |-> ext, did |-> did, member |-> member]

\* The key of a row that is inserted: one that no row has and no request has read.
ReadKeys ==
    UNION {IF req[r].kind = "save" THEN {req[r].rows[k].id : k \in DOMAIN req[r].rows}
           ELSE IF req[r].kind = "delete" THEN {req[r].id} ELSE {} : r \in Requests}
FreshKeys(before) == {i \in Rows \ ReadKeys : before.ext[i] = None}
KeyOf(before, row) == IF row.id # None THEN row.id ELSE CHOOSE i \in FreshKeys(before) : TRUE

\* sync_extension_relationships: what is chosen is assigned, whoever had it, and the rest
\* is given up.
WithRelationships(before, id, row) ==
    [before EXCEPT
       !.did = [d \in Dids |-> IF d \in row.dids THEN id
                               ELSE IF before.did[d] = id THEN None ELSE before.did[d]],
       !.member = {m \in before.member : m[2] # id} \union {<<g, id>> : g \in row.groups}]

\* ExtensionForm.save writes every column; a row that was deleted is inserted again.
Saved(before, id, row) ==
    LET columns == [number |-> row.number, loc |-> row.loc, emergency |-> row.emergency]
    IN  WithRelationships([before EXCEPT !.ext = [before.ext EXCEPT ![id] = columns]], id, row)

\* The database after each row of a request.
After(rows) ==
    LET a[k \in 0..Len(rows)] ==
          IF k = 0 THEN Database
          ELSE Saved(a[k - 1], KeyOf(a[k - 1], rows[k]), rows[k])
    IN a

\* The constraint that a number is unique.
Unique(before, id, row) ==
    ~\E i \in Rows \ {id} : before.ext[i] # None /\ before.ext[i].number = row.number

End(r) == req' = [req EXCEPT ![r] = Idle]

\* A row that fails rolls back them all.
CommitSave(r) ==
    LET w == req[r]
        after == After(w.rows)
        Key(k) == KeyOf(after[k - 1], w.rows[k])
        off == {Key(k) : k \in {l \in DOMAIN w.rows : ~w.rows[l].emergency}}
        new == {Key(k) : k \in {l \in DOMAIN w.rows : w.rows[l].id = None}} IN
    /\ w.kind = "save"
    /\ Cardinality({k \in DOMAIN w.rows : w.rows[k].id = None}) <= Cardinality(FreshKeys(Database))
    /\ End(r)
    /\ UNCHANGED group
    /\ IF \A k \in DOMAIN w.rows : Unique(after[k - 1], Key(k), w.rows[k])
       THEN /\ LET end == after[Len(w.rows)] IN
               ext' = end.ext /\ did' = end.did /\ member' = end.member
            /\ audit' = {<<"success", Key(k)>> : k \in {l \in DOMAIN w.rows : w.rows[l].logs}}
            /\ turnedOff' = (turnedOff \ new) \union (IF w.admin THEN off ELSE {})
       ELSE audit' = {} /\ UNCHANGED <<ext, did, member, turnedOff>>

\* clear_extension_relationships and the deletion, both undone when a phone's line still
\* shows the extension.
CommitDelete(r) ==
    LET id == req[r].id IN
    /\ req[r].kind = "delete"
    /\ End(r)
    /\ audit' = {}
    /\ UNCHANGED <<group, turnedOff>>
    /\ IF id \in Lines THEN UNCHANGED <<ext, did, member>>
       ELSE /\ ext' = [ext EXCEPT ![id] = None]
            /\ did' = [d \in Dids |-> IF did[d] = id THEN None ELSE did[d]]
            /\ member' = {m \in member : m[2] # id}

\* RingGroupForm.save; a member that was deleted meanwhile fails it.
CommitGroup(r) ==
    LET w == req[r] IN
    /\ w.kind = "group"
    /\ End(r)
    /\ audit' = {}
    /\ UNCHANGED <<ext, did, turnedOff>>
    /\ IF w.members \subseteq Existing
       THEN /\ group' = [group EXCEPT ![w.group] = w.loc]
            /\ member' = {m \in member : m[1] # w.group} \union ({w.group} \X w.members)
       ELSE UNCHANGED <<group, member>>

Next ==
    \E r \in Requests :
       \/ \E admin \in BOOLEAN : SubmitForm(r, admin) \/ SubmitFile(r, admin)
       \/ SubmitDelete(r) \/ SubmitGroup(r)
       \/ CommitSave(r) \/ CommitDelete(r) \/ CommitGroup(r)

Spec == Init /\ [][Next]_vars

-----------------------------------------------------------------------------
\* The tables have the form that their constraints give them, and no two extensions
\* share a number, although each request looks for the number before its transaction.
TypeOK ==
    /\ \A i \in Existing : /\ ext[i].number \in Numbers /\ ext[i].loc \in Locations
                           /\ ext[i].emergency \in BOOLEAN
    /\ \A i, j \in Existing : ext[i].number = ext[j].number => i = j
    /\ \A d \in Dids : did[d] \in Existing \union {None}
    /\ \A m \in member : m[1] \in Groups /\ m[2] \in Existing
    /\ turnedOff \subseteq Rows

\* Emergency calling is off only in an extension that an administrator saved so, however
\* the requests of editors overlap with it, and whether it came by form or by file.
DisabledByAdmin == \A i \in Existing : ~ext[i].emergency => i \in turnedOff

\* Whenever emergency calling goes off, the log has an entry of it.
DisableIsLogged ==
    \A i \in Rows :
       (ext[i] = None \/ ext[i].emergency) /\ ext'[i] # None /\ ~ext'[i].emergency
       => <<"success", i>> \in audit'
ForceDisableLogged == [][DisableIsLogged]_vars

\* The DIDs and the groups of an extension are those of its location, wherever it or
\* they move.
RelationsLocal ==
    /\ \A m \in member : ext[m[2]].loc = group[m[1]]
    /\ \A d \in Dids : did[d] # None => ext[did[d]].loc = DidHome[d]

\* A DID that is assigned to an extension is not taken by another.
KeepsDids == \A d \in Dids : did[d] # None /\ did'[d] # None => did'[d] = did[d]

\* A file is imported as it is written: each of its rows has the DIDs it names.
WritesRows ==
    \A r \in Requests :
       (req[r].kind = "save" /\ req'[r] = Idle /\ Database' # Database) =>
          \A k \in DOMAIN req[r].rows : \A d \in req[r].rows[k].dids :
             did'[d] # None /\ ext'[did'[d]].number = req[r].rows[k].number
ImportedAsWritten == [][WritesRows]_vars

-----------------------------------------------------------------------------
\* What models.py says, and the code does not do.

\* The lines of a phone show extensions of the phone's location.
LinesLocal == \A i \in Lines : ext[i] # None => ext[i].loc = First[i].loc
=============================================================================
