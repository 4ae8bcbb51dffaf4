----------------------------- MODULE PhoneImport -----------------------------
(***************************************************************************)
(* The CSV files of phones, speed dials and DIDs, with the page of a phone *)
(* and the deletions that meet an import.                                  *)
(*                                                                         *)
(* An import checks the file against rows it reads first, outside of any   *)
(* transaction; then it saves line by line in one transaction, where each  *)
(* row is checked again by the rules of its model.  A preview ends after   *)
(* the check.  The page of a phone is shown, posted and checked, and       *)
(* saved, with other requests in between: it is about the rows that it     *)
(* shows.  Each check is one step here, and so is each transaction.        *)
(*                                                                         *)
(* A label is written into a cell between separators.  It matters only if  *)
(* it has one of them in it: "bar" stands for a label with a vertical bar, *)
(* "colon" for one with a colon.  Models, names, providers and trunks are  *)
(* left out, no page changes a MAC address, and extensions stay in their   *)
(* location (ExtensionEdit moves them).                                    *)
(***************************************************************************)
EXTENDS Naturals, Sequences, SequencesExt, FiniteSets, FiniteSetsExt, Functions

CONSTANTS
    Macs, Locations, Numbers, Dids,
    Home,           \* the location of the extension of each number
    Defaults,       \* the locations with a default inbound destination
    Labels,         \* labels of lines and speed dials
    Files,          \* the files that users write: sequences of rows of one kind
    Exports,        \* whether users import the phones they exported, unchanged
    Requests,       \* the imports that are handled at a time
    Overlap,        \* whether imports overlap with each other, with pages and deletions
    MaxEdits,       \* bound: pages and deletions
    MaxAdded,       \* bound: the rows that a page adds
    FirstPhones, FirstExtensions,
    None

ConstantsAssumption ==
    /\ Home \in [Numbers -> Locations]
    /\ Defaults \subseteq Locations
    /\ Labels \subseteq {"plain", "bar", "colon"}
    /\ FirstExtensions \subseteq Numbers
    /\ MaxEdits \in Nat /\ MaxAdded \in Nat /\ Exports \in BOOLEAN /\ Overlap \in BOOLEAN

VARIABLES
    phone,      \* the phone of each MAC address with its rows by their keys, or None
    ext,        \* the numbers of the extensions there are
    did,        \* the routing of each DID, or None
    req,        \* the import each request handles
    page,       \* the page of a phone that somebody has open
    edits

vars == <<phone, ext, did, req, page, edits>>

LineRows == [at : 1..2, ext : Numbers, label : Labels]
DialRows == [at : {1}, label : Labels, dest : {"number", "odd"}]
IsLine(row) == "ext" \in DOMAIN row
DidRows == [loc : Locations, ext : Numbers \union {None}, dest : BOOLEAN]

Idle == [at |-> "idle"]
Pending(q) == req[q].at = "pending"
Ended(at, exported) == [at |-> at, exported |-> exported]
Closed == [at |-> "closed", mac |-> None]

Alone == Overlap \/ (page = Closed /\ \A q \in Requests : ~Pending(q))

\* The unique constraints of a phone's rows, which are a function or a sequence.
Clash(x, y) == IsLine(x) = IsLine(y) /\ (x.at = y.at \/ (IsLine(x) /\ x.ext = y.ext))
Distinct(rows) == \A i, j \in DOMAIN rows : i # j => ~Clash(rows[i], rows[j])

RowsOf(phones, m) == IF phones[m] = None THEN <<>> ELSE phones[m].rows
InPlace(e, loc) == e \in ext /\ Home[e] = loc

TypeOK ==
    /\ \A m \in Macs : phone[m] # None =>
           /\ phone[m].loc \in Locations /\ phone[m].active \in BOOLEAN
           /\ DOMAIN phone[m].rows \subseteq Nat
           /\ Range(phone[m].rows) \subseteq LineRows \union DialRows /\ Distinct(phone[m].rows)
    /\ ext \subseteq Numbers
    /\ \A d \in Dids : did[d] # None => did[d] \in DidRows
    /\ \A q \in Requests : req[q].at \in {"idle", "pending", "validated", "refused",
                                          "imported", "crashed"}
    /\ page.at \in {"closed", "open", "checked"} /\ page.mac \in Macs \union {None}
    /\ edits \in 0..MaxEdits

Init ==
    /\ phone = FirstPhones
    /\ ext = FirstExtensions
    /\ did = [d \in Dids |-> None]
    /\ req = [q \in Requests |-> Idle]
    /\ page = Closed
    /\ edits = 0

-----------------------------------------------------------------------------
\* A faulty form of a definition below, as a plausible bug would make of it.  The
\* specification does not use it: it shows that the properties notice.
NoRollback(before, after) == after

-----------------------------------------------------------------------------
\* A label between separators, as it reads again: what follows a bar is an entry of its
\* own, which is none; a colon in the label of a speed dial ends the label there.
LineEntries(line) ==
    IF line.label = "bar" THEN <<[line EXCEPT !.label = "plain"], None>> ELSE <<line>>

DialEntries(dial) ==
    CASE dial.label = "bar" -> <<None, None>>
      [] dial.label = "colon" -> <<[dial EXCEPT !.label = "plain", !.dest = "odd"]>>
      [] OTHER -> <<dial>>

\* Rows in one cell, in the order of their positions, each as it reads.
Cell(entries) ==
    LET sorted == SetToSortSeq(DOMAIN entries, LAMBDA x, y : x.at < y.at)
    IN  FlattenSeq([i \in DOMAIN sorted |-> entries[sorted[i]]])

\* phone_export, read as a file again.  What a colon pushes into the number of a speed
\* dial may be too long for it.
Exported(m) ==
    LET rows == Range(phone[m].rows)
        lines == {x \in rows : IsLine(x)}
        dials == rows \ lines
    IN  [kind : {"phone"}, key : {m}, loc : {phone[m].loc}, active : {phone[m].active},
         lines : {Cell([x \in lines |-> LineEntries(x)])},
         dials : {Cell([x \in dials |-> DialEntries(x)])},
         fits : {TRUE} \union {FALSE : x \in {y \in dials : y.label = "colon"}}]

-----------------------------------------------------------------------------
\* What the check accepts.

Entries(entries) ==
    /\ \A i \in DOMAIN entries : entries[i] # None
    /\ IsInjective([i \in DOMAIN entries |-> entries[i].at])

PhoneLineGood(row) ==
    /\ Entries(row.lines) /\ Entries(row.dials)
    /\ \A i \in DOMAIN row.lines : InPlace(row.lines[i].ext, row.loc)

DidLineGood(row) == row.ext # None => InPlace(row.ext, row.loc)

DialLineGood(row) == phone[row.key[1]] # None

LineGood(row) == CASE row.kind = "phone" -> PhoneLineGood(row)
                   [] row.kind = "did" -> DidLineGood(row)
                   [] row.kind = "dial" -> DialLineGood(row)

\* A blank cell is_active takes the value of the phone, or the default.
Planned(row) ==
    IF row.kind # "phone" \/ row.active # None THEN row
    ELSE [row EXCEPT !.active = IF phone[row.key] = None THEN TRUE ELSE phone[row.key].active]

\* phone_import, did_import and speed_dial_import up to the transaction.  No phone, DID
\* or position is in the file twice.
Check(q, file, dry, exported) ==
    /\ ~Pending(q)
    /\ Alone
    /\ LET good == /\ IsInjective([i \in DOMAIN file |-> file[i].key])
                   /\ \A i \in DOMAIN file : LineGood(file[i])
       IN  req' = [req EXCEPT ![q] =
               IF ~good \/ dry THEN Ended(IF good THEN "validated" ELSE "refused", exported)
               ELSE [at |-> "pending", file |-> file, exported |-> exported,
                     rows |-> [i \in DOMAIN file |-> Planned(file[i])]]]
    /\ UNCHANGED <<phone, ext, did, page, edits>>

-----------------------------------------------------------------------------
\* The transaction.

\* Keys of rows that are inserted: none of those that are in use or on a page.
PageKeys(m) == IF page.mac = m THEN page.shown \union DOMAIN page.form ELSE {}
FreshKeys(used, n) ==
    {k \in 1..(Cardinality(used) + n) : /\ k \notin used
                                        /\ Cardinality((1..k) \ used) <= n}
Keyed(rows, used) ==
    LET keys == SetToSortSeq(FreshKeys(used, Len(rows)), <)
    IN  [k \in Range(keys) |-> rows[CHOOSE i \in DOMAIN keys : keys[i] = k]]

\* full_clean of the phone, then of each of the rows that replace its lines and speed
\* dials: every text and number fits its column.
PhoneSaved(db, row) ==
    LET rows == row.lines \o row.dials
        ok == /\ row.fits
              /\ \A i \in DOMAIN row.lines : InPlace(row.lines[i].ext, row.loc)
              /\ Distinct(rows)
    IN  [db EXCEPT !.ok = ok,
                   !.phone[row.key] = [loc |-> row.loc, active |-> row.active,
                                       rows |-> Keyed(rows, PageKeys(row.key))]]

\* The speed dial of the position is updated or created.
DialSaved(db, row) ==
    LET m == row.key[1]
        dial == [at |-> row.key[2], label |-> row.label, dest |-> "number"]
        rows == RowsOf(db.phone, m)
        same == {k \in DOMAIN rows : Clash(rows[k], dial)}
        key == IF same # {} THEN same ELSE FreshKeys(DOMAIN rows \union PageKeys(m), 1)
    IN  IF db.phone[m] = None \/ ~row.fits THEN [db EXCEPT !.ok = FALSE]
        ELSE [db EXCEPT !.phone[m].rows = [k \in key |-> dial] @@ @]

\* full_clean of the DID: it leads somewhere.
DidSaved(db, row) ==
    [db EXCEPT !.ok = /\ row.fits
                      /\ row.ext # None => InPlace(row.ext, row.loc)
                      /\ row.ext # None \/ row.dest \/ row.loc \in Defaults,
               !.did[row.key] = [loc |-> row.loc, ext |-> row.ext, dest |-> row.dest]]

RowSaved(db, row) == CASE ~db.ok -> db
                       [] db.ok /\ row.kind = "phone" -> PhoneSaved(db, row)
                       [] db.ok /\ row.kind = "dial" -> DialSaved(db, row)
                       [] db.ok /\ row.kind = "did" -> DidSaved(db, row)

Database == [phone |-> phone, did |-> did, ok |-> TRUE]

\* transaction.atomic: what an exception leaves.
Atomic(before, after) == IF after.ok THEN after ELSE before

Save(q) ==
    /\ Pending(q)
    /\ LET after == FoldLeft(RowSaved, Database, req[q].rows)
           left == Atomic(Database, after)
       IN  /\ phone' = left.phone
           /\ did' = left.did
           /\ req' = [req EXCEPT ![q] =
                          Ended(IF after.ok THEN "imported" ELSE "crashed", @.exported)]
    /\ UNCHANGED <<ext, page, edits>>

-----------------------------------------------------------------------------
\* What else changes these rows.

Edit ==
    /\ edits < MaxEdits
    /\ Alone
    /\ edits' = edits + 1

\* phone_create and phone_update, opened: the page shows the rows there are.
OpenPage(m) ==
    /\ Edit
    /\ page = Closed
    /\ page' = [at |-> "open", mac |-> m, new |-> phone[m] = None,
                shown |-> DOMAIN RowsOf(phone, m), form |-> <<>>]
    /\ UNCHANGED <<phone, ext, did, req>>

\* What is posted for the rows that are shown and not deleted, with rows that are added.
Forms(rows, shown) ==
    UNION {LET added == UNION {kSubset(n, LineRows \union DialRows) : n \in 0..MaxAdded}
               like == {f \in [kept -> LineRows \union DialRows] :
                           \A k \in kept : IsLine(f[k]) = IsLine(rows[k])}
           IN  {f @@ Keyed(SetToSeq(more), DOMAIN rows) : f \in like, more \in added}
           : kept \in SUBSET shown}

\* Posted: the rows that are shown are there still, lines are of the posted location, and
\* no posted row clashes with another, nor with one of the phone's that it does not
\* replace.  A page that is refused is shown again.
CheckPage ==
    LET m == page.mac
        rows == RowsOf(phone, m)
    IN
    /\ page.at = "open"
    /\ page.new = (phone[m] = None)
    /\ page.shown \subseteq DOMAIN rows
    /\ \E loc \in Locations, active \in BOOLEAN, form \in Forms(rows, page.shown) :
         /\ \A k \in DOMAIN form : IsLine(form[k]) => InPlace(form[k].ext, loc)
         /\ Distinct(form)
         /\ \A k \in DOMAIN form, l \in DOMAIN rows : k # l => ~Clash(form[k], rows[l])
         /\ page' = [at |-> "checked", mac |-> m, insert |-> page.new, shown |-> page.shown,
                     form |-> form, loc |-> loc, active |-> active,
                     changed |-> {k \in DOMAIN form : k \notin DOMAIN rows \/ form[k] # rows[k]}]
    /\ UNCHANGED <<phone, ext, did, req, edits>>

\* The transaction: the phone is updated, or inserted when it is new or gone; so are the
\* rows that were changed.  Rows that the page does not show stay.  A constraint that
\* does not hold rolls back everything.
SavePage ==
    LET m == page.mac
        rows == RowsOf(phone, m)
        deleted == page.shown \ DOMAIN page.form
        after == Restrict(page.form, page.changed) @@ Restrict(rows, DOMAIN rows \ deleted)
        ok == /\ page.insert => phone[m] = None
              /\ \A k \in page.changed : IsLine(page.form[k]) => page.form[k].ext \in ext
              /\ Distinct(after)
    IN
    /\ page.at = "checked"
    /\ IF ok
       THEN phone' = [phone EXCEPT ![m] = [loc |-> page.loc, active |-> page.active,
                                           rows |-> after]]
       ELSE UNCHANGED phone
    /\ page' = Closed
    /\ UNCHANGED <<ext, did, req, edits>>

\* The user leaves it, or its request ends before the transaction.
LeavePage ==
    /\ page # Closed
    /\ page' = Closed
    /\ UNCHANGED <<phone, ext, did, req, edits>>

\* phone_delete: its rows go with it, by CASCADE.
DeletePhone(m) ==
    /\ Edit
    /\ phone[m] # None
    /\ phone' = [phone EXCEPT ![m] = None]
    /\ page' = IF page.at = "checked" /\ page.mac = m THEN [page EXCEPT !.insert = TRUE] ELSE page
    /\ UNCHANGED <<ext, did, req>>

\* clear_extension_relationships.
Unrouted(e) ==
    [d \in Dids |-> IF did[d] # None /\ did[d].ext = e THEN [did[d] EXCEPT !.ext = None]
                    ELSE did[d]]

\* The line of a phone keeps its extension.
Protected(e) == \E m \in Macs : \E x \in Range(RowsOf(phone, m)) : IsLine(x) /\ x.ext = e

\* extension_delete: DIDs give it up, then it is deleted; if it is protected, all is
\* rolled back.
DeleteExtension(e) ==
    /\ Edit
    /\ ~Protected(e)
    /\ did' = Unrouted(e)
    /\ ext' = ext \ {e}
    /\ UNCHANGED <<phone, req, page>>

Next ==
    \/ \E q \in Requests, dry \in BOOLEAN :
           \/ \E file \in Files : Check(q, file, dry, None)
           \/ \E m \in Macs : /\ Exports /\ phone[m] # None
                              /\ \E line \in Exported(m) : Check(q, <<line>>, dry, m)
    \/ \E q \in Requests : Save(q)
    \/ \E m \in Macs : OpenPage(m) \/ DeletePhone(m)
    \/ CheckPage \/ SavePage \/ LeavePage
    \/ \E e \in ext : DeleteExtension(e)

Spec == Init /\ [][Next]_vars

-----------------------------------------------------------------------------
\* Every line of a phone is of an extension that exists, and every routing of a DID is to
\* one of its location, however imports, pages and deletions overlap (PROTECT,
\* clear_extension_relationships, DID.clean).
ShownExists ==
    /\ \A m \in Macs : \A x \in Range(RowsOf(phone, m)) : IsLine(x) => x.ext \in ext
    /\ \A d \in Dids : did[d] # None /\ did[d].ext # None => InPlace(did[d].ext, did[d].loc)

\* The lines whose extension is of another location than their phone.
Misplaced(m) ==
    {<<k, phone[m]>> : k \in {l \in DOMAIN RowsOf(phone, m) :
        IsLine(phone[m].rows[l]) /\ Home[phone[m].rows[l].ext] # phone[m].loc}}

\* A line gets out of its location in one way only: the page of its phone is saved, and
\* did not show it, because an import wrote it while the page was open (phone_update,
\* _replace_phone_line_appearances).
OnlyUnseenMisplaced ==
    \A m \in Macs : \A x \in Misplaced(m)' \ Misplaced(m) :
        \/ page.mac = m /\ page.at = "checked" /\ page' = Closed /\ x[1] \notin page.shown
        \/ phone[m] # None /\ <<x[1], phone[m]>> \in Misplaced(m)

\* What is in the tables of a phone, whatever the keys.
Content(p) ==
    IF p = None THEN None ELSE [loc |-> p.loc, active |-> p.active, rows |-> Range(p.rows)]

\* An import says "imported" only if every line of its file is in the rows, and touches
\* no other phone, DID or position; a blank is_active keeps what the phone had
\* (import_phones_csv, import_dids_csv, import_speed_dials_csv).
Written(row) ==
    CASE row.kind = "phone" ->
            Content(phone'[row.key]) =
                [loc |-> row.loc, rows |-> ToSet(row.lines) \union ToSet(row.dials),
                 active |-> IF row.active # None THEN row.active
                            ELSE phone[row.key] = None \/ phone[row.key].active]
      [] row.kind = "dial" ->
            LET dial == [at |-> row.key[2], label |-> row.label, dest |-> "number"]
                others == {x \in Range(phone[row.key[1]].rows) : ~Clash(x, dial)}
            IN  Range(phone'[row.key[1]].rows) = others \union {dial}
      [] row.kind = "did" ->
            did'[row.key] = [loc |-> row.loc, ext |-> row.ext, dest |-> row.dest]

Named(file) == {IF file[i].kind = "dial" THEN file[i].key[1] ELSE file[i].key : i \in DOMAIN file}

WritesFile ==
    \A q \in Requests : Pending(q) /\ req'[q].at = "imported" =>
        /\ \A i \in DOMAIN req[q].file : Written(req[q].file[i])
        /\ \A m \in Macs \ Named(req[q].file) : phone'[m] = phone[m]
        /\ \A d \in Dids \ Named(req[q].file) : did'[d] = did[d]

\* A preview, a refused file and a transaction that fails half-way leave every row as it
\* was (_csv_import_response, transaction.atomic).
WritesNothing ==
    \A q \in Requests : req'[q] # req[q] /\ req'[q].at \in {"validated", "refused", "crashed"}
                           /\ edits' = edits /\ page' = page
        => phone' = phone /\ did' = did

\* Where nothing overlaps with an import, what fails after the check is a line that shows an
\* extension twice, a DID that leads nowhere, or a text or number that does not fit its
\* column: in all else the rules of the check and those of the models agree.
FailsAsKnown ==
    \A q \in Requests : Pending(q) /\ ~Overlap /\ req'[q].at = "crashed" =>
     \E i \in DOMAIN req[q].file : LET row == req[q].file[i] IN
         \/ ~row.fits
         \/ row.kind = "phone" /\ ~Distinct(row.lines)
         \/ row.kind = "did" /\ row.ext = None /\ ~row.dest /\ row.loc \notin Defaults

\* A phone that is exported and imported again stays as it is, unless the label of a
\* line has a bar or the one of a speed dial a separator.
KeepsPhone ==
    \A q \in Requests, m \in Macs :
        /\ req'[q] # req[q] /\ req'[q].at # "idle" /\ req'[q].exported = m /\ edits' = edits
        /\ page' = page
        /\ \A x \in Range(RowsOf(phone, m)) :
               x.label # "bar" /\ (IsLine(x) \/ x.label = "plain")
        => /\ req'[q].at \notin {"refused", "crashed"}
           /\ \A n \in Macs : Content(phone'[n]) = Content(phone[n])

-----------------------------------------------------------------------------
\* What models.py and the import page say, and the code does not do.

\* "Phone line extensions must belong to the phone location."
LinesOfLocation == \A m \in Macs : Misplaced(m) = {}

\* A file that validates is imported, where nothing overlaps ("Validate only" of the import
\* page).
ValidatedIsImported == ~Overlap => \A q \in Requests : req[q].at # "crashed"
=============================================================================
