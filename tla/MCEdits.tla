------------------------------- MODULE MCEdits -------------------------------
(***************************************************************************)
(* Forms and CSV files of extensions (ExtensionEdit), of phones, DIDs and  *)
(* speed dials (PhoneImport), in one instance for TLC.  Each behaviour is  *)
(* about one of five small portals, its "part":                            *)
(*   extensions   requests about extensions and groups, one at a time      *)
(*   overlapping  two requests about extensions at a time                  *)
(*   files        one import of one of many files                          *)
(*   races        two imports while rows are edited                        *)
(*   exports      phones that are exported and imported again              *)
(* Those of extensions share no state with the others.                     *)
(***************************************************************************)
EXTENDS MCExtensionEdit

CONSTANTS n3, m1, m2, q1, q2

VARIABLES part, phone, shown, routed, import, page, edits

Overlapping == INSTANCE ExtensionEdit WITH
                   Locations <- {l1}, Dids <- {}, DidHome <- NoGroup, Groups <- {},
                   GroupHome <- NoGroup, Requests <- {r1, r2}, Files <- OverlapFiles,
                   Lines <- OnePhone

-----------------------------------------------------------------------------
(* Files of phones, speed dials and DIDs: one of each kind of line, good   *)
(* or bad, and pairs of them.                                              *)

At(i, number) == [at |-> i, ext |-> number, label |-> "plain"]
Dial == [at |-> 1, label |-> "plain", dest |-> "number"]
LineCells == {<<>>, <<At(1, n1)>>, <<At(1, n1), At(2, n2)>>, <<At(1, n1), At(2, n1)>>,
              <<At(1, n1), At(1, n2)>>, <<At(1, n3)>>}
PhoneLine(m, loc, active, lines, dials) ==
    [kind |-> "phone", key |-> m, loc |-> loc, active |-> active, lines |-> lines,
     dials |-> dials, fits |-> TRUE]
SinglePhones ==
    {<<PhoneLine(m1, loc, active, lines, dials)>> :
        loc \in {l1, l2}, active \in {FALSE, None}, lines \in LineCells,
        dials \in {<<>>, <<Dial>>}}
PhonePairs ==
    {<<PhoneLine(m, l1, TRUE, <<At(1, n1)>>, <<>>), PhoneLine(m2, loc, None, lines, <<>>)>> :
        m \in {m1, m2}, loc \in {l1, l2}, lines \in LineCells}

DialLine(m) == [kind |-> "dial", key |-> <<m, 1>>, label |-> "plain", fits |-> TRUE]
DialFiles == {<<DialLine(m)>> : m \in {m1, m2}}
             \union {<<DialLine(m1), DialLine(m)>> : m \in {m1, m2}}

DidLine(d, loc, e, dest) ==
    [kind |-> "did", key |-> d, loc |-> loc, ext |-> e, dest |-> dest, fits |-> TRUE]
DidFiles ==
    {<<DidLine(d1, loc, e, FALSE)>> : loc \in {l1, l2}, e \in {n1, None}}
    \union {<<DidLine(d1, l1, n2, FALSE), DidLine(d, l2, None, dest)>> :
                d \in {d1, d2}, dest \in BOOLEAN}

\* The last line of a file may have a text or a number that does not fit its column.
Unfit(file) == [file EXCEPT ![Len(file)].fits = FALSE]
UnfitFiles ==
    {Unfit(file) : file \in DialFiles \union {<<DidLine(d1, l1, n1, FALSE)>>}
                            \union {<<PhoneLine(m1, l1, None, <<At(1, n1)>>, <<>>)>>}}
AllFiles == SinglePhones \union DidFiles \union DialFiles \union PhonePairs \union UnfitFiles
RaceFiles ==
    {<<PhoneLine(m1, l1, None, <<>>, <<>>)>>, <<PhoneLine(m1, l1, None, <<At(1, n1)>>, <<>>)>>,
     <<PhoneLine(m1, l2, None, <<At(1, n3)>>, <<>>)>>,
     <<DidLine(d1, l1, n1, FALSE)>>, <<DialLine(m1)>>}

\* The first of the given phones is there, without lines.
Phones(macs) ==
    [m \in macs |-> IF m = m1 THEN [loc |-> l1, active |-> TRUE, rows |-> <<>>] ELSE None]
ThreeNumbers == {n1, n2, n3}
TwoNumbers == {n1, n3}
HomeOf(numbers) == [n \in numbers |-> IF n = n3 THEN l2 ELSE l1]

Filed == INSTANCE PhoneImport WITH
              Macs <- {m1, m2}, Locations <- {l1, l2}, Numbers <- ThreeNumbers,
              Home <- HomeOf(ThreeNumbers), Dids <- {d1, d2}, Defaults <- {l1},
              Labels <- {"plain"}, Files <- AllFiles, Exports <- FALSE,
              Requests <- {q1}, Overlap <- FALSE, MaxEdits <- 1, MaxAdded <- 1,
              FirstPhones <- Phones({m1, m2}), FirstExtensions <- ThreeNumbers,
              ext <- shown, did <- routed, req <- import

Raced == INSTANCE PhoneImport WITH
              Macs <- {m1}, Locations <- {l1, l2}, Numbers <- TwoNumbers,
              Home <- HomeOf(TwoNumbers), Dids <- {d1}, Defaults <- {l1},
              Labels <- {"plain"}, Files <- RaceFiles, Exports <- FALSE,
              Requests <- {q1, q2}, Overlap <- TRUE, MaxEdits <- 2, MaxAdded <- 1,
              FirstPhones <- Phones({m1}), FirstExtensions <- TwoNumbers,
              ext <- shown, did <- routed, req <- import

Exported == INSTANCE PhoneImport WITH
              Macs <- {m1}, Locations <- {l1, l2}, Numbers <- ThreeNumbers,
              Home <- HomeOf(ThreeNumbers), Dids <- {}, Defaults <- {l1},
              Labels <- {"plain", "bar", "colon"}, Files <- {}, Exports <- TRUE,
              Requests <- {q1}, Overlap <- FALSE, MaxEdits <- 1, MaxAdded <- 3,
              FirstPhones <- Phones({m1}), FirstExtensions <- ThreeNumbers,
              ext <- shown, did <- routed, req <- import

ASSUME /\ OneRequest /\ DidsOnce /\ Overlapping!DidsOnce
       /\ Overlapping!HomesAssumption /\ Overlapping!TablesAssumption
       /\ Filed!ConstantsAssumption /\ Raced!ConstantsAssumption /\ Exported!ConstantsAssumption

phoneVars == <<phone, shown, routed, import, page, edits>>
allVars == <<part, vars, phoneVars>>

-----------------------------------------------------------------------------
\* Odd speed dials are for exports, and an inactive phone is for files.
Phone(m) == {phone[m]} \ {None}
PlainRows(rows) == \A k \in DOMAIN rows : "dest" \in DOMAIN rows[k] => rows[k].dest = "number"
PlainDials ==
    /\ \A m \in DOMAIN phone : \A p \in Phone(m) : PlainRows(p.rows)
    /\ page.at = "checked" => PlainRows(page.form)
ActivePhones ==
    /\ \A m \in DOMAIN phone : \A p \in Phone(m) : p.active
    /\ page.at = "checked" => page.active

\* Files are about phones or about DIDs.  In a race, imports that change nothing are left
\* out: previews and files that are refused.
OneKind == phone = Phones({m1, m2}) \/ \A d \in DOMAIN routed : routed[d] = None
Written == \A q \in DOMAIN import : import[q].at \notin {"validated", "refused"}

PartInit ==
    /\ \/ part = "overlapping" /\ Overlapping!Init
       \/ part \in {"extensions", "files", "races", "exports"} /\ Init
    /\ CASE part = "races" -> Raced!Init
         [] part = "exports" -> Exported!Init
         [] OTHER -> Filed!Init

PartNext ==
    /\ \/ part = "extensions" /\ Next /\ UNCHANGED phoneVars
       \/ part = "overlapping" /\ Overlapping!Next /\ UNCHANGED phoneVars
       \/ part = "files" /\ Filed!Next /\ PlainDials' /\ OneKind' /\ UNCHANGED vars
       \/ /\ part = "races" /\ Raced!Next /\ PlainDials' /\ ActivePhones' /\ Written'
          /\ UNCHANGED vars
       \/ part = "exports" /\ Exported!Next /\ UNCHANGED vars
    /\ UNCHANGED part

PartSpec == PartInit /\ [][PartNext]_allVars

-----------------------------------------------------------------------------
\* The types, and the constraints of the tables, of all parts.
TypesOK ==
    CASE part = "extensions" -> TypeOK
      [] part = "overlapping" -> Overlapping!TypeOK
      [] part = "files" -> Filed!TypeOK
      [] part = "races" -> Raced!TypeOK
      [] part = "exports" -> Exported!TypeOK

\* Rows are unique and what they refer to is there: in their own location when requests
\* about extensions follow each other (ExtensionEdit), and for phones and DIDs also when
\* imports and edits overlap (PhoneImport).
RowsWhole ==
    /\ TypesOK
    /\ part = "extensions" => RelationsLocal
    /\ part = "races" => Raced!ShownExists

\* A request does what it was asked and no more: one about extensions takes no DID of
\* others and logs when it turns emergency calling off, where requests follow each other
\* (ExtensionEdit); an import of phones, DIDs and speed dials is whole or leaves nothing,
\* fails as its preview tells, and one of an export changes nothing (PhoneImport).
RequestsExact ==
    [][/\ part = "extensions" => DisableIsLogged /\ KeepsDids
       /\ part = "files" => Filed!WritesFile /\ Filed!WritesNothing /\ Filed!FailsAsKnown
       /\ part = "races" => Raced!OnlyUnseenMisplaced
       /\ part = "exports" => Exported!KeepsPhone]_allVars
=============================================================================
