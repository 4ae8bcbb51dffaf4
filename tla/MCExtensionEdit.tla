-------------------------- MODULE MCExtensionEdit ---------------------------
(***************************************************************************)
(* Small instances of ExtensionEdit: two extension rows, two numbers, one  *)
(* or two locations, DIDs and groups.                                      *)
(***************************************************************************)
EXTENDS ExtensionEdit, TLC

CONSTANTS x1, x2, n1, n2, l1, l2, d1, d2, g1, r1, r2

OnePhone == {x1}
NoPhones == {}
FirstRow == x1 :> [number |-> n1, loc |-> l1, emergency |-> TRUE]
OneHome == d1 :> l1
TwoHomes == (d1 :> l1) @@ (d2 :> l2)
GroupsAtHome == g1 :> l1
NoGroup == << >>

CsvLine(number, loc, emergency, dids) ==
    [number |-> number, loc |-> loc, emergency |-> emergency, dids |-> dids, groups |-> {}]

\* Files of one line for either number, and of two lines with different DIDs.
SerialFiles ==
    {<<CsvLine(n, l1, e, D)>> : n \in Numbers, e \in {TRUE, FALSE, None}, D \in {{}, {d1}}}
    \union {<<CsvLine(n1, l, None, D), CsvLine(n2, l1, e, {})>> :
               l \in Locations, e \in {FALSE, None}, D \in {{}, {d2}}}

\* One location only.
OverlapFiles ==
    {<<CsvLine(n, l1, e, {})>> : n \in Numbers, e \in {FALSE, None}}
    \union {<<CsvLine(n1, l1, None, {}), CsvLine(n2, l1, FALSE, {})>>}

\* Both lines of the file name the one DID.
TwiceNamed == {<<CsvLine(n1, l1, None, {d1}), CsvLine(n2, l1, None, {d1})>>}
NoFiles == {}
=============================================================================
