------------------------ MODULE ExtensionEdit_proofs -------------------------
(***************************************************************************)
(* Theorems about ExtensionEdit, for any rows, numbers, locations, DIDs,   *)
(* groups and files. Numbers stay unique, and 911 is off only by           *)
(* administrators, with any number of requests at once; and a file whose   *)
(* lines share no DID is imported as it is written. Where requests follow  *)
(* each other, relations stay in their location, no DID is taken, and the  *)
(* log misses nothing.                                                     *)
(*                                                                         *)
(* What a transaction writes is a recursive function over its rows: what   *)
(* holds after each of them is shown by induction over sets of naturals,   *)
(* with the lemmas UpTo and LeastNat.                                      *)
(***************************************************************************)
EXTENDS ExtensionEdit, Integers, FiniteSetTheorems, SequenceTheorems, TLAPS

\* What a request is about to write.
SaveRows == [id : Rows \union {None}, number : Numbers, loc : Locations, emergency : BOOLEAN,
             dids : SUBSET Dids, groups : SUBSET Groups, logs : BOOLEAN]
Saves == [kind : {"save"}, admin : BOOLEAN, rows : Seq(SaveRows)]
Deletes == [kind : {"delete"}, id : Rows]
Moves == [kind : {"group"}, group : Groups, loc : Locations, members : SUBSET Rows]

Databases == [ext : [Rows -> Columns \union {None}], did : [Dids -> Rows \union {None}],
              member : SUBSET (Groups \X Rows)]

\* Numbers are unique, and what is referred to is there.
WholeDatabase(db) ==
    /\ \A i, j \in Rows : (db.ext[i] # None /\ db.ext[j] # None
                           /\ db.ext[i].number = db.ext[j].number) => i = j
    /\ \A d \in Dids : db.did[d] # None => db.ext[db.did[d]] # None
    /\ \A m \in db.member : db.ext[m[2]] # None

Types ==
    /\ Database \in Databases
    /\ group \in [Groups -> Locations]
    /\ req \in [Requests -> Saves \union Deletes \union Moves \union {Idle}]
    /\ turnedOff \subseteq Rows

\* Where an editor is about to save emergency calling off, an administrator turned it off,
\* and that is not forgotten while the request has the row.
EditorsKeep ==
    \A r \in Requests : req[r].kind = "save" /\ ~req[r].admin =>
       \A k \in DOMAIN req[r].rows : ~req[r].rows[k].emergency => req[r].rows[k].id \in turnedOff

EditInv == Types /\ WholeDatabase(Database) /\ DisabledByAdmin /\ EditorsKeep

-----------------------------------------------------------------------------
\* A set of naturals that is not empty has a least element: the intervals below its
\* elements have one that is included in no other's.
LEMMA LeastNat ==
    ASSUME NEW T, T \subseteq Nat, T # {}
    PROVE  \E m \in T : \A k \in T : m <= k
<1> DEFINE below == {1..k : k \in T}
<1>1. below \subseteq FiniteSubsetsOf(Nat) /\ below # {}
  <2>1. ASSUME NEW k \in T PROVE 1..k \in FiniteSubsetsOf(Nat)
    <3>1. k \in Int /\ 1 \in Int /\ 1..k \subseteq Nat
      OBVIOUS
    <3> QED
      BY <3>1, FS_Interval DEF FiniteSubsetsOf
  <2> QED
    BY <2>1
<1>2. \E b \in below : \A c \in below : ~ (<<c, b>> \in StrictSubsetOrdering(Nat))
  <2> HIDE DEF below
  <2> QED
    BY ONLY <1>1, FS_StrictSubsetOrderingWellFounded, WFMin
<1>3. PICK m \in T : \A k \in T : ~ (<<1..k, 1..m>> \in StrictSubsetOrdering(Nat))
  BY <1>2
<1>4. ASSUME NEW k \in T PROVE m <= k
  <2>1. m \in Nat /\ k \in Nat
    OBVIOUS
  <2>2. 1..k \in FiniteSubsetsOf(Nat) /\ 1..m \in FiniteSubsetsOf(Nat)
    BY <1>1
  <2>3. SUFFICES ASSUME k < m PROVE FALSE
    BY <2>1
  <2>4. 1..k \subseteq 1..m /\ m \in 1..m /\ m \notin 1..k
    BY <2>1, <2>3
  <2> QED
    BY <1>3, <2>2, <2>4 DEF StrictSubsetOrdering, FiniteSubsetsOf
<1> QED
  BY <1>4

\* Induction over the naturals up to n, for a set of them.
LEMMA UpTo ==
    ASSUME NEW n \in Nat, NEW T, 0 \in T, \A k \in 0..(n - 1) : k \in T => k + 1 \in T
    PROVE  0..n \subseteq T
<1> DEFINE bad == (0..n) \ T
<1>1. SUFFICES ASSUME bad # {} PROVE FALSE
  OBVIOUS
<1>2. bad \subseteq Nat
  OBVIOUS
<1>3. PICK m \in bad : \A k \in bad : m <= k
  <2> HIDE DEF bad
  <2> QED
    BY <1>1, <1>2, LeastNat
<1>4. m - 1 \in 0..(n - 1) /\ m - 1 \in T
  BY <1>3
<1> QED
  BY <1>3, <1>4

-----------------------------------------------------------------------------
\* The database after each row is made from the one before it.
LEMMA AfterIs ==
    ASSUME NEW rows, Len(rows) \in Nat
    PROVE  /\ DOMAIN After(rows) = 0..Len(rows)
           /\ After(rows)[0] = Database
           /\ \A k \in 1..Len(rows) :
                 After(rows)[k] = Saved(After(rows)[k - 1],
                                        KeyOf(After(rows)[k - 1], rows[k]), rows[k])
<1> DEFINE Step(before, k) == Saved(before, KeyOf(before, rows[k]), rows[k])
           start == Database
           Is(f, n) == f = [k \in 0..n |-> IF k = 0 THEN start ELSE Step(f[k - 1], k)]
           T == {n \in 0..Len(rows) : \E f : Is(f, n)}
<1>1. After(rows) = CHOOSE f : Is(f, Len(rows))
  BY DEF After
<1> HIDE DEF Step, start
<1>2. 0 \in T
  <2>1. Is([k \in 0..0 |-> start], 0)
    OBVIOUS
  <2> HIDE DEF Is
  <2> QED
    BY <2>1
<1>3. ASSUME NEW n \in 0..(Len(rows) - 1), n \in T PROVE n + 1 \in T
  <2>1. PICK f : Is(f, n)
    BY <1>3
  <2> DEFINE g == [k \in 0..(n + 1) |-> IF k = n + 1 THEN Step(f[n], n + 1) ELSE f[k]]
  <2>2. ASSUME NEW k \in 0..(n + 1) PROVE g[k] = IF k = 0 THEN start ELSE Step(g[k - 1], k)
    <3>1. CASE k = n + 1
      BY <3>1
    <3>2. CASE k # n + 1
      <4>1. k \in 0..n /\ (k # 0 => k - 1 \in 0..n)
        BY <3>2
      <4>2. g[k] = f[k] /\ (k # 0 => g[k - 1] = f[k - 1])
        BY <4>1
      <4>3. f[k] = IF k = 0 THEN start ELSE Step(f[k - 1], k)
        BY <2>1, <4>1
      <4> QED
        BY <4>2, <4>3
    <3> QED
      BY <3>1, <3>2
  <2>3. Is(g, n + 1)
    <3>1. g = [k \in 0..(n + 1) |-> g[k]]
      OBVIOUS
    <3> HIDE DEF g
    <3> QED
      BY <2>2, <3>1
  <2>4. n + 1 \in 0..Len(rows)
    OBVIOUS
  <2> HIDE DEF Is, g
  <2> QED
    BY <2>3, <2>4
<1>4. 0..Len(rows) \subseteq T
  <2> HIDE DEF T
  <2> QED
    BY <1>2, <1>3, UpTo
<1>5. \E f : Is(f, Len(rows))
  BY <1>4
<1>6. Is(After(rows), Len(rows))
  <2> HIDE DEF Is
  <2> QED
    BY <1>1, <1>5
<1>7. DOMAIN After(rows) = 0..Len(rows)
  BY <1>6
<1>8. ASSUME NEW k \in 0..Len(rows)
      PROVE  After(rows)[k] = IF k = 0 THEN start ELSE Step(After(rows)[k - 1], k)
  BY <1>6
<1>9. After(rows)[0] = Database
  BY <1>8 DEF start
<1>10. ASSUME NEW k \in 1..Len(rows)
       PROVE  After(rows)[k] = Saved(After(rows)[k - 1],
                                     KeyOf(After(rows)[k - 1], rows[k]), rows[k])
  BY <1>8 DEF Step
<1> QED
  BY <1>7, <1>9, <1>10

-----------------------------------------------------------------------------
\* The columns that a row of a request writes.
ColumnsOf(row) == [number |-> row.number, loc |-> row.loc, emergency |-> row.emergency]

\* What ExtensionForm.save and sync_extension_relationships leave in the database.
LEMMA SavedIs ==
    ASSUME TablesAssumption, NEW before \in Databases, NEW id \in Rows, NEW row \in SaveRows
    PROVE  LET after == Saved(before, id, row) IN
           /\ after \in Databases
           /\ \A i \in Rows : after.ext[i] = IF i = id THEN ColumnsOf(row) ELSE before.ext[i]
           /\ \A d \in Dids : after.did[d] = IF d \in row.dids THEN id
                                             ELSE IF before.did[d] = id THEN None
                                             ELSE before.did[d]
           /\ after.member = {m \in before.member : m[2] # id}
                             \union {<<g, id>> : g \in row.groups}
           /\ ColumnsOf(row) # None /\ ColumnsOf(row) \in Columns
<1> DEFINE cols == ColumnsOf(row)
           e == [before.ext EXCEPT ![id] = cols]
           d == [x \in Dids |-> IF x \in row.dids THEN id
                                ELSE IF before.did[x] = id THEN None ELSE before.did[x]]
           m == {y \in before.member : y[2] # id} \union {<<g, id>> : g \in row.groups}
           after == Saved(before, id, row)
<1>1. cols \in Columns /\ cols # None
  BY DEF ColumnsOf, SaveRows, Columns, TablesAssumption
<1>2. before.ext \in [Rows -> Columns \union {None}]
      /\ before.did \in [Dids -> Rows \union {None}]
      /\ before.member \subseteq Groups \X Rows
      /\ before = [ext |-> before.ext, did |-> before.did, member |-> before.member]
  BY DEF Databases
<1>3. after = [ext |-> e, did |-> d, member |-> m]
  <2> DEFINE written == [before EXCEPT !.ext = e]
  <2>1. Saved(before, id, row) = WithRelationships(written, id, row)
    BY DEF Saved, ColumnsOf
  <2>2. written = [ext |-> e, did |-> before.did, member |-> before.member]
    <3> HIDE DEF e
    <3> QED
      BY <1>2
  <2>3. written.did = before.did /\ written.member = before.member
    BY <2>2
  <2> HIDE DEF written
  <2>4. WithRelationships(written, id, row) = [written EXCEPT !.did = d, !.member = m]
    BY <2>3 DEF WithRelationships
  <2> HIDE DEF d, m, e
  <2> QED
    BY <2>1, <2>2, <2>4
<1>4. e \in [Rows -> Columns \union {None}]
  BY <1>1, <1>2
<1>5. d \in [Dids -> Rows \union {None}]
  BY <1>2
<1>6. m \subseteq Groups \X Rows
  BY <1>2 DEF SaveRows
<1>7. after \in Databases
  <2> HIDE DEF e, d, m, after
  <2> QED
    BY <1>3, <1>4, <1>5, <1>6 DEF Databases
<1>8. after.ext = e /\ after.did = d /\ after.member = m
  BY <1>3
<1> HIDE DEF after
<1> QED
  BY <1>1, <1>2, <1>7, <1>8 DEF after

\* The key of a row that is saved: its own, or a fresh one.
LEMMA KeyIs ==
    ASSUME NEW before, NEW row \in SaveRows, None \notin Rows,
           row.id = None => FreshKeys(before) # {}
    PROVE  /\ KeyOf(before, row) \in Rows
           /\ row.id = None => KeyOf(before, row) \in FreshKeys(before)
           /\ row.id # None => KeyOf(before, row) = row.id
<1>1. FreshKeys(before) \subseteq Rows
  BY DEF FreshKeys
<1>2. row.id \in Rows \union {None}
  BY DEF SaveRows
<1> QED
  BY <1>1, <1>2 DEF KeyOf

\* A request reads the keys of its rows, and they are not fresh.
LEMMA ReadKeysOf ==
    ASSUME NEW r \in Requests, req[r].kind = "save", NEW k \in DOMAIN req[r].rows,
           NEW before
    PROVE  req[r].rows[k].id \in ReadKeys /\ req[r].rows[k].id \notin FreshKeys(before)
<1> DEFINE Of(q) == IF req[q].kind = "save" THEN {req[q].rows[l].id : l \in DOMAIN req[q].rows}
                    ELSE IF req[q].kind = "delete" THEN {req[q].id} ELSE {}
<1>1. req[r].rows[k].id \in Of(r)
  OBVIOUS
<1>2. ReadKeys = UNION {Of(q) : q \in Requests}
  BY DEF ReadKeys
<1> HIDE DEF Of
<1>3. req[r].rows[k].id \in ReadKeys
  BY ONLY <1>1, <1>2, r \in Requests
<1> QED
  BY ONLY <1>3 DEF FreshKeys

-----------------------------------------------------------------------------
\* The rows of a request that are inserted, up to the k-th.
NewRows(rows, k) == {l \in 1..k : rows[l].id = None}

\* The key under which the k-th row of a request is written.
Key(rows, k) == KeyOf(After(rows)[k - 1], rows[k])

\* A row that is written is not fresh any more.
LEMMA FreshSaved ==
    ASSUME TablesAssumption, NEW before \in Databases, NEW id \in Rows, NEW row \in SaveRows
    PROVE  FreshKeys(Saved(before, id, row)) = FreshKeys(before) \ {id}
<1> DEFINE after == Saved(before, id, row)
<1>1. ASSUME NEW i \in Rows PROVE after.ext[i] = None <=> (i # id /\ before.ext[i] = None)
  BY SavedIs
<1> HIDE DEF after
<1>2. FreshKeys(after) = FreshKeys(before) \ {id}
  BY <1>1 DEF FreshKeys
<1> QED
  BY <1>2 DEF after

\* What CommitSave is sure of when it writes its rows.
Writable(rows) ==
    /\ rows \in Seq(SaveRows)
    /\ Database \in Databases
    /\ Cardinality(NewRows(rows, Len(rows))) <= Cardinality(FreshKeys(Database))
    /\ \A l \in DOMAIN rows : rows[l].id \in ReadKeys

\* There is a fresh key for each row that is inserted, when there are enough at first.
LEMMA FreshLeft ==
    ASSUME TablesAssumption, NEW rows, Writable(rows),
           NEW k \in 0..Len(rows), NEW before \in Databases,
           Cardinality(FreshKeys(before)) + Cardinality(NewRows(rows, k))
              = Cardinality(FreshKeys(Database)),
           k < Len(rows)
    PROVE  /\ KeyOf(before, rows[k + 1]) \in Rows
           /\ rows[k + 1].id = None => KeyOf(before, rows[k + 1]) \in FreshKeys(before)
           /\ rows[k + 1].id # None => KeyOf(before, rows[k + 1]) = rows[k + 1].id
           /\ LET after == Saved(before, KeyOf(before, rows[k + 1]), rows[k + 1]) IN
              /\ after \in Databases
              /\ Cardinality(FreshKeys(after)) + Cardinality(NewRows(rows, k + 1))
                    = Cardinality(FreshKeys(Database))
<1> DEFINE row == rows[k + 1]
           id == KeyOf(before, row)
<1>1. rows \in Seq(SaveRows) /\ Database \in Databases
  BY DEF Writable
<1>2. row \in SaveRows /\ k + 1 \in 1..Len(rows) /\ Len(rows) \in Nat
      /\ DOMAIN rows = 1..Len(rows)
  BY <1>1
<1>3. /\ IsFiniteSet(FreshKeys(before)) /\ Cardinality(FreshKeys(before)) \in Nat
      /\ IsFiniteSet(FreshKeys(Database)) /\ Cardinality(FreshKeys(Database)) \in Nat
  BY FS_Subset, FS_CardinalityType DEF FreshKeys, TablesAssumption
<1>4. ASSUME NEW n \in 0..Len(rows)
      PROVE  IsFiniteSet(NewRows(rows, n)) /\ Cardinality(NewRows(rows, n)) \in Nat
  <2>1. NewRows(rows, n) \subseteq 1..n /\ n \in Int /\ 1 \in Int
    BY DEF NewRows
  <2> QED
    BY <2>1, FS_Interval, FS_Subset, FS_CardinalityType
<1>5. CASE row.id = None
  <2>1. NewRows(rows, k + 1) = NewRows(rows, k) \union {k + 1} /\ k + 1 \notin NewRows(rows, k)
    BY <1>2, <1>5 DEF NewRows
  <2>2. Cardinality(NewRows(rows, k + 1)) = Cardinality(NewRows(rows, k)) + 1
    BY <1>4, <2>1, FS_AddElement
  <2>3. NewRows(rows, k + 1) \subseteq NewRows(rows, Len(rows))
    BY <1>2 DEF NewRows
  <2>4. Cardinality(NewRows(rows, k + 1)) <= Cardinality(NewRows(rows, Len(rows)))
    BY <1>2, <1>4, <2>3, FS_Subset
  <2>5. Cardinality(FreshKeys(before)) > 0
    BY <1>2, <1>3, <1>4, <2>2, <2>4 DEF Writable
  <2>6. FreshKeys(before) # {}
    BY <1>3, <2>5, FS_EmptySet
  <2>7. id \in Rows /\ id \in FreshKeys(before)
    BY <1>2, <1>5, <2>6, KeyIs DEF TablesAssumption
  <2> HIDE DEF row, id
  <2>8. /\ Saved(before, id, row) \in Databases
        /\ FreshKeys(Saved(before, id, row)) = FreshKeys(before) \ {id}
    BY <1>2, <2>7, SavedIs, FreshSaved
  <2>9. Cardinality(FreshKeys(before) \ {id}) = Cardinality(FreshKeys(before)) - 1
    BY <1>3, <2>7, FS_RemoveElement
  <2>10. Cardinality(FreshKeys(before)) \in Nat /\ Cardinality(NewRows(rows, k)) \in Nat
    BY <1>3, <1>4
  <2>11. Cardinality(FreshKeys(Saved(before, id, row))) + Cardinality(NewRows(rows, k + 1))
           = Cardinality(FreshKeys(Database))
    BY <2>2, <2>8, <2>9, <2>10
  <2> QED
    BY <1>5, <2>7, <2>8, <2>11 DEF row, id
<1>6. CASE row.id # None
  <2>1. NewRows(rows, k + 1) = NewRows(rows, k)
    BY <1>2, <1>6 DEF NewRows
  <2>2. id \in Rows /\ id = row.id
    BY <1>2, <1>6, KeyIs DEF TablesAssumption
  <2>3. id \notin FreshKeys(before)
    BY <1>2, <1>6, <2>2 DEF FreshKeys, Writable
  <2> HIDE DEF row, id
  <2>4. /\ Saved(before, id, row) \in Databases
        /\ FreshKeys(Saved(before, id, row)) = FreshKeys(before)
    <3>1. Saved(before, id, row) \in Databases
      BY <1>2, <2>2, SavedIs
    <3>2. FreshKeys(Saved(before, id, row)) = FreshKeys(before) \ {id}
      BY <1>2, <2>2, FreshSaved
    <3>3. FreshKeys(before) \ {id} = FreshKeys(before)
      BY <2>3
    <3> QED
      BY <3>1, <3>2, <3>3
  <2> QED
    BY <1>6, <2>1, <2>2, <2>4 DEF row, id
<1> QED
  BY <1>5, <1>6

\* Each row of a request is written to a database of its type, under its own key or one
\* that is fresh.
LEMMA KeysAre ==
    ASSUME TablesAssumption, NEW rows, Writable(rows)
    PROVE  /\ \A k \in 0..Len(rows) : After(rows)[k] \in Databases
           /\ \A k \in DOMAIN rows :
                 /\ Key(rows, k) \in Rows
                 /\ rows[k].id = None => Key(rows, k) \in FreshKeys(After(rows)[k - 1])
                 /\ rows[k].id # None => Key(rows, k) = rows[k].id
                 /\ After(rows)[k] = Saved(After(rows)[k - 1], Key(rows, k), rows[k])
<1> DEFINE T == {k \in 0..Len(rows) :
                    /\ After(rows)[k] \in Databases
                    /\ Cardinality(FreshKeys(After(rows)[k])) + Cardinality(NewRows(rows, k))
                         = Cardinality(FreshKeys(Database))}
<1>1. Len(rows) \in Nat /\ DOMAIN rows = 1..Len(rows) /\ Database \in Databases
  BY DEF Writable
<1>2. 0 \in T
  <2>1. NewRows(rows, 0) = {}
    BY DEF NewRows
  <2>2. Cardinality(NewRows(rows, 0)) = 0
    BY <2>1, FS_EmptySet
  <2>3. Cardinality(FreshKeys(Database)) \in Nat
    BY FS_Subset, FS_CardinalityType DEF FreshKeys, TablesAssumption
  <2>4. After(rows)[0] = Database
    BY <1>1, AfterIs
  <2> QED
    BY <1>1, <2>2, <2>3, <2>4
<1>3. ASSUME NEW k \in 0..(Len(rows) - 1), k \in T
      PROVE  /\ k + 1 \in T
             /\ Key(rows, k + 1) \in Rows
             /\ rows[k + 1].id = None => Key(rows, k + 1) \in FreshKeys(After(rows)[k])
             /\ rows[k + 1].id # None => Key(rows, k + 1) = rows[k + 1].id
             /\ After(rows)[k + 1] = Saved(After(rows)[k], Key(rows, k + 1), rows[k + 1])
  <2>1. k \in 0..Len(rows) /\ k < Len(rows) /\ k + 1 \in 1..Len(rows) /\ k + 1 - 1 = k
    BY <1>1
  <2>2. PICK before \in Databases : before = After(rows)[k]
    BY <1>3
  <2>3. /\ Key(rows, k + 1) = KeyOf(before, rows[k + 1])
        /\ After(rows)[k + 1] = Saved(before, KeyOf(before, rows[k + 1]), rows[k + 1])
    BY <1>1, <2>1, <2>2, AfterIs DEF Key
  <2>4. Cardinality(FreshKeys(before)) + Cardinality(NewRows(rows, k))
           = Cardinality(FreshKeys(Database))
    BY <1>3, <2>2
  <2>5. /\ KeyOf(before, rows[k + 1]) \in Rows
        /\ rows[k + 1].id = None => KeyOf(before, rows[k + 1]) \in FreshKeys(before)
        /\ rows[k + 1].id # None => KeyOf(before, rows[k + 1]) = rows[k + 1].id
        /\ LET after == Saved(before, KeyOf(before, rows[k + 1]), rows[k + 1]) IN
           /\ after \in Databases
           /\ Cardinality(FreshKeys(after)) + Cardinality(NewRows(rows, k + 1))
                 = Cardinality(FreshKeys(Database))
    BY <2>1, <2>4, FreshLeft
  <2>6. k + 1 \in T
    BY <2>1, <2>3, <2>5
  <2> QED
    BY <2>2, <2>3, <2>5, <2>6
<1>4. 0..Len(rows) \subseteq T
  <2> HIDE DEF T
  <2> QED
    BY <1>1, <1>2, <1>3, UpTo
<1>5. ASSUME NEW k \in DOMAIN rows
      PROVE  /\ Key(rows, k) \in Rows
             /\ rows[k].id = None => Key(rows, k) \in FreshKeys(After(rows)[k - 1])
             /\ rows[k].id # None => Key(rows, k) = rows[k].id
             /\ After(rows)[k] = Saved(After(rows)[k - 1], Key(rows, k), rows[k])
  <2>1. PICK j \in 0..(Len(rows) - 1) : k = j + 1 /\ j = k - 1
    <3>1. k - 1 \in 0..(Len(rows) - 1) /\ k = (k - 1) + 1
      BY <1>1
    <3> QED
      BY <3>1
  <2>2. j \in T
    <3>1. j \in 0..Len(rows)
      BY <1>1, <2>1
    <3> QED
      BY <1>4, <3>1
  <2> HIDE DEF T
  <2> QED
    BY <1>3, <2>1, <2>2
<1> QED
  BY <1>4, <1>5

\* What each row leaves as it was, all rows leave as it was.
LEMMA EndsIn ==
    ASSUME NEW rows, Len(rows) \in Nat, NEW S, Database \in S,
           \A k \in 1..Len(rows) : After(rows)[k - 1] \in S => After(rows)[k] \in S
    PROVE  \A k \in 0..Len(rows) : After(rows)[k] \in S
<1> DEFINE T == {k \in 0..Len(rows) : After(rows)[k] \in S}
<1>1. 0 \in T
  BY AfterIs
<1>2. ASSUME NEW k \in 0..(Len(rows) - 1), k \in T PROVE k + 1 \in T
  <2>1. k + 1 \in 1..Len(rows) /\ k + 1 - 1 = k
    OBVIOUS
  <2> QED
    BY <1>2, <2>1
<1>3. 0..Len(rows) \subseteq T
  <2> HIDE DEF T
  <2> QED
    BY <1>1, <1>2, UpTo
<1> QED
  BY <1>3

\* An extension has its old columns, or those of a row of the request.
LEMMA ColumnsAre ==
    ASSUME TablesAssumption, NEW rows, Writable(rows)
    PROVE  \A k \in 0..Len(rows) : \A i \in Rows :
              \/ After(rows)[k].ext[i] = ext[i] /\ \A l \in 1..k : Key(rows, l) # i
              \/ \E l \in 1..k : Key(rows, l) = i /\ After(rows)[k].ext[i] = ColumnsOf(rows[l])
<1> DEFINE Is(k, i) ==
              \/ After(rows)[k].ext[i] = ext[i] /\ \A l \in 1..k : Key(rows, l) # i
              \/ \E l \in 1..k : Key(rows, l) = i /\ After(rows)[k].ext[i] = ColumnsOf(rows[l])
           T == {k \in 0..Len(rows) : \A i \in Rows : Is(k, i)}
<1>1. Len(rows) \in Nat /\ DOMAIN rows = 1..Len(rows) /\ rows \in Seq(SaveRows)
  BY DEF Writable
<1>2. 0 \in T
  <2>1. After(rows)[0].ext = ext
    BY <1>1, AfterIs DEF Database
  <2> QED
    BY <1>1, <2>1
<1>3. ASSUME NEW k \in 0..(Len(rows) - 1), k \in T PROVE k + 1 \in T
  <2>1. /\ k \in 0..Len(rows) /\ k + 1 \in 0..Len(rows) /\ k + 1 \in DOMAIN rows
           /\ k + 1 - 1 = k
        /\ 1..(k + 1) = 1..k \union {k + 1}
    BY <1>1
  <2>2. PICK before \in Databases : before = After(rows)[k]
    BY <2>1, KeysAre
  <2>3. PICK id \in Rows : id = Key(rows, k + 1)
    BY <2>1, KeysAre
  <2>4. After(rows)[k + 1] = Saved(before, id, rows[k + 1])
    BY <2>1, <2>2, <2>3, KeysAre
  <2>5. rows[k + 1] \in SaveRows
    BY <1>1, <2>1
  <2>6. ASSUME NEW i \in Rows
        PROVE  After(rows)[k + 1].ext[i]
                 = IF i = id THEN ColumnsOf(rows[k + 1]) ELSE before.ext[i]
    BY <2>4, <2>5, SavedIs
  <2>7. ASSUME NEW i \in Rows PROVE Is(k + 1, i)
    <3>1. CASE i = id
      BY <2>1, <2>3, <2>6, <3>1
    <3>2. CASE i # id
      <4>1. After(rows)[k + 1].ext[i] = After(rows)[k].ext[i] /\ Key(rows, k + 1) # i
        BY <2>2, <2>3, <2>6, <3>2
      <4>2. Is(k, i)
        BY <1>3
      <4>3. CASE After(rows)[k].ext[i] = ext[i] /\ \A l \in 1..k : Key(rows, l) # i
        BY <2>1, <4>1, <4>3
      <4>4. CASE \E l \in 1..k : Key(rows, l) = i /\ After(rows)[k].ext[i] = ColumnsOf(rows[l])
        BY <2>1, <4>1, <4>4
      <4> QED
        BY <4>2, <4>3, <4>4
    <3> QED
      BY <3>1, <3>2
  <2> HIDE DEF Is
  <2> QED
    BY <2>1, <2>7
<1>4. 0..Len(rows) \subseteq T
  <2> HIDE DEF T
  <2> QED
    BY <1>1, <1>2, <1>3, UpTo
<1> QED
  BY <1>4

\* Saving a row with a number that no other has keeps a database whole.
LEMMA SavedWhole ==
    ASSUME TablesAssumption, NEW before \in Databases, NEW id \in Rows, NEW row \in SaveRows,
           WholeDatabase(before), Unique(before, id, row)
    PROVE  WholeDatabase(Saved(before, id, row))
<1> DEFINE after == Saved(before, id, row)
<1>1. /\ after \in Databases
      /\ \A i \in Rows : after.ext[i] = IF i = id THEN ColumnsOf(row) ELSE before.ext[i]
      /\ \A d \in Dids : after.did[d] = IF d \in row.dids THEN id
                                        ELSE IF before.did[d] = id THEN None ELSE before.did[d]
      /\ after.member = {m \in before.member : m[2] # id} \union {<<g, id>> : g \in row.groups}
      /\ ColumnsOf(row) # None /\ ColumnsOf(row).number = row.number
  BY SavedIs DEF ColumnsOf
<1>2. before.member \subseteq Groups \X Rows /\ before.did \in [Dids -> Rows \union {None}]
  BY DEF Databases
<1> HIDE DEF after
<1>3. ASSUME NEW i \in Rows, NEW j \in Rows, after.ext[i] # None, after.ext[j] # None,
             after.ext[i].number = after.ext[j].number
      PROVE  i = j
  <2>1. CASE i = id
    BY <1>1, <1>3, <2>1 DEF Unique
  <2>2. CASE j = id
    BY <1>1, <1>3, <2>2 DEF Unique
  <2>3. CASE i # id /\ j # id
    BY <1>1, <1>3, <2>3 DEF WholeDatabase
  <2> QED
    BY <2>1, <2>2, <2>3
<1>4. ASSUME NEW d \in Dids, after.did[d] # None PROVE after.ext[after.did[d]] # None
  BY <1>1, <1>2, <1>4 DEF WholeDatabase
<1>5. ASSUME NEW m \in after.member PROVE after.ext[m[2]] # None
  <2>1. CASE m \in before.member /\ m[2] # id
    <3>1. m[2] \in Rows /\ before.ext[m[2]] # None
      BY <1>2, <2>1 DEF WholeDatabase
    <3> QED
      BY <1>1, <2>1, <3>1
  <2>2. CASE \E g \in row.groups : m = <<g, id>>
    <3>1. m[2] = id
      BY <2>2
    <3> QED
      BY <1>1, <3>1
  <2> QED
    BY <1>1, <1>5, <2>1, <2>2
<1>6. WholeDatabase(after)
  BY <1>3, <1>4, <1>5 DEF WholeDatabase
<1> QED
  BY <1>6 DEF after

-----------------------------------------------------------------------------
(* The steps. *)

\* Requests of one kind are not of another.
LEMMA RequestKinds ==
    ASSUME Types, NEW r \in Requests
    PROVE  /\ req[r].kind = "save" => req[r] \in Saves
           /\ req[r].kind = "delete" => req[r] \in Deletes
           /\ req[r].kind = "group" => req[r] \in Moves
<1>1. req[r] \in Saves \/ req[r] \in Deletes \/ req[r] \in Moves \/ req[r] = Idle
  BY DEF Types
<1>2. /\ \A w \in Saves : w.kind = "save"
      /\ \A w \in Deletes : w.kind = "delete"
      /\ \A w \in Moves : w.kind = "group"
      /\ Idle.kind = "idle"
  BY DEF Saves, Deletes, Moves, Idle
<1> QED
  BY <1>1, <1>2

\* The tables have their types, column by column.
LEMMA TablesAre ==
    ASSUME Types
    PROVE  /\ ext \in [Rows -> Columns \union {None}]
           /\ did \in [Dids -> Rows \union {None}]
           /\ member \subseteq Groups \X Rows
           /\ Existing \subseteq Rows
BY DEF Types, Databases, Database, Existing

\* The tables are a database, and their types say so.
LEMMA DatabaseIn ==
    ASSUME NEW e \in [Rows -> Columns \union {None}], NEW d \in [Dids -> Rows \union {None}],
           NEW m \in SUBSET (Groups \X Rows)
    PROVE  [ext |-> e, did |-> d, member |-> m] \in Databases
BY DEF Databases

\* The first extensions satisfy the invariant.
LEMMA EditInit ==
    ASSUME HomesAssumption, TablesAssumption, Init
    PROVE  EditInv
<1>1. ext \in [Rows -> Columns \union {None}]
  BY DEF Init, TablesAssumption, HomesAssumption
<1>2. did \in [Dids -> Rows \union {None}] /\ member \in SUBSET (Groups \X Rows)
  BY DEF Init
<1>3. Database \in Databases
  BY <1>1, <1>2, DatabaseIn DEF Database
<1>4. Types
  BY <1>3 DEF Types, Init, HomesAssumption
<1>5. WholeDatabase(Database)
  <2>1. ASSUME NEW i \in Rows, ext[i] # None PROVE i \in DOMAIN First /\ ext[i] = First[i]
    BY <2>1 DEF Init
  <2>2. \A d \in Dids : did[d] = None
    BY DEF Init
  <2>3. member = {}
    BY DEF Init
  <2> QED
    BY <2>1, <2>2, <2>3 DEF WholeDatabase, Database, TablesAssumption
<1>6. DisabledByAdmin
  <2> SUFFICES ASSUME NEW i \in Existing, ~ext[i].emergency PROVE i \in turnedOff
    BY DEF DisabledByAdmin
  <2>1. i \in DOMAIN First /\ ext[i] = First[i]
    BY DEF Init, Existing
  <2> QED
    BY <2>1 DEF Init
<1>7. EditorsKeep
  <2>1. \A r \in Requests : req[r].kind # "save"
    BY DEF Init, Idle
  <2> QED
    BY <2>1 DEF EditorsKeep
<1> QED
  BY <1>4, <1>5, <1>6, <1>7 DEF EditInv

\* A request that reads disturbs nothing; what an editor is about to write with emergency
\* calling off is off already.
LEMMA BeginStep ==
    ASSUME EditInv, NEW r \in Requests,
           NEW w \in Saves \union Deletes \union Moves \union {Idle},
           Begin(r, w),
           w.kind = "save" /\ ~w.admin =>
              \A k \in DOMAIN w.rows : ~w.rows[k].emergency => w.rows[k].id \in turnedOff
    PROVE  EditInv'
<1>1. /\ ext' = ext /\ did' = did /\ member' = member /\ group' = group
      /\ turnedOff' = turnedOff /\ req' = [req EXCEPT ![r] = w]
  BY DEF Begin
<1>2. req \in [Requests -> Saves \union Deletes \union Moves \union {Idle}]
  BY DEF EditInv, Types
<1>3. Types'
  <2>1. req' \in [Requests -> Saves \union Deletes \union Moves \union {Idle}]
    BY <1>1, <1>2
  <2> QED
    BY <1>1, <2>1 DEF EditInv, Types, Database
<1>4. WholeDatabase(Database)'
  BY <1>1 DEF EditInv, WholeDatabase, Database
<1>5. DisabledByAdmin'
  BY <1>1 DEF EditInv, DisabledByAdmin, Existing
<1>6. EditorsKeep'
  <2> SUFFICES ASSUME NEW s \in Requests, req'[s].kind = "save", ~req'[s].admin,
                      NEW k \in DOMAIN req'[s].rows, ~req'[s].rows[k].emergency
               PROVE  req'[s].rows[k].id \in turnedOff
    BY <1>1 DEF EditorsKeep
  <2>1. CASE s = r
    BY <1>1, <1>2, <2>1
  <2>2. CASE s # r
    <3>1. req'[s] = req[s]
      BY <1>1, <1>2, <2>2
    <3> QED
      BY <3>1 DEF EditInv, EditorsKeep
  <2> QED
    BY <2>1, <2>2
<1> QED
  BY <1>3, <1>4, <1>5, <1>6 DEF EditInv

\* A row of a form or a file, and what it shows of emergency calling.
LEMMA RowIs ==
    ASSUME EditInv, NEW id \in Existing \union {None}, NEW number \in Numbers,
           NEW loc \in Locations, NEW enabled \in BOOLEAN, NEW dids \in SUBSET Dids,
           NEW groups \in SUBSET Groups
    PROVE  /\ OriginalEnabled(id) \in BOOLEAN
           /\ Row(id, number, loc, enabled, dids, groups) \in SaveRows
           /\ ~DisablesEmergency(id, enabled) /\ ~enabled => id \in turnedOff
<1>1. id \in Rows \union {None} /\ (id # None => ext[id] \in Columns)
  BY TablesAre DEF EditInv, Existing
<1>2. OriginalEnabled(id) \in BOOLEAN
  BY <1>1 DEF OriginalEnabled, Columns
<1>3. LogsDisable(id, enabled) \in BOOLEAN
  BY <1>2 DEF LogsDisable, DisablesEmergency
<1>4. Row(id, number, loc, enabled, dids, groups) \in SaveRows
  BY <1>1, <1>3 DEF Row, SaveRows
<1>5. ASSUME ~DisablesEmergency(id, enabled), ~enabled PROVE id \in turnedOff
  BY <1>5 DEF DisablesEmergency, OriginalEnabled, EditInv, DisabledByAdmin
<1> QED
  BY <1>2, <1>4, <1>5

\* A form that is to turn emergency calling off is an administrator's; that of an editor
\* may only leave it off.
LEMMA FormStep ==
    ASSUME EditInv, NEW r \in Requests, NEW admin \in BOOLEAN, SubmitForm(r, admin)
    PROVE  EditInv'
<1>1. PICK id \in Existing \union {None}, number \in Numbers, loc \in Locations,
           enabled \in BOOLEAN, dids \in SUBSET Dids, groups \in SUBSET Groups :
             \/ Begin(r, Idle)
             \/ /\ ~(DisablesEmergency(id, enabled) /\ ~admin)
                /\ Begin(r, [kind |-> "save", admin |-> admin,
                             rows |-> <<Row(id, number, loc, enabled, dids, groups)>>])
  BY DEF SubmitForm, SelectableDids, SelectableGroups
<1> DEFINE row == Row(id, number, loc, enabled, dids, groups)
           w == [kind |-> "save", admin |-> admin, rows |-> <<row>>]
<1>2. row \in SaveRows /\ (~DisablesEmergency(id, enabled) /\ ~enabled => id \in turnedOff)
  BY RowIs
<1>3. row.id = id /\ row.emergency = enabled
  BY DEF Row
<1>4. CASE Begin(r, Idle)
  BY <1>4, BeginStep DEF Idle
<1>5. CASE ~(DisablesEmergency(id, enabled) /\ ~admin) /\ Begin(r, w)
  <2> HIDE DEF row
  <2>1. w \in Saves
    BY <1>2 DEF Saves
  <2>2. ASSUME ~w.admin, NEW k \in DOMAIN w.rows, ~w.rows[k].emergency
        PROVE  w.rows[k].id \in turnedOff
    <3>1. w.rows[k] = row
      OBVIOUS
    <3> QED
      BY <1>2, <1>3, <1>5, <2>2, <3>1
  <2> HIDE DEF w
  <2> QED
    BY <1>5, <2>1, <2>2, BeginStep
<1> QED
  BY <1>1, <1>4, <1>5

\* So with a file, line by line.
LEMMA FileStep ==
    ASSUME TablesAssumption, EditInv, NEW r \in Requests, NEW admin \in BOOLEAN,
           SubmitFile(r, admin)
    PROVE  EditInv'
<1> DEFINE RowOf(file, k) == Row(Named(file[k].number), file[k].number, file[k].loc,
                                 Cell(file[k]), file[k].dids, file[k].groups)
           W(file) == [kind |-> "save", admin |-> admin,
                       rows |-> [k \in DOMAIN file |-> RowOf(file, k)]]
<1>1. PICK file \in Files :
             \/ Begin(r, Idle)
             \/ GoodLines(file, admin) = DOMAIN file /\ Begin(r, W(file))
  BY DEF SubmitFile
<1>2. CASE Begin(r, Idle)
  BY <1>2, BeginStep DEF Idle
<1>3. CASE GoodLines(file, admin) = DOMAIN file /\ Begin(r, W(file))
  <2>1. file \in Seq(FileLines)
    BY DEF TablesAssumption
  <2>2. ASSUME NEW k \in DOMAIN file
        PROVE  /\ RowOf(file, k) \in SaveRows
               /\ RowOf(file, k).id = Named(file[k].number)
               /\ RowOf(file, k).emergency = Cell(file[k])
               /\ ~admin /\ ~Cell(file[k]) => Named(file[k].number) \in turnedOff
    <3>1. /\ file[k].number \in Numbers /\ file[k].loc \in Locations
          /\ file[k].dids \in SUBSET Dids /\ file[k].groups \in SUBSET Groups
          /\ file[k].emergency \in BOOLEAN \union {None}
      <4>1. PICK line \in FileLines : line = file[k]
        BY <2>1
      <4> QED
        BY <4>1 DEF FileLines
    <3>2. Named(file[k].number) \in Existing \union {None}
      BY DEF Named
    <3>3. Cell(file[k]) \in BOOLEAN
      BY <3>1, <3>2, RowIs DEF Cell
    <3>4. k \notin DeniedLines(file, admin)
      BY <1>3 DEF GoodLines
    <3>5. ~admin => ~DisablesEmergency(Named(file[k].number), Cell(file[k]))
      BY <3>4 DEF DeniedLines
    <3>6. /\ RowOf(file, k) \in SaveRows
          /\ ~DisablesEmergency(Named(file[k].number), Cell(file[k])) /\ ~Cell(file[k])
                => Named(file[k].number) \in turnedOff
      BY <3>1, <3>2, <3>3, RowIs
    <3>7. RowOf(file, k).id = Named(file[k].number) /\ RowOf(file, k).emergency = Cell(file[k])
      BY DEF Row
    <3> QED
      BY <3>5, <3>6, <3>7
  <2> HIDE DEF RowOf
  <2>3. W(file) \in Saves
    <3>1. DOMAIN file = 1..Len(file) /\ Len(file) \in Nat
      BY <2>1
    <3>2. [k \in DOMAIN file |-> RowOf(file, k)] \in Seq(SaveRows)
      BY <2>2, <3>1
    <3> QED
      BY <3>2 DEF Saves
  <2>4. ASSUME ~W(file).admin, NEW k \in DOMAIN W(file).rows, ~W(file).rows[k].emergency
        PROVE  W(file).rows[k].id \in turnedOff
    BY <2>2, <2>4
  <2> DEFINE w == W(file)
  <2>5. Begin(r, w)
    BY <1>3
  <2> HIDE DEF W
  <2> QED
    BY <2>3, <2>4, <2>5, BeginStep
<1> QED
  BY <1>1, <1>2, <1>3

\* A deletion has only read its row.
LEMMA DeletionStep ==
    ASSUME EditInv, NEW r \in Requests, SubmitDelete(r)
    PROVE  EditInv'
<1>1. PICK id \in Existing : Begin(r, [kind |-> "delete", id |-> id])
  BY DEF SubmitDelete
<1> DEFINE w == [kind |-> "delete", id |-> id]
<1>2. w \in Deletes /\ w.kind # "save"
  BY TablesAre DEF EditInv, Deletes
<1>3. Begin(r, w)
  BY <1>1
<1> HIDE DEF w
<1> QED
  BY <1>2, <1>3, BeginStep

\* The form of a group has only read its members.
LEMMA MoveStep ==
    ASSUME EditInv, NEW r \in Requests, SubmitGroup(r)
    PROVE  EditInv'
<1>1. PICK g \in Groups, loc \in Locations, chosen \in SUBSET Existing :
             Begin(r, [kind |-> "group", group |-> g, loc |-> loc, members |-> chosen])
  BY DEF SubmitGroup
<1> DEFINE w == [kind |-> "group", group |-> g, loc |-> loc, members |-> chosen]
<1>2. w \in Moves /\ w.kind # "save"
  BY TablesAre DEF EditInv, Moves
<1>3. Begin(r, w)
  BY <1>1
<1> HIDE DEF w
<1> QED
  BY <1>2, <1>3, BeginStep

\* A request that has ended keeps nothing.
LEMMA EndIs ==
    ASSUME Types, NEW r \in Requests, End(r)
    PROVE  /\ req' \in [Requests -> Saves \union Deletes \union Moves \union {Idle}]
           /\ req'[r] = Idle
           /\ \A s \in Requests \ {r} : req'[s] = req[s]
BY DEF Types, End, Idle

\* What an editor is about to write stays, while no row that a request has read is
\* forgotten.
LEMMA EditorsStay ==
    ASSUME EditInv, NEW r \in Requests, End(r),
           \A i \in turnedOff \cap ReadKeys : i \in turnedOff'
    PROVE  EditorsKeep'
<1> SUFFICES ASSUME NEW s \in Requests, req'[s].kind = "save", ~req'[s].admin,
                    NEW k \in DOMAIN req'[s].rows, ~req'[s].rows[k].emergency
             PROVE  req'[s].rows[k].id \in turnedOff'
  BY DEF EditorsKeep
<1>1. s # r /\ req'[s] = req[s]
  <2>1. req'[r] = Idle /\ \A q \in Requests \ {r} : req'[q] = req[q]
    BY EndIs DEF EditInv
  <2> QED
    BY <2>1 DEF Idle
<1>2. req[s].rows[k].id \in turnedOff
  BY <1>1 DEF EditInv, EditorsKeep
<1>3. req[s].rows[k].id \in ReadKeys
  BY <1>1, ReadKeysOf
<1> QED
  BY <1>1, <1>2, <1>3

\* A deletion takes the row out of every relation, or does nothing.
LEMMA DeletedStep ==
    ASSUME EditInv, NEW r \in Requests, CommitDelete(r)
    PROVE  EditInv'
<1>1. PICK id \in Rows : id = req[r].id
  BY RequestKinds DEF CommitDelete, EditInv, Deletes
<1>2. End(r) /\ group' = group /\ turnedOff' = turnedOff
  BY DEF CommitDelete
<1>3. EditorsKeep'
  BY <1>2, EditorsStay
<1>4. req' \in [Requests -> Saves \union Deletes \union Moves \union {Idle}]
  BY <1>2, EndIs DEF EditInv
<1>5. CASE UNCHANGED <<ext, did, member>>
  <2>1. Types'
    BY <1>2, <1>4, <1>5 DEF EditInv, Types, Database
  <2>2. WholeDatabase(Database)' /\ DisabledByAdmin'
    BY <1>2, <1>5 DEF EditInv, WholeDatabase, Database, DisabledByAdmin, Existing
  <2> QED
    BY <1>3, <2>1, <2>2 DEF EditInv
<1>6. CASE /\ ext' = [ext EXCEPT ![id] = None]
           /\ did' = [d \in Dids |-> IF did[d] = id THEN None ELSE did[d]]
           /\ member' = {m \in member : m[2] # id}
  <2>1. /\ ext \in [Rows -> Columns \union {None}] /\ did \in [Dids -> Rows \union {None}]
        /\ member \subseteq Groups \X Rows
    BY TablesAre DEF EditInv
  <2>2. /\ ext' \in [Rows -> Columns \union {None}] /\ did' \in [Dids -> Rows \union {None}]
        /\ member' \in SUBSET (Groups \X Rows)
    BY <1>6, <2>1
  <2>3. Database' \in Databases
    BY <2>2, DatabaseIn DEF Database
  <2>4. Types'
    BY <1>2, <1>4, <2>3 DEF EditInv, Types
  <2>5. ext'[id] = None /\ \A i \in Rows \ {id} : ext'[i] = ext[i]
    BY <1>6, <2>1
  <2>6. WholeDatabase(Database)'
    <3>1. \A i, j \in Rows :
             (ext'[i] # None /\ ext'[j] # None /\ ext'[i].number = ext'[j].number)
                             => i = j
      BY <2>5 DEF EditInv, WholeDatabase, Database
    <3>2. ASSUME NEW d \in Dids, did'[d] # None PROVE ext'[did'[d]] # None
      <4>1. did'[d] = did[d] /\ did[d] # id /\ did[d] \in Rows
        BY <1>6, <2>1, <3>2
      <4>2. ext[did[d]] # None
        BY <3>2, <4>1 DEF EditInv, WholeDatabase, Database
      <4> QED
        BY <2>5, <4>1, <4>2
    <3>3. ASSUME NEW m \in member' PROVE ext'[m[2]] # None
      <4>1. m \in member /\ m[2] # id /\ m[2] \in Rows
        BY <1>6, <2>1, <3>3
      <4>2. ext[m[2]] # None
        BY <4>1 DEF EditInv, WholeDatabase, Database
      <4> QED
        BY <2>5, <4>1, <4>2
    <3> QED
      BY <3>1, <3>2, <3>3 DEF WholeDatabase, Database
  <2>7. DisabledByAdmin'
    BY <1>2, <2>5 DEF EditInv, DisabledByAdmin, Existing
  <2> QED
    BY <1>3, <2>4, <2>6, <2>7 DEF EditInv
<1> QED
  BY <1>1, <1>5, <1>6 DEF CommitDelete

\* A group that moves has members that are there, or nothing is written.
LEMMA MovedStep ==
    ASSUME EditInv, NEW r \in Requests, CommitGroup(r)
    PROVE  EditInv'
<1>1. PICK w \in Moves : w = req[r]
  BY RequestKinds DEF CommitGroup, EditInv
<1>2. End(r) /\ ext' = ext /\ did' = did /\ turnedOff' = turnedOff
  BY DEF CommitGroup
<1>3. EditorsKeep'
  BY <1>2, EditorsStay
<1>4. req' \in [Requests -> Saves \union Deletes \union Moves \union {Idle}]
  BY <1>2, EndIs DEF EditInv
<1>5. /\ ext \in [Rows -> Columns \union {None}] /\ did \in [Dids -> Rows \union {None}]
      /\ member \subseteq Groups \X Rows /\ group \in [Groups -> Locations]
  BY TablesAre DEF EditInv, Types
<1>6. /\ group' \in [Groups -> Locations] /\ member' \in SUBSET (Groups \X Rows)
      /\ \A m \in member' : ext[m[2]] # None
  <2>1. \A m \in member : ext[m[2]] # None
    BY DEF EditInv, WholeDatabase, Database
  <2>2. CASE UNCHANGED <<group, member>>
    BY <1>5, <2>1, <2>2
  <2>3. CASE /\ w.members \subseteq Existing
             /\ group' = [group EXCEPT ![w.group] = w.loc]
             /\ member' = {m \in member : m[1] # w.group} \union ({w.group} \X w.members)
    <3>1. w.group \in Groups /\ w.loc \in Locations /\ w.members \subseteq Rows
      BY DEF Moves
    <3>2. \A m \in {w.group} \X w.members : ext[m[2]] # None /\ m \in Groups \X Rows
      BY <2>3, <3>1 DEF Existing
    <3> QED
      BY <1>5, <2>1, <2>3, <3>1, <3>2
  <2> QED
    BY <1>1, <2>2, <2>3 DEF CommitGroup
<1>7. Database' \in Databases
  BY <1>2, <1>5, <1>6, DatabaseIn DEF Database
<1>8. Types'
  BY <1>2, <1>4, <1>6, <1>7 DEF EditInv, Types
<1>9. WholeDatabase(Database)' /\ DisabledByAdmin'
  BY <1>2, <1>6 DEF EditInv, WholeDatabase, Database, DisabledByAdmin, Existing
<1> QED
  BY <1>3, <1>8, <1>9 DEF EditInv

\* The rows that a request writes in full, and what the step makes of the log and the rows
\* turned off.
Written(r) ==
    LET rows == req[r].rows
        end == After(rows)[Len(rows)]
        off == {Key(rows, k) : k \in {l \in DOMAIN rows : ~rows[l].emergency}}
        new == {Key(rows, k) : k \in {l \in DOMAIN rows : rows[l].id = None}} IN
    /\ \A k \in DOMAIN rows : Unique(After(rows)[k - 1], Key(rows, k), rows[k])
    /\ ext' = end.ext /\ did' = end.did /\ member' = end.member
    /\ audit' = {<<"success", Key(rows, k)>> : k \in {l \in DOMAIN rows : rows[l].logs}}
    /\ turnedOff' = (turnedOff \ new) \union (IF req[r].admin THEN off ELSE {})

\* A transaction leaves the database after its last row, or does nothing.
LEMMA CommitIs ==
    ASSUME TablesAssumption, Types, NEW r \in Requests, CommitSave(r)
    PROVE  /\ req[r] \in Saves /\ req[r].kind = "save" /\ Writable(req[r].rows)
           /\ End(r) /\ group' = group
           /\ Written(r) \/ (audit' = {} /\ UNCHANGED <<ext, did, member, turnedOff>>)
<1>1. req[r] \in Saves /\ req[r].kind = "save"
  BY RequestKinds DEF CommitSave
<1>2. req[r].rows \in Seq(SaveRows)
  BY <1>1 DEF Saves
<1>3. Cardinality(NewRows(req[r].rows, Len(req[r].rows))) <= Cardinality(FreshKeys(Database))
  <2>1. DOMAIN req[r].rows = 1..Len(req[r].rows)
    BY <1>2
  <2>2. {k \in DOMAIN req[r].rows : req[r].rows[k].id = None}
          = NewRows(req[r].rows, Len(req[r].rows))
    BY <2>1 DEF NewRows
  <2> QED
    BY <2>2 DEF CommitSave
<1>4. Writable(req[r].rows)
  BY <1>1, <1>2, <1>3, ReadKeysOf DEF Writable, Types
<1>5. Written(r) \/ (audit' = {} /\ UNCHANGED <<ext, did, member, turnedOff>>)
  BY DEF CommitSave, Written, Key
<1>6. End(r) /\ group' = group
  BY DEF CommitSave
<1> QED
  BY <1>1, <1>4, <1>5, <1>6

\* A row that is inserted has a key that no request has read.
LEMMA InsertedIsFresh ==
    ASSUME TablesAssumption, NEW rows, Writable(rows), NEW k \in DOMAIN rows, rows[k].id = None
    PROVE  Key(rows, k) \in Rows \ ReadKeys
BY KeysAre DEF FreshKeys

\* What a request saves keeps the database whole, and the rows that editors have read
\* stay those that an administrator turned off: a key that is read is not given away.
LEMMA SavedStep ==
    ASSUME TablesAssumption, EditInv, NEW r \in Requests, CommitSave(r)
    PROVE  EditInv'
<1>1. Types
  BY DEF EditInv
<1>2. /\ req[r] \in Saves /\ req[r].kind = "save" /\ Writable(req[r].rows)
      /\ End(r) /\ group' = group
      /\ Written(r) \/ (audit' = {} /\ UNCHANGED <<ext, did, member, turnedOff>>)
  BY <1>1, CommitIs
<1>3. req' \in [Requests -> Saves \union Deletes \union Moves \union {Idle}]
  BY <1>1, <1>2, EndIs
<1>4. CASE UNCHANGED <<ext, did, member, turnedOff>>
  <2>1. EditorsKeep'
    BY <1>2, <1>4, EditorsStay
  <2>2. Types'
    BY <1>2, <1>3, <1>4 DEF EditInv, Types, Database
  <2>3. WholeDatabase(Database)' /\ DisabledByAdmin'
    BY <1>4 DEF EditInv, WholeDatabase, Database, DisabledByAdmin, Existing
  <2> QED
    BY <2>1, <2>2, <2>3 DEF EditInv
<1>5. CASE Written(r)
  <2>1. PICK rows : rows = req[r].rows
    OBVIOUS
  <2>2. Writable(rows) /\ rows \in Seq(SaveRows) /\ DOMAIN rows = 1..Len(rows)
        /\ Len(rows) \in Nat
    BY <1>2, <2>1 DEF Writable
  <2>3. PICK end \in Databases : end = After(rows)[Len(rows)]
    BY <2>2, KeysAre
  <2> DEFINE off == {Key(rows, k) : k \in {l \in DOMAIN rows : ~rows[l].emergency}}
             new == {Key(rows, k) : k \in {l \in DOMAIN rows : rows[l].id = None}}
  <2>4. /\ \A k \in DOMAIN rows : Unique(After(rows)[k - 1], Key(rows, k), rows[k])
        /\ ext' = end.ext /\ did' = end.did /\ member' = end.member
        /\ turnedOff' = (turnedOff \ new) \union (IF req[r].admin THEN off ELSE {})
    BY <1>5, <2>1, <2>3 DEF Written
  <2>5. Database' = end
    BY <2>4 DEF Databases, Database
  <2>6. off \subseteq Rows
    BY <2>2, KeysAre
  <2>7. new \cap ReadKeys = {}
    BY <2>2, InsertedIsFresh
  <2>8. EditorsKeep'
    <3>1. \A i \in turnedOff \cap ReadKeys : i \in turnedOff'
      BY <2>4, <2>7
    <3> QED
      BY <1>2, <3>1, EditorsStay
  <2>9. Types'
    <3>1. turnedOff' \subseteq Rows
      BY <1>1, <2>4, <2>6 DEF Types
    <3> QED
      BY <1>1, <1>2, <1>3, <2>5, <3>1 DEF Types
  <2>10. WholeDatabase(end)
    <3> DEFINE S == {db \in Databases : WholeDatabase(db)}
    <3>1. Database \in S
      BY <1>1 DEF EditInv, Types
    <3>2. ASSUME NEW k \in 1..Len(rows), After(rows)[k - 1] \in S PROVE After(rows)[k] \in S
      <4>1. PICK before \in Databases : before = After(rows)[k - 1] /\ WholeDatabase(before)
        BY <3>2
      <4>2. PICK id \in Rows : id = Key(rows, k)
        BY <2>2, KeysAre
      <4>3. rows[k] \in SaveRows /\ Unique(before, id, rows[k])
        BY <2>2, <2>4, <4>1, <4>2
      <4>4. After(rows)[k] = Saved(before, id, rows[k])
        BY <2>2, <4>1, <4>2, KeysAre
      <4>5. WholeDatabase(Saved(before, id, rows[k]))
            /\ Saved(before, id, rows[k]) \in Databases
        BY <4>1, <4>3, SavedWhole, SavedIs
      <4> QED
        BY <4>4, <4>5
    <3>3. \A k \in 0..Len(rows) : After(rows)[k] \in S
      <4> HIDE DEF S
      <4> QED
        BY <2>2, <3>1, <3>2, EndsIn
    <3> QED
      BY <2>2, <2>3, <3>3
  <2>11. WholeDatabase(Database)'
    BY <2>5, <2>10 DEF WholeDatabase
  <2>12. DisabledByAdmin'
    <3> SUFFICES ASSUME NEW i \in Rows, ext'[i] # None, ~ext'[i].emergency
        PROVE i \in turnedOff'
      BY DEF DisabledByAdmin, Existing
    <3>1. CASE ext'[i] = ext[i] /\ \A l \in 1..Len(rows) : Key(rows, l) # i
      <4>1. i \in turnedOff
        BY <3>1 DEF EditInv, DisabledByAdmin, Existing
      <4>2. i \notin new
        BY <2>2, <3>1
      <4> QED
        BY <2>4, <4>1, <4>2
    <3>2. CASE \E l \in 1..Len(rows) : Key(rows, l) = i /\ ext'[i] = ColumnsOf(rows[l])
      <4>1. PICK l \in DOMAIN rows : Key(rows, l) = i /\ ~rows[l].emergency
        BY <2>2, <3>2 DEF ColumnsOf
      <4>2. CASE req[r].admin
        BY <2>4, <4>1, <4>2
      <4>3. CASE ~req[r].admin
        <5>1. rows[l].id \in turnedOff
          BY <1>2, <2>1, <4>1, <4>3 DEF EditInv, EditorsKeep
        <5>2. rows[l].id # None
          BY <1>1, <5>1 DEF Types, TablesAssumption
        <5>3. i = rows[l].id
          BY <2>2, <4>1, <5>2, KeysAre
        <5>4. i \in ReadKeys
          BY <1>2, <2>1, <5>3, ReadKeysOf
        <5> QED
          BY <2>4, <2>7, <5>1, <5>3, <5>4
      <4> QED
        BY <4>2, <4>3
    <3>3. \/ end.ext[i] = ext[i] /\ \A l \in 1..Len(rows) : Key(rows, l) # i
          \/ \E l \in 1..Len(rows) : Key(rows, l) = i /\ end.ext[i] = ColumnsOf(rows[l])
      BY <2>2, <2>3, ColumnsAre
    <3> QED
      BY <2>4, <3>1, <3>2, <3>3
  <2> QED
    BY <2>8, <2>9, <2>11, <2>12 DEF EditInv
<1> QED
  BY <1>2, <1>4, <1>5

-----------------------------------------------------------------------------
\* Every step keeps the invariant.
LEMMA EditNext ==
    ASSUME TablesAssumption, EditInv, [Next]_vars
    PROVE  EditInv'
<1>1. CASE UNCHANGED vars
  BY <1>1 DEF vars, EditInv, Types, WholeDatabase, Database, DisabledByAdmin, Existing,
     EditorsKeep
<1>2. ASSUME NEW r \in Requests, NEW admin \in BOOLEAN, SubmitForm(r, admin) PROVE EditInv'
  BY <1>2, FormStep
<1>3. ASSUME NEW r \in Requests, NEW admin \in BOOLEAN, SubmitFile(r, admin) PROVE EditInv'
  BY <1>3, FileStep
<1>4. ASSUME NEW r \in Requests, SubmitDelete(r) PROVE EditInv'
  BY <1>4, DeletionStep
<1>5. ASSUME NEW r \in Requests, SubmitGroup(r) PROVE EditInv'
  BY <1>5, MoveStep
<1>6. ASSUME NEW r \in Requests, CommitSave(r) PROVE EditInv'
  BY <1>6, SavedStep
<1>7. ASSUME NEW r \in Requests, CommitDelete(r) PROVE EditInv'
  BY <1>7, DeletedStep
<1>8. ASSUME NEW r \in Requests, CommitGroup(r) PROVE EditInv'
  BY <1>8, MovedStep
<1> QED
  BY <1>1, <1>2, <1>3, <1>4, <1>5, <1>6, <1>7, <1>8 DEF Next

\* The inductive invariant of the requests about extensions, for any number of them that
\* overlap: tables are whole, and emergency calling is off in no extension, and about to be
\* saved off by no editor, that an administrator did not turn off.
THEOREM EditInvariant == Spec => []EditInv
<1>1. Init => EditInv
  BY EditInit, HomesAssumption, TablesAssumption
<1>2. EditInv /\ [Next]_vars => EditInv'
  BY EditNext, TablesAssumption
<1> QED
  BY <1>1, <1>2, PTL DEF Spec

\* The tables keep their constraints, with any number of requests at once: numbers stay
\* unique although each is looked for before the transaction that writes it
\* (ExtensionForm.clean_number, extension_import).
THEOREM EditTypes == Spec => []TypeOK
<1>1. EditInv => TypeOK
  <2> SUFFICES ASSUME EditInv PROVE TypeOK
    OBVIOUS
  <2>1. /\ ext \in [Rows -> Columns \union {None}] /\ did \in [Dids -> Rows \union {None}]
        /\ member \subseteq Groups \X Rows /\ turnedOff \subseteq Rows
    BY TablesAre DEF EditInv, Types
  <2>2. \A i \in Existing : /\ ext[i].number \in Numbers /\ ext[i].loc \in Locations
                            /\ ext[i].emergency \in BOOLEAN
    BY <2>1 DEF Existing, Columns
  <2>3. /\ \A i, j \in Existing : ext[i].number = ext[j].number => i = j
        /\ \A d \in Dids : did[d] \in Existing \union {None}
        /\ \A m \in member : m[1] \in Groups /\ m[2] \in Existing
    BY <2>1 DEF EditInv, WholeDatabase, Database, Existing
  <2> QED
    BY <2>1, <2>2, <2>3 DEF TypeOK
<1> QED
  BY <1>1, EditInvariant, PTL

\* Emergency calling is off only in extensions that an administrator saved so, for any
\* rows, files and number of overlapping requests (extension_update, extension_import).
THEOREM OffByAdministrators == Spec => []DisabledByAdmin
<1>1. EditInv => DisabledByAdmin
  BY DEF EditInv
<1> QED
  BY <1>1, EditInvariant, PTL

-----------------------------------------------------------------------------
(* One request at a time: what it read still holds when it writes.         *)

\* A row that would be read in the same way again.
StillFits(row) ==
    /\ row.id # None => ext[row.id] # None
    /\ row.dids \subseteq SelectableDids(row.loc, row.id)
    /\ row.groups \subseteq SelectableGroups(row.loc)
    /\ row.logs = LogsDisable(row.id, row.emergency)

MembersFit(w) == \A i \in w.members : ext[i] # None /\ ext[i].loc = w.loc

\* The inductive invariant where requests follow each other.
SerialInv ==
    /\ \A r \in Requests :
          /\ req[r].kind = "save" =>
                \A k \in DOMAIN req[r].rows : StillFits(req[r].rows[k])
          /\ req[r].kind = "group" => MembersFit(req[r])
    /\ RelationsLocal

\* A request that reads: nothing is written, and what is kept fits.
LEMMA SerialBegin ==
    ASSUME OneRequest, EditInv, SerialInv, NEW r \in Requests,
           NEW w \in Saves \union Deletes \union Moves \union {Idle}, Begin(r, w),
           w.kind = "save" => \A k \in DOMAIN w.rows : StillFits(w.rows[k]),
           w.kind = "group" => MembersFit(w)
    PROVE  SerialInv'
<1>1. /\ ext' = ext /\ did' = did /\ member' = member /\ group' = group
      /\ \A s \in Requests : req'[s] = w
  BY DEF Begin, OneRequest, EditInv, Types
<1>2. RelationsLocal'
  BY <1>1 DEF SerialInv, RelationsLocal
<1>3. ASSUME NEW s \in Requests, req'[s].kind = "save"
      PROVE  (\A k \in DOMAIN req[s].rows : StillFits(req[s].rows[k]))'
  <2>1. w.kind = "save"
    BY <1>1, <1>3
  <2>2. ASSUME NEW k \in DOMAIN w.rows PROVE StillFits(w.rows[k])'
    <3>1. StillFits(w.rows[k])
      BY <2>1
    <3> QED
      BY <1>1, <3>1 DEF StillFits, SelectableDids, SelectableGroups, LogsDisable,
                        DisablesEmergency, OriginalEnabled
  <2> QED
    BY <1>1, <2>2 DEF StillFits, SelectableDids, SelectableGroups, LogsDisable,
                      DisablesEmergency, OriginalEnabled
<1>4. ASSUME NEW s \in Requests, req'[s].kind = "group" PROVE MembersFit(req[s])'
  BY <1>1, <1>4 DEF MembersFit
<1> QED
  BY <1>2, <1>3, <1>4 DEF SerialInv

\* The row that a request makes of what it read.
LEMMA RowFits ==
    ASSUME NEW id \in Existing \union {None}, NEW number, NEW loc, NEW enabled,
           NEW dids \in SUBSET SelectableDids(loc, id),
           NEW groups \in SUBSET SelectableGroups(loc)
    PROVE  StillFits(Row(id, number, loc, enabled, dids, groups))
BY DEF StillFits, Row, Existing

\* A form chooses DIDs and groups of the extension's location.
LEMMA SerialForm ==
    ASSUME OneRequest, EditInv, SerialInv, NEW r \in Requests, NEW admin \in BOOLEAN,
           SubmitForm(r, admin)
    PROVE  SerialInv'
<1>1. PICK id \in Existing \union {None}, number \in Numbers, loc \in Locations,
           enabled \in BOOLEAN :
        \E dids \in SUBSET SelectableDids(loc, id), groups \in SUBSET SelectableGroups(loc) :
             \/ Begin(r, Idle)
             \/ Begin(r, [kind |-> "save", admin |-> admin,
                          rows |-> <<Row(id, number, loc, enabled, dids, groups)>>])
  BY DEF SubmitForm
<1>2. PICK dids \in SUBSET SelectableDids(loc, id), groups \in SUBSET SelectableGroups(loc) :
             \/ Begin(r, Idle)
             \/ Begin(r, [kind |-> "save", admin |-> admin,
                          rows |-> <<Row(id, number, loc, enabled, dids, groups)>>])
  BY <1>1
<1> DEFINE row == Row(id, number, loc, enabled, dids, groups)
           w == [kind |-> "save", admin |-> admin, rows |-> <<row>>]
<1>3. CASE Begin(r, Idle)
  BY <1>3, SerialBegin DEF Idle
<1>4. CASE Begin(r, w)
  <2>1. StillFits(row)
    BY RowFits
  <2>2. row \in SaveRows
    <3>1. dids \in SUBSET Dids /\ groups \in SUBSET Groups
      BY DEF SelectableDids, SelectableGroups
    <3> QED
      BY <3>1, RowIs
  <2> HIDE DEF row
  <2>3. w \in Saves /\ w.kind = "save" /\ w.rows = <<row>>
    BY <2>2 DEF Saves
  <2>4. \A k \in DOMAIN w.rows : StillFits(w.rows[k])
    BY <2>1, <2>3
  <2> HIDE DEF w
  <2> QED
    BY <1>4, <2>3, <2>4, SerialBegin
<1> QED
  BY <1>2, <1>3, <1>4

\* The lines of a file without an error do too.
LEMMA SerialFile ==
    ASSUME TablesAssumption, OneRequest, EditInv, SerialInv, NEW r \in Requests,
           NEW admin \in BOOLEAN, SubmitFile(r, admin)
    PROVE  SerialInv'
<1> DEFINE RowOf(file, k) == Row(Named(file[k].number), file[k].number, file[k].loc,
                                 Cell(file[k]), file[k].dids, file[k].groups)
           W(file) == [kind |-> "save", admin |-> admin,
                       rows |-> [k \in DOMAIN file |-> RowOf(file, k)]]
<1>1. PICK file \in Files :
             \/ Begin(r, Idle)
             \/ GoodLines(file, admin) = DOMAIN file /\ Begin(r, W(file))
  BY DEF SubmitFile
<1>2. CASE Begin(r, Idle)
  BY <1>2, SerialBegin DEF Idle
<1>3. CASE GoodLines(file, admin) = DOMAIN file /\ Begin(r, W(file))
  <2>1. file \in Seq(FileLines) /\ DOMAIN file = 1..Len(file) /\ Len(file) \in Nat
    <3>1. file \in Seq(FileLines)
      BY DEF TablesAssumption
    <3> QED
      BY <3>1
  <2>2. ASSUME NEW k \in DOMAIN file
        PROVE  /\ RowOf(file, k) \in SaveRows
               /\ StillFits(RowOf(file, k))
    <3>1. /\ file[k].number \in Numbers /\ file[k].loc \in Locations
          /\ file[k].dids \in SUBSET Dids /\ file[k].groups \in SUBSET Groups
          /\ file[k].emergency \in BOOLEAN \union {None}
      <4>1. PICK line \in FileLines : line = file[k]
        BY <2>1
      <4> QED
        BY <4>1 DEF FileLines
    <3>2. Named(file[k].number) \in Existing \union {None}
      BY DEF Named
    <3>3. Cell(file[k]) \in BOOLEAN
      BY <3>1, <3>2, RowIs DEF Cell
    <3>4. RowOf(file, k) \in SaveRows
      BY <3>1, <3>2, <3>3, RowIs
    <3>5. /\ file[k].dids \in SUBSET SelectableDids(file[k].loc, Named(file[k].number))
          /\ file[k].groups \in SUBSET SelectableGroups(file[k].loc)
      BY <1>3 DEF GoodLines
    <3>6. StillFits(RowOf(file, k))
      BY <3>2, <3>5, RowFits
    <3> QED
      BY <3>4, <3>6
  <2> HIDE DEF RowOf
  <2>3. W(file) \in Saves
    <3>1. [k \in DOMAIN file |-> RowOf(file, k)] \in Seq(SaveRows)
      BY <2>1, <2>2
    <3> QED
      BY <3>1 DEF Saves
  <2>4. \A k \in DOMAIN W(file).rows : StillFits(W(file).rows[k])
    BY <2>2
  <2> DEFINE w == W(file)
  <2>5. Begin(r, w) /\ w.kind = "save"
    BY <1>3
  <2> HIDE DEF W
  <2> QED
    BY <2>3, <2>4, <2>5, SerialBegin
<1> QED
  BY <1>1, <1>2, <1>3

\* A deletion reads a row that is there.
LEMMA SerialDeletion ==
    ASSUME OneRequest, EditInv, SerialInv, NEW r \in Requests, SubmitDelete(r)
    PROVE  SerialInv'
<1>1. PICK id \in Existing : Begin(r, [kind |-> "delete", id |-> id])
  BY DEF SubmitDelete
<1> DEFINE w == [kind |-> "delete", id |-> id]
<1>2. w \in Deletes /\ w.kind # "save" /\ w.kind # "group" /\ Begin(r, w)
  BY <1>1, TablesAre DEF EditInv, Deletes
<1> HIDE DEF w
<1> QED
  BY <1>2, SerialBegin

\* The form of a group chooses members of the location it moves to.
LEMMA SerialMove ==
    ASSUME OneRequest, EditInv, SerialInv, NEW r \in Requests, SubmitGroup(r)
    PROVE  SerialInv'
<1>1. PICK g \in Groups, loc \in Locations, chosen \in SUBSET Existing :
             /\ \A i \in chosen : ext[i].loc = loc
             /\ Begin(r, [kind |-> "group", group |-> g, loc |-> loc, members |-> chosen])
  BY DEF SubmitGroup
<1> DEFINE w == [kind |-> "group", group |-> g, loc |-> loc, members |-> chosen]
<1>2. w \in Moves /\ w.kind = "group" /\ Begin(r, w) /\ MembersFit(w)
  BY <1>1, TablesAre DEF EditInv, Moves, MembersFit, Existing
<1> HIDE DEF w
<1> QED
  BY <1>2, SerialBegin

\* When the only request has ended, what is left to show is about the tables.
LEMMA SerialEnd ==
    ASSUME OneRequest, Types, NEW r \in Requests, End(r), RelationsLocal'
    PROVE  SerialInv'
<1>1. \A s \in Requests : req'[s] = Idle
  BY EndIs DEF OneRequest
<1> QED
  BY <1>1 DEF SerialInv, Idle

\* Where an extension is deleted, its relations go with it.
LEMMA SerialDeleted ==
    ASSUME OneRequest, EditInv, SerialInv, NEW r \in Requests, CommitDelete(r)
    PROVE  SerialInv'
<1>1. End(r) /\ group' = group /\ Types
  BY DEF CommitDelete, EditInv
<1>2. CASE UNCHANGED <<ext, did, member>>
  <2>1. RelationsLocal'
    BY <1>1, <1>2 DEF SerialInv, RelationsLocal
  <2> QED
    BY <1>1, <2>1, SerialEnd
<1>3. CASE ~ UNCHANGED <<ext, did, member>>
  <2>1. PICK id \in Rows : id = req[r].id
    BY RequestKinds DEF CommitDelete, EditInv, Deletes
  <2>2. /\ ext' = [ext EXCEPT ![id] = None]
        /\ did' = [d \in Dids |-> IF did[d] = id THEN None ELSE did[d]]
        /\ member' = {m \in member : m[2] # id}
    BY <1>3, <2>1 DEF CommitDelete
  <2>3. /\ ext \in [Rows -> Columns \union {None}] /\ did \in [Dids -> Rows \union {None}]
        /\ member \subseteq Groups \X Rows
    BY <1>1, TablesAre
  <2>4. ASSUME NEW m \in member' PROVE ext'[m[2]].loc = group'[m[1]]
    BY <1>1, <2>2, <2>3, <2>4 DEF SerialInv, RelationsLocal
  <2>5. ASSUME NEW d \in Dids, did'[d] # None PROVE ext'[did'[d]].loc = DidHome[d]
    BY <2>2, <2>3, <2>5 DEF SerialInv, RelationsLocal
  <2>6. RelationsLocal'
    BY <2>4, <2>5 DEF RelationsLocal
  <2> QED
    BY <1>1, <2>6, SerialEnd
<1> QED
  BY <1>2, <1>3

\* A group that moves leaves the members it had, and takes those of its new location.
LEMMA SerialMoved ==
    ASSUME OneRequest, EditInv, SerialInv, NEW r \in Requests, CommitGroup(r)
    PROVE  SerialInv'
<1>1. PICK w \in Moves : w = req[r] /\ w.kind = "group"
  BY RequestKinds DEF CommitGroup, EditInv
<1>2. End(r) /\ ext' = ext /\ did' = did /\ Types
  BY DEF CommitGroup, EditInv
<1>3. CASE UNCHANGED <<group, member>>
  <2>1. RelationsLocal'
    BY <1>2, <1>3 DEF SerialInv, RelationsLocal
  <2> QED
    BY <1>2, <2>1, SerialEnd
<1>4. CASE /\ group' = [group EXCEPT ![w.group] = w.loc]
           /\ member' = {m \in member : m[1] # w.group} \union ({w.group} \X w.members)
  <2>1. /\ w.group \in Groups /\ w.loc \in Locations /\ group \in [Groups -> Locations]
        /\ member \subseteq Groups \X Rows /\ MembersFit(w)
    BY <1>1, <1>2, TablesAre DEF Moves, Types, SerialInv
  <2>2. ASSUME NEW m \in member' PROVE ext[m[2]].loc = group'[m[1]]
    <3>1. CASE m \in member /\ m[1] # w.group
      BY <1>4, <2>1, <3>1 DEF SerialInv, RelationsLocal
    <3>2. CASE m \in {w.group} \X w.members
      BY <1>4, <2>1, <3>2 DEF MembersFit
    <3> QED
      BY <1>4, <2>2, <3>1, <3>2
  <2>3. RelationsLocal'
    BY <1>2, <2>2 DEF SerialInv, RelationsLocal
  <2> QED
    BY <1>2, <2>3, SerialEnd
<1> QED
  BY <1>1, <1>3, <1>4 DEF CommitGroup

\* RelationsLocal of a database and the locations of the groups.
LocalDatabase(db, home) ==
    /\ \A m \in db.member : db.ext[m[2]].loc = home[m[1]]
    /\ \A d \in Dids : db.did[d] # None => db.ext[db.did[d]].loc = DidHome[d]

\* A saved row has relations of its own location, and the others keep theirs.
LEMMA SavedLocal ==
    ASSUME TablesAssumption, NEW before \in Databases, NEW id \in Rows, NEW row \in SaveRows,
           NEW home \in [Groups -> Locations], LocalDatabase(before, home),
           \A d \in row.dids : DidHome[d] = row.loc, \A g \in row.groups : home[g] = row.loc
    PROVE  LocalDatabase(Saved(before, id, row), home)
<1> DEFINE after == Saved(before, id, row)
<1>1. /\ \A i \in Rows : after.ext[i] = IF i = id THEN ColumnsOf(row) ELSE before.ext[i]
      /\ \A d \in Dids : after.did[d] = IF d \in row.dids THEN id
                                        ELSE IF before.did[d] = id THEN None ELSE before.did[d]
      /\ after.member = {m \in before.member : m[2] # id} \union {<<g, id>> : g \in row.groups}
      /\ ColumnsOf(row).loc = row.loc
  BY SavedIs DEF ColumnsOf
<1>2. before.member \subseteq Groups \X Rows /\ before.did \in [Dids -> Rows \union {None}]
  BY DEF Databases
<1> HIDE DEF after
<1>3. ASSUME NEW m \in after.member PROVE after.ext[m[2]].loc = home[m[1]]
  <2>1. CASE m \in before.member /\ m[2] # id
    <3>1. m[2] \in Rows /\ before.ext[m[2]].loc = home[m[1]]
      BY <1>2, <2>1 DEF LocalDatabase
    <3> QED
      BY <1>1, <2>1, <3>1
  <2>2. CASE \E g \in row.groups : m = <<g, id>>
    <3>1. PICK g \in row.groups : m = <<g, id>>
      BY <2>2
    <3>2. m[1] = g /\ m[2] = id
      BY <3>1
    <3> QED
      BY <1>1, <3>2
  <2> QED
    BY <1>1, <1>3, <2>1, <2>2
<1>4. ASSUME NEW d \in Dids, after.did[d] # None PROVE after.ext[after.did[d]].loc = DidHome[d]
  <2>1. CASE d \in row.dids
    BY <1>1, <2>1
  <2>2. CASE d \notin row.dids
    <3>1. after.did[d] = before.did[d] /\ before.did[d] # id /\ before.did[d] \in Rows
      BY <1>1, <1>2, <1>4, <2>2
    <3>2. before.ext[before.did[d]].loc = DidHome[d]
      BY <1>4, <3>1 DEF LocalDatabase
    <3> QED
      BY <1>1, <3>1, <3>2
  <2> QED
    BY <2>1, <2>2
<1>5. LocalDatabase(after, home)
  BY <1>3, <1>4 DEF LocalDatabase
<1> QED
  BY <1>5 DEF after

\* All rows of a request, one after the other.
LEMMA SerialSaved ==
    ASSUME TablesAssumption, OneRequest, EditInv, SerialInv, NEW r \in Requests, CommitSave(r)
    PROVE  SerialInv'
<1>1. Types
  BY DEF EditInv
<1>2. /\ req[r].kind = "save" /\ Writable(req[r].rows) /\ End(r) /\ group' = group
      /\ Written(r) \/ UNCHANGED <<ext, did, member, turnedOff>>
  BY <1>1, CommitIs
<1>3. CASE UNCHANGED <<ext, did, member, turnedOff>>
  <2>1. RelationsLocal'
    BY <1>2, <1>3 DEF SerialInv, RelationsLocal
  <2> QED
    BY <1>1, <1>2, <2>1, SerialEnd
<1>4. CASE Written(r)
  <2>1. PICK rows : rows = req[r].rows
    OBVIOUS
  <2>2. Writable(rows) /\ rows \in Seq(SaveRows) /\ DOMAIN rows = 1..Len(rows)
        /\ Len(rows) \in Nat
    BY <1>2, <2>1 DEF Writable
  <2>3. PICK end \in Databases : end = After(rows)[Len(rows)]
    BY <2>2, KeysAre
  <2>4. ext' = end.ext /\ did' = end.did /\ member' = end.member
    BY <1>4, <2>1, <2>3 DEF Written
  <2>5. PICK home \in [Groups -> Locations] : home = group
    BY <1>1 DEF Types
  <2> DEFINE S == {db \in Databases : LocalDatabase(db, home)}
  <2>6. Database \in S
    BY <1>1, <2>5 DEF Types, SerialInv, RelationsLocal, LocalDatabase, Database
  <2>7. ASSUME NEW k \in 1..Len(rows), After(rows)[k - 1] \in S PROVE After(rows)[k] \in S
    <3>1. PICK before \in Databases : before = After(rows)[k - 1] /\ LocalDatabase(before, home)
      BY <2>7
    <3>2. PICK id \in Rows : id = Key(rows, k)
      BY <2>2, KeysAre
    <3>3. PICK row \in SaveRows : row = rows[k]
      BY <2>2
    <3>4. (\A d \in row.dids : DidHome[d] = row.loc) /\ \A g \in row.groups : home[g] = row.loc
      BY <1>2, <2>1, <2>2, <2>5, <3>3 DEF SerialInv, StillFits, SelectableDids, SelectableGroups
    <3>5. After(rows)[k] = Saved(before, id, row)
      BY <2>2, <3>1, <3>2, <3>3, KeysAre
    <3>6. LocalDatabase(Saved(before, id, row), home) /\ Saved(before, id, row) \in Databases
      BY <3>1, <3>4, SavedLocal, SavedIs
    <3> QED
      BY <3>5, <3>6
  <2>8. \A k \in 0..Len(rows) : After(rows)[k] \in S
    <3> HIDE DEF S
    <3> QED
      BY <2>2, <2>6, <2>7, EndsIn
  <2>9. LocalDatabase(end, home)
    BY <2>2, <2>3, <2>8
  <2>10. RelationsLocal'
    BY <1>2, <2>4, <2>5, <2>9 DEF LocalDatabase, RelationsLocal
  <2> QED
    BY <1>1, <1>2, <2>10, SerialEnd
<1> QED
  BY <1>2, <1>3, <1>4

\* Every step keeps the invariant of requests that follow each other.
LEMMA SerialNext ==
    ASSUME TablesAssumption, OneRequest, EditInv, SerialInv, [Next]_vars
    PROVE  SerialInv'
<1>1. CASE UNCHANGED vars
  BY <1>1 DEF vars, SerialInv, RelationsLocal, MembersFit, StillFits, SelectableDids,
              SelectableGroups, LogsDisable, DisablesEmergency, OriginalEnabled
<1>2. ASSUME NEW r \in Requests, NEW admin \in BOOLEAN, SubmitForm(r, admin) PROVE SerialInv'
  BY <1>2, SerialForm
<1>3. ASSUME NEW r \in Requests, NEW admin \in BOOLEAN, SubmitFile(r, admin) PROVE SerialInv'
  BY <1>3, SerialFile
<1>4. ASSUME NEW r \in Requests, SubmitDelete(r) PROVE SerialInv'
  BY <1>4, SerialDeletion
<1>5. ASSUME NEW r \in Requests, SubmitGroup(r) PROVE SerialInv'
  BY <1>5, SerialMove
<1>6. ASSUME NEW r \in Requests, CommitSave(r) PROVE SerialInv'
  BY <1>6, SerialSaved
<1>7. ASSUME NEW r \in Requests, CommitDelete(r) PROVE SerialInv'
  BY <1>7, SerialDeleted
<1>8. ASSUME NEW r \in Requests, CommitGroup(r) PROVE SerialInv'
  BY <1>8, SerialMoved
<1> QED
  BY <1>1, <1>2, <1>3, <1>4, <1>5, <1>6, <1>7, <1>8 DEF Next

\* No relations at first.
LEMMA SerialInit ==
    ASSUME Init
    PROVE  SerialInv
BY DEF Init, SerialInv, RelationsLocal, Idle

\* The inductive invariant where requests follow each other: what a request has read
\* still fits the tables when it writes.
THEOREM SerialInvariant ==
    ASSUME OneRequest
    PROVE  Spec => [](EditInv /\ SerialInv)
<1>1. Init => SerialInv
  BY SerialInit
<1>2. EditInv /\ SerialInv /\ [Next]_vars => SerialInv'
  BY SerialNext, TablesAssumption
<1> QED
  BY <1>1, <1>2, EditInvariant, PTL DEF Spec

\* The DIDs and groups of an extension are those of its location, wherever it or a group
\* moves, by form or file, when requests follow each other
\* (sync_extension_relationships, RingGroupForm.save).
THEOREM RelationsStayLocal ==
    ASSUME OneRequest
    PROVE  Spec => []RelationsLocal
<1>1. SerialInv => RelationsLocal
  BY DEF SerialInv
<1> QED
  BY <1>1, SerialInvariant, PTL

-----------------------------------------------------------------------------
\* What a row of a form or a file says of emergency calling when it has been written.
LEMMA LoggedSave ==
    ASSUME TablesAssumption, EditInv, SerialInv, NEW r \in Requests, CommitSave(r), Written(r),
           NEW i \in Rows, ext[i] = None \/ ext[i].emergency, ext'[i] # None, ~ext'[i].emergency
    PROVE  <<"success", i>> \in audit'
<1>1. /\ req[r].kind = "save" /\ Writable(req[r].rows)
  BY CommitIs DEF EditInv
<1>2. PICK rows : rows = req[r].rows
  OBVIOUS
<1>3. Writable(rows) /\ rows \in Seq(SaveRows) /\ DOMAIN rows = 1..Len(rows)
      /\ Len(rows) \in Nat
  BY <1>1, <1>2 DEF Writable
<1>4. /\ ext' = After(rows)[Len(rows)].ext
      /\ audit' = {<<"success", Key(rows, k)>> : k \in {l \in DOMAIN rows : rows[l].logs}}
  BY <1>2 DEF Written
<1>5. PICK l \in DOMAIN rows : Key(rows, l) = i /\ ext'[i] = ColumnsOf(rows[l])
  BY <1>3, <1>4, ColumnsAre
<1>6. PICK row \in SaveRows : row = rows[l]
  BY <1>3
<1>7. ~row.emergency
  BY <1>5, <1>6 DEF ColumnsOf
<1>8. StillFits(row)
  BY <1>1, <1>2, <1>6 DEF SerialInv
<1>9. OriginalEnabled(row.id)
  <2>1. row.id # None => row.id = i
    BY <1>3, <1>5, <1>6, KeysAre
  <2> QED
    BY <1>8, <2>1 DEF StillFits, OriginalEnabled
<1>10. row.logs
  BY <1>7, <1>8, <1>9 DEF StillFits, LogsDisable, DisablesEmergency
<1> QED
  BY <1>4, <1>5, <1>6, <1>10

\* The extensions that a step other than a save leaves are those that were there.
LEMMA OthersKeepColumns ==
    ASSUME EditInv, NEW r \in Requests, NEW i \in Rows,
           \/ \E admin \in BOOLEAN : SubmitForm(r, admin) \/ SubmitFile(r, admin)
           \/ SubmitDelete(r) \/ SubmitGroup(r) \/ CommitDelete(r) \/ CommitGroup(r)
    PROVE  ext'[i] = ext[i] \/ ext'[i] = None
<1>1. ASSUME NEW w, Begin(r, w) PROVE ext' = ext
  BY <1>1 DEF Begin
<1>2. CASE \E admin \in BOOLEAN : SubmitForm(r, admin) \/ SubmitFile(r, admin)
  <2>1. ASSUME NEW admin, SubmitForm(r, admin) PROVE \E w : Begin(r, w)
    BY <2>1 DEF SubmitForm
  <2>2. ASSUME NEW admin, SubmitFile(r, admin) PROVE \E w : Begin(r, w)
    BY <2>2 DEF SubmitFile
  <2>3. \E w : Begin(r, w)
    BY ONLY <1>2, <2>1, <2>2
  <2> QED
    BY ONLY <1>1, <2>3
<1>3. CASE SubmitDelete(r) \/ SubmitGroup(r)
  BY <1>1, <1>3 DEF SubmitDelete, SubmitGroup
<1>4. CASE CommitDelete(r)
  BY <1>4, TablesAre DEF CommitDelete, EditInv
<1>5. CASE CommitGroup(r)
  BY <1>5 DEF CommitGroup
<1> QED
  BY <1>2, <1>3, <1>4, <1>5

\* A row whose emergency calling goes off is logged by the step that saves it.
LEMMA LoggedStep ==
    ASSUME TablesAssumption, EditInv, SerialInv, [Next]_vars
    PROVE  DisableIsLogged
<1> SUFFICES ASSUME NEW i \in Rows, ext[i] = None \/ ext[i].emergency, ext'[i] # None,
                    ~ext'[i].emergency
             PROVE  <<"success", i>> \in audit'
  BY DEF DisableIsLogged
<1>1. ext'[i] # ext[i]
  OBVIOUS
<1>2. PICK r \in Requests : CommitSave(r)
  <2>1. Next
    BY <1>1 DEF vars
  <2> QED
    BY <1>1, <2>1, OthersKeepColumns DEF Next
<1>3. Written(r)
  BY <1>1, <1>2, CommitIs DEF EditInv
<1> QED
  BY <1>2, <1>3, LoggedSave

\* Whenever emergency calling goes off, the log has an entry of it, when requests follow
\* each other; with two at once the entry may be missing, as the run extension_unlogged
\* shows (is_911_disable_change).
THEOREM DisablesAreLogged ==
    ASSUME OneRequest
    PROVE  Spec => ForceDisableLogged
<1>1. EditInv /\ SerialInv /\ [Next]_vars => [DisableIsLogged]_vars
  BY LoggedStep, TablesAssumption
<1> QED
  BY <1>1, SerialInvariant, PTL DEF Spec, ForceDisableLogged

-----------------------------------------------------------------------------
\* A row leaves a DID to the extension that has it, or frees it.
LEMMA SavedKeeps ==
    ASSUME TablesAssumption, EditInv, SerialInv, NEW r \in Requests, CommitSave(r), Written(r),
           NEW d \in Dids, did[d] # None, did'[d] # None
    PROVE  did'[d] = did[d]
<1>1. /\ req[r].kind = "save" /\ Writable(req[r].rows)
  BY CommitIs DEF EditInv
<1>2. PICK rows : rows = req[r].rows
  OBVIOUS
<1>3. Writable(rows) /\ rows \in Seq(SaveRows) /\ DOMAIN rows = 1..Len(rows)
      /\ Len(rows) \in Nat
  BY <1>1, <1>2 DEF Writable
<1>4. did' = After(rows)[Len(rows)].did
  BY <1>2 DEF Written
<1>5. PICK old : old = did[d]
  OBVIOUS
<1> DEFINE S == {db \in Databases : db.did[d] \in {old, None}}
<1>6. Database \in S
  BY <1>5 DEF EditInv, Types, Database
<1>7. ASSUME NEW k \in 1..Len(rows), After(rows)[k - 1] \in S PROVE After(rows)[k] \in S
  <2>1. PICK before \in Databases : before = After(rows)[k - 1] /\ before.did[d] \in {old, None}
    BY <1>7
  <2>2. PICK id \in Rows : id = Key(rows, k)
    BY <1>3, KeysAre
  <2>3. PICK row \in SaveRows : row = rows[k]
    BY <1>3
  <2>4. After(rows)[k] = Saved(before, id, row)
    BY <1>3, <2>1, <2>2, <2>3, KeysAre
  <2>5. /\ Saved(before, id, row) \in Databases
        /\ Saved(before, id, row).did[d] = IF d \in row.dids THEN id
                                           ELSE IF before.did[d] = id THEN None ELSE before.did[d]
    BY SavedIs
  <2>6. ASSUME d \in row.dids PROVE id = old
    <3>1. StillFits(row)
      BY <1>1, <1>2, <1>3, <2>3 DEF SerialInv
    <3>2. row.id = old
      BY <1>5, <2>6, <3>1 DEF StillFits, SelectableDids
    <3> QED
      BY <1>3, <1>5, <2>2, <2>3, <3>2, KeysAre
  <2> QED
    BY <2>1, <2>4, <2>5, <2>6
<1>8. \A k \in 0..Len(rows) : After(rows)[k] \in S
  <2> HIDE DEF S
  <2> QED
    BY <1>3, <1>6, <1>7, EndsIn
<1>9. After(rows)[Len(rows)].did[d] \in {old, None}
  BY <1>3, <1>8
<1> QED
  BY <1>4, <1>5, <1>9

\* No step takes the DID of another extension.
LEMMA KeepsStep ==
    ASSUME TablesAssumption, EditInv, SerialInv, [Next]_vars
    PROVE  KeepsDids
<1> SUFFICES ASSUME NEW d \in Dids, did[d] # None, did'[d] # None, did' # did
             PROVE  did'[d] = did[d]
  BY DEF KeepsDids
<1>1. PICK r \in Requests : CommitSave(r) \/ CommitDelete(r)
  <2>1. Next
    BY DEF vars
  <2>2. \A r \in Requests : ~CommitGroup(r)
    BY DEF CommitGroup
  <2>3. ASSUME NEW r, NEW w PROVE ~Begin(r, w)
    BY DEF Begin
  <2>4. ASSUME NEW r \in Requests, NEW admin \in BOOLEAN PROVE ~SubmitForm(r, admin)
    BY <2>3 DEF SubmitForm
  <2>5. ASSUME NEW r \in Requests, NEW admin \in BOOLEAN PROVE ~SubmitFile(r, admin)
    BY <2>3 DEF SubmitFile
  <2>6. ASSUME NEW r \in Requests PROVE ~SubmitDelete(r) /\ ~SubmitGroup(r)
    BY <2>3 DEF SubmitDelete, SubmitGroup
  <2> QED
    BY <2>1, <2>2, <2>4, <2>5, <2>6 DEF Next
<1>2. CASE CommitDelete(r)
  BY <1>2 DEF CommitDelete
<1>3. CASE CommitSave(r)
  <2>1. Written(r)
    BY <1>3, CommitIs DEF EditInv
  <2> QED
    BY <1>3, <2>1, SavedKeeps
<1> QED
  BY <1>1, <1>2, <1>3

\* A DID that is assigned to an extension is not taken by another, when requests follow
\* each other, although the assignment does not look at who has it
\* (sync_extension_relationships).
THEOREM DidsAreKept ==
    ASSUME OneRequest
    PROVE  Spec => [][KeepsDids]_vars
<1>1. EditInv /\ SerialInv /\ [Next]_vars => [KeepsDids]_vars
  BY KeepsStep, TablesAssumption
<1> QED
  BY <1>1, SerialInvariant, PTL DEF Spec

-----------------------------------------------------------------------------
(* What a file names, its rows have, also when requests overlap.           *)

\* The rows of a request are about different extensions and name different DIDs.
RowsApart(rows) ==
    \A j, k \in DOMAIN rows : j # k =>
       /\ rows[j].id = None \/ rows[j].id # rows[k].id
       /\ rows[j].dids \cap rows[k].dids = {}

ApartInv == \A r \in Requests : req[r].kind = "save" => RowsApart(req[r].rows)

\* A request that begins to write such rows, or none, leaves the others as they are.
LEMMA ApartBegin ==
    ASSUME ApartInv, Types, NEW r \in Requests, NEW w, Begin(r, w),
           w.kind = "save" => RowsApart(w.rows)
    PROVE  ApartInv'
<1>1. \A s \in Requests : req'[s] = IF s = r THEN w ELSE req[s]
  BY DEF Begin, Types
<1> QED
  BY <1>1 DEF ApartInv, RowsApart

\* The lines of a file are about different extensions and DIDs.
LEMMA ApartFile ==
    ASSUME TablesAssumption, DidsOnce, ApartInv, Types, NEW r \in Requests,
           NEW admin \in BOOLEAN, SubmitFile(r, admin)
    PROVE  ApartInv'
<1> DEFINE RowOf(file, k) == Row(Named(file[k].number), file[k].number, file[k].loc,
                                 Cell(file[k]), file[k].dids, file[k].groups)
           W(file) == [kind |-> "save", admin |-> admin,
                       rows |-> [k \in DOMAIN file |-> RowOf(file, k)]]
<1>1. PICK file \in Files :
             \/ Begin(r, Idle)
             \/ GoodLines(file, admin) = DOMAIN file /\ Begin(r, W(file))
  BY DEF SubmitFile
<1>2. CASE Begin(r, Idle)
  BY <1>2, ApartBegin DEF Idle
<1>3. CASE GoodLines(file, admin) = DOMAIN file /\ Begin(r, W(file))
  <2>1. DOMAIN file = 1..Len(file) /\ Len(file) \in Nat
    BY DEF TablesAssumption
  <2>2. ASSUME NEW k \in DOMAIN file
        PROVE  /\ RowOf(file, k).id = Named(file[k].number)
               /\ RowOf(file, k).dids = file[k].dids
               /\ Named(file[k].number) # None =>
                     ext[Named(file[k].number)].number = file[k].number
    BY DEF Row, Named
  <2>3. ASSUME NEW j \in DOMAIN file, NEW k \in DOMAIN file, j # k
        PROVE  /\ Named(file[j].number) = None \/ Named(file[j].number) # Named(file[k].number)
               /\ file[j].dids \cap file[k].dids = {}
    <3>1. \A i \in DOMAIN file : \A h \in 1..(i - 1) : file[h].number # file[i].number
      BY <1>3 DEF GoodLines
    <3>2. file[j].number # file[k].number
      BY <2>1, <2>3, <3>1
    <3> QED
      BY <2>2, <2>3, <3>2 DEF DidsOnce
  <2> HIDE DEF RowOf
  <2>4. RowsApart(W(file).rows)
    BY <2>2, <2>3 DEF RowsApart
  <2> DEFINE w == W(file)
  <2>5. Begin(r, w)
    BY <1>3
  <2> HIDE DEF W
  <2> QED
    BY <2>4, <2>5, ApartBegin
<1> QED
  BY <1>1, <1>2, <1>3

\* A form has one row.
LEMMA ApartForm ==
    ASSUME ApartInv, Types, NEW r \in Requests, NEW admin \in BOOLEAN, SubmitForm(r, admin)
    PROVE  ApartInv'
<1>1. \/ Begin(r, Idle)
      \/ \E row : Begin(r, [kind |-> "save", admin |-> admin, rows |-> <<row>>])
  BY DEF SubmitForm
<1>2. CASE Begin(r, Idle)
  BY <1>2, ApartBegin DEF Idle
<1>3. ASSUME NEW row, Begin(r, [kind |-> "save", admin |-> admin, rows |-> <<row>>])
      PROVE  ApartInv'
  <2> DEFINE w == [kind |-> "save", admin |-> admin, rows |-> <<row>>]
  <2>1. RowsApart(w.rows)
    BY DEF RowsApart
  <2>2. Begin(r, w)
    BY <1>3
  <2> HIDE DEF w
  <2> QED
    BY <2>1, <2>2, ApartBegin
<1> QED
  BY <1>1, <1>2, <1>3

\* Every step keeps the rows of a request apart.
LEMMA ApartNext ==
    ASSUME TablesAssumption, DidsOnce, ApartInv, Types, [Next]_vars
    PROVE  ApartInv'
<1>1. CASE UNCHANGED vars
  BY <1>1 DEF vars, ApartInv, RowsApart
<1>2. ASSUME NEW r \in Requests, NEW admin \in BOOLEAN, SubmitForm(r, admin) PROVE ApartInv'
  BY <1>2, ApartForm
<1>3. ASSUME NEW r \in Requests, NEW admin \in BOOLEAN, SubmitFile(r, admin) PROVE ApartInv'
  BY <1>3, ApartFile
<1>4. ASSUME NEW r \in Requests, SubmitDelete(r) PROVE ApartInv'
  <2>1. PICK id \in Existing : Begin(r, [kind |-> "delete", id |-> id])
    BY <1>4 DEF SubmitDelete
  <2> DEFINE w == [kind |-> "delete", id |-> id]
  <2>2. w.kind # "save" /\ Begin(r, w)
    BY <2>1
  <2> HIDE DEF w
  <2> QED
    BY <2>2, ApartBegin
<1>5. ASSUME NEW r \in Requests, SubmitGroup(r) PROVE ApartInv'
  <2>1. PICK g \in Groups, loc \in Locations, chosen \in SUBSET Existing :
             Begin(r, [kind |-> "group", group |-> g, loc |-> loc, members |-> chosen])
    BY <1>5 DEF SubmitGroup
  <2> DEFINE w == [kind |-> "group", group |-> g, loc |-> loc, members |-> chosen]
  <2>2. w.kind # "save" /\ Begin(r, w)
    BY <2>1
  <2> HIDE DEF w
  <2> QED
    BY <2>2, ApartBegin
<1>6. ASSUME NEW r \in Requests, CommitSave(r) \/ CommitDelete(r) \/ CommitGroup(r)
      PROVE  ApartInv'
  <2>1. End(r)
    BY <1>6 DEF CommitSave, CommitDelete, CommitGroup
  <2>2. req'[r] = Idle /\ \A s \in Requests \ {r} : req'[s] = req[s]
    BY <2>1, EndIs
  <2> QED
    BY <2>2 DEF ApartInv, RowsApart, Idle
<1> QED
  BY <1>1, <1>2, <1>3, <1>4, <1>5, <1>6 DEF Next

\* Different rows are written under different keys.
LEMMA KeysApart ==
    ASSUME TablesAssumption, NEW rows, Writable(rows), RowsApart(rows),
           NEW k \in DOMAIN rows, NEW l \in DOMAIN rows, l < k,
           After(rows)[k - 1].ext[Key(rows, l)] # None
    PROVE  Key(rows, l) # Key(rows, k)
<1>1. CASE rows[k].id = None
  <2>1. Key(rows, k) \in FreshKeys(After(rows)[k - 1])
    BY <1>1, KeysAre
  <2> QED
    BY <2>1 DEF FreshKeys
<1>2. CASE rows[k].id # None
  <2>1. Key(rows, k) = rows[k].id /\ rows[k].id \in ReadKeys
    BY <1>2, KeysAre DEF Writable
  <2>2. CASE rows[l].id = None
    BY <2>1, <2>2, InsertedIsFresh
  <2>3. CASE rows[l].id # None
    <3>1. Key(rows, l) = rows[l].id /\ rows[l].id # rows[k].id
      BY <2>3, KeysAre DEF RowsApart
    <3> QED
      BY <2>1, <3>1
  <2> QED
    BY <2>2, <2>3
<1> QED
  BY <1>1, <1>2

\* What a row writes, the later rows leave.
LEMMA RowsRemain ==
    ASSUME TablesAssumption, NEW rows, Writable(rows), RowsApart(rows)
    PROVE  \A l \in DOMAIN rows :
              /\ After(rows)[Len(rows)].ext[Key(rows, l)] = ColumnsOf(rows[l])
              /\ \A d \in rows[l].dids : After(rows)[Len(rows)].did[d] = Key(rows, l)
<1> DEFINE Stays(k, l) == /\ After(rows)[k].ext[Key(rows, l)] = ColumnsOf(rows[l])
                          /\ \A d \in rows[l].dids : After(rows)[k].did[d] = Key(rows, l)
           T == {k \in 0..Len(rows) : \A l \in 1..k : Stays(k, l)}
<1>1. Len(rows) \in Nat /\ DOMAIN rows = 1..Len(rows) /\ rows \in Seq(SaveRows)
  BY DEF Writable
<1>2. 0 \in T
  BY <1>1
<1>3. ASSUME NEW k \in 0..(Len(rows) - 1), k \in T PROVE k + 1 \in T
  <2>1. /\ k \in 0..Len(rows) /\ k + 1 \in 0..Len(rows) /\ k + 1 \in DOMAIN rows
           /\ k + 1 - 1 = k
        /\ 1..(k + 1) = 1..k \union {k + 1} /\ 1..k \subseteq DOMAIN rows
        /\ \A l \in 1..k : l < k + 1
    BY <1>1
  <2>2. PICK before \in Databases : before = After(rows)[k]
    BY <2>1, KeysAre
  <2>3. PICK id \in Rows : id = Key(rows, k + 1)
    BY <2>1, KeysAre
  <2>4. PICK row \in SaveRows : row = rows[k + 1]
    BY <1>1, <2>1
  <2>5. PICK after \in Databases : after = Saved(before, id, row) /\ after = After(rows)[k + 1]
    BY <2>1, <2>2, <2>3, <2>4, KeysAre, SavedIs
  <2>6. /\ \A i \in Rows : after.ext[i] = IF i = id THEN ColumnsOf(row) ELSE before.ext[i]
        /\ \A d \in Dids : after.did[d] = IF d \in row.dids THEN id
                                          ELSE IF before.did[d] = id THEN None ELSE before.did[d]
    <3> DEFINE saved == Saved(before, id, row)
    <3>1. /\ \A i \in Rows : saved.ext[i] = IF i = id THEN ColumnsOf(row) ELSE before.ext[i]
          /\ \A d \in Dids : saved.did[d] = IF d \in row.dids THEN id
                                            ELSE IF before.did[d] = id THEN None
                                            ELSE before.did[d]
      BY SavedIs
    <3>2. after = saved
      BY <2>5
    <3> HIDE DEF saved
    <3> QED
      BY <3>1, <3>2
  <2>7. row.dids \subseteq Dids
    BY DEF SaveRows
  <2>8. Stays(k + 1, k + 1)
    BY <2>3, <2>4, <2>5, <2>6, <2>7
  <2>9. ASSUME NEW l \in 1..k PROVE Stays(k + 1, l)
    <3>1. Stays(k, l)
      BY <1>3
    <3>2. PICK other \in SaveRows : other = rows[l]
      BY <1>1, <2>1
    <3>3. PICK key \in Rows : key = Key(rows, l)
      BY <2>1, KeysAre
    <3>4. before.ext[key] = ColumnsOf(other) /\ \A d \in other.dids : before.did[d] = key
      BY <2>2, <3>1, <3>2, <3>3
    <3>5. ColumnsOf(other) # None
      BY <3>2, SavedIs
    <3>6. key # id
      BY <2>1, <2>2, <2>3, <3>3, <3>4, <3>5, KeysApart
    <3>7. other.dids \subseteq Dids /\ other.dids \cap row.dids = {}
      <4>1. l # k + 1 /\ l \in DOMAIN rows
        BY <2>1
      <4> QED
        BY <2>1, <2>4, <3>2, <4>1 DEF RowsApart, SaveRows
    <3>8. after.ext[key] = ColumnsOf(other) /\ \A d \in other.dids : after.did[d] = key
      BY <2>6, <3>4, <3>6, <3>7
    <3> QED
      BY <2>5, <3>2, <3>3, <3>8
  <2> HIDE DEF Stays
  <2> QED
    BY <2>1, <2>8, <2>9
<1>4. 0..Len(rows) \subseteq T
  <2> HIDE DEF T
  <2> QED
    BY <1>1, <1>2, <1>3, UpTo
<1> QED
  BY <1>1, <1>4

\* After a transaction each of its rows is there, with the DIDs it names: no later row of
\* it has taken them.
LEMMA WrittenRows ==
    ASSUME TablesAssumption, Types, ApartInv, [Next]_vars
    PROVE  WritesRows
<1> SUFFICES ASSUME NEW r \in Requests, req[r].kind = "save", req'[r] = Idle,
                    Database' # Database, NEW k \in DOMAIN req[r].rows,
                    NEW d \in req[r].rows[k].dids
             PROVE  did'[d] # None /\ ext'[did'[d]].number = req[r].rows[k].number
  BY DEF WritesRows
<1>1. ext' # ext \/ did' # did \/ member' # member
  BY DEF Database
<1>2. CommitSave(r)
  <2>1. PICK s \in Requests : CommitSave(s) \/ CommitDelete(s) \/ CommitGroup(s)
    <3>1. Next
      BY <1>1 DEF vars
    <3>2. ASSUME NEW s, NEW w PROVE ~Begin(s, w)
      BY <1>1 DEF Begin
    <3>3. ASSUME NEW s \in Requests, NEW admin \in BOOLEAN PROVE ~SubmitForm(s, admin)
      BY <3>2 DEF SubmitForm
    <3>4. ASSUME NEW s \in Requests, NEW admin \in BOOLEAN PROVE ~SubmitFile(s, admin)
      BY <3>2 DEF SubmitFile
    <3>5. ASSUME NEW s \in Requests PROVE ~SubmitDelete(s) /\ ~SubmitGroup(s)
      BY <3>2 DEF SubmitDelete, SubmitGroup
    <3> QED
      BY <3>1, <3>3, <3>4, <3>5 DEF Next
  <2>2. End(s)
    BY <2>1 DEF CommitSave, CommitDelete, CommitGroup
  <2>3. s = r
    <3>1. s # r => req'[r] = req[r]
      BY <2>2, EndIs
    <3> QED
      BY <3>1 DEF Idle
  <2> QED
    BY <2>1, <2>3 DEF CommitDelete, CommitGroup
<1>3. Writable(req[r].rows) /\ Written(r)
  BY <1>1, <1>2, CommitIs
<1>4. PICK rows : rows = req[r].rows /\ Writable(rows) /\ RowsApart(rows)
  BY <1>3 DEF ApartInv
<1>5. /\ ext' = After(rows)[Len(rows)].ext
      /\ did' = After(rows)[Len(rows)].did
  BY <1>3, <1>4 DEF Written
<1>6. did'[d] = Key(rows, k) /\ ext'[Key(rows, k)] = ColumnsOf(rows[k])
  BY <1>4, <1>5, RowsRemain
<1>7. Key(rows, k) # None
  BY <1>4, KeysAre DEF TablesAssumption
<1> QED
  BY <1>4, <1>6, <1>7 DEF ColumnsOf

\* A file, or a form, is imported as it is written, with any number of requests at once,
\* provided that no line of a file names a DID of another (extension_import).
THEOREM ImportsAreAsWritten ==
    ASSUME DidsOnce
    PROVE  Spec => ImportedAsWritten
<1>1. Init => ApartInv
  BY DEF Init, ApartInv, Idle
<1>2. Types /\ ApartInv /\ [Next]_vars => ApartInv' /\ [WritesRows]_vars
  BY ApartNext, WrittenRows, TablesAssumption
<1>3. EditInv => Types
  BY DEF EditInv
<1> QED
  BY <1>1, <1>2, <1>3, EditInvariant, PTL DEF Spec, ImportedAsWritten
=============================================================================
