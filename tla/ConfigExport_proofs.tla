------------------------- MODULE ConfigExport_proofs -------------------------
(***************************************************************************)
(* Theorems about ConfigExport, for any set of exports and any number of   *)
(* edits.                                                                  *)
(***************************************************************************)
EXTENDS ConfigExport, TLAPS

USE DEF rowVars, exportVars, LockPhases, Goto

-----------------------------------------------------------------------------
(* Types.                                                                  *)

\* With the numbers in order, the largest number is that of the last version.
LEMMA LastIsLength ==
    ASSUME versions \in Seq(Version), \A i \in DOMAIN versions : versions[i].number = i
    PROVE  LastNumber = Len(versions)
<1>1. Numbers \subseteq Nat
  BY DEF Numbers
<1>2. Len(versions) \in Numbers
  BY DEF Numbers
<1>3. \A m \in Numbers : m <= Len(versions)
  BY DEF Numbers
<1>4. \A n \in Numbers : (\A m \in Numbers : m <= n) => n = Len(versions)
  BY <1>1, <1>2, <1>3
<1> QED
  BY <1>2, <1>3, <1>4 DEF LastNumber

\* Every version belongs to an export.
LEMMA OwnerType ==
    ASSUME versions \in Seq(Version)
    PROVE  \A i \in DOMAIN versions : versions[i].by \in Exports
<1> SUFFICES ASSUME NEW i \in DOMAIN versions PROVE versions[i].by \in Exports
  OBVIOUS
<1>1. versions[i] \in Version
  OBVIOUS
<1> QED
  BY <1>1 DEF Version

\* The initial state has the types.
LEMMA TypeInit == ASSUME ConstantsAssumption PROVE Init => TypeOK
<1> SUFFICES ASSUME Init PROVE TypeOK
  OBVIOUS
<1>1. versions \in Seq(Version)
  BY DEF Init
<1> QED
  BY <1>1 DEF Init, TypeOK, Nothing, Config, ConstantsAssumption

\* Every step of an export keeps the types; a number is at least 1 when the
\* version is inserted.
LEMMA TypeExport ==
    ASSUME TypeOK, NumberingInv, ConstantsAssumption, NEW e \in Exports, ExportStep(e)
    PROVE  TypeOK'
<1> USE DEF TypeOK
<1>1. CASE Load(e)
  BY <1>1 DEF Load, Config
<1>2. CASE CheckExtensions(e)
  BY <1>2 DEF CheckExtensions, Config
<1>3. CASE CheckRoutes(e)
  BY <1>3 DEF CheckRoutes
<1>4. CASE Lock(e)
  <2>1. LastNumber \in Nat
    BY LastIsLength DEF NumberingInv, NumbersInOrder
  <2>2. config.callerId \in BOOLEAN
    BY DEF Config
  <2>3. draft' \in [Exports -> Config]
    BY <1>4, <2>2 DEF Lock, Config, CallerIdOfArchive
  <2>4. number' \in [Exports -> Nat]
    BY <1>4, <2>1 DEF Lock
  <2> QED
    BY <1>4, <2>3, <2>4 DEF Lock
<1>5. CASE BuildExtensions(e)
  BY <1>5 DEF BuildExtensions, Config
<1>6. CASE BuildRoutes(e)
  BY <1>6 DEF BuildRoutes, Config
<1>7. CASE Insert(e)
  <2> DEFINE new == [by |-> e, number |-> number[e], content |-> draft[e],
                     unedited |-> since[e] = edits]
  <2>1. number[e] \in Nat \ {0}
    BY <1>7 DEF Insert, NumberingInv, HolderInv
  <2>2. new \in Version
    BY <2>1 DEF Version
  <2>3. versions' = versions \/ versions' = Append(versions, new)
    BY <1>7 DEF Insert
  <2>4. versions' \in Seq(Version)
    <3>1. versions \in Seq(Version)
      OBVIOUS
    <3> HIDE DEF new, TypeOK
    <3> QED
      BY <2>2, <2>3, <3>1
  <2> QED
    BY <1>7, <2>4 DEF Insert
<1>8. CASE Abort(e)
  BY <1>8 DEF Abort, AfterException
<1>9. CASE Audit(e)
  BY <1>9 DEF Audit
<1>10. CASE AuditLost(e)
  BY <1>10 DEF AuditLost
<1> QED
  BY <1>1, <1>2, <1>3, <1>4, <1>5, <1>6, <1>7, <1>8, <1>9, <1>10 DEF ExportStep

\* So does an edit.
LEMMA TypeEdit ==
    ASSUME TypeOK, ConstantsAssumption,
           NEW column \in {"extension", "route", "callerId"}, Edit(column)
    PROVE  TypeOK'
<1> USE DEF TypeOK, Edit
<1>1. config' \in Config
  <2>1. CASE column = "extension"
    BY <2>1 DEF Config
  <2>2. CASE column = "route"
    BY <2>2 DEF Config
  <2>3. CASE column = "callerId"
    BY <2>3 DEF Config
  <2> QED
    BY <2>1, <2>2, <2>3
<1>2. edits' \in 0..MaxEdits
  BY DEF ConstantsAssumption
<1> QED
  BY <1>1, <1>2

-----------------------------------------------------------------------------
(* The holder of the row, its number, and the version of each export.      *)

\* Before the first export there is no version.
LEMMA NumberingInit == Init => NumberingInv
  BY DEF Init, NumberingInv, HolderInv, OwnVersionInv, NumbersInOrder

\* The steps of an export that leave the versions and the audit alone.
LEMMA NumberingQuiet ==
    ASSUME TypeOK, NumberingInv, NEW e \in Exports,
           \/ Load(e) \/ CheckExtensions(e) \/ CheckRoutes(e)
           \/ BuildExtensions(e) \/ BuildRoutes(e) \/ Abort(e) \/ AuditLost(e)
    PROVE  NumberingInv'
<1> USE DEF TypeOK, Load, CheckExtensions, CheckRoutes, BuildExtensions, BuildRoutes,
        Abort, AfterException, AuditLost
<1>1. UNCHANGED <<versions, audit, number>>
  OBVIOUS
<1>2. /\ pc' = [pc EXCEPT ![e] = pc'[e]]
      /\ pc'[e] \in LockPhases => pc[e] \in LockPhases
      /\ pc'[e] \notin {"auditing", "collided"}
      /\ pc[e] \in {"auditing", "done"} => pc'[e] = "done"
      /\ pc[e] # "done"
  OBVIOUS
<1>3. HolderInv'
  <2>1. \A f \in Exports : pc'[f] \in LockPhases => pc[f] \in LockPhases
    BY <1>2
  <2> QED
    BY ONLY NumberingInv, <1>1, <2>1 DEF NumberingInv, HolderInv
<1>4. OwnVersionInv'
  <2>1. \A i \in DOMAIN versions : versions[i].by \in Exports
    BY OwnerType
  <2>2. (\A i \in DOMAIN versions : pc[versions[i].by] \in {"auditing", "done"})'
    <3>1. \A f \in Exports : pc[f] \in {"auditing", "done"} => pc'[f] \in {"auditing", "done"}
      <4> TAKE f \in Exports
      <4>1. CASE f = e
        BY <1>2, <4>1
      <4>2. CASE f # e
        <5>1. pc'[f] = pc[f]
          BY <1>2, <4>2
        <5> QED
          BY <5>1
      <4> QED
        BY <4>1, <4>2
    <3>2. \A i \in DOMAIN versions : pc[versions[i].by] \in {"auditing", "done"}
      BY DEF NumberingInv, OwnVersionInv
    <3>3. versions' = versions
      BY <1>1
    <3> HIDE DEF TypeOK
    <3> QED
      BY <2>1, <3>1, <3>2, <3>3
  <2>3. (\A f \in Exports :
           /\ pc[f] = "auditing" \/ audit[f] = "success"
                 => \E i \in DOMAIN versions : versions[i].by = f
           /\ audit[f] = "failure" => \A i \in DOMAIN versions : versions[i].by # f
           /\ audit[f] # "none" => pc[f] = "done")'
    BY <1>1, <1>2, <2>1 DEF NumberingInv, OwnVersionInv
  <2>4. (\A i, j \in DOMAIN versions : versions[i].by = versions[j].by => i = j)'
    BY <1>1, <1>2, <2>1 DEF NumberingInv, OwnVersionInv
  <2> QED
    BY <2>2, <2>3, <2>4 DEF OwnVersionInv
<1>5. NumbersInOrder'
  BY <1>1, <1>2 DEF NumberingInv, NumbersInOrder
<1> QED
  BY <1>3, <1>4, <1>5 DEF NumberingInv

\* The row is taken by one export, and the number is the next one.
LEMMA NumberingLock ==
    ASSUME TypeOK, NumberingInv, NEW e \in Exports, Lock(e)
    PROVE  NumberingInv'
<1> USE DEF TypeOK, Lock
<1>1. number' = [number EXCEPT ![e] = Len(versions) + 1]
  BY LastIsLength DEF NumberingInv, NumbersInOrder
<1>2. HolderInv'
  BY <1>1 DEF NumberingInv, HolderInv, RowFree
<1>3. \A i \in DOMAIN versions : versions[i].by \in Exports
  BY OwnerType
<1>4. OwnVersionInv'
  BY <1>3 DEF NumberingInv, OwnVersionInv
<1>5. NumbersInOrder'
  BY DEF NumberingInv, NumbersInOrder
<1> QED
  BY <1>2, <1>4, <1>5 DEF NumberingInv

\* The inserted version has the next number and is the first one of its export.
LEMMA NumberingInsert ==
    ASSUME TypeOK, NumberingInv, NEW e \in Exports, Insert(e)
    PROVE  NumberingInv'
<1> DEFINE new == [by |-> e, number |-> number[e], content |-> draft[e],
                   unedited |-> since[e] = edits]
           n == Len(versions)
<1>1. n \in Nat /\ number[e] = n + 1 /\ DOMAIN versions = 1..n
  BY DEF TypeOK, Insert, NumberingInv, HolderInv
<1>2. versions' = Append(versions, new) /\ pc' = [pc EXCEPT ![e] = "auditing"]
  <2>1. ~(\E i \in DOMAIN versions : versions[i].number = number[e])
    BY <1>1 DEF NumberingInv, NumbersInOrder
  <2> QED
    BY <2>1 DEF Insert
<1>3. /\ Len(versions') = n + 1 /\ DOMAIN versions' = 1..(n + 1)
      /\ \A i \in 1..n : versions'[i] = versions[i]
      /\ versions'[n + 1] = new
  BY <1>1, <1>2 DEF TypeOK
<1>4. pc[e] = "built" /\ UNCHANGED <<number, audit>>
  BY DEF Insert
<1>5. HolderInv'
  BY <1>2, <1>4 DEF TypeOK, NumberingInv, HolderInv
<1>6. NumbersInOrder'
  BY <1>1, <1>2, <1>3 DEF TypeOK, NumberingInv, NumbersInOrder
<1>7. \A i \in 1..n : versions[i].by \in Exports /\ versions[i].by # e
  BY <1>1, <1>4, OwnerType DEF TypeOK, NumberingInv, OwnVersionInv
<1>8. OwnVersionInv'
  <2>1. (\A i, j \in DOMAIN versions : versions[i].by = versions[j].by => i = j)'
    BY <1>1, <1>3, <1>7 DEF NumberingInv, OwnVersionInv
  <2>2. (\A i \in DOMAIN versions : pc[versions[i].by] \in {"auditing", "done"})'
    BY <1>1, <1>2, <1>3, <1>7 DEF TypeOK, NumberingInv, OwnVersionInv
  <2>3. ASSUME NEW f \in Exports
        PROVE  (/\ pc[f] = "auditing" \/ audit[f] = "success"
                     => \E i \in DOMAIN versions : versions[i].by = f
                /\ audit[f] = "failure" => \A i \in DOMAIN versions : versions[i].by # f
                /\ audit[f] # "none" => pc[f] = "done")'
    <3>1. CASE f = e
      <4>1. audit'[e] = "none" /\ new.by = e /\ n + 1 \in 1..(n + 1)
        BY <1>1, <1>4 DEF TypeOK, NumberingInv, OwnVersionInv
      <4> QED
        BY <1>3, <3>1, <4>1
    <3>2. CASE f # e
      <4>1. pc'[f] = pc[f] /\ audit'[f] = audit[f] /\ new.by # f
        BY <1>2, <1>4, <3>2 DEF TypeOK
      <4> QED
        BY <1>1, <1>3, <4>1 DEF NumberingInv, OwnVersionInv
    <3> QED
      BY <3>1, <3>2
  <2> QED
    BY <2>1, <2>2, <2>3 DEF OwnVersionInv
<1> QED
  BY <1>5, <1>6, <1>8 DEF NumberingInv

\* A success is written by an export that has a version, a failure by one that
\* has none and will not get one.
LEMMA NumberingAudit ==
    ASSUME TypeOK, NumberingInv, NEW e \in Exports, Audit(e)
    PROVE  NumberingInv'
<1> USE DEF TypeOK, Audit
<1>1. HolderInv'
  BY DEF NumberingInv, HolderInv
<1>2. NumbersInOrder'
  BY DEF NumberingInv, NumbersInOrder
<1>3. \A i \in DOMAIN versions : versions[i].by \in Exports
  BY OwnerType
<1>4. OwnVersionInv'
  <2>1. (\A i \in DOMAIN versions : pc[versions[i].by] \in {"auditing", "done"})'
    BY <1>3 DEF NumberingInv, OwnVersionInv
  <2>2. (\A f \in Exports :
           /\ pc[f] = "auditing" \/ audit[f] = "success"
                 => \E i \in DOMAIN versions : versions[i].by = f
           /\ audit[f] = "failure" => \A i \in DOMAIN versions : versions[i].by # f
           /\ audit[f] # "none" => pc[f] = "done")'
    BY <1>3 DEF NumberingInv, OwnVersionInv
  <2>3. (\A i, j \in DOMAIN versions : versions[i].by = versions[j].by => i = j)'
    BY <1>3 DEF NumberingInv, OwnVersionInv
  <2> QED
    BY <2>1, <2>2, <2>3 DEF OwnVersionInv
<1> QED
  BY <1>1, <1>2, <1>4 DEF NumberingInv

\* An edit touches only the rows.
LEMMA NumberingUnchanged ==
    ASSUME NumberingInv, UNCHANGED <<exportVars, versions, audit>>
    PROVE  NumberingInv'
  BY DEF NumberingInv, HolderInv, OwnVersionInv, NumbersInOrder

-----------------------------------------------------------------------------
(* What an export has read, and what its version holds.                    *)

\* Before the first export nothing has been read, and there is no version.
LEMMA ContentInit == ASSUME ConstantsAssumption PROVE Init => ContentInv
  BY DEF Init, ContentInv, ReadInv, CallerIdInv, UneditedIsValid, ConstantsAssumption

\* A step of an export before its insertion: of what it has read, each value is the
\* committed one at that moment.
LEMMA ContentRead ==
    ASSUME TypeOK, ContentInv, NEW e \in Exports,
           \/ Load(e) \/ CheckExtensions(e) \/ CheckRoutes(e) \/ Lock(e)
           \/ BuildExtensions(e) \/ BuildRoutes(e)
    PROVE  ContentInv'
<1> USE DEF TypeOK, Load, CheckExtensions, CheckRoutes, Lock, BuildExtensions, BuildRoutes,
        CallerIdOfArchive, Blocked
<1>1. UNCHANGED <<config, edits, versions>> /\ edits \in Nat
  BY DEF ConstantsAssumption
<1>2. \A f \in Exports \ {e} :
         UNCHANGED <<pc[f], loaded[f], checked[f], draft[f], since[f]>>
  OBVIOUS
<1>3. config \in [extension : BOOLEAN, route : BOOLEAN, callerId : BOOLEAN]
      /\ draft[e] \in [extension : BOOLEAN, route : BOOLEAN, callerId : BOOLEAN]
  BY DEF Config
<1>4. ReadInv'
  <2> SUFFICES ASSUME NEW f \in Exports
               PROVE  (since[f] <= edits /\ (since[f] = edits =>
                        /\ pc[f] # "idle" => loaded[f] = config.callerId
                        /\ pc[f] \in {"validating", "validated"} \union LockPhases
                               => checked[f] = config.extension
                        /\ pc[f] \in {"validated"} \union LockPhases
                               => ~(config.extension /\ ~(config.route /\ config.callerId))
                        /\ pc[f] \in {"building", "built"}
                               => draft[f].extension = config.extension
                        /\ pc[f] = "built" => draft[f].route = config.route))'
    BY DEF ReadInv
  <2>1. CASE f # e
    BY <1>1, <1>2, <2>1 DEF ContentInv, ReadInv
  <2>2. CASE f = e
    BY <1>1, <1>3, <2>2 DEF ContentInv, ReadInv
  <2> QED
    BY <2>1, <2>2
<1>5. CallerIdInv'
  <2> SUFFICES ASSUME NEW f \in Exports, pc'[f] \in LockPhases
               PROVE  draft'[f].callerId = config.callerId
    BY <1>1 DEF CallerIdInv
  <2>1. CASE f # e
    BY <1>2, <2>1 DEF ContentInv, CallerIdInv
  <2>2. CASE f = e
    BY <1>3, <2>2 DEF ContentInv, CallerIdInv
  <2> QED
    BY <2>1, <2>2
<1>6. UneditedIsValid'
  BY <1>1 DEF ContentInv, UneditedIsValid
<1> QED
  BY <1>4, <1>5, <1>6 DEF ContentInv

\* The end of an export reads nothing.
LEMMA ContentEnd ==
    ASSUME TypeOK, ContentInv, NEW e \in Exports, Abort(e) \/ Audit(e) \/ AuditLost(e)
    PROVE  ContentInv'
<1> USE DEF TypeOK, Abort, AfterException, Audit, AuditLost
<1>1. ASSUME NEW f \in Exports
      PROVE  pc'[f] = pc[f] \/ (pc'[f] = "done" /\ pc[f] # "idle")
  <2>1. pc' = [pc EXCEPT ![e] = "done"] /\ pc[e] # "idle"
    OBVIOUS
  <2> QED
    BY <2>1
<1>2. UNCHANGED <<config, edits, loaded, checked, draft, since, versions>>
  OBVIOUS
<1> HIDE DEF TypeOK, Abort, Audit, AuditLost
<1>3. ReadInv'
  BY <1>1, <1>2 DEF ContentInv, ReadInv
<1>4. CallerIdInv'
  BY <1>1, <1>2 DEF ContentInv, CallerIdInv
<1>5. UneditedIsValid'
  BY <1>2 DEF ContentInv, UneditedIsValid
<1> QED
  BY <1>3, <1>4, <1>5 DEF ContentInv

\* The rows stand in a version as they were read; without an edit they have all been
\* validated.
LEMMA ContentInsert ==
    ASSUME TypeOK, ContentInv, NEW e \in Exports, Insert(e)
    PROVE  /\ ContentInv'
           /\ \A i \in DOMAIN versions' \ DOMAIN versions :
                 versions'[i].content.callerId = config.callerId
<1> DEFINE new == [by |-> e, number |-> number[e], content |-> draft[e],
                   unedited |-> since[e] = edits]
           n == Len(versions)
<1>1. pc[e] = "built" /\ UNCHANGED <<config, edits, loaded, checked, draft, since>>
  BY DEF Insert, rowVars
<1>2. \A f \in Exports : pc'[f] = pc[f] \/ pc'[f] \in {"collided", "auditing"}
  BY DEF Insert, TypeOK
<1>3. versions' = versions \/ versions' = Append(versions, new)
  BY DEF Insert
<1>4. n \in Nat /\ DOMAIN versions = 1..n /\ versions \in Seq(Version)
  BY DEF TypeOK
<1>5. new.content.callerId = config.callerId
  BY <1>1 DEF ContentInv, CallerIdInv
<1>6. ReadInv'
  <2> SUFFICES ASSUME NEW f \in Exports
               PROVE  (since[f] <= edits /\ (since[f] = edits =>
                        /\ pc[f] # "idle" => loaded[f] = config.callerId
                        /\ pc[f] \in {"validating", "validated"} \union LockPhases
                               => checked[f] = config.extension
                        /\ pc[f] \in {"validated"} \union LockPhases
                               => ~(config.extension /\ ~(config.route /\ config.callerId))
                        /\ pc[f] \in {"building", "built"}
                               => draft[f].extension = config.extension
                        /\ pc[f] = "built" => draft[f].route = config.route))'
    BY DEF ReadInv
  <2>1. f = e \/ pc'[f] = pc[f]
    BY DEF Insert, TypeOK
  <2>2. CASE f = e
    BY <1>1, <1>2, <2>2 DEF ContentInv, ReadInv, Insert, TypeOK
  <2>3. CASE pc'[f] = pc[f]
    BY <1>1, <2>3 DEF ContentInv, ReadInv
  <2> QED
    BY <2>1, <2>2, <2>3
<1>7. CallerIdInv'
  BY <1>1, <1>2 DEF ContentInv, CallerIdInv
<1>8. new.unedited => ~(new.content.extension /\ ~(new.content.route /\ new.content.callerId))
  BY <1>1, <1>5 DEF ContentInv, ReadInv
<1>9. CASE versions' = versions
  <2>1. UneditedIsValid'
    BY <1>9 DEF ContentInv, UneditedIsValid
  <2> QED
    BY <1>6, <1>7, <1>9, <2>1 DEF ContentInv
<1>10. CASE versions' = Append(versions, new)
  <2> HIDE DEF new
  <2>1. /\ DOMAIN versions' = 1..(n + 1)
        /\ \A i \in 1..n : versions'[i] = versions[i]
        /\ versions'[n + 1] = new
    BY <1>4, <1>10
  <2>2. UneditedIsValid'
    <3> SUFFICES ASSUME NEW i \in 1..(n + 1), versions'[i].unedited
                 PROVE  ~(versions'[i].content.extension
                            /\ ~(versions'[i].content.route /\ versions'[i].content.callerId))
      BY <2>1 DEF UneditedIsValid
    <3>1. CASE i = n + 1
      BY <1>8, <2>1, <3>1
    <3>2. CASE i # n + 1
      <4>1. i \in 1..n
        BY <1>4, <3>2
      <4> QED
        BY <1>4, <2>1, <4>1 DEF ContentInv, UneditedIsValid
    <3> QED
      BY <3>1, <3>2
  <2>3. \A i \in DOMAIN versions' \ DOMAIN versions : i = n + 1
    BY <1>4, <2>1
  <2> QED
    BY <1>5, <1>6, <1>7, <2>1, <2>2, <2>3 DEF ContentInv
<1> QED
  BY <1>3, <1>9, <1>10

\* After an edit no export under way counts as unedited; the caller ID is not edited
\* while an export holds the location's row.
LEMMA ContentEdit ==
    ASSUME TypeOK, ContentInv, ConstantsAssumption,
           EditLocation \/ Edit("extension") \/ Edit("route")
    PROVE  ContentInv'
<1>1. edits' = edits + 1 /\ UNCHANGED <<exportVars, versions>>
  BY DEF Edit, EditLocation
<1>2. edits \in Nat /\ \A e \in Exports : since[e] \in Nat
  BY DEF TypeOK, ConstantsAssumption
<1>3. ReadInv'
  <2>1. \A e \in Exports : since'[e] <= edits' /\ since'[e] # edits'
    BY <1>1, <1>2 DEF ContentInv, ReadInv
  <2> QED
    BY <2>1 DEF ReadInv
<1>4. CallerIdInv'
  <2>1. CASE EditLocation
    BY <1>1, <2>1 DEF EditLocation, CallerIdInv
  <2>2. CASE Edit("extension") \/ Edit("route")
    <3>1. config'.callerId = config.callerId
      BY <2>2 DEF Edit, TypeOK, Config
    <3> QED
      BY <1>1, <3>1 DEF ContentInv, CallerIdInv
  <2> QED
    BY <2>1, <2>2
<1>5. UneditedIsValid'
  BY <1>1 DEF ContentInv, UneditedIsValid
<1> QED
  BY <1>3, <1>4, <1>5 DEF ContentInv

\* When nothing changes, nothing is to be shown.
LEMMA ContentUnchanged == ASSUME ContentInv, UNCHANGED vars PROVE ContentInv'
  BY DEF vars, ContentInv, ReadInv, CallerIdInv, UneditedIsValid

-----------------------------------------------------------------------------
(* The theorems.                                                           *)

\* Types, the lock's discipline, the ownership of versions and what these hold, for
\* ever.
THEOREM ExportInvCorrect ==
    ASSUME ConstantsAssumption
    PROVE  Spec => []ExportInv
<1>1. Init => ExportInv
  BY TypeInit, NumberingInit, ContentInit DEF ExportInv
<1>2. ExportInv /\ [Next]_vars => ExportInv'
  <2> SUFFICES ASSUME TypeOK, NumberingInv, ContentInv, [Next]_vars
               PROVE  TypeOK' /\ NumberingInv' /\ ContentInv'
    BY DEF ExportInv
  <2>1. ASSUME NEW e \in Exports, ExportStep(e)
        PROVE  TypeOK' /\ NumberingInv' /\ ContentInv'
    <3>1. TypeOK'
      BY <2>1, TypeExport
    <3>2. NumberingInv'
      BY <2>1, NumberingQuiet, NumberingLock, NumberingInsert, NumberingAudit
         DEF ExportStep
    <3>3. ContentInv'
      BY <2>1, ContentRead, ContentEnd, ContentInsert DEF ExportStep
    <3> QED
      BY <3>1, <3>2, <3>3
  <2>2. ASSUME EditLocation \/ Edit("extension") \/ Edit("route")
        PROVE  TypeOK' /\ NumberingInv' /\ ContentInv'
    <3>1. PICK column \in {"extension", "route", "callerId"} : Edit(column)
      BY <2>2 DEF EditLocation
    <3>2. TypeOK' /\ NumberingInv'
      BY <3>1, TypeEdit, NumberingUnchanged DEF Edit
    <3>3. ContentInv'
      BY <2>2, ContentEdit
    <3> QED
      BY <3>2, <3>3
  <2>3. CASE UNCHANGED vars
    BY <2>3, NumberingUnchanged, ContentUnchanged DEF vars, TypeOK
  <2> QED
    BY <2>1, <2>2, <2>3 DEF Next, Terminating
<1> QED
  BY <1>1, <1>2, PTL DEF Spec

\* Versions are numbered without gaps in the order of their commits, and no
\* export loses its number to another (create_config_version's row lock).
THEOREM NumbersInOrderCorrect ==
    ASSUME ConstantsAssumption
    PROVE  Spec => []NumbersInOrder
<1>1. ExportInv => NumbersInOrder
  BY DEF ExportInv, NumberingInv
<1> QED
  BY <1>1, ExportInvCorrect, PTL

\* The audit log's successes are about one version each, its failures about none
\* (location_config_export).
THEOREM AuditMatchesVersionsCorrect ==
    ASSUME ConstantsAssumption
    PROVE  Spec => []AuditMatchesVersions
<1>1. ASSUME ExportInv
      PROVE  AuditMatchesVersions
  <2> SUFFICES ASSUME NEW e \in Exports
               PROVE  LET own == {i \in DOMAIN versions : versions[i].by = e} IN
                      /\ audit[e] = "success" => \E i \in own : own = {i}
                      /\ audit[e] = "failure" => own = {}
    BY DEF AuditMatchesVersions
  <2> DEFINE own == {i \in DOMAIN versions : versions[i].by = e}
  <2>1. ASSUME audit[e] = "success"
        PROVE  \E i \in own : own = {i}
    <3>1. PICK i \in own : TRUE
      BY <1>1, <2>1 DEF ExportInv, NumberingInv, OwnVersionInv
    <3>2. \A j \in own : j = i
      BY <1>1, <3>1 DEF ExportInv, NumberingInv, OwnVersionInv
    <3> QED
      BY <3>1, <3>2
  <2>2. audit[e] = "failure" => own = {}
    BY <1>1 DEF ExportInv, NumberingInv, OwnVersionInv
  <2> QED
    BY <2>1, <2>2
<1> QED
  BY <1>1, ExportInvCorrect, PTL

\* A version made while nothing was edited passes the hard export block it was validated
\* by, although its rows are read again, one by one, after the validation
\* (location_config_export, create_config_version).
THEOREM UneditedIsValidCorrect ==
    ASSUME ConstantsAssumption
    PROVE  Spec => []UneditedIsValid
<1>1. ExportInv => UneditedIsValid
  BY DEF ExportInv, ContentInv
<1> QED
  BY <1>1, ExportInvCorrect, PTL

\* The archive's emergency caller ID is the one in force when the version appears: it is
\* read under the row lock that an edit of the location waits for (create_config_version).
THEOREM CallerIdInForceCorrect ==
    ASSUME ConstantsAssumption
    PROVE  Spec => CallerIdInForce
<1> DEFINE InForce == \A i \in DOMAIN versions' \ DOMAIN versions :
                         versions'[i].content.callerId = config.callerId
<1>1. ExportInv /\ [Next]_vars => [InForce]_versions
  <2> SUFFICES ASSUME TypeOK, ContentInv, Next, versions' # versions
               PROVE  InForce
    BY DEF ExportInv, vars
  <2>1. PICK e \in Exports : Insert(e)
    BY DEF Next, ExportStep, Load, CheckExtensions, CheckRoutes, Lock, BuildExtensions,
           BuildRoutes, Abort, Audit, AuditLost, Edit, EditLocation, Terminating, vars
  <2> QED
    BY <2>1, ContentInsert
<1> QED
  BY <1>1, ExportInvCorrect, PTL DEF Spec, CallerIdInForce
=============================================================================
