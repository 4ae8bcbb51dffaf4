---------------------------- MODULE Reports_proofs ----------------------------
(***************************************************************************)
(* Theorems about what the agent tells the portal of recordings            *)
(* (RecordingPlayback) and of the PBX's manager interface (AmiSession):    *)
(* the former for any finite number of recordings, any retentions, any     *)
(* limit of a report and any time, the latter for any lists, answers and   *)
(* other events, in sessions where Asterisk answers each action with all   *)
(* there is.                                                               *)
(***************************************************************************)
EXTENDS RecordingPlayback, AmiSession, FiniteSetTheorems, SequenceTheorems, TLAPS

Plays == [pc : {"idle", "asked", "checked", "answered"}, name : Names \union {NoPlay.name},
          allowed : BOOLEAN, days : Retentions \union {0}, answer : Endings,
          judged : 0..MaxTime, ending : Endings]
Scans == [pc : {"idle", "stat", "built"}, found : SUBSET Names, left : SUBSET Names,
          stats : SUBSET Names, error : BOOLEAN, list : SUBSET Entries]

-----------------------------------------------------------------------------
(* The report of a scan.                                                   *)

\* The entry of a recording has its name and the day it was written.
LEMMA EntryOf ==
    ASSUME ConstantsAssumption, RecordingTypeOK, NEW n \in Names, written[n] # Never
    PROVE  Entry(n) \in Entries /\ Entry(n).name = n /\ Entry(n).written = written[n]
<1>1. written[n] \in 0..MaxTime
  BY DEF RecordingTypeOK, Never, ConstantsAssumption
<1> DEFINE expires == IF kept = 0 THEN 0 ELSE written[n] + kept
<1>2. expires \in Nat /\ (expires # 0 /\ expires <= now) \in BOOLEAN
  BY <1>1 DEF RecordingTypeOK, ConstantsAssumption
<1>3. Entry(n) = [name |-> n, written |-> written[n], expires |-> expires,
                  expired |-> expires # 0 /\ expires <= now]
  BY DEF Entry
<1> HIDE DEF expires
<1> QED
  BY <1>1, <1>2, <1>3 DEF Entries

\* A report has as many entries as recordings were chosen for it: at most Limit, and
\* exactly Limit when one that was found is not among them.
LEMMA Reported ==
    ASSUME ConstantsAssumption, RecordingTypeOK, NEW s \in SUBSET Names,
           \A n \in s : written[n] # Never,
           NEW t \in Newest(s)
    PROVE  /\ t \subseteq s
           /\ Cardinality({Entry(n) : n \in t}) <= Limit
           /\ t # s => Cardinality({Entry(n) : n \in t}) = Limit
           /\ \A n \in t, m \in s \ t : written[n] >= written[m]
<1>1. /\ t \subseteq s /\ \A n \in t, m \in s \ t : written[n] >= written[m]
      /\ Cardinality(t) = IF Cardinality(s) < Limit THEN Cardinality(s) ELSE Limit
  BY DEF Newest
<1>2. IsFiniteSet(s) /\ IsFiniteSet(t)
  BY <1>1, FS_Subset DEF ConstantsAssumption
<1>3. Cardinality(s) \in Nat /\ Cardinality(t) \in Nat /\ Limit \in Nat
  BY <1>2, FS_CardinalityType DEF ConstantsAssumption
<1>4. Cardinality(t) <= Limit /\ (t # s => Cardinality(t) = Limit)
  <2>1. Cardinality(t) = Cardinality(s) => t = s
    BY <1>1, <1>2, FS_Subset
  <2> QED
    BY <1>1, <1>3, <2>1
<1> DEFINE list == {Entry(n) : n \in t}
           f == [n \in t |-> Entry(n)]
<1>5. \A n \in t : Entry(n).name = n
  BY <1>1, EntryOf
<1>6. f \in [t -> list] /\ (\A m, n \in t : f[m] = f[n] => m = n)
      /\ \A e \in list : \E n \in t : f[n] = e
  BY <1>5
<1>7. f \in Bijection(t, list)
  BY <1>6 DEF Bijection, Injection, Surjection, IsInjective
<1>8. Cardinality(list) = Cardinality(t)
  BY <1>2, <1>7, FS_Bijection DEF ExistsBijection
<1> QED
  BY <1>1, <1>4, <1>8

-----------------------------------------------------------------------------
(* Types.                                                                  *)

LEMMA InitInv ==
    ASSUME ConstantsAssumption, RecordingInit
    PROVE  RecordingsKept
<1>1. NoPlay \in Plays /\ NoScan \in Scans
  BY DEF NoPlay, NoScan, Plays, Scans, Endings, ConstantsAssumption
<1>2. RecordingTypeOK
  <2>1. Cardinality({}) = 0
    BY FS_EmptySet
  <2> QED
    BY <1>1, <2>1 DEF RecordingInit, RecordingTypeOK, Plays, Scans, Never, ConstantsAssumption
<1>3. ServedIsDue /\ ScanLosesNothing /\ PlayInv
  BY DEF RecordingInit, ServedIsDue, ScanLosesNothing, PlayInv, NoPlay, NoScan
<1>4. ScanInv
  <2>1. Cardinality({}) = 0
    BY FS_EmptySet
  <2> QED
    BY <2>1 DEF RecordingInit, ScanInv, NoScan, ConstantsAssumption
<1> QED
  BY <1>2, <1>3, <1>4 DEF RecordingsKept

-----------------------------------------------------------------------------
(* Steps of the host: a day once written stays, and files only vanish      *)
(* except that of a recording that is new.                                 *)

\* Neither the scan nor a playback is disturbed when written days stay and no file
\* of an old recording appears.
LEMMA HostKeeps ==
    ASSUME ConstantsAssumption, RecordingsKept,
           now' \in 0..MaxTime, written' \in [Names -> 0..Never], present' \subseteq Names,
           retention' \in Retentions, kept' \in Retentions \union {0},
           \A n \in Names : written[n] # Never => written'[n] = written[n],
           \A n \in present' : n \in present \/ written[n] = Never,
           \A n \in present' : written'[n] # Never,
           UNCHANGED <<scan, listed, play>>
    PROVE  RecordingsKept'
<1> USE DEF RecordingsKept
<1>1. RecordingTypeOK'
  BY DEF RecordingTypeOK
<1>2. ServedIsDue'
  BY DEF ServedIsDue, PlayInv
<1>3. PlayInv'
  BY DEF PlayInv
<1>4. \A n \in scan.found : n \in Names /\ written'[n] = written[n]
  BY DEF ScanInv, RecordingTypeOK
<1>5. \A e \in scan.list : e.name \in Names /\ written'[e.name] = written[e.name]
  <2>1. \A e \in scan.list : e \in Entries
    BY DEF RecordingTypeOK
  <2> QED
    BY <2>1 DEF ScanInv, Entries
<1>6. \A n \in scan.found : n \notin present => n \notin present'
  BY DEF ScanInv
<1>7. ScanInv'
  BY <1>4, <1>5, <1>6 DEF ScanInv
<1>8. ScanLosesNothing'
  BY <1>4, <1>5, <1>6 DEF ScanLosesNothing
<1> QED
  BY <1>1, <1>2, <1>3, <1>7, <1>8

\* Calls, days, the retention script and a new retention disturb neither scan nor playback.
LEMMA HostStep ==
    ASSUME ConstantsAssumption, RecordingsKept,
           \/ NextDay \/ EditRetention \/ RunRetentionScript
           \/ \E n \in Names : RecordCall(n) \/ RemoveFile(n)
    PROVE  RecordingsKept'
<1> USE DEF RecordingsKept
<1>1. CASE NextDay
  <2>1. now' \in 0..MaxTime
    BY <1>1 DEF NextDay, RecordingTypeOK, ConstantsAssumption
  <2> QED
    BY <1>1, <2>1, HostKeeps DEF NextDay, RecordingTypeOK, PlayInv
<1>2. CASE EditRetention
  BY <1>2, HostKeeps DEF EditRetention, RecordingTypeOK, PlayInv
<1>3. CASE RunRetentionScript
  BY <1>3, HostKeeps DEF RunRetentionScript, RecordingTypeOK, PlayInv
<1>4. ASSUME NEW n \in Names, RecordCall(n) PROVE RecordingsKept'
  <2>1. now \in 0..Never /\ now # Never
    BY DEF RecordingTypeOK, Never, ConstantsAssumption
  <2>2. \A m \in Names : written'[m] = IF m = n THEN now ELSE written[m]
    BY <1>4 DEF RecordCall, RecordingTypeOK
  <2>3. written' \in [Names -> 0..Never]
    BY <1>4, <2>1 DEF RecordCall, RecordingTypeOK
  <2> QED
    BY <1>4, <2>1, <2>2, <2>3, HostKeeps DEF RecordCall, RecordingTypeOK, PlayInv
<1>5. ASSUME NEW n \in Names, RemoveFile(n) PROVE RecordingsKept'
  BY <1>5, HostKeeps DEF RemoveFile, RecordingTypeOK, PlayInv
<1> QED
  BY <1>1, <1>2, <1>3, <1>4, <1>5

-----------------------------------------------------------------------------
(* Steps of the scan.                                                      *)

LEMMA ScanStep ==
    ASSUME ConstantsAssumption, RecordingsKept,
           \/ ListPaths \/ ListingFails \/ BuildReport \/ StoreReport \/ LoseReport
           \/ \E n \in Names : StatFile(n)
    PROVE  RecordingsKept'
<1> USE DEF RecordingsKept
<1>1. UNCHANGED <<host, play>>
  BY DEF ListPaths, ListingFails, BuildReport, StoreReport, LoseReport, StatFile
<1>2. ServedIsDue' /\ PlayInv'
  BY <1>1 DEF ServedIsDue, PlayInv, host
<1>3. ASSUME scan' \in Scans, listed' \subseteq Entries, Cardinality(listed') <= Limit
      PROVE RecordingTypeOK'
  BY <1>1, <1>3 DEF RecordingTypeOK, host, Scans
<1>4. Cardinality({}) = 0 /\ 0 <= Limit
  BY FS_EmptySet DEF ConstantsAssumption
<1>5. NoScan \in Scans
  BY DEF NoScan, Scans
<1>6. CASE ListPaths
  <2>1. scan' = [pc |-> "stat", found |-> present, left |-> present, stats |-> {},
                 error |-> FALSE, list |-> {}] /\ UNCHANGED listed
    BY <1>6 DEF ListPaths, NoScan
  <2>2. scan' \in Scans
    BY <2>1 DEF Scans, RecordingTypeOK
  <2>3. ScanInv' /\ ScanLosesNothing'
    BY <1>1, <1>4, <2>1 DEF ScanInv, ScanLosesNothing, PlayInv, host
  <2> QED
    BY <1>2, <1>3, <2>1, <2>2, <2>3 DEF RecordingTypeOK
<1>7. CASE ListingFails
  <2>1. scan' = [pc |-> "built", found |-> {}, left |-> {}, stats |-> {},
                 error |-> TRUE, list |-> {}] /\ UNCHANGED listed
    BY <1>7 DEF ListingFails, NoScan
  <2>2. scan' \in Scans
    BY <2>1 DEF Scans
  <2>3. ScanInv' /\ ScanLosesNothing'
    BY <1>1, <1>4, <2>1 DEF ScanInv, ScanLosesNothing
  <2> QED
    BY <1>2, <1>3, <2>1, <2>2, <2>3 DEF RecordingTypeOK
<1>8. CASE BuildReport
  <2>1. PICK t \in Newest(scan.stats) :
            scan' = [scan EXCEPT !.pc = "built", !.list = {Entry(n) : n \in t}]
    BY <1>8 DEF BuildReport
  <2> DEFINE list == {Entry(n) : n \in t}
  <2>2. /\ scan.stats \in SUBSET Names /\ scan.found \in SUBSET Names
        /\ \A n \in scan.stats : written[n] # Never
    BY DEF RecordingTypeOK, ScanInv
  <2>3. /\ t \subseteq scan.stats
        /\ Cardinality(list) <= Limit
        /\ t # scan.stats => Cardinality(list) = Limit
        /\ \A n \in t, m \in scan.stats \ t : written[n] >= written[m]
    BY <2>2, Reported
  <2>4. \A n \in t : /\ Entry(n) \in Entries /\ Entry(n).name = n
                     /\ Entry(n).written = written[n]
    BY <2>2, <2>3, EntryOf
  <2>5. /\ scan'.pc = "built" /\ scan'.list = list /\ scan'.found = scan.found
        /\ scan'.left = scan.left /\ scan'.stats = scan.stats /\ scan'.error = scan.error
        /\ scan' \in Scans
    <3>1. list \in SUBSET Entries
      BY <2>4
    <3>2. scan \in Scans /\ scan' = [scan EXCEPT !.pc = "built", !.list = list]
      BY <2>1 DEF RecordingTypeOK, Scans
    <3> HIDE DEF list
    <3> QED
      BY <3>1, <3>2 DEF Scans
  <2>6. \A e \in list : /\ e.written = written[e.name] /\ e.written # Never
                        /\ \E n \in t : n = e.name
    BY <2>2, <2>3, <2>4
  <2>7. scan.pc = "stat" /\ scan.left = {} /\ UNCHANGED listed
    BY <1>8 DEF BuildReport
  <2> HIDE DEF list
  <2>8. ScanInv'
    BY <1>1, <2>3, <2>5, <2>6 DEF ScanInv, host
  <2>9. \A n \in scan.found : \/ \E e \in list : e.name = n
                              \/ Cardinality(list) = Limit
                                 /\ \A e \in list : e.written >= written[n]
                              \/ n \notin present /\ scan.error
    <3> SUFFICES ASSUME NEW n \in scan.found, n \in present \/ ~scan.error, n \notin t
                 PROVE  Cardinality(list) = Limit /\ \A e \in list : e.written >= written[n]
      BY <2>4 DEF list
    <3>1. n \in scan.stats \ t
      BY <2>7 DEF ScanInv
    <3> QED
      BY <2>3, <2>6, <3>1
  <2>10. ScanLosesNothing'
    BY <1>1, <2>5, <2>9 DEF ScanLosesNothing, host
  <2> QED
    BY <1>2, <1>3, <2>5, <2>7, <2>8, <2>10 DEF RecordingTypeOK
<1>9. CASE StoreReport \/ LoseReport
  <2>1. scan' = NoScan /\ listed' \in {listed, scan.list}
    BY <1>9 DEF StoreReport, LoseReport
  <2>2. ScanInv' /\ ScanLosesNothing'
    BY <1>1, <1>4, <2>1 DEF ScanInv, ScanLosesNothing, NoScan
  <2>3. scan.list \subseteq Entries /\ Cardinality(scan.list) <= Limit
    BY DEF RecordingTypeOK, ScanInv
  <2> QED
    BY <1>2, <1>3, <1>5, <2>1, <2>2, <2>3 DEF RecordingTypeOK
<1>10. ASSUME NEW n \in Names, StatFile(n) PROVE RecordingsKept'
  <2>1. /\ scan.pc = "stat" /\ n \in scan.left /\ UNCHANGED listed
        /\ scan' = IF n \in present
                   THEN [scan EXCEPT !.left = @ \ {n}, !.stats = @ \union {n}]
                   ELSE [scan EXCEPT !.left = @ \ {n}, !.error = TRUE]
    BY <1>10 DEF StatFile, LeftWithout
  <2>2. scan' \in Scans /\ scan'.pc = "stat" /\ scan'.found = scan.found
        /\ scan'.list = scan.list /\ scan'.left = scan.left \ {n}
        /\ scan'.stats = (IF n \in present THEN scan.stats \union {n} ELSE scan.stats)
        /\ scan'.error = (IF n \in present THEN scan.error ELSE TRUE)
    BY <2>1 DEF RecordingTypeOK, Scans
  <2>3. ScanInv'
    BY <1>1, <2>1, <2>2 DEF ScanInv, host
  <2>4. ScanLosesNothing'
    BY <2>2 DEF ScanLosesNothing
  <2> QED
    BY <1>2, <1>3, <2>1, <2>2, <2>3, <2>4 DEF RecordingTypeOK
<1> QED
  BY <1>6, <1>7, <1>8, <1>9, <1>10

-----------------------------------------------------------------------------
(* Steps of a playback, and a new bundle.                                  *)

LEMMA EndOf ==
    ASSUME NEW p \in Plays, NEW e \in Endings
    PROVE  /\ End(p, e) \in Plays /\ End(p, e).pc = "idle" /\ End(p, e).ending = e
           /\ End(p, e).name = p.name /\ End(p, e).allowed = p.allowed
           /\ End(p, e).days = p.days /\ End(p, e).judged = p.judged
BY DEF End, Plays

\* The invariant holds after a step when it holds of the request; scan and listed are
\* the old ones or those of a new agent.
LEMMA PlayKeeps ==
    ASSUME ConstantsAssumption, RecordingsKept,
           UNCHANGED <<now, written, present, retention, listed>>,
           kept' \in Retentions \union {0}, scan' \in {scan, NoScan}, play' \in Plays,
           play'.pc # "idle" => /\ play'.name \in Names /\ play'.allowed
                                /\ play'.days # 0 /\ play'.ending = "none",
           (play'.pc = "checked" \/ (play'.pc = "answered" /\ play'.answer = "served")
             \/ play'.ending = "served") =>
               /\ play'.name \in Names /\ written[play'.name] # Never
               /\ play'.allowed /\ written[play'.name] + play'.days > play'.judged
    PROVE  RecordingsKept'
<1> USE DEF RecordingsKept
<1>1. NoScan \in Scans
  BY DEF NoScan, Scans
<1>2. RecordingTypeOK'
  BY <1>1 DEF RecordingTypeOK, Scans, Plays
<1>3. PlayInv'
  BY DEF PlayInv
<1>4. ServedIsDue'
  BY DEF ServedIsDue
<1>5. Cardinality({}) = 0 /\ 0 <= Limit
  BY FS_EmptySet DEF ConstantsAssumption
<1>6. ScanInv' /\ ScanLosesNothing'
  BY <1>5 DEF ScanInv, ScanLosesNothing, NoScan
<1> QED
  BY <1>2, <1>3, <1>6, <1>4

\* What is asked, judged, read and answered, and an agent that is deployed anew.
LEMMA PlayStep ==
    ASSUME ConstantsAssumption, RecordingsKept,
           \/ NoAnswer \/ CheckFile \/ ReadFile \/ TakeAnswer \/ Redeploy
           \/ \E n \in Names, allowed \in BOOLEAN : AskToPlay(n, allowed)
    PROVE  RecordingsKept'
<1>1. /\ RecordingTypeOK /\ PlayInv /\ play \in Plays /\ kept \in Retentions \union {0}
      /\ retention \in Retentions /\ now \in 0..MaxTime /\ 0 \notin Retentions
      /\ written \in [Names -> 0..Never] /\ Never \in Nat /\ Retentions \subseteq Nat
      /\ MaxTime \in Nat
  BY DEF RecordingsKept, RecordingTypeOK, Plays, Never, ConstantsAssumption
<1>2. CASE NoAnswer
  <2>1. play' \in Plays /\ play'.pc = "idle" /\ play'.ending = "agent"
    BY <1>1, <1>2, EndOf DEF NoAnswer, Endings
  <2> QED
    BY <1>1, <1>2, <2>1, PlayKeeps DEF NoAnswer, host
<1>3. CASE CheckFile
  <2> DEFINE p == [play EXCEPT !.judged = now]
  <2>1. /\ p \in Plays /\ p.name = play.name /\ p.allowed = play.allowed /\ p.days = play.days
        /\ p.judged = now /\ p.ending = play.ending
    BY <1>1 DEF Plays
  <2>2. play.pc = "asked" /\ play.name \in Names /\ play.allowed /\ play.days \in Retentions
    BY <1>1, <1>3 DEF CheckFile, PlayInv, Plays
  <2>3. EffectiveRetention(play.days) = play.days
    BY <1>1, <2>2 DEF EffectiveRetention
  <2>4. \/ \E a \in {"unavailable", "expired"} :
               play' = [p EXCEPT !.pc = "answered", !.answer = a]
        \/ /\ play' = [p EXCEPT !.pc = "checked"] /\ play.name \in present
           /\ ~(written[play.name] + play.days <= now)
    BY <1>3, <2>3 DEF CheckFile
  <2>5. ASSUME NEW a \in {"unavailable", "expired"},
               play' = [p EXCEPT !.pc = "answered", !.answer = a]
        PROVE  RecordingsKept'
    <3>1. play' \in Plays /\ play'.pc = "answered" /\ play'.answer = a /\ play'.name = play.name
          /\ play'.allowed = play.allowed /\ play'.days = play.days
             /\ play'.ending = play.ending
      BY <2>1, <2>5 DEF Plays, Endings
    <3> QED
      BY <1>1, <1>3, <2>2, <3>1, PlayKeeps DEF CheckFile, host, PlayInv
  <2>6. ASSUME play' = [p EXCEPT !.pc = "checked"], play.name \in present,
               ~(written[play.name] + play.days <= now)
        PROVE  RecordingsKept'
    <3>1. /\ play' \in Plays /\ play'.pc = "checked" /\ play'.name = play.name
          /\ play'.allowed = play.allowed /\ play'.days = play.days
          /\ play'.ending = play.ending /\ play'.judged = now
      BY <2>1, <2>6 DEF Plays
    <3>2. written[play.name] # Never /\ written[play.name] + play.days > now
      <4>1. written[play.name] \in Nat /\ play.days \in Nat /\ now \in Nat
        <5>1. written[play.name] \in 0..Never
          BY <1>1, <2>2
        <5>2. written[play.name] \in Nat
          BY ONLY <1>1, <5>1
        <5>3. play.days \in Nat
          BY ONLY <1>1, <2>2
        <5>4. now \in Nat
          BY ONLY <1>1
        <5> QED
          BY <5>2, <5>3, <5>4
      <4>2. written[play.name] # Never
        BY <1>1, <2>6 DEF PlayInv
      <4> QED
        BY <2>6, <4>1, <4>2
    <3> QED
      BY <1>1, <1>3, <2>2, <3>1, <3>2, PlayKeeps DEF CheckFile, host, PlayInv
  <2> QED
    BY <2>4, <2>5, <2>6
<1>4. CASE ReadFile
  <2>1. play.pc = "checked" /\ play.ending = "none"
    BY <1>1, <1>4 DEF ReadFile, PlayInv
  <2>2. /\ play' \in Plays /\ play'.pc = "answered" /\ play'.name = play.name
        /\ play'.allowed = play.allowed /\ play'.days = play.days
        /\ play'.ending = play.ending /\ play'.judged = play.judged
    BY <1>1, <1>4 DEF ReadFile, Plays, Endings
  <2> QED
    BY <1>1, <1>4, <2>1, <2>2, PlayKeeps DEF ReadFile, host, PlayInv
<1>5. CASE TakeAnswer
  <2>1. play.pc = "answered" /\ play.answer \in Endings
    BY <1>1, <1>5 DEF TakeAnswer, Plays
  <2>2. /\ play' \in Plays /\ play'.pc = "idle" /\ play'.name = play.name
        /\ play'.allowed = play.allowed /\ play'.days = play.days
        /\ play'.ending = play.answer /\ play'.judged = play.judged
    BY <1>1, <1>5, <2>1, EndOf DEF TakeAnswer
  <2> QED
    BY <1>1, <1>5, <2>1, <2>2, PlayKeeps DEF TakeAnswer, host, PlayInv
<1>6. CASE Redeploy
  <2>1. ASSUME play.pc = "idle" PROVE RecordingsKept'
    BY <1>1, <1>6, <2>1, PlayKeeps DEF Redeploy, PlayInv
  <2>2. ASSUME play.pc # "idle" PROVE RecordingsKept'
    <3>1. play' \in Plays /\ play'.pc = "idle" /\ play'.ending = "agent"
          /\ (play'.pc = "idle" => play'.pc \notin {"checked", "answered"})
      BY <1>1, <1>6, <2>2, EndOf DEF Redeploy, Endings
    <3> QED
      BY <1>1, <1>6, <3>1, PlayKeeps DEF Redeploy
  <2> QED
    BY <2>1, <2>2
<1>7. ASSUME NEW n \in Names, NEW allowed \in BOOLEAN, AskToPlay(n, allowed)
      PROVE  RecordingsKept'
  <2> DEFINE p == [NoPlay EXCEPT !.name = n, !.allowed = allowed, !.days = retention]
  <2>1. /\ p \in Plays /\ p.pc = "idle" /\ p.name = n /\ p.allowed = allowed
        /\ p.days = retention /\ p.answer = "none" /\ p.ending = "none"
    <3>1. NoPlay \in Plays /\ NoPlay.pc = "idle" /\ NoPlay.answer = "none"
          /\ NoPlay.ending = "none"
      BY DEF NoPlay, Plays, Endings, ConstantsAssumption
    <3> QED
      BY <1>1, <3>1 DEF Plays
  <2>2. \/ \E e \in {"denied", "missing", "expired"} : play' = End(p, e)
        \/ allowed /\ play' = [p EXCEPT !.pc = "asked"]
    BY <1>7 DEF AskToPlay
  <2> HIDE DEF p
  <2>3. ASSUME NEW e \in {"denied", "missing", "expired"}, play' = End(p, e)
        PROVE  RecordingsKept'
    <3>1. play' \in Plays /\ play'.pc = "idle" /\ play'.ending = e
      BY <2>1, <2>3, EndOf DEF Endings
    <3> QED
      BY <1>1, <1>7, <3>1, PlayKeeps DEF AskToPlay, host
  <2>4. ASSUME allowed, play' = [p EXCEPT !.pc = "asked"] PROVE RecordingsKept'
    <3>1. /\ play' \in Plays /\ play'.pc = "asked" /\ play'.name = n /\ play'.allowed
          /\ play'.days = retention /\ play'.ending = "none"
      BY <2>1, <2>4 DEF Plays
    <3> QED
      BY <1>1, <1>7, <3>1, PlayKeeps DEF AskToPlay, host
  <2> QED
    BY <2>2, <2>3, <2>4
<1> QED
  BY <1>2, <1>3, <1>4, <1>5, <1>6, <1>7

-----------------------------------------------------------------------------
\* Content is served only of a recording that the location's retention had not
\* reached when the agent judged it, and only to a user who may have it, and a scan
\* loses no recording that stays, for any number of recordings and any retentions
\* (location_recording_playback, read_recording_file, scan_recording_metadata).
THEOREM RecordingsKeptCorrect ==
    ASSUME ConstantsAssumption
    PROVE  RecordingSpec => []RecordingsKept
<1>1. RecordingInit => RecordingsKept
  BY InitInv
<1>2. RecordingsKept /\ [RecordingNext]_recordingVars => RecordingsKept'
  <2> SUFFICES ASSUME RecordingsKept, [RecordingNext]_recordingVars PROVE RecordingsKept'
    OBVIOUS
  <2>1. CASE UNCHANGED recordingVars
    BY <2>1 DEF RecordingsKept, RecordingTypeOK, ServedIsDue, ScanLosesNothing, PlayInv,
       ScanInv,
                recordingVars, host
  <2>2. CASE RecordingNext
    BY <2>2, HostStep, ScanStep, PlayStep DEF RecordingNext
  <2> QED
    BY <2>1, <2>2
<1> QED
  BY <1>1, <1>2, PTL DEF RecordingSpec

-----------------------------------------------------------------------------
Kinds == {"list", "plain"}

\* What is on the wire, and gathered, for an action of this kind and id about the set
\* s: nothing else is listed, an end comes after all of it, with events at most behind it,
\* and there is one only if Asterisk answered.
Orderly(w, g, kind, id, s, answered) ==
    /\ kind = "plain" => s = {}
    /\ \A i \in DOMAIN g : g[i].kind = "item" => g[i].item \in s
    /\ \A i \in DOMAIN w : w[i].kind = "item" => w[i].item \in s /\ w[i].id = id
    /\ \A i, j \in DOMAIN w : Completes(kind, w[i]) =>
          answered /\ (i < j => w[j].kind = "event")
    /\ \A j \in DOMAIN w : w[j].kind = "complete" => \A x \in s :
          \/ \E i \in DOMAIN g : g[i].kind = "item" /\ g[i].item = x
          \/ \E i \in DOMAIN w : i < j /\ w[i].kind = "item" /\ w[i].item = x

\* The first n answers are reported as they were listed.
Agree(n) == \A i \in 1..n : Part(answers[i]) = said[i]

\* The list of the action under way, and whether it was answered.
IsAnswered == pc = "login" \/ Len(said) = Len(answers) + 1
Listed == IF pc = "acting" /\ Len(said) = Len(answers) + 1 THEN said[Len(said)] ELSE {}

WireInOrder == Orderly(wire, got, Awaited, turn, Listed, IsAnswered)

\* All actions of the job were answered, and all answers are as they were listed.
AllAnswered ==
    Len(answers) = Len(Script[job]) /\ Len(said) = Len(answers) /\ Agree(Len(answers))

SessionInv ==
    /\ AmiTypeOK
    /\ pc # "idle" => result = Unfinished
    /\ pc = "greeting" => wire = <<Plain(NoId, "event")>>
    /\ pc \in {"greeting", "login"} => said = <<>> /\ answers = <<>>
    /\ pc \in {"login", "acting"} => WireInOrder
    /\ pc = "acting" => /\ Len(answers) < Len(Script[job])
                        /\ Len(said) \in {Len(answers), Len(answers) + 1}
                        /\ Agree(Len(answers))
    /\ pc \in {"logoff", "closing"} /\ ~failed => AllAnswered
    /\ ResultIsWhole

-----------------------------------------------------------------------------
(* What Asterisk answers.                                                  *)

LEMMA ScriptFacts ==
    ASSUME JobsAssumption, NEW j \in Jobs
    PROVE  /\ Script[j] \in Seq(Kinds) /\ Len(Script[j]) \in Nat /\ Len(Script[j]) > 0
           /\ \A i \in 1..Len(Script[j]) : Script[j][i] \in Kinds
<1>1. j \in {"telemetry", "listing", "control"}
  BY DEF JobsAssumption, Script
<1>2. CASE j = "telemetry"
  BY <1>2 DEF Script, Kinds
<1>3. CASE j = "listing"
  BY <1>3 DEF Script, Kinds
<1>4. CASE j = "control"
  BY <1>4 DEF Script, Kinds
<1> QED
  BY <1>1, <1>2, <1>3, <1>4

\* A finite set is listed whole.
LEMMA Lists ==
    ASSUME NEW s, IsFiniteSet(s)
    PROVE  /\ SetToSeq(s) \in Seq(s)
           /\ \A x \in s : \E i \in 1..Len(SetToSeq(s)) : SetToSeq(s)[i] = x
<1> DEFINE n == Cardinality(s)
<1>1. n \in Nat /\ ExistsBijection(1..n, s)
  BY FS_CardinalityType
<1>2. PICK f \in Bijection(1..n, s) : TRUE
  BY <1>1 DEF ExistsBijection
<1>3. f \in [1..n -> s] /\ IsInjective(f)
  BY <1>2 DEF Bijection, Injection, IsInjective
<1>4. SetToSeq(s) \in [1..n -> s] /\ IsInjective(SetToSeq(s))
  BY <1>3 DEF SetToSeq
<1> DEFINE list == SetToSeq(s)
<1> HIDE DEF list, n
<1>5. list \in Seq(s) /\ Len(list) = n
  BY <1>1, <1>4 DEF list
<1>6. list \in Injection(1..n, s)
  BY <1>4 DEF Injection, IsInjective, list
<1>7. IsFiniteSet(1..n) /\ Cardinality(1..n) = n
  BY <1>1, FS_Interval
<1>8. list \in Surjection(1..n, s)
  BY <1>6, <1>7, FS_Injection DEF n
<1> QED
  BY <1>5, <1>8 DEF Surjection, list
Answers(kind, id, s, a) ==
    \A i \in 1..Len(a) :
       /\ a[i].kind = "item" => a[i].item \in s /\ a[i].id = id
       /\ Completes(kind, a[i]) => i = Len(a)
       /\ a[i].kind = "complete" =>
            \A x \in s : \E j \in 1..(i - 1) : a[j].kind = "item" /\ a[j].item = x

\* An answer is about its action; a list of it has each item before its end.
LEMMA AnswerFacts ==
    ASSUME NEW kind \in Kinds, NEW id \in Nat, NEW s \in SUBSET Items, IsFiniteSet(s),
           NEW a, a = Answer(kind, id, s), kind = "plain" => s = {}
    PROVE  a \in Seq(Message) /\ Answers(kind, id, s, a)
<1> DEFINE list == SetToSeq(s)
           n == Len(list)
           items == [i \in DOMAIN list |-> [id |-> id, kind |-> "item", item |-> list[i]]]
<1>1. list \in Seq(s) /\ \A x \in s : \E i \in 1..n : list[i] = x
  BY Lists
<1>2. Plain(id, "response") \in Message /\ Plain(id, "complete") \in Message
      /\ Plain(id, "response").kind = "response" /\ Plain(id, "complete").kind = "complete"
  BY DEF Message, Plain
<1>3. CASE kind = "plain"
  <2>1. a = <<Plain(id, "response")>>
    BY <1>3 DEF Answer
  <2> QED
    BY <2>1, <1>2, <1>3 DEF Completes, Answers
<1>4. CASE kind = "list"
  <2> HIDE DEF list
  <2>1. n \in Nat /\ DOMAIN list = 1..n /\ \A i \in 1..n : list[i] \in s
    BY <1>1
  <2>2. items \in Seq(Message) /\ Len(items) = n
        /\ \A i \in 1..n : items[i].kind = "item" /\ items[i].item = list[i] /\ items[i].id = id
    BY <2>1 DEF Message
  <2>3. a = (<<Plain(id, "response")>> \o items) \o <<Plain(id, "complete")>>
    BY <1>4 DEF Answer, list
  <2> HIDE DEF items
  <2> DEFINE front == <<Plain(id, "response")>> \o items
  <2>4. /\ front \in Seq(Message) /\ Len(front) = n + 1
        /\ front[1] = Plain(id, "response") /\ \A i \in 1..n : front[i + 1] = items[i]
    BY <2>2, <1>2, <2>1
  <2> HIDE DEF front
  <2>5. /\ a \in Seq(Message) /\ Len(a) = n + 2 /\ a[n + 2] = Plain(id, "complete")
        /\ \A i \in 1..(n + 1) : a[i] = front[i]
    BY <2>3, <2>4, <1>2, <2>1 DEF front
  <2>6. a[1] = Plain(id, "response") /\ \A i \in 1..n : a[i + 1] = items[i]
    BY <2>5, <2>4, <2>1
  <2>7. \A i \in 2..(n + 1) : a[i].kind = "item" /\ a[i].item \in s /\ a[i].id = id
    <3> TAKE i \in 2..(n + 1)
    <3>1. i - 1 \in 1..n /\ i = (i - 1) + 1
      BY <2>1
    <3> QED
      BY <3>1, <2>6, <2>2, <2>1
  <2>8. \A x \in s : \E j \in 1..(n + 1) : a[j].kind = "item" /\ a[j].item = x
    <3> TAKE x \in s
    <3>1. PICK i \in 1..n : list[i] = x
      BY <1>1
    <3>2. i + 1 \in 1..(n + 1)
      BY <2>1
    <3> QED
      BY <3>1, <3>2, <2>6, <2>2
  <2>9. ASSUME NEW i \in 1..Len(a)
        PROVE  i = 1 \/ i \in 2..(n + 1) \/ i = n + 2
    BY <2>5, <2>1
  <2>10. ASSUME NEW i \in 1..Len(a)
         PROVE  /\ a[i].kind = "item" => a[i].item \in s /\ a[i].id = id
                /\ a[i].kind = "complete" => i = n + 2
    BY <2>9, <2>5, <2>6, <2>7, <1>2
  <2>11. (n + 2) - 1 = n + 1
    BY <2>1
  <2> QED
    BY <2>5, <2>8, <2>10, <2>11, <1>4 DEF Completes, Answers
<1> QED
  BY <1>3, <1>4 DEF Kinds

\* What comes behind what was there.
LEMMA Joined ==
    ASSUME NEW left \in Seq(Message), NEW a \in Seq(Message), NEW n \in 0..Len(a),
           NEW w, w = left \o SubSeq(a, 1, n)
    PROVE  /\ w \in Seq(Message) /\ Len(w) = Len(left) + n
           /\ \A i \in 1..Len(left) : w[i] = left[i]
           /\ \A i \in 1..n : w[Len(left) + i] = a[i]
<1>1. SubSeq(a, 1, n) \in Seq(Message) /\ Len(SubSeq(a, 1, n)) = n
      /\ \A i \in 1..n : SubSeq(a, 1, n)[i] = a[i]
  BY SubSeqProperties
<1> QED
  BY <1>1

Events(w) == \A i \in 1..Len(w) : w[i].kind = "event"

\* What comes of an answer is in order behind events.
LEMMA Arrives ==
    ASSUME NEW kind \in Kinds, NEW id \in Nat, NEW s \in SUBSET Items, IsFiniteSet(s),
           kind = "plain" => s = {}, NEW left \in Seq(Message),
           NEW n \in 0..Len(Answer(kind, id, s)),
           NEW w, w = left \o SubSeq(Answer(kind, id, s), 1, n)
    PROVE  w \in Seq(Message) /\ (Events(left) => Orderly(w, <<>>, kind, id, s, TRUE))
<1>1. PICK a : a = Answer(kind, id, s)
  OBVIOUS
<1>2. /\ a \in Seq(Message)
      /\ \A i \in 1..Len(a) :
            /\ a[i].kind = "item" => a[i].item \in s /\ a[i].id = id
            /\ Completes(kind, a[i]) => i = Len(a)
            /\ a[i].kind = "complete" =>
                 \A x \in s : \E j \in 1..(i - 1) : a[j].kind = "item" /\ a[j].item = x
  <2>1. a \in Seq(Message) /\ Answers(kind, id, s, a)
    BY <1>1, AnswerFacts
  <2> QED
    BY <2>1 DEF Answers
<1>3. n \in 0..Len(a) /\ Len(a) \in Nat /\ Len(left) \in Nat
  BY <1>1, <1>2
<1>4. /\ w \in Seq(Message) /\ Len(w) = Len(left) + n
      /\ \A i \in 1..Len(left) : w[i] = left[i]
      /\ \A i \in 1..n : w[Len(left) + i] = a[i]
  BY <1>2, <1>3, <1>1, Joined
<1>5. ASSUME Events(left)
      PROVE  Orderly(w, <<>>, kind, id, s, TRUE)
  <2>1. ASSUME NEW i \in 1..Len(w)
        PROVE  \/ i \in 1..Len(left) /\ w[i].kind = "event"
               \/ i - Len(left) \in 1..n /\ w[i] = a[i - Len(left)]
    <3>1. CASE i <= Len(left)
      BY <3>1, <1>4, <1>5, <1>3 DEF Events
    <3>2. CASE i > Len(left)
      <4>1. i - Len(left) \in 1..n /\ Len(left) + (i - Len(left)) = i
        BY <3>2, <1>4, <1>3
      <4> QED
        BY <4>1, <1>4
    <3> QED
      BY <3>1, <3>2, <1>3
  <2>2. n \in Nat /\ n <= Len(a) /\ 1..n \subseteq 1..Len(a)
    BY <1>3
  <2>3. ASSUME NEW i \in 1..Len(w)
        PROVE  /\ w[i].kind = "item" => w[i].item \in s /\ w[i].id = id
               /\ Completes(kind, w[i]) => i = Len(w)
    <3>1. CASE i \in 1..Len(left) /\ w[i].kind = "event"
      BY <3>1 DEF Completes
    <3>2. CASE i - Len(left) \in 1..n /\ w[i] = a[i - Len(left)]
      <4> DEFINE k == i - Len(left)
      <4>1. k \in 1..Len(a) /\ k <= n /\ w[i] = a[k]
        BY <3>2, <2>2
      <4>2. i = Len(left) + k
        BY <1>3
      <4> HIDE DEF k
      <4>3. k = Len(a) => k = n
        BY <4>1, <1>3
      <4> QED
        BY <4>1, <4>2, <4>3, <1>2, <1>4
    <3> QED
      BY <2>1, <3>1, <3>2
  <2>4. ASSUME NEW i \in 1..Len(w), w[i].kind = "complete", NEW x \in s
        PROVE  \E j \in 1..Len(w) : j < i /\ w[j].kind = "item" /\ w[j].item = x
    <3>1. i - Len(left) \in 1..n /\ w[i] = a[i - Len(left)]
      BY <2>1, <2>4
    <3>2. PICK j \in 1..((i - Len(left)) - 1) : a[j].kind = "item" /\ a[j].item = x
      BY <3>1, <2>2, <1>2, <2>4
    <3>3. j \in 1..n /\ Len(left) + j \in 1..Len(w) /\ Len(left) + j < i
      BY <3>1, <3>2, <1>3, <1>4
    <3> QED
      BY <3>2, <3>3, <1>4
  <2>5. DOMAIN w = 1..Len(w) /\ Len(w) \in Nat /\ DOMAIN <<>> = {}
    BY <1>4
  <2> QED
    <3>1. \A i, j \in DOMAIN w : Completes(kind, w[i]) => ~(i < j)
      <4>1. ASSUME NEW i \in 1..Len(w), NEW j \in 1..Len(w), Completes(kind, w[i])
            PROVE  ~(i < j)
        BY <4>1, <2>3
      <4> QED
        BY <4>1, <2>5
    <3>2. \A i \in DOMAIN w : w[i].kind = "item" => w[i].item \in s /\ w[i].id = id
      BY <2>3, <2>5
    <3>3. \A j \in DOMAIN w : w[j].kind = "complete" => \A x \in s :
            \E i \in DOMAIN w : i < j /\ w[i].kind = "item" /\ w[i].item = x
      <4> TAKE j \in DOMAIN w
      <4> HAVE w[j].kind = "complete"
      <4> TAKE x \in s
      <4>1. j \in 1..Len(w)
        BY <2>5
      <4>2. \E i \in 1..Len(w) : i < j /\ w[i].kind = "item" /\ w[i].item = x
        BY <4>1, <2>4
      <4> QED
        BY <4>2, <2>5
    <3>4. kind = "plain" => s = {}
      OBVIOUS
    <3>5. \A i, j \in DOMAIN w : Completes(kind, w[i]) => TRUE /\ (i < j => w[j].kind = "event")
      BY <3>1
    <3>6. PICK g : g = <<>> /\ DOMAIN g = {}
      BY <2>5
    <3>7. \A i \in DOMAIN g : g[i].kind = "item" => g[i].item \in s
      BY <3>6
    <3>8. \A j \in DOMAIN w : w[j].kind = "complete" => \A x \in s :
            \/ \E i \in DOMAIN g : g[i].kind = "item" /\ g[i].item = x
            \/ \E i \in DOMAIN w : i < j /\ w[i].kind = "item" /\ w[i].item = x
      <4> TAKE j \in DOMAIN w
      <4> HAVE w[j].kind = "complete"
      <4> TAKE x \in s
      <4>1. \E i \in DOMAIN w : i < j /\ w[i].kind = "item" /\ w[i].item = x
        BY <3>3
      <4> QED
        BY <4>1
    <3>9. Orderly(w, g, kind, id, s, TRUE)
      BY <3>2, <3>4, <3>5, <3>7, <3>8 DEF Orderly
    <3> QED
      BY <3>6, <3>9
<1> QED
  BY <1>4, <1>5

\* So is a refusal, and so is nothing.
LEMMA Unanswered ==
    ASSUME NEW kind \in Kinds, NEW id \in Nat, NEW left \in Seq(Message),
           NEW w \in {left, Append(left, Plain(id, "error"))}
    PROVE  w \in Seq(Message) /\ (Events(left) => Orderly(w, <<>>, kind, id, {}, FALSE))
<1>1. Plain(id, "error") \in Message /\ Plain(id, "error").kind = "error"
  BY DEF Message, Plain
<1>2. w \in Seq(Message) /\ DOMAIN w = 1..Len(w)
  BY <1>1
<1>3. ASSUME Events(left), NEW i \in 1..Len(w)
      PROVE  w[i].kind \in {"event", "error"}
  <2>1. CASE w = left
    BY <1>3, <2>1 DEF Events
  <2>2. CASE w = Append(left, Plain(id, "error"))
    BY <1>3, <2>2, <1>1 DEF Events
  <2> QED
    BY <2>1, <2>2
<1>4. DOMAIN <<>> = {}
  OBVIOUS
<1> QED
  BY <1>2, <1>3, <1>4 DEF Orderly, Completes

\* An action that is none of the job's is not recorded.
LEMMA SentAside ==
    ASSUME JobsAssumption, AmiTypeOK, NEW left \in Seq(Message), Send("plain", left, FALSE)
    PROVE  /\ wire' \in Seq(Message) /\ turn' \in Nat /\ got' = <<>> /\ said' = said
           /\ Events(left) => \E answered \in BOOLEAN :
                                Orderly(wire', <<>>, "plain", turn', {}, answered)
<1>1. PICK id \in Nat : id = turn + 1
  BY DEF AmiTypeOK
<1>2. turn' = id /\ got' = <<>> /\ said' = said
  BY <1>1 DEF Send
<1>3. "plain" \in Kinds /\ {} \in SUBSET Items /\ IsFiniteSet({})
  BY FS_EmptySet DEF Kinds
<1>4. PICK w : w = wire'
  OBVIOUS
<1>5. CASE w \in {left, Append(left, Plain(id, "error"))}
  <2>1. w \in Seq(Message) /\ (Events(left) => Orderly(w, <<>>, "plain", id, {}, FALSE))
    BY <1>3, <1>5, Unanswered
  <2> QED
    BY <2>1, <1>2, <1>4
<1>6. CASE \E n \in 0..Len(Answer("plain", id, {})) :
              w = left \o SubSeq(Answer("plain", id, {}), 1, n)
  <2>1. w \in Seq(Message) /\ (Events(left) => Orderly(w, <<>>, "plain", id, {}, TRUE))
    BY <1>3, <1>6, Arrives
  <2> QED
    BY <2>1, <1>2, <1>4
<1> QED
  BY <1>1, <1>4, <1>5, <1>6 DEF Send

\* One of the job's is recorded if Asterisk carried it out.
LEMMA Sent ==
    ASSUME JobsAssumption, AmiTypeOK, NEW kind \in Kinds, NEW left \in Seq(Message),
           Send(kind, left, TRUE), Events(left)
    PROVE  /\ wire' \in Seq(Message) /\ turn' \in Nat /\ got' = <<>>
           /\ \E s \in SUBSET Items, answered \in BOOLEAN :
                 /\ Orderly(wire', <<>>, kind, turn', s, answered)
                 /\ answered => said' = Append(said, s)
                 /\ ~answered => said' = said /\ s = {}
<1>1. PICK id \in Nat : id = turn + 1
  BY DEF AmiTypeOK
<1>2. turn' = id /\ got' = <<>>
  BY <1>1 DEF Send
<1>3. PICK w : w = wire'
  OBVIOUS
<1>4. CASE w \in {left, Append(left, Plain(id, "error"))} /\ said' = said
  <2>1. w \in Seq(Message) /\ Orderly(w, <<>>, kind, id, {}, FALSE)
    BY <1>4, Unanswered
  <2> QED
    BY <2>1, <1>2, <1>3, <1>4
<1>5. ASSUME NEW s \in IF kind = "list" THEN SUBSET Items ELSE {{}},
             NEW n \in 0..Len(Answer(kind, id, s)),
             w = left \o SubSeq(Answer(kind, id, s), 1, n), said' = Append(said, s)
      PROVE  wire' \in Seq(Message) /\ s \in SUBSET Items
             /\ Orderly(wire', <<>>, kind, turn', s, TRUE)
  <2>1. s \in SUBSET Items /\ (kind = "plain" => s = {})
    BY DEF Kinds
  <2>2. IsFiniteSet(s)
    BY <2>1, FS_Subset DEF JobsAssumption
  <2>3. w \in Seq(Message) /\ Orderly(w, <<>>, kind, id, s, TRUE)
    BY <2>1, <2>2, <1>5, Arrives
  <2> QED
    BY <2>1, <2>3, <1>2, <1>3
<1>6. \/ w \in {left, Append(left, Plain(id, "error"))} /\ said' = said
      \/ \E s \in IF kind = "list" THEN SUBSET Items ELSE {{}} :
            /\ \E n \in 0..Len(Answer(kind, id, s)) : w = left \o SubSeq(Answer(kind, id, s), 1, n)
            /\ said' = Append(said, s)
  BY <1>1, <1>3 DEF Send
<1>7. CASE \E s \in IF kind = "list" THEN SUBSET Items ELSE {{}} :
            /\ \E n \in 0..Len(Answer(kind, id, s)) : w = left \o SubSeq(Answer(kind, id, s), 1, n)
            /\ said' = Append(said, s)
  <2>1. PICK s \in IF kind = "list" THEN SUBSET Items ELSE {{}} :
            /\ \E n \in 0..Len(Answer(kind, id, s)) : w = left \o SubSeq(Answer(kind, id, s), 1, n)
            /\ said' = Append(said, s)
    BY <1>7
  <2> QED
    BY <2>1, <1>2, <1>5
<1> QED
  BY <1>2, <1>4, <1>6, <1>7
-----------------------------------------------------------------------------
(* What reading leaves.                                                    *)

LEMMA OrderlyTail ==
    ASSUME NEW w \in Seq(Message), w # <<>>, NEW g \in Seq(Message), NEW kind, NEW id, NEW s,
           NEW answered, Orderly(w, g, kind, id, s, answered), NEW h,
           \/ h = g /\ Head(w).kind # "item"
           \/ h = Append(g, Head(w))
    PROVE  Orderly(Tail(w), h, kind, id, s, answered)
<1> DEFINE t == Tail(w)
<1>1. /\ t \in Seq(Message) /\ Len(w) \in Nat /\ Len(w) > 0 /\ Len(t) = Len(w) - 1
      /\ \A i \in 1..Len(t) : t[i] = w[i + 1]
  OBVIOUS
<1>2. h \in Seq(Message) /\ \A i \in 1..Len(g) : i \in 1..Len(h) /\ h[i] = g[i]
  <2>1. CASE h = g
    BY ONLY g \in Seq(Message), <2>1
  <2>2. CASE h = Append(g, Head(w))
    <3>1. Head(w) \in Message
      BY ONLY w \in Seq(Message), w # <<>>
    <3> QED
      BY ONLY g \in Seq(Message), <2>2, <3>1
  <2> QED
    BY <2>1, <2>2
<1>3. Head(w) = w[1] /\ Len(g) \in Nat
  BY ONLY w \in Seq(Message), w # <<>>, g \in Seq(Message)
<1>4. /\ \A i \in 1..Len(h) : i \in 1..Len(g) \/ h[i] = w[1]
      /\ w[1].kind = "item" => \E i \in 1..Len(h) : h[i] = w[1]
  <2>1. CASE h = g /\ Head(w).kind # "item"
    BY ONLY <1>3, <2>1
  <2>2. CASE h = Append(g, Head(w))
    <3>1. Len(h) = Len(g) + 1 /\ h[Len(g) + 1] = w[1]
      BY ONLY g \in Seq(Message), <1>3, <2>2
    <3>2. Len(g) + 1 \in 1..Len(h) /\ \A i \in 1..Len(h) : i \in 1..Len(g) \/ i = Len(g) + 1
      BY ONLY <1>3, <3>1
    <3> QED
      BY ONLY <3>1, <3>2
  <2> QED
    BY <2>1, <2>2
<1> HIDE DEF t
<1>5. /\ DOMAIN t = 1..Len(t) /\ DOMAIN h = 1..Len(h) /\ DOMAIN g = 1..Len(g)
      /\ DOMAIN w = 1..Len(w) /\ 1 \in DOMAIN w
      /\ \A i \in 1..Len(t) : i \in Nat /\ i + 1 \in 1..Len(w)
  BY <1>1, <1>2
<1>6. \A i \in DOMAIN t : i \in Nat /\ i + 1 \in DOMAIN w /\ t[i] = w[i + 1]
  BY <1>1, <1>5
<1>7. kind = "plain" => s = {}
  BY DEF Orderly
<1>8. \A i \in DOMAIN h : h[i].kind = "item" => h[i].item \in s
  <2> SUFFICES ASSUME NEW i \in DOMAIN h, h[i].kind = "item" PROVE h[i].item \in s
    OBVIOUS
  <2>1. CASE i \in DOMAIN g
    BY <1>2, <1>5, <2>1 DEF Orderly
  <2>2. CASE h[i] = w[1]
    BY <1>5, <2>2 DEF Orderly
  <2> QED
    BY ONLY i \in DOMAIN h, <1>4, <1>5, <2>1, <2>2
<1>9. \A i \in DOMAIN t : t[i].kind = "item" => t[i].item \in s /\ t[i].id = id
  BY <1>6 DEF Orderly
<1>10. \A i, j \in DOMAIN t : Completes(kind, t[i]) => answered
       /\ (i < j => t[j].kind = "event")
  <2> SUFFICES ASSUME NEW i \in DOMAIN t, NEW j \in DOMAIN t, Completes(kind, t[i])
               PROVE  answered /\ (i < j => t[j].kind = "event")
    OBVIOUS
  <2>1. t[i] = w[i + 1] /\ t[j] = w[j + 1] /\ i + 1 \in DOMAIN w /\ j + 1 \in DOMAIN w
    BY <1>6
  <2>2. i < j => i + 1 < j + 1
    BY <1>6
  <2> QED
    BY <2>1, <2>2 DEF Orderly
<1>11. ASSUME NEW j \in DOMAIN t, t[j].kind = "complete", NEW x \in s
       PROVE  \/ \E i \in DOMAIN h : h[i].kind = "item" /\ h[i].item = x
              \/ \E i \in DOMAIN t : i < j /\ t[i].kind = "item" /\ t[i].item = x
  <2>1. t[j] = w[j + 1] /\ j + 1 \in DOMAIN w /\ j \in Nat
    BY <1>1, <1>5
  <2>2. CASE \E i \in DOMAIN g : g[i].kind = "item" /\ g[i].item = x
    BY <2>2, <1>2, <1>5
  <2>3. CASE \E i \in DOMAIN w : i < j + 1 /\ w[i].kind = "item" /\ w[i].item = x
    <3>1. PICK i \in DOMAIN w : i < j + 1 /\ w[i].kind = "item" /\ w[i].item = x
      BY <2>3
    <3>2. CASE i = 1
      BY <3>1, <3>2, <1>4, <1>5
    <3>3. CASE i # 1
      <4>1. Len(w) \in Nat /\ Len(t) = Len(w) - 1 /\ DOMAIN w = 1..Len(w)
            /\ DOMAIN t = 1..Len(t)
        BY <1>1, <1>5
      <4>2. i \in 1..Len(w) /\ i - 1 \in DOMAIN t /\ (i - 1) + 1 = i
        BY ONLY i \in DOMAIN w, <3>3, <4>1
      <4>3. i - 1 \in DOMAIN t /\ i - 1 < j /\ t[i - 1] = w[i]
        BY <4>2, <3>1, <1>6, <2>1
      <4> QED
        BY <4>3, <3>1
    <3> QED
      BY <3>2, <3>3
  <2> QED
    BY <1>11, <2>1, <2>2, <2>3 DEF Orderly
<1> QED
  BY <1>7, <1>8, <1>9, <1>10, <1>11 DEF Orderly, t

\* An event that precedes what is on the wire leaves it in order.
LEMMA OrderlyEvent ==
    ASSUME NEW w \in Seq(Message), NEW g \in Seq(Message), NEW kind, NEW id, NEW s,
           NEW answered, Orderly(w, g, kind, id, s, answered),
           NEW v, v = <<Plain(NoId, "event")>> \o w
    PROVE  v \in Seq(Message) /\ Orderly(v, g, kind, id, s, answered)
<1>1. Plain(NoId, "event") \in Message /\ Plain(NoId, "event").kind = "event"
  BY DEF Plain, Message, NoId
<1>2. /\ v \in Seq(Message) /\ Len(w) \in Nat /\ Len(v) = Len(w) + 1 /\ v[1].kind = "event"
      /\ \A i \in 1..Len(w) : v[i + 1] = w[i]
  BY <1>1
<1>3. ASSUME NEW i \in DOMAIN v, v[i].kind # "event"
      PROVE  i - 1 \in DOMAIN w /\ v[i] = w[i - 1]
  <2>1. i \in 1..(Len(w) + 1) /\ i # 1 /\ DOMAIN w = 1..Len(w)
    BY <1>2, <1>3
  <2>2. i - 1 \in 1..Len(w) /\ (i - 1) + 1 = i
    BY <2>1, <1>2
  <2> QED
    BY <2>1, <2>2, <1>2
<1>4. DOMAIN v \subseteq Nat /\ DOMAIN w \subseteq Nat
      /\ \A i \in DOMAIN w : i + 1 \in DOMAIN v /\ v[i + 1] = w[i]
  BY <1>2
<1>5. \A i \in DOMAIN v : v[i].kind = "item" => v[i].item \in s /\ v[i].id = id
  BY <1>3 DEF Orderly
<1>6. \A i, j \in DOMAIN v : Completes(kind, v[i]) => answered /\ (i < j => v[j].kind = "event")
  <2> SUFFICES ASSUME NEW i \in DOMAIN v, NEW j \in DOMAIN v, Completes(kind, v[i])
               PROVE  answered /\ (i < j => v[j].kind = "event")
    OBVIOUS
  <2>1. i - 1 \in DOMAIN w /\ v[i] = w[i - 1]
    BY <1>3 DEF Completes
  <2>2. ASSUME i < j, v[j].kind # "event" PROVE FALSE
    <3>1. j - 1 \in DOMAIN w /\ v[j] = w[j - 1] /\ i - 1 < j - 1
      BY <2>2, <1>3, <1>4
    <3>2. \A k, l \in DOMAIN w : Completes(kind, w[k]) /\ k < l => w[l].kind = "event"
      BY DEF Orderly
    <3>3. Completes(kind, w[i - 1])
      BY <2>1
    <3> QED
      BY ONLY <2>1, <2>2, <3>1, <3>2, <3>3
  <2> QED
    BY <2>1, <2>2 DEF Orderly
<1>7. ASSUME NEW j \in DOMAIN v, v[j].kind = "complete", NEW x \in s
      PROVE  \/ \E i \in DOMAIN g : g[i].kind = "item" /\ g[i].item = x
             \/ \E i \in DOMAIN v : i < j /\ v[i].kind = "item" /\ v[i].item = x
  <2>1. j - 1 \in DOMAIN w /\ v[j] = w[j - 1]
    BY <1>3, <1>7
  <2>2. ASSUME NEW i \in DOMAIN w, i < j - 1, w[i].kind = "item", w[i].item = x
        PROVE  \E k \in DOMAIN v : k < j /\ v[k].kind = "item" /\ v[k].item = x
    <3>1. i + 1 < j
      BY <2>2, <1>4
    <3> QED
      BY <3>1, <1>4, <2>2
  <2>3. \/ \E i \in DOMAIN g : g[i].kind = "item" /\ g[i].item = x
        \/ \E i \in DOMAIN w : i < j - 1 /\ w[i].kind = "item" /\ w[i].item = x
    <3>1. \A l \in DOMAIN w : w[l].kind = "complete" => \A y \in s :
             \/ \E i \in DOMAIN g : g[i].kind = "item" /\ g[i].item = y
             \/ \E i \in DOMAIN w : i < l /\ w[i].kind = "item" /\ w[i].item = y
      BY DEF Orderly
    <3> QED
      BY ONLY <1>7, <2>1, <3>1
  <2> QED
    BY ONLY <2>2, <2>3
<1> QED
  BY <1>2, <1>5, <1>6, <1>7 DEF Orderly
\* The message that completes an answer: what was gathered is all that was listed, and
\* only events are left to be read.
LEMMA CompleteAnswer ==
    ASSUME NEW w \in Seq(Message), w # <<>>, NEW g \in Seq(Message), NEW kind \in Kinds, NEW id,
           NEW s, NEW answered, Orderly(w, g, kind, id, s, answered),
           Completes(kind, Head(w))
    PROVE  Part(Append(g, Head(w))) = s /\ Events(Tail(w))
<1>1. /\ DOMAIN w = 1..Len(w) /\ Len(w) \in Nat /\ 1 \in DOMAIN w /\ Head(w) = w[1]
      /\ DOMAIN g = 1..Len(g) /\ Head(w) \in Message
  OBVIOUS
<1>2. /\ Tail(w) \in Seq(Message)
      /\ \A i \in 1..Len(Tail(w)) : i + 1 \in DOMAIN w /\ 1 < i + 1 /\ Tail(w)[i] = w[i + 1]
  OBVIOUS
<1>3. \A j \in DOMAIN w : 1 < j => w[j].kind = "event"
  BY <1>1 DEF Orderly
<1>4. Events(Tail(w))
  BY <1>2, <1>3 DEF Events
<1>5. w[1].kind # "item"
  BY <1>1 DEF Completes
<1> DEFINE h == Append(g, Head(w))
<1>6. h \in Seq(Message) /\ DOMAIN h = 1..(Len(g) + 1) /\ h[Len(g) + 1] = w[1]
      /\ \A i \in 1..Len(g) : h[i] = g[i]
  BY <1>1
<1> HIDE DEF h
<1>7. Part(h) = {m.item : m \in {h[i] : i \in {k \in DOMAIN h : h[k].kind = "item"}}}
  BY DEF Part, Range
<1>8. Part(h) \subseteq s
  <2>1. \A i \in DOMAIN h : h[i].kind = "item" => i \in DOMAIN g /\ h[i] = g[i]
    BY <1>6, <1>5, <1>1
  <2> QED
    BY <2>1, <1>7 DEF Orderly
<1>9. s \subseteq Part(h)
  <2> SUFFICES ASSUME NEW x \in s PROVE x \in Part(h)
    OBVIOUS
  <2>1. w[1].kind = "complete"
    BY <1>1 DEF Orderly, Completes, Kinds
  <2>2. ~ \E i \in DOMAIN w : i < 1
    BY <1>1
  <2>3. PICK i \in DOMAIN g : g[i].kind = "item" /\ g[i].item = x
    BY <2>1, <2>2, <1>1 DEF Orderly
  <2>4. i \in DOMAIN h /\ h[i] = g[i]
    BY <1>1, <1>6
  <2> QED
    BY <2>3, <2>4, <1>7
<1> QED
  BY <1>4, <1>8, <1>9 DEF h
-----------------------------------------------------------------------------
(* The steps.                                                              *)

LEMMA Whole ==
    ASSUME AmiTypeOK, AllAnswered
    PROVE  [i \in DOMAIN answers |-> Part(answers[i])] = said
<1>1. DOMAIN answers = 1..Len(answers) /\ said = [i \in 1..Len(said) |-> said[i]]
  BY DEF AmiTypeOK
<1> QED
  BY <1>1 DEF AllAnswered, Agree

\* An outcome is handed over.
LEMMA DeliverStep ==
    ASSUME JobsAssumption, SessionInv, NEW ok \in BOOLEAN, Deliver(ok), ok => AllAnswered
    PROVE  SessionInv'
<1>1. AmiTypeOK /\ pc' = "idle" /\ result' = Outcome(ok)
      /\ UNCHANGED <<job, turn, wire, broken, got, answers, failed, said, extra>>
  BY DEF SessionInv, Deliver, link
<1>2. CASE ok
  <2>1. result' = [job |-> job, ok |-> TRUE, parts |-> said]
    BY <1>1, <1>2, Whole DEF Outcome
  <2>2. Len(said) = Len(Script[job])
    BY <1>2 DEF AllAnswered
  <2> QED
    BY <1>1, <2>1, <2>2 DEF SessionInv, AmiTypeOK, ResultIsWhole
<1>3. CASE ~ok
  <2>1. result' = [job |-> job, ok |-> FALSE, parts |-> <<>>]
    BY <1>1, <1>3 DEF Outcome
  <2> QED
    BY <1>1, <2>1 DEF SessionInv, AmiTypeOK, ResultIsWhole
<1> QED
  BY <1>2, <1>3

\* The block is left.
LEMMA CloseStep ==
    ASSUME JobsAssumption, SessionInv, pc # "idle", NEW exception \in BOOLEAN,
           NEW left \in Seq(Message),
           EnterClose(exception, left), UNCHANGED <<job, broken, result, extra>>,
           answers' \in Seq(Seq(Message)), ~exception => AllAnswered'
    PROVE  SessionInv'
<1>1. AmiTypeOK /\ pc' = "logoff" /\ failed' = exception /\ Send("plain", left, FALSE)
  BY DEF SessionInv, EnterClose
<1>2. wire' \in Seq(Message) /\ turn' \in Nat /\ got' = <<>> /\ said' \in Seq(SUBSET Items)
  BY <1>1, SentAside DEF AmiTypeOK
<1>3. AmiTypeOK'
  BY <1>1, <1>2 DEF AmiTypeOK
<1>4. result' = Unfinished /\ ResultIsWhole'
  BY DEF SessionInv, Unfinished, ResultIsWhole
<1> QED
  BY <1>1, <1>3, <1>4 DEF SessionInv

\* An exception.
LEMMA RaiseStep ==
    ASSUME JobsAssumption, SessionInv, NEW left \in Seq(Message), Raise(left)
    PROVE  SessionInv'
<1>1. CASE pc \in {"greeting", "login"} /\ Deliver(FALSE)
  BY <1>1, DeliverStep
<1>2. CASE pc = "acting" /\ EnterClose(TRUE, left)
           /\ UNCHANGED <<job, broken, answers, result, extra>>
  <2>1. answers' \in Seq(Seq(Message))
    BY <1>2 DEF SessionInv, AmiTypeOK
  <2> QED
    BY <1>2, <2>1, CloseStep
<1>3. CASE pc = "logoff" /\ pc' = "closing"
           /\ UNCHANGED <<job, turn, link, got, answers, failed, result, said, extra>>
  BY <1>3 DEF SessionInv, AmiTypeOK, link, ResultIsWhole, AllAnswered, Agree
<1> QED
  BY <1>1, <1>2, <1>3 DEF Raise

\* The next action is written, or the last was answered.
LEMMA AdvanceStep ==
    ASSUME JobsAssumption, SessionInv, pc \in {"login", "acting"},
           NEW done \in Seq(Seq(Message)),
           Len(done) <= Len(Script[job]), Len(said) = Len(done),
           \A i \in 1..Len(done) : Part(done[i]) = said[i],
           wire # <<>>, Events(Tail(wire)), Advance(done)
    PROVE  SessionInv'
<1>1. AmiTypeOK /\ answers' = done /\ UNCHANGED <<job, broken, result, extra>>
  BY DEF SessionInv, Advance
<1>2. Len(done) \in Nat /\ Tail(wire) \in Seq(Message) /\ said \in Seq(SUBSET Items)
  BY <1>1 DEF AmiTypeOK
<1>3. CASE Len(done) < Len(Script[job])
  <2>1. pc' = "acting" /\ Send(Script[job][Len(done) + 1], Tail(wire), TRUE) /\ failed' = failed
    BY <1>3 DEF Advance
  <2>2. PICK kind \in Kinds : kind = Script[job][Len(done) + 1]
    <3>1. Len(done) + 1 \in 1..Len(Script[job]) /\ job \in Jobs
      BY <1>1, <1>2, <1>3, ScriptFacts DEF AmiTypeOK
    <3> QED
      BY <3>1, ScriptFacts
  <2>3. PICK left \in Seq(Message) : left = Tail(wire)
    BY <1>2
  <2>4. Send(kind, left, TRUE) /\ Events(left)
    BY <2>1, <2>2, <2>3
  <2>5. /\ wire' \in Seq(Message) /\ turn' \in Nat /\ got' = <<>>
        /\ \E s \in SUBSET Items, answered \in BOOLEAN :
              /\ Orderly(wire', <<>>, kind, turn', s, answered)
              /\ answered => said' = Append(said, s)
              /\ ~answered => said' = said /\ s = {}
    BY <1>1, <2>4, Sent
  <2>6. PICK s \in SUBSET Items, answered \in BOOLEAN :
              /\ Orderly(wire', <<>>, kind, turn', s, answered)
              /\ answered => said' = Append(said, s)
              /\ ~answered => said' = said /\ s = {}
    BY <2>5
  <2>7. /\ Len(said') = IF answered THEN Len(done) + 1 ELSE Len(done)
        /\ answered => said'[Len(done) + 1] = s
        /\ \A i \in 1..Len(done) : said'[i] = said[i]
    BY <2>6, <1>2
  <2>8. Awaited' = kind
    BY <2>1, <2>2, <1>1 DEF Awaited
  <2>9. Listed' = s /\ IsAnswered' = answered
    BY <2>1, <2>6, <2>7, <1>1, <1>2 DEF Listed, IsAnswered
  <2>10. WireInOrder'
    BY <2>5, <2>6, <2>8, <2>9 DEF WireInOrder
  <2>11. AmiTypeOK'
    <3>1. said' = said \/ said' = Append(said, s)
      BY <2>6
    <3>2. PICK t \in Seq(SUBSET Items) : t = said
      BY <1>2
    <3>3. Append(t, s) \in Seq(SUBSET Items)
      BY AppendProperties
    <3>4. said' \in Seq(SUBSET Items)
      BY <3>1, <3>2, <3>3
    <3> QED
      BY <1>1, <2>1, <2>5, <3>4 DEF AmiTypeOK
  <2>12. Agree(Len(answers))'
    BY <1>1, <2>7 DEF Agree
  <2>13. result' = Unfinished /\ ResultIsWhole'
    BY <1>1 DEF SessionInv, Unfinished, ResultIsWhole
  <2> QED
    BY <1>1, <1>3, <2>1, <2>7, <2>10, <2>11, <2>12, <2>13 DEF SessionInv
<1>4. CASE ~(Len(done) < Len(Script[job]))
  <2>1. EnterClose(FALSE, Tail(wire))
    BY <1>4 DEF Advance
  <2>2. said' = said
    BY <2>1, <1>1, <1>2, SentAside DEF EnterClose
  <2>3. Len(Script[job]) \in Nat
    BY <1>1, ScriptFacts DEF AmiTypeOK
  <2>4. AllAnswered'
    BY <1>1, <1>2, <1>4, <2>2, <2>3 DEF AllAnswered, Agree
  <2> QED
    BY <1>1, <1>2, <2>1, <2>4, CloseStep
<1> QED
  BY <1>3, <1>4
\* A message is read and the answer goes on.
LEMMA ReadStep ==
    ASSUME JobsAssumption, SessionInv, Reading, wire' = Tail(wire),
           \/ got' = got /\ Head(wire).kind # "item"
           \/ got' = Append(got, Head(wire)),
           UNCHANGED <<pc, job, turn, broken, answers, failed, result, said, extra>>
    PROVE  SessionInv'
<1>1. AmiTypeOK /\ wire \in Seq(Message) /\ wire # <<>> /\ got \in Seq(Message)
  BY DEF SessionInv, AmiTypeOK, Reading
<1>2. Tail(wire) \in Seq(Message) /\ Append(got, Head(wire)) \in Seq(Message)
  BY <1>1
<1>3. Awaited' = Awaited /\ Listed' = Listed /\ IsAnswered' = IsAnswered
  BY DEF Awaited, Listed, IsAnswered
<1>4. WireInOrder => WireInOrder'
  <2> SUFFICES ASSUME WireInOrder PROVE WireInOrder'
    OBVIOUS
  <2>1. PICK w \in Seq(Message), g \in Seq(Message), kind \in {Awaited}, id \in {turn},
             s \in {Listed}, answered \in {IsAnswered} :
           /\ w = wire /\ g = got /\ kind = Awaited /\ id = turn /\ s = Listed
           /\ answered = IsAnswered
    BY <1>1
  <2>2. PICK h : h = got'
    OBVIOUS
  <2>3. Orderly(w, g, kind, id, s, answered)
    BY <2>1 DEF WireInOrder
  <2>4. w # <<>> /\ ((h = g /\ Head(w).kind # "item") \/ h = Append(g, Head(w)))
    BY <2>1, <2>2, <1>1
  <2>5. Orderly(Tail(w), h, kind, id, s, answered)
    BY <2>3, <2>4, OrderlyTail
  <2> QED
    BY <2>1, <2>2, <2>5, <1>3 DEF WireInOrder
<1>5. AmiTypeOK'
  BY <1>1, <1>2 DEF AmiTypeOK
<1> QED
  BY <1>4, <1>5 DEF SessionInv, Reading, AllAnswered, Agree, ResultIsWhole

\* A message of another action is read and left out.
LEMMA SkipStep ==
    ASSUME JobsAssumption, SessionInv, Skip
    PROVE  SessionInv'
<1>1. CASE pc \in {"login", "acting"}
  <2>1. WireInOrder /\ wire \in Seq(Message) /\ wire # <<>> /\ Head(wire).id # turn
    BY <1>1 DEF SessionInv, AmiTypeOK, Skip, Reading, Mine
  <2>2. 1 \in DOMAIN wire /\ Head(wire) = wire[1]
    BY <2>1
  <2>3. Head(wire).kind # "item"
    BY <2>1, <2>2 DEF WireInOrder, Orderly
  <2> QED
    BY <2>3, ReadStep DEF Skip
<1>2. CASE pc \notin {"login", "acting"}
  <2>1. wire' \in Seq(Message) /\ pc = "logoff"
    BY <1>2 DEF SessionInv, AmiTypeOK, Skip, Reading
  <2> QED
    BY <2>1 DEF SessionInv, AmiTypeOK, Skip, AllAnswered, Agree, ResultIsWhole
<1> QED
  BY <1>1, <1>2

\* The login is answered, and the first action is written or the session left.
LEMMA LoginStep ==
    ASSUME JobsAssumption, SessionInv, LoggedIn
    PROVE  SessionInv'
<1>1. /\ AmiTypeOK /\ pc = "login" /\ Reading /\ wire # <<>> /\ Completes(Awaited, Head(wire))
      /\ Advance(<<>>) /\ WireInOrder /\ said = <<>> /\ answers = <<>>
  BY DEF SessionInv, LoggedIn, Complete, Reading
<1>2. PICK w \in Seq(Message), g \in Seq(Message), kind \in Kinds, id \in {turn},
           s \in {Listed}, answered \in {IsAnswered} :
         /\ w = wire /\ g = got /\ kind = Awaited /\ id = turn /\ s = Listed
         /\ answered = IsAnswered
  BY <1>1 DEF AmiTypeOK, Awaited, Kinds, IsAnswered
<1>3. Orderly(w, g, kind, id, s, answered) /\ Completes(kind, Head(w)) /\ w # <<>>
  BY <1>1, <1>2 DEF WireInOrder
<1>4. Events(Tail(w))
  BY <1>3, CompleteAnswer
<1>5. PICK done \in Seq(Seq(Message)) : done = <<>> /\ Len(done) = 0
  BY EmptySeq
<1>6. Len(done) <= Len(Script[job]) /\ Len(said) = Len(done) /\ Events(Tail(wire))
      /\ Advance(done)
  BY <1>1, <1>2, <1>4, <1>5, ScriptFacts DEF AmiTypeOK
<1>7. \A i \in 1..Len(done) : Part(done[i]) = said[i]
  BY <1>5
<1> QED
  BY <1>1, <1>6, <1>7, AdvanceStep

\* An action is answered: what was gathered is what Asterisk listed, and the next action
\* is written or the session is over.
LEMMA AnsweredStep ==
    ASSUME JobsAssumption, SessionInv, Answered
    PROVE  SessionInv'
<1>1. /\ AmiTypeOK /\ pc = "acting" /\ wire # <<>> /\ Completes(Awaited, Head(wire))
      /\ Advance(Append(answers, Append(got, Head(wire)))) /\ WireInOrder
      /\ Len(answers) < Len(Script[job]) /\ Agree(Len(answers))
      /\ Len(said) \in {Len(answers), Len(answers) + 1}
  BY DEF SessionInv, Answered, Complete, Reading
<1>2. /\ wire \in Seq(Message) /\ got \in Seq(Message) /\ answers \in Seq(Seq(Message))
      /\ said \in Seq(SUBSET Items) /\ job \in Jobs /\ Len(answers) \in Nat
  BY <1>1 DEF AmiTypeOK
<1>3. Awaited \in Kinds
  <2>1. Len(answers) + 1 \in 1..Len(Script[job])
    BY <1>1, <1>2, ScriptFacts
  <2> QED
    BY <2>1, <1>1, <1>2, ScriptFacts DEF Awaited
<1>4. PICK w \in Seq(Message), g \in Seq(Message), kind \in Kinds, id \in {turn},
           s \in {Listed}, answered \in {IsAnswered} :
         /\ w = wire /\ g = got /\ kind = Awaited /\ id = turn /\ s = Listed
         /\ answered = IsAnswered
  BY <1>2, <1>3 DEF IsAnswered
<1>5. Orderly(w, g, kind, id, s, answered) /\ Completes(kind, Head(w)) /\ w # <<>>
  BY <1>1, <1>4 DEF WireInOrder
<1>6. Part(Append(g, Head(w))) = s /\ Events(Tail(w))
  BY <1>5, CompleteAnswer
<1>7. Len(said) = Len(answers) + 1 /\ s = said[Len(said)]
  <2>1. 1 \in DOMAIN wire /\ Completes(Awaited, wire[1])
    BY <1>1, <1>2
  <2>2. IsAnswered
    BY <2>1, <1>1 DEF WireInOrder, Orderly
  <2> QED
    BY <2>2, <1>1, <1>4 DEF IsAnswered, Listed
<1>8. PICK last \in Seq(Message) : last = Append(got, Head(wire))
  <2>1. Head(w) \in Message
    BY <1>5
  <2>2. Append(g, Head(w)) \in Seq(Message)
    BY <2>1, AppendProperties
  <2> QED
    BY <2>2, <1>4
<1>9. PICK done \in Seq(Seq(Message)) : done = Append(answers, last)
  BY <1>2, AppendProperties
<1>10. Len(done) = Len(answers) + 1 /\ done[Len(answers) + 1] = last
       /\ \A i \in 1..Len(answers) : done[i] = answers[i]
  BY <1>2, <1>9
<1>11. Part(last) = said[Len(answers) + 1] /\ Events(Tail(wire)) /\ Advance(done)
  BY <1>1, <1>4, <1>6, <1>7, <1>8, <1>9
<1>12. \A i \in 1..Len(done) : Part(done[i]) = said[i]
  <2>1. \A i \in 1..Len(done) : i \in 1..Len(answers) \/ i = Len(answers) + 1
    BY <1>10, <1>2
  <2> QED
    BY <2>1, <1>10, <1>11, <1>1 DEF Agree
<1>13. Len(done) <= Len(Script[job]) /\ Len(said) = Len(done)
  BY <1>1, <1>2, <1>7, <1>10, ScriptFacts
<1> QED
  BY <1>1, <1>11, <1>12, <1>13, AdvanceStep
\* Nothing is asked or answered at first.
LEMMA SessionInit == JobsAssumption /\ Init => SessionInv
<1> SUFFICES ASSUME JobsAssumption, Init PROVE SessionInv
  OBVIOUS
<1>1. Unfinished \in [job : Jobs \union {"none"}, ok : BOOLEAN, parts : Seq(SUBSET Items)]
  BY DEF Unfinished
<1>2. AmiTypeOK
  <2>1. <<>> \in Seq(Message) /\ <<>> \in Seq(Seq(Message)) /\ <<>> \in Seq(SUBSET Items)
    BY EmptySeq
  <2>2. extra \in 0..MaxExtra /\ turn \in Nat
    BY DEF Init, JobsAssumption
  <2> QED
    BY <1>1, <2>1, <2>2 DEF Init, AmiTypeOK
<1> QED
  BY <1>2 DEF Init, SessionInv, ResultIsWhole, Unfinished

\* Every step of a session keeps the invariant.
LEMMA SessionStep ==
    ASSUME JobsAssumption, SessionInv, [Next]_vars
    PROVE  SessionInv'
<1>1. AmiTypeOK
  BY DEF SessionInv
<1>2. wire \in Seq(Message) /\ (wire # <<>> => Tail(wire) \in Seq(Message))
  BY <1>1 DEF AmiTypeOK
<1>3. <<>> \in Seq(Message) /\ <<>> \in Seq(Seq(Message)) /\ <<>> \in Seq(SUBSET Items)
  BY EmptySeq
<1>4. 0 \in 0..MaxExtra
  BY DEF JobsAssumption
<1>5. CASE Open
  <2>1. PICK new \in Jobs : /\ Begin(new) /\ pc' = "greeting" /\ result' = Unfinished
                            /\ wire' = <<Plain(NoId, "event")>>
    BY <1>5 DEF Open
  <2>2. wire' \in Seq(Message)
    BY <2>1 DEF Plain, NoId, Message
  <2>3. AmiTypeOK'
    <3>1. result' \in [job : Jobs \union {"none"}, ok : BOOLEAN, parts : Seq(SUBSET Items)]
      BY <2>1, <1>3 DEF Unfinished
    <3>2. said' \in Seq(SUBSET Items) /\ answers' \in Seq(Seq(Message)) /\ got' \in Seq(Message)
      BY <2>1, <1>3 DEF Begin
    <3>3. turn' \in Nat /\ extra' \in 0..MaxExtra /\ broken' \in BOOLEAN
          /\ failed' \in BOOLEAN /\ job' \in Jobs
      BY <2>1, <1>4 DEF Begin
    <3> QED
      BY <2>1, <2>2, <3>1, <3>2, <3>3 DEF AmiTypeOK
  <2> QED
    BY <2>1, <2>3 DEF SessionInv, Begin, ResultIsWhole, Unfinished
<1>6. CASE OpenFails
  <2>1. PICK new \in Jobs : /\ Begin(new) /\ pc' = pc /\ wire' = <<>>
                            /\ result' = [job |-> new, ok |-> FALSE, parts |-> <<>>]
    BY <1>6 DEF OpenFails
  <2>2. AmiTypeOK'
    <3>1. result' \in [job : Jobs \union {"none"}, ok : BOOLEAN, parts : Seq(SUBSET Items)]
      BY <2>1, <1>3
    <3>2. said' \in Seq(SUBSET Items) /\ answers' \in Seq(Seq(Message)) /\ got' \in Seq(Message)
      BY <2>1, <1>3 DEF Begin
    <3>3. turn' \in Nat /\ extra' \in 0..MaxExtra /\ broken' \in BOOLEAN
          /\ failed' \in BOOLEAN /\ job' \in Jobs
      BY <2>1, <1>4 DEF Begin
    <3> QED
      BY <2>1, <3>1, <3>2, <3>3, <1>3, <1>1 DEF AmiTypeOK
  <2> QED
    BY <2>1, <2>2 DEF SessionInv, Begin, ResultIsWhole
<1>7. CASE ReadGreeting
  <2>1. /\ pc = "greeting" /\ pc' = "login" /\ Send("plain", Tail(wire), FALSE)
        /\ UNCHANGED <<job, broken, answers, failed, result, extra>>
        /\ wire = <<Plain(NoId, "event")>> /\ said = <<>> /\ answers = <<>>
    BY <1>7 DEF ReadGreeting, SessionInv
  <2>2. PICK left \in Seq(Message) : left = Tail(wire) /\ Len(left) = 0
    <3>1. PICK w \in Seq(Message) : w = wire /\ Len(w) = 1
      BY <2>1, <1>2
    <3>2. Tail(w) \in Seq(Message) /\ Len(Tail(w)) = 0
      BY <3>1
    <3> QED
      BY <3>1, <3>2
  <2>3. Send("plain", left, FALSE) /\ Events(left)
    <3>1. Events(left)
      BY <2>2 DEF Events
    <3> QED
      BY <2>1, <2>2, <3>1
  <2>4. /\ wire' \in Seq(Message) /\ turn' \in Nat /\ got' = <<>> /\ said' = said
        /\ \E answered \in BOOLEAN : Orderly(wire', <<>>, "plain", turn', {}, answered)
    BY <2>3, <1>1, SentAside
  <2>5. PICK answered \in BOOLEAN : Orderly(wire', <<>>, "plain", turn', {}, answered)
    BY <2>4
  <2>6. Orderly(wire', got', "plain", turn', {}, TRUE)
    BY <2>4, <2>5 DEF Orderly
  <2>7. Awaited' = "plain" /\ Listed' = {} /\ IsAnswered' = TRUE
    BY <2>1 DEF Awaited, Listed, IsAnswered
  <2>8. WireInOrder'
    BY <2>6, <2>7 DEF WireInOrder
  <2>9. AmiTypeOK'
    BY <2>1, <2>4, <1>1 DEF AmiTypeOK
  <2> QED
    BY <2>1, <2>4, <2>8, <2>9 DEF SessionInv, ResultIsWhole
<1>8. CASE Skip
  BY <1>8, SkipStep
<1>9. CASE Gather
  BY <1>9, ReadStep DEF Gather
<1>10. CASE LoggedIn
  BY <1>10, LoginStep
<1>11. CASE LoginNotRecognised
  BY <1>11, <1>2, RaiseStep DEF LoginNotRecognised, Complete, Reading
<1>12. CASE Answered
  BY <1>12, AnsweredStep
<1>13. CASE LoggedOff
  BY <1>13, <1>1 DEF LoggedOff, SessionInv, AmiTypeOK, link, AllAnswered, Agree, ResultIsWhole
<1>14. CASE Refused
  BY <1>14, <1>2, RaiseStep DEF Refused, Reading
<1>15. CASE TimeOut
  BY <1>15, <1>2, RaiseStep DEF TimeOut
<1>16. CASE ReadFails
  BY <1>16, <1>2, RaiseStep DEF ReadFails
<1>17. CASE Close
  <2>1. CASE Deliver(~failed)
    <3>1. pc = "closing" /\ failed \in BOOLEAN
      BY <1>17, <1>1 DEF Close, AmiTypeOK
    <3>2. CASE failed
      BY <2>1, <3>2, DeliverStep
    <3>3. CASE ~failed
      <4>1. AllAnswered
        BY <3>1, <3>3 DEF SessionInv
      <4>2. Deliver(TRUE)
        BY <2>1, <3>3
      <4> QED
        BY <4>1, <4>2, DeliverStep
    <3> QED
      BY <3>1, <3>2, <3>3
  <2>2. CASE Deliver(FALSE)
    BY <2>2, DeliverStep
  <2> QED
    BY <2>1, <2>2, <1>17 DEF Close
<1>18. CASE BreakLink
  BY <1>18, <1>1 DEF BreakLink, SessionInv, AmiTypeOK, WireInOrder, Awaited, Listed, IsAnswered,
        AllAnswered, Agree, ResultIsWhole
<1>19. CASE Unsolicited
  <2>1. /\ wire' = <<Plain(NoId, "event")>> \o wire /\ extra' = extra + 1 /\ extra < MaxExtra
        /\ pc # "greeting"
           /\ UNCHANGED <<pc, job, turn, broken, got, answers, failed, result, said>>
    BY <1>19 DEF Unsolicited
  <2>2. PICK w \in Seq(Message), g \in Seq(Message), kind \in {Awaited}, id \in {turn},
             s \in {Listed}, answered \in {IsAnswered} :
           /\ w = wire /\ g = got /\ kind = Awaited /\ id = turn /\ s = Listed
           /\ answered = IsAnswered
    BY <1>1 DEF AmiTypeOK
  <2>3. PICK v : v = wire'
    OBVIOUS
  <2>4. v = <<Plain(NoId, "event")>> \o w
    BY <2>1, <2>2, <2>3
  <2>5. Orderly(w, g, kind, id, s, answered) => Orderly(v, g, kind, id, s, answered)
    BY <2>4, OrderlyEvent
  <2>6. Awaited' = Awaited /\ Listed' = Listed /\ IsAnswered' = IsAnswered
    BY <2>1 DEF Awaited, Listed, IsAnswered
  <2>7. WireInOrder => WireInOrder'
    BY <2>1, <2>2, <2>3, <2>5, <2>6 DEF WireInOrder
  <2>8. v \in Seq(Message)
    BY <2>4 DEF Plain, NoId, Message
  <2>9. AmiTypeOK'
    BY <2>1, <2>3, <2>8, <1>1 DEF AmiTypeOK, JobsAssumption
  <2> QED
    BY <2>1, <2>7, <2>9 DEF SessionInv, AllAnswered, Agree, ResultIsWhole
<1>20. CASE UNCHANGED vars
  BY <1>20, <1>1 DEF vars, link, SessionInv, AmiTypeOK, WireInOrder, Awaited, Listed,
     IsAnswered,
        AllAnswered, Agree, ResultIsWhole
<1> QED
  BY <1>5, <1>6, <1>7, <1>8, <1>9, <1>10, <1>11, <1>12, <1>13, <1>14, <1>15, <1>16, <1>17,
     <1>18, <1>19, <1>20 DEF Next, Client

\* What the agent reports of its PBX, and answers to a live command, is what Asterisk
\* said: the answer to each action of the job and nothing of another, however messages
\* without an ActionID come between, whatever Asterisk leaves unsaid, and wherever the
\* connection breaks (collect_agent_telemetry, AsteriskAMIClient.action).
THEOREM AmiOutcomeIsWhole == ASSUME JobsAssumption PROVE SafeSpec => []OutcomeIsWhole
<1>1. Init => SessionInv
  BY SessionInit
<1>2. SessionInv /\ [Next]_vars => SessionInv'
  BY SessionStep
<1>3. SessionInv => OutcomeIsWhole
  BY DEF SessionInv, OutcomeIsWhole
<1> QED
  BY <1>1, <1>2, <1>3, PTL DEF SafeSpec
=============================================================================
