--------------------------- MODULE RecordingState ---------------------------
(***************************************************************************)
(* The state of RecordingPlayback: recordings, the reports of them and the *)
(* requests to play one, and what is to hold of these.                     *)
(***************************************************************************)
EXTENDS Naturals, FiniteSets

CONSTANTS
    Names,      \* recordings that are made
    Retentions, \* the values recording_retention_days may have
    Limit,      \* recordings in one report, "limit" of scan_recording_metadata
    MaxTime     \* bound: days that pass

VARIABLES
    now,        \* the day
    written,    \* when each recording was written, Never before it was
    present,    \* the recordings whose file is there
    retention,  \* recording_retention_days of the location
    kept,       \* the retention the PBX host was deployed with, 0 when not set
    scan,       \* the scan of the agent and the report it makes
    listed,     \* the recordings in the location's telemetry
    play        \* the request to play a recording and how it ended

Never == MaxTime + 1
Entries == [name : Names, written : 0..MaxTime, expires : Nat, expired : BOOLEAN]

NoScan == [pc |-> "idle", found |-> {}, left |-> {}, stats |-> {}, error |-> FALSE, list |-> {}]
Endings == {"none", "served", "denied", "missing", "expired", "unavailable", "agent"}

NoPlay == [pc |-> "idle", name |-> CHOOSE n \in Names : TRUE, allowed |-> FALSE, days |-> 0,
           answer |-> "none", judged |-> 0, ending |-> "none"]

RecordingTypeOK ==
    /\ now \in 0..MaxTime
    /\ written \in [Names -> 0..Never] /\ present \subseteq Names
    /\ retention \in Retentions /\ kept \in Retentions \union {0}
    /\ scan \in [pc : {"idle", "stat", "built"}, found : SUBSET Names, left : SUBSET Names,
                 stats : SUBSET Names, error : BOOLEAN, list : SUBSET Entries]
    /\ listed \subseteq Entries /\ Cardinality(listed) <= Limit
    /\ play \in [pc : {"idle", "asked", "checked", "answered"}, name : Names \union {NoPlay.name},
                 allowed : BOOLEAN, days : Retentions \union {0}, answer : Endings,
                 judged : 0..MaxTime, ending : Endings]

-----------------------------------------------------------------------------
\* Content is served only to a user who may have it, and only of a recording that,
\* when the agent judged it, the retention of the location had not reached yet, even
\* if the agent was deployed with a longer one or the stored stamp is from before
\* (location_recording_playback, read_recording_file).
ServedIsDue ==
    play.ending = "served" =>
        /\ play.allowed
        /\ written[play.name] + play.days > play.judged

\* A recording whose file stays from the listing to the report is in the report
\* unless Limit others are that are no older, and one that vanished meanwhile leaves
\* an error behind (scan_recording_metadata).
ScanLosesNothing ==
    (scan.pc = "built" /\ scan.found # {}) =>
        \A n \in scan.found :
            \/ \E e \in scan.list : e.name = n
            \/ Cardinality(scan.list) = Limit /\ \A e \in scan.list : e.written >= written[n]
            \/ n \notin present /\ scan.error

\* Once a recording is written its day stays, and no file is there before: what the
\* scan has found and what was judged due remain so.
PlayInv ==
    /\ \A n \in present : written[n] # Never
    /\ play.pc # "idle" =>
           play.name \in Names /\ play.allowed /\ play.days # 0 /\ play.ending = "none"
    /\ (play.pc = "checked" \/ (play.pc = "answered" /\ play.answer = "served")
         \/ play.ending = "served") =>
           /\ play.name \in Names /\ written[play.name] # Never
           /\ play.allowed /\ written[play.name] + play.days > play.judged

ScanInv ==
    /\ scan.stats \subseteq scan.found /\ scan.left \subseteq scan.found
    /\ \A n \in scan.found : written[n] # Never
    /\ \A e \in scan.list : e.written = written[e.name] /\ e.written # Never
    /\ Cardinality(scan.list) <= Limit
    /\ scan.pc = "stat" => \A n \in scan.found :
           n \in scan.left \/ n \in scan.stats \/ (n \notin present /\ scan.error)

\* Recordings are served when they are due, and none is lost by a scan.
RecordingsKept == RecordingTypeOK /\ ServedIsDue /\ ScanLosesNothing /\ PlayInv /\ ScanInv
=============================================================================
