-------------------------- MODULE RecordingPlayback ---------------------------
(***************************************************************************)
(* Call recordings of one location: the files on the PBX host, the scan of *)
(* them that the agent reports (scan_recording_metadata), the copy of it   *)
(* in the row of the location, and the playback of one recording through   *)
(* the agent (location_recording_playback, read_recording_file).           *)
(*                                                                         *)
(* Three parties judge how old a recording is, each with what it knows:    *)
(* the scan with the retention the agent was deployed with, the view with  *)
(* the stamp of the scan, the reading agent with the location's retention  *)
(* that the view passes on.  Files vanish at any moment.                   *)
(*                                                                         *)
(* Time counts days.  A recording is its file name, which contains the     *)
(* unique id of the call and is not used again.  The connection to the     *)
(* agent is the subject of AgentLink: here it fails or answers.            *)
(***************************************************************************)
EXTENDS RecordingState

ConstantsAssumption ==
    /\ IsFiniteSet(Names)
    /\ Retentions \subseteq Nat \ {0} /\ Retentions # {}
    /\ Limit \in Nat \ {0} /\ MaxTime \in Nat

host == <<now, written, present, retention, kept>>
recordingVars == <<host, scan, listed, play>>

RecordingInit ==
    /\ now = 0
    /\ written = [n \in Names |-> Never] /\ present = {}
    /\ retention \in Retentions /\ kept \in Retentions \union {0}
    /\ scan = NoScan /\ listed = {} /\ play = NoPlay

\* Faulty forms of definitions below, each what a plausible bug would make of it.
\* The specification uses none of them: they show that the properties notice.
DeployedFirst(days) == IF kept # 0 THEN kept ELSE days
StopAtError(n) == {}

-----------------------------------------------------------------------------
\* External: a call is recorded, a day passes, a file is removed by hand.
RecordCall(n) ==
    /\ written[n] = Never
    /\ written' = [written EXCEPT ![n] = now]
    /\ present' = present \union {n}
    /\ UNCHANGED <<now, retention, kept, scan, listed, play>>

NextDay ==
    /\ now < MaxTime
    /\ now' = now + 1
    /\ UNCHANGED <<written, present, retention, kept, scan, listed, play>>

RemoveFile(n) ==
    /\ n \in present
    /\ present' = present \ {n}
    /\ UNCHANGED <<now, written, retention, kept, scan, listed, play>>

\* The retention script of the bundle: find -mtime +N wants more than N whole days.
RunRetentionScript ==
    /\ kept # 0
    /\ present' = {n \in present : now - written[n] <= kept}
    /\ present' # present
    /\ UNCHANGED <<now, written, retention, kept, scan, listed, play>>

\* The location's retention is edited; it reaches the host with the next bundle,
\* whose agent is a new process.
EditRetention ==
    /\ \E days \in Retentions \ {retention} : retention' = days
    /\ UNCHANGED <<now, written, present, kept, scan, listed, play>>

-----------------------------------------------------------------------------
\* scan_recording_metadata: the paths first, then the status of each.
ListPaths ==
    /\ scan.pc = "idle"
    /\ scan' = [NoScan EXCEPT !.pc = "stat", !.found = present, !.left = present]
    /\ UNCHANGED <<host, listed, play>>

\* Walking the directory fails: an empty list and an error are reported.
ListingFails ==
    /\ scan.pc = "idle"
    /\ scan' = [NoScan EXCEPT !.pc = "built", !.error = TRUE]
    /\ UNCHANGED <<host, listed, play>>

\* What is left to be asked for when file n turns out to be gone.
LeftWithout(n) == scan.left \ {n}

StatFile(n) ==
    /\ scan.pc = "stat" /\ n \in scan.left
    /\ scan' = IF n \in present
               THEN [scan EXCEPT !.left = @ \ {n}, !.stats = @ \union {n}]
               ELSE [scan EXCEPT !.left = LeftWithout(n), !.error = TRUE]
    /\ UNCHANGED <<host, listed, play>>

\* The newest recordings, at most Limit of them; of equally old ones any.
Newest(s) == {t \in SUBSET s :
    /\ Cardinality(t) = IF Cardinality(s) < Limit THEN Cardinality(s) ELSE Limit
    /\ \A n \in t, m \in s \ t : written[n] >= written[m]}

\* The entry of a recording, with its expiry when the agent knows a retention.
Entry(n) ==
    LET expires == IF kept = 0 THEN 0 ELSE written[n] + kept
    IN  [name |-> n, written |-> written[n], expires |-> expires,
         expired |-> expires # 0 /\ expires <= now]

BuildReport ==
    /\ scan.pc = "stat" /\ scan.left = {}
    /\ \E t \in Newest(scan.stats) :
           scan' = [scan EXCEPT !.pc = "built", !.list = {Entry(n) : n \in t}]
    /\ UNCHANGED <<host, listed, play>>

\* The portal stores the report (update_agent_telemetry_report), or it is lost.
StoreReport ==
    /\ scan.pc = "built"
    /\ listed' = scan.list
    /\ scan' = NoScan
    /\ UNCHANGED <<host, play>>

LoseReport ==
    /\ scan.pc = "built"
    /\ scan' = NoScan
    /\ UNCHANGED <<host, listed, play>>

-----------------------------------------------------------------------------
\* A request ends: its audit entry is written and the response returned.
End(p, ending) == [p EXCEPT !.pc = "idle", !.ending = ending]

\* _recording_status: the stamp of the scan, then the expiry, which is the scan's
\* or else reckoned with the location's retention.
ShownExpired(e) ==
    \/ e.expired
    \/ (IF e.expires = 0 THEN e.written + retention ELSE e.expires) <= now

\* The view: permission, metadata, status, and the request to the agent.
AskToPlay(n, allowed) ==
    /\ play.pc = "idle"
    /\ LET p == [NoPlay EXCEPT !.name = n, !.allowed = allowed, !.days = retention]
           known == {e \in listed : e.name = n}
       IN  play' = IF ~allowed THEN End(p, "denied")
                   ELSE IF known = {} THEN End(p, "missing")
                   ELSE IF \A e \in known : ShownExpired(e) THEN End(p, "expired")
                   ELSE [p EXCEPT !.pc = "asked"]
    /\ UNCHANGED <<host, scan, listed>>

\* The agent is not connected, or it does not answer in time.
NoAnswer ==
    /\ play.pc # "idle"
    /\ play' = End(play, "agent")
    /\ UNCHANGED <<host, scan, listed>>

\* The retention read_recording_file judges by, of the days it was asked with.
EffectiveRetention(days) == IF days # 0 THEN days ELSE kept

\* read_recording_file: the file is there and not too old ...
CheckFile ==
    /\ play.pc = "asked"
    /\ LET p == [play EXCEPT !.judged = now]
       IN  play' = IF play.name \notin present
                   THEN [p EXCEPT !.pc = "answered", !.answer = "unavailable"]
                   ELSE IF written[play.name] + EffectiveRetention(play.days) <= now
                   THEN [p EXCEPT !.pc = "answered", !.answer = "expired"]
                   ELSE [p EXCEPT !.pc = "checked"]
    /\ UNCHANGED <<host, scan, listed>>

\* ... and still there when it is read.
ReadFile ==
    /\ play.pc = "checked"
    /\ play' = [play EXCEPT !.pc = "answered",
                            !.answer = IF play.name \in present THEN "served" ELSE "unavailable"]
    /\ UNCHANGED <<host, scan, listed>>

\* The answer reaches the view; content that does not decode is an agent's failure.
TakeAnswer ==
    /\ play.pc = "answered"
    /\ play' = End(play, play.answer)
    /\ UNCHANGED <<host, scan, listed>>

\* A new bundle is running: its agent has the retention of now, and what the old
\* one was doing is gone.
Redeploy ==
    /\ kept # retention
    /\ kept' = retention
    /\ scan' = NoScan
    /\ play' = IF play.pc = "idle" THEN play ELSE End(play, "agent")
    /\ UNCHANGED <<now, written, present, retention, listed>>

RecordingNext ==
    \/ NextDay \/ EditRetention \/ Redeploy \/ RunRetentionScript
    \/ ListPaths \/ ListingFails \/ BuildReport \/ StoreReport \/ LoseReport
    \/ NoAnswer \/ CheckFile \/ ReadFile \/ TakeAnswer
    \/ \E n \in Names :
           \/ RecordCall(n) \/ RemoveFile(n) \/ StatFile(n)
           \/ \E allowed \in BOOLEAN : AskToPlay(n, allowed)

RecordingSpec == RecordingInit /\ [][RecordingNext]_recordingVars
=============================================================================
