----------------------------- MODULE MCLiveness -----------------------------
(***************************************************************************)
(* What must come to an end, in one instance for TLC: a live command and   *)
(* the two connections it may take, a session with the manager interface,  *)
(* the threads of the connections, and a call.  The four share no state;   *)
(* each behaviour is about one of them, its "part".                        *)
(***************************************************************************)
EXTENDS AgentLink, RoutingSamples

CONSTANTS c1, c2, r1, l1, i1, i2, s1, s2, s3

VARIABLES
    part,                                           \* link, ami, threads or call
    amiPc, amiJob, turn, wire, broken, got, answers, failed, result, said, extra,
    live, ended, line, running, box, taken,
    cfg, plan, call

Homes   == [c \in Conns |-> l1]
Targets == [r \in Requests |-> l1]

\* Sessions of one action; the five of the telemetry are in MCReports.
Ami == INSTANCE AmiSession WITH
           Items <- {i1, i2}, Jobs <- {"listing", "control"}, MaxExtra <- 2,
           pc <- amiPc, job <- amiJob
Threads == INSTANCE AgentThreads WITH
               Sessions <- {s1, s2, s3}, Threads <- 2, MaxLive <- 2
Routing == INSTANCE CallRouting WITH
               Configs <- EndingConfigs, Calls <- OneCall, Prefixed <- NoPrefixes,
               Digits <- KeyPad, Nothing <- None

ASSUME Ami!JobsAssumption /\ Threads!EnoughThreads

amiVars == <<amiPc, amiJob, turn, wire, broken, got, answers, failed, result, said, extra>>
threadVars == <<live, ended, line, running, box, taken>>
routingVars == <<cfg, plan, call>>
allVars == <<part, vars, amiVars, threadVars, routingVars>>

-----------------------------------------------------------------------------
\* The call that waits while another part moves.
FirstCall ==
    /\ cfg = CHOOSE c \in EndingConfigs : Routing!Valid(c) /\ Routing!Exportable(c)
    /\ plan = {}
    /\ call = Routing!NewCall(CHOOSE k \in OneCall : TRUE)

PartInit ==
    /\ \/ part = "call" /\ Routing!RoutingInit
       \/ part \in {"link", "ami", "threads"} /\ FirstCall
    /\ Init /\ Ami!Init /\ Threads!Init
    /\ part # "ami" => amiJob = "control"

CallOver == call.phase \notin {"incoming", "running"} /\ UNCHANGED routingVars

PartNext ==
    /\ \/ part = "link" /\ Next /\ UNCHANGED <<amiVars, threadVars, routingVars>>
       \/ part = "ami" /\ Ami!Next /\ UNCHANGED <<vars, threadVars, routingVars>>
       \/ part = "threads" /\ Threads!Next /\ UNCHANGED <<vars, amiVars, routingVars>>
       \/ /\ part = "call" /\ (Routing!RoutingNext \/ CallOver)
          /\ UNCHANGED <<vars, amiVars, threadVars>>
    /\ UNCHANGED part

\* The fairness of each module, in the behaviours that are about it.
LinkFairness ==
    /\ \A r \in Requests : WF_vars(part = "link" /\ RequestStep(r))
    /\ WF_vars(part = "link" /\ CloseStep)
    /\ \A c \in Conns : /\ WF_vars(part = "link" /\ ServeStep(c))
                        /\ WF_vars(part = "link" /\ GetOutbound(c))
AmiFairness == WF_amiVars(Ami!Client)
CallFairness == WF_routingVars(part = "call" /\ Routing!RoutingNext)

PartSpec == /\ PartInit /\ [][PartNext]_allVars
            /\ LinkFairness /\ AmiFairness /\ Threads!Fairness /\ CallFairness

-----------------------------------------------------------------------------
\* Nothing of a closed session is left behind: its callers get an answer, its loop ends
\* and so does the thread that waits at its queue (AgentLink).
LinkReleases == CloseReleasesWaiters /\ ClosedLoopEnds /\ QueueDrains

\* The sessions with the manager interface end (AmiSession).
SessionEnds == Ami!SessionEnds

\* Commands of connected agents are taken from their queues (AgentThreads).
CommandsMove == Threads!CommandsMove

\* Every call comes to an end, when the destinations do not lead back to themselves
\* (CallRouting).
CallsEnd == part = "call" => Routing!CallsEnd
=============================================================================
