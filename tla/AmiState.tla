------------------------------ MODULE AmiState ------------------------------
(***************************************************************************)
(* The state of AmiSession, a connection to the manager interface, and     *)
(* what the outcome of a session is worth.                                 *)
(***************************************************************************)
EXTENDS Naturals, Sequences, FiniteSets

CONSTANTS
    Items,      \* what Asterisk may list: contacts, endpoints, channels, queues
    Jobs,       \* what the sessions are for, some of DOMAIN Script
    MaxExtra    \* bound: messages without an ActionID in one session

VARIABLES
    pc,         \* where the client is
    job,        \* what this session is for
    turn,       \* actions written, the ActionID of the last: 1 is the login
    wire,       \* what Asterisk has to say and the client has not read
    broken,     \* the connection is gone
    got,        \* what was gathered for the action under way
    answers,    \* the answers to the earlier ones, without that to the login
    failed,     \* the block under "async with" is left by an exception
    result,     \* what the last session ended with
    said,       \* history: what Asterisk listed in this session, by action
    extra       \* history: messages without an ActionID in this session

\* The actions of each job: "list" has a complete_event, "plain" has none.
Script == [telemetry |-> <<"list", "list", "list", "list", "plain">>,
           listing   |-> <<"list">>,
           control   |-> <<"plain">>]

JobsAssumption == Jobs \subseteq DOMAIN Script /\ MaxExtra \in Nat /\ IsFiniteSet(Items)

Message == [id : Nat, kind : {"response", "error", "item", "complete", "event"},
            item : Items \union {"none"}]
Plain(id, kind) == [id |-> id, kind |-> kind, item |-> "none"]
NoId == 0
Unfinished == [job |-> "none", ok |-> FALSE, parts |-> <<>>]

AmiTypeOK ==
    /\ pc \in {"idle", "greeting", "login", "acting", "logoff", "closing"}
    /\ job \in Jobs /\ turn \in Nat
    /\ wire \in Seq(Message) /\ broken \in BOOLEAN
    /\ got \in Seq(Message) /\ answers \in Seq(Seq(Message))
    /\ failed \in BOOLEAN
    /\ result \in [job : Jobs \union {"none"}, ok : BOOLEAN, parts : Seq(SUBSET Items)]
    /\ said \in Seq(SUBSET Items) /\ extra \in 0..MaxExtra

-----------------------------------------------------------------------------
\* A session that succeeds carried out each action of its job, and reports for each
\* list exactly what Asterisk listed: no half of an answer, and nothing of another
\* action, is ever taken for the state of the PBX, and a live command that is
\* answered with success was done (action, collect_agent_telemetry).
ResultIsWhole ==
    result.ok => /\ Len(said) = Len(Script[result.job])
                 /\ result.parts = said

\* The client of the manager interface reports a success only when all was done, and
\* five answers make the state of the PBX, or there is none.
OutcomeIsWhole == AmiTypeOK /\ ResultIsWhole
=============================================================================
