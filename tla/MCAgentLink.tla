---------------------------- MODULE MCAgentLink ----------------------------
(***************************************************************************)
(* An instance of AgentLink for TLC.  There are four connections and three *)
(* requests, of which each behaviour uses those of one scenario: two       *)
(* connections and one or two requests are enough for a replacement, a     *)
(* late result on the replaced session, a second waiter in the closing     *)
(* session, a report that displaces the control connection, and an answer  *)
(* of the other location's agent.                                          *)
(***************************************************************************)
EXTENDS AgentLink, FiniteSets, TLC

CONSTANTS c1, c2,   \* control connections of l1
          c3,       \* a one-report connection of l1
          c4,       \* the control connection of l2
          r1, r2,   \* requests to l1
          r3,       \* a request to l2
          l1, l2

Homes   == [c \in Conns |-> IF c = c4 THEN l2 ELSE l1]
Targets == [r \in Requests |-> IF r = r3 THEN l2 ELSE l1]

Used  == {c \in Conns : phase[c] # "offline"}
Asked == {r \in Requests : pc[r] # "start"}

\* Two control connections and two requests; a control connection, a report and a
\* request; a control connection and a request for each of two locations.
InScenario ==
    \/ c3 \notin Used /\ c4 \notin Used /\ r3 \notin Asked
    \/ c4 \notin Used /\ r3 \notin Asked /\ Cardinality(Used) <= 2 /\ Cardinality(Asked) <= 1
    \/ c3 \notin Used /\ Cardinality(Used) <= 2 /\ Cardinality(Asked \ {r3}) <= 1

\* What was used is over, and nothing else need be.
Over ==
    /\ \A r \in Asked : pc[r] = "done"
    /\ \A c \in Used : phase[c] = "gone" /\ agent[c] = "off" /\ outTask[c] # "getting"
    /\ UNCHANGED vars

ScenarioSpec == Init /\ [][(Next /\ InScenario') \/ Over]_vars

Symmetry == Permutations({c1, c2}) \union Permutations({r1, r2})
============================================================================
