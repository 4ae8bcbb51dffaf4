---------------------------- MODULE MCApiAccess -----------------------------
(***************************************************************************)
(* An instance of ApiAccess for TLC.  Each behaviour is about the API keys *)
(* or about the users and service identities.                              *)
(***************************************************************************)
EXTENDS ApiAccess, TLC

CONSTANTS a, m, n, i1, k1, k2, r1, r2, r3

VARIABLE part       \* keys or users

\* Three requests about the keys, or two about the users and identities.
Asks(ops) == \A r \in Requests : req[r].job.op \in ops
KeyScenario == Asks(KeyOps \union {"use", "issue", "deleteUser"})
UserScenario == Asks((AllOps \ KeyOps) \ {"issue"}) /\ \E r \in Requests : req[r].pc = "new"

PartInit == part \in {"keys", "users"} /\ Init

PartNext ==
    /\ Next
    /\ part = "keys" => KeyScenario'
    /\ part = "users" => UserScenario'
    /\ UNCHANGED part

PartSpec == PartInit /\ [][PartNext]_<<part, vars>>

Symmetry == Permutations(Requests)
=============================================================================
