---------------------------- MODULE TrunkTables -----------------------------
(***************************************************************************)
(* The rows of TrunkRoutes, providers, trunks, outbound routes with their  *)
(* trunks and emergency trunks, and the rules that span them.              *)
(***************************************************************************)
EXTENDS Naturals, FiniteSets

CONSTANTS
    Locations, Providers, Trunks, Routes,
    Pages,          \* pages of routes that may be open at a time
    NoTrunk         \* no row is referred to

VARIABLES
    provider,   \* the provider_type of each provider
    trunk,      \* the row of each trunk, or Absent
    route,      \* the row of each outbound route, or Absent
    links,      \* the trunks of each route
    chosen,     \* emergency_trunk_ref of each location
    page,       \* the open pages of routes
    demoted     \* history: trunks edited after they were linked or chosen

Types == {"sip", "iax2"}        \* what ProviderForm offers and a trunk may be
Absent == [loc |-> "none"]
TrunkRows == [loc : Locations, provider : Providers, type : Types, capable : BOOLEAN,
              active : BOOLEAN]
RouteRows == [loc : Locations, emergency : BOOLEAN]

HasTrunk(t) == trunk[t] # Absent
HasRoute(r) == route[r] # Absent
Closed == [open |-> FALSE]
PageRows == [open : {TRUE}, route : Routes, new : BOOLEAN, shown : SUBSET Trunks]

TrunkTypeOK ==
    /\ provider \in [Providers -> Types \union {"none"}]
    /\ trunk \in [Trunks -> TrunkRows \union {Absent}]
    /\ route \in [Routes -> RouteRows \union {Absent}]
    /\ links \in [Routes -> SUBSET Trunks]
    /\ chosen \in [Locations -> Trunks \union {NoTrunk}]
    /\ page \in [Pages -> PageRows \union {Closed}]
    /\ demoted \subseteq Trunks

-----------------------------------------------------------------------------
\* What OutboundRouteTrunk.clean asks of a link.
LinkClean(r, t) == /\ trunk[t].loc = route[r].loc
                   /\ route[r].emergency => trunk[t].capable

\* Every reference is to a row that exists, whatever is deleted in which order
\* (PROTECT and CASCADE of Provider, Trunk, OutboundRoute and Location).
NothingDangles ==
    /\ \A r \in Routes : \A t \in links[r] : HasRoute(r) /\ HasTrunk(t)
    /\ \A l \in Locations : chosen[l] # NoTrunk => HasTrunk(chosen[l])
    /\ \A t \in Trunks : HasTrunk(t) => provider[trunk[t].provider] # "none"

\* With one page at a time, a link or a choice that breaks a rule had a trunk that
\* was edited afterwards: no form accepts one that is wrong when it is made, also
\* when the route moves to another location or becomes an emergency route
\* (BaseOutboundRouteTrunkFormSet.clean, OutboundRouteTrunkForm, Location.clean).
OnlyTrunkEditsBreakRules ==
    /\ \A r \in Routes : \A t \in links[r] : LinkClean(r, t) \/ t \in demoted
    /\ \A l \in Locations : chosen[l] # NoTrunk =>
           \/ trunk[chosen[l]].loc = l /\ trunk[chosen[l]].capable
           \/ chosen[l] \in demoted

\* With one page at a time, an open page shows the links its route has, and knows
\* whether there is a route.
PageShowsAll ==
    \A q \in Pages : page[q] # Closed =>
        /\ page[q].shown = links[page[q].route]
        /\ page[q].new = ~HasRoute(page[q].route)

\* No reference dangles, and no form makes a link or a choice that breaks a rule.
TrunkRules == TrunkTypeOK /\ NothingDangles /\ OnlyTrunkEditsBreakRules /\ PageShowsAll

-----------------------------------------------------------------------------
\* What the clean methods say, and the code does not do.

\* An emergency route has emergency-capable trunks only (OutboundRouteTrunk.clean).
EmergencyOnCapable ==
    \A r \in Routes : \A t \in links[r] : route[r].emergency => trunk[t].capable

\* The type of a trunk is its provider's (Trunk.clean).
TypesMatch == \A t \in Trunks : HasTrunk(t) => provider[trunk[t].provider] = trunk[t].type
=============================================================================
