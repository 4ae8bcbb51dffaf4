----------------------------- MODULE TrunkRoutes -----------------------------
(***************************************************************************)
(* Providers, trunks, outbound routes with the trunks they try, and the    *)
(* emergency trunk of each location: rows that refer to each other and     *)
(* rules that span two of them.  Each rule is checked by the form of one   *)
(* of the two rows only, when that form is posted.                         *)
(*                                                                         *)
(* The page of a route carries the links it was rendered with; what is     *)
(* posted is about those, whatever links were added since.  Pages of the   *)
(* other rows carry nothing but values, so that checking and saving them   *)
(* is one step here.  The priorities of the links, names, credentials and  *)
(* the route's own patterns are left out; a link that was removed and made *)
(* again is the same.                                                      *)
(***************************************************************************)
EXTENDS TrunkTables

CONSTANT
    Operations      \* what the users do, some of AllOperations

AllOperations == {"provider", "trunk", "location", "delete"}

TrunksAssumption == NoTrunk \notin Trunks /\ Operations \subseteq AllOperations

trunkVars == <<provider, trunk, route, links, chosen, page, demoted>>

TrunkInit ==
    /\ provider = [p \in Providers |-> "none"]
    /\ trunk = [t \in Trunks |-> Absent]
    /\ route = [r \in Routes |-> Absent]
    /\ links = [r \in Routes |-> {}]
    /\ chosen = [l \in Locations |-> NoTrunk]
    /\ page = [q \in Pages |-> Closed]
    /\ demoted = {}

\* Faulty forms of definitions below, each what a plausible bug would make of it.
\* The specification uses none of them: they show that the properties notice.
LinksOnly(t) == {r \in Routes : t \in links[r]}
AnyActive(loc, emergency) == {t \in Trunks : HasTrunk(t) /\ trunk[t].active}

-----------------------------------------------------------------------------
\* What keeps a row from being deleted, by PROTECT: references to it.
UsersOf(t) == {r \in Routes : t \in links[r]} \union {l \in Locations : chosen[l] = t}
TrunksOf(p) == {t \in Trunks : HasTrunk(t) /\ trunk[t].provider = p}

\* provider_create and provider_update; ProviderForm looks at no trunk.
SaveProvider(p) ==
    /\ provider[p] = "none" \/ "provider" \in Operations
    /\ \E type \in Types : provider' = [provider EXCEPT ![p] = type]
    /\ UNCHANGED <<trunk, route, links, chosen, page, demoted>>

DeleteProvider(p) ==
    /\ "delete" \in Operations
    /\ provider[p] # "none" /\ TrunksOf(p) = {}
    /\ provider' = [provider EXCEPT ![p] = "none"]
    /\ UNCHANGED <<trunk, route, links, chosen, page, demoted>>

\* What Trunk.clean accepts.
TrunkValid(row) == provider[row.provider] # "none" /\ provider[row.provider] = row.type

\* trunk_create and trunk_update; TrunkForm looks at no route and no location.
SaveTrunk(t) ==
    /\ ~HasTrunk(t) \/ "trunk" \in Operations
    /\ \E row \in TrunkRows :
           /\ TrunkValid(row)
           /\ trunk' = [trunk EXCEPT ![t] = row]
    /\ demoted' = IF UsersOf(t) = {} THEN demoted ELSE demoted \union {t}
    /\ UNCHANGED <<provider, route, links, chosen, page>>

DeleteTrunk(t) ==
    /\ "delete" \in Operations
    /\ HasTrunk(t) /\ UsersOf(t) = {}
    /\ trunk' = [trunk EXCEPT ![t] = Absent]
    /\ demoted' = demoted \ {t}
    /\ UNCHANGED <<provider, route, links, chosen, page>>

\* The trunks the form of a route in this location accepts.
Selectable(loc, emergency) ==
    {t \in Trunks : /\ HasTrunk(t) /\ trunk[t].active /\ trunk[t].loc = loc
                    /\ emergency => trunk[t].capable}

\* location_update: the trunks of the location, and what Location.clean accepts.
ChooseEmergencyTrunk(l) ==
    /\ "location" \in Operations
    /\ \E t \in Selectable(l, TRUE) \union {NoTrunk} : chosen' = [chosen EXCEPT ![l] = t]
    /\ UNCHANGED <<provider, trunk, route, links, page, demoted>>

-----------------------------------------------------------------------------
\* The page of a new route or of one that is there.
OpenPage(q, r) ==
    /\ page[q] = Closed
    /\ page' = [page EXCEPT ![q] = [open |-> TRUE, route |-> r, new |-> ~HasRoute(r),
                                    shown |-> links[r]]]
    /\ UNCHANGED <<provider, trunk, route, links, chosen, demoted>>

\* The page is posted with new values and the trunks that the shown links and the
\* added ones are to be.  A link that is shown must still be there, one that is
\* posted must not be there twice; links nobody showed stay as they are.
PostPage(q) ==
    /\ page[q] # Closed
    /\ LET r == page[q].route
           unseen == links[r] \ page[q].shown
       IN  /\ page[q].new = ~HasRoute(r)
           /\ page[q].shown \subseteq links[r]
           /\ \E row \in RouteRows : \E posted \in SUBSET Selectable(row.loc, row.emergency) :
                  /\ posted \intersect unseen = {}
                  /\ route' = [route EXCEPT ![r] = row]
                  /\ links' = [links EXCEPT ![r] = posted \union unseen]
    /\ page' = [page EXCEPT ![q] = Closed]
    /\ UNCHANGED <<provider, trunk, chosen, demoted>>

\* The user leaves it, or every post is refused.
LeavePage(q) ==
    /\ page[q] # Closed
    /\ page' = [page EXCEPT ![q] = Closed]
    /\ UNCHANGED <<provider, trunk, route, links, chosen, demoted>>

\* The links of a route go with it, by CASCADE; pages of it find nothing any more.
DeleteRoute(r) ==
    /\ "delete" \in Operations
    /\ HasRoute(r)
    /\ route' = [route EXCEPT ![r] = Absent]
    /\ links' = [links EXCEPT ![r] = {}]
    /\ page' = [q \in Pages |-> IF page[q] # Closed /\ page[q].route = r /\ ~page[q].new
                               THEN Closed ELSE page[q]]
    /\ UNCHANGED <<provider, trunk, chosen, demoted>>

TrunkNext ==
    \/ \E p \in Providers : SaveProvider(p) \/ DeleteProvider(p)
    \/ \E t \in Trunks : SaveTrunk(t) \/ DeleteTrunk(t)
    \/ \E l \in Locations : ChooseEmergencyTrunk(l)
    \/ \E r \in Routes : DeleteRoute(r) \/ (\E q \in Pages : OpenPage(q, r))
    \/ \E q \in Pages : PostPage(q) \/ LeavePage(q)

TrunkSpec == TrunkInit /\ [][TrunkNext]_trunkVars
=============================================================================
