----------------------------- MODULE CallState ------------------------------
(***************************************************************************)
(* The state of CallRouting, a configuration, its dial plan and a call,    *)
(* and what is to hold of calls.                                           *)
(***************************************************************************)
EXTENDS Naturals, Sequences

(***************************************************************************)
(* A configuration is a record of the active and inactive rows:            *)
(*   ext     extension number -> [active, voicemail, emergency, record,    *)
(*                                callerId]                                *)
(*   remote  the active extensions of the other active locations           *)
(*   ivr     in order of name, a sequence of [name, active, hours,         *)
(*           timeout, invalid, options]; hours is <<business, after>>      *)
(*   group   name -> [active, hunt, members (a sequence)]                  *)
(*   queue   name -> [active, members, overflow, record]                   *)
(*   page    code -> [active, members]                                     *)
(*   did     number -> [active, direct, default]                           *)
(*   route   in order of priority, a sequence of [active, emergency,       *)
(*           pattern, source, number, trunks (a sequence), record]         *)
(*   trunk   name -> active                                                *)
(*   code    feature code -> [active, type, dest]                          *)
(*   default, defaultDid, emergencyId    columns of the location           *)
(* A destination is <<"extension" | "ivr" | "group" | "queue", row>>.      *)
(***************************************************************************)
VARIABLES
    cfg,   \* the configuration that was exported
    plan,  \* extensions.conf: a set of entries
    call   \* the call

-----------------------------------------------------------------------------
ActiveRows(rows) == {n \in DOMAIN rows : rows[n].active}

RoutesFor(c, emergency) == {n \in ActiveRows(c.route) : c.route[n].emergency = emergency}
Patterns(c, emergency) == {c.route[n].pattern : n \in RoutesFor(c, emergency)}

\* emergency_patterns of build_route_generation_choices.
EmergencyPatterns(c) == IF Patterns(c, TRUE) = {} THEN {{"911"}} ELSE Patterns(c, TRUE)

Named(name) == <<name, 0>>
IvrContext(name) == <<"ivr", name>>

-----------------------------------------------------------------------------
FromPhone == call.from \notin {"trunk", "site"}

Caller == IF FromPhone THEN {call.from} \intersect DOMAIN cfg.ext ELSE {}
IsEmergency == \E p \in EmergencyPatterns(cfg) : call.number \in p

\* An extension whose emergency calling an administrator disabled never gets a call
\* to an emergency number onto a trunk, whichever route would take it.
EmergencyBlocked ==
    \A e \in Caller : ~cfg.ext[e].emergency /\ IsEmergency => call.trunks = << >>

\* The call was offered to all of these trunks that are active, and to no other, and to
\* an earlier one before a later one, which no repetition has.
OfferedAll(trunks) ==
    LET up == {k \in DOMAIN trunks : cfg.trunk[trunks[k]]} IN
    /\ {call.trunks[k] : k \in DOMAIN call.trunks} = {trunks[k] : k \in up}
    /\ \A k, l \in DOMAIN call.trunks : k < l =>
          \E i, j \in up : i < j /\ call.trunks[k] = trunks[i] /\ call.trunks[l] = trunks[j]

\* Any other extension's emergency call is offered to the active trunks of an
\* emergency route, one after the other in the order of their priority, each time
\* with the emergency caller ID of the location, until one of them takes it.
EmergencyPlaced ==
    \A e \in Caller :
       cfg.ext[e].emergency /\ IsEmergency =>
          /\ call.trunks # << >> => call.callerId = cfg.emergencyId
          /\ call.phase # "lost"
          /\ call.phase = "ended" =>
                \E n \in RoutesFor(cfg, TRUE) :
                   /\ call.number \in cfg.route[n].pattern
                   /\ OfferedAll(cfg.route[n].trunks)

\* The provider is told a number of the caller, of the location or of the route; never
\* the DID of another extension.
NoForeignCallerId ==
    \A e \in Caller : call.trunks # << >> =>
       call.callerId \in {e, cfg.ext[e].callerId, cfg.defaultDid, cfg.emergencyId}
                        \union {d \in DOMAIN cfg.did : cfg.did[d].direct = e}
                        \union {cfg.route[n].number : n \in DOMAIN cfg.route}

\* Emergency calls are placed or blocked as the rows say, with a number of the location.
EmergencyCalls == EmergencyBlocked /\ EmergencyPlaced /\ NoForeignCallerId

-----------------------------------------------------------------------------
Phases == {"incoming", "running", "talking", "voicemail", "lost", "ended"}

CallTypeOK ==
    /\ call.phase \in Phases /\ call.monitors \in Nat
    /\ call.lines # << >> => call.phase = "running"
    /\ \A place \in call.path : \E n \in plan : n.context = place[1]

\* Where the lines of the active rows are to be found.
ActivePlaces ==
    {<<Named("local-extensions"), e>> : e \in ActiveRows(cfg.ext)}
    \union {<<Named("ivrs"), cfg.ivr[n].name>> : n \in ActiveRows(cfg.ivr)}
    \union {<<Named("ring-groups"), g>> : g \in ActiveRows(cfg.group)}
    \union {<<Named("queues"), q>> : q \in ActiveRows(cfg.queue)}

\* A call is not lost on its way to an extension, an IVR, a ring group or a queue
\* that is active: every destination leads to the lines that were written for it.
DestinationsWork == call.phase = "lost" => call.at \notin ActivePlaces

\* A DID that is assigned to an extension goes to that extension and nowhere else, when
\* it is called from the network.
DirectDidRings ==
    \A d \in {call.number} \intersect DOMAIN cfg.did :
       (call.from = "trunk" /\ cfg.did[d].direct \in DOMAIN cfg.ext /\ call.phase = "talking")
       => call.by = <<"extension", cfg.did[d].direct>>

\* An extension was called, or is a member of a ring group or queue on the way.
IsTarget(e) ==
    \E place \in call.path :
       \/ place[1] = Named("local-extensions") /\ place[2] = e
       \/ /\ place[1] = Named("ring-groups")
          /\ \E k \in DOMAIN cfg.group[place[2]].members : cfg.group[place[2]].members[k] = e
       \/ place[1] = Named("queues") /\ e \in cfg.queue[place[2]].members

\* Whoever of the location answers was to be called.
AnsweredByTarget ==
    (call.phase = "talking" /\ call.by[1] = "extension") => IsTarget(call.by[2])

\* The rows with a recording policy that a call has passed.
Recorded ==
    {place \in call.path :
        \/ place[1] = Named("local-extensions") /\ cfg.ext[place[2]].record
        \/ place[1] = Named("queues") /\ cfg.queue[place[2]].record}

\* A conversation that was put through by an extension or a queue with a recording
\* policy is recorded, and recorded once, however many policies it has passed; no
\* other is.
PolicyKept ==
    (call.phase = "talking" /\ call.by[1] = "extension")
    => call.monitors = IF Recorded = {} THEN 0 ELSE 1

\* Calls that need no trunk get where the rows say, and are recorded as these say.
CallsGoAsConfigured ==
    CallTypeOK /\ DestinationsWork /\ DirectDidRings /\ AnsweredByTarget /\ PolicyKept
=============================================================================
