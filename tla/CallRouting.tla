---------------------------- MODULE CallRouting -----------------------------
(***************************************************************************)
(* The dial plan that an export generates for a location, and what one     *)
(* call does in it.                                                        *)
(*                                                                         *)
(* A behaviour is one call in the plan of one configuration: "plan" is     *)
(* computed from the rows when the call begins, as _render_extensions_conf *)
(* writes it, line by line and context by context; the actions are what    *)
(* Asterisk does with those lines.  Numbers and names are model values, a  *)
(* dial pattern is the set of numbers it matches, and two names never have *)
(* the same slug.                                                          *)
(***************************************************************************)
EXTENDS CallState, FiniteSets

CONSTANTS
    Configs,   \* the configurations of the location that are considered
    Calls,     \* the calls: where each comes from and the number it is for
    Prefixed,  \* dialled numbers that are a feature code followed by a number
    Nothing,   \* no destination, no caller, no number
    Digits     \* the digits a caller may press

routingVars == <<cfg, plan, call>>

-----------------------------------------------------------------------------
\* Faulty forms of definitions below, each what a plausible bug would make of it.
\* The specification uses none of them: they show that the properties notice.
ContextName(d) ==
    IF d[1] = "extension" THEN <<"local-extensions", 0>>
    ELSE IF d[1] = "group" THEN <<"ring-groups", 0>>
    ELSE IF d[1] = "queue" THEN <<"queues", 0>> ELSE <<"ivrs", 0>>
NobodyBlocked(c) == {}
FirstTrunkOnly(c, r) == LET Active(t) == c.trunk[t] IN
                IF r.trunks # << >> /\ Active(Head(r.trunks)) THEN <<Head(r.trunks)>> ELSE << >>
DefaultFirst(c, d) ==
    IF c.default # Nothing THEN c.default
    ELSE IF c.did[d].direct # Nothing THEN <<"extension", c.did[d].direct>> ELSE c.did[d].default
InRingGroups ==
    [extension |-> <<"local-extensions", 0>>, ivr |-> <<"ivrs", 0>>,
     group |-> <<"ring-groups", 0>>, queue |-> <<"ring-groups", 0>>]
AnyDid(c, e) == {d \in DOMAIN c.did : c.did[d].active /\ c.did[d].direct # Nothing}
EveryHook(k) == TRUE
Everybody(c, g) == DOMAIN c.ext
DefaultInstead(d) ==
    <<[app |-> "goto", arg |-> IF d = Nothing THEN << <<"inbound", 0>>, "s">> ELSE <<ContextName(d), d[2]>>]>>

-----------------------------------------------------------------------------
\* Contexts and lines.

Line(app, arg) == [app |-> app, arg |-> arg]
Hangup == <<Line("hangup", Nothing)>>
Playback == <<Line("playback", Nothing)>>

Entry(context, match, only, lines) ==
    [context |-> context, match |-> match, only |-> only, lines |-> lines]

\* An exten that any caller may reach.
Exten(context, exten, lines) == Entry(context, {exten}, Nothing, lines)

ContextOf ==
    [extension |-> Named("local-extensions"), ivr |-> Named("ivrs"),
     group |-> Named("ring-groups"), queue |-> Named("queues")]

Goto(context, exten) == <<Line("goto", <<context, exten>>)>>

\* _destination_app: Playback(invalid) without a destination.
DestinationApp(d) == IF d = Nothing THEN Playback ELSE Goto(ContextOf[d[1]], d[2])

\* recording_policy_hook_lines.
RecordHook(on, what) == IF on THEN <<Line("record", what)>> ELSE << >>

-----------------------------------------------------------------------------
\* The contexts of extensions.conf.

LocalExtensions(c) ==
    {Exten(Named("local-extensions"), e,
           RecordHook(c.ext[e].record, <<"extension", e>>)
           \o <<Line("dial", {<<"extension", e>>})>>
           \o (IF c.ext[e].voicemail THEN <<Line("voicemail", e)>> ELSE << >>)
           \o Hangup) : e \in ActiveRows(c.ext)}

RemoteExtensions(c) ==
    {Exten(Named("remote-extensions"), e,
           <<Line("dial", {<<"remote", e>>})>> \o Hangup) : e \in c.remote}

\* The direct extension, then the default of the location, then that of the DID.
EffectiveDestination(c, d) ==
    IF c.did[d].direct # Nothing THEN <<"extension", c.did[d].direct>>
    ELSE IF c.default # Nothing THEN c.default ELSE c.did[d].default

Inbound(c) ==
    {Exten(Named("inbound"), d, DestinationApp(EffectiveDestination(c, d))) :
        d \in ActiveRows(c.did)}
    \union (IF c.default = Nothing THEN {}
            ELSE {Exten(Named("inbound"), "s", DestinationApp(c.default))})

\* _route_caller_id_lines.
CallerIdLines(c, r) ==
    CASE r.source = "extension_did" -> <<Line("caller-id-of", Nothing)>>
      [] r.source = "emergency" /\ c.emergencyId # Nothing -> <<Line("caller-id", c.emergencyId)>>
      [] r.source = "custom" -> <<Line("caller-id", r.number)>>
      [] r.source = "location_default" /\ c.defaultDid # Nothing ->
            <<Line("caller-id", c.defaultDid)>>
      [] OTHER -> << >>

\* active_route_trunks, in order of their priority: those of the first n links, for
\* all of them.
ActiveTrunks(c, r) ==
    LET first[n \in 0..Len(r.trunks)] ==
            IF n = 0 THEN << >>
            ELSE IF c.trunk[r.trunks[n]] THEN Append(first[n - 1], r.trunks[n])
            ELSE first[n - 1] IN
    first[Len(r.trunks)]

RouteLines(c, r) ==
    LET trunks == ActiveTrunks(c, r)
        dials == [n \in DOMAIN trunks |-> Line("dial", {<<"trunk", trunks[n]>>})] IN
    CallerIdLines(c, r)
    \o (IF trunks = << >> THEN Playback ELSE RecordHook(r.record, <<"route", r.pattern>>) \o dials)
    \o Hangup

\* Of two routes with one pattern Asterisk keeps the lines it read first.
FirstRoute(c, emergency, p) ==
    LET same == {n \in RoutesFor(c, emergency) : c.route[n].pattern = p} IN
    c.route[CHOOSE n \in same : \A m \in same : n <= m]

RouteEntries(c, emergency, context) ==
    {Entry(Named(context), p, Nothing, RouteLines(c, FirstRoute(c, emergency, p))) :
        p \in Patterns(c, emergency)}

\* The callers whose emergency calls are refused.
BlockedCallers(c) == {e \in ActiveRows(c.ext) : ~c.ext[e].emergency}

EmergencyBlocks(c) ==
    {Entry(Named("emergency"), p, e, Playback \o Hangup) :
        p \in EmergencyPatterns(c), e \in BlockedCallers(c)}

Voicemail(c) ==
    {Exten(Named("voicemail"), n, <<Line("voicemail-main", Nothing)>> \o Hangup) :
        n \in {"*97", "*98"}}

Paging(c) ==
    {Exten(Named("paging"), p, <<Line("page", c.page[p].members)>> \o Hangup) :
        p \in ActiveRows(c.page)}

\* ${EXTEN:len(code)}: what was dialled after the code.  The exten is the code
\* alone, so nothing ever is.
RestOfExten == "empty"

FeatureLines(f) ==
    CASE f.type = "voicemail_main" -> <<Line("voicemail-main", Nothing)>>
      [] f.type = "voicemail_direct" -> <<Line("voicemail", RestOfExten)>>
      [] f.type = "call_pickup" -> <<Line("pickup", Nothing)>>
      [] f.type = "directed_pickup" -> <<Line("pickup", RestOfExten)>>
      [] f.type = "park" -> <<Line("park", Nothing)>>
      [] f.type = "paging_prefix" -> Goto(Named("paging"), RestOfExten)
      [] OTHER -> DestinationApp(f.dest)

FeatureCodes(c) ==
    {Exten(Named("feature-codes"), f, FeatureLines(c.code[f]) \o Hangup) :
        f \in ActiveRows(c.code)}

HasHours(i) == i.hours[1] # Nothing /\ i.hours[2] # Nothing

\* The context that is open when the lines of the n-th IVR are written: [ivrs] is
\* opened once, and every IVR opens a context of its own after its first line.
OpenContext(c, n) ==
    LET before == {m \in ActiveRows(c.ivr) : m < n} IN
    IF before = {} THEN Named("ivrs")
    ELSE IvrContext(c.ivr[CHOOSE m \in before : \A k \in before : k <= m].name)

IvrEntries(c, n) ==
    LET i == c.ivr[n]
        here == IvrContext(i.name)
        Branch(exten, d) == Exten(here, exten, DestinationApp(d) \o Hangup) IN
    {Exten(OpenContext(c, n), i.name, Goto(here, "s"))}
    \union (IF HasHours(i)
            THEN {Exten(here, "s", <<Line("if-business-hours", <<here, "business-hours">>)>>
                                   \o Goto(here, "after-hours")),
                  Branch("business-hours", i.hours[1]), Branch("after-hours", i.hours[2])}
            ELSE {Exten(here, "s", <<Line("wait-digit", here)>> \o Goto(here, "t")),
                  Branch("t", i.timeout), Branch("i", i.invalid)})
    \union {Branch(d, i.options[d]) : d \in DOMAIN i.options}

\* The members of a ring group, all at once or one after the other.
Members(c, g) == {c.group[g].members[n] : n \in DOMAIN c.group[g].members}
RingTargets(c, g) == {<<"extension", e>> : e \in Members(c, g)}
HuntLines(members) == [n \in DOMAIN members |-> Line("dial", {<<"extension", members[n]>>})]

RingGroups(c) ==
    {Exten(Named("ring-groups"), g,
           (IF c.group[g].hunt THEN HuntLines(c.group[g].members)
            ELSE <<Line("dial", RingTargets(c, g))>>) \o Hangup) : g \in ActiveRows(c.group)}

Queues(c) ==
    {Exten(Named("queues"), q,
           RecordHook(c.queue[q].record, <<"queue", q>>)
           \o <<Line("dial", {<<"extension", e>> : e \in c.queue[q].members})>>
           \o (IF c.queue[q].overflow = Nothing THEN << >> ELSE DestinationApp(c.queue[q].overflow))
           \o Hangup) : q \in ActiveRows(c.queue)}

DialPlan(c) ==
    LocalExtensions(c) \union RemoteExtensions(c) \union Inbound(c)
    \union RouteEntries(c, FALSE, "outbound")
    \union EmergencyBlocks(c) \union RouteEntries(c, TRUE, "emergency")
    \union Voicemail(c) \union Paging(c) \union FeatureCodes(c)
    \union (UNION {IvrEntries(c, n) : n \in ActiveRows(c.ivr)})
    \union RingGroups(c) \union Queues(c)

\* The include lines.
Includes(context) ==
    IF context = Named("from-pjsip")
    THEN << Named("emergency"), Named("local-extensions"), Named("remote-extensions"),
            Named("feature-codes"), Named("voicemail"), Named("paging"), Named("outbound") >>
    ELSE IF context = Named("from-iax2") THEN << Named("local-extensions"), Named("inbound") >>
    ELSE << >>

-----------------------------------------------------------------------------
\* What the models accept and an export does not refuse.

\* The rows that a destination of the location may lead to.
Destinations(c) ==
    {<<"extension", e>> : e \in DOMAIN c.ext} \union {<<"ivr", c.ivr[n].name>> : n \in DOMAIN c.ivr}
    \union {<<"group", g>> : g \in DOMAIN c.group} \union {<<"queue", q>> : q \in DOMAIN c.queue}

Leads(c, d) == d \in Destinations(c) \union {Nothing}

IvrsValid(c) ==
    \A n \in DOMAIN c.ivr :
       LET i == c.ivr[n] IN
       Leads(c, i.timeout) /\ Leads(c, i.invalid) /\ \A h \in DOMAIN i.hours : Leads(c, i.hours[h])

OptionsValid(c) ==
    \A n \in DOMAIN c.ivr : \A d \in DOMAIN c.ivr[n].options : Leads(c, c.ivr[n].options[d])

GroupsValid(c) ==
    /\ \A g \in DOMAIN c.group : \A n \in DOMAIN c.group[g].members :
          c.group[g].members[n] \in DOMAIN c.ext
    /\ \A p \in DOMAIN c.page : c.page[p].members \subseteq DOMAIN c.ext

QueuesValid(c) ==
    \A q \in DOMAIN c.queue :
       c.queue[q].members \subseteq DOMAIN c.ext /\ Leads(c, c.queue[q].overflow)

DidsValid(c) ==
    \A d \in DOMAIN c.did :
       c.did[d].direct \in DOMAIN c.ext \union {Nothing} /\ Leads(c, c.did[d].default)

CodesValid(c) == \A f \in DOMAIN c.code : Leads(c, c.code[f].dest)

RoutesValid(c) ==
    \A n \in DOMAIN c.route :
       /\ c.route[n].emergency => c.route[n].source = "emergency"
       /\ c.route[n].source = "custom" => c.route[n].number # Nothing

\* A route is linked to a trunk at most once.
LinksValid(c) ==
    \A n \in DOMAIN c.route : \A k, l \in DOMAIN c.route[n].trunks :
       /\ c.route[n].trunks[k] \in DOMAIN c.trunk
       /\ c.route[n].trunks[k] = c.route[n].trunks[l] => k = l

Valid(c) ==
    /\ Leads(c, c.default) /\ IvrsValid(c) /\ OptionsValid(c) /\ GroupsValid(c) /\ QueuesValid(c)
    /\ DidsValid(c) /\ CodesValid(c) /\ RoutesValid(c) /\ LinksValid(c)

\* The errors that block an export.
EmergencyReady(c) ==
    (\E e \in ActiveRows(c.ext) : c.ext[e].emergency)
    => c.emergencyId # Nothing /\ RoutesFor(c, TRUE) # {}

GroupsReady(c) == \A g \in ActiveRows(c.group) : c.group[g].members # << >>

HoursReady(c) ==
    \A n \in ActiveRows(c.ivr) : (c.ivr[n].hours[1] = Nothing) = (c.ivr[n].hours[2] = Nothing)

Exportable(c) == EmergencyReady(c) /\ GroupsReady(c) /\ HoursReady(c)

IsSequence(s) == s \in Seq({s[k] : k \in DOMAIN s})

\* What the relations of the rows make of a configuration whatever is entered.
ConfigsAssumption ==
    \A c \in Configs :
       /\ Nothing \notin DOMAIN c.ext
       /\ IsSequence(c.route) /\ IsSequence(c.ivr)
       /\ \A n \in DOMAIN c.route : IsSequence(c.route[n].trunks)
       /\ \A g \in DOMAIN c.group : IsSequence(c.group[g].members)

\* Of two active IVRs the second would be written into the context of the first.
OneIvr == \A c \in Configs : \A m, n \in ActiveRows(c.ivr) : m = n

\* No number or name is an exten that has a meaning of its own.
PlainNames ==
    \A c \in Configs :
       /\ {"s", "i"} \intersect DOMAIN c.did = {}
       /\ "i" \notin DOMAIN c.ext \union DOMAIN c.group \union DOMAIN c.queue

-----------------------------------------------------------------------------
\* What Asterisk does.

\* The entries for a number in a context and those it includes: the first context
\* with a match decides, and in it an entry for this caller goes before one of the
\* same pattern for everybody.  Which of several patterns fits best is left open.
Found(context, number, caller) ==
    LET In(x) == {n \in plan : /\ n.context = x /\ number \in n.match
                               /\ n.only \in {Nothing, caller}}
        search == <<context>> \o Includes(context)
        hits == {k \in DOMAIN search : In(search[k]) # {}} IN
    IF hits = {} THEN {}
    ELSE LET here == In(search[CHOOSE k \in hits : \A m \in hits : k <= m]) IN
         {n \in here : n.only = caller \/ ~\E m \in here : m.only = caller /\ m.match = n.match}

\* The context of an endpoint: a phone, a provider's trunk or another site.
Entrance(from) ==
    CASE from = "trunk" -> Named("inbound")
      [] from = "site" -> Named("from-iax2")
      [] OTHER -> Named("from-pjsip")

NewCall(k) ==
    [from |-> k.from, number |-> k.number, at |-> <<Entrance(k.from), k.number>>,
     lines |-> << >>, phase |-> "incoming", callerId |-> k.from, monitors |-> 0,
     path |-> {}, trunks |-> << >>, by |-> Nothing]

RoutingInit ==
    /\ cfg \in {c \in Configs : Valid(c) /\ Exportable(c)}
    /\ plan = DialPlan(cfg)
    /\ \E k \in Calls : /\ k.from \in DOMAIN cfg.ext => cfg.ext[k.from].active
                        /\ call = NewCall(k)

Becomes(k) == call' = k /\ UNCHANGED <<cfg, plan>>

Current == Head(call.lines)
Rest == Tail(call.lines)
Running(app) == call.phase = "running" /\ call.lines # << >> /\ Current.app = app

\* The call goes on at an exten, or, when there is none, at the exten i of the
\* context; without that it is lost.
EnterFrom(k, context, exten) ==
    LET found == Found(context, exten, k.from)
        invalid == Found(context, "i", k.from) IN
    IF found \union invalid = {}
    THEN Becomes([k EXCEPT !.at = <<context, exten>>, !.lines = << >>, !.phase = "lost"])
    ELSE \E n \in IF found # {} THEN found ELSE invalid :
            Becomes([k EXCEPT !.at = <<n.context, exten>>, !.lines = n.lines,
                              !.phase = "running",
                              !.path = @ \union {<<n.context, exten>>}])

Arrive ==
    /\ call.phase = "incoming"
    /\ EnterFrom(call, Entrance(call.from), call.number)

DoGoto == Running("goto") /\ EnterFrom(call, Current.arg[1], Current.arg[2])

\* The time of day decides.
DoHours ==
    /\ Running("if-business-hours")
    /\ \/ EnterFrom(call, Current.arg[1], Current.arg[2])
       \/ Becomes([call EXCEPT !.lines = Rest])

\* Background and WaitExten: a digit, or none in time.
DoDigit ==
    /\ Running("wait-digit")
    /\ \/ \E d \in Digits : EnterFrom(call, Current.arg, d)
       \/ Becomes([call EXCEPT !.lines = Rest])

\* An endpoint that pjsip.conf or iax.conf has.
Exists(x) ==
    CASE x[1] = "extension" -> x[2] \in DOMAIN cfg.ext /\ cfg.ext[x[2]].active
      [] x[1] = "trunk" -> cfg.trunk[x[2]]
      [] OTHER -> TRUE

\* The trunk that a line dials is remembered.
Offered ==
    LET trunks == {x \in Current.arg : x[1] = "trunk"} IN
    [call EXCEPT !.trunks = IF trunks = {} THEN @
                            ELSE Append(@, (CHOOSE x \in trunks : TRUE)[2])]

\* A call that is answered leaves the dial plan: Dial has no option that keeps it.
Answered(k, x) == [k EXCEPT !.phase = "talking", !.by = x, !.lines = << >>]

\* Dial and Queue: somebody answers, or nobody does in time.
DoDial ==
    /\ Running("dial")
    /\ \/ \E x \in Current.arg :
             /\ Exists(x)
             /\ Becomes(Answered(Offered, x))
       \/ Becomes([Offered EXCEPT !.lines = Rest])

\* A mailbox of voicemail.conf takes the call; another one does not exist.
DoVoicemail ==
    /\ Running("voicemail")
    /\ IF Current.arg \in ActiveRows(cfg.ext) /\ cfg.ext[Current.arg].voicemail
       THEN Becomes([call EXCEPT !.phase = "voicemail", !.lines = << >>])
       ELSE Becomes([call EXCEPT !.lines = Rest])

\* RECORDING_ACTIVE is not set yet.
NotRecording(k) == k.monitors = 0

\* The subroutine recording-hooks.
DoRecord ==
    /\ Running("record")
    /\ Becomes([call EXCEPT !.lines = Rest,
                            !.monitors = IF NotRecording(call) THEN @ + 1 ELSE @])

DoCallerId ==
    /\ Running("caller-id")
    /\ Becomes([call EXCEPT !.lines = Rest, !.callerId = Current.arg])

\* The active DIDs of an extension.
DirectDids(c, e) == {d \in DOMAIN c.did : c.did[d].active /\ c.did[d].direct = e}

\* _extension_did_caller_id, which takes the first of several DIDs.
CallerIdsOf(c, e) ==
    IF e \notin ActiveRows(c.ext) THEN {c.defaultDid}
    ELSE IF DirectDids(c, e) # {} THEN DirectDids(c, e)
    ELSE IF c.ext[e].callerId # Nothing THEN {c.ext[e].callerId} ELSE {c.defaultDid}

\* The subroutine route-caller-id-extension-did.
DoCallerIdOf ==
    /\ Running("caller-id-of")
    /\ \E n \in CallerIdsOf(cfg, call.callerId) :
          Becomes([call EXCEPT !.lines = Rest, !.callerId = n])

\* The applications that end the call in their own way, or let it go on.
DoOther ==
    /\ call.phase = "running" /\ call.lines # << >>
    /\ Current.app \in {"playback", "page", "pickup", "park", "voicemail-main"}
    /\ Becomes([call EXCEPT !.lines = Rest])

Finish ==
    /\ call.phase = "running"
    /\ call.lines = << >> \/ Current.app = "hangup"
    /\ Becomes([call EXCEPT !.phase = "ended", !.lines = << >>])

RoutingNext ==
    \/ Arrive \/ DoGoto \/ DoHours \/ DoDigit \/ DoDial \/ DoVoicemail \/ DoRecord
    \/ DoCallerId \/ DoCallerIdOf \/ DoOther \/ Finish

RoutingSpec == RoutingInit /\ [][RoutingNext]_routingVars

\* Every application has a time-out, so a call does not stand still.
FairSpec == RoutingSpec /\ WF_routingVars(RoutingNext)

-----------------------------------------------------------------------------
\* Every call comes to an end, when the destinations do not lead back to themselves.
CallsEnd == <>(call.phase \notin {"incoming", "running"})

-----------------------------------------------------------------------------
\* What the documents say, and the generated plan does not do.

\* A feature code of a prefix type is dialled before an extension or a page code.
PrefixesWork ==
    \A n \in {call.number} \intersect DOMAIN Prefixed :
       (FromPhone /\ Prefixed[n] \in ActiveRows(cfg.code)) => call.phase # "lost"

\* An IVR with digit routes waits for a digit before it leads anywhere.
DigitsOffered ==
    \A place \in call.path : \A n \in ActiveRows(cfg.ivr) :
       (place[1] = IvrContext(cfg.ivr[n].name) /\ cfg.ivr[n].options # << >>)
       => place[2] \notin {"business-hours", "after-hours"}
=============================================================================
