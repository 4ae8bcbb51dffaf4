--------------------------- MODULE RoutingSamples ---------------------------
(***************************************************************************)
(* Small locations for CallRouting: two extensions, one DID, one ring      *)
(* group, one queue, one or two IVRs, two trunks.  Destinations lead from  *)
(* an IVR to a queue, from a queue to a ring group, and never back.        *)
(***************************************************************************)
EXTENDS Sequences, TLC

CONSTANTS None, e1, e2, e3, d1, d2, d3, g1, q1, v1, v2, t1, t2, pstn, page1, pickup1

Ext(n) == <<"extension", n>>
Group == <<"group", g1>>
Queue == <<"queue", q1>>
Ivr(n) == <<"ivr", n>>

Extension(voicemail, emergency, record, callerId) ==
    [active |-> TRUE, voicemail |-> voicemail, emergency |-> emergency,
     record |-> record, callerId |-> callerId]

Menu(name, active, hours, timeout) ==
    [name |-> name, active |-> active, hours |-> hours, timeout |-> timeout,
     invalid |-> None, options |-> "1" :> Group]

NoHours == <<None, None>>

Feature(type, dest) == [active |-> TRUE, type |-> type, dest |-> dest]

Route(active, emergency, pattern, source, trunks) ==
    [active |-> active, emergency |-> emergency, pattern |-> pattern, source |-> source,
     number |-> IF source = "custom" THEN d3 ELSE None, trunks |-> trunks, record |-> TRUE]

Base ==
    [ext    |-> e1 :> Extension(TRUE, TRUE, TRUE, None)
                @@ e2 :> Extension(FALSE, FALSE, FALSE, None),
     remote |-> {e3},
     ivr    |-> << >>,
     group  |-> g1 :> [active |-> TRUE, hunt |-> FALSE, members |-> <<e1, e2>>],
     queue  |-> q1 :> [active |-> TRUE, members |-> {e2}, overflow |-> None, record |-> TRUE],
     page   |-> page1 :> [active |-> TRUE, members |-> {e1, e2}],
     did    |-> d1 :> [active |-> TRUE, direct |-> None, default |-> None],
     route  |-> << Route(TRUE, TRUE, {"911"}, "emergency", <<t1>>) >>,
     trunk  |-> (t1 :> TRUE) @@ (t2 :> TRUE),
     code   |-> "*8" :> Feature("call_pickup", None)
                @@ "**" :> Feature("directed_pickup", None)
                @@ "*80" :> Feature("paging_prefix", None)
                @@ "700" :> Feature("park", None)
                @@ "*90" :> Feature("custom", Ext(e1))
                @@ "*91" :> Feature("voicemail_direct", None)
                @@ "*98" :> Feature("voicemail_main", None),
     default |-> None, defaultDid |-> d2, emergencyId |-> d2]

-----------------------------------------------------------------------------
\* Calls from the network, and between the location's own phones.
InboundConfigs ==
    {[Base EXCEPT !.default = default, !.did[d1].direct = direct, !.did[d1].default = Group,
                  !.ext[e2].active = second,
                  !.ivr = <<Menu(v1, active, hours, timeout)>>,
                  !.group[g1].hunt = hunt, !.group[g1].members = members,
                  !.queue[q1].overflow = overflow] :
        default \in {None, Group, Queue, Ivr(v1)}, direct \in {None, e1},
        second \in BOOLEAN, active \in BOOLEAN,
        hours \in {NoHours, <<Queue, None>>, <<Queue, Ext(e1)>>}, timeout \in {None, Queue},
        hunt \in BOOLEAN, members \in {<<e1, e2>>, <<e1>>, << >>},
        overflow \in {None, Group, Ext(e1)}}

InboundCalls ==
    {[from |-> "trunk", number |-> d1], [from |-> "trunk", number |-> "s"],
     [from |-> "trunk", number |-> d3], [from |-> "site", number |-> e1]}

\* The same locations without a direct DID and with fewer rows that are inactive or empty.
EndingConfigs ==
    {c \in InboundConfigs : /\ c.did[d1].direct = None
                            /\ c.ext[e2].active /\ c.ivr[1].active /\ ~c.group[g1].hunt
                            /\ c.group[g1].members = <<e1, e2>>}

\* Calls of the location's phones.
Emergency(source, trunks) == Route(TRUE, TRUE, {"911"}, source, trunks)

OutboundConfigs ==
    {[Base EXCEPT !.ext[e1].emergency = first, !.ext[e2].emergency = second,
                  !.ext[e1].callerId = own, !.did[d1].direct = direct,
                  !.emergencyId = emergencyId, !.trunk[t1] = up,
                  !.route = <<Route(active, TRUE, {"911"}, "emergency", <<t1, t2>>),
                              Route(TRUE, FALSE, {"911", pstn}, source, <<t2>>),
                              Route(TRUE, FALSE, {"911"}, "location_default", <<t1>>)>>] :
        first \in BOOLEAN, second \in BOOLEAN, own \in {None, d3}, direct \in {None, e2},
        emergencyId \in {None, d2}, up \in BOOLEAN, active \in BOOLEAN,
        source \in {"extension_did", "location_default", "custom"}}

OutboundCalls ==
    {[from |-> e, number |-> n] :
        e \in {e1, e2},
        n \in {"911", pstn, e1, e3, page1, "*8", "**", "*80", "700", "*90", "*91", "*97", "*98"}}

\* Two IVRs, either of which the location's calls may go to.
IvrConfigs ==
    {[Base EXCEPT !.default = Ivr(v),
                  !.ivr = <<Menu(v1, first, NoHours, None), Menu(v2, TRUE, NoHours, Ext(e1))>>] :
        v \in {v1, v2}, first \in BOOLEAN}

\* An IVR with destinations for business hours and after them.
HoursConfigs ==
    {[Base EXCEPT !.default = Ivr(v1), !.ivr = <<Menu(v1, TRUE, <<Queue, Ext(e1)>>, None)>>]}

OneCall == {[from |-> "trunk", number |-> d1]}
PrefixConfigs == {Base}
PrefixCalls == {[from |-> e1, number |-> pickup1]}
PrefixedNumbers == pickup1 :> "**"
NoPrefixes == << >>
KeyPad == {"1", "2"}
=============================================================================
