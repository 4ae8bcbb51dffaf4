----------------------------- MODULE MCGenerated -----------------------------
(***************************************************************************)
(* What the portal makes of its rows, in one instance for TLC: numbered    *)
(* versions of a location that is being edited (ConfigExport), backups     *)
(* (AdminBackup), dial plans with the calls in them (CallRouting), and the *)
(* forms of the trunks and routes that these need (TrunkRoutes).  The four *)
(* share no state; each behaviour is about one of them, its "part".        *)
(***************************************************************************)
EXTENDS ConfigExport, RoutingSamples, BackupState, TrunkTables, CallState

CONSTANTS x1, x2, i1, i2, u1, u2, w1, b1, l1, l2, p1, t3, t4, o1, y1

VARIABLE part  \* export, backup, call or trunks

Backup == INSTANCE AdminBackup

Routing == INSTANCE CallRouting WITH
               Configs <- InboundConfigs \union OutboundConfigs,
               Calls <- InboundCalls \union OutboundCalls,
               Prefixed <- NoPrefixes, Digits <- KeyPad, Nothing <- None

Forms == INSTANCE TrunkRoutes WITH Operations <- {"provider", "trunk", "location", "delete"}

ASSUME /\ Backup!ConstantsAssumption /\ Forms!TrunksAssumption
       /\ Routing!ConfigsAssumption /\ Routing!OneIvr /\ Routing!PlainNames

backupVars == <<rows, log, files, step, target, reading, archive>>
callVars == <<cfg, plan, call>>
formVars == <<provider, trunk, route, links, chosen, page, demoted>>
allVars == <<part, vars, backupVars, callVars, formVars>>

-----------------------------------------------------------------------------
\* Calls from the network and from another site in the locations that differ in what
\* such calls meet, calls of phones in those that differ in their routes.
CallScenario == IF FromPhone THEN cfg \in OutboundConfigs ELSE cfg \in InboundConfigs

FirstCall ==
    /\ cfg = CHOOSE c \in OutboundConfigs : Routing!Valid(c) /\ Routing!Exportable(c)
    /\ plan = {}
    /\ call = Routing!NewCall(CHOOSE k \in OutboundCalls : TRUE)

PartInit ==
    /\ \/ part = "call" /\ Routing!RoutingInit /\ CallScenario
       \/ part \in {"export", "backup", "trunks"} /\ FirstCall
    /\ Init /\ (part # "export" => config = Nothing)
    /\ Backup!Init /\ (part # "backup" => target = [u \in Uploads |-> i1])
    /\ Forms!TrunkInit

PartNext ==
    /\ \/ part = "export" /\ Next /\ UNCHANGED <<backupVars, callVars, formVars>>
       \/ part = "backup" /\ Backup!Next /\ UNCHANGED <<vars, callVars, formVars>>
       \/ part = "call" /\ Routing!RoutingNext /\ UNCHANGED <<vars, backupVars, formVars>>
       \/ part = "trunks" /\ Forms!TrunkNext /\ UNCHANGED <<vars, backupVars, callVars>>
    /\ UNCHANGED part

PartSpec == PartInit /\ [][PartNext]_allVars

\* Locations and trunks are interchangeable; those of a dial plan are others.
Symmetry == Permutations({l1, l2}) \union Permutations({t3, t4})

=============================================================================
