\* Two connections and one or two requests at a time.
CONSTANTS
    c1 = c1
    c2 = c2
    c3 = c3
    c4 = c4
    r1 = r1
    r2 = r2
    r3 = r3
    l1 = l1
    l2 = l2
    NoConn = NoConn
    NoItem = NoItem
    CloseSentinel = CloseSentinel
    Reply = Reply
    Report = Report
    Locations = {l1, l2}
    Conns = {c1, c2, c3, c4}
    Requests = {r1, r2, r3}
    ControlConns = {c1, c2, c4}
    LocationOf <- Homes
    TargetOf <- Targets
SPECIFICATION ScenarioSpec
SYMMETRY Symmetry
INVARIANTS
    LinkInv
    CompletedOnce
    NoLostWaiter
    RegistryMatchesLoops
    SentinelIsLast
    AnswerIsOwn
PROPERTIES
    ExecutedOnce
