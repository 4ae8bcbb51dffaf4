\* A fair portal with silent agents; one of four parts at a time.
CONSTANTS
    c1 = c1
    c2 = c2
    r1 = r1
    l1 = l1
    NoConn = NoConn
    NoItem = NoItem
    CloseSentinel = CloseSentinel
    Reply = Reply
    Report = Report
    Locations = {l1}
    Conns = {c1, c2}
    Requests = {r1}
    ControlConns = {c1, c2}
    LocationOf <- Homes
    TargetOf <- Targets
    i1 = i1
    i2 = i2
    s1 = s1
    s2 = s2
    s3 = s3
    None = None
    e1 = e1
    e2 = e2
    e3 = e3
    d1 = d1
    d2 = d2
    d3 = d3
    g1 = g1
    q1 = q1
    v1 = v1
    v2 = v2
    t1 = t1
    t2 = t2
    pstn = pstn
    page1 = page1
    pickup1 = pickup1
SPECIFICATION PartSpec
PROPERTIES
    LinkReleases
    ImplementsLiveCommand
    SessionEnds
    CommandsMove
    CallsEnd
