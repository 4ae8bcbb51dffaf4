SPECIFICATION RoutingSpec
CONSTANTS
    Nothing = Nothing
    None = Nothing
    e1 = e1
    e2 = e2
    e3 = e3
    d1 = d1
    d2 = d2
    d3 = d3
    g1 = g1
    q1 = q1
    v1 = v1
    v2 = v2
    t1 = t1
    t2 = t2
    pstn = pstn
    page1 = page1
    pickup1 = pickup1
    Digits <- KeyPad
    Configs <- IvrConfigs
    Calls <- OneCall
    Prefixed <- NoPrefixes
INVARIANTS
    DestinationsWork
CHECK_DEADLOCK FALSE
