SPECIFICATION FairSpec
CONSTANTS
    k1 = k1
    s1 = s1
    p1 = p1
    p2 = p2
    p3 = p3
    p4 = p4
    p5 = p5
    api = api
    own = own
    Calls = {k1}
    Sweeps = {s1}
    Given <- GivenOne
    Extra = {p2}
    ApiHooks = {api}
    ClientHooks <- OwnHooks
    AllowDraft = {TRUE, FALSE}
INVARIANTS
    BeforeGates
    Unwound
    Served
    SweepComplete
PROPERTY DispatchReturns
CHECK_DEADLOCK FALSE
