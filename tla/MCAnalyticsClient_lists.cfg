SPECIFICATION Spec
CONSTANTS
    k1 = k1
    s1 = s1
    p1 = p1
    p2 = p2
    p3 = p3
    p4 = p4
    p5 = p5
    api = api
    own = own
    Calls = {}
    Sweeps = {}
    Given <- GivenOne
    Extra = {p2, p3, p4, p5}
    ApiHooks = {api}
    ClientHooks <- OwnHooks
    AllowDraft = {FALSE}
PROPERTY ListsIndependent
CHECK_DEADLOCK FALSE
