SPECIFICATION Spec
CONSTANTS
    r1 = r1
    r2 = r2
    s1 = s1
    s2 = s2
    reg1 = reg1
    reg2 = reg2
    http = http
    api = api
    ui = ui
    Requests = {r1, r2}
    Sources = {s1}
    RegistryPublishers = {reg1}
    StorePublishers = {http}
    ApiSetters = {api}
    UISetters = {}
    Kinds = {"sampled"}
    MaxItems = 2
    MaxRestarts = 1
SYMMETRY RequestSymmetry
INVARIANTS
    OneClientPerSource
    CacheLacks
    Audited
    BatchPrefix
CHECK_DEADLOCK FALSE
