SPECIFICATION Spec
CONSTANTS
    p1 = p1
    p2 = p2
    main = main
    v1 = v1
    bad = bad
    c1 = c1
    c2 = c2
    NoName = NoName
    None = None
    Torn = Torn
    Procs = {p1, p2}
    Names = {main, v1, bad}
    Commits = {c1, c2}
    Ancestors <- History
    Heads <- Branches
    Tags <- Releases
    Configs <- Pinned
    BadNames = {bad}
    MaxMoves = 2
    MaxPulls = 2
    MaxKills = 1
SYMMETRY Processes
INVARIANTS
    IndexedIsJudged
    PinHolds
    FollowsRemote
    RefRemedyWorks
CHECK_DEADLOCK FALSE
