SPECIFICATION Spec
CONSTANTS
    c1 = c1
    c2 = c2
    c3 = c3
    d1 = d1
    Cached = {c1, c2, c3}
    Direct = {d1}
    Urls <- CollidingUrls
    Foreign = {d1}
    Lists <- ListUrls
    MaxEdits = 2
SYMMETRY CallSymmetry
INVARIANTS
    AnswerGiven
    OfflineServed
CHECK_DEADLOCK FALSE
