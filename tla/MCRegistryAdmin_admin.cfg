SPECIFICATION Spec
CONSTANTS
    r1 = r1
    r2 = r2
    r3 = r3
    n1 = n1
    Requests = {r1, r2, r3}
    Tables = {"source"}
    Names = {n1}
    StartValues = {TRUE}
    MaxRestarts = 1
SYMMETRY RequestSymmetry
INVARIANTS
    AuditGaps
    AnswerJustified
    HooksDiffer
CHECK_DEADLOCK FALSE
