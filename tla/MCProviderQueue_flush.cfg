SPECIFICATION Spec
CONSTANTS
    m1 = m1
    m2 = m2
    m3 = m3
    f1 = f1
    f2 = f2
    s1 = s1
    s2 = s2
    Msgs = {m1, m2, m3}
    Flushers = {f1}
    Closers = {}
    Cancellable = {f1, m1, m2, m3}
    BatchSizes = {2}
    MaxQueueSizes = {0, 1}
    Policies = {"", "drop_newest", "block"}
SYMMETRY MsgSymmetry
INVARIANTS
    BoundedBuffer
    Conservation
    OrderKept
    ThresholdArmed
    FlushDrains
PROPERTY ImplementsOutbox
