SPECIFICATION Spec
CONSTANTS
    m1 = m1
    m2 = m2
    m3 = m3
    f1 = f1
    f2 = f2
    s1 = s1
    s2 = s2
    Msgs = {m1, m2}
    Flushers = {}
    Closers = {s1}
    Cancellable = {}
    BatchSizes = {2}
    MaxQueueSizes = {2}
    Policies = {"drop_oldest"}
INVARIANT ShutdownFlushesAccepted
CHECK_DEADLOCK FALSE
