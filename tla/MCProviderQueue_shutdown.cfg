SPECIFICATION FairSpec
CONSTANTS
    m1 = m1
    m2 = m2
    m3 = m3
    f1 = f1
    f2 = f2
    s1 = s1
    s2 = s2
    Msgs = {m1, m2}
    Flushers = {f1}
    Closers = {s1, s2}
    Cancellable = {}
    BatchSizes = {2}
    MaxQueueSizes = {1}
    Policies = {"block"}
PROPERTIES
    Quiesced
    EventuallySettled
    FlushAnswered
    EnqueueReturns
    ShutdownReturns
CHECK_DEADLOCK FALSE
