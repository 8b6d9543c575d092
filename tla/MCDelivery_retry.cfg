SPECIFICATION FairSpec
CONSTANTS
    k1 = k1
    k2 = k2
    Calls = {k1, k2}
    Cancellable = {k1}
    Kinds = {"event-spec", "amplitude"}
    Retries = {2}
    Initial = 2
    MaxBackoff = 3
    Multiplier = 2
    Jitter = TRUE
    TokenCost = 2
    Bursts = {1}
INVARIANTS
    RateConforms
    AtMostPerAttempt
    NilMeansActed
    ShutdownOnce
PROPERTY CallReturns
