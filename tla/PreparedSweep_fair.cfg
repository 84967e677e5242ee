CONSTANTS
    s1 = s1  s2 = s2  t1 = t1  t2 = t2  x1 = x1  x2 = x2  w1 = w1  w2 = w2
    Sweeps = {s1}
    Targets = {t1}
    Scopes = {x1}
    SweepOf <- OneSweep
    ScopeOf <- SameScope
    Workers = {w1, w2}
    None = None
    MaxAttempts = 2
    MaxClaims = 3
    MaxDeferrals = 1
    MaxCrashes = 1
SPECIFICATION FairSpec
INVARIANT Budget
PROPERTIES SweepEnds StageDropped
CHECK_DEADLOCK FALSE
