CONSTANTS
    s1 = s1  s2 = s2  t1 = t1  t2 = t2  x1 = x1  x2 = x2  w1 = w1  w2 = w2
    Sweeps = {s1, s2}
    Targets = {t1, t2}
    Scopes = {x1}
    SweepOf <- EachItsSweep
    ScopeOf <- SameScope
    Workers = {w1, w2}
    None = None
    MaxAttempts = 1
    MaxClaims = 3
    MaxDeferrals = 1
    MaxCrashes = 0
SYMMETRY Processes
SPECIFICATION Spec
INVARIANTS RowAgrees OneHead NothingOfTheDeleted ClosedSweepsAreDone
PROPERTIES Refines
CHECK_DEADLOCK FALSE
