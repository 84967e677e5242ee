CONSTANTS
    Users = {1, 2}
    w1 = w1  w2 = w2  d1 = d1  d2 = d2
    Workers = {w1, w2}
    Daemons = {w2}
    Deleters = {d1, d2}
    None = None
    MaxRequests = 2
    MaxLeases = 2
SPECIFICATION FairSpec
INVARIANTS NoResurrection CommitIsExclusive GatesAccounted
PROPERTIES RefusalJustified DeletionEnds WaiterAnswered
