CONSTANTS
    league = league  mine = mine  other = other  ann = ann
    Keys = {league, mine, other}
    Users = {ann}
    Shared = Shared
    Caller <- OneCaller
    Threads = {1, 2}
    MaxEntries = 2
    MaxFlights = 3
    None = None
SPECIFICATION FairSpec
INVARIANTS SingleFlight NoRefill LeaderPresent Bounded
PROPERTY Answered
