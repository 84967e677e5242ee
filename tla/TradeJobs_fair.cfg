SPECIFICATION FairSpec
CONSTANTS
    u = u
    v = v
    mine = mine
    theirs = theirs
    Users = {u, v}
    Scopes = {mine, theirs}
    Owner <- MCOwner
    Preferences = {mine}
    Requests = {r1}
    Viewers = {u}
    Kinds = {"search", "warm", "pinned"}
    Polls = {p1}
    Editors = {e1}
    Leaving = {v}
    None = None
CHECK_DEADLOCK FALSE
INVARIANTS NoneOfTheDeleted
PROPERTIES DeliveredIsCurrent DecksEnd
