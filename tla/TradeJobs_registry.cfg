SPECIFICATION Spec
CONSTANTS
    u = u
    v = v
    mine = mine
    theirs = theirs
    Users = {u, v}
    Scopes = {mine, theirs}
    Owner <- MCOwner
    Preferences = {mine}
    Requests = {r1, r2}
    Viewers = {u}
    Kinds = {"search", "warm", "forced"}
    Polls = {}
    Editors = {e1}
    Leaving = {}
    None = None
CHECK_DEADLOCK FALSE
SYMMETRY Symmetry
INVARIANTS NoStaleDeck LiveIsIndexed
PROPERTIES ImplementsDecks
