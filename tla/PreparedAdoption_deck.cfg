SPECIFICATION Spec
CONSTANTS
    Jobs = {j1, j2}
    Inventories = {1, 2}
    Size <- MCSize
    MaxEdits = 1
    Damaged = {1}
    Expiring = {1}
    None = None
CHECK_DEADLOCK FALSE
SYMMETRY Symmetry
INVARIANTS ShownIsDurable OneKindOfDeck SoundIsKept LiveIsCurrent
PROPERTIES NothingStale
