CONSTANTS
    l1 = l1  t1 = t1
    Loops = {l1}
    Ticks = {t1}
    N = 2
    League = {1}
    Pack = 2
    Held = {1}
    Broken = {1}
    Pages = 2
    MaxFaults = 1
    None = None
SPECIFICATION FairSpec
INVARIANTS CursorIsTrue DoneIsClean
PROPERTIES ScrubEnds
