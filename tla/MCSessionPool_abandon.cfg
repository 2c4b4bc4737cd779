\* A client disconnects while its handler future is still pending.
SPECIFICATION Spec
CONSTANTS
    s1 = s1
    s2 = s2
    c1 = c1
    c2 = c2
    c3 = c3
    Slots <- TwoSlots
    Calls <- ThreeCalls
    OneShots <- ImageCalls
    NoSlot = NoSlot
    HandlerDrops = TRUE
    MaxVersion = 1
    MaxCatalog = 1
    MaxStreak = 1
SYMMETRY Symmetry
INVARIANTS
    NoneAbandoned
