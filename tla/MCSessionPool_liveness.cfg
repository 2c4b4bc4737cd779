\* No client disconnects before its body exists: three calls share one session.
SPECIFICATION FairSpec
CONSTANTS
    s1 = s1
    s2 = s2
    c1 = c1
    c2 = c2
    c3 = c3
    Slots <- OneSlot
    Calls <- ThreeCalls
    OneShots <- ImageCalls
    NoSlot = NoSlot
    HandlerDrops = FALSE
    MaxVersion = 1
    MaxCatalog = 1
    MaxStreak = 1
PROPERTIES
    Served
    Replaced
