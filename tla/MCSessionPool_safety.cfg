\* Handlers may be dropped; publications and notifies race acquires and respawns.
SPECIFICATION Spec
CONSTANTS
    s1 = s1
    s2 = s2
    c1 = c1
    c2 = c2
    c3 = c3
    Slots <- TwoSlots
    Calls <- TwoCalls
    OneShots <- ImageCalls
    NoSlot = NoSlot
    HandlerDrops = TRUE
    MaxVersion = 2
    MaxCatalog = 2
    MaxStreak = 1
SYMMETRY Symmetry
INVARIANTS
    TypeOK
    Conservation
    GaugesTrue
    CatalogCurrent
    TagTruthful
