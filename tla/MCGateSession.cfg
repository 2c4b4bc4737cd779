SPECIFICATION FairSpec
CONSTANTS
    c1 = c1  c2 = c2
    Calls <- TwoCalls
    NoCall = NoCall
    Ids <- TwoCalls
    IdOf <- UniqueIds
    Junk = Junk
    PrecancelCap = 1
    MaxFrames = 3
INVARIANTS TypeOK CleanHandover CancelsHit
PROPERTIES StreamsAsPromised Answered
CHECK_DEADLOCK FALSE
