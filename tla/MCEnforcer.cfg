SPECIFICATION FairSpec
CONSTANTS
    h1 = h1  h2 = h2  h3 = h3  u1 = u1  p1 = p1
    Handlers <- ThreeHandlers
    Users <- OneUser
    Providers <- OneProvider
    NoKey = NoKey
    NoLimit = NoLimit
    Rpm = 2
    Tpm = 2
    Threshold = 2
    Duration = 2
    FailMax = 3
    CountMax = 6
    Costs <- ZeroOrOne
INVARIANTS TypeOK AdmissionBound
PROPERTIES WindowFrozen CooldownEnds
CHECK_DEADLOCK FALSE
