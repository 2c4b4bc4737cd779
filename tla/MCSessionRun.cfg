SPECIFICATION FairSpec
CONSTANTS
    r1 = r1  r2 = r2  r3 = r3  m1 = m1  m2 = m2  p1 = p1
    Runs <- TwoRuns
    Models <- TwoModels
    Providers <- OneProvider
    ProviderOf <- SameProvider
    ModelScoped <- SecondScoped
    NoModel = NoModel
    NoLimit = NoLimit
    Rpm = 1
    Tpm = 1
    Threshold = 1
    Duration = 1
    FailMax = 1
    CountMax = 3
    Costs <- ZeroOrOne
INVARIANTS TypeOK OneTerminal ThrottleBound
PROPERTY Terminates
CHECK_DEADLOCK FALSE
