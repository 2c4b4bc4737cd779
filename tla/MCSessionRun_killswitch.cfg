SPECIFICATION Spec
CONSTANTS
    r1 = r1  r2 = r2  r3 = r3  m1 = m1  m2 = m2  p1 = p1
    Runs <- TwoRuns
    Models <- OneModel
    Providers <- OneProvider
    ProviderOf <- SameProvider
    ModelScoped <- NoneScoped
    NoModel = NoModel
    NoLimit = NoLimit
    Rpm = 0
    Tpm = NoLimit
    Threshold = 2
    Duration = 1
    FailMax = 3
    CountMax = 3
    Costs <- NoCost
PROPERTY Killswitch
CHECK_DEADLOCK FALSE
