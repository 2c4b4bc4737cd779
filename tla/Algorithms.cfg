SPECIFICATION Spec
CONSTANTS
    MaxMessages = 4
    Long = 17
    Efforts = {"none", "low", "high"}
    DefaultEffort = "low"
    Levels = {0, 8}
    Budgets = {5}
    OutputLimits = {4, 9, 20}
    Threshold = 3
    MaxFailures = 3
    Rates = {0, 1, 2}
    Thresholds = {0, 1, 2}
    MaxTokens = 3
    MaxClients = 4
    MaxChars = 2
    MaxDeltas = 4
    Ttl = 2
    MaxHours = 4
    MinCoverage = 2
    Top = 2
    MaxRows = 2
    Upstream = {"a", "b", "c"}
    MaxChoices = 4
    LimitedModels = {"a", "b"}
    Rpms = {0, 1, 2}
    MaxStarts = 2
    MaxWaiting = 1
    MaxLine = 5
    MaxRead = 3
    PollFor = 5
    PollEvery = 2
    SlowestPoll = 3
    Callers = {"c", "d"}
    Videos = {"f", "g"}
    MaxEdits = 1
    MaxPolls = 1
    CatalogIds = {"a", "b"}
    MaxCommands = 3
    MaxSaves = 3
INVARIANTS
    RequestsFaithful
    SettingsHonored
    ErrorsJudged
    PricesTrue
    ModelsServed
    BridgeFaithful
    RankingSound
    CurationSound
    LimitsHold
    ClientToldTruth
    UploadsTruthful
    CommandsAgree
CHECK_DEADLOCK FALSE
