SPECIFICATION Spec
CONSTANTS
    Families = {"anthropic", "openai", "gemini", "chat", "chat_once"}
    Styles = {"indexed", "openers", "ids", "bare"}
    Bases <- MCBases
    Bills <- MCBills
    MaxText = 2
    MaxCalls = 2
    MaxArgs = 2
    Nil = Nil
INVARIANTS
    TypeOK
    ResultTrue
PROPERTIES
    AnswersAsPromised
    QuietAfterAbort
    Ends
CHECK_DEADLOCK FALSE
