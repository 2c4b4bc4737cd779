SPECIFICATION Spec
CONSTANTS
    Families = {"chat"}
    Styles = {"indexed"}
    Bases <- MCBases
    Bills <- MCBills
    MaxText = 1
    MaxCalls = 0
    MaxArgs = 0
    Nil = Nil
PROPERTIES
    CancelAcknowledged
CHECK_DEADLOCK FALSE
