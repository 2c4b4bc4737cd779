SPECIFICATION Spec
CONSTANTS
    AppTasks = {a1, a2}
    CliTasks = {c1}
    Edits = {e1, e2, e3}
    RestoreSlots = {"prev"}
    MaxDay = 0
    MaxCrashes = 0
    Absent = Absent
    Torn = Torn
PROPERTIES
    RestoreBringsBack
CHECK_DEADLOCK FALSE
