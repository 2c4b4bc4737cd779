SPECIFICATION Spec
CONSTANTS
    AppTasks = {a1, a2}
    CliTasks = {c1}
    Edits = {e1, e2, e3}
    RestoreSlots = {"daily", "weekly"}
    MaxDay = 2
    MaxCrashes = 1
    Absent = Absent
    Torn = Torn
SYMMETRY Alike
INVARIANTS
    TypeOK
    AliasesCurrent
    NothingLost
CHECK_DEADLOCK FALSE
