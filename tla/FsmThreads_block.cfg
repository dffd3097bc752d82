SPECIFICATION Spec
CONSTANTS
    MaxTasks = 4
    UserCalls = {"block"}
INVARIANT
    BlockedIsSilent
CHECK_DEADLOCK FALSE
