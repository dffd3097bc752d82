SPECIFICATION Spec
CONSTANTS
    MaxTasks = 4
    UserCalls = {}
INVARIANT
    HandleCanReturn
CHECK_DEADLOCK FALSE
