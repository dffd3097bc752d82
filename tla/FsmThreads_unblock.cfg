SPECIFICATION Spec
CONSTANTS
    MaxTasks = 3
    UserCalls = {"block", "unblock"}
INVARIANT
    UnblockRejoins
CHECK_DEADLOCK FALSE
