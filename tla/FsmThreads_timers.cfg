SPECIFICATION Spec
CONSTANTS
    MaxTasks = 3
    UserCalls = {"stay_follower", "block", "unblock"}
INVARIANTS
    TypeOK
    OneTaskPerTimer
    PauseSticks
    TimersMatchRoleAtRest
    TallyOfOneTerm
    OneWayToGetStuck
PROPERTY
    SilenceKept
CHECK_DEADLOCK FALSE
VIEW InUse
