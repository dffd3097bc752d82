SPECIFICATION Spec
CONSTANTS
    Timer = {election, heartbeat}
    Intervals = {2}
    IdleWait = 3
INVARIANT
    TypeOK
PROPERTIES
    TopDefined
    ResetPostpones
    DestructorReturns
    TimerIsCalled
CHECK_DEADLOCK FALSE
