SPECIFICATION Spec
CONSTANTS
    Thread = {executor, network}
    MaxSends = 3
    MaxConns = 2
    Capacity = 3
    Oversized = {2}
    Getter = {main}
INVARIANTS
    TypeOK
    OneConnection
    OvertakenAfterError
    GarbledAfterStall
    NoLostWakeup
PROPERTIES
    SendReturns
    WrittenArrives
CHECK_DEADLOCK FALSE
