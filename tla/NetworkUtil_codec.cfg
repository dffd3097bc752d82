SPECIFICATION Spec
CONSTANTS
    Width = 3
    Radix = 8
    Hosts = {"little", "big"}
    MaxHops = 2
INVARIANTS
    TypeOK
    BytesGrow
    SmallNumbersIntact
PROPERTY
    OnlyFirstHop
CHECK_DEADLOCK FALSE
