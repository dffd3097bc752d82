SPECIFICATION Spec
CONSTANTS
    Width = 2
    Radix = 256
    Hosts = {"little"}
    MaxHops = 1
INVARIANT
    RoundTrip
CHECK_DEADLOCK FALSE
