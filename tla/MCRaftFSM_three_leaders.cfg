SPECIFICATION Spec
CONSTANTS
    Server = {s1, s2, s3}
    None = None
    MaxTerm = 4
    MaxInFlight = 2
    Wire <- SmallTermWire
    Releasers = {}
    Stoppers = {}
SYMMETRY Symmetry
INVARIANT AtMostTwoLeaders
CHECK_DEADLOCK FALSE
