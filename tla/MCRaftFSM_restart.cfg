SPECIFICATION RestartSpec
CONSTANTS
    Server = {s1, s2, s3}
    None = None
    MaxTerm = 2
    MaxInFlight = 2
    Wire <- SmallTermWire
    Releasers = {}
    Stoppers = {}
SYMMETRY Symmetry
INVARIANT ElectionSafety
CHECK_DEADLOCK FALSE
