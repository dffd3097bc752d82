SPECIFICATION Spec
CONSTANTS
    Server = {s1, s2, s3}
    None = None
    MaxTerm = 3
    MaxInFlight = 2
    Wire <- SmallTermWire
    Releasers = {s1}
    Stoppers = {}
SYMMETRY Symmetry
INVARIANTS
    TypeOK
    ElectionSafety
    OneWinnerPerTerm
    TallyIsReal
    LeaderWonPreviousTerm
    TimersMatchRole
    NonLeaderTimesOut
    HeartbeatFromWinner
PROPERTY
    LeadershipChange
    ImplementsElection
