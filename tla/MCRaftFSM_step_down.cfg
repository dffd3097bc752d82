SPECIFICATION FairSpec
CONSTANTS
    Server = {s1, s2}
    None = None
    MaxTerm = 4
    MaxInFlight = 2
    Wire <- EnlargingWire
    Releasers = {}
    Stoppers = {s1, s2}
INVARIANTS
    IndInv
    ChangedTermsElectNobody
PROPERTY
    TermsOnlyGrow
    StaleLeaderStepsDown
