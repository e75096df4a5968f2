SPECIFICATION FairSpec
CONSTANTS
    Profiles <- MCProfiles
    Latencies <- MCLatencies
    Threshold = 2
    None = None
    MaxInterrupts = 2
INVARIANTS
    TypeOK
    NothingLeftBehind
    RouteIsTheActiveOne
PROPERTIES
    UnblockedLast
    ImplementsContracts
    DeathEndsConnection
