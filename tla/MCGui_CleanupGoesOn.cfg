SPECIFICATION Spec
CONSTANTS
    Profiles <- MCProfiles
    Latencies <- MCLatencies
    Threshold = 2
    None = None
    MaxSessions = 2
    MaxStale = 1
INVARIANTS
    CleanupGoesOn
