SPECIFICATION Spec
CONSTANTS
    Profiles <- MCProfiles
    Latencies <- MCLatencies
    Threshold = 2
    None = None
    MaxInterrupts = 2
PROPERTIES
    TrippedBlockHolds
