SPECIFICATION Spec
CONSTANTS
    s1 = s1
    s2 = s2
    j1 = j1
    j2 = j2
    None = None
    Services <- MCServices
    Jobs <- MCJobs
SYMMETRY Symmetry
INVARIANTS
    TypeOK
    NotStuck
    AllOrNothing
    ScreenTellsTheTruth
    TunnelReadsAnOpenTun
PROPERTIES
    OrphanHasACause
