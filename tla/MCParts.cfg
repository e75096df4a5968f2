SPECIFICATION Spec
CONSTANTS
    p1 = p1
    p2 = p2
    x1 = x1
    x2 = x2
    t1 = t1
    t2 = t2
    e1 = e1
    e2 = e2
    m1 = m1
    m2 = m2
    Absent = Absent
    Torn = Torn
    NoPort = NoPort
    Processes <- MCProcesses
    Profiles <- MCProfiles
    Passwords = {"first", "second"}
    Tasks <- MCTasks
    Entries <- MCEntries
    Managers <- MCManagers
    Targets = {"own", "other"}
    MaxStarts = 3
    Names <- MCNames
    AllLinks <- MCLinks
SYMMETRY Symmetry
INVARIANTS
    TypeOK
    NeverTorn
    SuccessLasts
    ScreenShowsStored
    EditsLast
    StoredIsUsable
    RefusedElsewhere
    SameServerOnBoth
    EgressFirst
    CommandBlockStays
    LeftoversHaveACause
PROPERTIES
    StoresAreAtomic
