SPECIFICATION Spec
CONSTANTS
    s1 = s1
    s2 = s2
    v1 = v1
    a = a
    b = b
    trust = trust
    marketplace = marketplace
    None = None
    Unreadable = Unreadable
    Scan = {s1, s2}
    Reader = {v1}
    Content = {a, b}
    StateFile = {trust, marketplace}
    MaxGeneration = 3
    MaxChanges = 2
    MaxFaults = 1
SYMMETRY Symmetry
INVARIANTS
    TypeOK
    GenerationsAreUnique
    PersistedIsCached
    ValidWasTrue
PROPERTIES
    SnapshotAdvances
