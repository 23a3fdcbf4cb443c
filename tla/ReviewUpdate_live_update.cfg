SPECIFICATION Spec
CONSTANTS
    p1 = p1
    p2 = p2
    c0 = c0
    c1 = c1
    c2 = c2
    r1 = r1
    r2 = r2
    None = None
    Unreadable = Unreadable
    Plugin = {p1, p2}
    Commit = {c0, c1, c2}
    Base = c0
    Run = {r1, r2}
    MaxActive = 2
    Trusted = {p1}
    MayBeLive = {p1}
    MaxFaults = 0
    MaxSignals = 0
    MaxEdits = 0
    MaxRebaselines = 0
    OrphansSurvive = FALSE
SYMMETRY Symmetry
INVARIANTS
    UpdatesAreQuiesced
