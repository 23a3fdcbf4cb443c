SPECIFICATION Spec
CONSTANTS
    c1 = c1
    c2 = c2
    exe = exe
    r1 = r1
    r2 = r2
    r3 = r3
    Content = {c1, c2}
    Executable = {exe}
    Ships <- MCShips
    Undigested = {}
    Flagged = {c2}
    Run = {r1, r2, r3}
    May <- MCMay
    None = None
    MaxTime = 1
    MaxFaults = 1
    MaxEdits = 1
INVARIANTS
    RefusedIsUndone
