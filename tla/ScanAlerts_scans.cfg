SPECIFICATION Spec
CONSTANTS
    dir1 = dir1
    dir2 = dir2
    plug = plug
    srcA = srcA
    srcB = srcB
    trustOp = trustOp
    ackOp = ackOp
    ruleA = ruleA
    capA = capA
    Dir = {dir1, dir2}
    Walk <- MCWalk
    IdOf <- MCIdOf
    Source = {srcA, srcB}
    Initial <- MCInitial
    Arriving <- MCArriving
    Client = {trustOp, ackOp}
    May <- MCMay
    None = None
    Gone = Gone
    Free = Free
    Corrupt = Corrupt
    MaxEdits = 1
    MaxDamage = 1
    Scan = {1, 2, 3}
    Mode <- MCMode
    Ambient = {barA}
    barA = barA
    Catalog <- MCCatalog
    Policy <- MCPolicy
    Analysis <- MCAnalysis
INVARIANTS
    AcceptedIsConfirmed
    StandingAlertsWereNotified
    NotifiedOnce
PROPERTY
    LedgerOnlyGrows
CONSTRAINT
    Few
