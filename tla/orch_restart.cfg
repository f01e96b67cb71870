SPECIFICATION FairSpec
CONSTANTS
    Users = {u1}
    Reqs = {r1, r2, r3}
    None = None
    MaxHosts = 2
    FaultKinds = {}
    MaxFaults = 0
    Overlap = TRUE
    MaxRestarts = 1
    SurvivesRestart = FALSE
INVARIANT WaitsForMortal
PROPERTY EveryRequestReturns
CHECK_DEADLOCK FALSE
