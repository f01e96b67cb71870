SPECIFICATION Spec
CONSTANTS
    Users = {u1, u2}
    Reqs = {r1, r2}
    None = None
    MaxHosts = 3
    FaultKinds = {}
    MaxFaults = 0
    Overlap = FALSE
    MaxRestarts = 0
    SurvivesRestart = FALSE
SYMMETRY Symmetry
INVARIANT RunningIsAlive
CHECK_DEADLOCK FALSE
