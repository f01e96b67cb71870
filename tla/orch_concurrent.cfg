SPECIFICATION Spec
CONSTANTS
    Users = {u1, u2}
    Reqs = {r1, r2, r3}
    None = None
    MaxHosts = 3
    FaultKinds = {"redis", "cancel", "cp", "truncate", "mkfs", "tap", "iptables", "launch", "rm", "guest"}
    MaxFaults = 1
    Overlap = TRUE
    MaxRestarts = 0
    SurvivesRestart = FALSE
SYMMETRY Symmetry
INVARIANTS
    TypeOK
    IPExclusive
    TapExclusive
    Isolated
    OneStopper
PROPERTY PoolSpec
CHECK_DEADLOCK FALSE
