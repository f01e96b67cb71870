SPECIFICATION Spec
CONSTANTS
    Users = {u1, u2}
    Reqs = {r1, r2, r3, r4}
    None = None
    MaxHosts = 3
    FaultKinds = {"cp", "truncate", "mkfs", "tap", "iptables", "launch", "rm", "guest"}
    MaxFaults = 1
    Overlap = FALSE
    MaxRestarts = 0
    SurvivesRestart = FALSE
SYMMETRY Symmetry
INVARIANTS
    OneVMPerUser
    
    
    
PROPERTIES
    WritesAreTrue
    RegistrySpec
CHECK_DEADLOCK FALSE
