SPECIFICATION Spec
CONSTANTS
    Senders = {s1, s2}
    None = None
    Slow = TRUE
    MaxSends = 1
    MaxTokens = 3
    MaxCrashes = 0
SYMMETRY Symmetry
INVARIANT OneRefresher
CHECK_DEADLOCK FALSE
