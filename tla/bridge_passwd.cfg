SPECIFICATION Spec
CONSTANTS
    Messages = {m1}
    Commands = {"subscribe", "passwd"}
    Addresses = {a1, a2}
    None = None
    Overlap = FALSE
    Careful = TRUE
    Lossy = FALSE
SYMMETRY Symmetry
PROPERTY PasswordOfRunningVM
