SPECIFICATION Spec
CONSTANTS
    Messages = {m1}
    Commands = {"subscribe", "restart"}
    Addresses = {a1, a2}
    None = None
    Overlap = FALSE
    Careful = FALSE
    Lossy = FALSE
SYMMETRY Symmetry
INVARIANT RunningIsRoutable
