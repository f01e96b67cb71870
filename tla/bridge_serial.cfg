SPECIFICATION FairSpec
CONSTANTS
    Messages = {m1}
    Commands = {"subscribe", "text", "restart", "stop", "destroy", "passwd"}
    Addresses = {a1, a2}
    None = None
    Overlap = FALSE
    Careful = TRUE
    Lossy = TRUE
INVARIANT TypeOK
INVARIANT BindingTruthful
INVARIANT NoForgottenVM
INVARIANT NoStaleProvisioning
PROPERTY ForwardsToRegisteredVM
PROPERTY ProvisioningEnds
PROPERTY RegistrySpec
