\* Package actions alone, two runs in a row, and nobody else on the device.
CONSTANTS
    Action <- PackageActions
    Upstream = {1}
    Release = {1}
    MaxActions = 2
    MaxDrift = 0
SPECIFICATION Spec
INVARIANTS
    PresentIsInstalled
