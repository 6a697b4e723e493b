SPECIFICATION Spec
CONSTANTS
    N = 3
    Blocked <- MCBlocked
    Stores <- MCStores
    Values <- MCValues
    Keys = {1, 2}
    Programs <- Slots
    MaxPrecompileCalls = 1
    MaxBranches = 1
    MaxValue = 1
CHECK_DEADLOCK FALSE
PROPERTIES
    StorageRestored
