SPECIFICATION Spec
CONSTANTS
    N = 3
    Blocked <- MCBlocked
    Stores <- MCStores
    Values <- Bits
    Keys = {1, 2}
    Programs <- Sends
    MaxPrecompileCalls = 1
    MaxBranches = 1
    MaxValue = 1
CHECK_DEADLOCK FALSE
PROPERTIES
    TransferNotOverwritten
