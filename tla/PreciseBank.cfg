SPECIFICATION Spec
CONSTANTS
    N = 2
    Modules <- MCModules
    EvmModule = 1
    Blocked <- MCBlocked
    ConversionFactor = 3
    MaxGenesis = 1
    MaxSupply = 3
    MaxInteger = 1
    MaxExtended = 4
    MaxCalls = 2
INVARIANTS
    TypeOK
    ReserveBacksFractions
    ReserveNeverShort
    SupplyExact
    ExportReimports
PROPERTIES
    ImplementsLedger
    TransferExact
    MintBurnExact
