SPECIFICATION GenesisSpec
CONSTANTS
    c1 = c1
    c2 = c2
    other = other
    v1 = v1
    v2 = v2
    Contracts <- MCContracts
    Others <- MCOthers
    Validators <- MCValidators
    Denoms <- MCDenoms
    BondDenom = "stake"
    Amounts <- MCAmounts
    CapAmounts <- MCCapAmounts
    TotalContractsMaxCap = 2
    InitialStake = 1
    InitialLiquid = 0
    SlashAmounts <- MCSlashAmounts
    MaxSlashed = 1
    Precision = 10
    CallerReverts = TRUE
    MaxRestarts = 1
SYMMETRY Symmetry
INVARIANTS
    UnslashedTotalIsBacked
    PoolsBacked
PROPERTIES
    VirtualNeverLiquid
