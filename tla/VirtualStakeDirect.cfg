SPECIFICATION Spec
CONSTANTS
    c1 = c1
    other = other
    v1 = v1
    Contracts <- MCContracts
    Others <- MCOthers
    Validators <- MCValidators
    Denoms <- MCDenoms
    BondDenom = "stake"
    Amounts <- MCAmounts
    CapAmounts <- MCCapAmounts
    TotalContractsMaxCap = 3
    InitialStake = 2
    InitialLiquid = 1
    SlashAmounts <- MCSlashAmounts
    MaxSlashed = 3
    Precision = 10
    CallerReverts = FALSE
PROPERTIES
    FailedDelegateKeepsSupply
