SPECIFICATION Spec
CONSTANTS
    Contracts <- MCContracts
    Accounts <- MCAccounts
    Authority = "gov"
    Denoms <- MCDenoms
    BondDenom = "stake"
    CapAmounts <- MCCapAmounts
    TotalContractsMaxCap = 3
    EpochLength = 3
    MaxHeight = 9
INVARIANTS
    ZeroCapHasNoRegularRebalance
