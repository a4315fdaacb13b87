SPECIFICATION FairSpec
CONSTANTS
    Contracts <- MCContracts
    Accounts <- MCAccounts
    Authority = "gov"
    Denoms <- MCDenoms
    BondDenom = "stake"
    CapAmounts <- MCCapAmounts
    TotalContractsMaxCap = 3
    EpochLength = 3
    MaxHeight = 9
INVARIANTS
    TypeOK
    EnabledHasOneRegularRebalance
    AtMostOneCallbackPerBlock
    CapChangeIsRebalanced
    NoOverdueTask
    OnlyContractsRegistered
    TotalCapRespected
PROPERTIES
    RebalanceNotPostponed
    EnabledIsRebalanced
    ImplementsClock
