SPECIFICATION Spec
CONSTANTS
    v1 = v1
    v2 = v2
    Contracts <- MCContracts
    Validators <- MCValidators
    CapAmounts <- MCCapAmounts
    TotalContractsMaxCap = 2
    MaxValidators = 2
    EpochLength = 3
    Powers <- MCPowers
    InfractionAges <- MCInfractionAges
    SlashAmounts <- MCSlashAmounts
    FirstHeight = 3
    MaxMessages = 2
    MaxHeight = 5
SYMMETRY ValidatorSymmetry
INVARIANTS
    ReportAlwaysBuilt
