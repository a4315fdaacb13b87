SPECIFICATION Spec
CONSTANTS
    c1 = c1
    c2 = c2
    cl1 = cl1
    BadAddress = "no address"
    Contracts <- MCContracts
    CapAmounts <- MCCapAmounts
    Amounts <- MCAmounts
    TotalContractsMaxCap = 2
    Clients <- MCClients
    MaxHeight = 3
    MaxMsgs = 3
    MaxTxs = 2
SYMMETRY Symmetry
INVARIANTS
    ListCoversVirtualSupply
    RoomIsExact
