SPECIFICATION Spec
CONSTANTS
    Precision = 10
    Contracts <- MCContracts
    Others <- MCOthers
    ShareAmounts <- MCShareAmounts
    SlashAmounts <- MCSlashAmounts
    MaxSlashes = 2
INVARIANTS
    ReportIsLossUpToMoves
