SPECIFICATION FairSpec
CONSTANTS
    Contracts <- MCContracts
    Validators <- OneValidator
    EpochLength = 2
    CallbackEdits <- SomeEdits
    MaxHeight = 4
INVARIANTS
    TypeOK
    RestartLosesOnlyLateEvents
    StaleOnlyIfMissed
PROPERTIES
    ModificationArrives
