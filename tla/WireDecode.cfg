SPECIFICATION Spec
CONSTANTS
    VarintBits = 5
    WordBits = 12
    Int32Bits = 8
    Strings <- MCStrings
    Ints <- MCInts
    Numbers <- MCNumbers
    MaxEntries = 2
INVARIANTS
    DecodeIsLastWrite
    TruncationDetected
    RoundTrip
