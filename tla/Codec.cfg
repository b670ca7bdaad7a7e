SPECIFICATION FairSpec
CONSTANTS
    WordBits = 15
    FieldBits = 8
    Known <- MCKnown
    CodecOf <- MCCodecOf
    Samples <- MCSamples
    NewFields <- MCNewFields
    BadBytes <- MCBadBytes
INVARIANTS
    ReadWithin
    RoundTrip
    CutOffShows
PROPERTY
    ReadEnds
CHECK_DEADLOCK FALSE
