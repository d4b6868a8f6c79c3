SPECIFICATION FairSpec
CONSTANTS
    BodyLength <- MCBodyLength
    FlagLen = 2
    LenBase = 3
    compress = TRUE
INVARIANTS
    TypeOK
    DecodedIsPrefix
    NoDecodeError
    CleanEndBoundary
PROPERTIES
    AllDecoded
    StreamEnds
CHECK_DEADLOCK FALSE
