SPECIFICATION Spec
CONSTANTS
    BodyLength <- MCBodyLength
    FlagLen = 2
    LenBase = 3
    compress = FALSE
INVARIANT NoDecodeError
CHECK_DEADLOCK FALSE
