SPECIFICATION Spec
CONSTANTS
    UserOrder <- MCUserOrder
    MaxRuns = 2
INVARIANTS
    TypeOK
    KeysInStep
    UsersIndependent
