SPECIFICATION Spec
CONSTANTS
    Sessions = {a, b}
    Nobody = Nobody
    Binaries <- BinariesOnBoard
INVARIANT TypeOK
INVARIANT OneClient
INVARIANT OwnDesign
PROPERTY GetsConnected
CHECK_DEADLOCK FALSE
