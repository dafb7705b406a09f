SPECIFICATION Spec
CONSTANTS
    Depth = 2
    Span = 4
    BusGap = 4
    Readonly = FALSE
    Lengths = {0, 1, 2}
INVARIANT TypeOK
PROPERTY FetchedValueWasHeld
PROPERTY LongListStored
PROPERTY ReadReturnsArray
PROPERTY ImplementsStore
