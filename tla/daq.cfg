SPECIFICATION Spec
CONSTANTS
    Period = 2
    Factor = 16384
    CountSpan = 4
    Depth = 2
    Lengths = {1, 2}
    Inputs <- SignedInputs
    DataSpan = 32
    DataSigned = TRUE
    SampleSpan = 16
    Threshold = 0
    Offset = 7
    Modes = {0, 1, 2, 3, 4, 5, 6, 7}
    AreaSpan = 2
    Ports = {NoPort, 1}
    NoPort = NoPort
    MaxStalls = 1
INVARIANT TypeOK
INVARIANT RegisterHoldsBins
INVARIANT RamHoldsBins
PROPERTY TakesLength
