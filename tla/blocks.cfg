SPECIFICATION BlocksSpec
CONSTANTS
    Period = 63
    CountSpan = 64
    HighAfterOn = TRUE
    FirstOffset = 0
    DataWidth = 3
    DivSpan = 4
    Divs = {0, 1, 2}
    HalfCycles = {0, 1, 2}
    NoWord = NoWord
    CounterSpan = 8
    CounterSettings = {0, 1, 2, 3, 6, 7}
    Span = 4
    Inputs <- SomeInputs
    Gains <- SomeGains
INVARIANT TypeOK
INVARIANT PulseEveryPeriod
INVARIANT BlocksTypeOK
INVARIANT StopsAtStop
INVARIANT OutIsExact
INVARIANT InTime
PROPERTY CarryMarksWraps
PROPERTY SetupAndHold
PROPERTY ImplementsFrame
