SPECIFICATION BurstSpec
CONSTANTS
    Period = 14
    CountSpan = 16
    Bursts = {0, 1, 2, 3}
    Depth = 4
    Samples = {0, 1}
INVARIANT TypeOK
INVARIANT PlaysList
INVARIANT Seamless
PROPERTY ImplementsTrain
