SPECIFICATION Spec
CONSTANTS
    Period = 0
    CountSpan = 4
    Bursts = {1, 3}
INVARIANT PulsesNotLate
