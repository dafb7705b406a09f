SPECIFICATION Spec
CONSTANTS
    NoThread = NoThread
    Forged = Forged
    Nowhere = Nowhere
    Threads = {t1, t2}
    Regs = {out, adc}
    PlRegs = {adc}
    Vals = {v0, v1}
    Faults = {"short", "crash"}
    MaxFaults = 1
SYMMETRY Symmetry
INVARIANT QuietWhenUnlocked
PROPERTY ImplementsAtomic
