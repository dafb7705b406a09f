SPECIFICATION FairSpec
CONSTANTS
    NoThread = NoThread
    Forged = Forged
    Nowhere = Nowhere
    Threads = {t1}
    Regs = {out, adc}
    PlRegs = {adc}
    Vals = {v0}
    Faults = {"late", "torn", "short", "crash", "stop"}
    MaxFaults = 2
INVARIANT TypeOK
PROPERTY AnswersOwnRegister
PROPERTY LockReleased
PROPERTY ServerEnds
