SPECIFICATION Spec
CONSTANTS
    old = old
    new = new
    other = other
    Procs = {p1, p2}
    Designs <- DesignSet
    Class <- ClassOf
    Slow <- SlowSet
    Exclusive = FALSE
    MaxCrashes = 0
    None = None
    Partial = Partial
SYMMETRY Symmetry
INVARIANT RunsOwnFiles
