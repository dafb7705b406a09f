--------------------------- MODULE MC_BuildCache ---------------------------
(* Three designs, two of which are versions of one class.                  *)
EXTENDS BuildCache, TLC

CONSTANTS old, new, other   \* the designs

DesignSet == {old, new, other}
ClassOf == [d \in DesignSet |-> IF d = other THEN "B" ELSE "A"]
SlowSet == {new}
Symmetry == Permutations(Procs)
=============================================================================
