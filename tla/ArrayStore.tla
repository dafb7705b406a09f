----------------------------- MODULE ArrayStore -----------------------------
(***************************************************************************)
(* What an array register promises to the program that reads and writes it *)
(* over the network: an array of cells in which every element access is    *)
(* one atomic step.  read_array fetches the cells in order, write_array    *)
(* stores each element of a list of two or more in the cell of its         *)
(* position.  Nothing else touches the cells.  Of a shorter list nothing   *)
(* is promised but that it changes one cell at most.  CsrArray is shown to *)
(* implement this.                                                         *)
(***************************************************************************)
EXTENDS Integers

CONSTANTS Depth,    \* number of cells
          Span,     \* number of values of a cell
          Lengths   \* lengths of the lists that are written

Index == 0..(Depth - 1)
Value == 0..(Span - 1)

VARIABLES cells,    \* the array
          op,       \* "idle", "read" or "write"
          len,      \* number of elements of the operation
          pos,      \* next element
          buf       \* the elements read so far, or those to be written

vars == <<cells, op, len, pos, buf>>

Init ==
    /\ cells \in [Index -> Value]
    /\ op = "idle"
    /\ len = 0
    /\ pos = 0
    /\ buf = [i \in Index |-> 0]

BeginRead ==
    /\ op = "idle"
    /\ op' = "read"
    /\ len' = Depth
    /\ pos' = 0
    /\ UNCHANGED <<cells, buf>>

BeginWrite ==
    /\ op = "idle"
    /\ op' = "write"
    /\ len' \in Lengths
    /\ pos' = 0
    /\ buf' \in [Index -> Value]
    /\ UNCHANGED cells

Advance ==
    /\ pos' = pos + 1
    /\ op' = IF pos + 1 < len THEN op ELSE "idle"
    /\ len' = len

Fetch ==
    /\ op = "read"
    /\ pos < len
    /\ buf' = [buf EXCEPT ![pos] = cells[pos]]
    /\ Advance
    /\ UNCHANGED cells

Store ==
    /\ op = "write"
    /\ len > 1
    /\ pos < len
    /\ cells' = [cells EXCEPT ![pos] = buf[pos]]
    /\ Advance
    /\ UNCHANGED buf

\* A list of fewer than two elements is no list: one cell may be changed.
Poke ==
    /\ op = "write"
    /\ len <= 1
    /\ op' = "idle"
    /\ pos' = len
    /\ cells' \in {cells} \cup {[cells EXCEPT ![i] = v] : i \in Index, v \in Value}
    /\ UNCHANGED <<len, buf>>

Next == BeginRead \/ BeginWrite \/ Fetch \/ Store \/ Poke

Spec == Init /\ [][Next]_vars
=============================================================================
