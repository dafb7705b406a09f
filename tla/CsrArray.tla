------------------------------ MODULE CsrArray ------------------------------
(***************************************************************************)
(* An array register, one clock edge at a time, together with the loops of *)
(* the board's server that read and write it.                              *)
(*                                                                         *)
(* A register with a depth is a memory behind ONE bus word (register.py).  *)
(* The word's least significant bit says what a bus write means:           *)
(*    2*i + 1   select cell i; the gateware then copies the cell's value   *)
(*              into the word, "delay" cycles later                        *)
(*    2*v       store v in the selected cell                               *)
(* read_values and write_values (server.c) alternate an index access and a *)
(* data access for every element, and treat lists of fewer than two        *)
(* elements as a plain register access.                                    *)
(*                                                                         *)
(* The bus is slow: at least BusGap clock cycles separate two accesses of  *)
(* the server.  Nothing in the gateware makes the server wait.             *)
(***************************************************************************)
EXTENDS Integers

CONSTANTS Depth,     \* cells the memory's address can select ("depth")
          Span,      \* 2^width, the number of values of a cell
          BusGap,    \* least number of clock cycles between two bus accesses
          Readonly,  \* the register is "readonly": the logic writes the cells
          Lengths    \* lengths of the lists the program writes

ASSUME DepthAssumption    == Depth \in Nat /\ Depth > 1
ASSUME SpanAssumption     == Span \in Nat /\ Span > 1
ASSUME BusGapAssumption   == BusGap \in Nat
ASSUME ReadonlyAssumption == Readonly \in BOOLEAN
ASSUME LengthsAssumption  == Lengths \subseteq 0..Depth

Index == 0..(Depth - 1)
Value == 0..(Span - 1)
Word  == 0..(2 * Span - 1)     \* the CSR has one bit more than a cell

VARIABLES
    mem,          \* the memory behind the register
    \* registers of the gateware, all updated at the clock edge
    storage, re,  \* the CSR: its word, and "a bus write was just accepted"
    adr, memadr,  \* ps_port.adr, and the address latched by the memory
    wePipeline,   \* we_pipeline
    csrWe,        \* csr_instance.we: copy the memory's output into the word
    datW, portWe, \* ps_port.dat_w and ps_port.we
    \* the server
    op, len, pos, \* what it executes, the number of elements, the next one
    phase,        \* the next bus access of the loop: "index" or "data"
    buf,          \* rw_buffer
    quiet,        \* clock cycles since the last bus access, up to BusGap
    \* history
    seen          \* values the selected cell had since it was selected

csr    == <<storage, re, adr, memadr, wePipeline, csrWe, datW, portWe>>
server == <<op, len, pos, phase, buf>>
vars   == <<mem, csr, server, quiet, seen>>

-----------------------------------------------------------------------------
(* The gateware.                                                           *)

LsbSet(w) == w % 2 = 1
Upper(w) == w \div 2
\* (Mutant) The address is taken from the word with its low bit.
AddressUnshifted(w) == w
Address(w) == Upper(w) % Depth   \* what adr keeps of an index

UpdateIndex == re /\ LsbSet(storage)
\* (Mutant) The low bit is not looked at when a value is stored.
UpdateValueAnyWord == re /\ ~Readonly
UpdateValue == re /\ ~LsbSet(storage) /\ ~Readonly

\* An index wider than a cell loses its upper bits in the CSR.
IndexWord(i) == (2 * i + 1) % (2 * Span)
\* (Mutant) A value is sent without room for the low bit.
ValueWordUnshifted(v) == v
ValueWord(v) == 2 * v
DatR         == mem[memadr]
\* (Mutant) The word is written at once, without the pipeline.
NextCsrWeAtOnce == UpdateIndex
NextCsrWe == wePipeline[1]
PipelineShift == [k \in 0..1 |-> IF k = 0 THEN UpdateIndex ELSE wePipeline[0]]

\* A bus write wins over the gateware's own write of the word.
NextStorage(busWe, busWord) ==
    IF busWe THEN busWord ELSE IF csrWe THEN DatR ELSE storage

\* The cells after an edge: written by the server's port, or by the logic's.
NextMem ==
    IF Readonly
    THEN {mem} \cup {[mem EXCEPT ![i] = v] : i \in Index, v \in Value}
    ELSE {IF portWe THEN [mem EXCEPT ![adr] = datW] ELSE mem}

\* One clock edge, at which the bus writes busWord if busWe.
Edge(busWe, busWord) ==
    /\ storage'    = NextStorage(busWe, busWord)
    /\ re'         = busWe
    /\ adr'        = IF UpdateIndex THEN Address(storage) ELSE adr
    /\ memadr'     = adr
    /\ wePipeline' = PipelineShift
    /\ csrWe'      = NextCsrWe
    /\ datW'       = Upper(storage)
    /\ portWe'     = UpdateValue
    /\ mem'        \in NextMem

BusWrite(w) == Edge(TRUE, w) /\ quiet' = 0
BusRead     == Edge(FALSE, 0) /\ quiet' = 0
BusReady    == quiet >= BusGap

-----------------------------------------------------------------------------
(* The server.                                                             *)

Init ==
    /\ mem \in [Index -> Value]
    /\ storage = 0
    /\ re = FALSE
    /\ adr = 0
    /\ memadr = 0
    /\ wePipeline = [k \in 0..1 |-> FALSE]
    /\ csrWe = FALSE
    /\ datW = 0
    /\ portWe = FALSE
    /\ op = "idle"
    /\ len = 0
    /\ pos = 0
    /\ phase = "index"
    /\ buf = [i \in Index |-> 0]
    /\ quiet = BusGap
    /\ seen = {}

\* A clock cycle without a bus access.
Tick ==
    /\ Edge(FALSE, 0)
    /\ quiet' = IF quiet < BusGap THEN quiet + 1 ELSE BusGap
    /\ seen' = seen \cup {mem'[i] : i \in {pos} \cap Index}
    /\ UNCHANGED server

\* An array is read whole.
StartRead ==
    /\ op = "idle"
    /\ op' = "read"
    /\ len' = Depth
    /\ pos' = 0
    /\ UNCHANGED <<mem, csr, phase, buf, quiet, seen>>

\* The list arrives in the buffer; elements beyond its length are whatever an
\* earlier request left there.
StartWrite ==
    /\ op = "idle"
    /\ ~Readonly
    /\ op' = "write"
    /\ len' \in Lengths
    /\ pos' = 0
    /\ buf' \in [Index -> Value]
    /\ \A i \in Index : i >= len' => buf'[i] = buf[i]
    /\ UNCHANGED <<mem, csr, phase, quiet, seen>>

Advance ==
    /\ pos' = pos + 1
    /\ op' = IF pos + 1 < len THEN op ELSE "idle"
    /\ phase' = "index"
    /\ len' = len

BusIndex ==
    /\ op # "idle"
    /\ len > 1
    /\ phase = "index"
    /\ BusReady
    /\ BusWrite(IndexWord(pos))
    /\ phase' = "data"
    /\ seen' = {mem'[pos]}
    /\ UNCHANGED <<op, len, pos, buf>>

BusFetch ==
    /\ op = "read"
    /\ len > 1
    /\ phase = "data"
    /\ BusReady
    /\ BusRead
    /\ buf' = [buf EXCEPT ![pos] = storage]
    /\ Advance
    /\ UNCHANGED seen

BusStore ==
    /\ op = "write"
    /\ len > 1
    /\ phase = "data"
    /\ BusReady
    /\ BusWrite(ValueWord(buf[pos]))
    /\ Advance
    /\ UNCHANGED <<buf, seen>>

\* Fewer than two elements: the first element of the buffer is written as it
\* is, neither shifted nor preceded by an index.
BusPoke ==
    /\ op = "write"
    /\ len <= 1
    /\ BusReady
    /\ BusWrite(buf[0])
    /\ op' = "idle"
    /\ pos' = len
    /\ UNCHANGED <<len, phase, buf, seen>>

Next == Tick \/ StartRead \/ StartWrite \/ BusIndex \/ BusFetch \/ BusStore \/ BusPoke

Spec == Init /\ [][Next]_vars

-----------------------------------------------------------------------------
(* Properties.                                                             *)

TypeOK ==
    /\ mem \in [Index -> Value]
    /\ storage \in Word
    /\ re \in BOOLEAN
    /\ adr \in Index
    /\ memadr \in Index
    /\ wePipeline \in [0..1 -> BOOLEAN]
    /\ csrWe \in BOOLEAN
    /\ datW \in Value
    /\ portWe \in BOOLEAN
    /\ op \in {"idle", "read", "write"}
    /\ len \in 0..Depth
    /\ pos \in 0..Depth
    /\ phase \in {"index", "data"}
    /\ buf \in [Index -> Value]
    /\ quiet \in 0..BusGap
    /\ seen \subseteq Value

\* The cells with the store that is on its way to the memory.
Cells ==
    IF portWe
    THEN [mem EXCEPT ![adr] = datW]
    ELSE IF UpdateValue THEN [mem EXCEPT ![adr] = Upper(storage)] ELSE mem

(* The value of every element that a read returns is one that the element's *)
(* cell had between the two bus accesses of that element: the copy that the *)
(* gateware makes "delay" cycles after the index arrives is the selected    *)
(* cell's, whatever was selected before and whatever the logic writes.      *)
FetchedValueWasHeld ==
    [][pos' # pos /\ op = "read" => buf'[pos] \in seen]_vars

(* When write_array is done with a list of at least two elements, each of   *)
(* them is in its cell.  Of a single element this cannot be said: it is     *)
(* halved and stored at the last index, or selects one (server.c:337-346).  *)
LongListStored ==
    [][op = "write" /\ op' = "idle" /\ len > 1 =>
          \A i \in 0..(len - 1) : Cells'[i] = buf[i]]_vars

(* What read_array returns is the array: no element is a late copy of       *)
(* another cell, of the index word, or of the value before the last store.  *)
ReadReturnsArray ==
    [][op = "read" /\ op' = "idle" => \A i \in Index : buf'[i] = Cells'[i]]_vars

(* Every operation on the register is, element by element, an operation on  *)
(* an array of cells that has neither an index nor a delay.                 *)
Store == INSTANCE ArrayStore WITH cells <- Cells
ImplementsStore == Store!Spec
=============================================================================
