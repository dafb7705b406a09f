-------------------------------- MODULE Awg --------------------------------
(***************************************************************************)
(* The waveform generator of modules/awg.py: a burst generator whose count *)
(* selects the cell of an array register that is the output.  The register *)
(* is reversed, so that the burst, which counts down, plays the program's  *)
(* list from its first sample on.  Every step is one clock edge; the       *)
(* program may store an element at it (ArrayStore).                        *)
(***************************************************************************)
EXTENDS PulseBurst

CONSTANTS Depth,     \* data_depth
          Samples    \* what a sample may be

ASSUME DepthAssumption == Depth \in Nat \ {0} /\ (Depth - 1) \in Bursts

VARIABLES cells,     \* the memory of the register "data"
          adr,       \* the address that its read port has latched
          list,      \* history: the list that the program has set
          cycle,     \* history: cycles since the output of the first sample
          early,     \* history: started in the cycle after a waveform
          again      \* history: at this edge, one waveform follows another
awg     == <<cells, adr, list, cycle, early, again>>
awgVars == <<vars, awg>>

Positions == 0..(Depth - 1)

\* (Mutant) The list is not reversed.
CellStraight(p) == p
Cell(p) == Depth - 1 - p

\* (Mutant) As if there were no pulse for the count of zero.
PulsesOneLess == Depth - 2
Pulses == Depth - 1

Output == cells[adr]

\* The latched address is the count of the cycle before.
ReadPort == adr' = count

Store ==
    \/ UNCHANGED <<cells, list>>
    \/ \E p \in Positions, s \in Samples :
           /\ cells' = [cells EXCEPT ![Cell(p)] = s]
           /\ list' = [list EXCEPT ![p] = s]

Starts == out' /\ (~busy \/ count = 0)

\* How many cycles a waveform takes, each of its samples Period + 2.
Length == Depth * (Period + 2)

History ==
    /\ early' = IF Starts THEN on /\ ~busy ELSE early
    /\ again' = (Starts /\ busy)
    /\ cycle' = IF out /\ count = Pulses THEN (IF early THEN 1 ELSE 0)
                ELSE IF cycle < Length THEN cycle + 1 ELSE cycle

\* The trigger is any of a signal, the software and always_on.
AwgEdge(trigger) ==
    /\ Edge(trigger, FALSE)
    /\ Starts => count' = Pulses
    /\ ReadPort
    /\ Store
    /\ History

AwgInit ==
    /\ Init
    /\ list \in [Positions -> Samples]
    /\ cells = [c \in Positions |-> list[Depth - 1 - c]]
    /\ adr = 0
    /\ cycle = Length
    /\ early = FALSE
    /\ again = FALSE

AwgNext == \E trigger \in BOOLEAN : AwgEdge(trigger)

AwgSpec == AwgInit /\ [][AwgNext]_awgVars

-----------------------------------------------------------------------------
(* Properties.                                                             *)

AwgTypeOK ==
    /\ TypeOK
    /\ cells \in [Positions -> Samples]
    /\ list \in [Positions -> Samples]
    /\ adr \in Positions
    /\ cycle \in 0..Length
    /\ {early, again} \subseteq BOOLEAN

\* The sample that is due: the last one is held when the waveform is over.
Due == IF cycle = Length THEN Depth - 1 ELSE cycle \div (Period + 2)

(* The output goes through the program's list from the first sample to the *)
(* last one, each for Period + 2 cycles, whenever it was triggered and     *)
(* whatever is stored meanwhile; the first sample is a cycle shorter when  *)
(* a trigger comes right after the end of a waveform                       *)
(* (awg.py:95-111, 114-119; register.py:183-185).                          *)
PlaysList == Output = list[Due]

(* A trigger that is high at the end of a waveform starts the next one     *)
(* without a gap, and none starts before the end of the one before: with   *)
(* always_on, the period is that of the list (awg.py:92-94, 118-123).      *)
Seamless == again => cycle = Length - 1
=============================================================================
