-------------------------------- MODULE Daq --------------------------------
(***************************************************************************)
(* The data acquisition of modules/daq.py, one clock edge at a time.       *)
(*                                                                         *)
(* A trigger starts a train of pulses, those of PulseTrain, which the      *)
(* burst generator implements.  The time from a pulse to the next is a     *)
(* bin; the inputs of a bin are summed up, compared and counted, and what  *)
(* the mode asks for is stored at the pulse that ends the bin: in an array *)
(* register, or through the AXI writer in RAM.  Everything passes through  *)
(* registers, so what is stored at a pulse was computed some cycles        *)
(* before.                                                                 *)
(***************************************************************************)
EXTENDS Integers, Sequences, FiniteSets, SequencesExt

CONSTANTS Period,       \* the register sampling_period_cycles
          Factor,       \* the register inverse_factor_sampling_period_cycles
          CountSpan,    \* 2^width of the burst generator's count
          Depth,        \* cells that the memory's address can select
          Lengths,      \* the lengths that the program sets
          Inputs,       \* the values of the input
          DataSpan,     \* 2^data_width
          DataSigned,   \* data_signed
          SampleSpan,   \* 2^max_samples_in_bits
          Threshold,    \* edge_threshold
          Offset,       \* the register "offset"
          Modes,        \* the values of reduce_mode considered
          AreaSpan,     \* samples between the areas of RAM of two AXI ports
          Ports,        \* the values of axi_hp_index considered
          NoPort,       \* data are stored in an array register
          MaxStalls     \* bound: offers of which the bus takes one half only

\* What the data may be.
Lowest == IF DataSigned THEN -(DataSpan \div 2) ELSE 0
Levels == Lowest..(Lowest + DataSpan - 1)

\* Of a register that is zero, PulseBurst makes no PulseTrain.
ASSUME PeriodAssumption  == Period \in Nat \ {0}
\* The factor is a register of its own, so it may not be that of the period.
ASSUME FactorAssumption  == Factor \in Nat
ASSUME SignAssumption    == DataSigned \in BOOLEAN
ASSUME InputsAssumption  == Inputs \subseteq Levels
ASSUME ChoicesAssumption == Modes \subseteq 0..7 /\ Ports \subseteq {NoPort} \cup 0..3
ASSUME AreaAssumption    == AreaSpan \in Nat \ {0}
ASSUME SpansAssumption   == {CountSpan, DataSpan, SampleSpan, Depth} \subseteq Nat \ {0}
ASSUME LevelsAssumption  == {Threshold, Offset} \subseteq Levels
\* The count has one bit more than the length register.
ASSUME LengthsAssumption == \A n \in Lengths : n \in Nat /\ n <= CountSpan

Scale    == 65536     \* of the factor
SumLowest == Lowest * SampleSpan
SumSpan   == DataSpan * SampleSpan
EdgeSpan == 4194304   \* 2^22, the span of edge_count

VARIABLES
    mode, port,           \* reduce_mode, and the design's axi_hp_index
    length,               \* the register "length"
    out, busy, count,     \* pulseburst
    wait, justEnded,
    sum, max, min,        \* sumvalue, value_max and value_min
    samples, edges,       \* count and edge_count
    below,                \* not_above_threshold
    oldsum, average,      \* the pipeline of the average
    value,                \* what is stored
    address,              \* the address in RAM, in units of a sample
    valid, addresses, datas, wrote, stalls,   \* the AXI writer and the bus
    \* history
    bin,                  \* the inputs since the last pulse
    before,               \* the bin before that one, if the generator did not rest between
    offered,              \* in the cycle after a pulse: what its sample should be made of
    asked, taken          \* length and samples of this acquisition

burst == <<out, busy, count, wait, justEnded>>
axi   == <<valid, addresses, datas, wrote, stalls>>
acc   == <<sum, max, min, samples, edges>>
pipe  == <<below, oldsum, average, value, address>>
hist  == <<bin, before, offered, asked, taken>>
vars  == <<mode, port, length, burst, axi, acc, pipe, hist>>

\* The length register counts from zero, and "pulses" once more.
LengthRegister(n) == IF n = 0 THEN 0 ELSE n - 1
\* (Mutants) It is not offset twice; it does not wrap.
PulsesOnce(reg) == reg % CountSpan
PulsesUncut(reg) == reg - 1
Pulses(reg) == (reg - 1) % CountSpan
Registers == {LengthRegister(n) : n \in Lengths}

Train  == INSTANCE PulseTrain WITH Bursts <- {Pulses(r) : r \in Registers}
Writer == INSTANCE AxiWriter

-----------------------------------------------------------------------------
(* The reduction of the input.                                             *)

\* What a register for numbers from "low" on, "span" of them, keeps of x.
Cut(x, low, span) == low + ((x - low) % span)

Larger(a, b)  == IF a > b THEN a ELSE b
Smaller(a, b) == IF a < b THEN a ELSE b

\* A pulse starts a new bin with the input of its own cycle.
Restart(in) ==
    /\ sum' = in
    /\ max' = in
    /\ min' = in
    /\ samples' = 0
    /\ edges' = 0

Rises(in) == below /\ in > Threshold

Accumulate(in) ==
    /\ sum' = Cut(sum + in, SumLowest, SumSpan)
    /\ max' = Larger(max, in)
    /\ min' = Smaller(min, in)
    /\ samples' = (samples + 1) % SampleSpan
    /\ edges' = (edges + (IF Rises(in) THEN 1 ELSE 0)) % EdgeSpan

\* (Mutant) The bins are not separated.
ReduceOn(in) == IF busy THEN Accumulate(in) ELSE UNCHANGED acc
Reduce(in) ==
    IF out THEN Restart(in) ELSE IF busy THEN Accumulate(in) ELSE UNCHANGED acc

Averaged(s) == Cut((s * Factor) \div Scale, Lowest, DataSpan)

Selected(in) ==
    CASE mode = 0 -> average
      [] mode = 1 -> max
      [] mode = 2 -> min
      [] mode = 3 -> in
      [] mode = 4 -> Cut(edges, Lowest, DataSpan)
      [] mode = 5 -> Offset
      [] mode = 6 -> Cut(samples, Lowest, DataSpan)
      [] mode = 7 -> value

\* The memory that all ports share has room for four areas.  The count is
\* cut to that room, and the port's own area is added bit by bit.
Or(a, b) == 2 * Larger(a \div 2, b \div 2) + Larger(a % 2, b % 2)
RamAddress(c) == AreaSpan * Or(port, (c \div AreaSpan) % 4) + (c % AreaSpan)

Pipeline(in) ==
    /\ below' = (in < Threshold)
    /\ oldsum' = sum
    /\ average' = Averaged(oldsum)
    /\ value' = Selected(in)
    /\ address' = IF port = NoPort THEN address ELSE RamAddress(count)

-----------------------------------------------------------------------------
(* What should be stored, and the steps.                                   *)

\* A recursive function, and no fold, so that one can reason about it.
Total(s) == LET t[n \in 0..Len(s)] == IF n = 0 THEN 0 ELSE t[n - 1] + s[n] IN t[Len(s)]

\* What a mode makes of a series of inputs.
Edges(s) == Cardinality({i \in 2..Len(s) : s[i - 1] < Threshold /\ s[i] > Threshold})
Summary(m, s) ==
    CASE m = 0 -> Averaged(Total(s))
      [] m = 1 -> Max(ToSet(s))
      [] m = 2 -> Min(ToSet(s))
      [] m = 3 -> Last(s)
      [] m = 4 -> Edges(s)
      [] m = 5 -> Offset
      [] m = 6 -> Len(s) - 1
      [] m = 7 -> 0

\* The cycles that it takes the inputs to pass through the registers.
Missing(m) == CASE m = 0 -> 3 [] m \in {1, 2, 4, 6} -> 1 [] m \in {3, 5, 7} -> 0

\* What was the bin k cycles before it was s, with b the bin before s; empty
\* if neither of them had begun.
Without(s, k) == IF Len(s) > k THEN SubSeq(s, 1, Len(s) - k) ELSE <<>>
Ago(s, b, k) == IF Len(s) > k THEN Without(s, k) ELSE Without(b, k - Len(s))

\* What has passed through the registers when a sample of the bin s is taken:
\* all but the last inputs of s, or, of a bin not longer than the registers
\* are deep, none of it, but the bin before or its beginning.
Passed(s, b) == Ago(s, b, Missing(mode))

\* What is due for the inputs s, and the value v if there are none.
Due(s, v) == IF s = <<>> THEN v ELSE Summary(mode, s)

\* The place of an acquisition's n-th sample: the last one is at zero.
Place(n) == Pulses(asked) - (n - 1)

Begins == out' /\ (~busy \/ count = 0)

History(in) ==
    /\ bin' = IF out THEN <<in>> ELSE IF busy THEN Append(bin, in) ELSE <<>>
    /\ before' = IF out THEN bin ELSE IF busy THEN before ELSE <<>>
    /\ offered' = IF out /\ port # NoPort /\ bin # <<>> THEN Passed(Append(bin, in), before) ELSE <<>>
    /\ asked' = IF Begins THEN length ELSE asked
    /\ taken' = IF Begins THEN 1 ELSE IF out' THEN taken + 1 ELSE taken

\* One clock edge, besides what the burst generator does.
Logic(in, awReady, wReady) ==
    /\ Reduce(in)
    /\ Pipeline(in)
    /\ Writer!Clock(out /\ port # NoPort)
    /\ Writer!Bus(awReady, wReady, address, [v |-> value, due |-> Due(offered, value), place |-> Place(taken)])
    /\ History(in)
    /\ UNCHANGED <<mode, port, length>>

Init ==
    /\ mode \in Modes
    /\ port \in Ports
    /\ length \in Registers
    /\ Train!Init
    /\ sum = 0 /\ max = 0 /\ min = 0 /\ samples = 0 /\ edges = 0
    /\ below = FALSE
    /\ oldsum = 0
    /\ average = 0
    /\ value = 0
    /\ address = 0
    /\ Writer!Init
    /\ bin = <<>>
    /\ before = <<>>
    /\ offered = <<>>
    /\ asked = length
    /\ taken = 0

Step == \E in \in Inputs, awReady, wReady \in BOOLEAN : Logic(in, awReady, wReady)

Trigger == (Train!Start \/ Train!Continue) /\ count' = Pulses(length) /\ Step
NextPulse == Train!NextPulse /\ Step
CountDown == Train!CountDown /\ Step
End == Train!End /\ Step
Idle == Train!Idle /\ Step

SetLength ==
    /\ length' \in Registers
    /\ UNCHANGED <<mode, port, burst, axi, acc, pipe, hist>>

Next == Trigger \/ NextPulse \/ CountDown \/ End \/ Idle \/ SetLength

Spec == Init /\ [][Next]_vars

-----------------------------------------------------------------------------
(* Properties.                                                             *)

TypeOK ==
    /\ mode \in Modes
    /\ port \in Ports
    /\ {length, asked} \subseteq Registers
    /\ {out, busy, justEnded, below, valid} \subseteq BOOLEAN
    /\ count \in 0..(CountSpan - 1)
    /\ wait \in 0..(Period + 1)
    /\ {sum, oldsum} \subseteq SumLowest..(SumLowest + SumSpan - 1)
    /\ {max, min, average, value} \subseteq Levels
    /\ samples \in 0..(SampleSpan - 1)
    /\ edges \in 0..(EdgeSpan - 1)
    /\ address \in 0..(4 * AreaSpan - 1)
    /\ taken \in 0..CountSpan

(* In an array register, a sample is what the mode makes of all inputs of  *)
(* its bin but the last ones: three of an average, one of extrema and      *)
(* counts, and none of the plain input.  Of a bin that has no more than    *)
(* those, it is what the mode makes of the bin before, as far as that had  *)
(* come by then.  The first sample of an acquisition that follows no other *)
(* has no bin, and is the exception, as is the second, if nothing of its   *)
(* bin has passed.  Samples are stored from the last cell to the first     *)
(* (daq.py:169-202, 227-234).                                              *)
RegisterHoldsBins ==
    port = NoPort /\ out =>
        /\ count % Depth = Place(taken) % Depth
        /\ value = Due(Passed(bin, before), value)

(* In RAM, it is one input more: all but the last two of an average, all   *)
(* of extrema and counts, and of the plain input the one of the pulse.     *)
(* While the bus takes address and data of a sample both or neither, a     *)
(* sample may be lost, but none is written to the place of another, and    *)
(* none outside of the port's own area as long as its place fits into      *)
(* it; one that does not may be in the area of another port                *)
(* (daq.py:243-262, axiwriter.py:55-98).                                   *)
RamHoldsBins ==
    \A i \in 1..Len(wrote) : stalls = 0 =>
        LET w == wrote[i] IN
        /\ w.data.place < AreaSpan => w.at = AreaSpan * port + w.data.place
        /\ w.data.v = w.data.due

(* The averages are those of all inputs of a bin.                          *)
AveragesBin ==
    mode = 0 /\ out /\ bin # <<>> => value = Summary(mode, bin)

(* An acquisition takes as many samples as the length register says, one   *)
(* less than the length that the program sets; of a register that is zero  *)
(* it takes as many as the count can count (daq.py:74-78 and 147).         *)
TakesLength ==
    [][busy /\ wait = 0 /\ count = 0 =>
          taken = IF asked = 0 THEN CountSpan ELSE asked]_vars
=============================================================================
