----------------------------- MODULE SpiMachine -----------------------------
(***************************************************************************)
(* The SPI master of modules/migen/spimachine.py, one clock edge at a      *)
(* time, with a device that listens to it.                                 *)
(*                                                                         *)
(* Three state machines run side by side: the one that walks through a     *)
(* transfer, a clock generator that times its half cycles, and a shift     *)
(* register.  They talk through registers, so each learns of the others a  *)
(* cycle late.  The clock generator is started by a signal that has to be  *)
(* taken back in time, or it wraps and counts for ever.                    *)
(*                                                                         *)
(* The settings are fixed during a behaviour.  MigenSPI drives start and   *)
(* data from registers that may change at every edge.                      *)
(***************************************************************************)
EXTENDS Integers, Sequences

CONSTANTS DataWidth,   \* bits of a word ("data_width")
          DivSpan,     \* 2^width of the clock generator's counter
          Divs,        \* the values of "clock_div" considered
          HalfCycles,  \* the numbers of leading, trailing and idle half cycles
          NoWord       \* no word was loaded yet

Places == 0..(DataWidth - 1)
Words  == [Places -> {0, 1}]

SpiConstantsFit ==
    /\ DataWidth \in Nat \ {0}
    /\ DivSpan \in Nat \ {0, 1}
    /\ Divs \subseteq 0..(DivSpan - 1)
    /\ HalfCycles \subseteq Nat
    /\ NoWord \notin Words

Settings == [phase : BOOLEAN, lsbFirst : BOOLEAN, div : Divs,
             leading : HalfCycles, trailing : HalfCycles, idle : HalfCycles]

VARIABLES
    conf,              \* the arguments of SPIMachine, and reg.lsb_first
    \* SPIMachine
    state, counter,    \* the state machine, half cycles or bits to go
    cgStart,           \* cg.start
    \* ClockGen
    cgState, cgCounter,
    \* Register
    srCurrent, sdo,
    \* the device, and history
    got,               \* the bits received since the device was selected
    word,              \* the word in transfer
    elapsed,           \* cycles since the machine left its idle state
    age, fresh         \* cycles since MOSI changed or was sampled, and which

machine == <<state, counter, cgStart>>
cg      == <<cgState, cgCounter>>
reg     == <<srCurrent, sdo>>
spiVars == <<conf, machine, cg, reg, got, word, elapsed, age, fresh>>

-----------------------------------------------------------------------------
(* ClockGen.                                                               *)

Done == cgCounter = 0 /\ ~cgStart

\* (Mutant) One cycle less is counted.
CgReloadShort == (conf.div - 2) % DivSpan
\* (Mutant) The counter has no width.
CgReloadUncut == conf.div - 1
CgReload == (conf.div - 1) % DivSpan

ClockGen ==
    \/ /\ cgState = "IDLE"
       /\ IF cgStart
          THEN cgState' = "COUNTING" /\ cgCounter' = CgReload
          ELSE UNCHANGED cg
    \/ /\ cgState = "COUNTING"
       /\ IF Done
          THEN cgState' = "IDLE" /\ UNCHANGED cgCounter
          ELSE cgCounter' = (cgCounter - 1) % DivSpan /\ UNCHANGED cgState

-----------------------------------------------------------------------------
(* Register.                                                               *)

SrNext ==
    [i \in Places |-> IF conf.lsbFirst
                      THEN IF i = DataWidth - 1 THEN 0 ELSE srCurrent[i + 1]
                      ELSE IF i = 0 THEN 0 ELSE srCurrent[i - 1]]

\* (Mutant) sdo is loaded without regard to the order.
FirstPlaceHigh == DataWidth - 1
\* The place that is sent first.
FirstPlace == IF conf.lsbFirst THEN 0 ELSE DataWidth - 1

Register(init, shift, pdo) ==
    /\ srCurrent' = IF shift THEN SrNext ELSE IF init THEN pdo ELSE srCurrent
    /\ sdo' = IF shift THEN SrNext[FirstPlace]
              ELSE IF init THEN pdo[FirstPlace] ELSE sdo

-----------------------------------------------------------------------------
(* SPIMachine: its outputs, and one action per state.                      *)

Cs(s) == s \in {"LEADING", "1ST", "2ND", "TRAILING"}

\* (Mutant) The clock phases are exchanged.
ClkSwapped(s, c) ==
    \/ s = "1ST" /\ ~conf.phase /\ c > 0
    \/ s = "2ND" /\ conf.phase
Clk(s, c) ==
    \/ s = "1ST" /\ conf.phase /\ c > 0
    \/ s = "2ND" /\ ~conf.phase

Goto(next, count, start) ==
    /\ state' = next
    /\ counter' = count
    /\ cgStart' = start

Stay == UNCHANGED <<state, counter>> /\ cgStart' = FALSE

\* One half cycle of several that differ in nothing: the next one, if any,
\* starts when it is over.
NextHalfCycle == Goto(state, counter - 1, counter > 1)

\* With the second clock phase there is a leading half cycle in any case.
LeadingHalfCycles ==
    IF conf.phase /\ conf.leading = 0 THEN 1 ELSE conf.leading

Idle(start) ==
    /\ state = "IDLE"
    /\ IF start
       THEN Goto("LEADING", LeadingHalfCycles, LeadingHalfCycles > 0)
       ELSE Stay
    /\ Register(FALSE, FALSE, srCurrent)

Wait(over) ==
    IF over THEN NextHalfCycle ELSE Stay

Leading(data) ==
    /\ state = "LEADING"
    /\ IF counter = 0 THEN Goto("1ST", DataWidth, TRUE) ELSE Wait(Done)
    /\ Register(counter = 0, FALSE, data)

FirstHalf ==
    /\ state = "1ST"
    /\ IF counter = 0
       THEN Goto("TRAILING", conf.trailing, conf.trailing > 0)
       ELSE IF Done THEN Goto("2ND", counter, TRUE) ELSE Stay
    /\ Register(FALSE, FALSE, srCurrent)

SecondHalf ==
    /\ state = "2ND"
    /\ IF Done THEN Goto("1ST", counter - 1, counter > 1) ELSE Stay
    /\ Register(FALSE, Done, srCurrent)

Trailing ==
    /\ state = "TRAILING"
    /\ IF counter = 0
       THEN Goto("IDLE_HALFCYCLES", conf.idle, conf.idle > 0)
       ELSE Wait(Done)
    /\ Register(FALSE, FALSE, srCurrent)

IdleHalfCycles ==
    /\ state = "IDLE_HALFCYCLES"
    /\ IF counter = 0 THEN Goto("IDLE", 0, FALSE) ELSE Wait(Done)
    /\ Register(FALSE, FALSE, srCurrent)

-----------------------------------------------------------------------------
(* The device samples MOSI at the edge of the clock that its mode says:    *)
(* the rising one, or with the second clock phase the falling one.         *)

Sampling ==
    /\ Cs(state) /\ Cs(state')
    /\ Clk(state, counter) = conf.phase
    /\ Clk(state', counter') = ~conf.phase

Device ==
    /\ got' = IF ~Cs(state) /\ Cs(state') THEN <<>>
              ELSE IF Sampling THEN Append(got, sdo') ELSE got
    /\ word' = IF ~Cs(state) /\ Cs(state') THEN NoWord
               ELSE IF state = "LEADING" /\ state' = "1ST" THEN srCurrent' ELSE word

Cycles == IF conf.div = 0 THEN DivSpan ELSE conf.div

History ==
    /\ elapsed' = IF state = "IDLE" THEN 0 ELSE elapsed + 1
    /\ age' = IF Sampling \/ sdo' # sdo THEN 0 ELSE IF age > Cycles THEN age ELSE age + 1
    /\ fresh' = (sdo' # sdo \/ (fresh /\ ~Sampling))

Step == ClockGen /\ Device /\ History /\ UNCHANGED conf

-----------------------------------------------------------------------------

SpiRegisters ==   \* after power-on
    /\ state = "IDLE"
    /\ counter = 0
    /\ cgStart = FALSE
    /\ cgState = "IDLE"
    /\ cgCounter = 0
    /\ srCurrent = [i \in Places |-> 0]
    /\ sdo = 0
    /\ got = <<>>
    /\ word = NoWord
    /\ elapsed = 0
    /\ age = 0
    /\ fresh = FALSE

SpiInit == conf \in Settings /\ SpiRegisters

SpiNext ==
    \/ \E start \in BOOLEAN : Idle(start) /\ Step
    \/ \E data \in Words : Leading(data) /\ Step
    \/ FirstHalf /\ Step
    \/ SecondHalf /\ Step
    \/ Trailing /\ Step
    \/ IdleHalfCycles /\ Step

SpiSpec == SpiInit /\ [][SpiNext]_spiVars

-----------------------------------------------------------------------------
(* Properties.                                                             *)

SpiTypeOK ==
    /\ conf \in Settings
    /\ state \in {"IDLE", "LEADING", "1ST", "2ND", "TRAILING", "IDLE_HALFCYCLES"}
    /\ counter \in Nat
    /\ cgStart \in BOOLEAN
    /\ cgState \in {"IDLE", "COUNTING"}
    /\ cgCounter \in 0..(DivSpan - 1)
    /\ srCurrent \in Words
    /\ sdo \in {0, 1}
    /\ got \in Seq({0, 1})
    /\ word \in Words \cup {NoWord}
    /\ elapsed \in Nat
    /\ age \in Nat
    /\ fresh \in BOOLEAN

(* A transfer takes its half cycles, of clock_div + 1 cycles each, and     *)
(* four cycles for the transitions without one: never longer, and no       *)
(* shorter when it is over (spimachine.py:122).                            *)
Length ==
    (LeadingHalfCycles + 2 * DataWidth + conf.trailing + conf.idle) * (Cycles + 1) + 4

InTime ==
    /\ elapsed <= Length
    /\ state = "IDLE" /\ elapsed > 0 => elapsed = Length

(* MOSI is steady for a whole half cycle before the device samples it,     *)
(* while it does, and for a whole half cycle after that, with either clock *)
(* phase (spimachine.py:182 and 204).                                      *)
SetupAndHold ==
    [][/\ Sampling => age >= Cycles /\ sdo' = sdo
       /\ sdo' # sdo /\ ~fresh /\ Len(got) > 0 => age >= Cycles]_spiVars

(* The device receives the word that was in the data register when the     *)
(* leading half cycles ended, each bit once and in order, and is released  *)
(* after the last bit; starts during a transfer change nothing             *)
(* (spimachine.py:77 and 131-260).                                         *)
Frame == INSTANCE SpiFrame WITH selected <- Cs(state), lsbFirst <- conf.lsbFirst
ImplementsFrame == Frame!Spec
=============================================================================
