---------------------------- MODULE BlocksProofs ----------------------------
(***************************************************************************)
(* Proofs about PulseGen, SpiMachine, Counter and Pid, which share the run *)
(* of MC_Blocks.                                                           *)
(*                                                                         *)
(* PulseGen emits its pulses at the promised times for every period that   *)
(* fits in its counter, the zero and the largest one included.             *)
(*                                                                         *)
(* SpiMachine, for every width of word and counter and all settings: a     *)
(* transfer takes its time, data are steady around the sampling edge, and  *)
(* the device receives the word bit by bit.  The clock generator counts    *)
(* exactly during the half cycles that the machine waits for (Clocked), so *)
(* that the time a transfer has taken and the time ahead of it add up      *)
(* (Timed).                                                                *)
(*                                                                         *)
(* Counter, for every width and all settings: the count stays a whole      *)
(* number of steps before the stop value (AheadOfStop).                    *)
(*                                                                         *)
(* Pid, for every width, gain and input: each stage of the pipeline equals *)
(* the exact value up to a multiple of 2^width (Passed).                   *)
(***************************************************************************)
EXTENDS MC_Blocks, SequenceTheorems, TLAPS

\* Reduction modulo n leaves the numbers below n alone.
LEMMA SmallMod ==
    ASSUME NEW n \in Nat \ {0}, NEW a \in 0..(n - 1)
    PROVE  a % n = a
  OBVIOUS

LEMMA OneLess ==
    ASSUME NEW n \in Int, NEW h \in Int
    PROVE  n * h \in Int /\ (n - 1) * h = n * h - h
  OBVIOUS

LEMMA TimesNat ==
    ASSUME NEW n \in Nat, NEW h \in Nat
    PROVE  n * h \in Nat
  OBVIOUS

-----------------------------------------------------------------------------
(* The pulses.                                                             *)

\* How far the countdown is follows from the time since "on" rose.
CountdownInv ==
    IF HighAfterOn
    THEN /\ carry <=> high \in {0, Period + 2}
         /\ high \in 1..(Period + 1) => count = Period + 1 - high
    ELSE /\ carry <=> high = Period + 1
         /\ high <= Period => count = Period - high
         /\ high = Period + 2 => count = Period

PulsesInv == TypeOK /\ CountdownInv /\ PulseEveryPeriod

\* Without an offset, the first countdown is a full period.
LEMMA FullFirstPeriod ==
    ASSUME FirstOffset = 0
    PROVE  /\ FirstReload = Period
           /\ Period \in Nat /\ CountSpan \in Nat /\ Period < CountSpan
           /\ HighAfterOn \in BOOLEAN
<1>1. Period \in 0..(CountSpan - 1) /\ CountSpan \in Nat \ {0}
  BY PeriodAssumption
<1>2. Period % CountSpan = Period
  BY <1>1, SmallMod
<1> QED
  BY <1>1, <1>2, PeriodAssumption, OptionsAssumption DEF FirstReload

LEMMA PulsesStart ==
    ASSUME FirstOffset = 0, Init
    PROVE  PulsesInv
<1>1. TypeOK
  <2>1. on \in BOOLEAN /\ out \in BOOLEAN
    BY DEF Init, Registers
  <2>2. carry \in BOOLEAN
    BY FullFirstPeriod DEF Init, Registers
  <2>3. count \in 0..(CountSpan - 1)
    BY FullFirstPeriod DEF Init, Registers
  <2>4. high \in 0..(Period + 2)
    BY FullFirstPeriod DEF Init, Registers
  <2> QED
    BY <2>1, <2>2, <2>3, <2>4 DEF TypeOK
<1>2. CountdownInv /\ PulseEveryPeriod
  BY FullFirstPeriod DEF Init, Registers, CountdownInv, PulseEveryPeriod
<1> QED
  BY <1>1, <1>2 DEF PulsesInv

\* A clock edge with the input low prepares for the first pulse, one with
\* the input high counts down or starts again.
LEMMA PulsesStep ==
    ASSUME FirstOffset = 0, PulsesInv, Next
    PROVE  PulsesInv'
<1> USE DEF PulsesInv
<1>1. /\ FirstReload = Period
      /\ Period \in Nat /\ CountSpan \in Nat /\ Period < CountSpan
      /\ HighAfterOn \in BOOLEAN
  BY FullFirstPeriod
<1>2. on' \in BOOLEAN /\ on \in BOOLEAN
  BY DEF Next, TypeOK
<1>3. CASE ~on
  <2>1. ~out' /\ (carry' <=> HighAfterOn) /\ count' = Period /\ high' = 0
    <3>1. ~out' /\ carry' = HighAfterOn /\ count' = FirstReload
      BY <1>3 DEF Next, Clock
    <3>2. high' = 0
      BY <1>3 DEF Next
    <3> QED
      BY <1>1, <3>1, <3>2
  <2>2. out' \in BOOLEAN /\ carry' \in BOOLEAN
    BY <1>1, <1>3 DEF Next, Clock, TypeOK
  <2>3. TypeOK'
    BY <1>1, <1>2, <2>1, <2>2 DEF TypeOK
  <2>4. CountdownInv' /\ PulseEveryPeriod'
    BY <1>1, <2>1 DEF CountdownInv, PulseEveryPeriod
  <2> QED
    BY <2>3, <2>4
<1>4. CASE on /\ carry
  <2>1. /\ out' /\ ~carry' /\ count' = Period
        /\ high' = IF high = Period + 2 THEN 1 ELSE high + 1
    BY <1>4 DEF Next, Clock, Reload
  <2>2. out' \in BOOLEAN /\ carry' \in BOOLEAN
    BY <1>4 DEF Next, Clock, TypeOK
  <2>3. TypeOK'
    BY <1>1, <1>2, <2>1, <2>2 DEF TypeOK
  <2>4. CountdownInv' /\ PulseEveryPeriod'
    BY <1>1, <1>4, <2>1 DEF TypeOK, CountdownInv, PulseEveryPeriod
  <2> QED
    BY <2>3, <2>4
<1>5. CASE on /\ ~carry
  <2>1. /\ ~out' /\ (carry' <=> count = 0)
        /\ count' = IF count = 0 THEN CountSpan - 1 ELSE count - 1
        /\ high' = IF high = Period + 2 THEN 1 ELSE high + 1
    BY <1>5 DEF Next, Clock, Decrement
  <2>2. out' \in BOOLEAN /\ carry' \in BOOLEAN
    BY <1>5 DEF Next, Clock, Decrement, TypeOK
  <2>3. high' \in 0..(Period + 2)
    BY <1>1, <2>1 DEF TypeOK
  <2>4. count' \in 0..(CountSpan - 1)
    BY <1>1, <2>1 DEF TypeOK
  <2>5. TypeOK'
    BY <1>2, <2>2, <2>3, <2>4 DEF TypeOK
  <2>6. CASE HighAfterOn
    BY <1>1, <1>5, <2>1, <2>5, <2>6 DEF TypeOK, CountdownInv, PulseEveryPeriod
  <2>7. CASE ~HighAfterOn
    BY <1>1, <1>5, <2>1, <2>5, <2>7 DEF TypeOK, CountdownInv, PulseEveryPeriod
  <2> QED
    BY <2>6, <2>7
<1> QED
  BY <1>2, <1>3, <1>4, <1>5

LEMMA PulsesInvariance ==
    ASSUME FirstOffset = 0
    PROVE  Spec => []PulsesInv
<1>1. Init => PulsesInv
  BY PulsesStart
<1>2. PulsesInv /\ [Next]_vars => PulsesInv'
  <2>1. PulsesInv /\ UNCHANGED vars => PulsesInv'
    BY DEF vars, PulsesInv, TypeOK, CountdownInv, PulseEveryPeriod
  <2> QED
    BY <2>1, PulsesStep
<1> QED
  BY <1>1, <1>2, PTL DEF Spec

(* The counter never leaves its width, for no period (pulsegen.py:39-67).  *)
THEOREM PulseTypes ==
    ASSUME FirstOffset = 0
    PROVE  Spec => []TypeOK
<1>1. PulsesInv => TypeOK
  BY DEF PulsesInv
<1> QED
  BY <1>1, PulsesInvariance, PTL

(* The pulses come Period + 2 cycles apart, starting at once or after one  *)
(* period, however often the input changes (pulsegen.py:21-67).            *)
THEOREM PulsesInTime ==
    ASSUME FirstOffset = 0
    PROVE  Spec => []PulseEveryPeriod
<1>1. PulsesInv => PulseEveryPeriod
  BY DEF PulsesInv
<1> QED
  BY <1>1, PulsesInvariance, PTL

-----------------------------------------------------------------------------
(* The SPI master.                                                         *)


\* The machine waits for the end of a half cycle.
Waits == state # "IDLE" /\ counter > 0

\* The most half cycles or bits of a state.
Most == CASE state = "LEADING" -> LeadingHalfCycles
          [] state \in {"1ST", "2ND"} -> DataWidth
          [] state = "TRAILING" -> conf.trailing
          [] state = "IDLE_HALFCYCLES" -> conf.idle
          [] OTHER -> 0

Counted == counter <= Most /\ (state = "2ND" => counter > 0)

Clocked ==
    /\ cgState = "COUNTING" => ~cgStart /\ Waits /\ cgCounter < Cycles
    /\ cgState = "IDLE" => cgCounter = 0 /\ (cgStart <=> Waits)

\* Cycles of the current half cycle that are over.
Spent == IF cgState = "COUNTING" THEN Cycles - cgCounter ELSE 0

\* Half cycles that are not over, and transitions without one.
Ahead == CASE state = "LEADING" -> counter + 2 * DataWidth + conf.trailing + conf.idle
           [] state = "1ST" -> 2 * counter + conf.trailing + conf.idle
           [] state = "2ND" -> 2 * counter - 1 + conf.trailing + conf.idle
           [] state = "TRAILING" -> counter + conf.idle
           [] OTHER -> counter

Transitions == CASE state = "LEADING" -> 4
                 [] state \in {"1ST", "2ND"} -> 3
                 [] state = "TRAILING" -> 2
                 [] OTHER -> 1

Timed == IF state = "IDLE" THEN elapsed \in {0, Length}
         ELSE elapsed + Ahead * (Cycles + 1) + Transitions = Length + Spent

\* The data line does not change during a half cycle.
Steady == state \in {"1ST", "2ND"} /\ counter > 0 => age >= Spent

\* The word after k shifts.
Shifted(k) ==
    [i \in Places |-> IF conf.lsbFirst
                      THEN IF i + k < DataWidth THEN word[i + k] ELSE 0
                      ELSE IF i >= k THEN word[i - k] ELSE 0]

Sent ==
    /\ state = "LEADING" => got = <<>> /\ word = NoWord
    /\ state \in {"1ST", "2ND"} =>
          /\ word \in Words
          /\ srCurrent = Shifted(DataWidth - counter)
          /\ sdo = srCurrent[FirstPlace]
          /\ Len(got) = DataWidth - counter + (IF state = "2ND" THEN 1 ELSE 0)
    /\ state = "TRAILING" => Len(got) = DataWidth

IInv == SpiTypeOK /\ Counted /\ Clocked /\ Timed /\ Steady /\ Sent

-----------------------------------------------------------------------------
(* The settings, and the clock generator.                                  *)

LEMMA MinusOneMod ==
    ASSUME NEW n \in Nat \ {0}
    PROVE  (0 - 1) % n = n - 1
<1>1. (0 - 1) = (0 - 1) * n + (n - 1)
  OBVIOUS
<1> QED
  BY <1>1

LEMMA SettingsFit ==
    ASSUME SpiConstantsFit, SpiTypeOK
    PROVE  /\ DataWidth \in Nat \ {0}
           /\ Cycles \in Nat \ {0} /\ Cycles <= DivSpan
           /\ CgReload = Cycles - 1 /\ DivSpan \in Nat
           /\ LeadingHalfCycles \in Nat /\ conf.trailing \in Nat /\ conf.idle \in Nat
           /\ conf.phase \in BOOLEAN /\ conf.lsbFirst \in BOOLEAN
<1>1. /\ conf.phase \in BOOLEAN /\ conf.lsbFirst \in BOOLEAN
      /\ conf.leading \in Nat /\ conf.trailing \in Nat /\ conf.idle \in Nat
      /\ conf.div \in 0..(DivSpan - 1)
      /\ DivSpan \in Nat \ {0, 1}
  BY DEF SpiTypeOK, Settings, SpiConstantsFit
<1>2. Cycles \in Nat \ {0} /\ Cycles <= DivSpan
  BY <1>1 DEF Cycles
<1>3. CgReload = Cycles - 1
  <2>1. CASE conf.div = 0
    <3>1. conf.div - 1 = 0 - 1
      BY <2>1
    <3> QED
      BY <1>1, <2>1, <3>1, MinusOneMod DEF CgReload, Cycles
  <2>2. CASE conf.div # 0
    <3>1. conf.div - 1 \in 0..(DivSpan - 1)
      BY <1>1, <2>2
    <3> QED
      BY <1>1, <2>2, <3>1, SmallMod DEF CgReload, Cycles
  <2> QED
    BY <2>1, <2>2
<1> QED
  BY <1>1, <1>2, <1>3 DEF LeadingHalfCycles, SpiConstantsFit

\* At an edge the clock generator rests, goes on, or has finished.
LEMMA ClockEdge ==
    ASSUME SpiConstantsFit, SpiTypeOK, Clocked, ClockGen
    PROVE  /\ ~Waits => Spent = 0 /\ cgState' = "IDLE" /\ cgCounter' = 0
           /\ Waits /\ ~Done => /\ cgState' = "COUNTING"
                                /\ cgCounter' \in 0..(Cycles - 1)
                                /\ Cycles - cgCounter' = Spent + 1
           /\ Waits /\ Done => Spent = Cycles /\ cgState' = "IDLE" /\ cgCounter' = 0
<1>1. /\ Cycles \in Nat \ {0} /\ Cycles <= DivSpan /\ DivSpan \in Nat
      /\ CgReload = Cycles - 1
      /\ cgCounter \in Nat /\ cgStart \in BOOLEAN /\ cgState \in {"IDLE", "COUNTING"}
  BY SettingsFit DEF SpiTypeOK
<1>2. CASE cgState = "IDLE"
  <2>1. Spent = 0 /\ cgCounter = 0 /\ (cgStart <=> Waits)
    BY <1>1, <1>2 DEF Clocked, Spent
  <2>2. IF cgStart THEN cgState' = "COUNTING" /\ cgCounter' = CgReload ELSE UNCHANGED cg
    BY <1>2 DEF ClockGen
  <2> QED
    BY <1>1, <1>2, <2>1, <2>2 DEF Done, cg
<1>3. CASE cgState = "COUNTING"
  <2>1. ~cgStart /\ Waits /\ cgCounter < Cycles /\ Spent = Cycles - cgCounter
    BY <1>1, <1>3 DEF Clocked, Spent
  <2>2. IF Done THEN cgState' = "IDLE" /\ UNCHANGED cgCounter
        ELSE cgCounter' = (cgCounter - 1) % DivSpan /\ UNCHANGED cgState
    BY <1>3 DEF ClockGen
  <2>3. Done <=> cgCounter = 0
    BY <2>1 DEF Done
  <2>4. ASSUME cgCounter # 0
        PROVE  (cgCounter - 1) % DivSpan = cgCounter - 1
    <3>1. DivSpan \in Nat \ {0} /\ cgCounter - 1 \in 0..(DivSpan - 1)
      BY <1>1, <2>1, <2>4
    <3> QED
      BY <3>1, SmallMod
  <2> QED
    BY <1>1, <1>3, <2>1, <2>2, <2>3, <2>4
<1> QED
  BY <1>1, <1>2, <1>3

-----------------------------------------------------------------------------
(* The machine: at an edge it waits, or turns to the next half cycle.      *)

Waiting == Waits /\ ~Done
Remains == UNCHANGED <<state, counter, srCurrent, sdo>>

Kept == UNCHANGED <<srCurrent, sdo>>
Turns(next, left) == state' = next /\ counter' = left

TurnsFrom(s) ==
    /\ s = "IDLE" => Kept /\ (Turns("IDLE", counter) \/ Turns("LEADING", LeadingHalfCycles))
    /\ s = "LEADING" /\ counter = 0 =>
           Turns("1ST", DataWidth) /\ srCurrent' \in Words /\ sdo' = srCurrent'[FirstPlace]
    /\ s = "1ST" /\ counter = 0 => Kept /\ Turns("TRAILING", conf.trailing)
    /\ s = "1ST" /\ counter > 0 => Kept /\ Turns("2ND", counter)
    /\ s = "2ND" => Turns("1ST", counter - 1) /\ srCurrent' = SrNext /\ sdo' = SrNext[FirstPlace]
    /\ s = "TRAILING" /\ counter = 0 => Kept /\ Turns("IDLE_HALFCYCLES", conf.idle)
    /\ s = "IDLE_HALFCYCLES" /\ counter = 0 => Kept /\ Turns("IDLE", 0)
    /\ s \in {"LEADING", "TRAILING", "IDLE_HALFCYCLES"} /\ counter > 0 =>
           Kept /\ Turns(s, counter - 1)

LEMMA Going ==
    ASSUME NEW next, NEW left, NEW starts, Goto(next, left, starts)
    PROVE  state' = next /\ counter' = left /\ (cgStart' <=> starts)
  BY Zenon DEF Goto

LEMMA Staying ==
    ASSUME Stay
    PROVE  state' = state /\ counter' = counter /\ ~cgStart'
  BY Zenon DEF Stay

LEMMA StartIsBoolean ==
    ASSUME SpiNext
    PROVE  cgStart' \in BOOLEAN
<1>1. ASSUME NEW a, NEW b, cgStart' = (a > b)
      PROVE  cgStart' \in BOOLEAN
  BY <1>1
<1>2. ASSUME Stay
      PROVE  cgStart' \in BOOLEAN
  BY <1>2 DEF Stay
<1>3. ASSUME NEW next, NEW left, NEW a, NEW b,
             Goto(next, left, TRUE) \/ Goto(next, left, FALSE) \/ Goto(next, left, a > b)
      PROVE  cgStart' \in BOOLEAN
  BY Zenon, <1>1, <1>3 DEF Goto
<1>4. ASSUME NEW starts \in BOOLEAN, Idle(starts)
      PROVE  cgStart' \in BOOLEAN
  BY Zenon, <1>2, <1>3, <1>4 DEF Idle
<1>5. ASSUME NEW data \in Words, Leading(data)
      PROVE  cgStart' \in BOOLEAN
  BY Zenon, <1>2, <1>3, <1>5 DEF Leading, Wait, NextHalfCycle
<1>6. ASSUME FirstHalf \/ SecondHalf \/ Trailing \/ IdleHalfCycles
      PROVE  cgStart' \in BOOLEAN
  BY Zenon, <1>2, <1>3, <1>6
     DEF FirstHalf, SecondHalf, Trailing, IdleHalfCycles, Wait, NextHalfCycle
<1> QED
  BY <1>4, <1>5, <1>6 DEF SpiNext

LEMMA MachineEdge ==
    ASSUME SpiConstantsFit, SpiTypeOK, Counted, SpiNext
    PROVE  /\ Waiting => Remains /\ ~cgStart'
           /\ ~Waiting => TurnsFrom(state) /\ (cgStart' <=> Waits')
           /\ Step
<1> DEFINE Edge(s) == /\ state = s
                      /\ Waiting => Remains /\ ~cgStart'
                      /\ ~Waiting => TurnsFrom(s) /\ (cgStart' <=> Waits')
<1>1. /\ counter \in Nat /\ DataWidth \in Nat \ {0}
      /\ LeadingHalfCycles \in Nat /\ conf.trailing \in Nat /\ conf.idle \in Nat
      /\ state \in {"IDLE", "LEADING", "1ST", "2ND", "TRAILING", "IDLE_HALFCYCLES"}
  BY SettingsFit DEF SpiTypeOK
<1>2. ASSUME NEW starts \in BOOLEAN, Idle(starts)
      PROVE  Edge("IDLE")
  <2>1. state = "IDLE" /\ counter = 0 /\ Kept
    BY <1>1, <1>2 DEF Idle, Register, Kept, Counted, Most
  <2>2. \/ Goto("LEADING", LeadingHalfCycles, LeadingHalfCycles > 0)
        \/ Stay
    BY <1>2 DEF Idle
  <2>3. \/ /\ state' = "LEADING" /\ counter' = LeadingHalfCycles
           /\ cgStart' <=> LeadingHalfCycles > 0
        \/ state' = state /\ counter' = counter /\ ~cgStart'
    BY Zenon, <2>2 DEF Goto, Stay
  <2> QED
    BY <1>1, <2>1, <2>3 DEF TurnsFrom, Turns, Waiting, Waits
<1>3. ASSUME NEW data \in Words, Leading(data)
      PROVE  Edge("LEADING")
  <2>1. state = "LEADING" /\ Register(counter = 0, FALSE, data)
    BY <1>3 DEF Leading
  <2>2. CASE counter = 0
    <3>1. Goto("1ST", DataWidth, TRUE)
      BY <1>3, <2>2 DEF Leading
    <3>2. state' = "1ST" /\ counter' = DataWidth /\ cgStart'
      BY Zenon, <3>1 DEF Goto
    <3>3. srCurrent' = data /\ sdo' = data[FirstPlace]
      BY <2>1, <2>2 DEF Register
    <3> QED
      BY <1>1, <2>1, <2>2, <3>2, <3>3 DEF TurnsFrom, Turns, Waiting, Waits
  <2>3. CASE counter > 0
    <3>0. counter # 0
      BY <1>1, <2>3
    <3>1. IF Done THEN Goto(state, counter - 1, counter > 1) ELSE Stay
      BY Zenon, <1>3, <2>1, <3>0 DEF Leading, Wait, NextHalfCycle
    <3>2. IF Done THEN state' = state /\ counter' = counter - 1 /\ (cgStart' <=> counter > 1)
          ELSE state' = state /\ counter' = counter /\ ~cgStart'
      BY Zenon, <3>1, Going, Staying
    <3>3. Kept
      BY <1>1, <2>1, <2>3 DEF Register, Kept
    <3> QED
      BY <1>1, <2>1, <2>3, <3>2, <3>3 DEF TurnsFrom, Turns, Waiting, Waits, Remains, Kept
  <2> QED
    BY <1>1, <2>2, <2>3
<1>4. ASSUME FirstHalf
      PROVE  Edge("1ST")
  <2>1. state = "1ST" /\ Kept
    BY <1>4 DEF FirstHalf, Register, Kept
  <2>2. CASE counter = 0
    <3>1. Goto("TRAILING", conf.trailing, conf.trailing > 0)
      BY <1>4, <2>2 DEF FirstHalf
    <3>2. state' = "TRAILING" /\ counter' = conf.trailing /\ (cgStart' <=> conf.trailing > 0)
      BY Zenon, <3>1 DEF Goto
    <3> QED
      BY <1>1, <2>1, <2>2, <3>2 DEF TurnsFrom, Turns, Waiting, Waits
  <2>3. CASE counter > 0
    <3>0. counter # 0
      BY <1>1, <2>3
    <3>1. IF Done THEN Goto("2ND", counter, TRUE) ELSE Stay
      BY Zenon, <1>4, <2>1, <3>0 DEF FirstHalf
    <3>2. IF Done THEN state' = "2ND" /\ counter' = counter /\ cgStart'
          ELSE state' = state /\ counter' = counter /\ ~cgStart'
      BY Zenon, <3>1, Going, Staying
    <3> QED
      BY <1>1, <2>1, <2>3, <3>2 DEF TurnsFrom, Turns, Waiting, Waits, Remains, Kept
  <2> QED
    BY <1>1, <2>2, <2>3
<1>5. ASSUME SecondHalf
      PROVE  Edge("2ND")
  <2>1. state = "2ND" /\ counter > 0 /\ Register(FALSE, Done, srCurrent)
    BY <1>5 DEF SecondHalf, Counted
  <2>2. IF Done THEN Goto("1ST", counter - 1, counter > 1) ELSE Stay
    BY <1>5 DEF SecondHalf
  <2>3. IF Done THEN state' = "1ST" /\ counter' = counter - 1 /\ (cgStart' <=> counter > 1)
        ELSE state' = state /\ counter' = counter /\ ~cgStart'
    BY Zenon, <2>2, Going, Staying
  <2>4. IF Done THEN srCurrent' = SrNext /\ sdo' = SrNext[FirstPlace] ELSE Kept
    BY <2>1 DEF Register, Kept
  <2> QED
    BY <1>1, <2>1, <2>3, <2>4 DEF TurnsFrom, Turns, Waiting, Waits, Remains, Kept
<1>6. ASSUME Trailing
      PROVE  Edge("TRAILING")
  <2>1. state = "TRAILING" /\ Kept
    BY <1>6 DEF Trailing, Register, Kept
  <2>2. CASE counter = 0
    <3>1. Goto("IDLE_HALFCYCLES", conf.idle, conf.idle > 0)
      BY <1>6, <2>2 DEF Trailing
    <3>2. state' = "IDLE_HALFCYCLES" /\ counter' = conf.idle /\ (cgStart' <=> conf.idle > 0)
      BY Zenon, <3>1 DEF Goto
    <3> QED
      BY <1>1, <2>1, <2>2, <3>2 DEF TurnsFrom, Turns, Waiting, Waits
  <2>3. CASE counter > 0
    <3>0. counter # 0
      BY <1>1, <2>3
    <3>1. IF Done THEN Goto(state, counter - 1, counter > 1) ELSE Stay
      BY Zenon, <1>6, <2>1, <3>0 DEF Trailing, Wait, NextHalfCycle
    <3>2. IF Done THEN state' = state /\ counter' = counter - 1 /\ (cgStart' <=> counter > 1)
          ELSE state' = state /\ counter' = counter /\ ~cgStart'
      BY Zenon, <3>1, Going, Staying
    <3> QED
      BY <1>1, <2>1, <2>3, <3>2 DEF TurnsFrom, Turns, Waiting, Waits, Remains, Kept
  <2> QED
    BY <1>1, <2>2, <2>3
<1>7. ASSUME IdleHalfCycles
      PROVE  Edge("IDLE_HALFCYCLES")
  <2>1. state = "IDLE_HALFCYCLES" /\ Kept
    BY <1>7 DEF IdleHalfCycles, Register, Kept
  <2>2. CASE counter = 0
    <3>1. Goto("IDLE", 0, FALSE)
      BY <1>7, <2>2 DEF IdleHalfCycles
    <3>2. state' = "IDLE" /\ counter' = 0 /\ ~cgStart'
      BY Zenon, <3>1 DEF Goto
    <3> QED
      BY <1>1, <2>1, <2>2, <3>2 DEF TurnsFrom, Turns, Waiting, Waits
  <2>3. CASE counter > 0
    <3>0. counter # 0
      BY <1>1, <2>3
    <3>1. IF Done THEN Goto(state, counter - 1, counter > 1) ELSE Stay
      BY Zenon, <1>7, <2>1, <3>0 DEF IdleHalfCycles, Wait, NextHalfCycle
    <3>2. IF Done THEN state' = state /\ counter' = counter - 1 /\ (cgStart' <=> counter > 1)
          ELSE state' = state /\ counter' = counter /\ ~cgStart'
      BY Zenon, <3>1, Going, Staying
    <3> QED
      BY <1>1, <2>1, <2>3, <3>2 DEF TurnsFrom, Turns, Waiting, Waits, Remains, Kept
  <2> QED
    BY <1>1, <2>2, <2>3
<1>8. Step
  BY DEF SpiNext
<1> HIDE DEF Edge
<1>9. \E s : Edge(s)
  BY <1>2, <1>3, <1>4, <1>5, <1>6, <1>7 DEF SpiNext
<1> QED
  BY <1>8, <1>9 DEF Edge

\* The device samples when the first half of a bit is over.
LEMMA SamplingEdge ==
    ASSUME SpiConstantsFit, SpiTypeOK, Counted, SpiNext
    PROVE  Sampling <=> state = "1ST" /\ counter > 0 /\ Done
<1>1. /\ counter \in Nat /\ conf.phase \in BOOLEAN
      /\ state \in {"IDLE", "LEADING", "1ST", "2ND", "TRAILING", "IDLE_HALFCYCLES"}
      /\ DataWidth \in Nat \ {0}
  BY SettingsFit DEF SpiTypeOK
<1>2. conf' = conf
  BY MachineEdge DEF Step
<1>3. conf.phase => (Sampling <=> /\ Cs(state) /\ Cs(state')
                                  /\ state = "1ST" /\ counter > 0
                                  /\ ~(state' = "1ST" /\ counter' > 0))
  <2>1. ASSUME conf.phase = TRUE
        PROVE  Sampling <=> /\ Cs(state) /\ Cs(state')
                            /\ state = "1ST" /\ counter > 0
                            /\ ~(state' = "1ST" /\ counter' > 0)
    BY Zenon, <1>2, <2>1 DEF Sampling, Clk
  <2> QED
    BY <1>1, <2>1
<1>4. ~conf.phase => (Sampling <=> /\ Cs(state) /\ Cs(state')
                                   /\ state # "2ND" /\ state' = "2ND")
  <2>1. ASSUME conf.phase = FALSE
        PROVE  Sampling <=> Cs(state) /\ Cs(state') /\ state # "2ND" /\ state' = "2ND"
    BY Zenon, <1>2, <2>1 DEF Sampling, Clk
  <2> QED
    BY <1>1, <2>1
<1>5. CASE Waiting
  <2>1. state' = state /\ counter' = counter /\ ~Done
    BY <1>5, MachineEdge DEF Remains, Waiting
  <2> QED
    BY <1>1, <1>3, <1>4, <2>1
<1>6. CASE ~Waiting
  <2>1. TurnsFrom(state) /\ (state = "1ST" /\ counter > 0 => Done)
    BY <1>6, MachineEdge DEF Waiting, Waits
  <2>2. state = "2ND" => counter > 0
    BY DEF Counted
  <2> QED
    BY <1>1, <1>3, <1>4, <2>1, <2>2 DEF TurnsFrom, Turns, Cs
<1> QED
  BY <1>5, <1>6

-----------------------------------------------------------------------------
(* The parts of the invariant, one after the other.                        *)

LEMMA InitInvariant == ASSUME SpiConstantsFit, SpiInit PROVE IInv
<1>1. conf \in Settings /\ SpiRegisters
  BY DEF SpiInit
<1>2. 0 \in 0..(DivSpan - 1)
  BY DEF SpiConstantsFit
<1>3. SpiTypeOK
  BY <1>1, <1>2, EmptySeq DEF SpiRegisters, SpiTypeOK, Words, Places
<1>4. Counted /\ Clocked /\ Timed /\ Steady /\ Sent
  BY <1>1 DEF SpiRegisters, Counted, Most, Clocked, Waits, Timed, Steady, Sent
<1> QED
  BY <1>3, <1>4 DEF IInv

LEMMA KeepsTypes ==
    ASSUME SpiConstantsFit, IInv, SpiNext
    PROVE  SpiTypeOK'
<1> USE DEF IInv
<1>1. /\ Step
      /\ Cycles \in Nat \ {0} /\ Cycles <= DivSpan /\ DivSpan \in Nat
      /\ LeadingHalfCycles \in Nat /\ conf.trailing \in Nat /\ conf.idle \in Nat
      /\ DataWidth \in Nat \ {0}
  BY MachineEdge, SettingsFit
<1>2. conf' \in Settings /\ conf' = conf
  BY <1>1 DEF Step, SpiTypeOK
<1>3. cgState' \in {"IDLE", "COUNTING"} /\ cgCounter' \in 0..(DivSpan - 1)
  <2>1. ~Waits \/ (Waits /\ ~Done) \/ (Waits /\ Done)
    OBVIOUS
  <2>2. ClockGen
    BY <1>1 DEF Step
  <2> QED
    BY <1>1, <2>1, <2>2, ClockEdge
<1>4. FirstPlace \in Places /\ SrNext \in Words
  <2>1. FirstPlace \in Places
    BY <1>1 DEF FirstPlace, Places
  <2>2. srCurrent \in [Places -> {0, 1}]
    BY DEF SpiTypeOK, Words
  <2>3. \A i \in Places : /\ i # DataWidth - 1 => i + 1 \in Places
                          /\ i # 0 => i - 1 \in Places
    BY <1>1 DEF Places
  <2>4. \A i \in Places : SrNext[i] \in {0, 1}
    BY <2>2, <2>3 DEF SrNext
  <2>5. SrNext = [i \in Places |-> SrNext[i]]
    BY DEF SrNext
  <2> QED
    BY <2>1, <2>4, <2>5 DEF Words
<1>5. /\ state' \in {"IDLE", "LEADING", "1ST", "2ND", "TRAILING", "IDLE_HALFCYCLES"}
      /\ counter' \in Nat
      /\ srCurrent' \in Words /\ sdo' \in {0, 1}
  <2>1. /\ counter \in Nat /\ srCurrent \in Words /\ sdo \in {0, 1}
        /\ state \in {"IDLE", "LEADING", "1ST", "2ND", "TRAILING", "IDLE_HALFCYCLES"}
    BY DEF SpiTypeOK
  <2>2. CASE Waiting
    BY <2>1, <2>2, MachineEdge DEF Remains
  <2>3. CASE ~Waiting
    <3>1. TurnsFrom(state)
      BY <2>3, MachineEdge
    <3>2. state = "2ND" => counter > 0
      BY DEF Counted
    <3>3. /\ state' \in {"IDLE", "LEADING", "1ST", "2ND", "TRAILING", "IDLE_HALFCYCLES"}
          /\ counter' \in Nat
      BY <1>1, <2>1, <3>1, <3>2 DEF TurnsFrom, Turns
    <3>4. /\ srCurrent' \in Words
          /\ sdo' = sdo \/ sdo' = srCurrent'[FirstPlace]
      BY <1>4, <2>1, <3>1 DEF TurnsFrom, Kept
    <3> QED
      BY <1>4, <2>1, <3>3, <3>4 DEF Words
  <2> QED
    BY <2>2, <2>3
<1>8. cgStart' \in BOOLEAN
  BY StartIsBoolean
<1>6. got' \in Seq({0, 1}) /\ word' \in Words \cup {NoWord}
  <2>1. got \in Seq({0, 1}) /\ word \in Words \cup {NoWord}
    BY DEF SpiTypeOK
  <2>2. \/ got' = <<>> \/ got' = got \/ got' = Append(got, sdo')
    BY <1>1 DEF Step, Device
  <2>3. word' \in {NoWord, word, srCurrent'}
    BY <1>1 DEF Step, Device
  <2>4. Append(got, sdo') \in Seq({0, 1}) /\ <<>> \in Seq({0, 1})
    BY ONLY <1>5, <2>1, AppendProperties, EmptySeq
  <2> QED
    BY <1>5, <2>1, <2>2, <2>3, <2>4
<1>7. elapsed' \in Nat /\ age' \in Nat /\ fresh' \in BOOLEAN
  BY <1>1 DEF Step, History, SpiTypeOK
<1> QED
  BY <1>2, <1>3, <1>5, <1>6, <1>7, <1>8 DEF SpiTypeOK

LEMMA KeepsCounted ==
    ASSUME SpiConstantsFit, IInv, SpiNext
    PROVE  Counted' /\ Clocked'
<1>1. /\ SpiTypeOK /\ Counted /\ Clocked /\ Step /\ ClockGen /\ conf' = conf
      /\ counter \in Nat /\ DataWidth \in Nat \ {0}
      /\ Cycles \in Nat \ {0}
      /\ LeadingHalfCycles \in Nat /\ conf.trailing \in Nat /\ conf.idle \in Nat
      /\ state \in {"IDLE", "LEADING", "1ST", "2ND", "TRAILING", "IDLE_HALFCYCLES"}
  BY MachineEdge, SettingsFit DEF IInv, Step, SpiTypeOK
<1>2. Cycles' = Cycles /\ LeadingHalfCycles' = LeadingHalfCycles
  BY <1>1 DEF Cycles, LeadingHalfCycles
<1>3. CASE Waiting
  <2>1. UNCHANGED <<state, counter>> /\ cgStart' = FALSE
    BY <1>1, <1>3, MachineEdge DEF Remains
  <2>2. Counted'
    BY <1>1, <1>2, <2>1 DEF Counted, Most
  <2>3. cgState' = "COUNTING" /\ cgCounter' \in 0..(Cycles - 1)
    BY <1>1, <1>3, ClockEdge DEF Waiting
  <2> QED
    BY <1>1, <1>2, <1>3, <2>1, <2>2, <2>3 DEF Clocked, Waiting, Waits
<1>4. CASE ~Waiting
  <2>1. TurnsFrom(state) /\ (state = "2ND" => counter > 0)
    BY <1>1, <1>4, MachineEdge DEF Counted
  <2>2. cgState' = "IDLE" /\ cgCounter' = 0
    BY <1>1, <1>4, ClockEdge DEF Waiting
  <2>3. counter <= Most
    BY <1>1 DEF Counted
  <2>4. Counted'
    BY <1>1, <1>2, <2>1, <2>3 DEF Counted, Most, TurnsFrom, Turns
  <2>5. cgStart' <=> Waits'
    BY <1>1, <1>4, MachineEdge
  <2> QED
    BY <2>2, <2>4, <2>5 DEF Clocked
<1> QED
  BY <1>3, <1>4

\* What is over of a half cycle.
LEMMA SpentFacts ==
    ASSUME SpiConstantsFit, SpiTypeOK, Clocked
    PROVE  Spent \in 0..Cycles /\ (Spent > 0 => Waits)
  BY SettingsFit DEF SpiTypeOK, Clocked, Spent

LEMMA SpentMoves ==
    ASSUME SpiConstantsFit, SpiTypeOK, Counted, Clocked, SpiNext
    PROVE  /\ Waiting => Spent' = Spent + 1
           /\ Waits /\ ~Waiting => Spent = Cycles /\ Spent' = 0
           /\ ~Waits => Spent = 0 /\ Spent' = 0
<1>1. ClockGen /\ conf' = conf
  BY MachineEdge DEF Step
<1>2. Cycles' = Cycles
  BY <1>1 DEF Cycles
<1> QED
  BY <1>1, <1>2, ClockEdge, SettingsFit DEF Waiting, Spent

LEMMA AheadFacts ==
    ASSUME SpiConstantsFit, SpiTypeOK, Counted
    PROVE  Ahead \in Nat /\ Transitions \in 1..4 /\ (Waits => Ahead > 0)
<1>1. /\ counter \in Nat /\ DataWidth \in Nat
      /\ LeadingHalfCycles \in Nat /\ conf.trailing \in Nat /\ conf.idle \in Nat
      /\ state = "2ND" => counter > 0
  BY SettingsFit DEF SpiTypeOK, Counted
<1> QED
  BY <1>1 DEF Ahead, Transitions, Waits

\* Half cycles and transitions end one by one.
LEMMA AheadMoves ==
    ASSUME SpiConstantsFit, SpiTypeOK, Counted, SpiNext, state # "IDLE"
    PROVE  /\ Waiting => state' = state /\ Ahead' = Ahead /\ Transitions' = Transitions
           /\ Waits /\ ~Waiting =>
                 state' # "IDLE" /\ Ahead' = Ahead - 1 /\ Transitions' = Transitions
           /\ ~Waits => Ahead' = Ahead /\ IF state' = "IDLE" THEN Ahead = 0 /\ Transitions = 1
                                          ELSE Transitions' = Transitions - 1
<1>1. /\ counter \in Nat /\ DataWidth \in Nat /\ conf' = conf
      /\ LeadingHalfCycles \in Nat /\ conf.trailing \in Nat /\ conf.idle \in Nat
      /\ state \in {"IDLE", "LEADING", "1ST", "2ND", "TRAILING", "IDLE_HALFCYCLES"}
      /\ state = "2ND" => counter > 0
  BY SettingsFit, MachineEdge DEF SpiTypeOK, Counted, Step
<1>2. CASE Waiting
  <2>1. state' = state /\ counter' = counter
    BY <1>2, MachineEdge DEF Remains
  <2> QED
    BY <1>1, <1>2, <2>1 DEF Waiting, Ahead, Transitions
<1>3. CASE ~Waiting
  <2>1. TurnsFrom(state)
    BY <1>3, MachineEdge
  <2>2. CASE state = "LEADING"
    BY <1>1, <1>3, <2>1, <2>2 DEF TurnsFrom, Turns, Waits, Ahead, Transitions
  <2>3. CASE state = "1ST"
    BY <1>1, <1>3, <2>1, <2>3 DEF TurnsFrom, Turns, Waits, Ahead, Transitions
  <2>4. CASE state = "2ND"
    BY <1>1, <1>3, <2>1, <2>4 DEF TurnsFrom, Turns, Waits, Ahead, Transitions
  <2>5. CASE state = "TRAILING"
    BY <1>1, <1>3, <2>1, <2>5 DEF TurnsFrom, Turns, Waits, Ahead, Transitions
  <2>6. CASE state = "IDLE_HALFCYCLES"
    BY <1>1, <1>3, <2>1, <2>6 DEF TurnsFrom, Turns, Waits, Ahead, Transitions
  <2> QED
    BY <1>1, <1>3, <2>2, <2>3, <2>4, <2>5, <2>6
<1> QED
  BY <1>2, <1>3

LEMMA KeepsTimed ==
    ASSUME SpiConstantsFit, IInv, SpiNext
    PROVE  Timed'
<1>1. /\ SpiTypeOK /\ Counted /\ Clocked /\ Timed
      /\ conf' = conf
      /\ elapsed' = IF state = "IDLE" THEN 0 ELSE elapsed + 1
  BY MachineEdge DEF IInv, Step, History
<1>2. Cycles' = Cycles /\ Length' = Length
  BY <1>1 DEF Cycles, Length, LeadingHalfCycles
<1>3. PICK h \in Nat, a \in Nat, b \in 1..4 :
         h = Cycles + 1 /\ a = Ahead /\ b = Transitions
  BY <1>1, AheadFacts, SettingsFit
<1>4. PICK w \in Nat : w = Spent /\ w <= Cycles
  BY <1>1, SpentFacts
<1>5. elapsed \in Nat
  BY <1>1 DEF SpiTypeOK
<1>6. CASE state = "IDLE"
  <2>1. /\ state' = "IDLE" \/ (state' = "LEADING" /\ counter' = LeadingHalfCycles)
        /\ elapsed' = 0
    BY <1>1, <1>6, MachineEdge DEF Waiting, Waits, TurnsFrom, Turns
  <2>2. CASE state' = "IDLE"
    BY <2>1, <2>2 DEF Timed
  <2>3. CASE state' = "LEADING"
    <3>1. Spent' = 0
      BY <1>1, <1>6, SpentMoves DEF Waits
    <3>2. /\ Ahead' = LeadingHalfCycles + 2 * DataWidth + conf.trailing + conf.idle
          /\ Transitions' = 4
      BY <1>1, <2>1, <2>3 DEF Ahead, Transitions
    <3>3. Length = Ahead' * h + 4 /\ Ahead' * h \in Int
      BY <1>1, <1>3, <3>2, SettingsFit DEF Length
    <3>4. 0 + Ahead' * h + 4 = Length + 0
      BY <3>3
    <3> QED
      BY <1>2, <1>3, <2>1, <2>3, <3>1, <3>2, <3>4 DEF Timed
  <2> QED
    BY <2>1, <2>2, <2>3
<1>7. CASE state # "IDLE"
  <2>1. elapsed' = elapsed + 1 /\ elapsed + a * h + b = Length + w
    BY <1>1, <1>3, <1>4, <1>7 DEF Timed
  <2>2. a * h \in Int /\ (a - 1) * h = a * h - h
    BY <1>3, OneLess
  <2>3. Length \in Int
    BY <1>1, SettingsFit DEF Length
  <2>4. CASE Waiting
    <3>1. state' # "IDLE" /\ Ahead' = a /\ Transitions' = b /\ Spent' = w + 1
      BY <1>1, <1>3, <1>4, <1>7, <2>4, AheadMoves, SpentMoves
    <3>2. (elapsed + 1) + a * h + b = Length + (w + 1)
      BY <1>5, <2>1, <2>2, <2>3
    <3> QED
      BY <1>2, <1>3, <2>1, <3>1, <3>2 DEF Timed
  <2>5. CASE Waits /\ ~Waiting
    <3>1. state' # "IDLE" /\ Ahead' = a - 1 /\ Transitions' = b /\ Spent' = 0 /\ w = h - 1
      BY <1>1, <1>3, <1>4, <1>7, <2>5, AheadMoves, SpentMoves, SettingsFit
    <3>2. (elapsed + 1) + (a - 1) * h + b = Length + 0
      BY <1>5, <2>1, <2>2, <2>3, <3>1
    <3> QED
      BY <1>2, <1>3, <2>1, <3>1, <3>2 DEF Timed
  <2>6. CASE ~Waits
    <3>1. Spent' = 0 /\ w = 0 /\ Ahead' = a
      BY <1>1, <1>3, <1>4, <1>7, <2>6, AheadMoves, SpentMoves
    <3>2. CASE state' = "IDLE"
      <4>1. a = 0 /\ b = 1
        BY <1>1, <1>3, <1>7, <2>6, <3>2, AheadMoves
      <4>2. elapsed + 1 = Length
        BY <1>3, <1>5, <2>1, <2>2, <2>3, <3>1, <4>1
      <4> QED
        BY <1>2, <2>1, <3>2, <4>2 DEF Timed
    <3>3. CASE state' # "IDLE"
      <4>1. Transitions' = b - 1
        BY <1>1, <1>3, <1>7, <2>6, <3>3, AheadMoves
      <4>2. (elapsed + 1) + a * h + (b - 1) = Length + 0
        BY <1>3, <1>5, <2>1, <2>2, <2>3, <3>1
      <4> QED
        BY <1>2, <1>3, <2>1, <3>1, <3>3, <4>1, <4>2 DEF Timed
    <3> QED
      BY <3>2, <3>3
  <2> QED
    BY <2>4, <2>5, <2>6 DEF Waiting
<1> QED
  BY <1>6, <1>7

LEMMA KeepsSteady ==
    ASSUME SpiConstantsFit, IInv, SpiNext
    PROVE  Steady'
<1>1. /\ SpiTypeOK /\ Counted /\ Clocked /\ Steady
      /\ age' = IF Sampling \/ sdo' # sdo THEN 0 ELSE IF age > Cycles THEN age ELSE age + 1
  BY MachineEdge DEF IInv, Step, History
<1>2. PICK w \in 0..Cycles : w = Spent
  BY <1>1, SpentFacts
<1>3. age \in Nat /\ counter \in Nat /\ Cycles \in Nat
  BY <1>1, SettingsFit DEF SpiTypeOK
<1>4. CASE Waiting
  <2>1. state' = state /\ counter' = counter /\ sdo' = sdo /\ Spent' = w + 1 /\ ~Done
    BY <1>1, <1>2, <1>4, MachineEdge, SpentMoves DEF Remains, Waiting
  <2>2. ~Sampling
    BY <1>1, <2>1, SamplingEdge
  <2>3. w + 1 <= Cycles
    <3>1. cgCounter' \in 0..(Cycles - 1) /\ Cycles - cgCounter' = w + 1
      BY <1>1, <1>2, <1>4, ClockEdge, MachineEdge DEF Step, Waiting
    <3>2. PICK c \in Nat, d \in Nat : c = Cycles /\ d = cgCounter'
      BY <1>3, <3>1
    <3>3. c - d = w + 1
      BY Zenon, <3>1, <3>2
    <3>4. w \in Int
      BY <1>2, <1>3
    <3>5. w + 1 <= c
      BY ONLY <3>3, <3>4, c \in Nat, d \in Nat
    <3> QED
      BY Zenon, <3>2, <3>5
  <2>4. age' = IF age > Cycles THEN age ELSE age + 1
    BY <1>1, <2>1, <2>2
  <2>5. state \in {"1ST", "2ND"} /\ counter > 0 => age >= w
    BY <1>1, <1>2 DEF Steady
  <2> QED
    BY <1>2, <1>3, <2>1, <2>3, <2>4, <2>5 DEF Steady
<1>5. CASE ~Waiting
  <2>1. Spent' = 0
    BY <1>1, <1>5, SpentMoves DEF Waiting
  <2>2. age' \in Nat
    BY KeepsTypes DEF SpiTypeOK
  <2> QED
    BY <2>1, <2>2 DEF Steady
<1> QED
  BY <1>4, <1>5

-----------------------------------------------------------------------------
(* The word and the device.                                                *)

LEMMA ShiftOnce ==
    ASSUME SpiConstantsFit, SpiTypeOK, NEW k \in Nat, k < DataWidth,
           srCurrent = Shifted(k)
    PROVE  SrNext = Shifted(k + 1)
<1>1. DataWidth \in Nat \ {0}
  BY DEF SpiConstantsFit
<1>2. \A i \in Places : srCurrent[i] = IF conf.lsbFirst
                                       THEN IF i + k < DataWidth THEN word[i + k] ELSE 0
                                       ELSE IF i >= k THEN word[i - k] ELSE 0
  BY DEF Shifted
<1>3. ASSUME NEW i \in Places
      PROVE  SrNext[i] = Shifted(k + 1)[i]
  <2>1. i \in 0..(DataWidth - 1)
    BY DEF Places
  <2>2. CASE conf.lsbFirst
    <3>1. SrNext[i] = IF i = DataWidth - 1 THEN 0 ELSE srCurrent[i + 1]
      BY <2>2 DEF SrNext
    <3>2. Shifted(k + 1)[i] = IF i + (k + 1) < DataWidth THEN word[i + (k + 1)] ELSE 0
      BY <2>2 DEF Shifted
    <3>3. CASE i = DataWidth - 1
      BY <1>1, <3>1, <3>2, <3>3
    <3>4. CASE i # DataWidth - 1
      <4>1. i + 1 \in Places /\ (i + 1) + k = i + (k + 1)
        BY <1>1, <2>1, <3>4 DEF Places
      <4>2. srCurrent[i + 1] = IF (i + 1) + k < DataWidth THEN word[(i + 1) + k] ELSE 0
        BY <1>2, <2>2, <4>1
      <4> QED
        BY <3>1, <3>2, <3>4, <4>1, <4>2
    <3> QED
      BY <3>3, <3>4
  <2>3. CASE ~conf.lsbFirst
    <3>1. SrNext[i] = IF i = 0 THEN 0 ELSE srCurrent[i - 1]
      BY <2>3 DEF SrNext
    <3>2. Shifted(k + 1)[i] = IF i >= k + 1 THEN word[i - (k + 1)] ELSE 0
      BY <2>3 DEF Shifted
    <3>3. CASE i = 0
      BY <3>1, <3>2, <3>3
    <3>4. CASE i # 0
      <4>1. i - 1 \in Places /\ (i - 1) - k = i - (k + 1) /\ (i - 1 >= k <=> i >= k + 1)
        BY <1>1, <2>1, <3>4 DEF Places
      <4>2. srCurrent[i - 1] = IF i - 1 >= k THEN word[(i - 1) - k] ELSE 0
        BY <1>2, <2>3, <4>1
      <4> QED
        BY <3>1, <3>2, <3>4, <4>1, <4>2
    <3> QED
      BY <3>3, <3>4
  <2> QED
    BY <2>2, <2>3
<1>4. /\ SrNext = [i \in Places |-> SrNext[i]]
      /\ Shifted(k + 1) = [i \in Places |-> Shifted(k + 1)[i]]
  BY DEF SrNext, Shifted
<1> QED
  BY <1>3, <1>4

\* The bit that is on the line after k shifts.
LEMMA LineBit ==
    ASSUME SpiConstantsFit, SpiTypeOK, NEW k \in Nat, k < DataWidth
    PROVE  Shifted(k)[FirstPlace] = Frame!Bit(k)
<1>1. DataWidth \in Nat \ {0}
  BY DEF SpiConstantsFit
<1>2. CASE conf.lsbFirst
  <2>1. FirstPlace = 0 /\ 0 \in Places /\ 0 + k = k
    BY <1>1, <1>2 DEF FirstPlace, Places
  <2> QED
    BY <1>2, <2>1 DEF Shifted, Frame!Bit
<1>3. CASE ~conf.lsbFirst
  <2>1. FirstPlace = DataWidth - 1 /\ FirstPlace \in Places /\ DataWidth - 1 >= k
    BY <1>1, <1>3 DEF FirstPlace, Places
  <2> QED
    BY <1>3, <2>1 DEF Shifted, Frame!Bit
<1> QED
  BY <1>2, <1>3

\* A word without a shift is itself.
LEMMA Unshifted ==
    ASSUME SpiConstantsFit, word \in Words
    PROVE  Shifted(0) = word
<1>1. \A i \in Places : i + 0 = i /\ i - 0 = i /\ i >= 0 /\ i < DataWidth
  BY DEF SpiConstantsFit, Places
<1>2. word = [i \in Places |-> word[i]]
  BY DEF Words
<1>3. \A i \in Places : Shifted(0)[i] = word[i]
  BY <1>1 DEF Shifted
<1> QED
  BY <1>2, <1>3 DEF Shifted

LEMMA UnshiftedNext ==
    ASSUME SpiConstantsFit, word' \in Words
    PROVE  Shifted(0)' = word'
<1>1. \A i \in Places : i + 0 = i /\ i - 0 = i /\ i >= 0 /\ i < DataWidth
  BY DEF SpiConstantsFit, Places
<1>2. word' = [i \in Places |-> word'[i]]
  BY DEF Words
<1>3. Shifted(0)' = [i \in Places |-> word'[i]]
  BY <1>1 DEF Shifted
<1> QED
  BY <1>2, <1>3

\* What the device notices of an edge.
LEMMA DeviceEdge ==
    ASSUME SpiConstantsFit, SpiTypeOK, Counted, SpiNext
    PROVE  /\ state = "IDLE" /\ state' = "LEADING" => got' = <<>> /\ word' = NoWord
           /\ state = "LEADING" /\ state' = "1ST" => got' = got /\ word' = srCurrent'
           /\ state = "1ST" /\ state' = "2ND" => got' = Append(got, sdo) /\ word' = word
           /\ ~(\/ state = "IDLE" /\ state' = "LEADING"
                \/ state = "LEADING" /\ state' = "1ST"
                \/ state = "1ST" /\ state' = "2ND") => got' = got /\ word' = word
<1>1. /\ counter \in Nat
      /\ state \in {"IDLE", "LEADING", "1ST", "2ND", "TRAILING", "IDLE_HALFCYCLES"}
      /\ state = "2ND" => counter > 0
  BY DEF SpiTypeOK, Counted
<1>2. /\ Waiting => state' = state /\ sdo' = sdo
      /\ ~Waiting => TurnsFrom(state)
  BY MachineEdge DEF Remains
<1>3. Device /\ (Sampling <=> state = "1ST" /\ counter > 0 /\ Done)
  BY MachineEdge, SamplingEdge DEF Step
<1>4. Sampling <=> state = "1ST" /\ state' = "2ND"
  BY <1>1, <1>2, <1>3 DEF Waiting, Waits, TurnsFrom, Turns
<1>5. state = "1ST" /\ state' = "2ND" => sdo' = sdo
  BY <1>1, <1>2 DEF TurnsFrom, Turns, Kept
<1>6. ~Cs(state) /\ Cs(state') <=> state = "IDLE" /\ state' = "LEADING"
  BY <1>1, <1>2 DEF Cs, TurnsFrom, Turns
<1> QED
  BY <1>3, <1>4, <1>5, <1>6 DEF Device

LEMMA KeepsSent ==
    ASSUME SpiConstantsFit, IInv, SpiNext
    PROVE  Sent'
<1>1. /\ SpiTypeOK /\ Counted /\ Sent
      /\ conf' = conf /\ counter \in Nat /\ DataWidth \in Nat \ {0}
      /\ got \in Seq({0, 1}) /\ Len(got) \in Nat
      /\ state \in {"IDLE", "LEADING", "1ST", "2ND", "TRAILING", "IDLE_HALFCYCLES"}
      /\ state = "2ND" => counter > 0
      /\ state \in {"1ST", "2ND"} => counter <= DataWidth
  BY MachineEdge, SettingsFit, LenProperties DEF IInv, Step, SpiTypeOK, Counted, Most
<1>2. FirstPlace' = FirstPlace
  BY <1>1 DEF FirstPlace
<1>3. ASSUME NEW k \in Int, word' = word
      PROVE  Shifted(k)' = Shifted(k)
  BY <1>1, <1>3 DEF Shifted
<1>4. CASE Waiting
  <2>1. UNCHANGED <<state, counter, srCurrent, sdo>>
    BY <1>1, <1>4, MachineEdge DEF Remains
  <2>2. got' = got /\ word' = word
    BY <1>1, <2>1, DeviceEdge
  <2>3. PICK k \in Int : k = DataWidth - counter
    BY <1>1
  <2>4. Shifted(k)' = Shifted(k)
    BY <1>3, <2>2
  <2>5. Shifted(DataWidth - counter)' = Shifted(k)' /\ Shifted(DataWidth - counter) = Shifted(k)
    BY <2>1, <2>3
  <2> QED
    BY <1>1, <1>2, <2>1, <2>2, <2>4, <2>5 DEF Sent
<1>5. CASE ~Waiting
  <2>1. TurnsFrom(state)
    BY <1>1, <1>5, MachineEdge
  <2>2. CASE state \in {"IDLE", "TRAILING", "IDLE_HALFCYCLES"}
    <3>1. state' \in {"IDLE", "LEADING", "TRAILING", "IDLE_HALFCYCLES"}
          /\ (state' = "LEADING" => state = "IDLE")
          /\ (state' = "TRAILING" => state = "TRAILING")
      BY <1>1, <2>1, <2>2 DEF TurnsFrom, Turns
    <3>2. /\ state' = "LEADING" => got' = <<>> /\ word' = NoWord
          /\ state' = "TRAILING" => got' = got
      BY <1>1, <3>1, DeviceEdge
    <3> QED
      BY <1>1, <3>1, <3>2 DEF Sent
  <2>3. CASE state = "LEADING" /\ counter > 0
    <3>1. state' = "LEADING"
      BY <2>1, <2>3 DEF TurnsFrom, Turns
    <3>2. got' = got /\ word' = word
      BY <1>1, <2>3, <3>1, DeviceEdge
    <3> QED
      BY <1>1, <2>3, <3>1, <3>2 DEF Sent
  <2>4. CASE state = "LEADING" /\ counter = 0
    <3>1. /\ state' = "1ST" /\ counter' = DataWidth
          /\ srCurrent' \in Words /\ sdo' = srCurrent'[FirstPlace]
      BY <2>1, <2>4 DEF TurnsFrom, Turns
    <3>2. got' = got /\ word' = srCurrent' /\ got = <<>>
      BY <1>1, <2>4, <3>1, DeviceEdge DEF Sent
    <3>3. Shifted(0)' = word'
      BY <1>1, <3>1, <3>2, UnshiftedNext
    <3>4. Shifted(DataWidth - counter)' = Shifted(0)'
      BY <1>1, <3>1
    <3>5. Len(got') = 0
      BY <3>2
    <3> QED
      BY <1>1, <1>2, <3>1, <3>2, <3>3, <3>4, <3>5 DEF Sent
  <2>5. CASE state = "1ST" /\ counter = 0
    <3>1. state' = "TRAILING"
      BY <2>1, <2>5 DEF TurnsFrom, Turns
    <3>2. got' = got /\ Len(got) = DataWidth
      BY <1>1, <2>5, <3>1, DeviceEdge DEF Sent
    <3> QED
      BY <3>1, <3>2 DEF Sent
  <2>6. CASE state = "1ST" /\ counter > 0
    <3>1. state' = "2ND" /\ counter' = counter /\ srCurrent' = srCurrent /\ sdo' = sdo
      BY <2>1, <2>6 DEF TurnsFrom, Turns, Kept
    <3>2. got' = Append(got, sdo) /\ word' = word
      BY <1>1, <2>6, <3>1, DeviceEdge
    <3>3. Len(got') = Len(got) + 1
      BY <1>1, <3>2, AppendProperties DEF SpiTypeOK
    <3>4. PICK k \in Int : k = DataWidth - counter
      BY <1>1
    <3>5. Shifted(k)' = Shifted(k)
      BY <1>3, <3>2
    <3>6. Shifted(DataWidth - counter)' = Shifted(k)' /\ Shifted(DataWidth - counter) = Shifted(k)
      BY <3>1, <3>4
    <3> QED
      BY <1>1, <1>2, <2>6, <3>1, <3>2, <3>3, <3>5, <3>6 DEF Sent
  <2>7. CASE state = "2ND"
    <3>1. /\ state' = "1ST" /\ counter' = counter - 1
          /\ srCurrent' = SrNext /\ sdo' = SrNext[FirstPlace]
      BY <2>1, <2>7 DEF TurnsFrom, Turns
    <3>2. got' = got /\ word' = word /\ word \in Words
      BY <1>1, <2>7, <3>1, DeviceEdge DEF Sent
    <3>3. PICK k \in Nat : k = DataWidth - counter /\ k < DataWidth
      BY <1>1, <2>7
    <3>4. srCurrent = Shifted(k) /\ Len(got) = k + 1
      BY <1>1, <2>7, <3>3 DEF Sent
    <3>5. SrNext = Shifted(k + 1)
      BY <1>1, <3>3, <3>4, ShiftOnce
    <3>6. PICK n \in Int : n = k + 1
      OBVIOUS
    <3>7. Shifted(n)' = Shifted(n)
      BY <1>3, <3>2
    <3>8. Shifted(DataWidth - counter)' = Shifted(n)'
      BY <1>1, <3>1, <3>3, <3>6
    <3>9. Len(got') = DataWidth - counter'
      BY <1>1, <3>1, <3>2, <3>3, <3>4
    <3> QED
      BY <1>2, <3>1, <3>2, <3>5, <3>6, <3>7, <3>8, <3>9 DEF Sent
  <2> QED
    BY <1>1, <2>2, <2>3, <2>4, <2>5, <2>6, <2>7
<1> QED
  BY <1>4, <1>5

-----------------------------------------------------------------------------
(* The theorems.                                                           *)

LEMMA MachineKeeps ==
    ASSUME SpiConstantsFit, IInv, [SpiNext]_spiVars
    PROVE  IInv'
<1>1. CASE SpiNext
  BY <1>1, KeepsTypes, KeepsCounted, KeepsTimed, KeepsSteady, KeepsSent DEF IInv
<1>2. CASE UNCHANGED spiVars
  <2>1. /\ UNCHANGED <<conf, state, counter, cgStart, cgState, cgCounter, srCurrent, sdo>>
        /\ UNCHANGED <<got, word, elapsed, age, fresh>>
    BY <1>2 DEF spiVars, machine, cg, reg
  <2>2. SpiTypeOK' /\ Counted' /\ Clocked'
    BY <1>2, <2>1 DEF IInv, SpiTypeOK, Counted, Most, LeadingHalfCycles, Clocked, Waits, Cycles
  <2>3. Timed'
    BY <1>2, <2>1 DEF IInv, Timed, Length, LeadingHalfCycles, Ahead, Transitions, Spent, Cycles
  <2>4. Steady' /\ Sent'
    BY <1>2, <2>1 DEF IInv, Steady, Spent, Cycles, Sent, Shifted, FirstPlace
  <2> QED
    BY <2>2, <2>3, <2>4 DEF IInv
<1> QED
  BY <1>1, <1>2

(* The inductive invariant holds for every width of word and counter and   *)
(* all settings (spimachine.py:12-17, 53-68 and 98-260).                   *)
THEOREM Invariant ==
    ASSUME SpiConstantsFit
    PROVE  SpiSpec => []IInv
<1>1. SpiInit => IInv
  BY InitInvariant
<1>2. IInv /\ [SpiNext]_spiVars => IInv'
  BY MachineKeeps
<1> QED
  BY <1>1, <1>2, PTL DEF SpiSpec

(* Every register, and what the device and the history hold, keeps its     *)
(* type (spimachine.py:12-17, 53-68 and 98-116).                           *)
THEOREM SpiTypes ==
    ASSUME SpiConstantsFit
    PROVE  SpiSpec => []SpiTypeOK
<1>1. IInv => SpiTypeOK
  BY DEF IInv
<1> QED
  BY <1>1, Invariant, PTL

(* A transfer takes its half cycles, of clock_div + 1 cycles each, and     *)
(* four cycles: never longer, and no shorter when it is over               *)
(* (spimachine.py:122).                                                    *)
THEOREM TakesItsTime ==
    ASSUME SpiConstantsFit
    PROVE  SpiSpec => []InTime
<1>1. ASSUME IInv
      PROVE  InTime
  <2>1. SpiTypeOK /\ Counted /\ Clocked /\ Timed
    BY <1>1 DEF IInv
  <2>2. PICK c \in Nat, a \in Nat, b \in 1..4, w \in Nat, e \in Nat, l \in Nat :
           /\ c = Cycles /\ a = Ahead /\ b = Transitions /\ w = Spent
           /\ e = elapsed /\ l = Length
           /\ w <= c /\ (w > 0 => a > 0)
    <3>1. Length \in Nat
      <4>1. LeadingHalfCycles + 2 * DataWidth + conf.trailing + conf.idle \in Nat
            /\ Cycles + 1 \in Nat
        BY <2>1, SettingsFit
      <4> QED
        BY <4>1, TimesNat DEF Length
    <3>2. Cycles \in Nat /\ elapsed \in Nat
      BY <2>1, SettingsFit DEF SpiTypeOK
    <3> QED
      BY <2>1, <3>1, <3>2, AheadFacts, SpentFacts
  <2>3. IF state = "IDLE" THEN e \in {0, l} ELSE e + a * (c + 1) + b = l + w
    BY <2>1, <2>2 DEF Timed
  <2>4. a * (c + 1) >= w
    <3>1. CASE a = 0
      BY ONLY <2>2, <3>1, a \in Nat, c \in Nat, w \in Nat
    <3>2. CASE a > 0
      <4>1. (a - 1) * (c + 1) \in Nat /\ (a - 1) * (c + 1) = a * (c + 1) - (c + 1)
        BY ONLY <3>2, a \in Nat, c \in Nat, TimesNat, OneLess, a - 1 \in Nat, c + 1 \in Nat
      <4>2. a * (c + 1) \in Int
        BY ONLY a \in Nat, c \in Nat
      <4> QED
        BY <2>2, <4>1, <4>2
    <3> QED
      BY <3>1, <3>2
  <2>5. e <= l
    <3>1. a * (c + 1) \in Int
      BY ONLY a \in Nat, c \in Nat
    <3> QED
      BY <2>3, <2>4, <3>1
  <2> QED
    BY <2>2, <2>3, <2>5 DEF InTime
<1> QED
  BY <1>1, Invariant, PTL

(* MOSI is steady for a whole half cycle before the device samples it,     *)
(* while it does, and for a whole half cycle after that, with either clock *)
(* phase and every divisor (spimachine.py:182 and 204).                    *)
THEOREM DataAreSteady ==
    ASSUME SpiConstantsFit
    PROVE  SpiSpec => SetupAndHold
<1>1. ASSUME IInv, SpiNext
      PROVE  /\ Sampling => age >= Cycles /\ sdo' = sdo
             /\ sdo' # sdo /\ ~fresh /\ Len(got) > 0 => age >= Cycles
  <2>1. /\ SpiTypeOK /\ Counted /\ Clocked /\ Steady /\ Sent
        /\ counter \in Nat /\ age \in Nat /\ Cycles \in Nat
        /\ state \in {"IDLE", "LEADING", "1ST", "2ND", "TRAILING", "IDLE_HALFCYCLES"}
        /\ state = "2ND" => counter > 0
    BY <1>1, SettingsFit DEF IInv, SpiTypeOK, Counted
  <2>2. Waits /\ ~Waiting => Spent = Cycles
    BY <1>1, <2>1, SpentMoves
  <2>3. /\ Waiting => sdo' = sdo
        /\ ~Waiting => TurnsFrom(state)
    BY <1>1, <2>1, MachineEdge DEF Remains
  <2>4. ASSUME Sampling
        PROVE  age >= Cycles /\ sdo' = sdo
    <3>1. state = "1ST" /\ counter > 0 /\ Done
      BY <1>1, <2>1, <2>4, SamplingEdge
    <3>2. Waits /\ ~Waiting
      BY <3>1 DEF Waits, Waiting
    <3>3. sdo' = sdo
      BY <2>3, <3>1, <3>2 DEF TurnsFrom, Kept
    <3> QED
      BY <2>1, <2>2, <3>1, <3>2, <3>3 DEF Steady
  <2>5. ASSUME sdo' # sdo, Len(got) > 0
        PROVE  age >= Cycles
    <3>1. ~Waiting /\ (state = "2ND" \/ (state = "LEADING" /\ counter = 0))
      BY <2>1, <2>3, <2>5 DEF TurnsFrom, Kept
    <3>2. state # "LEADING"
      <4>1. ASSUME state = "LEADING" PROVE FALSE
        <5>1. got = <<>>
          BY <2>1, <4>1 DEF Sent
        <5> QED
          BY <2>5, <5>1
      <4> QED
        BY <4>1
    <3>3. Waits /\ ~Waiting
      BY <2>1, <3>1, <3>2 DEF Waits
    <3> QED
      BY <2>1, <2>2, <3>1, <3>2, <3>3 DEF Steady
  <2> QED
    BY <2>4, <2>5
<1> QED
  BY <1>1, Invariant, PTL DEF SpiSpec, SetupAndHold

\* An edge is a step of a frame, or nothing that the device sees.
LEMMA EdgeFrame ==
    ASSUME SpiConstantsFit, IInv, SpiNext
    PROVE  [Frame!Next]_Frame!vars
<1>1. /\ SpiTypeOK /\ Counted /\ Sent
      /\ conf' = conf /\ counter \in Nat /\ DataWidth \in Nat \ {0}
      /\ got \in Seq({0, 1}) /\ Len(got) \in Nat
      /\ state \in {"IDLE", "LEADING", "1ST", "2ND", "TRAILING", "IDLE_HALFCYCLES"}
      /\ state = "2ND" => counter > 0
      /\ state \in {"1ST", "2ND"} => counter <= DataWidth
      /\ NoWord \notin Words
  BY MachineEdge, SettingsFit, LenProperties
     DEF IInv, Step, SpiTypeOK, Counted, Most, SpiConstantsFit
<1>2. /\ Waiting => state' = state
      /\ ~Waiting => TurnsFrom(state)
  BY <1>1, MachineEdge DEF Remains
<1>3. Frame!Words = Words
  BY DEF Frame!Words, Words, Places
<1>4. CASE state = "IDLE" /\ state' = "LEADING"
  <2>1. got' = <<>> /\ word' = NoWord
    BY <1>1, <1>4, DeviceEdge
  <2>2. Cs(state) = FALSE /\ Cs(state') = TRUE
    BY <1>4 DEF Cs
  <2>3. Frame!Select
    BY <1>1, <2>1, <2>2 DEF Frame!Select
  <2> QED
    BY <2>3 DEF Frame!Next
<1>5. CASE state = "LEADING" /\ state' = "1ST"
  <2>1. got' = got /\ word' = srCurrent' /\ word = NoWord
    BY <1>1, <1>5, DeviceEdge DEF Sent
  <2>2. srCurrent' \in Words
    BY KeepsTypes DEF SpiTypeOK
  <2>3. Cs(state) = TRUE /\ Cs(state') = TRUE
    BY <1>5 DEF Cs
  <2>4. Frame!Load
    BY <1>1, <1>3, <2>1, <2>2, <2>3 DEF Frame!Load
  <2> QED
    BY <2>4 DEF Frame!Next
<1>6. CASE state = "1ST" /\ state' = "2ND"
  <2>1. got' = Append(got, sdo) /\ word' = word
    BY <1>1, <1>6, DeviceEdge
  <2>2. counter > 0
    BY <1>1, <1>2, <1>6 DEF TurnsFrom, Turns
  <2>3. PICK k \in Nat : k = DataWidth - counter /\ k < DataWidth
    BY <1>1, <1>6, <2>2
  <2>4. /\ word \in Words /\ srCurrent = Shifted(k) /\ sdo = srCurrent[FirstPlace]
        /\ Len(got) = k
    BY <1>1, <1>6, <2>3 DEF Sent
  <2>5. sdo = Frame!Bit(Len(got))
    BY <1>1, <2>3, <2>4, LineBit
  <2>6. Cs(state) = TRUE /\ Cs(state') = TRUE
    BY <1>6 DEF Cs
  <2>7. word # NoWord /\ Len(got) < DataWidth
    BY <1>1, <2>3, <2>4
  <2>8. Frame!Receive
    BY <1>1, <2>1, <2>5, <2>6, <2>7 DEF Frame!Receive
  <2> QED
    BY <2>8 DEF Frame!Next
<1>7. CASE state = "TRAILING" /\ state' = "IDLE_HALFCYCLES"
  <2>1. got' = got /\ word' = word /\ Len(got) = DataWidth
    BY <1>1, <1>7, DeviceEdge DEF Sent
  <2>2. Cs(state) = TRUE /\ Cs(state') = FALSE
    BY <1>7 DEF Cs
  <2>3. Frame!Release
    BY <1>1, <2>1, <2>2 DEF Frame!Release
  <2> QED
    BY <2>3 DEF Frame!Next
<1>8. CASE ~(\/ state = "IDLE" /\ state' = "LEADING"
             \/ state = "LEADING" /\ state' = "1ST"
             \/ state = "1ST" /\ state' = "2ND"
             \/ state = "TRAILING" /\ state' = "IDLE_HALFCYCLES")
  <2>1. got' = got /\ word' = word
    BY <1>1, <1>8, DeviceEdge
  <2>2. Cs(state') = Cs(state)
    <3>1. \/ state' = state
          \/ state \in {"IDLE", "IDLE_HALFCYCLES"} /\ state' \in {"IDLE", "IDLE_HALFCYCLES"}
          \/ state \in {"1ST", "2ND"} /\ state' \in {"1ST", "2ND", "TRAILING"}
      BY <1>1, <1>2, <1>8 DEF TurnsFrom, Turns
    <3> QED
      BY <3>1 DEF Cs
  <2> QED
    BY <1>1, <2>1, <2>2 DEF Frame!vars
<1> QED
  BY <1>4, <1>5, <1>6, <1>7, <1>8

(* The device receives the word that was in the data register when the     *)
(* leading half cycles ended, each bit once and in order, and is released  *)
(* after the last one (spimachine.py:77 and 131-260).                      *)
THEOREM Implements ==
    ASSUME SpiConstantsFit
    PROVE  SpiSpec => ImplementsFrame
<1>1. SpiInit => Frame!Init
  <2>1. ASSUME SpiInit
        PROVE  Cs(state) = FALSE /\ conf.lsbFirst \in BOOLEAN /\ word = NoWord /\ got = <<>>
    BY <2>1 DEF SpiInit, SpiRegisters, Cs, Settings
  <2> QED
    BY <2>1 DEF Frame!Init
<1>2. IInv /\ [SpiNext]_spiVars => [Frame!Next]_Frame!vars
  <2>1. ASSUME UNCHANGED spiVars
        PROVE  UNCHANGED Frame!vars
    BY <2>1 DEF spiVars, machine, Frame!vars, Cs
  <2> QED
    BY <2>1, EdgeFrame
<1> QED
  BY <1>1, <1>2, Invariant, PTL DEF SpiSpec, ImplementsFrame, Frame!Spec

-----------------------------------------------------------------------------
(* The counter: its type invariant.                                        *)

LEMMA CountInSpan == ASSUME CounterConstantsFit, CounterTypeOK
                     PROVE  Count \in 0..(CounterSpan - 1)
  BY DEF CounterConstantsFit, CounterTypeOK, Count

LEMMA AdvanceInSpan == ASSUME CounterConstantsFit, CounterTypeOK
                       PROVE  Advance \in 0..(2 * CounterSpan - 1)
  <1>1. Count \in 0..(CounterSpan - 1)
    BY CountInSpan
  <1> QED
    BY <1>1 DEF CounterConstantsFit, CounterTypeOK, Advance

LEMMA CounterTypesKept == ASSUME CounterConstantsFit, CounterTypeOK, [CounterNext]_counterVars
                       PROVE  CounterTypeOK'
  <1>1. CASE CounterNext
    <2>1. {start', step', stop'} \subseteq 0..(CounterSpan - 1) /\ enable' \in BOOLEAN
      BY <1>1 DEF CounterNext, Program, counterSettings, CounterTypeOK, CounterConstantsFit
    <2>2. value' \in 0..(2 * CounterSpan - 1)
      BY <1>1, AdvanceInSpan DEF CounterNext, CounterClock, CounterTypeOK, CounterConstantsFit
    <2>3. {up', hasStop', reset', steady'} \subseteq BOOLEAN
      BY <1>1 DEF CounterNext, counterOptions, CounterTypeOK
    <2> QED
      BY <2>1, <2>2, <2>3 DEF CounterTypeOK
  <1>2. CASE UNCHANGED counterVars
    BY <1>2 DEF counterVars, counterOptions, counterSettings, CounterTypeOK
  <1> QED
    BY <1>1, <1>2

LEMMA CounterStart == ASSUME CounterConstantsFit, CounterInit
                     PROVE  CounterTypeOK
  <1>1. start \in CounterSettings /\ step \in CounterSettings /\ stop \in CounterSettings /\ value = start
    BY DEF CounterInit
  <1>2. {start, step, stop} \subseteq 0..(CounterSpan - 1)
    BY <1>1 DEF CounterConstantsFit
  <1>3. value \in 0..(2 * CounterSpan - 1)
    BY <1>1, <1>2 DEF CounterConstantsFit
  <1>4. {up, hasStop, enable, reset, steady} \subseteq BOOLEAN
    BY DEF CounterInit
  <1> QED
    BY <1>2, <1>3, <1>4 DEF CounterTypeOK

(* The type invariant holds for every width and all settings               *)
(* (counter.py:36-44).                                                     *)
THEOREM CounterTypes == ASSUME CounterConstantsFit
                       PROVE  CounterSpec => []CounterTypeOK
  <1>1. CounterInit => CounterTypeOK
    BY CounterStart
  <1>2. CounterTypeOK /\ [CounterNext]_counterVars => CounterTypeOK'
    BY CounterTypesKept
  <1> QED
    BY <1>1, <1>2, PTL DEF CounterSpec

-----------------------------------------------------------------------------
(* The carry.                                                              *)

(* The carry marks the edges at which the count passes zero, for every     *)
(* width and step (counter.py:26-27, 40-50).                               *)
THEOREM CarryIsWrap == ASSUME CounterConstantsFit
                       PROVE  CounterSpec => CarryMarksWraps
  <1>1. CounterTypeOK /\ CounterNext /\ enable /\ ~reset /\ ~CounterDone
            => (Carry' <=> IF up THEN Count' < Count ELSE Count' > Count)
    <2> SUFFICES ASSUME CounterTypeOK, CounterNext, enable, ~reset, ~CounterDone
                 PROVE  Carry' <=> IF up THEN Count' < Count ELSE Count' > Count
      OBVIOUS
    <2>1. value' = Advance
      BY DEF CounterNext, CounterClock
    <2>2. Count \in 0..(CounterSpan - 1) /\ step \in 0..(CounterSpan - 1)
      BY CountInSpan DEF CounterTypeOK
    <2>3. CASE up
      <3>1. value' = Count + step
        BY <2>1, <2>3 DEF Advance
      <3> QED
        BY <2>2, <2>3, <3>1 DEF Carry, Count, CounterConstantsFit
    <2>4. CASE ~up
      <3>1. value' = IF Count >= step THEN Count - step ELSE 2 * CounterSpan + Count - step
        BY <2>1, <2>4 DEF Advance
      <3> QED
        BY <2>2, <2>4, <3>1 DEF Carry, Count, CounterConstantsFit
    <2> QED
      BY <2>3, <2>4
  <1>2. CounterSpec => []CounterTypeOK
    BY CounterTypes
  <1> QED
    BY <1>1, <1>2, PTL DEF CounterSpec, CarryMarksWraps

-----------------------------------------------------------------------------
(* The stop value.                                                         *)

\* How far it is to the stop value.
Distance == IF up THEN stop - value ELSE value - stop

\* The stop value is some whole steps ahead.
AheadOfStop == \E m \in Nat : Distance = m * step

\* That the counter has not passed the stop value says too little of where
\* the next step leads.
StartedBefore == IF up THEN start <= value ELSE value <= start
StopInv == steady /\ OnTheWay => StartedBefore /\ AheadOfStop

CounterInv == CounterTypeOK /\ StopInv

LEMMA NotBeyond ==
    ASSUME CounterConstantsFit, CounterTypeOK, AheadOfStop
    PROVE  Distance \in Nat
  <1>1. step \in Nat
    BY DEF CounterTypeOK, CounterConstantsFit
  <1>2. PICK m \in Nat : Distance = m * step
    BY DEF AheadOfStop
  <1> QED
    BY <1>1, <1>2, TimesNat

LEMMA InvStops ==
    ASSUME CounterConstantsFit, CounterInv
    PROVE  StopsAtStop
  <1> SUFFICES ASSUME steady, OnTheWay
               PROVE  value \in (IF up THEN start..stop ELSE stop..start)
    BY DEF StopsAtStop
  <1>1. start \in Nat /\ stop \in Nat /\ value \in Nat
    BY DEF CounterInv, CounterTypeOK, CounterConstantsFit
  <1>2. StartedBefore /\ Distance \in Nat
    BY NotBeyond DEF CounterInv, StopInv
  <1> QED
    BY <1>1, <1>2 DEF StartedBefore, Distance

\* The start value itself is such a place.
LEMMA StartIsAhead ==
    ASSUME CounterConstantsFit, CounterTypeOK, OnTheWay, value = start
    PROVE  StartedBefore /\ AheadOfStop
  <1>1. start \in Nat /\ stop \in Nat /\ step \in Nat
    BY DEF CounterTypeOK, CounterConstantsFit
  <1>2. PICK k \in 0..CounterSpan : IF up THEN stop = start + k * step ELSE start = stop + k * step
    BY DEF OnTheWay
  <1>3. k \in Nat /\ k * step \in Nat
    BY <1>1, TimesNat DEF CounterConstantsFit
  <1>4. Distance = k * step
    BY <1>1, <1>2, <1>3 DEF Distance
  <1> QED
    BY <1>1, <1>3, <1>4 DEF StartedBefore, AheadOfStop

\* A step from a place before the stop value leads to another one.
LEMMA StepStaysAhead ==
    ASSUME CounterConstantsFit, CounterTypeOK, hasStop, StartedBefore, AheadOfStop, ~CounterDone,
           value' = Advance, UNCHANGED <<counterOptions, counterSettings>>
    PROVE  (StartedBefore /\ AheadOfStop)'
  <1>1. start \in 0..(CounterSpan - 1) /\ stop \in 0..(CounterSpan - 1) /\ step \in Nat /\ value \in Nat
    BY DEF CounterTypeOK, CounterConstantsFit
  <1>2. Distance \in Nat
    BY NotBeyond
  <1>3. Count = value
    BY <1>1, <1>2 DEF StartedBefore, Distance, Count, CounterConstantsFit
  <1>4. value # stop
    BY <1>3 DEF CounterDone
  <1>5. PICK m \in Nat : Distance = m * step
    BY DEF AheadOfStop
  <1>6. m # 0
    <2>1. ASSUME m = 0 PROVE Distance = 0
      BY <2>1, <1>1, <1>5
    <2> QED
      BY <2>1, <1>1, <1>4 DEF Distance
  <1>7. m - 1 \in Nat /\ (m - 1) * step \in Nat /\ Distance - step = (m - 1) * step
    BY <1>1, <1>5, <1>6, OneLess, TimesNat
  <1>8. CASE up
    <2>1. value' = value + step
      BY <1>3, <1>8 DEF Advance
    <2>2. Distance' = Distance - step /\ StartedBefore'
      BY <2>1, <1>1, <1>8 DEF Distance, StartedBefore, counterOptions, counterSettings
    <2> QED
      BY <2>2, <1>7 DEF AheadOfStop, counterSettings
  <1>9. CASE ~up
    <2>1. value >= step
      BY <1>1, <1>2, <1>7, <1>9 DEF Distance
    <2>2. value' = value - step
      BY <2>1, <1>3, <1>9 DEF Advance
    <2>3. Distance' = Distance - step /\ StartedBefore'
      BY <2>2, <1>1, <1>9 DEF Distance, StartedBefore, counterOptions, counterSettings
    <2> QED
      BY <2>3, <1>7 DEF AheadOfStop, counterSettings
  <1> QED
    BY <1>8, <1>9

LEMMA StopInductive ==
    ASSUME CounterConstantsFit, CounterInv, CounterNext
    PROVE  StopInv'
  <1> SUFFICES ASSUME steady', OnTheWay'
               PROVE  (StartedBefore /\ AheadOfStop)'
    BY DEF StopInv
  <1>1. UNCHANGED <<counterOptions, counterSettings>> /\ (reset \/ steady)
    BY DEF CounterNext
  <1>2. OnTheWay
    BY <1>1 DEF OnTheWay, counterOptions, counterSettings
  <1>3. CASE reset
    <2>1. value' = start
      BY <1>3 DEF CounterNext, CounterClock
    <2>2. start \in Nat /\ stop \in Nat /\ step \in Nat
      BY DEF CounterInv, CounterTypeOK, CounterConstantsFit
    <2>3. PICK k \in 0..CounterSpan : IF up THEN stop = start + k * step ELSE start = stop + k * step
      BY <1>2 DEF OnTheWay
    <2>4. k \in Nat /\ k * step \in Nat
      BY <2>2, TimesNat DEF CounterConstantsFit
    <2>5. Distance' = k * step
      BY <1>1, <2>1, <2>2, <2>3, <2>4 DEF Distance, counterOptions, counterSettings
    <2>6. StartedBefore'
      BY <1>1, <2>1, <2>2 DEF StartedBefore, counterOptions, counterSettings
    <2> QED
      BY <1>1, <2>4, <2>5, <2>6 DEF AheadOfStop, counterSettings
  <1>4. CASE ~reset
    <2>1. StartedBefore /\ AheadOfStop /\ hasStop
      BY <1>1, <1>2, <1>4 DEF CounterInv, StopInv, OnTheWay
    <2>2. CASE enable /\ ~CounterDone
      <3>1. value' = Advance
        BY <1>4, <2>2 DEF CounterNext, CounterClock
      <3> QED
        BY <3>1, <2>1, <2>2, <1>1, StepStaysAhead DEF CounterInv
    <2>3. CASE ~(enable /\ ~CounterDone)
      <3>1. value' = value
        BY <1>4, <2>3 DEF CounterNext, CounterClock
      <3> QED
        BY <3>1, <2>1, <1>1 DEF StartedBefore, AheadOfStop, Distance, counterOptions, counterSettings
    <2> QED
      BY <2>2, <2>3
  <1> QED
    BY <1>3, <1>4

(* For every width and all settings, the counter does not pass a stop      *)
(* value that whole steps from the start value lead to (counter.py:18, 28  *)
(* and 44-45).                                                             *)
THEOREM StopsThere == ASSUME CounterConstantsFit
                      PROVE  CounterSpec => []StopsAtStop
  <1>1. CounterTypeOK /\ CounterInit => CounterInv
    <2>1. CounterInit => value = start
      BY DEF CounterInit
    <2> QED
      BY <2>1, StartIsAhead DEF CounterInv, StopInv
  <1>2. CounterInv /\ CounterTypeOK' /\ [CounterNext]_counterVars => CounterInv'
    <2> SUFFICES ASSUME CounterInv, CounterTypeOK', [CounterNext]_counterVars
                 PROVE  StopInv'
      BY DEF CounterInv
    <2>1. CASE CounterNext
      BY <2>1, StopInductive
    <2>2. CASE UNCHANGED counterVars
      BY <2>2 DEF CounterInv, StopInv, OnTheWay, StartedBefore, AheadOfStop, Distance,
                  counterVars, counterOptions, counterSettings
    <2> QED
      BY <2>1, <2>2
  <1>3. CounterInv => StopsAtStop
    BY InvStops
  <1>4. CounterSpec => []CounterTypeOK
    BY CounterTypes
  <1> QED
    BY <1>1, <1>2, <1>3, <1>4, PTL DEF CounterSpec

-----------------------------------------------------------------------------
(* The PI controller: sums and products of what a signal keeps differ from *)
(* the exact ones by multiples of 2^width.                                 *)

LEMMA DivMod ==
    ASSUME NEW n \in Nat \ {0}, NEW a \in Int
    PROVE  a = (a \div n) * n + (a % n) /\ a % n \in 0..(n - 1) /\ a \div n \in Int
  OBVIOUS

LEMMA NoMultipleBetween ==
    ASSUME NEW n \in Nat \ {0}, NEW d \in Int, d * n < n, -n < d * n
    PROVE  d = 0
<1>1. CASE d >= 1
  <2>1. PICK e \in Nat : d = e + 1
    BY <1>1
  <2>2. (e + 1) * n = e * n + n /\ e * n \in Nat
    OBVIOUS
  <2> QED
    BY <2>1, <2>2
<1>2. CASE d <= -1
  <2>1. PICK e \in Nat : d = -e - 1
    BY <1>2
  <2>2. (-e - 1) * n = -(e * n) - n /\ e * n \in Nat
    OBVIOUS
  <2> QED
    BY <2>1, <2>2
<1> QED
  BY <1>1, <1>2

LEMMA ModShift ==
    ASSUME NEW n \in Nat \ {0}, NEW a \in Int, NEW k \in Int
    PROVE  (a + k * n) % n = a % n
<1>1. PICK q \in Int : a = q * n + (a % n)
  BY DivMod
<1>2. PICK r \in 0..(n - 1) : r = a % n
  BY DivMod
<1>3. PICK b \in Int : b = a + k * n
  OBVIOUS
<1>4. PICK p \in Int : b = p * n + (b % n)
  BY DivMod
<1>5. PICK s \in 0..(n - 1) : s = b % n
  BY DivMod
<1>6. a = q * n + r /\ a + k * n = p * n + s
  BY <1>1, <1>2, <1>3, <1>4, <1>5
<1>7. (p - q - k) * n = r - s
  BY <1>6
<1>8. p - q - k = 0
  BY <1>7, NoMultipleBetween
<1>9. r - s = 0
  BY <1>7, <1>8
<1> QED
  BY <1>2, <1>3, <1>5, <1>9

Same(x, y) == \E k \in Int : x = y + k * Span

LEMMA SameSum ==
    ASSUME Span \in Nat, NEW x \in Int, NEW y \in Int, NEW u \in Int, NEW v \in Int,
           Same(x, y), Same(u, v)
    PROVE  Same(x + u, y + v)
<1>1. PICK k \in Int, l \in Int : x = y + k * Span /\ u = v + l * Span
  BY DEF Same
<1>2. (k + l) * Span = k * Span + l * Span /\ k * Span \in Int /\ l * Span \in Int
  OBVIOUS
<1>3. PICK j \in Int : j = k + l
  OBVIOUS
<1>4. x + u = (y + v) + j * Span
  BY <1>1, <1>2, <1>3
<1> QED
  BY <1>4 DEF Same

LEMMA SameTimes ==
    ASSUME Span \in Nat, NEW a \in Int, NEW x \in Int, NEW y \in Int, Same(x, y)
    PROVE  Same(x * a, a * y)
<1>1. PICK k \in Int : x = y + k * Span
  BY DEF Same
<1>2. (y + k * Span) * a = a * y + (a * k) * Span
  OBVIOUS
<1> QED
  BY <1>1, <1>2 DEF Same

LEMMA SameTransitive ==
    ASSUME Span \in Nat, NEW x \in Int, NEW y \in Int, NEW z \in Int, Same(x, y), Same(y, z)
    PROVE  Same(x, z)
<1>1. PICK k \in Int, l \in Int : x = y + k * Span /\ y = z + l * Span
  BY DEF Same
<1>2. (k + l) * Span = k * Span + l * Span /\ k * Span \in Int /\ l * Span \in Int
  OBVIOUS
<1>3. PICK j \in Int : j = k + l
  OBVIOUS
<1>4. x = z + j * Span
  BY <1>1, <1>2, <1>3
<1> QED
  BY <1>4 DEF Same

LEMMA SameSymmetric ==
    ASSUME Span \in Nat, NEW x \in Int, NEW y \in Int, Same(x, y)
    PROVE  Same(y, x)
<1>1. PICK k \in Int : x = y + k * Span
  BY DEF Same
<1>2. PICK j \in Int : j = -k
  OBVIOUS
<1>3. y = x + j * Span
  BY <1>1, <1>2
<1> QED
  BY <1>3 DEF Same

LEMMA SignedKeeps ==
    ASSUME Span \in Nat \ {0}, NEW m \in Nat \ {0}, NEW x \in Int
    PROVE  /\ Signed(x, m * Span) \in Int
           /\ Same(Signed(x, m * Span), x)
<1>1. PICK n \in Nat \ {0} : n = m * Span
  OBVIOUS
<1>2. PICK h \in Int : h = n \div 2
  BY <1>1
<1>3. PICK b \in Int : b = x + h
  OBVIOUS
<1>4. PICK q \in Int : b = q * n + (b % n)
  BY DivMod
<1>5. PICK r \in Int : r = b % n
  BY DivMod
<1>6. Signed(x, n) = r - h
  BY <1>2, <1>3, <1>5 DEF Signed
<1>7. PICK p \in Int : p = q * n
  OBVIOUS
<1>8. r - h = x - p
  <2>1. b = p + r
    BY Zenon, <1>4, <1>5, <1>7
  <2> QED
    BY ONLY <2>1, <1>3, b \in Int, p \in Int, r \in Int, h \in Int, x \in Int
<1>9. PICK k \in Int : k = -(q * m)
  OBVIOUS
<1>10. p = -(k * Span)
  BY <1>1, <1>7, <1>9
<1>11. r - h = x + k * Span
  BY <1>8, <1>10
<1> QED
  BY <1>1, <1>6, <1>11 DEF Same

LEMMA SignedAlike ==
    ASSUME Span \in Nat \ {0}, NEW x \in Int, NEW y \in Int, Same(x, y)
    PROVE  Signed(x, Span) = Signed(y, Span)
<1>1. PICK k \in Int : x = y + k * Span
  BY DEF Same
<1>2. PICK h \in Int : h = Span \div 2
  OBVIOUS
<1>3. PICK b \in Int : b = y + h
  OBVIOUS
<1>4. x + h = b + k * Span
  BY <1>1, <1>3
<1>5. (b + k * Span) % Span = b % Span
  BY ModShift
<1> QED
  BY <1>2, <1>3, <1>4, <1>5 DEF Signed

LEMMA SignedInRoom ==
    ASSUME NEW n \in Nat \ {0}, n % 2 = 0, NEW x \in Int
    PROVE  Signed(x, n) \in Room(n)
<1>1. PICK h \in Nat : h = n \div 2 /\ n = 2 * h
  OBVIOUS
<1>2. PICK r \in 0..(n - 1) : r = (x + h) % n
  BY <1>1, DivMod
<1> QED
  BY <1>1, <1>2 DEF Signed, Room

\* What has passed how many edges.
Passed ==
    /\ recent \in Seq(Int) /\ Len(recent) = 4
    /\ integral \in Int
    /\ Same(error, recent[1])
    /\ Same(prop, kp * recent[2])
    /\ Same(int, ki * recent[2])
    /\ Same(intSum, ki * (integral + recent[4] + recent[3]))
    /\ Same(sum, kp * recent[3] + ki * (integral + recent[4]))

PidInv == PidTypeOK /\ Passed /\ OutIsExact

LEMMA PidNumbers ==
    ASSUME PidConstantsFit, PidTypeOK
    PROVE  /\ Span \in Nat \ {0} /\ Span % 2 = 0
           /\ setpoint \in Int /\ kp \in Int /\ ki \in Int
           /\ error \in Int /\ prop \in Int /\ int \in Int /\ intSum \in Int /\ sum \in Int
<1>1. Span \in Nat \ {0} /\ Span % 2 = 0 /\ Span \div 2 \in Int
  BY DEF PidConstantsFit
<1>2. \A n \in Int : Room(n) \subseteq Int
  BY DEF Room
<1>3. Span \in Int /\ 2 * Span \in Int /\ 2 * Span * Span \in Int /\ 4 * Span * Span \in Int
  BY <1>1
<1>4. Gains \subseteq Int
  BY <1>1 DEF PidConstantsFit
<1> QED
  BY <1>1, <1>2, <1>3, <1>4 DEF PidTypeOK

LEMMA PidWidths ==
    ASSUME PidConstantsFit
    PROVE  /\ 2 * Span \in Nat \ {0} /\ (2 * Span) % 2 = 0
           /\ 2 * Span * Span \in Nat \ {0} /\ (2 * Span * Span) % 2 = 0
           /\ 4 * Span * Span \in Nat \ {0} /\ (4 * Span * Span) % 2 = 0
<1>1. Span \in Nat \ {0}
  BY DEF PidConstantsFit
<1>2. PICK q \in Nat \ {0} : q = Span * Span
  BY <1>1
<1>3. 2 * Span * Span = 2 * q /\ 4 * Span * Span = 4 * q
  BY <1>1, <1>2
<1> QED
  BY <1>1, <1>3

LEMMA PidEdge ==
    ASSUME PidConstantsFit, PidInv, PidNext
    PROVE  PidInv'
<1>1. PICK in \in Inputs : /\ PidClock(in)
                           /\ recent' = <<in - setpoint>> \o SubSeq(recent, 1, Latency - 2)
                           /\ integral' = (integral + recent[Latency - 1]) % Span
                           /\ UNCHANGED pidSettings
  BY DEF PidNext
<1>2. /\ Span \in Nat \ {0} /\ Span % 2 = 0
      /\ setpoint \in Int /\ kp \in Int /\ ki \in Int
      /\ error \in Int /\ prop \in Int /\ int \in Int /\ intSum \in Int /\ sum \in Int
  BY PidNumbers DEF PidInv
<1>3. setpoint' = setpoint /\ kp' = kp /\ ki' = ki
  BY <1>1 DEF pidSettings
<1>4. in \in Int
  BY <1>2 DEF PidConstantsFit
<1>5. PICK e \in Int : e = in - setpoint
  BY <1>2, <1>4
<1>6. recent \in Seq(Int) /\ Len(recent) = 4 /\ integral \in Int
  BY DEF PidInv, Passed
<1>7. PICK r1 \in Int, r2 \in Int, r3 \in Int, r4 \in Int :
          r1 = recent[1] /\ r2 = recent[2] /\ r3 = recent[3] /\ r4 = recent[4]
  <2>1. \A i \in 1..4 : recent[i] \in Int
    BY <1>6, LenProperties
  <2> QED
    BY <2>1
<1>8. /\ recent' \in Seq(Int) /\ Len(recent') = 4
      /\ recent'[1] = e /\ recent'[2] = r1 /\ recent'[3] = r2 /\ recent'[4] = r3
  <2> DEFINE old == SubSeq(recent, 1, 3)
  <2>1. /\ old \in Seq(Int) /\ Len(old) = 3
        /\ old[1] = r1 /\ old[2] = r2 /\ old[3] = r3
    BY <1>6, <1>7, SubSeqProperties
  <2>2. <<e>> \in Seq(Int) /\ Len(<<e>>) = 1 /\ <<e>>[1] = e
    OBVIOUS
  <2>3. recent' = <<e>> \o old
    BY <1>1, <1>5 DEF Latency
  <2> HIDE DEF old
  <2>4. /\ <<e>> \o old \in Seq(Int) /\ Len(<<e>> \o old) = 4
        /\ \A i \in 1..4 : (<<e>> \o old)[i] = IF i <= 1 THEN <<e>>[i] ELSE old[i - 1]
    <3>1. PICK one \in Seq(Int) : one = <<e>>
      BY ONLY <2>2
    <3>2. Len(one) = 1
      BY ONLY <2>2, <3>1
    <3>3. /\ one \o old \in Seq(Int) /\ Len(one \o old) = 4
          /\ \A i \in 1..4 : (one \o old)[i] = IF i <= 1 THEN one[i] ELSE old[i - 1]
      <4>1. old \in Seq(Int) /\ Len(old) = 3
        BY <2>1
      <4>2. /\ one \o old \in Seq(Int)
            /\ Len(one \o old) = Len(one) + Len(old)
            /\ \A i \in 1 .. Len(one) + Len(old) :
                   (one \o old)[i] = IF i <= Len(one) THEN one[i] ELSE old[i - Len(one)]
        BY ONLY <4>1, <3>1, ConcatProperties, ZenonT(40)
      <4>3. Len(one) + Len(old) = 4
        BY ONLY <3>2, <4>1
      <4> QED
        BY ONLY <4>2, <4>3, <3>2
    <3> QED
      BY ONLY <3>1, <3>3
  <2> QED
    BY <2>1, <2>2, <2>3, <2>4
<1>9. /\ error' = Error(in) /\ prop' = Product(kp) /\ int' = Product(ki)
      /\ intSum' = Integral
      /\ sum' = Signed(prop + intSum, 4 * Span * Span)
      /\ control' = Signed(sum, Span)
  BY <1>1 DEF PidClock
<1>10. PidTypeOK'
  <2>1. /\ 2 * Span \in Nat \ {0} /\ (2 * Span) % 2 = 0
        /\ 2 * Span * Span \in Nat \ {0} /\ (2 * Span * Span) % 2 = 0
        /\ 4 * Span * Span \in Nat \ {0} /\ (4 * Span * Span) % 2 = 0
    BY PidWidths
  <2>2. error' \in Room(2 * Span)
    BY <1>2, <1>5, <1>9, <2>1, SignedInRoom DEF Error
  <2>3. prop' \in Room(2 * Span * Span) /\ int' \in Room(2 * Span * Span)
    <3>1. error * kp \in Int /\ error * ki \in Int
      BY <1>2
    <3> QED
      BY <1>9, <2>1, <3>1, SignedInRoom DEF Product
  <2>4. intSum' \in Room(2 * Span * Span)
    <3>1. intSum + int \in Int
      BY <1>2
    <3> QED
      BY <1>9, <2>1, <3>1, SignedInRoom DEF Integral
  <2>5. sum' \in Room(4 * Span * Span)
    <3>1. prop + intSum \in Int
      BY <1>2
    <3> QED
      BY <1>9, <2>1, <3>1, SignedInRoom
  <2>6. control' \in Room(Span)
    BY <1>2, <1>9, SignedInRoom
  <2> QED
    BY <1>3, <2>2, <2>3, <2>4, <2>5, <2>6 DEF PidInv, PidTypeOK
<1>11. PICK I \in Int : I = integral
  BY <1>6
<1>12. PICK J \in Int : J = integral' /\ Same(J, I + r4)
  <2>1. PICK b \in Int : b = I + r4
    OBVIOUS
  <2>2. integral' = b % Span
    BY <1>1, <1>7, <1>11, <2>1 DEF Latency
  <2>3. PICK q \in Int : b = q * Span + (b % Span)
    BY <1>2, DivMod
  <2>4. PICK r \in Int : r = b % Span
    BY <1>2, DivMod
  <2>5. b = q * Span + r
    BY Zenon, <2>3, <2>4
  <2>6. r = b + (-q) * Span
    BY <1>2, <2>5
  <2>7. Same(r, b)
    BY <2>6 DEF Same
  <2> QED
    BY <2>1, <2>2, <2>4, <2>7
<1>13. /\ Same(error, r1) /\ Same(prop, kp * r2) /\ Same(int, ki * r2)
       /\ Same(intSum, ki * (I + r4 + r3))
       /\ Same(sum, kp * r3 + ki * (I + r4))
  BY <1>7, <1>11 DEF PidInv, Passed
<1>14. Same(error', e)
  BY <1>2, <1>5, <1>9, SignedKeeps DEF Error
<1>15. Same(prop', kp * r1) /\ Same(int', ki * r1)
  <2>1. ASSUME NEW a \in Int
        PROVE  Same(Product(a), a * r1)
    <3>1. PICK x \in Int : x = error * a
      BY <1>2
    <3>2. PICK y \in Int : y = a * r1
      OBVIOUS
    <3>3. Same(x, y)
      BY <1>2, <1>13, <3>1, <3>2, SameTimes
    <3>4. 2 * Span \in Nat \ {0}
      BY <1>2
    <3>5. Same(Signed(x, 2 * Span * Span), x) /\ Signed(x, 2 * Span * Span) \in Int
      BY <1>2, <3>4, SignedKeeps
    <3>6. Same(Signed(x, 2 * Span * Span), y)
      BY <1>2, <3>3, <3>5, SameTransitive
    <3> QED
      BY <3>1, <3>2, <3>6 DEF Product
  <2> QED
    BY <1>2, <1>9, <2>1
\* The integral of the history with one error more, times k_i.
<1>16. ASSUME NEW u \in Int
       PROVE  Same(ki * (I + r4 + u), ki * (J + u))
  <2>1. Same(I + r4, J)
    BY <1>2, <1>12, SameSymmetric
  <2>2. Same(u, u)
    <3>1. u = u + 0 * Span
      BY <1>2
    <3> QED
      BY <3>1 DEF Same
  <2>3. PICK x \in Int, y \in Int : x = I + r4 + u /\ y = J + u
    OBVIOUS
  <2>4. Same(x, y)
    BY <1>2, <2>1, <2>2, <2>3, SameSum
  <2>5. Same(x * ki, ki * y)
    BY <1>2, <2>4, SameTimes
  <2>6. x * ki = ki * x
    BY <1>2
  <2>7. Same(ki * x, ki * y)
    BY <2>5, <2>6
  <2> QED
    BY <2>3, <2>7
<1>17. Same(intSum', ki * (J + (r3 + r2)))
  <2>1. PICK x \in Int, y \in Int, z \in Int, v \in Int :
            x = ki * (I + r4 + r3) /\ y = ki * r2
            /\ z = ki * (I + r4 + (r3 + r2)) /\ v = ki * (J + (r3 + r2))
    BY <1>2
  <2>2. z = x + y
    BY <1>2, <2>1
  <2>3. Same(intSum + int, z)
    BY <1>2, <1>13, <2>1, <2>2, SameSum
  <2>4. PICK t \in Int : t = intSum + int
    BY <1>2
  <2>5. 2 * Span \in Nat \ {0}
    BY <1>2
  <2>6. intSum' \in Int /\ Same(intSum', t)
    BY <1>2, <1>9, <2>4, <2>5, SignedKeeps DEF Integral
  <2>7. Same(z, v)
    <3>1. PICK u \in Int : u = r3 + r2
      OBVIOUS
    <3>2. Same(ki * (I + r4 + u), ki * (J + u))
      BY <1>16
    <3> QED
      BY <2>1, <3>1, <3>2
  <2>8. Same(intSum', z)
    BY <1>2, <2>3, <2>4, <2>6, SameTransitive
  <2> QED
    BY <1>2, <2>1, <2>6, <2>7, <2>8, SameTransitive
<1>18. Same(sum', kp * r2 + ki * (J + r3))
  <2>1. PICK x \in Int, y \in Int, v \in Int :
            x = ki * (I + r4 + r3) /\ y = kp * r2 /\ v = ki * (J + r3)
    BY <1>2
  <2>2. PICK t \in Int : t = prop + intSum
    BY <1>2
  <2>3. Same(t, y + x)
    BY <1>2, <1>13, <2>1, <2>2, SameSum
  <2>4. 4 * Span \in Nat \ {0}
    BY <1>2
  <2>5. sum' \in Int /\ Same(sum', t)
    BY <1>2, <1>9, <2>2, <2>4, SignedKeeps
  <2>6. Same(x, v)
    BY <1>16, <2>1
  <2>7. Same(y, y)
    <3>1. y = y + 0 * Span
      BY <1>2
    <3> QED
      BY <3>1 DEF Same
  <2>8. Same(y + x, y + v)
    BY <1>2, <2>6, <2>7, SameSum
  <2>9. Same(t, y + v)
    BY <1>2, <2>3, <2>8, SameTransitive
  <2> QED
    BY <1>2, <2>1, <2>5, <2>9, SameTransitive
<1>19. control' = Signed(kp * r3 + ki * J, Span)
  <2>1. PICK x \in Int, y \in Int, v \in Int :
            x = ki * (I + r4) /\ y = kp * r3 /\ v = ki * J
    BY <1>2
  <2>2. Same(x, v)
    <3>1. Same(ki * (I + r4 + 0), ki * (J + 0))
      BY <1>16
    <3>2. I + r4 + 0 = I + r4 /\ J + 0 = J
      OBVIOUS
    <3> QED
      BY <2>1, <3>1, <3>2
  <2>3. Same(y, y)
    <3>1. y = y + 0 * Span
      BY <1>2
    <3> QED
      BY <3>1 DEF Same
  <2>4. Same(y + x, y + v)
    BY <1>2, <2>2, <2>3, SameSum
  <2>5. Same(sum, y + x)
    BY <1>13, <2>1
  <2>6. Same(sum, y + v)
    BY <1>2, <2>4, <2>5, SameTransitive
  <2> QED
    BY <1>2, <1>9, <2>1, <2>6, SignedAlike
<1>20. Passed'
  <2>1. PICK u \in Int : u = J + (r3 + r2) /\ u = J + r3 + r2
    OBVIOUS
  <2> QED
    BY <1>3, <1>8, <1>12, <1>14, <1>15, <1>17, <1>18, <2>1 DEF Passed
<1>21. OutIsExact'
  BY <1>3, <1>8, <1>12, <1>19 DEF OutIsExact, Latency
<1> QED
  BY <1>10, <1>20, <1>21 DEF PidInv

LEMMA PidStart ==
    ASSUME PidConstantsFit, PidInit
    PROVE  PidInv
<1>1. /\ error = 0 /\ prop = 0 /\ int = 0 /\ intSum = 0 /\ sum = 0 /\ control = 0
      /\ recent = [i \in 1..4 |-> 0]
      /\ integral = 0
      /\ setpoint \in Inputs /\ kp \in Gains /\ ki \in Gains
  BY DEF PidInit, PidRegisters, Latency
<1>2. Span \in Nat \ {0} /\ Span % 2 = 0
  BY DEF PidConstantsFit
<1>3. \A n \in Nat \ {0} : n % 2 = 0 => 0 \in Room(n)
  BY DEF Room
<1>4. PidTypeOK
  <2>1. 0 \in Room(Span) /\ 0 \in Room(2 * Span) /\ 0 \in Room(2 * Span * Span) /\ 0 \in Room(4 * Span * Span)
    BY <1>2, <1>3, PidWidths
  <2>2. setpoint \in Room(Span)
    BY <1>1 DEF PidConstantsFit, Room
  <2> QED
    BY <1>1, <2>1, <2>2 DEF PidTypeOK
<1>5. kp \in Int /\ ki \in Int
  BY <1>4, PidNumbers
<1>6. recent \in Seq(Int) /\ Len(recent) = 4
  BY <1>1
<1>7. recent[1] = 0 /\ recent[2] = 0 /\ recent[3] = 0 /\ recent[4] = 0
  BY <1>1
<1>8. Same(0, 0)
  <2>1. 0 = 0 + 0 * Span
    BY <1>2
  <2> QED
    BY <2>1 DEF Same
<1>9. kp * 0 = 0 /\ ki * 0 = 0 /\ ki * (0 + 0) = 0 /\ ki * (0 + 0 + 0) = 0 /\ 0 + 0 = 0
  BY <1>5
<1>10. Passed
  BY <1>1, <1>6, <1>7, <1>8, <1>9 DEF Passed
<1>11. Signed(0, Span) = 0
  <2>1. PICK h \in Nat : h = Span \div 2 /\ h < Span
    BY <1>2
  <2>2. h % Span = h
    BY <1>2, <2>1
  <2> QED
    BY <2>1, <2>2 DEF Signed
<1>12. OutIsExact
  BY <1>1, <1>7, <1>9, <1>11 DEF OutIsExact, Latency
<1> QED
  BY <1>4, <1>10, <1>12 DEF PidInv

LEMMA PidKeeps ==
    ASSUME PidConstantsFit, PidInv, [PidNext]_pidVars
    PROVE  PidInv'
<1>1. ASSUME UNCHANGED pidVars
      PROVE  PidInv'
  BY <1>1 DEF pidVars, pidSettings, PidInv, PidTypeOK, Passed, OutIsExact
<1> QED
  BY <1>1, PidEdge

LEMMA PidInvariance ==
    ASSUME PidConstantsFit
    PROVE  PidSpec => []PidInv
<1>1. PidInv /\ [PidNext]_pidVars => PidInv'
  BY PidKeeps
<1> QED
  BY <1>1, PidStart, PTL DEF PidSpec

(* Every signal of the controller keeps its width (pid.py:29-43).          *)
THEOREM PidTypes ==
    ASSUME PidConstantsFit
    PROVE  PidSpec => []PidTypeOK
<1>1. PidInv => PidTypeOK
  BY DEF PidInv
<1> QED
  BY <1>1, PidInvariance, PTL

(* For every width, gain, setpoint and input, no signal on the way loses a *)
(* bit that the output would have (pid.py:45-58).                          *)
THEOREM OutputIsExact ==
    ASSUME PidConstantsFit
    PROVE  PidSpec => []OutIsExact
<1>1. PidInv => OutIsExact
  BY DEF PidInv
<1> QED
  BY <1>1, PidInvariance, PTL

-----------------------------------------------------------------------------
(* The blocks together.                                                    *)

BlocksInv == CounterTypeOK /\ PidInv /\ IInv

LEMMA BlocksStart ==
    ASSUME BlocksInit
    PROVE  BlocksInv
<1>1. CounterConstantsFit /\ PidConstantsFit /\ SpiConstantsFit
  BY ConstantsAssumption
<1>2. CounterTypeOK
  <2>1. CASE CounterInit
    BY <1>1, <2>1, CounterStart
  <2>2. CASE CounterRests
    <3>1. 0 \in 0..(CounterSpan - 1) /\ 0 \in 0..(2 * CounterSpan - 1)
      BY <1>1 DEF CounterConstantsFit
    <3> QED
      BY <2>2, <3>1 DEF CounterRests, CounterTypeOK
  <2> QED
    BY <2>1, <2>2 DEF BlocksInit
<1>3. PidInit
  <2>1. CASE PidRests
    BY <2>1, RestsAssumption DEF PidRests, PidInit
  <2> QED
    BY <2>1 DEF BlocksInit
<1>4. SpiInit
  <2>1. CASE SpiRests
    BY <2>1, RestsAssumption DEF SpiRests, SpiInit, Settings
  <2> QED
    BY <2>1 DEF BlocksInit
<1> QED
  BY <1>1, <1>2, <1>3, <1>4, PidStart, InitInvariant DEF BlocksInv

(* Whichever block is clocked, all of them keep their types                *)
(* (counter.py:36-44, pid.py:29-43, spimachine.py:12-17, 53-68, 98-116).   *)
THEOREM BlocksTypes ==
    BlocksSpec => []BlocksTypeOK
<1>1. BlocksInit => BlocksInv
  BY BlocksStart
<1>2. BlocksInv /\ [BlocksNext]_<<vars, counterVars, pidVars, spiVars, block>> => BlocksInv'
  <2> SUFFICES ASSUME BlocksInv, [BlocksNext]_<<vars, counterVars, pidVars, spiVars, block>>
               PROVE  BlocksInv'
    OBVIOUS
  <2>1. [CounterNext]_counterVars /\ [PidNext]_pidVars /\ [SpiNext]_spiVars
    BY DEF BlocksNext
  <2> QED
    BY <2>1, ConstantsAssumption, CounterTypesKept, PidKeeps, MachineKeeps DEF BlocksInv
<1>3. BlocksInv => BlocksTypeOK
  BY DEF BlocksInv, BlocksTypeOK, PidInv, IInv
<1> QED
  BY <1>1, <1>2, <1>3, PTL DEF BlocksSpec
=============================================================================
