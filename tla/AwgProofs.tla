------------------------------ MODULE AwgProofs ------------------------------
(***************************************************************************)
(* The burst generator implements PulseTrain for every period except zero, *)
(* which the counter of the pulse generator cannot be prepared for: the    *)
(* run burst_zero shows what it does then.  The waveform generator plays   *)
(* its list for every depth and period; its burst generator is used as     *)
(* the train of pulses that it is shown to be, and not looked into again.  *)
(***************************************************************************)
EXTENDS Awg, TLAPS

(* The burst generator.                                                    *)

Positive == Period \in Nat /\ CountSpan \in Nat /\ Period < CountSpan /\ Period >= 1

\* During a burst the pulse generator is on; it has just made its pulse and
\* starts over, is about to make it, or counts down.
BurstInv ==
    busy => /\ on
            /\ genOut => ~genCarry /\ genCount = Period
            /\ ~genCarry => genCount <= Period

\* It is still on in the cycle after a burst, and has already counted once.
EndInv == ~busy /\ on => ~genOut /\ ~genCarry /\ genCount = Period - 1

IInv == TypeOK /\ BurstInv /\ EndInv

\* Reduction modulo n leaves the numbers below n alone.
LEMMA SmallMod ==
    ASSUME NEW n \in Nat \ {0}, NEW a \in 0..(n - 1)
    PROVE  a % n = a
  OBVIOUS

\* What the generator loads while it is off.
LEMMA OffReload ==
    ASSUME Positive
    PROVE  Gen!FirstReload = Period - 1
<1>1. Period - 1 \in 0..(CountSpan - 1) /\ CountSpan \in Nat \ {0}
  BY DEF Positive
<1> QED
  BY <1>1, SmallMod DEF Gen!FirstReload

\* A clock edge of the generator, in each of its states.
LEMMA GenEdge ==
    ASSUME Positive, TypeOK, Gen!Clock
    PROVE  /\ genOut' \in BOOLEAN /\ genCarry' \in BOOLEAN
           /\ genCount' \in 0..(CountSpan - 1)
           /\ genOut' <=> genCarry /\ on
           /\ ~on => ~genCarry' /\ genCount' = Period - 1
           /\ on /\ genCarry => ~genCarry' /\ genCount' = Period
           /\ on /\ ~genCarry /\ genCount = 0 => genCarry'
           /\ on /\ ~genCarry /\ genCount > 0 => ~genCarry' /\ genCount' = genCount - 1
<1>1. /\ Period \in Nat /\ CountSpan \in Nat /\ Period < CountSpan /\ Period >= 1
      /\ Gen!FirstReload = Period - 1
  BY OffReload DEF Positive
<1>2. /\ on \in BOOLEAN /\ genOut \in BOOLEAN /\ genCarry \in BOOLEAN
      /\ genCount \in 0..(CountSpan - 1)
  BY DEF TypeOK
<1>3. genOut' \in BOOLEAN /\ (genOut' <=> genCarry /\ on)
  BY <1>2 DEF Gen!Clock
<1>4. CASE ~on
  <2>1. ~genCarry' /\ genCarry' \in BOOLEAN /\ genCount' = Period - 1
    BY <1>1, <1>4 DEF Gen!Clock
  <2>2. genCount' \in 0..(CountSpan - 1)
    BY <1>1, <2>1
  <2> QED
    BY <1>3, <1>4, <2>1, <2>2
<1>5. CASE on /\ genCarry
  <2>1. ~genCarry' /\ genCarry' \in BOOLEAN /\ genCount' = Period
    BY <1>5 DEF Gen!Clock, Gen!Reload
  <2>2. genCount' \in 0..(CountSpan - 1)
    BY <1>1, <2>1
  <2> QED
    BY <1>3, <1>5, <2>1, <2>2
<1>6. CASE on /\ ~genCarry
  <2>1. /\ genCarry' \in BOOLEAN /\ (genCarry' <=> genCount = 0)
        /\ genCount' = IF genCount = 0 THEN CountSpan - 1 ELSE genCount - 1
    BY <1>6 DEF Gen!Clock, Gen!Decrement
  <2>2. genCount' \in 0..(CountSpan - 1)
    BY <1>1, <1>2, <2>1
  <2>3. genCount > 0 => ~(genCount = 0)
    BY <1>2
  <2> QED
    BY <1>3, <1>6, <2>1, <2>2, <2>3
<1> QED
  BY <1>4, <1>5, <1>6

LEMMA InitInv ==
    ASSUME Positive, Init
    PROVE  IInv
<1>1. /\ Period \in Nat /\ CountSpan \in Nat /\ Period < CountSpan /\ Period >= 1
      /\ Gen!FirstReload = Period - 1
  BY OffReload DEF Positive
<1>2. ~on /\ ~busy /\ ~genOut /\ ~genCarry /\ genCount = Period - 1
  BY <1>1 DEF Init, Gen!Registers
<1>3. on \in BOOLEAN /\ busy \in BOOLEAN /\ genOut \in BOOLEAN /\ genCarry \in BOOLEAN
  BY DEF Init, Gen!Registers
<1>4. out \in BOOLEAN /\ count \in Nat
  BY DEF Init
<1>5. since \in 0..(Period + 2)
  BY <1>1 DEF Init
<1> QED
  BY <1>1, <1>2, <1>3, <1>4, <1>5 DEF IInv, TypeOK, BurstInv, EndInv

\* A clock edge of the burst generator, in each of its states.
LEMMA BurstEdge ==
    ASSUME Positive, TypeOK, NEW trigger \in BOOLEAN, NEW reset \in BOOLEAN,
           Edge(trigger, reset)
    PROVE  /\ on' \in BOOLEAN /\ out' \in BOOLEAN /\ busy' \in BOOLEAN
           /\ count' \in Nat /\ since' \in 0..(Period + 2)
           /\ on' <=> ~reset /\ (busy \/ trigger)
           /\ reset => ~busy' /\ ~out' /\ count' = 0
           /\ ~reset /\ ~busy /\ ~trigger => ~busy' /\ ~out' /\ count' = count
           /\ ~reset /\ ~busy /\ trigger => busy' /\ out' /\ count' \in Bursts
           /\ ~reset /\ busy /\ ~genOut => busy' /\ ~out' /\ count' = count
           /\ ~reset /\ busy /\ genOut /\ count > 0 => busy' /\ out' /\ count' = count - 1
           /\ ~reset /\ busy /\ genOut /\ count = 0 /\ trigger
                => busy' /\ out' /\ count' \in Bursts
           /\ ~reset /\ busy /\ genOut /\ count = 0 /\ ~trigger
                => ~busy' /\ ~out' /\ count' = count
<1>1. count \in Nat /\ genOut \in BOOLEAN /\ busy \in BOOLEAN /\ since \in 0..(Period + 2)
  BY DEF TypeOK
<1>2. on' \in BOOLEAN /\ (on' <=> ~reset /\ (busy \/ trigger))
  BY <1>1 DEF Edge, OnAfter
<1>3. since' \in 0..(Period + 2)
  BY <1>1 DEF Edge, Positive
<1>4. CASE reset
  <2>1. out' = FALSE /\ count' = 0 /\ busy' = FALSE
    BY <1>4 DEF Edge, ResetOutputs, Outputs
  <2> QED
    BY <1>2, <1>3, <1>4, <2>1
<1>5. CASE ~reset /\ ~busy
  <2>1. Idle(trigger)
    BY <1>5 DEF Edge
  <2>2. CASE trigger
    <3>1. out' = TRUE /\ busy' = TRUE /\ count' \in Bursts
      BY <2>1, <2>2 DEF Idle, Outputs
    <3> QED
      BY <1>2, <1>3, <1>5, <2>2, <3>1, BurstsAssumption
  <2>3. CASE ~trigger
    <3>1. out' = FALSE /\ busy' = FALSE /\ count' = count
      BY <2>1, <2>3 DEF Idle, Outputs
    <3> QED
      BY <1>1, <1>2, <1>3, <1>5, <2>3, <3>1
  <2> QED
    BY <2>2, <2>3
<1>6. CASE ~reset /\ busy
  <2>1. Bursting(trigger)
    BY <1>6 DEF Edge
  <2>2. CASE ~genOut
    <3>1. out' = FALSE /\ busy' = TRUE /\ count' = count
      BY <2>1, <2>2 DEF Bursting, Outputs
    <3> QED
      BY <1>1, <1>2, <1>3, <1>6, <2>2, <3>1
  <2>3. CASE genOut /\ count # 0
    <3>1. out' = TRUE /\ busy' = TRUE /\ count' = count - 1
      BY <2>1, <2>3 DEF Bursting, Outputs, BurstOver
    <3>2. count' \in Nat /\ count > 0
      BY <1>1, <2>3, <3>1
    <3>3. out' \in BOOLEAN /\ busy' \in BOOLEAN /\ out' /\ busy'
      BY <3>1
    <3> QED
      BY <1>2, <1>3, <1>6, <2>3, <3>1, <3>2, <3>3
  <2>4. CASE genOut /\ count = 0 /\ trigger
    <3>1. out' = TRUE /\ busy' = TRUE /\ count' \in Bursts
      BY <2>1, <2>4 DEF Bursting, Outputs, BurstOver
    <3> QED
      BY <1>2, <1>3, <1>6, <2>4, <3>1, BurstsAssumption
  <2>5. CASE genOut /\ count = 0 /\ ~trigger
    <3>1. out' = FALSE /\ busy' = FALSE /\ count' = count
      BY <2>1, <2>5 DEF Bursting, Outputs, BurstOver
    <3>2. count' \in Nat /\ ~(count > 0)
      BY <1>1, <2>5, <3>1
    <3>3. out' \in BOOLEAN /\ busy' \in BOOLEAN /\ ~out' /\ ~busy'
      BY <3>1
    <3> QED
      BY <1>2, <1>3, <1>6, <2>5, <3>1, <3>2, <3>3
  <2> QED
    BY <1>1, <2>2, <2>3, <2>4, <2>5
<1> QED
  BY <1>1, <1>4, <1>5, <1>6

\* Every clock edge preserves the invariant.
LEMMA EdgeInv ==
    ASSUME Positive, IInv, NEW trigger \in BOOLEAN, NEW reset \in BOOLEAN,
           Edge(trigger, reset)
    PROVE  IInv'
<1> USE DEF IInv
<1>1. Period \in Nat /\ CountSpan \in Nat /\ Period < CountSpan /\ Period >= 1
  BY DEF Positive
<1>2. /\ genCount \in 0..(CountSpan - 1) /\ genCount' \in 0..(CountSpan - 1)
      /\ genCount > 0 \/ genCount = 0
  BY GenEdge DEF TypeOK, Edge
<1>3. TypeOK'
  <2>1. genOut' \in BOOLEAN /\ genCarry' \in BOOLEAN
    BY GenEdge DEF Edge
  <2> QED
    BY <1>2, <2>1, BurstEdge DEF TypeOK
<1>4. /\ genOut' <=> genCarry /\ on
      /\ ~on => ~genCarry' /\ genCount' = Period - 1
      /\ on /\ genCarry => ~genCarry' /\ genCount' = Period
      /\ on /\ ~genCarry /\ genCount = 0 => genCarry'
      /\ on /\ ~genCarry /\ genCount > 0 => ~genCarry' /\ genCount' = genCount - 1
  BY GenEdge DEF Edge
<1>5. BurstInv'
  <2> SUFFICES ASSUME busy'
               PROVE  /\ on'
                      /\ genOut' => ~genCarry' /\ genCount' = Period
                      /\ ~genCarry' => genCount' <= Period
    BY DEF BurstInv
  <2>1. ~reset /\ on' /\ (busy \/ trigger)
    BY BurstEdge DEF TypeOK
  <2>2. genOut' => ~genCarry' /\ genCount' = Period
    BY <1>4
  <2>3. ~genCarry /\ on => genCount <= Period
    BY <1>1, <1>2 DEF BurstInv, EndInv, TypeOK
  <2>4. ~genCarry' => genCount' <= Period
    BY <1>1, <1>2, <1>4, <2>3
  <2> QED
    BY <2>1, <2>2, <2>4
<1>6. EndInv'
  <2> SUFFICES ASSUME ~busy', on'
               PROVE  ~genOut' /\ ~genCarry' /\ genCount' = Period - 1
    BY DEF EndInv
  <2>1. busy /\ genOut
    BY BurstEdge DEF TypeOK
  <2>2. on /\ ~genCarry /\ genCount = Period
    BY <2>1 DEF BurstInv
  <2> QED
    BY <1>1, <1>2, <1>4, <2>2
<1> QED
  BY <1>3, <1>5, <1>6

LEMMA Invariance ==
    ASSUME Positive
    PROVE  Spec => []IInv
<1>1. Init => IInv
  BY InitInv
<1>2. IInv /\ [Next]_vars => IInv'
  <2>1. IInv /\ Next => IInv'
    BY EdgeInv DEF Next
  <2>2. IInv /\ UNCHANGED vars => IInv'
    BY DEF vars, gen, IInv, TypeOK, BurstInv, EndInv
  <2> QED
    BY <2>1, <2>2
<1> QED
  BY <1>1, <1>2, PTL DEF Spec

(* Counters and outputs keep their types: the number of pulses left never  *)
(* passes zero (pulsegen.py:98-142).                                       *)
THEOREM TypeCorrect ==
    ASSUME Positive
    PROVE  Spec => []TypeOK
<1>1. IInv => TypeOK
  BY DEF IInv
<1> QED
  BY <1>1, Invariance, PTL

\* What a train does without a reset.
Running ==
    Train!Start \/ Train!Idle \/ Train!CountDown \/ Train!NextPulse \/ Train!Continue \/ Train!End

\* A clock edge is a step of the train.
LEMMA EdgeTrain ==
    ASSUME Positive, IInv, NEW trigger \in BOOLEAN, NEW reset \in BOOLEAN,
           Edge(trigger, reset)
    PROVE  IF reset THEN Train!Reset ELSE Running
<1> USE DEF IInv
<1>0. Period \in Nat /\ CountSpan \in Nat /\ Period < CountSpan /\ Period >= 1
  BY DEF Positive
<1>1. /\ out' \in BOOLEAN /\ busy' \in BOOLEAN /\ on' \in BOOLEAN /\ count \in Nat
      /\ genCount \in Nat /\ genOut \in BOOLEAN /\ genCarry \in BOOLEAN
      /\ genOut' \in BOOLEAN /\ genCarry' \in BOOLEAN /\ genCount' \in Nat
  BY <1>0, BurstEdge, GenEdge DEF TypeOK, Edge
<1>2. /\ genOut' <=> genCarry /\ on
      /\ ~on => ~genCarry' /\ genCount' = Period - 1
      /\ on /\ genCarry => ~genCarry' /\ genCount' = Period
      /\ on /\ ~genCarry /\ genCount = 0 => genCarry'
      /\ on /\ ~genCarry /\ genCount > 0 => ~genCarry' /\ genCount' = genCount - 1
  BY GenEdge DEF Edge
<1>3. (~busy => Countdown = 0) /\ (~busy' => Countdown' = 0)
  BY DEF Countdown
<1>4. CASE reset
  <2>1. out' = FALSE /\ busy' = FALSE /\ count' = 0 /\ (on' /\ ~busy') = FALSE
    BY <1>1, <1>4, BurstEdge
  <2> QED
    BY <1>3, <1>4, <2>1 DEF Train!Reset, Train!Quiet
<1>5. CASE ~reset /\ ~busy /\ ~trigger
  <2>1. out' = FALSE /\ busy' = FALSE /\ count' = count /\ (on' /\ ~busy') = FALSE
    BY <1>1, <1>5, BurstEdge
  <2> QED
    BY <1>3, <1>5, <2>1 DEF Running, Train!Idle, Train!Quiet
<1>6. CASE ~reset /\ ~busy /\ trigger
  <2>1. out' = TRUE /\ busy' = TRUE /\ count' \in Bursts /\ (on' /\ ~busy') = FALSE
    BY <1>1, <1>6, BurstEdge
  <2>2. Countdown' = IF on /\ ~busy THEN Period ELSE Period + 1
    <3>1. CASE on
      <4>1. ~genOut' /\ ~genCarry /\ genCount = Period - 1
        BY <1>2, <1>6, <3>1 DEF EndInv
      <4>2. CASE Period = 1
        <5>1. genCarry'
          BY <1>2, <3>1, <4>1, <4>2
        <5> QED
          BY <1>6, <2>1, <3>1, <4>1, <4>2, <5>1 DEF Countdown
      <4>3. CASE Period > 1
        <5>1. ~genCarry' /\ genCount' = Period - 2
          BY <1>0, <1>2, <3>1, <4>1, <4>3
        <5> QED
          BY <1>0, <1>6, <2>1, <3>1, <4>1, <5>1 DEF Countdown
      <4> QED
        BY <1>0, <4>2, <4>3
    <3>2. CASE ~on
      BY <1>0, <1>1, <1>2, <1>6, <2>1, <3>2 DEF Countdown
    <3> QED
      BY <3>1, <3>2
  <2>3. Train!Start
    BY <1>6, <2>1, <2>2 DEF Train!Start, Train!Pulse
  <2> QED
    BY <1>6, <2>3 DEF Running
<1>7. CASE ~reset /\ busy /\ ~genOut
  <2>1. out' = FALSE /\ busy' = TRUE /\ count' = count /\ (on' /\ ~busy') = FALSE
    BY <1>1, <1>7, BurstEdge
  <2>2. Countdown > 0 /\ Countdown' = Countdown - 1
    <3>1. on
      BY <1>7 DEF BurstInv
    <3>2. CASE genCarry
      BY <1>1, <1>2, <1>7, <2>1, <3>1, <3>2 DEF Countdown
    <3>3. CASE ~genCarry /\ genCount = 0
      BY <1>1, <1>2, <1>7, <2>1, <3>1, <3>3 DEF Countdown
    <3>4. CASE ~genCarry /\ genCount > 0
      BY <1>1, <1>2, <1>7, <2>1, <3>1, <3>4 DEF Countdown
    <3> QED
      BY <1>1, <3>2, <3>3, <3>4
  <2>3. Train!CountDown
    BY <1>7, <2>1, <2>2 DEF Train!CountDown, Train!Quiet
  <2> QED
    BY <1>7, <2>3 DEF Running
<1>8. CASE ~reset /\ busy /\ genOut
  <2>1. Countdown = 0 /\ on /\ ~genCarry /\ genCount = Period
    BY <1>8 DEF Countdown, BurstInv
  <2>2. ~genOut' /\ ~genCarry' /\ genCount' = Period - 1
    BY <1>0, <1>2, <2>1
  <2>3. busy' => Countdown' = Period + 1
    BY <1>0, <2>2 DEF Countdown
  <2>4. on' = TRUE
    BY <1>1, <1>8, BurstEdge
  <2>5. CASE count > 0
    <3>1. out' = TRUE /\ busy' = TRUE /\ count' = count - 1 /\ (on' /\ ~busy') = FALSE
      BY <1>1, <1>8, <2>5, BurstEdge
    <3>2. Train!NextPulse
      BY <1>8, <2>1, <2>3, <2>5, <3>1 DEF Train!NextPulse, Train!Pulse
    <3> QED
      BY <1>8, <3>2 DEF Running
  <2>6. CASE count = 0 /\ trigger
    <3>1. out' = TRUE /\ busy' = TRUE /\ count' \in Bursts /\ (on' /\ ~busy') = FALSE
      BY <1>1, <1>8, <2>6, BurstEdge
    <3>2. Train!Continue
      BY <1>8, <2>1, <2>3, <2>6, <3>1 DEF Train!Continue, Train!Pulse
    <3> QED
      BY <1>8, <3>2 DEF Running
  <2>7. CASE count = 0 /\ ~trigger
    <3>1. out' = FALSE /\ busy' = FALSE /\ count' = 0 /\ (on' /\ ~busy') = TRUE
      BY <1>1, <1>8, <2>4, <2>7, BurstEdge
    <3>2. Train!End
      BY <1>3, <1>8, <2>1, <2>7, <3>1 DEF Train!End, Train!Quiet
    <3> QED
      BY <1>8, <3>2 DEF Running
  <2> QED
    BY <1>1, <2>5, <2>6, <2>7
<1> QED
  BY <1>4, <1>5, <1>6, <1>7, <1>8

(* A burst generator is a countdown between pulses: each burst has the     *)
(* pulses that were asked for, Period + 2 cycles apart, except that a      *)
(* burst triggered in the cycle after another one is a cycle early with    *)
(* its second pulse (pulsegen.py:71-142).                                  *)
THEOREM Implements ==
    ASSUME Positive
    PROVE  Spec => ImplementsTrain
<1> USE DEF Train!vars
<1>0. Period \in Nat /\ CountSpan \in Nat /\ Period < CountSpan /\ Period >= 1
  BY DEF Positive
<1>1. ASSUME Init
      PROVE  Train!Init
  BY <1>1 DEF Init, Gen!Registers, Train!Init, Countdown
<1>2. IInv /\ [Next]_vars => [Train!Next]_Train!vars
  <2>1. IInv /\ Next => Train!Next
    BY EdgeTrain DEF Next, Running, Train!Next
  <2>2. UNCHANGED vars => UNCHANGED Train!vars
    BY DEF vars, gen, Countdown
  <2> QED
    BY <2>1, <2>2
<1> QED
  BY <1>1, <1>2, Invariance, PTL DEF Spec, ImplementsTrain, Train!Spec

-----------------------------------------------------------------------------
(* The waveform generator.                                                 *)

Pace == Period + 2

\* The cycles of the samples that are over when n are left after this one.
Played(n) == (Pulses - n) * Pace

\* The cycle in which the first sample of a waveform is asked for.
Beginning == busy /\ out /\ count = Pulses

Mirror == \A c \in Positions : cells[c] = list[Pulses - c]

RestInv ==
    ~busy => /\ ~out
             /\ count = 0
             /\ adr = 0
             /\ cycle = IF on THEN Length - 1 ELSE Length

BeginInv ==
    /\ again => Beginning /\ ~early
    /\ Beginning => /\ adr = 0
                    /\ cycle = IF again THEN Length - 1 ELSE Length
                    /\ Countdown = IF early THEN Period ELSE Period + 1

\* During a waveform, the time since the first sample is that of the samples
\* that are over and of the countdown to the next one.
PlayInv ==
    busy /\ ~Beginning =>
        /\ cycle = Played(count) + Period - Countdown
        /\ adr = IF out THEN count + 1 ELSE count
        /\ Countdown \in 0..(Period + 1)
        /\ out <=> Countdown = Period + 1

AwgInv ==
    /\ IInv
    /\ AwgTypeOK
    /\ count \in 0..Pulses
    /\ Mirror
    /\ RestInv
    /\ BeginInv
    /\ PlayInv

\* The time that has been played grows by the pace of the pulses.
LEMMA PlayedFacts ==
    ASSUME Positive
    PROVE  /\ Depth \in Nat /\ Pulses \in Nat /\ Pulses = Depth - 1
           /\ Pace \in Nat /\ Pace = Period + 2 /\ Length \in Nat
           /\ Played(Pulses) = 0
           /\ Played(0) + Pace = Length
           /\ \A n \in 0..Pulses : Played(n) \in Nat /\ Played(n) + Pace <= Length
           /\ \A n \in 1..Pulses : Played(n - 1) = Played(n) + Pace
<1>1. /\ Depth \in Nat /\ Depth >= 1 /\ Pulses \in Nat /\ Pulses = Depth - 1
      /\ Pace \in Nat /\ Pace = Period + 2
  BY DepthAssumption DEF Positive, Pulses, Pace
<1>2. Length = Depth * Pace
  BY <1>1 DEF Length
<1>3. Played(Pulses) = 0
  BY <1>1 DEF Played
<1>4. Length \in Nat
  BY <1>1, <1>2
<1>5. Played(0) + Pace = Length
  BY <1>1, <1>2 DEF Played
<1>6. ASSUME NEW n \in 0..Pulses
      PROVE  Played(n) \in Nat /\ Played(n) + Pace <= Length
  <2>1. Pulses - n \in Nat
    BY <1>1
  <2>2. Played(n) \in Nat
    BY <1>1, <2>1 DEF Played
  <2>3. Length = Played(n) + n * Pace + Pace
    BY <1>1, <1>2 DEF Played
  <2>4. n \in Nat /\ n * Pace \in Nat
    BY <1>1
  <2> QED
    BY <1>1, <1>4, <2>2, <2>3, <2>4
<1>7. ASSUME NEW n \in 1..Pulses
      PROVE  Played(n - 1) = Played(n) + Pace
  BY <1>1 DEF Played
<1> QED
  BY <1>1, <1>3, <1>4, <1>5, <1>6, <1>7

\* A division with its remainder.
LEMMA Quotient ==
    ASSUME NEW w \in Nat \ {0}, NEW q \in Nat, NEW r \in 0..(w - 1)
    PROVE  (q * w + r) \div w = q
  OBVIOUS

LEMMA AwgInitInv ==
    ASSUME Positive, AwgInit
    PROVE  AwgInv
<1>1. IInv
  BY InitInv DEF AwgInit
<1>2. /\ ~busy /\ ~out /\ ~on /\ count = 0 /\ adr = 0 /\ cycle = Length /\ ~again
      /\ early = FALSE /\ again = FALSE
      /\ list \in [Positions -> Samples]
      /\ cells = [c \in Positions |-> list[Depth - 1 - c]]
  BY DEF AwgInit, Init
<1>3. Mirror
  BY <1>2 DEF Mirror, Pulses
<1>4. count \in 0..Pulses /\ adr \in Positions /\ cycle \in 0..Length
  BY <1>2, PlayedFacts DEF Positions
<1>5. cells \in [Positions -> Samples]
  BY <1>2, PlayedFacts DEF Positions
<1>6. AwgTypeOK
  BY <1>1, <1>2, <1>4, <1>5 DEF AwgTypeOK, IInv
<1>7. RestInv /\ BeginInv /\ PlayInv
  BY <1>2 DEF RestInv, BeginInv, PlayInv, Beginning
<1> QED
  BY <1>1, <1>3, <1>4, <1>6, <1>7 DEF AwgInv

\* What the program stores, it stores in both orders.
LEMMA StoreMirrors ==
    ASSUME Positive, Mirror, Store,
           cells \in [Positions -> Samples], list \in [Positions -> Samples]
    PROVE  Mirror' /\ cells' \in [Positions -> Samples] /\ list' \in [Positions -> Samples]
<1>1. CASE UNCHANGED <<cells, list>>
  BY <1>1 DEF Mirror
<1>2. ASSUME NEW p \in Positions, NEW s \in Samples,
             cells' = [cells EXCEPT ![Cell(p)] = s], list' = [list EXCEPT ![p] = s]
      PROVE  Mirror' /\ cells' \in [Positions -> Samples] /\ list' \in [Positions -> Samples]
  <2>1. Cell(p) \in Positions
    BY PlayedFacts DEF Cell, Positions
  <2>2. cells' \in [Positions -> Samples] /\ list' \in [Positions -> Samples]
    BY <1>2, <2>1
  <2>3. ASSUME NEW c \in Positions
        PROVE  cells'[c] = list'[Pulses - c]
    <3>1. Pulses - c \in Positions /\ (Cell(p) = c <=> Pulses - c = p)
      BY PlayedFacts DEF Cell, Positions
    <3>2. cells[c] = list[Pulses - c]
      BY DEF Mirror
    <3> QED
      BY <1>2, <3>1, <3>2
  <2>4. Mirror'
    BY <2>3 DEF Mirror, Pulses
  <2> QED
    BY <2>2, <2>4
<1> QED
  BY <1>1, <1>2 DEF Store

\* Position and time after each step of the train.
LEMMA AwgTrain ==
    ASSUME Positive, AwgInv, NEW trigger \in BOOLEAN, AwgEdge(trigger), IInv'
    PROVE  /\ RestInv' /\ BeginInv' /\ PlayInv'
           /\ count' \in 0..Pulses /\ cycle' \in 0..Length /\ adr' \in Positions
           /\ {early', again'} \subseteq BOOLEAN
<1> USE DEF AwgInv
<1>1. /\ Period \in Nat /\ Period >= 1 /\ Pulses \in Nat /\ Pace = Period + 2
      /\ Length \in Nat /\ Positions = 0..Pulses
  BY PlayedFacts DEF Positive, Positions
<1>2. Running
  BY EdgeTrain DEF AwgEdge
<1>3. /\ adr' = count
      /\ early' = IF Starts THEN on /\ ~busy ELSE early
      /\ again' = (Starts /\ busy)
      /\ cycle' = IF out /\ count = Pulses THEN (IF early THEN 1 ELSE 0)
                  ELSE IF cycle < Length THEN cycle + 1 ELSE cycle
      /\ Starts => count' = Pulses
  BY DEF AwgEdge, ReadPort, History
<1>4. /\ on \in BOOLEAN /\ busy \in BOOLEAN /\ out \in BOOLEAN
      /\ on' \in BOOLEAN /\ busy' \in BOOLEAN /\ out' \in BOOLEAN
      /\ early \in BOOLEAN /\ again \in BOOLEAN
      /\ count \in 0..Pulses /\ cycle \in 0..Length
  BY DEF AwgTypeOK, IInv, TypeOK
<1>5. adr' \in Positions /\ {early', again'} \subseteq BOOLEAN
  BY <1>1, <1>3, <1>4 DEF Starts
<1>6. cycle' \in 0..Length
  BY <1>1, <1>3, <1>4, PlayedFacts
<1>7. CASE Train!Start
  <2>1. /\ ~busy /\ out' /\ busy'
        /\ Countdown' = IF on THEN Period ELSE Period + 1
    BY <1>4, <1>7 DEF Train!Start, Train!Pulse
  <2>2. Starts /\ count' = Pulses /\ ~again' /\ (early' <=> on)
    BY <1>3, <2>1 DEF Starts
  <2>3. adr' = 0 /\ cycle' = Length
    BY <1>1, <1>3, <1>4, <2>1 DEF RestInv
  <2>4. Beginning'
    BY <2>1, <2>2 DEF Beginning, Pulses
  <2>5. BeginInv'
    BY <2>1, <2>2, <2>3, <2>4 DEF BeginInv, Length
  <2> QED
    BY <1>1, <1>5, <1>6, <2>1, <2>2, <2>4, <2>5 DEF RestInv, PlayInv
<1>8. CASE Train!Idle
  <2>1. ~busy /\ ~out' /\ ~busy' /\ count' = count /\ ~on'
    BY <1>4, <1>8 DEF Train!Idle, Train!Quiet
  <2>2. count = 0 /\ cycle' = Length
    BY <1>1, <1>3, <1>4, <2>1 DEF RestInv
  <2>3. ~again' /\ ~Beginning'
    BY <1>3, <2>1 DEF Starts, Beginning
  <2>4. RestInv'
    BY <1>3, <2>1, <2>2 DEF RestInv, Length
  <2> QED
    BY <1>1, <1>5, <1>6, <2>1, <2>2, <2>3, <2>4 DEF BeginInv, PlayInv
<1>9. CASE Train!CountDown
  <2>1. /\ busy /\ Countdown > 0 /\ ~out' /\ busy' /\ count' = count
        /\ Countdown' = Countdown - 1
    BY <1>4, <1>9 DEF Train!CountDown, Train!Quiet
  <2>2. ~again' /\ ~Beginning' /\ adr' = count'
    BY <1>3, <2>1 DEF Starts, Beginning
  <2>3. Countdown' \in 0..Period /\ cycle' = Played(count) + Period - Countdown'
    <3>1. CASE Beginning
      <4>1. cycle' = IF early THEN 1 ELSE 0
        BY <1>3, <3>1 DEF Beginning
      <4>2. Countdown' = IF early THEN Period - 1 ELSE Period
        BY <1>1, <1>4, <2>1, <3>1 DEF BeginInv
      <4>3. Played(count) = 0
        BY <3>1, PlayedFacts DEF Beginning
      <4> QED
        BY <1>1, <1>4, <4>1, <4>2, <4>3
    <3>2. CASE ~Beginning
      <4>1. /\ cycle = Played(count) + Period - Countdown
            /\ Countdown \in 0..(Period + 1)
        BY <2>1, <3>2 DEF PlayInv
      <4>2. Played(count) \in Nat /\ Played(count) + Pace <= Length
        BY <1>4, PlayedFacts
      <4>3. cycle' = cycle + 1
        BY <1>1, <1>3, <2>1, <3>2, <4>1, <4>2 DEF Beginning
      <4> QED
        BY <1>1, <2>1, <4>1, <4>2, <4>3
    <3> QED
      BY <3>1, <3>2
  <2>4. PlayInv'
    <3>1. Played(count)' = Played(count)
      BY <2>1 DEF Played, Pulses, Pace
    <3>2. Countdown' # Period + 1 /\ Countdown' \in 0..(Period + 1)
      BY <1>1, <2>3
    <3> QED
      BY <1>4, <2>1, <2>2, <2>3, <3>1, <3>2 DEF PlayInv
  <2> QED
    BY <1>1, <1>4, <1>5, <1>6, <2>1, <2>2, <2>4 DEF RestInv, BeginInv
<1>10. CASE Train!NextPulse
  <2>1. /\ busy /\ Countdown = 0 /\ count > 0 /\ out' /\ busy' /\ count' = count - 1
        /\ Countdown' = Period + 1
    BY <1>4, <1>10 DEF Train!NextPulse, Train!Pulse
  <2>2. ~Beginning
    BY <1>1, <1>4, <2>1 DEF BeginInv
  <2>3. count \in 1..Pulses /\ count' \in 0..Pulses /\ count' # Pulses
    BY <1>1, <1>4, <2>1
  <2>4. ~again' /\ ~Beginning' /\ adr' = count' + 1
    <3>1. ~again'
      BY <1>3, <2>1, <2>3 DEF Starts
    <3>2. ~Beginning'
      BY <2>3 DEF Beginning, Pulses
    <3>3. adr' = count' + 1
      BY <1>3, <1>4, <2>1
    <3> QED
      BY <3>1, <3>2, <3>3
  <2>5. cycle = Played(count) + Period
    BY <1>1, <1>4, <2>1, <2>2, PlayedFacts DEF PlayInv
  <2>6. cycle' = Played(count') + Period - Countdown'
    <3>1. Played(count) \in Nat /\ Played(count) + Pace <= Length
      BY <1>4, PlayedFacts
    <3>2. Played(count') = Played(count) + Pace
      BY <2>1, <2>3, PlayedFacts
    <3>3. cycle' = cycle + 1
      BY <1>1, <1>3, <2>1, <2>2, <2>5, <3>1 DEF Beginning
    <3> QED
      BY <1>1, <2>1, <2>5, <3>1, <3>2, <3>3
  <2>7. PlayInv'
    <3>1. Played(count)' = Played(count')
      BY DEF Played, Pulses, Pace
    <3>2. Countdown' \in 0..(Period + 1)
      BY <1>1, <2>1
    <3> QED
      BY <2>1, <2>4, <2>6, <3>1, <3>2 DEF PlayInv
  <2> QED
    BY <1>5, <1>6, <2>1, <2>3, <2>4, <2>7 DEF RestInv, BeginInv
<1>11. CASE Train!Continue
  <2>1. /\ busy /\ Countdown = 0 /\ count = 0 /\ out' /\ busy'
        /\ Countdown' = Period + 1
    BY <1>4, <1>11 DEF Train!Continue, Train!Pulse
  <2>2. Starts /\ count' = Pulses /\ again' /\ ~early'
    BY <1>3, <2>1 DEF Starts
  <2>3. ~Beginning
    BY <1>1, <1>4, <2>1 DEF BeginInv
  <2>4. cycle' = Length - 1
    <3>1. cycle = Played(0) + Period
      BY <1>1, <1>4, <2>1, <2>3, PlayedFacts DEF PlayInv
    <3> QED
      BY <1>1, <1>3, <2>1, <2>3, <3>1, PlayedFacts DEF Beginning
  <2>5. Beginning'
    BY <2>1, <2>2 DEF Beginning, Pulses
  <2>6. BeginInv'
    BY <1>3, <2>1, <2>2, <2>4, <2>5 DEF BeginInv, Length
  <2> QED
    BY <1>1, <1>5, <1>6, <2>1, <2>2, <2>5, <2>6 DEF RestInv, PlayInv
<1>12. CASE Train!End
  <2>1. /\ busy /\ Countdown = 0 /\ count = 0 /\ ~out' /\ ~busy' /\ count' = 0 /\ on'
    BY <1>4, <1>12 DEF Train!End, Train!Quiet
  <2>2. ~Beginning
    BY <1>1, <1>4, <2>1 DEF BeginInv
  <2>3. cycle' = Length - 1
    <3>1. cycle = Played(0) + Period
      BY <1>1, <1>4, <2>1, <2>2, PlayedFacts DEF PlayInv
    <3> QED
      BY <1>1, <1>3, <2>1, <2>2, <3>1, PlayedFacts DEF Beginning
  <2>4. ~again' /\ ~Beginning'
    BY <1>3, <2>1 DEF Starts, Beginning
  <2>5. RestInv'
    BY <1>3, <2>1, <2>3 DEF RestInv, Length
  <2> QED
    BY <1>1, <1>5, <1>6, <2>1, <2>4, <2>5 DEF BeginInv, PlayInv
<1> QED
  BY <1>2, <1>7, <1>8, <1>9, <1>10, <1>11, <1>12 DEF Running

LEMMA AwgInvariance ==
    ASSUME Positive
    PROVE  AwgSpec => []AwgInv
<1>1. AwgInit => AwgInv
  BY AwgInitInv
<1>2. AwgInv /\ [AwgNext]_awgVars => AwgInv'
  <2>1. ASSUME AwgInv, NEW trigger \in BOOLEAN, AwgEdge(trigger)
        PROVE  AwgInv'
    <3>1. IInv'
      BY <2>1, EdgeInv DEF AwgInv, AwgEdge
    <3>2. Mirror' /\ cells' \in [Positions -> Samples] /\ list' \in [Positions -> Samples]
      BY <2>1, StoreMirrors DEF AwgInv, AwgTypeOK, AwgEdge
    <3>3. /\ RestInv' /\ BeginInv' /\ PlayInv'
          /\ count' \in 0..Pulses /\ cycle' \in 0..Length /\ adr' \in Positions
          /\ {early', again'} \subseteq BOOLEAN
      BY <2>1, <3>1, AwgTrain
    <3>4. AwgTypeOK'
      BY <3>1, <3>2, <3>3 DEF AwgTypeOK, IInv, Positions, Length
    <3> QED
      BY <3>1, <3>2, <3>3, <3>4 DEF AwgInv, Pulses
  <2>2. AwgInv /\ UNCHANGED awgVars => AwgInv'
    BY DEF AwgInv, awgVars, awg, vars, gen, IInv, TypeOK, BurstInv, EndInv, AwgTypeOK,
           Mirror, RestInv, BeginInv, PlayInv, Beginning, Played, Countdown,
           Positions, Pulses, Pace, Length
  <2> QED
    BY <2>1, <2>2 DEF AwgNext
<1> QED
  BY <1>1, <1>2, PTL DEF AwgSpec

\* The sample that is due follows from the time of the waveform.
LEMMA DueFacts ==
    ASSUME Positive, AwgInv
    PROVE  Due = Pulses - adr
<1> USE DEF AwgInv
<1>1. /\ Period \in Nat /\ Pulses \in Nat /\ Pulses = Depth - 1 /\ Pace = Period + 2
      /\ Pace \in Nat \ {0} /\ Length \in Nat
  BY PlayedFacts DEF Positive
<1>2. Length = Pulses * Pace + Pace
  BY <1>1, PlayedFacts DEF Played
<1>3. ASSUME cycle = Length \/ cycle = Length - 1, adr = 0
      PROVE  Due = Pulses - adr
  <2>1. CASE cycle = Length
    BY <1>1, <1>3, <2>1 DEF Due
  <2>2. CASE cycle = Length - 1
    <3>1. cycle = Pulses * Pace + (Pace - 1) /\ cycle # Length
      BY <1>1, <1>2, <2>2
    <3>2. Pace - 1 \in 0..(Pace - 1)
      BY <1>1
    <3>3. (Pulses * Pace + (Pace - 1)) \div Pace = Pulses
      BY <1>1, <3>2, Quotient
    <3> QED
      BY <1>1, <1>3, <3>1, <3>3 DEF Due
  <2> QED
    BY <1>3, <2>1, <2>2
<1>4. CASE ~busy
  BY <1>3, <1>4 DEF RestInv
<1>5. CASE Beginning
  BY <1>3, <1>5 DEF BeginInv
<1>6. CASE busy /\ ~Beginning
  <2>1. /\ cycle = Played(count) + Period - Countdown
        /\ adr = IF out THEN count + 1 ELSE count
        /\ Countdown \in 0..(Period + 1)
        /\ out <=> Countdown = Period + 1
    BY <1>6 DEF PlayInv
  <2>2. count \in 0..Pulses /\ Played(count) \in Nat /\ Played(count) + Pace <= Length
    BY PlayedFacts
  <2>3. cycle # Length
    BY <1>1, <2>1, <2>2
  <2>4. CASE out
    <3>1. count \in 0..(Pulses - 1)
      BY <1>1, <1>6, <2>2, <2>4 DEF Beginning
    <3>2. Played(count) = Played(count + 1) + Pace
      <4>1. count + 1 \in 1..Pulses /\ (count + 1) - 1 = count
        BY <1>1, <3>1
      <4> QED
        BY <4>1, PlayedFacts
    <3>3. Played(count + 1) \in Nat
      BY <1>1, <3>1, PlayedFacts
    <3>4. cycle = (Pulses - adr) * Pace + (Pace - 1)
      BY <1>1, <2>1, <2>2, <2>4, <3>2, <3>3 DEF Played
    <3>5. Pulses - adr \in Nat /\ Pace - 1 \in 0..(Pace - 1)
      BY <1>1, <2>1, <2>4, <3>1
    <3> QED
      BY <1>1, <2>3, <3>4, <3>5, Quotient DEF Due, Pace
  <2>5. CASE ~out
    <3>1. cycle = (Pulses - adr) * Pace + (Period - Countdown)
      BY <1>1, <2>1, <2>2, <2>5 DEF Played
    <3>2. Pulses - adr \in Nat /\ Period - Countdown \in 0..(Pace - 1)
      BY <1>1, <2>1, <2>2, <2>5
    <3> QED
      BY <1>1, <2>3, <3>1, <3>2, Quotient DEF Due, Pace
  <2> QED
    BY <2>4, <2>5
<1> QED
  BY <1>4, <1>5, <1>6

(* Whatever the depth, the period, the triggers and what is stored, the    *)
(* output is the sample of the list that is due (awg.py:95-111, 114-119).  *)
THEOREM Plays ==
    ASSUME Positive
    PROVE  AwgSpec => []PlaysList
<1>1. AwgInv => PlaysList
  <2> SUFFICES ASSUME AwgInv
               PROVE  PlaysList
    OBVIOUS
  <2>1. adr \in Positions /\ cells[adr] = list[Pulses - adr]
    BY DEF AwgInv, AwgTypeOK, Mirror
  <2> QED
    BY <2>1, DueFacts DEF PlaysList, Output
<1> QED
  BY <1>1, AwgInvariance, PTL

(* One waveform follows another exactly when the last sample has had its   *)
(* time (awg.py:92-94, 118-123).                                           *)
THEOREM FollowsOn ==
    ASSUME Positive
    PROVE  AwgSpec => []Seamless
<1>1. AwgInv => Seamless
  BY DEF AwgInv, BeginInv, Seamless
<1> QED
  BY <1>1, AwgInvariance, PTL
=============================================================================
