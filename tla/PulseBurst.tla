----------------------------- MODULE PulseBurst -----------------------------
(***************************************************************************)
(* MigenPulseBurstGen (modules/migen/pulsegen.py): a trigger starts a      *)
(* burst of pulses + 1 pulses.  The pulses are those of a MigenPulseGen    *)
(* that is switched on for the time of the burst.  Every step is one clock *)
(* edge with the values that the inputs have at it.                        *)
(***************************************************************************)
EXTENDS Integers

CONSTANTS Period,     \* "period"
          CountSpan,  \* 2^w for the width w of "period"
          Bursts      \* the values of the input "pulses"

ASSUME BurstsAssumption == Bursts \subseteq Nat

VARIABLES on, genOut, genCount, genCarry,  \* pulsegen_on and the pulsegen
          out, count, busy,                \* the outputs
          since                            \* history: cycles since the last
                                           \* pulse, up to Period + 2
gen  == <<genOut, genCount, genCarry>>
vars == <<on, gen, out, count, busy, since>>

Gen == INSTANCE PulseGen WITH
           HighAfterOn <- FALSE, FirstOffset <- 1,
           out <- genOut, count <- genCount, carry <- genCarry, high <- 0

Init ==
    /\ Gen!Registers
    /\ on = FALSE
    /\ out = FALSE
    /\ count = 0
    /\ busy = FALSE
    /\ since = Period + 2

OnAfter(trigger, reset) == ~reset /\ (busy \/ trigger)

Outputs(pulse, n, stillBusy) ==
    /\ out' = pulse
    /\ count' = n
    /\ busy' = stillBusy

ResetOutputs == Outputs(FALSE, 0, FALSE)

\* (Mutants) The last pulse is left out; the count is not looked at.
LastPulse == count <= 1
NeverOver == FALSE
BurstOver == count = 0

Idle(trigger) ==
    IF trigger THEN \E n \in Bursts : Outputs(TRUE, n, TRUE)
               ELSE Outputs(FALSE, count, FALSE)

Bursting(trigger) ==
    CASE ~genOut                           -> Outputs(FALSE, count, TRUE)
      [] genOut /\ ~BurstOver              -> Outputs(TRUE, count - 1, TRUE)
      [] genOut /\ BurstOver /\ trigger    -> \E n \in Bursts : Outputs(TRUE, n, TRUE)
      [] genOut /\ BurstOver /\ ~trigger   -> Outputs(FALSE, count, FALSE)

Edge(trigger, reset) ==
    /\ Gen!Clock
    /\ on' = OnAfter(trigger, reset)
    /\ \/ reset /\ ResetOutputs
       \/ ~reset /\ ~busy /\ Idle(trigger)
       \/ ~reset /\ busy /\ Bursting(trigger)
    /\ since' = IF out' THEN 0 ELSE IF since < Period + 2 THEN since + 1 ELSE since

Next == \E trigger, reset \in BOOLEAN : Edge(trigger, reset)

Spec == Init /\ [][Next]_vars

-----------------------------------------------------------------------------
(* Properties.                                                             *)

TypeOK ==
    /\ on \in BOOLEAN
    /\ genOut \in BOOLEAN
    /\ genCount \in 0..(CountSpan - 1)
    /\ genCarry \in BOOLEAN
    /\ out \in BOOLEAN
    /\ count \in Nat
    /\ busy \in BOOLEAN
    /\ since \in 0..(Period + 2)

(* As long as a burst goes on, the pulses are Period + 2 cycles apart; not *)
(* so after a trigger in the cycle in which "on" still is high from an     *)
(* earlier burst, and not with a period of zero (pulsegen.py:53 and 111).  *)
EvenSpacing ==
    [][busy /\ busy' => (out' <=> since = Period + 1)]_vars

(* As long as a burst goes on, its last pulse is no more than Period + 1    *)
(* cycles ago; with a period of zero, this would be a pulse in every other  *)
(* cycle, as pulsegen.py:87-90 says.                                        *)
PulsesNotLate ==
    busy => since <= Period + 1

\* The cycles that the pulsegen needs to make the burst's next pulse.
Countdown == IF ~busy \/ genOut THEN 0 ELSE IF genCarry THEN 1 ELSE genCount + 2

(* The generator counts its pulses and its cycles like a plain countdown,  *)
(* whenever it is triggered or reset, although they are counted by a       *)
(* second generator that learns of both a cycle later.                     *)
Train == INSTANCE PulseTrain WITH
             wait <- Countdown, justEnded <- (on /\ ~busy)
ImplementsTrain == Train!Spec
=============================================================================
