------------------------------ MODULE Counter ------------------------------
(***************************************************************************)
(* The counter of modules/migen/counter.py with the registers that         *)
(* modules/counter.py gives it.  Every step is one clock edge, at which a  *)
(* register that the program has written changes as well.  The registers'  *)
(* width is the counter's default of 32 bits, which modules/counter.py     *)
(* leaves it whatever width the registers have.                            *)
(***************************************************************************)
EXTENDS Integers

CONSTANTS CounterSpan,       \* 2^width
          CounterSettings    \* values that start, step and stop are set to

CounterConstantsFit ==
    /\ CounterSpan \in Nat \ {0}
    /\ CounterSettings \subseteq 0..(CounterSpan - 1)

VARIABLES up,                      \* "direction" is "up", fixed
          hasStop,                 \* "stop" is not None, fixed
          start, step, stop, enable,   \* registers
          reset,                   \* a trigger
          value,                   \* count_with_carry, one bit wider than the count
          steady                   \* history: start, step and stop have not been
                                   \* changed since the count was at "start"
counterSettings == <<start, step, stop>>
counterOptions == <<up, hasStop>>
counterVars == <<counterOptions, counterSettings, enable, reset, value, steady>>

Count == IF value >= CounterSpan THEN value - CounterSpan ELSE value
Carry == value >= CounterSpan

\* (Mutant) One too far.
CounterDoneLate == hasStop /\ Count = stop + 1
CounterDone == hasStop /\ Count = stop

\* The step is added to the count without its carry, or taken from it with
\* the carry as what is borrowed.
\* (Mutant) The old carry is kept.
AdvanceWhole ==
    IF up THEN (value + step) % (2 * CounterSpan) ELSE (value - step) % (2 * CounterSpan)
Advance ==
    IF up THEN Count + step
    ELSE IF Count >= step THEN Count - step ELSE 2 * CounterSpan + Count - step

CounterClock ==
    value' = IF reset THEN start ELSE IF enable /\ ~CounterDone THEN Advance ELSE value

\* A program sets one register at a time.
Program ==
    \/ UNCHANGED <<counterSettings, enable>>
    \/ start' \in CounterSettings /\ UNCHANGED <<step, stop, enable>>
    \/ step' \in CounterSettings /\ UNCHANGED <<start, stop, enable>>
    \/ hasStop /\ stop' \in CounterSettings /\ UNCHANGED <<start, step, enable>>
    \/ enable' \in BOOLEAN /\ UNCHANGED counterSettings

CounterInit ==
    /\ up \in BOOLEAN /\ hasStop \in BOOLEAN
    /\ start \in CounterSettings /\ step \in CounterSettings /\ stop \in CounterSettings
    /\ enable \in BOOLEAN
    /\ reset = FALSE
    /\ value = start
    /\ steady = TRUE

CounterNext ==
    /\ CounterClock
    /\ Program
    /\ UNCHANGED counterOptions
    /\ reset' \in BOOLEAN
    /\ steady' = (counterSettings' = counterSettings /\ (reset \/ steady))

CounterSpec == CounterInit /\ [][CounterNext]_counterVars

-----------------------------------------------------------------------------
(* Properties.                                                             *)

CounterTypeOK ==
    /\ {start, step, stop} \subseteq 0..(CounterSpan - 1)
    /\ {up, hasStop, enable, reset, steady} \subseteq BOOLEAN
    /\ value \in 0..(2 * CounterSpan - 1)

(* Whenever the counter counts, its carry says whether the count has       *)
(* passed zero at this edge, and not at an earlier one (counter.py:26-27,  *)
(* 40-50).                                                                 *)
CarryMarksWraps ==
    [][enable /\ ~reset /\ ~CounterDone =>
          (Carry' <=> IF up THEN Count' < Count ELSE Count' > Count)]_counterVars

\* The steps from start lead to stop, before the count passes zero.
OnTheWay ==
    hasStop /\ \E k \in 0..CounterSpan :
                   IF up THEN stop = start + k * step ELSE start = stop + k * step

(* If whole steps lead to the stop value, the counter does not pass it,    *)
(* and there is no carry.  It only compares for equality, so that it does  *)
(* pass a stop value that no step meets, or that is set too late           *)
(* (counter.py:18, 28 and 44-45).                                          *)
StopsAtStop ==
    steady /\ OnTheWay => value \in (IF up THEN start..stop ELSE stop..start)

(* The counter has stopped at or beyond its stop value                     *)
(* (counter.py:18-19, 28).                                                 *)
DoneBeyondStop ==
    hasStop /\ ~Carry /\ steady /\ (IF up THEN start <= stop /\ Count >= stop
                                          ELSE start >= stop /\ Count <= stop)
        => CounterDone
=============================================================================
