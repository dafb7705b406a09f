------------------------------ MODULE PulseGen ------------------------------
(***************************************************************************)
(* MigenPulseGen (modules/migen/pulsegen.py): while "on" is high, a pulse  *)
(* of one clock cycle every Period + 2 clock cycles.  Every step is one    *)
(* clock edge, at which all registers take their new values at once.       *)
(***************************************************************************)
EXTENDS Integers

CONSTANTS Period,       \* "period"
          CountSpan,    \* 2^w for the width w of "period" and of the counter
          HighAfterOn,  \* "high_after_on"
          FirstOffset   \* "first_cycle_period_offset"

ASSUME PeriodAssumption ==
    Period \in Nat /\ CountSpan \in Nat /\ Period < CountSpan
ASSUME OptionsAssumption ==
    HighAfterOn \in BOOLEAN /\ FirstOffset \in {0, 1}

VARIABLES on,     \* input
          out,    \* output
          count,  \* cycles to count down, modulo CountSpan
          carry,  \* the count went below zero
          high    \* history: edges since "on" rose, counted to Period + 2

vars == <<on, out, count, carry, high>>

\* (Mutants) The countdown starts one cycle off.
ReloadShort == (Period - 1) % CountSpan
ReloadLong == Period + 1
Reload == Period

FirstReload == (Period - FirstOffset) % CountSpan

\* The counter and the carry are decremented as one number, which borrows
\* from the carry.
Decrement ==
    /\ count' = IF count = 0 THEN CountSpan - 1 ELSE count - 1
    /\ carry' = (count = 0)

Clock ==
    /\ out' = (carry /\ on)
    /\ \/ ~on /\ carry' = HighAfterOn /\ count' = FirstReload
       \/ on /\ carry /\ carry' = FALSE /\ count' = Reload
       \/ on /\ ~carry /\ Decrement

Registers ==   \* after power-on
    /\ out = FALSE
    /\ count = FirstReload
    /\ carry = HighAfterOn

-----------------------------------------------------------------------------
(* The generator on its own, with an input that changes at will.           *)

Init == Registers /\ on \in BOOLEAN /\ high = 0

Next ==
    /\ Clock
    /\ on' \in BOOLEAN
    /\ high' = IF ~on THEN 0 ELSE IF high = Period + 2 THEN 1 ELSE high + 1

Spec == Init /\ [][Next]_vars

-----------------------------------------------------------------------------
(* Properties.                                                             *)

TypeOK ==
    /\ on \in BOOLEAN
    /\ out \in BOOLEAN
    /\ count \in 0..(CountSpan - 1)
    /\ carry \in BOOLEAN
    /\ high \in 0..(Period + 2)

(* A pulse every Period + 2 cycles as long as "on" is high: the first one  *)
(* at once (high_after_on) or after a full period, and none when it is low *)
(* (pulsegen.py:21-31).                                                    *)
PulseEveryPeriod ==
    out <=> high = IF HighAfterOn THEN 1 ELSE Period + 2
=============================================================================
