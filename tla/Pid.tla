-------------------------------- MODULE Pid --------------------------------
(***************************************************************************)
(* The PI controller of modules/migen/pid.py, one clock edge at a time.    *)
(* All signals are signed; each has a width of its own and wraps.          *)
(***************************************************************************)
EXTENDS Integers, Sequences

CONSTANTS Span,        \* 2^width
          Inputs,      \* values of the input and the setpoint
          Gains        \* values of k_p and k_i

PidConstantsFit ==
    /\ Span \in Nat \ {0, 1} /\ Span % 2 = 0
    /\ Inputs \cup Gains \subseteq (-(Span \div 2))..(Span \div 2 - 1)

VARIABLES setpoint, kp, ki,                        \* fixed
          error, prop, int, intSum, sum, control,  \* the pipeline
          recent,    \* history: the last errors, the latest one first, ...
          integral   \* ... and the sum of all before them, modulo Span
pidSettings == <<setpoint, kp, ki>>
pidVars == <<pidSettings, error, prop, int, intSum, sum, control, recent, integral>>

\* A signed signal with room for "span" values keeps the lower bits.
Signed(x, span) == ((x + span \div 2) % span) - span \div 2
Error(in)  == Signed(in - setpoint, 2 * Span)
Product(a) == Signed(error * a, 2 * Span * Span)
\* (Mutant) The integral has no room for more than one product.
IntegralNarrow == Signed(intSum + int, Span \div 2)
Integral == Signed(intSum + int, 2 * Span * Span)

PidClock(in) ==
    /\ error' = Error(in)
    /\ prop' = Product(kp)
    /\ int' = Product(ki)
    /\ intSum' = Integral
    /\ sum' = Signed(prop + intSum, 4 * Span * Span)
    /\ control' = Signed(sum, Span)

Latency == 5   \* edges from an input to its part in the integral at the output

PidRegisters ==   \* after power-on
    /\ error = 0 /\ prop = 0 /\ int = 0 /\ intSum = 0 /\ sum = 0 /\ control = 0
    /\ recent = [i \in 1..(Latency - 1) |-> 0]
    /\ integral = 0

PidInit ==
    /\ setpoint \in Inputs /\ kp \in Gains /\ ki \in Gains
    /\ PidRegisters

PidNext == \E in \in Inputs :
    /\ PidClock(in)
    /\ recent' = <<in - setpoint>> \o SubSeq(recent, 1, Latency - 2)
    /\ integral' = (integral + recent[Latency - 1]) % Span
    /\ UNCHANGED pidSettings

PidSpec == PidInit /\ [][PidNext]_pidVars

-----------------------------------------------------------------------------
(* Properties.                                                             *)

Room(span) == (-(span \div 2))..(span \div 2 - 1)

PidTypeOK ==
    /\ {setpoint, control} \subseteq Room(Span)
    /\ {kp, ki} \subseteq Gains
    /\ error \in Room(2 * Span)
    /\ {prop, int, intSum} \subseteq Room(2 * Span * Span)
    /\ sum \in Room(4 * Span * Span)

(* The output is the lower bits of k_p times the error four edges ago plus *)
(* k_i times the sum of all errors before, as if no signal on the way had  *)
(* a limited width; it wraps where it would have to saturate               *)
(* (pid.py:45-58).                                                         *)
OutIsExact ==
    control = Signed(kp * recent[Latency - 1] + ki * integral, Span)
=============================================================================
