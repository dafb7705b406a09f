----------------------------- MODULE PulseTrain -----------------------------
(***************************************************************************)
(* What a burst generator does for those who only see its trigger, reset   *)
(* and outputs: a trigger starts a train of pulses with a countdown of     *)
(* Period + 1 cycles before each next one, and the generator stays busy    *)
(* for one more countdown after the last.  A train that is triggered in    *)
(* the very cycle after another one ended counts one cycle less to its     *)
(* second pulse.  PulseBurst is shown to implement this.                   *)
(***************************************************************************)
EXTENDS Integers

CONSTANTS Period,
          Bursts     \* the values of the input "pulses"

VARIABLES out, busy, count,
          wait,      \* cycles until the countdown ends
          justEnded  \* the last cycle was the end of a train

vars == <<out, busy, count, wait, justEnded>>

Init ==
    /\ out = FALSE
    /\ busy = FALSE
    /\ count = 0
    /\ wait = 0
    /\ justEnded = FALSE

\* The countdown to the next pulse after one that comes now.
Pulse(n, first) ==
    /\ out' = TRUE
    /\ busy' = TRUE
    /\ count' = n
    /\ wait' = first
    /\ justEnded' = FALSE

Quiet(stillBusy, n, ended) ==
    /\ out' = FALSE
    /\ busy' = stillBusy
    /\ count' = n
    /\ justEnded' = ended

Start ==
    /\ ~busy
    /\ \E n \in Bursts : Pulse(n, IF justEnded THEN Period ELSE Period + 1)

Idle == ~busy /\ Quiet(FALSE, count, FALSE) /\ wait' = 0

CountDown ==
    /\ busy
    /\ wait > 0
    /\ Quiet(TRUE, count, FALSE)
    /\ wait' = wait - 1

NextPulse ==
    /\ busy
    /\ wait = 0
    /\ count > 0
    /\ Pulse(count - 1, Period + 1)

\* A trigger at the end of a train continues with another one.
Continue ==
    /\ busy
    /\ wait = 0
    /\ count = 0
    /\ \E n \in Bursts : Pulse(n, Period + 1)

End ==
    /\ busy
    /\ wait = 0
    /\ count = 0
    /\ Quiet(FALSE, 0, TRUE)
    /\ wait' = 0

Reset == Quiet(FALSE, 0, FALSE) /\ wait' = 0

Next == Start \/ Idle \/ CountDown \/ NextPulse \/ Continue \/ End \/ Reset

Spec == Init /\ [][Next]_vars
=============================================================================
