------------------------------ MODULE MC_Burst ------------------------------
(***************************************************************************)
(* The burst generator, on its own with any number of pulses and with      *)
(* resets, or as part of a waveform generator.                             *)
(***************************************************************************)
EXTENDS Awg

VARIABLE plays   \* whether there is a waveform, fixed

BurstInit ==
    /\ AwgInit
    /\ plays \in BOOLEAN
    /\ plays \/ \E s \in Samples : list = [p \in Positions |-> s]

BurstNext ==
    \/ plays /\ AwgNext /\ UNCHANGED plays
    \/ ~plays /\ Next /\ UNCHANGED <<awg, plays>>

BurstSpec == BurstInit /\ [][BurstNext]_<<awgVars, plays>>
=============================================================================
