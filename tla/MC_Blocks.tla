------------------------------ MODULE MC_Blocks ------------------------------
(***************************************************************************)
(* The logic blocks that share nothing but the clock, small: one of them,  *)
(* chosen at the start, is clocked, and the others rest.                   *)
(***************************************************************************)
EXTENDS PulseGen, SpiMachine, Counter, Pid

VARIABLE block   \* fixed

\* Values of Inputs and Gains.
SomeInputs == {-2, 1}
SomeGains == {-2, 0, 1}

ASSUME ConstantsAssumption == CounterConstantsFit /\ PidConstantsFit /\ SpiConstantsFit

\* The settings of blocks that rest.
ASSUME RestsAssumption == 1 \in Inputs /\ {0} \subseteq Gains \cap Divs \cap HalfCycles

CounterRests ==
    /\ up = TRUE /\ hasStop = FALSE
    /\ start = 0 /\ step = 0 /\ stop = 0 /\ enable = FALSE
    /\ reset = FALSE /\ value = 0 /\ steady = TRUE

PidRests ==
    /\ setpoint = 1 /\ kp = 0 /\ ki = 0
    /\ PidRegisters

SpiRests ==
    /\ conf = [phase |-> FALSE, lsbFirst |-> FALSE, div |-> 0,
               leading |-> 0, trailing |-> 0, idle |-> 0]
    /\ SpiRegisters

BlocksInit ==
    /\ block \in {"pulsegen", "counter", "pid", "spi"}
    /\ IF block = "pulsegen" THEN Init ELSE Registers /\ on = FALSE /\ high = 0
    /\ IF block = "counter" THEN CounterInit ELSE CounterRests
    /\ IF block = "pid" THEN PidInit ELSE PidRests
    /\ IF block = "spi" THEN SpiInit ELSE SpiRests

BlocksNext ==
    \/ block = "pulsegen" /\ Next /\ UNCHANGED <<counterVars, pidVars, spiVars, block>>
    \/ block = "counter" /\ CounterNext /\ UNCHANGED <<vars, pidVars, spiVars, block>>
    \/ block = "pid" /\ PidNext /\ UNCHANGED <<vars, counterVars, spiVars, block>>
    \/ block = "spi" /\ SpiNext /\ UNCHANGED <<vars, counterVars, pidVars, block>>

BlocksSpec == BlocksInit /\ [][BlocksNext]_<<vars, counterVars, pidVars, spiVars, block>>

-----------------------------------------------------------------------------
(* Every block's type invariant (counter.py:36-44, pid.py:29-43,           *)
(* spimachine.py:12-17, 53-68 and 98-116).                                 *)
BlocksTypeOK == CounterTypeOK /\ PidTypeOK /\ SpiTypeOK
=============================================================================
