-------------------------- MODULE AtomicRegisters --------------------------
(***************************************************************************)
(* What the remote interface promises to the threads of a program: a bank  *)
(* of registers in which every call takes effect at one instant between    *)
(* its invocation and its return.  A call may fail; a write that failed    *)
(* may or may not have taken effect.  The FPGA's logic changes some of the *)
(* registers on its own.  RemoteLink is shown to implement this.           *)
(***************************************************************************)
CONSTANTS Threads,  \* the threads that call the interface
          Regs,     \* the registers
          PlRegs,   \* those that the FPGA's logic changes
          Vals      \* the values of a register

VARIABLES regs,     \* the bank
          call,     \* the last call of each thread
          stage,    \* how far it is: "idle", "called" or "applied"
          result    \* what each call found: [ok, v], v being the value read

vars == <<regs, call, stage, result>>

Call == [op : {"r", "d", "w"}, reg : Regs, val : Vals]

Init ==
    /\ regs \in [Regs -> Vals]
    /\ call \in [Threads -> Call]
    /\ stage = [t \in Threads |-> "idle"]
    /\ result \in [Threads -> [ok : BOOLEAN, v : Vals]]

Invoke(t) ==
    /\ stage[t] = "idle"
    /\ stage' = [stage EXCEPT ![t] = "called"]
    /\ \E c \in Call : call' = [call EXCEPT ![t] = c]
    /\ UNCHANGED <<regs, result>>

\* The instant at which the call takes effect.
Apply(t) ==
    LET c == call[t] IN
    /\ stage[t] = "called"
    /\ stage' = [stage EXCEPT ![t] = "applied"]
    /\ IF c.op = "w"
       THEN regs' = [regs EXCEPT ![c.reg] = c.val] /\ UNCHANGED result
       ELSE result' = [result EXCEPT ![t].v = regs[c.reg]] /\ UNCHANGED regs
    /\ UNCHANGED call

Return(t) ==
    /\ stage[t] = "applied"
    /\ stage' = [stage EXCEPT ![t] = "idle"]
    /\ \E v \in Vals :
          /\ call[t].op # "w" => v = result[t].v
          /\ result' = [result EXCEPT ![t] = [ok |-> TRUE, v |-> v]]
    /\ UNCHANGED <<regs, call>>

\* A call that fails returns no value.
Fail(t) ==
    /\ stage[t] # "idle"
    /\ stage' = [stage EXCEPT ![t] = "idle"]
    /\ \E v \in Vals : result' = [result EXCEPT ![t] = [ok |-> FALSE, v |-> v]]
    /\ UNCHANGED <<regs, call>>

PlChange ==
    /\ \E r \in PlRegs, v \in Vals : regs' = [regs EXCEPT ![r] = v]
    /\ UNCHANGED <<call, stage, result>>

Next ==
    \/ \E t \in Threads : Invoke(t) \/ Apply(t) \/ Return(t) \/ Fail(t)
    \/ PlChange

Spec == Init /\ [][Next]_vars
=============================================================================
