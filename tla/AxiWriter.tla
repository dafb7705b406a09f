----------------------------- MODULE AxiWriter -----------------------------
(***************************************************************************)
(* MigenAxiWriter (modules/migen/axiwriter.py): in the cycle after "we" it *)
(* offers an address and the data to the bus, each on a channel of its     *)
(* own, and takes both offers back a cycle later, accepted or not.  The    *)
(* bus pairs the addresses that it has accepted with the data that it has  *)
(* accepted, in their order.                                               *)
(***************************************************************************)
EXTENDS Integers, Sequences

CONSTANT MaxStalls   \* bound: offers that one channel takes and the other does not

VARIABLES valid,     \* aw_valid and w_valid, which always are equal
          addresses, \* accepted by the bus, without data so far
          datas,     \* accepted by the bus, without an address so far
          wrote,     \* history: the write completed at the last edge, if any
          stalls     \* history: offers that only one channel accepted

Init ==
    /\ valid = FALSE
    /\ addresses = <<>>
    /\ datas = <<>>
    /\ wrote = <<>>
    /\ stalls = 0

\* (Mutant) The offers are not taken back.
ClockHeld(we) == valid' = (valid \/ we)
\* aw.ready and w.ready are looked at, but make no difference.
Clock(we) == valid' = we

\* What the bus has, if it accepts what is offered.
With(queue, ready, offer) == IF valid /\ ready THEN Append(queue, offer) ELSE queue

Bus(awReady, wReady, address, data) ==
    LET as == With(addresses, awReady, address)
        ds == With(datas, wReady, data)
    IN /\ ~valid => awReady /\ wReady
       /\ IF as # <<>> /\ ds # <<>>
          THEN /\ wrote' = <<[at |-> Head(as), data |-> Head(ds)]>>
               /\ addresses' = Tail(as)
               /\ datas' = Tail(ds)
          ELSE /\ wrote' = <<>>
               /\ addresses' = as
               /\ datas' = ds
       /\ stalls' = stalls + (IF awReady = wReady THEN 0 ELSE 1)
       /\ stalls' <= MaxStalls
=============================================================================
