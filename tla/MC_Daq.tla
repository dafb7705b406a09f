------------------------------- MODULE MC_Daq -------------------------------
(***************************************************************************)
(* The data acquisition with signed inputs on both sides of the threshold. *)
(***************************************************************************)
EXTENDS Daq

SignedInputs == {-9, 10}
=============================================================================
