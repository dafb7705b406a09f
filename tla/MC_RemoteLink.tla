---------------------------- MODULE MC_RemoteLink ----------------------------
(***************************************************************************)
(* RemoteLink with two threads, one register of the program's and one that *)
(* the logic changes.  The configurations differ in what may go wrong.     *)
(***************************************************************************)
EXTENDS RemoteLink, TLC

\* The threads are alike.  Used for safety only.
Symmetry == Permutations(Threads)
=============================================================================
