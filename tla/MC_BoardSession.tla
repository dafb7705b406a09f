-------------------------- MODULE MC_BoardSession --------------------------
(* The first version of the server does not run on the board: its Makefile *)
(* compiles one for each version of the board's system.                    *)
EXTENDS BoardSession

BinariesOnBoard == <<FALSE, TRUE>>
=============================================================================
