------------------------------ MODULE SpiFrame ------------------------------
(***************************************************************************)
(* What a device on the other side of an SPI master sees of a transfer: it *)
(* is selected, receives every bit of one word exactly once and in order,  *)
(* and is released only after the last of them.  SpiMachine is shown to    *)
(* implement this, whatever its timing.                                    *)
(***************************************************************************)
EXTENDS Integers, Sequences

CONSTANTS DataWidth,   \* bits of a word
          NoWord       \* no word was loaded yet

Words == [0..(DataWidth - 1) -> {0, 1}]

VARIABLES selected,    \* the chip select
          lsbFirst,    \* the order of the bits
          word,        \* the word that is sent
          got          \* what the device has received

vars == <<selected, lsbFirst, word, got>>

Init ==
    /\ selected = FALSE
    /\ lsbFirst \in BOOLEAN
    /\ word = NoWord
    /\ got = <<>>

Select ==
    /\ ~selected
    /\ selected' = TRUE
    /\ word' = NoWord
    /\ got' = <<>>
    /\ UNCHANGED lsbFirst

Load ==
    /\ selected
    /\ word = NoWord
    /\ word' \in Words
    /\ UNCHANGED <<selected, lsbFirst, got>>

Bit(k) == IF lsbFirst THEN word[k] ELSE word[DataWidth - 1 - k]

Receive ==
    /\ selected
    /\ word # NoWord
    /\ Len(got) < DataWidth
    /\ got' = Append(got, Bit(Len(got)))
    /\ UNCHANGED <<selected, lsbFirst, word>>

Release ==
    /\ selected
    /\ Len(got) = DataWidth
    /\ selected' = FALSE
    /\ UNCHANGED <<lsbFirst, word, got>>

Next == Select \/ Load \/ Receive \/ Release

Spec == Init /\ [][Next]_vars
=============================================================================
