--------------------------- MODULE RegisterCodec ---------------------------
(***************************************************************************)
(* How Python values become words on the board and words become Python     *)
(* values again (core/register.py).  A program sets a register or reads    *)
(* it; the logic gives a value to a readonly one.  The link and the CSR    *)
(* bus in between carry words as they are: RemoteLink and CsrArray.        *)
(*                                                                         *)
(* Python's numbers are multiples of 1/Den, written n for n/Den.           *)
(***************************************************************************)
EXTENDS Integers

CONSTANTS
    Registers,   \* the registers considered, each a record:
                 \*   kind "register", "bool", "number", "fixed" or "trigger"; width,
                 \*   offset, signed, depth, reverse, readonly, ram as in the code;
                 \*   min, max (or None), decimals, bit, invert of some kinds
    Numbers,     \* what a program sets an element to
    Den,
    RamWidth,    \* bits of a word that is read from RAM
    None, Error

ASSUME DenAssumption == Den \in Nat \ {0}
ASSUME OffsetAssumption == \A r \in Registers : r.offset <= 0   \* as everywhere in the package
ASSUME NoneAssumption == None \notin Int /\ Error \notin Int

VARIABLES register,  \* one of Registers
          cells,     \* its words, by index in the memory
          re,        \* the logic is told that the program wrote the word
          set,       \* history: what the program set it to last, or None
          result     \* what a read returned, until the register changes

vars == <<register, cells, re, set, result>>

Span(r)  == 2 ^ r.width
Index(r) == 0..(r.depth - 1)
\* The cell of a list's i-th element.
Place(r, i) == IF r.reverse THEN r.depth - 1 - i ELSE i
IsNumber(r) == r.kind \in {"number", "fixed"}
TransferWidth(r) == IF r.ram /\ IsNumber(r) THEN RamWidth ELSE r.width
IntMax(r) == IF r.signed THEN Span(r) \div 2 - 1 ELSE Span(r) - 1
IntMin(r) == IF r.signed THEN -(Span(r) \div 2) ELSE 0
Scale(r)  == 2 ^ r.decimals - 1

\* The registers of the package: their attributes, and what they have in common.
RegistersFit ==
    /\ Numbers \subseteq Int
    /\ RamWidth \in Nat
    /\ \A r \in Registers :
          /\ r.kind \in {"register", "bool", "number", "fixed", "trigger"}
          /\ {r.width, r.depth} \subseteq Nat \ {0}
          /\ {r.decimals, r.bit} \subseteq Nat
          /\ r.offset \in Int
          /\ {r.signed, r.reverse, r.readonly, r.ram, r.invert} \subseteq BOOLEAN
          /\ {r.min, r.max} \subseteq Int \cup {None}
          /\ None \notin {r.min, r.max} => r.min <= r.max
          /\ r.ram => r.width <= RamWidth
          /\ IsNumber(r) => -r.offset <= IntMax(r)
          /\ ~IsNumber(r) => ~r.signed /\ r.min = None /\ r.max = None
          /\ r.kind = "bool" => r.offset = 0 /\ r.bit < r.width
          \* Numbers that can be read are multiples of 1/Den as well.
          /\ r.kind = "fixed" => r.offset = 0 /\ (Scale(r) # 0 => Den % Scale(r) = 0)

Limit(n, low, high) == IF n < low THEN low ELSE IF n > high THEN high ELSE n

-----------------------------------------------------------------------------
(* from_python                                                             *)

Truncate(n) == IF n >= 0 THEN n \div Den ELSE -((-n) \div Den)

\* A word that is too large becomes Span(r), one more than the largest.
FromPython(r, n) ==
    LET v == Truncate(n) + r.offset IN Limit(v, 0, Span(r))

BeforeFromPython(r, n) ==
    CASE r.max # None /\ n > r.max -> r.max
      [] r.min # None /\ n < r.min -> r.min
      [] OTHER -> n

\* (Mutant) Negative numbers are not wrapped.
NumberFromPythonUnsigned(r, n) == FromPython(r, Limit(n, Den * IntMin(r), Den * IntMax(r)))
NumberFromPython(r, n) ==
    LET s == Limit(n, Den * IntMin(r), Den * IntMax(r))
    IN FromPython(r, IF r.signed /\ s < 0 THEN s + Den * Span(r) ELSE s)

\* The integer next to a / b, the even one of two.
Round(a, b) ==
    LET q == a \div b
    IN IF 2 * (a % b) > b \/ (2 * (a % b) = b /\ q % 2 = 1) THEN q + 1 ELSE q

FixedFromPython(r, n) == NumberFromPython(r, Den * Round(n * Scale(r), Den))

BoolFromPython(r, n) == FromPython(r, IF (n # 0) # r.invert THEN Den * 2 ^ r.bit ELSE 0)

Raw(r, n) ==
    CASE r.kind = "register" -> FromPython(r, n)
      [] r.kind = "bool"     -> BoolFromPython(r, n)
      [] r.kind = "number"   -> NumberFromPython(r, BeforeFromPython(r, n))
      [] r.kind = "fixed"    -> FixedFromPython(r, BeforeFromPython(r, n))

\* (Mutant) The word on the board has room for Span(r).
StoredWhole(r, n) == Raw(r, n)
\* The hardware keeps the lower bits.
Stored(r, n) == Raw(r, n) % Span(r)

-----------------------------------------------------------------------------
(* to_python                                                               *)

\* (Mutant) The most negative number is taken for a positive one.
SignedLate(r, v) ==
    LET span == 2 ^ TransferWidth(r) IN IF r.signed /\ v > span \div 2 THEN v - span ELSE v
Signed(r, v) ==
    LET span == 2 ^ TransferWidth(r) IN IF r.signed /\ v >= span \div 2 THEN v - span ELSE v

NumberToPython(r, v) == Den * Signed(r, v)
FixedToPython(r, v)  == NumberToPython(r, v) \div Scale(r)
BoolToPython(r, v)   == IF ((v \div 2 ^ r.bit) % 2 = 1) # r.invert THEN Den ELSE 0

ToPython(r, w) ==
    LET v == w - r.offset IN
    CASE r.kind = "register" -> Den * v
      [] r.kind = "bool"     -> BoolToPython(r, v)
      [] r.kind = "number"   -> NumberToPython(r, v)
      [] r.kind = "fixed"    -> FixedToPython(r, v)

\* An iterator over a list cannot be made an array of numbers, and without
\* decimals the number would be divided by zero.
Unreadable(r) ==
    \/ r.reverse /\ r.depth > 1 /\ IsNumber(r)
    \/ r.kind = "fixed" /\ Scale(r) = 0

-----------------------------------------------------------------------------

Init ==
    /\ register \in Registers
    /\ cells = [i \in Index(register) |-> 0]
    /\ re = FALSE
    /\ set = None
    /\ result = None

\* __set__, which raises an error for registers that cannot be set.
Set ==
    /\ ~register.readonly /\ ~register.ram /\ register.kind # "trigger"
    /\ \E list \in [Index(register) -> Numbers] :
           /\ set' = list
           /\ cells' = [c \in Index(register) |-> Stored(register, list[Place(register, c)])]
    /\ re' = TRUE
    /\ result' = None
    /\ UNCHANGED register

\* The function that reading a trigger returns: it writes zero, and the logic
\* looks at nothing but "re".
Trigger ==
    /\ register.kind = "trigger"
    /\ cells' = [c \in Index(register) |-> 0]
    /\ re' = TRUE
    /\ UNCHANGED <<register, set, result>>

\* __get__
Get ==
    /\ result' = IF register.kind = "trigger" THEN None
                 ELSE IF Unreadable(register) THEN Error
                 ELSE [i \in Index(register) |-> ToPython(register, cells[Place(register, i)])]
    /\ re' = FALSE
    /\ UNCHANGED <<register, cells, set>>

\* The design gives values to a register that the program only reads.
Logic ==
    /\ register.readonly \/ register.ram
    /\ \E values \in [Index(register) -> IntMin(register)..IntMax(register)] :
           cells' = [c \in Index(register) |-> values[c] % (2 ^ TransferWidth(register))]
    /\ re' = FALSE
    /\ set' = None
    /\ result' = None
    /\ UNCHANGED register

Next == Set \/ Trigger \/ Get \/ Logic

Spec == Init /\ [][Next]_vars

-----------------------------------------------------------------------------
(* Properties.                                                             *)

TypeOK ==
    /\ register \in Registers
    /\ cells \in [Index(register) -> 0..(2 ^ TransferWidth(register) - 1)]
    /\ re \in BOOLEAN
    /\ set = None \/ set \in [Index(register) -> Numbers]
    /\ result \in {None, Error} \/ result \in [Index(register) -> Int]

\* The value of a word for the logic.
LogicValue(r, w) == IF r.signed /\ w >= 2 ^ (TransferWidth(r) - 1) THEN w - 2 ^ TransferWidth(r) ELSE w

\* The exact value, in units of 1/Den, that the logic should have for n.
Exact(r, n) ==
    LET unit == IF r.kind = "fixed" THEN Scale(r) ELSE 1
        low  == IF r.min = None THEN n ELSE IF n < r.min THEN r.min ELSE n
        inside == IF r.max # None /\ low > r.max THEN r.max ELSE low
    IN unit * inside + Den * r.offset

\* The limits of these values: of a number, those of the integer, shifted.
Lowest(r)  == IF r.signed THEN Den * (IntMin(r) + r.offset) ELSE 0
Highest(r) == Den * (IF r.kind = "register" THEN Span(r) - 1 ELSE IntMax(r) + r.offset)

\* Where the code does not do this.  A plain register's value that is too
\* large becomes zero.  Of signed numbers with an offset, one from zero up to
\* the offset is taken to be below the range, and the lowest ones become
\* positive.
Excepted(r, n) ==
    \/ r.kind = "register" /\ Exact(r, n) >= Den * Span(r)
    \/ r.signed /\ Exact(r, n) \in (Den * r.offset)..(-1)
    \/ r.signed /\ r.offset # 0 /\ Exact(r, n) < Den * IntMin(r)

(* What a program sets is what the logic gets: shifted by the offset, cut  *)
(* at the limits, in the cell that the element belongs to, and less than   *)
(* one off, of a fixed point number at most a half                         *)
(* (register.py:101, 127-136, 195-200, 273-293 and 315-320).               *)
LogicSeesValue ==
    set # None => \A i \in Index(register) :
        LET r == register
            is == LogicValue(r, cells[Place(r, i)])
            due == Limit(Exact(r, set[i]), Lowest(r), Highest(r))
        IN IF r.kind = "bool"
           THEN ((is - r.offset) \div 2 ^ r.bit) % 2 = (IF (set[i] # 0) # r.invert THEN 1 ELSE 0)
           ELSE Excepted(r, set[i]) \/
                IF r.kind = "fixed" THEN 2 * (Den * is - due) \in (-Den)..Den
                ELSE Den * is - due \in (1 - Den)..(Den - 1)

(* What a read returns is what the logic has, less the offset, if that is  *)
(* in the integer's range, in the order of the list                        *)
(* (register.py:119-125, 141-158, 248-271 and 301-309).                    *)
ReadsLogicValue ==
    result \notin {None, Error} /\ register.kind # "bool" => \A i \in Index(register) :
        LET r == register
            v == LogicValue(r, cells[Place(r, i)]) - r.offset
        IN ~r.signed \/ v <= IntMax(r) =>
               result[i] * (IF r.kind = "fixed" THEN Scale(r) ELSE 1) = Den * v
=============================================================================
