--------------------------- MODULE RegisterProofs ---------------------------
(***************************************************************************)
(* Proofs about RegisterCodec and ModuleTree, which share a run: what is   *)
(* set is what the logic gets and what the logic has is what is read, of   *)
(* registers of any width; the submodules of an object are there when the  *)
(* body of its constructor runs, and the names and types of its registers  *)
(* are those of the gateware, in trees of any depth.                       *)
(***************************************************************************)
EXTENDS RegisterCodec, ModuleTree, FiniteSetTheorems, FunctionTheorems, SequenceTheorems,
        WellFoundedInduction, TLAPS

-----------------------------------------------------------------------------
(* Powers of two: an interval of n numbers has 2^n subsets.                *)

LEMMA Subsets ==
    ASSUME NEW n \in Nat
    PROVE  /\ IsFiniteSet(1..n) /\ Cardinality(1..n) = n
           /\ IsFiniteSet(SUBSET (1..n)) /\ Cardinality(SUBSET (1..n)) = 2 ^ n
<1>1. IsFiniteSet(1..n) /\ Cardinality(1..n) = n
  <2>1. IsFiniteSet(1..n) /\ Cardinality(1..n) = IF 1 > n THEN 0 ELSE n - 1 + 1
    BY FS_Interval
  <2> QED
    BY <2>1
<1> QED
  BY <1>1, FS_SUBSET

LEMMA PowerPositive ==
    ASSUME NEW n \in Nat
    PROVE  2 ^ n \in Nat \ {0}
<1>1. Cardinality(SUBSET (1..n)) \in Nat
  BY Subsets, FS_CardinalityType
<1>2. Cardinality(SUBSET (1..n)) # 0
  BY Subsets, FS_EmptySet
<1> QED
  BY <1>1, <1>2, Subsets

LEMMA PowerGrows ==
    ASSUME NEW m \in Nat, NEW n \in Nat, m <= n
    PROVE  2 ^ m <= 2 ^ n
<1>1. SUBSET (1..m) \in SUBSET (SUBSET (1..n))
  OBVIOUS
<1>2. Cardinality(SUBSET (1..m)) <= Cardinality(SUBSET (1..n))
  BY <1>1, Subsets, FS_Subset
<1> QED
  BY <1>2, Subsets

LEMMA Bijective ==
    ASSUME NEW S, NEW T, NEW f \in [S -> T],
           \A a, b \in S : f[a] = f[b] => a = b,
           \A t \in T : \E s \in S : f[s] = t
    PROVE  ExistsBijection(S, T)
  BY Fun_IsBij DEF ExistsBijection

\* As many subsets contain the last number as do not.
LEMMA PowerDoubles ==
    ASSUME NEW n \in Nat
    PROVE  2 ^ (n + 1) = 2 * 2 ^ n
<1> DEFINE Without == SUBSET (1..n)
           With == {A \cup {n + 1} : A \in Without}
<1>1. IsFiniteSet(Without) /\ Cardinality(Without) = 2 ^ n
  BY Subsets
<1>2. ExistsBijection(Without, With)
  <2> DEFINE f == [A \in Without |-> A \cup {n + 1}]
  <2>1. f \in [Without -> With]
    OBVIOUS
  <2>2. \A A, B \in Without : f[A] = f[B] => A = B
    <3>1. \A A \in Without : n + 1 \notin A
      OBVIOUS
    <3>2. \A A \in Without : f[A] \ {n + 1} = A
      BY <3>1
    <3> QED
      BY <3>2
  <2>3. \A B \in With : \E A \in Without : f[A] = B
    OBVIOUS
  <2> QED
    <3> HIDE DEF f, Without, With
    <3> QED
      BY <2>1, <2>2, <2>3, Bijective
<1>3. IsFiniteSet(With) /\ Cardinality(With) = 2 ^ n
  BY <1>1, <1>2, FS_Bijection
<1>4. Without \cap With = {}
  <2>1. \A A \in Without : n + 1 \notin A
    OBVIOUS
  <2> QED
    BY <2>1
<1>5. SUBSET (1..(n + 1)) = Without \cup With
  <2>1. 1..(n + 1) = (1..n) \cup {n + 1}
    OBVIOUS
  <2>2. ASSUME NEW A \in SUBSET (1..(n + 1)), n + 1 \in A
        PROVE  A \in With
    <3>1. A \ {n + 1} \in Without /\ A = (A \ {n + 1}) \cup {n + 1}
      BY <2>1, <2>2
    <3> QED
      BY <3>1
  <2>3. ASSUME NEW A \in SUBSET (1..(n + 1)), n + 1 \notin A
        PROVE  A \in Without
    BY <2>1, <2>3
  <2>4. Without \subseteq SUBSET (1..(n + 1)) /\ With \subseteq SUBSET (1..(n + 1))
    BY <2>1
  <2> QED
    BY <2>2, <2>3, <2>4
<1> HIDE DEF Without, With
<1>6. Cardinality(SUBSET (1..(n + 1))) = 2 ^ n + 2 ^ n - Cardinality({})
  BY <1>1, <1>3, <1>4, <1>5, FS_Union
<1>7. n + 1 \in Nat
  OBVIOUS
<1>8. Cardinality(SUBSET (1..(n + 1))) = 2 ^ (n + 1)
  BY <1>7, Subsets
<1>9. PICK p \in Nat : p = 2 ^ n
  BY PowerPositive
<1>10. p + p - 0 = 2 * p
  OBVIOUS
<1> QED
  BY <1>6, <1>8, <1>9, <1>10, FS_EmptySet

-----------------------------------------------------------------------------
(* Arithmetic.                                                             *)

LEMMA DivMod ==
    ASSUME NEW n \in Nat \ {0}, NEW a \in Int
    PROVE  a = (a \div n) * n + (a % n) /\ a % n \in 0..(n - 1) /\ a \div n \in Int
  OBVIOUS

LEMMA SmallMod ==
    ASSUME NEW n \in Nat \ {0}, NEW a \in 0..(n - 1)
    PROVE  a % n = a
  OBVIOUS

LEMMA TimesPositive ==
    ASSUME NEW d \in Nat \ {0}, NEW a \in Int, a > 0
    PROVE  d * a >= d
  OBVIOUS

\* A quotient is rounded down.
LEMMA Floor ==
    ASSUME NEW n \in Int
    PROVE  /\ n \div Den \in Int
           /\ Den * (n \div Den) <= n /\ n < Den * (n \div Den) + Den
           /\ \A c \in Int : n \div Den >= c <=> n >= Den * c
<1>1. Den \in Nat \ {0}
  BY DenAssumption
<1>2. PICK q \in Int, m \in 0..(Den - 1) : q = n \div Den /\ n = q * Den + m
  BY <1>1, DivMod
<1>3. Den * q <= n /\ n < Den * q + Den
  BY <1>1, <1>2
<1>4. ASSUME NEW c \in Int
      PROVE  q >= c <=> n >= Den * c
  <2>1. CASE q >= c
    <3>1. Den * (q - c) >= 0
      BY <1>1, <2>1
    <3> QED
      BY <1>1, <1>3, <2>1, <3>1
  <2>2. CASE ~(q >= c)
    <3>1. c - q > 0 /\ c - q \in Int
      BY <2>2
    <3>2. Den * (c - q) >= Den
      BY <1>1, <3>1, TimesPositive
    <3> QED
      BY <1>1, <1>3, <2>2, <3>2
  <2> QED
    BY <2>1, <2>2
<1> QED
  BY <1>2, <1>3, <1>4

LEMMA FloorUnique ==
    ASSUME NEW n \in Int, NEW k \in Int, Den * k <= n, n < Den * k + Den
    PROVE  n \div Den = k
<1>1. PICK q \in Int : q = n \div Den /\ \A c \in Int : q >= c <=> n >= Den * c
  BY Floor
<1>2. q >= k
  BY <1>1
<1>3. ~(q >= k + 1)
  <2>1. Den * (k + 1) = Den * k + Den /\ k + 1 \in Int /\ Den * k \in Int
    BY DenAssumption
  <2>2. q >= k + 1 <=> n >= Den * (k + 1)
    BY <1>1, <2>1
  <2> QED
    BY <2>1, <2>2, DenAssumption
<1> QED
  BY <1>1, <1>2, <1>3

LEMMA FloorShift ==
    ASSUME NEW n \in Int, NEW c \in Int
    PROVE  (n + Den * c) \div Den = n \div Den + c
<1>1. PICK q \in Int : q = n \div Den /\ Den * q <= n /\ n < Den * q + Den
  BY Floor
<1>2. Den * (q + c) = Den * q + Den * c /\ Den * c \in Int
  BY DenAssumption
<1>3. (n + Den * c) \in Int /\ q + c \in Int
  BY <1>2
<1>4. Den * (q + c) <= n + Den * c /\ n + Den * c < Den * (q + c) + Den
  BY <1>1, <1>2, DenAssumption
<1> QED
  BY <1>1, <1>3, <1>4, FloorUnique

LEMMA TruncateFacts ==
    ASSUME NEW n \in Int
    PROVE  /\ Truncate(n) \in Int
           /\ n >= 0 => Truncate(n) = n \div Den /\ Truncate(n) >= 0
           /\ n < 0 => Truncate(n) <= 0
<1>1. CASE n >= 0
  <2>1. n >= Den * 0
    BY <1>1, DenAssumption
  <2>2. n \div Den >= 0 /\ n \div Den \in Int
    BY <2>1, Floor
  <2> QED
    BY <1>1, <2>2 DEF Truncate
<1>2. CASE n < 0
  <2>1. PICK m \in Nat : m = -n
    BY <1>2
  <2>2. m >= Den * 0
    BY <2>1, DenAssumption
  <2>3. m \div Den >= 0 /\ m \div Den \in Int
    BY <2>2, Floor
  <2> QED
    BY <1>2, <2>1, <2>3 DEF Truncate
<1> QED
  BY <1>1, <1>2

\* Rounding errs by a half at most.
LEMMA RoundNear ==
    ASSUME NEW a \in Int
    PROVE  /\ Round(a, Den) \in Int
           /\ 2 * (Den * Round(a, Den) - a) \in (-Den)..Den
<1>1. PICK q \in Int, m \in 0..(Den - 1) : q = a \div Den /\ m = a % Den /\ a = q * Den + m
  BY DivMod, DenAssumption
<1>2. Round(a, Den) = IF 2 * m > Den \/ (2 * m = Den /\ q % 2 = 1) THEN q + 1 ELSE q
  BY <1>1 DEF Round
<1>3. Den * (q + 1) - a = Den - m /\ Den * q - a = -m
  BY <1>1, DenAssumption
<1>4. CASE Round(a, Den) = q + 1 /\ 2 * m >= Den
  BY <1>1, <1>3, <1>4, DenAssumption
<1>5. CASE Round(a, Den) = q /\ 2 * m <= Den
  BY <1>1, <1>3, <1>5, DenAssumption
<1> QED
  BY <1>1, <1>2, <1>4, <1>5, DenAssumption

LEMMA LimitNear ==
    ASSUME NEW x \in Int, NEW y \in Int, NEW low \in Int, NEW high \in Int, low <= high,
           NEW d \in Nat, 2 * (x - y) \in (-d)..d
    PROVE  2 * (Limit(x, low, high) - Limit(y, low, high)) \in (-d)..d
  BY DEF Limit

-----------------------------------------------------------------------------
(* Words.                                                                  *)

LEMMA RegisterFacts ==
    ASSUME RegistersFit, NEW r \in Registers
    PROVE  /\ r.kind \in {"register", "bool", "number", "fixed", "trigger"}
           /\ r.width \in Nat \ {0} /\ r.depth \in Nat \ {0}
           /\ r.decimals \in Nat /\ r.bit \in Nat /\ r.offset \in Int /\ r.offset <= 0
           /\ r.signed \in BOOLEAN /\ r.reverse \in BOOLEAN /\ r.readonly \in BOOLEAN
           /\ r.ram \in BOOLEAN /\ r.invert \in BOOLEAN
           /\ r.min \in Int \cup {None} /\ r.max \in Int \cup {None}
  BY OffsetAssumption DEF RegistersFit

\* The numbers that a register can have, and their words.
LEMMA SpanFacts ==
    ASSUME RegistersFit, NEW r \in Registers
    PROVE  \E half \in Nat \ {0} :
               /\ Span(r) = 2 * half /\ 2 ^ (r.width - 1) = half
               /\ Span(r) \div 2 = half
               /\ r.signed => IntMin(r) = -half /\ IntMax(r) = half - 1
               /\ ~r.signed => IntMin(r) = 0 /\ IntMax(r) = 2 * half - 1
<1>1. PICK w \in Nat : w = r.width - 1 /\ w + 1 = r.width
  BY RegisterFacts
<1>2. PICK half \in Nat \ {0} : half = 2 ^ w
  BY PowerPositive
<1>3. 2 ^ (w + 1) = 2 * half
  BY <1>2, PowerDoubles
<1>4. Span(r) = 2 * half /\ 2 ^ (r.width - 1) = half
  BY <1>1, <1>2, <1>3 DEF Span
<1>5. (2 * half) \div 2 = half
  OBVIOUS
<1> QED
  BY <1>4, <1>5 DEF IntMin, IntMax

LEMMA TransferFacts ==
    ASSUME RegistersFit, NEW r \in Registers
    PROVE  \E half \in Nat \ {0} :
               /\ 2 ^ TransferWidth(r) = 2 * half /\ 2 ^ (TransferWidth(r) - 1) = half
               /\ (2 ^ TransferWidth(r)) \div 2 = half
               /\ r.signed => IntMax(r) < half
               /\ ~r.ram => TransferWidth(r) = r.width
<1>1. TransferWidth(r) \in Nat \ {0} /\ r.width <= TransferWidth(r)
      /\ (~r.ram => TransferWidth(r) = r.width)
  BY RegisterFacts DEF TransferWidth, RegistersFit
<1>2. PICK w \in Nat : w = TransferWidth(r) - 1 /\ w + 1 = TransferWidth(r) /\ r.width - 1 <= w
  BY <1>1, RegisterFacts
<1>3. PICK half \in Nat \ {0} : half = 2 ^ w
  BY PowerPositive
<1>4. 2 ^ (w + 1) = 2 * half
  BY <1>3, PowerDoubles
<1>5. 2 ^ TransferWidth(r) = 2 * half /\ 2 ^ (TransferWidth(r) - 1) = half
  BY <1>2, <1>3, <1>4
<1>6. (2 * half) \div 2 = half
  OBVIOUS
<1>7. ASSUME r.signed
      PROVE  IntMax(r) < half
  <2>1. PICK h \in Nat \ {0} : 2 ^ (r.width - 1) = h /\ IntMax(r) = h - 1
    BY <1>7, SpanFacts
  <2>2. r.width - 1 \in Nat
    BY RegisterFacts
  <2>3. 2 ^ (r.width - 1) <= 2 ^ w
    BY <1>2, <2>2, PowerGrows
  <2> QED
    BY <1>3, <2>1, <2>3
<1> QED
  BY <1>1, <1>5, <1>6, <1>7

LEMMA BeforeFits ==
    ASSUME RegistersFit, NEW r \in Registers, NEW n \in Int
    PROVE  BeforeFromPython(r, n) \in Int
  BY RegisterFacts, NoneAssumption DEF BeforeFromPython

LEMMA FromPythonFits ==
    ASSUME RegistersFit, NEW r \in Registers, NEW n \in Int
    PROVE  FromPython(r, n) \in 0..Span(r)
  BY TruncateFacts, RegisterFacts, SpanFacts DEF FromPython, Limit

LEMMA NumberFits ==
    ASSUME RegistersFit, NEW r \in Registers, NEW n \in Int
    PROVE  NumberFromPython(r, n) \in 0..Span(r)
<1>1. PICK d \in Nat \ {0} : d = Den
  BY DenAssumption
<1>2. PICK half \in Nat \ {0} : /\ Span(r) = 2 * half
                                /\ IntMin(r) \in Int /\ IntMax(r) \in Int
  BY SpanFacts, RegisterFacts
<1>3. Den * IntMin(r) \in Int /\ Den * IntMax(r) \in Int /\ Den * Span(r) \in Int
  BY <1>1, <1>2
<1>4. PICK x \in Int : x = Limit(n, Den * IntMin(r), Den * IntMax(r))
  BY <1>3 DEF Limit
<1>5. PICK y \in Int : y = IF r.signed /\ x < 0 THEN x + Den * Span(r) ELSE x
  BY <1>3
<1>6. NumberFromPython(r, n) = FromPython(r, y)
  BY <1>4, <1>5 DEF NumberFromPython
<1> QED
  BY <1>6, FromPythonFits

LEMMA RawFits ==
    ASSUME RegistersFit, NEW r \in Registers, r.kind # "trigger", NEW n \in Int
    PROVE  Raw(r, n) \in Nat
<1>1. PICK h \in Nat : Span(r) = h
  BY SpanFacts
<1>2. CASE r.kind = "register"
  BY <1>1, <1>2, FromPythonFits DEF Raw
<1>3. CASE r.kind = "bool"
  <2>1. PICK p \in Nat : p = 2 ^ r.bit
    BY PowerPositive, RegisterFacts
  <2>2. PICK x \in Int : x = IF (n # 0) # r.invert THEN Den * 2 ^ r.bit ELSE 0
    BY <2>1, DenAssumption
  <2> QED
    BY <1>1, <1>3, <2>2, FromPythonFits DEF Raw, BoolFromPython
<1>4. CASE r.kind = "number"
  BY <1>1, <1>4, BeforeFits, NumberFits DEF Raw
<1>5. CASE r.kind = "fixed"
  <2>1. PICK x \in Int : x = BeforeFromPython(r, n)
    BY BeforeFits
  <2>2. Scale(r) \in Int
    BY PowerPositive, RegisterFacts DEF Scale
  <2>3. x * Scale(r) \in Int
    BY <2>1, <2>2
  <2>4. PICK y \in Int : y = Round(x * Scale(r), Den)
    BY <2>3, RoundNear
  <2>5. Den * y \in Int
    BY <2>4, DenAssumption
  <2> QED
    BY <1>1, <1>5, <2>1, <2>4, <2>5, NumberFits DEF Raw, FixedFromPython
<1> QED
  BY <1>2, <1>3, <1>4, <1>5, RegisterFacts

LEMMA StoredFits ==
    ASSUME RegistersFit, NEW r \in Registers, r.kind # "trigger", NEW n \in Int
    PROVE  Stored(r, n) \in 0..(Span(r) - 1)
<1>1. PICK m \in Nat \ {0} : m = Span(r)
  BY SpanFacts
<1>2. PICK w \in Nat : w = Raw(r, n)
  BY RawFits
<1> QED
  BY <1>1, <1>2 DEF Stored

LEMMA ToPythonFits ==
    ASSUME RegistersFit, NEW r \in Registers, r.kind # "trigger", ~Unreadable(r), NEW w \in Int
    PROVE  ToPython(r, w) \in Int
<1>1. PICK v \in Int : v = w - r.offset
  BY RegisterFacts
<1>2. PICK span \in Nat : span = 2 ^ TransferWidth(r)
  BY TransferFacts
<1>3. Signed(r, v) \in Int
  BY <1>1, <1>2 DEF Signed
<1>4. NumberToPython(r, v) \in Int
  BY <1>3, DenAssumption DEF NumberToPython
<1>5. ASSUME r.kind = "fixed"
      PROVE  FixedToPython(r, v) \in Int
  <2>1. Scale(r) \in Nat \ {0}
    BY <1>5, PowerPositive, RegisterFacts DEF Scale, Unreadable
  <2> QED
    BY <1>4, <2>1, DivMod DEF FixedToPython
<1>6. BoolToPython(r, v) \in Int /\ Den * v \in Int
  BY <1>1, DenAssumption DEF BoolToPython
<1>7. ToPython(r, w) = CASE r.kind = "register" -> Den * v
                         [] r.kind = "bool"     -> BoolToPython(r, v)
                         [] r.kind = "number"   -> NumberToPython(r, v)
                         [] r.kind = "fixed"    -> FixedToPython(r, v)
  BY <1>1 DEF ToPython
<1> QED
  BY <1>4, <1>5, <1>6, <1>7, RegisterFacts

-----------------------------------------------------------------------------
(* The inductive invariant: which words the cells have after a program has *)
(* set the register, and what a read has returned.                         *)

CellsHoldSet ==
    set # None =>
        /\ ~register.ram /\ register.kind # "trigger"
        /\ \A i \in Index(register) :
               cells[Place(register, i)] = Stored(register, set[i])

ResultIsOfCells ==
    /\ result \notin {None, Error} =>
           result = [i \in Index(register) |-> ToPython(register, cells[Place(register, i)])]
    /\ register.kind = "trigger" => result = None
    /\ result # None /\ result # Error => ~Unreadable(register)

CodecInv == TypeOK /\ CellsHoldSet /\ ResultIsOfCells

LEMMA Places ==
    ASSUME RegistersFit, NEW r \in Registers, NEW i \in Index(r)
    PROVE  Place(r, i) \in Index(r) /\ Place(r, Place(r, i)) = i
  BY RegisterFacts DEF Place, Index

LEMMA InitCodec ==
    ASSUME RegistersFit, Init
    PROVE  CodecInv
<1>1. register \in Registers
  BY DEF Init
<1>2. 0 \in 0..(2 ^ TransferWidth(register) - 1)
  BY <1>1, TransferFacts
<1> QED
  BY <1>2 DEF Init, CodecInv, TypeOK, CellsHoldSet, ResultIsOfCells

LEMMA SetCodec ==
    ASSUME RegistersFit, CodecInv, Set
    PROVE  CodecInv'
<1>1. /\ register \in Registers /\ register' = register
      /\ ~register.ram /\ register.kind # "trigger"
      /\ re' = TRUE /\ result' = None
  BY RegisterFacts DEF CodecInv, TypeOK, Set
<1>2. PICK list \in [Index(register) -> Numbers] :
          /\ set' = list
          /\ cells' = [c \in Index(register) |-> Stored(register, list[Place(register, c)])]
  BY DEF Set
<1>3. \A n \in Numbers : Stored(register, n) \in 0..(2 ^ TransferWidth(register) - 1)
  <2>1. TransferWidth(register) = register.width
    BY <1>1, TransferFacts
  <2> QED
    BY <1>1, <2>1, StoredFits DEF RegistersFit, Span
<1>4. \A i \in Index(register) : Place(register, i) \in Index(register)
                                 /\ Place(register, Place(register, i)) = i
  BY <1>1, Places
<1>5. cells' \in [Index(register) -> 0..(2 ^ TransferWidth(register) - 1)]
  <2>1. \A i \in Index(register) : list[Place(register, i)] \in Numbers
    BY <1>4
  <2> QED
    BY <1>2, <1>3, <2>1
<1>6. \A i \in Index(register) : cells'[Place(register, i)] = Stored(register, list[i])
  BY <1>2, <1>4
<1> QED
  BY <1>1, <1>2, <1>5, <1>6 DEF CodecInv, TypeOK, CellsHoldSet, ResultIsOfCells

LEMMA TriggerCodec ==
    ASSUME RegistersFit, CodecInv, Trigger
    PROVE  CodecInv'
<1>1. /\ register \in Registers /\ register' = register
      /\ register.kind = "trigger" /\ set = None /\ result = None
      /\ re' = TRUE /\ set' = set /\ result' = result
      /\ cells' = [c \in Index(register) |-> 0]
  BY DEF CodecInv, TypeOK, CellsHoldSet, ResultIsOfCells, Trigger
<1>2. 0 \in 0..(2 ^ TransferWidth(register) - 1)
  BY <1>1, TransferFacts
<1> QED
  BY <1>1, <1>2 DEF CodecInv, TypeOK, CellsHoldSet, ResultIsOfCells

LEMMA GetCodec ==
    ASSUME RegistersFit, CodecInv, Get
    PROVE  CodecInv'
<1>1. /\ register \in Registers /\ register' = register
      /\ cells \in [Index(register) -> 0..(2 ^ TransferWidth(register) - 1)]
      /\ cells' = cells /\ set' = set /\ re' = FALSE
      /\ result' = IF register.kind = "trigger" THEN None
                   ELSE IF Unreadable(register) THEN Error
                   ELSE [i \in Index(register) |-> ToPython(register, cells[Place(register, i)])]
  BY DEF CodecInv, TypeOK, Get
<1>2. ASSUME register.kind # "trigger", ~Unreadable(register)
      PROVE  result' \in [Index(register) -> Int]
  <2>1. \A i \in Index(register) : cells[Place(register, i)] \in Int
    <3>1. \A i \in Index(register) : Place(register, i) \in Index(register)
      BY <1>1, Places
    <3> QED
      BY <1>1, <3>1, TransferFacts
  <2>2. \A i \in Index(register) : ToPython(register, cells[Place(register, i)]) \in Int
    BY <1>1, <1>2, <2>1, ToPythonFits
  <2> QED
    BY <1>1, <1>2, <2>2
<1>3. TypeOK'
  BY <1>1, <1>2 DEF CodecInv, TypeOK
<1>4. CellsHoldSet'
  BY <1>1 DEF CodecInv, CellsHoldSet
<1>5. ResultIsOfCells'
  BY <1>1 DEF ResultIsOfCells, Unreadable, IsNumber
<1> QED
  BY <1>3, <1>4, <1>5 DEF CodecInv

LEMMA LogicCodec ==
    ASSUME RegistersFit, CodecInv, Logic
    PROVE  CodecInv'
<1>1. register \in Registers /\ register' = register /\ re' = FALSE /\ set' = None /\ result' = None
  BY DEF CodecInv, TypeOK, Logic
<1>2. PICK values \in [Index(register) -> IntMin(register)..IntMax(register)] :
          cells' = [c \in Index(register) |-> values[c] % (2 ^ TransferWidth(register))]
  BY DEF Logic
<1>3. PICK span \in Nat \ {0} : span = 2 ^ TransferWidth(register)
  BY <1>1, TransferFacts
<1>4. IntMin(register) \in Int /\ IntMax(register) \in Int
  BY <1>1, SpanFacts, RegisterFacts
<1>5. \A c \in Index(register) : values[c] % span \in 0..(span - 1)
  BY <1>2, <1>3, <1>4
<1>6. cells' \in [Index(register) -> 0..(2 ^ TransferWidth(register) - 1)]
  BY <1>2, <1>3, <1>5
<1> QED
  BY <1>1, <1>6 DEF CodecInv, TypeOK, CellsHoldSet, ResultIsOfCells

LEMMA CodecInvariance ==
    ASSUME RegistersFit
    PROVE  Spec => []CodecInv
<1>1. CodecInv /\ [Next]_vars => CodecInv'
  <2>1. ASSUME CodecInv, UNCHANGED vars
        PROVE  CodecInv'
    BY <2>1 DEF vars, CodecInv, TypeOK, CellsHoldSet, ResultIsOfCells
  <2> QED
    BY <2>1, SetCodec, TriggerCodec, GetCodec, LogicCodec DEF Next
<1> QED
  BY <1>1, InitCodec, PTL DEF Spec

(* For registers of every kind, width and depth, cells and results keep    *)
(* their types (register.py:10-49).                                        *)
THEOREM TypeCorrect ==
    ASSUME RegistersFit
    PROVE  Spec => []TypeOK
<1>1. CodecInv => TypeOK
  BY DEF CodecInv
<1> QED
  BY <1>1, CodecInvariance, PTL

-----------------------------------------------------------------------------
(* What a read returns.                                                    *)

LEMMA Multiple ==
    ASSUME NEW scale \in Nat \ {0}, NEW d \in Nat \ {0}, d % scale = 0
    PROVE  \E k \in Int : d = k * scale
<1>1. PICK k \in Int : k = d \div scale /\ d = k * scale
  BY DivMod
<1> QED
  BY <1>1

LEMMA WholeQuotient ==
    ASSUME NEW scale \in Nat \ {0}, NEW a \in Int, NEW b \in Int, b = a * scale
    PROVE  b \div scale = a
<1>1. PICK q \in Int, m \in 0..(scale - 1) : q = b \div scale /\ b = q * scale + m
  BY DivMod
<1>2. (a - q) * scale = m
  BY <1>1
<1>3. CASE a - q > 0
  <2>1. scale * (a - q) >= scale
    BY <1>3, TimesPositive
  <2> QED
    BY <1>1, <1>2, <2>1
<1>4. CASE a - q < 0
  <2>1. scale * (q - a) >= scale
    BY <1>4, TimesPositive
  <2> QED
    BY <1>1, <1>2, <2>1
<1> QED
  BY <1>1, <1>3, <1>4

LEMMA ReadValue ==
    ASSUME RegistersFit, NEW r \in Registers, r.kind \notin {"trigger", "bool"}, ~Unreadable(r),
           NEW w \in 0..(2 ^ TransferWidth(r) - 1),
           ~r.signed \/ LogicValue(r, w) - r.offset <= IntMax(r)
    PROVE  ToPython(r, w) * (IF r.kind = "fixed" THEN Scale(r) ELSE 1)
           = Den * (LogicValue(r, w) - r.offset)
<1>1. PICK half \in Nat \ {0} : /\ 2 ^ TransferWidth(r) = 2 * half
                                /\ 2 ^ (TransferWidth(r) - 1) = half
                                /\ (2 ^ TransferWidth(r)) \div 2 = half
                                /\ r.signed => IntMax(r) < half
  BY TransferFacts
<1>2. PICK v \in Int : v = w - r.offset
  BY <1>1, RegisterFacts
<1>3. PICK is \in Int : is = LogicValue(r, w)
  BY <1>1 DEF LogicValue
<1>4. Signed(r, v) = is - r.offset
  <2>1. is = IF r.signed /\ w >= half THEN w - 2 * half ELSE w
    BY <1>1, <1>3 DEF LogicValue
  <2>2. Signed(r, v) = IF r.signed /\ v >= half THEN v - 2 * half ELSE v
    BY <1>1 DEF Signed
  <2>3. PICK offset \in Int : offset = r.offset /\ offset <= 0
    BY RegisterFacts
  <2>4. r.signed => is - offset < half
    BY <1>1, <1>3, <2>3, RegisterFacts, SpanFacts
  <2> QED
    BY <1>1, <1>2, <2>1, <2>2, <2>3, <2>4
<1>5. PICK u \in Int : u = is - r.offset
  BY RegisterFacts
<1>6. PICK d \in Nat \ {0} : d = Den
  BY DenAssumption
<1>7. ToPython(r, w) = CASE r.kind = "register" -> Den * v
                         [] r.kind = "bool"     -> BoolToPython(r, v)
                         [] r.kind = "number"   -> NumberToPython(r, v)
                         [] r.kind = "fixed"    -> FixedToPython(r, v)
  BY <1>2 DEF ToPython
<1>8. CASE r.kind = "register"
  <2>1. ~r.signed
    BY <1>8 DEF RegistersFit, IsNumber
  <2>2. v = u
    BY <1>2, <1>3, <1>5, <2>1 DEF LogicValue
  <2> QED
    BY <1>3, <1>5, <1>6, <1>7, <1>8, <2>2
<1>9. CASE r.kind = "number"
  BY <1>3, <1>4, <1>5, <1>6, <1>7, <1>9 DEF NumberToPython
<1>10. CASE r.kind = "fixed"
  <2>1. PICK scale \in Nat \ {0} : scale = Scale(r)
    BY <1>10, PowerPositive, RegisterFacts DEF Scale, Unreadable
  <2>2. d % scale = 0
    BY <1>6, <1>10, <2>1 DEF RegistersFit
  <2>3. ToPython(r, w) = (d * u) \div scale
    BY <1>4, <1>5, <1>6, <1>7, <1>10, <2>1 DEF FixedToPython, NumberToPython
  \* Numbers that are multiples of 1/scale are read as they are.
  <2>4. ((d * u) \div scale) * scale = d * u
    <3>1. PICK k \in Int : d = k * scale
      BY <2>2, Multiple
    <3>2. PICK a \in Int, b \in Int : a = k * u /\ b = d * u
      OBVIOUS
    <3>3. b = a * scale
      BY <3>1, <3>2
    <3>4. b \div scale = a
      BY <3>3, WholeQuotient
    <3> QED
      BY <3>2, <3>3, <3>4
  <2> QED
    BY <1>3, <1>5, <1>6, <1>10, <2>1, <2>3, <2>4
<1> QED
  BY <1>8, <1>9, <1>10, RegisterFacts

(* For numbers of every width, sign, offset and scale that fit, in arrays  *)
(* of every length and from RAM, what a read returns is what the logic has *)
(* (register.py:119-125, 141-158, 248-271 and 301-309).                    *)
THEOREM ReadsWhatLogicHas ==
    ASSUME RegistersFit
    PROVE  Spec => []ReadsLogicValue
<1>1. CodecInv => ReadsLogicValue
  <2>1. SUFFICES ASSUME CodecInv, result \notin {None, Error}, register.kind # "bool",
                        NEW i \in Index(register),
                        ~register.signed \/ LogicValue(register, cells[Place(register, i)])
                                            - register.offset <= IntMax(register)
                 PROVE  result[i] * (IF register.kind = "fixed" THEN Scale(register) ELSE 1)
                        = Den * (LogicValue(register, cells[Place(register, i)]) - register.offset)
    BY DEF ReadsLogicValue
  <2>2. /\ register \in Registers /\ register.kind # "trigger" /\ ~Unreadable(register)
        /\ cells \in [Index(register) -> 0..(2 ^ TransferWidth(register) - 1)]
        /\ result[i] = ToPython(register, cells[Place(register, i)])
    BY <2>1 DEF CodecInv, TypeOK, ResultIsOfCells
  <2>3. cells[Place(register, i)] \in 0..(2 ^ TransferWidth(register) - 1)
    BY <2>1, <2>2, Places
  <2> QED
    BY <2>1, <2>2, <2>3, ReadValue
<1> QED
  BY <1>1, CodecInvariance, PTL

-----------------------------------------------------------------------------
(* What the logic gets.                                                    *)

\* What the logic sees of a plain register is cut to its range.
LEMMA PlainSeen ==
    ASSUME RegistersFit, NEW r \in Registers, ~r.ram, r.kind = "register",
           NEW n \in Int, Exact(r, n) < Den * Span(r)
    PROVE  Den * LogicValue(r, Stored(r, n)) - Limit(Exact(r, n), Lowest(r), Highest(r))
               \in (1 - Den)..(Den - 1)
<1>1. /\ ~r.signed /\ r.min = None /\ r.max = None
  BY DEF RegistersFit, IsNumber
<1>2. PICK d \in Nat \ {0} : d = Den
  BY DenAssumption
<1>3. PICK span \in Nat \ {0} : span = Span(r)
  BY SpanFacts
<1>4. PICK offset \in Int : offset = r.offset /\ offset <= 0
  BY RegisterFacts
<1>5. Exact(r, n) = n + d * offset
  BY <1>1, <1>2, <1>4 DEF Exact
<1>6. Lowest(r) = 0 /\ Highest(r) = d * (span - 1)
  BY <1>1, <1>2, <1>3 DEF Lowest, Highest
<1>7. PICK t \in Int : t = Truncate(n) /\ (n >= 0 => t = n \div Den) /\ (n < 0 => t <= 0)
  BY TruncateFacts
<1>8. PICK v \in Int : v = t + offset
  OBVIOUS
<1>9. d * offset <= 0 /\ d * offset \in Int /\ d * v = d * t + d * offset /\ d * t \in Int
  BY <1>4, <1>8
<1>10. n >= 0 => d * t <= n /\ n < d * t + d
  BY <1>2, <1>7, Floor
<1>11. PICK w \in Int : w = Limit(v, 0, span)
  BY <1>8 DEF Limit
<1>12. ASSUME w \in 0..(span - 1)
       PROVE  LogicValue(r, Stored(r, n)) = w
  <2>1. w % span = w
    BY <1>3, <1>12, SmallMod
  <2>2. Stored(r, n) = w
    BY <1>3, <1>4, <1>7, <1>8, <1>11, <2>1 DEF Stored, Raw, FromPython
  <2> QED
    BY <1>1, <2>2 DEF LogicValue
<1>13. CASE v < 0
  <2>1. w = 0 /\ n + d * offset < 0
    <3>1. v + 1 <= 0 /\ d * (v + 1) = d * v + d
      BY <1>13
    <3>2. d * (v + 1) <= 0
      BY <3>1
    <3> QED
      BY <1>3, <1>9, <1>10, <1>11, <1>13, <3>1, <3>2 DEF Limit
  <2>2. d * (span - 1) >= 0
    BY <1>3
  <2> QED
    BY <1>2, <1>3, <1>5, <1>6, <1>9, <1>12, <2>1, <2>2 DEF Limit
<1>14. CASE v >= 0 /\ n < 0
  <2>1. v = 0 /\ w = 0 /\ n + d * offset < 0
    BY <1>3, <1>4, <1>7, <1>8, <1>9, <1>11, <1>14 DEF Limit
  <2>2. d * (span - 1) >= 0
    BY <1>3
  <2> QED
    BY <1>2, <1>3, <1>5, <1>6, <1>9, <1>12, <2>1, <2>2 DEF Limit
<1>15. CASE v >= 0 /\ n >= 0
  <2>1. d * v <= n + d * offset /\ n + d * offset < d * v + d /\ d * v >= 0
    BY <1>9, <1>10, <1>15
  <2>2. d * v < d * span
    BY <1>2, <1>3, <1>5, <1>9, <2>1
  <2>3. v < span
    <3>1. CASE v >= span
      <4>1. d * (v - span) >= 0 /\ d * (v - span) = d * v - d * span
        BY <3>1
      <4> QED
        BY <2>2, <4>1
    <3> QED
      BY <3>1
  <2>4. w = v
    BY <1>11, <1>15, <2>3 DEF Limit
  <2>5. d * v <= d * (span - 1) /\ d * (span - 1) = d * span - d
    <3>1. d * (span - 1 - v) >= 0
      BY <2>3
    <3> QED
      BY <3>1
  <2>6. n + d * offset < d * span
    BY <1>2, <1>3, <1>5
  <2>7. PICK e \in Int, dv \in Int, top \in Int :
            e = n + d * offset /\ dv = d * v /\ top = d * (span - 1)
    BY <1>9
  <2>8. dv - Limit(e, 0, top) \in (1 - d)..(d - 1)
    BY <2>1, <2>5, <2>7 DEF Limit
  <2> QED
    BY <1>2, <1>5, <1>6, <1>12, <1>15, <2>3, <2>4, <2>7, <2>8
<1> QED
  BY <1>13, <1>14, <1>15

LEMMA BoolSeen ==
    ASSUME RegistersFit, NEW r \in Registers, ~r.ram, r.kind = "bool", NEW n \in Int
    PROVE  ((LogicValue(r, Stored(r, n)) - r.offset) \div 2 ^ r.bit) % 2
               = IF (n # 0) # r.invert THEN 1 ELSE 0
<1>1. /\ ~r.signed /\ r.offset = 0 /\ r.bit < r.width
      /\ r.bit \in Nat /\ r.width \in Nat
  BY RegisterFacts DEF RegistersFit, IsNumber
<1>2. PICK d \in Nat \ {0} : d = Den
  BY DenAssumption
<1>3. PICK p \in Nat \ {0} : p = 2 ^ r.bit
  BY <1>1, PowerPositive
<1>4. PICK span \in Nat \ {0} : span = Span(r) /\ p < span
  <2>1. 2 ^ (r.bit + 1) = 2 * p
    BY <1>1, <1>3, PowerDoubles
  <2>2. 2 ^ (r.bit + 1) <= 2 ^ r.width
    <3>1. r.bit + 1 \in Nat /\ r.bit + 1 <= r.width
      BY <1>1
    <3> QED
      BY <1>1, <3>1, PowerGrows
  <2>3. PICK h \in Nat \ {0} : h = Span(r)
    BY SpanFacts
  <2> QED
    BY <1>3, <2>1, <2>2, <2>3 DEF Span
<1>5. PICK b \in {0, 1} : b = IF (n # 0) # r.invert THEN 1 ELSE 0
  OBVIOUS
<1>6. PICK x \in Nat : x = d * (b * p)
  BY <1>5
<1>7. Truncate(x) = b * p
  <2>1. b * p \in Int /\ Den * (b * p) <= x /\ x < Den * (b * p) + Den
    BY <1>2, <1>5, <1>6
  <2>2. x \div Den = b * p
    BY <1>6, <2>1, FloorUnique
  <2> QED
    BY <1>6, <2>2 DEF Truncate
<1>8. b * p \in 0..(span - 1)
  BY <1>4, <1>5
<1>9. Stored(r, n) = b * p
  <2>1. x = IF (n # 0) # r.invert THEN Den * 2 ^ r.bit ELSE 0
    BY <1>2, <1>3, <1>5, <1>6
  <2>2. Raw(r, n) = FromPython(r, x)
    BY <2>1 DEF Raw, BoolFromPython
  <2>3. FromPython(r, x) = b * p
    BY <1>1, <1>4, <1>7, <1>8 DEF FromPython, Limit
  <2> QED
    BY <1>4, <1>8, <2>2, <2>3, SmallMod DEF Stored
<1>10. LogicValue(r, Stored(r, n)) - r.offset = b * p
  BY <1>1, <1>8, <1>9 DEF LogicValue
<1>11. ((b * p) \div p) % 2 = b
  <2>1. CASE b = 0
    BY <2>1
  <2>2. CASE b = 1
    <3>1. (1 * p) \div p = 1
      BY <1>3
    <3> QED
      BY <2>2, <3>1
  <2> QED
    BY <1>5, <2>1, <2>2
<1> QED
  BY <1>3, <1>5, <1>10, <1>11

\* What the logic sees of a number, if it is cut to the integers' range, is
\* its floor, shifted, with three exceptions.
LEMMA NumberSeen ==
    ASSUME RegistersFit, NEW r \in Registers, IsNumber(r), ~r.ram, NEW x \in Int,
           NEW s, s = Limit(x, Den * IntMin(r), Den * IntMax(r)),
           NEW is, is = LogicValue(r, NumberFromPython(r, x) % Span(r))
    PROVE  /\ s \in Int /\ s \div Den \in IntMin(r)..IntMax(r)
           /\ is \in Int
           /\ \/ is = s \div Den + r.offset /\ (~r.signed => s \div Den + r.offset >= 0)
              \/ is = 0 /\ s \div Den >= 0 /\ s \div Den + r.offset < 0
              \/ r.signed /\ s \div Den < 0 /\ s \div Den + r.offset < IntMin(r)
<1>1. PICK d \in Nat \ {0} : d = Den
  BY DenAssumption
<1>2. PICK half \in Nat \ {0} : /\ Span(r) = 2 * half /\ 2 ^ (r.width - 1) = half
                                /\ r.signed => IntMin(r) = -half /\ IntMax(r) = half - 1
                                /\ ~r.signed => IntMin(r) = 0 /\ IntMax(r) = 2 * half - 1
  BY SpanFacts
<1>3. PICK low \in Int, high \in Int :
          /\ low = IntMin(r) /\ high = IntMax(r) /\ low <= 0 /\ 0 <= high
          /\ low >= -half /\ high < 2 * half
          /\ r.signed => low = -half /\ high = half - 1
          /\ ~r.signed => low = 0
  BY <1>2, RegisterFacts
<1>4. PICK offset \in Int : offset = r.offset /\ offset <= 0 /\ -offset <= high
  BY <1>3, RegisterFacts DEF RegistersFit
<1>5. d * low \in Int /\ d * high \in Int /\ d * low <= d * high
  <2>1. d * (high - low) >= 0 /\ d * (high - low) = d * high - d * low
    BY <1>3
  <2> QED
    BY <2>1
<1>6. s \in Int /\ s >= d * low /\ s <= d * high
  BY <1>1, <1>3, <1>5 DEF Limit
<1>7. PICK k \in Int : k = s \div Den /\ k >= low /\ k <= high
  <2>1. PICK k \in Int : /\ k = s \div Den
                         /\ k >= low <=> s >= Den * low
                         /\ k >= high + 1 <=> s >= Den * (high + 1)
    BY <1>6, Floor
  <2>2. Den * (high + 1) = d * high + d
    BY <1>1
  <2> QED
    BY <1>1, <1>6, <2>1, <2>2, <1>5
<1>8. k >= 0 <=> s >= 0
  BY <1>6, <1>7, Floor, DenAssumption
<1>9. PICK c \in {0, 2 * half} : c = IF r.signed /\ s < 0 THEN 2 * half ELSE 0
  OBVIOUS
<1>10. PICK y \in Int : y = s + d * c /\ y = IF r.signed /\ s < 0 THEN s + Den * Span(r) ELSE s
  BY <1>1, <1>2, <1>6, <1>9
<1>11. Truncate(y) = k + c
  <2>1. y \div Den = k + c
    <3>1. (s + Den * c) \div Den = s \div Den + c
      BY <1>6, <1>9, FloorShift
    <3> QED
      BY <1>1, <1>7, <1>10, <3>1
  <2>2. y >= 0
    <3>1. CASE r.signed /\ s < 0
      <4>1. k + c >= 0 /\ k + c \in Int
        BY <1>3, <1>7, <1>9, <3>1
      <4>2. y >= Den * 0
        BY <1>10, <2>1, <4>1, Floor
      <4> QED
        BY <4>2, DenAssumption
    <3>2. CASE ~(r.signed /\ s < 0)
      <4>1. s >= 0
        BY <1>3, <1>6, <1>7, <1>8, <3>2
      <4> QED
        BY <1>9, <1>10, <3>2, <4>1
    <3> QED
      BY <3>1, <3>2
  <2> QED
    BY <1>10, <2>1, <2>2, TruncateFacts
<1>12. NumberFromPython(r, x) = FromPython(r, y)
  BY <1>10 DEF NumberFromPython
<1>13. PICK w \in Int : w = k + c + offset
  BY <1>9
<1>14. PICK u \in Int : u = Limit(w, 0, 2 * half) /\ NumberFromPython(r, x) = u
  BY <1>2, <1>4, <1>11, <1>12, <1>13 DEF FromPython, Limit
<1>15. u \in 0..(2 * half - 1) /\ u = IF w < 0 THEN 0 ELSE w
  BY <1>3, <1>4, <1>7, <1>8, <1>9, <1>13, <1>14 DEF Limit
<1>16. is = IF r.signed /\ u >= half THEN u - 2 * half ELSE u
  <2>1. u % (2 * half) = u
    BY <1>15, SmallMod
  <2>2. TransferWidth(r) = r.width
    BY TransferFacts
  <2> QED
    BY <1>2, <1>14, <2>1, <2>2 DEF LogicValue, Span
<1>17. is \in Int
  BY <1>15, <1>16
<1>18. CASE r.signed /\ s < 0
  <2>1. u = k + 2 * half + offset /\ k < 0
    BY <1>3, <1>4, <1>6, <1>7, <1>8, <1>9, <1>13, <1>15, <1>18
  <2>2. CASE u >= half
    BY <1>3, <1>4, <1>6, <1>7, <1>16, <1>17, <1>18, <2>1, <2>2
  <2>3. CASE u < half
    BY <1>3, <1>4, <1>6, <1>7, <1>17, <1>18, <2>1, <2>3
  <2> QED
    BY <1>15, <2>2, <2>3
<1>19. CASE ~(r.signed /\ s < 0)
  <2>1. k >= 0 /\ w = k + offset
    BY <1>3, <1>6, <1>7, <1>8, <1>9, <1>13, <1>19
  <2>2. r.signed => u < half
    BY <1>3, <1>4, <1>7, <1>15, <2>1
  <2>3. is = u
    BY <1>16, <2>2
  <2> QED
    BY <1>3, <1>4, <1>6, <1>7, <1>15, <1>17, <2>1, <2>3
<1> QED
  BY <1>18, <1>19

\* The limits of a number that is set are those of the exact value.
LEMMA InsideFacts ==
    ASSUME RegistersFit, NEW r \in Registers, NEW n \in Int
    PROVE  Exact(r, n) = (IF r.kind = "fixed" THEN Scale(r) ELSE 1) * BeforeFromPython(r, n)
                         + Den * r.offset
<1>1. PICK min \in Int \cup {None}, max \in Int \cup {None} :
          /\ min = r.min /\ max = r.max
          /\ min # None /\ max # None => min <= max
  BY RegisterFacts DEF RegistersFit
<1>2. None \notin Int
  BY NoneAssumption
<1>3. BeforeFromPython(r, n) =
          LET low == IF min = None THEN n ELSE IF n < min THEN min ELSE n
          IN IF max # None /\ low > max THEN max ELSE low
  BY <1>1, <1>2 DEF BeforeFromPython
<1> QED
  BY <1>1, <1>3 DEF Exact

LEMMA IntegerSeen ==
    ASSUME RegistersFit, NEW r \in Registers, ~r.ram, r.kind = "number",
           NEW n \in Int, ~Excepted(r, n)
    PROVE  Den * LogicValue(r, Stored(r, n)) - Limit(Exact(r, n), Lowest(r), Highest(r))
               \in (1 - Den)..(Den - 1)
<1>1. PICK d \in Nat \ {0} : d = Den
  BY DenAssumption
<1>2. PICK x \in Int : x = BeforeFromPython(r, n)
  BY BeforeFits
<1>3. PICK low \in Int, high \in Int :
          /\ low = IntMin(r) /\ high = IntMax(r) /\ low <= 0 /\ 0 <= high
          /\ r.signed => low < 0
          /\ ~r.signed => low = 0
  BY SpanFacts, RegisterFacts
<1>4. PICK offset \in Int : offset = r.offset /\ offset <= 0 /\ -offset <= high
  BY <1>3, RegisterFacts DEF RegistersFit, IsNumber
<1>5. PICK dl \in Int, dh \in Int, do \in Int : dl = d * low /\ dh = d * high /\ do = d * offset
  OBVIOUS
<1>6. dl <= 0 /\ 0 <= dh /\ do <= 0 /\ -do <= dh /\ (~r.signed => dl = 0) /\ (r.signed => dl < 0)
  <2>1. d * low <= 0 /\ d * high >= 0 /\ d * offset <= 0 /\ d * (high + offset) >= 0
    BY <1>3, <1>4
  <2>2. d * (high + offset) = d * high + d * offset
    OBVIOUS
  <2>3. r.signed => d * (-low) > 0
    BY <1>3, TimesPositive
  <2> QED
    BY <1>3, <1>5, <2>1, <2>2, <2>3
<1>7. PICK s \in Int : s = Limit(x, dl, dh)
  BY DEF Limit
<1>8. PICK is : is = LogicValue(r, Stored(r, n))
  OBVIOUS
<1>9. Stored(r, n) = NumberFromPython(r, x) % Span(r)
  BY <1>2 DEF Stored, Raw
<1>10. s = Limit(x, Den * IntMin(r), Den * IntMax(r))
  BY <1>1, <1>3, <1>5, <1>7
<1>11. PICK k \in Int : k = s \div Den /\ d * k <= s /\ s < d * k + d
  BY <1>1, <1>7, Floor
<1>12. /\ is \in Int
       /\ \/ is = k + offset /\ (~r.signed => k + offset >= 0)
          \/ is = 0 /\ k >= 0 /\ k + offset < 0
          \/ r.signed /\ k < 0 /\ k + offset < low
  BY <1>3, <1>4, <1>8, <1>9, <1>10, <1>11, NumberSeen DEF IsNumber
<1>13. PICK e \in Int : e = Exact(r, n) /\ e = x + do
  BY <1>1, <1>2, <1>4, <1>5, InsideFacts
<1>14. Lowest(r) = (IF r.signed THEN dl + do ELSE 0) /\ Highest(r) = dh + do
  <2>1. d * (low + offset) = dl + do /\ d * (high + offset) = dh + do
    BY <1>5
  <2> QED
    BY <1>1, <1>3, <1>4, <2>1 DEF Lowest, Highest
<1>15. /\ r.signed => ~(do <= e /\ e <= -1)
       /\ r.signed /\ offset # 0 => e >= dl
  BY <1>1, <1>3, <1>4, <1>5, <1>13 DEF Excepted
<1>16. PICK dk \in Int : dk = d * k /\ dk <= s /\ s < dk + d
  BY <1>11
<1>17. \A c \in Int : (k >= c <=> s >= d * c)
  BY <1>1, <1>7, <1>11, Floor
<1>18. CASE is = k + offset /\ (~r.signed => k + offset >= 0)
  <2>1. d * is = dk + do
    BY <1>5, <1>16, <1>18
  <2>2. ~r.signed => s + do >= 0
    <3>1. ASSUME k + offset >= 0
          PROVE  s + do >= 0
      <4>1. s >= d * (-offset)
        <5>1. -offset \in Int /\ k >= -offset
          BY <1>4, <1>11, <3>1
        <5> QED
          BY <1>17, <5>1
      <4>2. d * (-offset) = -do
        BY <1>5
      <4> QED
        BY <4>1, <4>2
    <3> QED
      BY <1>18, <3>1
  <2>3. Limit(e, IF r.signed THEN dl + do ELSE 0, dh + do) = s + do
    BY <1>6, <1>7, <1>13, <2>2 DEF Limit
  <2> QED
    BY <1>1, <1>8, <1>13, <1>14, <1>16, <2>1, <2>3
<1>19. CASE is = 0 /\ k >= 0 /\ k + offset < 0
  <2>1. s >= 0 /\ s + do < 0
    <3>1. k >= 0 <=> s >= d * 0
      BY <1>17
    <3>2. k >= -offset <=> s >= d * (-offset)
      BY <1>17
    <3>3. d * (-offset) = -do
      BY <1>5
    <3> QED
      BY <1>4, <1>19, <3>1, <3>2, <3>3
  <2>2. ~r.signed
    BY <1>6, <1>7, <1>13, <1>15, <2>1 DEF Limit
  <2>3. Limit(e, 0, dh + do) = 0
    BY <1>6, <1>7, <1>13, <2>1 DEF Limit
  <2> QED
    BY <1>1, <1>8, <1>13, <1>14, <1>19, <2>2, <2>3
<1>20. CASE r.signed /\ k < 0 /\ k + offset < low
  <2>1. s < 0 /\ s + do < dl
    <3>1. k >= 0 <=> s >= d * 0
      BY <1>17
    <3>2. k >= low - offset <=> s >= d * (low - offset)
      <4>1. PICK c \in Int : c = low - offset
        BY <1>3, <1>4
      <4>2. k >= c <=> s >= d * c
        BY <1>17
      <4> QED
        BY <4>1, <4>2
    <3>3. d * (low - offset) = dl - do
      BY <1>5
    <3> QED
      BY <1>4, <1>20, <3>1, <3>2, <3>3
  <2>2. offset # 0
    BY <1>5, <1>6, <1>7, <2>1 DEF Limit
  <2>3. e < dl
    BY <1>6, <1>7, <1>13, <2>1 DEF Limit
  <2> QED
    BY <1>13, <1>15, <1>20, <2>2, <2>3
<1> QED
  BY <1>12, <1>18, <1>19, <1>20

LEMMA FixedSeen ==
    ASSUME RegistersFit, NEW r \in Registers, ~r.ram, r.kind = "fixed", NEW n \in Int
    PROVE  2 * (Den * LogicValue(r, Stored(r, n)) - Limit(Exact(r, n), Lowest(r), Highest(r)))
               \in (-Den)..Den
<1>1. PICK d \in Nat \ {0} : d = Den
  BY DenAssumption
<1>2. r.offset = 0
  BY DEF RegistersFit
<1>3. PICK low \in Int, high \in Int :
          /\ low = IntMin(r) /\ high = IntMax(r) /\ low <= 0 /\ 0 <= high
          /\ ~r.signed => low = 0
  BY SpanFacts, RegisterFacts
<1>4. PICK e \in Int, m \in Int :
          /\ e = BeforeFromPython(r, n) * Scale(r) /\ e = Exact(r, n)
          /\ m = Round(e, d)
          /\ 2 * (d * m - e) \in (-d)..d
  <2>1. PICK b \in Int, scale \in Int : b = BeforeFromPython(r, n) /\ scale = Scale(r)
    BY BeforeFits, PowerPositive, RegisterFacts DEF Scale
  <2>2. PICK e \in Int : e = b * scale
    BY <2>1
  <2>3. Exact(r, n) = scale * b + d * 0
    BY <1>1, <1>2, <2>1, InsideFacts
  <2>4. scale * b + d * 0 = e
    BY <2>1, <2>2
  <2>5. Round(e, Den) \in Int /\ 2 * (Den * Round(e, Den) - e) \in (-Den)..Den
    BY <2>2, RoundNear
  <2> QED
    BY <1>1, <2>1, <2>2, <2>3, <2>4, <2>5
<1>5. PICK dl \in Int, dh \in Int, x \in Int : dl = d * low /\ dh = d * high /\ x = d * m
  OBVIOUS
<1>6. dl <= 0 /\ 0 <= dh
  BY <1>3, <1>5
<1>7. PICK s \in Int : s = Limit(x, dl, dh)
  BY DEF Limit
<1>8. s = Limit(x, Den * IntMin(r), Den * IntMax(r))
  BY <1>1, <1>3, <1>5, <1>7
<1>9. PICK k \in Int : s = d * k
  BY <1>5, <1>7 DEF Limit
<1>10. s \div Den = k
  BY <1>1, <1>7, <1>9, FloorUnique
<1>11. PICK is : is = LogicValue(r, NumberFromPython(r, x) % Span(r))
  OBVIOUS
<1>12. is = k
  <2>1. /\ k \in low..high
        /\ \/ is = k + 0
           \/ k >= 0 /\ k + 0 < 0
           \/ k + 0 < low
    BY <1>2, <1>3, <1>8, <1>10, <1>11, NumberSeen DEF IsNumber
  <2> QED
    BY <1>9, <2>1
<1>13. LogicValue(r, Stored(r, n)) = k
  BY <1>1, <1>4, <1>5, <1>11, <1>12 DEF Stored, Raw, FixedFromPython
<1>14. Lowest(r) = dl /\ Highest(r) = dh
  <2>1. Lowest(r) = IF r.signed THEN d * (low + 0) ELSE 0
    BY <1>1, <1>2, <1>3 DEF Lowest
  <2>2. Highest(r) = d * (high + 0)
    BY <1>1, <1>2, <1>3 DEF Highest
  <2>3. ~r.signed => dl = 0
    BY <1>3, <1>5
  <2> QED
    BY <1>5, <2>1, <2>2, <2>3
<1>15. 2 * (Limit(x, dl, dh) - Limit(e, dl, dh)) \in (-d)..d
  <2>1. 2 * (x - e) \in (-d)..d /\ dl <= dh /\ d \in Nat
    BY <1>1, <1>4, <1>5, <1>6
  <2> QED
    BY <2>1, LimitNear
<1> QED
  BY <1>1, <1>4, <1>7, <1>9, <1>13, <1>14, <1>15

(* For registers of every kind, width, sign, offset and limits that fit,   *)
(* what a program sets is what the logic gets, less than one off, of a     *)
(* fixed point number at most a half; Excepted names where the code does   *)
(* something else                                                          *)
(* (register.py:101, 127-136, 195-200, 273-293 and 315-320).               *)
THEOREM LogicGetsWhatIsSet ==
    ASSUME RegistersFit
    PROVE  Spec => []LogicSeesValue
<1>1. CodecInv => LogicSeesValue
  <2> SUFFICES ASSUME CodecInv, set # None, NEW i \in Index(register)
               PROVE  LET r == register
                          is == LogicValue(r, cells[Place(r, i)])
                          due == Limit(Exact(r, set[i]), Lowest(r), Highest(r))
                      IN IF r.kind = "bool"
                         THEN ((is - r.offset) \div 2 ^ r.bit) % 2
                                  = (IF (set[i] # 0) # r.invert THEN 1 ELSE 0)
                         ELSE Excepted(r, set[i]) \/
                              IF r.kind = "fixed" THEN 2 * (Den * is - due) \in (-Den)..Den
                              ELSE Den * is - due \in (1 - Den)..(Den - 1)
    BY DEF LogicSeesValue
  <2>1. PICK r \in Registers : r = register
    BY DEF CodecInv, TypeOK
  <2>2. PICK n \in Int : n = set[i]
    BY DEF CodecInv, TypeOK, RegistersFit
  <2>3. /\ cells[Place(r, i)] = Stored(r, n)
        /\ ~r.ram /\ r.kind # "trigger"
    BY <2>1, <2>2 DEF CodecInv, CellsHoldSet
  <2>4. CASE r.kind = "bool"
    BY <2>1, <2>2, <2>3, <2>4, BoolSeen
  <2>5. CASE r.kind = "register"
    <3>1. PICK bound \in Int, e \in Int : bound = Den * Span(r) /\ e = Exact(r, n)
      <4>1. Exact(r, n) = 1 * BeforeFromPython(r, n) + Den * r.offset
        BY <2>5, InsideFacts
      <4>2. BeforeFromPython(r, n) \in Int /\ Den * r.offset \in Int
        BY BeforeFits, RegisterFacts, DenAssumption
      <4> QED
        BY <4>1, <4>2, SpanFacts, DenAssumption
    <3>2. Excepted(r, n) \/ Exact(r, n) < Den * Span(r)
      BY <2>5, <3>1 DEF Excepted
    <3> QED
      BY <2>1, <2>2, <2>3, <2>5, <3>2, PlainSeen
  <2>6. CASE r.kind = "number"
    BY <2>1, <2>2, <2>3, <2>6, IntegerSeen
  <2>7. CASE r.kind = "fixed"
    BY <2>1, <2>2, <2>3, <2>7, FixedSeen
  <2> QED
    BY <2>3, <2>4, <2>5, <2>6, <2>7, RegisterFacts
<1> QED
  BY <1>1, CodecInvariance, PTL

-----------------------------------------------------------------------------
(* Module classes.                                                         *)

\* A sequence of whatever it has.
Sequence(s) == s \in Seq({s[i] : i \in 1..Len(s)})

LEMMA AppendSequence ==
    ASSUME NEW s, Sequence(s), NEW e
    PROVE  /\ Sequence(Append(s, e))
           /\ Len(s) \in Nat /\ DOMAIN s = 1..Len(s)
           /\ Len(Append(s, e)) = Len(s) + 1 /\ DOMAIN Append(s, e) = 1..(Len(s) + 1)
           /\ \A i \in 1..Len(s) : Append(s, e)[i] = s[i]
           /\ Append(s, e)[Len(s) + 1] = e
<1> DEFINE S == {s[i] : i \in 1..Len(s)} \cup {e}
           t == Append(s, e)
<1>1. s \in Seq(S)
  BY DEF Sequence
<1> HIDE DEF S
<1>2. /\ t \in Seq(S) /\ Len(t) = Len(s) + 1 /\ Len(s) \in Nat
      /\ \A i \in 1..Len(s) : t[i] = s[i]
      /\ t[Len(s) + 1] = e
  BY <1>1, AppendProperties DEF S
<1>3. DOMAIN s = 1..Len(s) /\ DOMAIN t = 1..Len(t)
  BY <1>1, <1>2, LenProperties
<1> HIDE DEF t
<1>4. t \in Seq({t[i] : i \in 1..Len(t)})
  BY <1>2
<1> QED
  BY <1>2, <1>3, <1>4 DEF Sequence, t

\* A submodule's class is defined before.
ClassesFit ==
    /\ Sequence(classes)
    /\ \A k \in 1..Len(classes) :
          /\ classes[k].base \in 0..(k - 1)
          /\ DOMAIN classes[k].hints \subseteq Names
          /\ DOMAIN classes[k].submodules \subseteq Names
          /\ \A n \in DOMAIN classes[k].submodules : classes[k].submodules[n] \in 1..(k - 1)

LEMMA ClassFits ==
    ASSUME ClassesFit, NEW base \in 0..Len(classes), NEW dom \in SUBSET Names,
           NEW own \in [dom -> Types \cup 1..Len(classes)]
    PROVE  /\ Class(base, own).base = base
           /\ DOMAIN Class(base, own).hints \subseteq Names
           /\ DOMAIN Class(base, own).submodules \subseteq Names
           /\ \A n \in DOMAIN Class(base, own).submodules :
                  Class(base, own).submodules[n] \in 1..Len(classes)
<1> DEFINE hints == Updated(Hints(base), own)
<1>1. Class(base, own).base = base /\ Class(base, own).hints = hints
      /\ Class(base, own).submodules = Only(hints, 1..Len(classes))
  BY DEF Class
<1>2. DOMAIN Hints(base) \subseteq Names
  <2>1. CASE base = 0
    BY <2>1 DEF Hints
  <2>2. CASE base # 0
    BY <2>2 DEF Hints, ClassesFit
  <2> QED
    BY <2>1, <2>2
<1>3. DOMAIN hints \subseteq Names
  BY <1>2 DEF Updated
<1> HIDE DEF hints
<1>4. /\ DOMAIN Only(hints, 1..Len(classes)) \subseteq DOMAIN hints
      /\ \A n \in DOMAIN Only(hints, 1..Len(classes)) :
             Only(hints, 1..Len(classes))[n] \in 1..Len(classes)
  BY DEF Only
<1> QED
  BY <1>1, <1>3, <1>4

LEMMA DefineClassFits ==
    ASSUME ClassesFit, NEW base \in 0..Len(classes), NEW dom \in SUBSET Names,
           NEW own \in [dom -> Types \cup 1..Len(classes)], DefineClass(base, own)
    PROVE  ClassesFit'
<1>1. PICK c : c = Class(base, own)
  OBVIOUS
<1>2. classes' = Append(classes, c)
  BY <1>1 DEF DefineClass
<1>3. /\ Sequence(classes') /\ Len(classes) \in Nat
      /\ Len(classes') = Len(classes) + 1
      /\ \A k \in 1..Len(classes) : classes'[k] = classes[k]
      /\ classes'[Len(classes) + 1] = c
  BY <1>2, AppendSequence DEF ClassesFit
<1>4. /\ c.base = base
      /\ DOMAIN c.hints \subseteq Names
      /\ DOMAIN c.submodules \subseteq Names
      /\ \A n \in DOMAIN c.submodules : c.submodules[n] \in 1..Len(classes)
  BY <1>1, ClassFits
<1>5. ASSUME NEW k \in 1..Len(classes')
      PROVE  /\ classes'[k].base \in 0..(k - 1)
             /\ DOMAIN classes'[k].hints \subseteq Names
             /\ DOMAIN classes'[k].submodules \subseteq Names
             /\ \A n \in DOMAIN classes'[k].submodules : classes'[k].submodules[n] \in 1..(k - 1)
  <2>1. CASE k = Len(classes) + 1
    BY <1>3, <1>4, <2>1
  <2>2. CASE k \in 1..Len(classes)
    BY <1>3, <2>2 DEF ClassesFit
  <2> QED
    BY <1>3, <2>1, <2>2
<1> QED
  BY <1>3, <1>5 DEF ClassesFit

-----------------------------------------------------------------------------
(* The construction of a design.  TreeInv says how the running             *)
(* constructors are nested, and what each of them has done.                *)

ObjectRecords == [class : Nat, path : Seq(Names), name : Names \cup {Top, NoName},
                  parent : Nat, has : SUBSET Names]
Frames == [obj : Nat, level : Nat, name : Names \cup {Top}, parent : Nat,
           todo : SUBSET Names, at : {"start", "submodules", "body"}]

Sub(o) == DOMAIN ClassOf(o).submodules
Kid(o) == objects[o].path[Len(objects[o].path)]

PlacesFit == objects \in Seq(ObjectRecords) /\ stack \in Seq(Frames)

ObjectFits(o) ==
    /\ objects[o].class \in 1..Len(classes)
    /\ objects[o].parent \in 0..(o - 1)
    /\ objects[o].has \subseteq Sub(o)
    /\ ~Initialised(o) => /\ objects[o].parent = 0 /\ objects[o].has = {}
                          /\ \A p \in 1..Len(objects) : objects[p].parent # o

\* How far a constructor is says what its object has.
FrameFits(i) ==
    /\ stack[i].obj \in 1..Len(objects)
    /\ stack[i].level \in 1..Len(classes)
    /\ stack[i].at = "start" => stack[i].todo = {}
    /\ stack[i].at = "start" /\ Initialised(stack[i].obj) =>
          objects[stack[i].obj].has = Sub(stack[i].obj)
    /\ stack[i].at # "start" => Initialised(stack[i].obj)
    /\ stack[i].at = "body" => objects[stack[i].obj].has = Sub(stack[i].obj)

\* A constructor waits for one of the same object, or for one of a submodule,
\* which is younger.
Nested ==
    \A j \in 1..Len(stack) : \A i \in 1..(j - 1) :
        \/ stack[i].at = "body" /\ stack[j].obj = stack[i].obj /\ stack[j].todo = {}
        \/ stack[i].at = "submodules" /\ stack[i].obj < stack[j].obj

\* The submodule that a constructor waits for.
Current(i) == IF i < Len(stack) THEN {Kid(stack[i + 1].obj)} ELSE {}

WaitFits(i) ==
    stack[i].at = "submodules" =>
        /\ objects[stack[i].obj].has \cup stack[i].todo \cup Current(i) = Sub(stack[i].obj)
        /\ objects[stack[i].obj].has \cap stack[i].todo = {}
        /\ objects[stack[i].obj].has \cap Current(i) = {}
        /\ stack[i].todo \cap Current(i) = {}

\* The parent that a constructor passes on.
CallFits(i) ==
    \/ /\ i > 1 /\ stack[i - 1].at = "submodules"
       /\ stack[i].parent = stack[i - 1].obj
       /\ Initialised(stack[i].obj) => objects[stack[i].obj].parent = stack[i - 1].obj
    \/ /\ i > 1 => stack[i - 1].at # "submodules"
       /\ stack[i].parent = 0

\* A submodule is an attribute of its parent, or its constructor is running.
Known(p) ==
    objects[p].parent # 0 =>
        \/ Kid(p) \in objects[objects[p].parent].has
        \/ \E i \in 2..Len(stack) : /\ stack[i].obj = p
                                   /\ stack[i - 1].obj = objects[p].parent
                                   /\ stack[i - 1].at = "submodules"

Made(o) ==
    \A n \in objects[o].has : \E p \in 1..Len(objects) : objects[p].parent = o /\ Kid(p) = n

Once(p, q) ==
    objects[p].parent = objects[q].parent /\ objects[p].parent # 0 /\ Kid(p) = Kid(q) => p = q

TreeInv ==
    /\ ClassesFit
    /\ PlacesFit
    /\ \A o \in 1..Len(objects) : ObjectFits(o) /\ Known(o) /\ Made(o)
    /\ \A p, q \in 1..Len(objects) : Once(p, q)
    /\ \A i \in 1..Len(stack) : FrameFits(i) /\ WaitFits(i) /\ CallFits(i)
    /\ Nested

LEMMA Domains ==
    ASSUME PlacesFit
    PROVE  /\ Len(objects) \in Nat /\ DOMAIN objects = 1..Len(objects)
           /\ \A o \in 1..Len(objects) : objects[o] \in ObjectRecords
           /\ Len(stack) \in Nat /\ DOMAIN stack = 1..Len(stack)
           /\ \A i \in 1..Len(stack) : stack[i] \in Frames
           /\ stack # <<>> => Len(stack) >= 1
  BY DEF PlacesFit

\* The innermost constructor goes on.
LEMMA Moved ==
    ASSUME PlacesFit, stack # <<>>, NEW x \in {"start", "submodules", "body"},
           NEW t \in Nat, t = Len(stack), NEW s, s = At(x)
    PROVE  /\ s \in Seq(Frames)
           /\ Len(s) = t
           /\ \A i \in 1..t : /\ s[i].obj = stack[i].obj
                              /\ s[i].level = stack[i].level
                              /\ s[i].parent = stack[i].parent
                              /\ s[i].todo = stack[i].todo
                              /\ i # t => s[i].at = stack[i].at
           /\ s[t].at = x
<1>1. t \in 1..Len(stack) /\ stack[t] \in Frames /\ stack \in Seq(Frames)
  BY Domains DEF PlacesFit
<1>2. PICK g \in Frames : g = [stack[t] EXCEPT !.at = x]
  BY <1>1 DEF Frames
<1>3. s = [stack EXCEPT ![t] = g]
  BY <1>2 DEF At
<1>4. /\ s \in Seq(Frames)
      /\ Len(s) = t
      /\ \A i \in 1..t : s[i] = IF i = t THEN g ELSE stack[i]
  BY <1>1, <1>3, ExceptSeq
<1>5. /\ g.obj = stack[t].obj /\ g.level = stack[t].level /\ g.parent = stack[t].parent
      /\ g.todo = stack[t].todo /\ g.at = x
  BY <1>1, <1>2 DEF Frames
<1> QED
  BY <1>1, <1>4, <1>5

\* It goes on with all submodules there.
LEMMA MovedKeeps ==
    ASSUME TreeInv, stack # <<>>, NEW x \in {"submodules", "body"}, stack' = At(x),
           classes' = classes, objects' = objects,
           frame.todo = {}, Initialised(frame.obj),
           objects[frame.obj].has = Sub(frame.obj)
    PROVE  TreeInv'
<1>1. PICK t \in Nat : t = Len(stack)
  BY Domains DEF TreeInv
<1>2. PICK m \in Nat : m = Len(objects)
  BY Domains DEF TreeInv
<1>3. /\ t >= 1 /\ stack[t].todo = {} /\ Initialised(stack[t].obj)
      /\ objects[stack[t].obj].has = Sub(stack[t].obj)
  BY <1>1, Domains DEF TreeInv, frame
<1>4. /\ \A p \in 1..m : ObjectFits(p) /\ Known(p) /\ Made(p)
      /\ \A p, q \in 1..m : Once(p, q)
      /\ \A i \in 1..t : FrameFits(i) /\ WaitFits(i) /\ CallFits(i)
  BY <1>1, <1>2 DEF TreeInv
<1>5. /\ stack' \in Seq(Frames)
      /\ Len(stack') = t
      /\ \A i \in 1..t : /\ stack'[i].obj = stack[i].obj
                         /\ stack'[i].level = stack[i].level
                         /\ stack'[i].parent = stack[i].parent
                         /\ stack'[i].todo = stack[i].todo
                         /\ i # t => stack'[i].at = stack[i].at
      /\ stack'[t].at = x
  <2>1. PlacesFit
    BY DEF TreeInv
  <2> QED
    BY <1>1, <2>1, Moved
<1>6. ClassesFit' /\ PlacesFit'
  <2>1. ClassesFit'
    BY DEF TreeInv, ClassesFit, Sequence
  <2>2. PlacesFit'
    BY <1>5 DEF TreeInv, PlacesFit
  <2> QED
    BY <2>1, <2>2
<1>7. ASSUME NEW p \in 1..m  PROVE ObjectFits(p)' /\ Made(p)'
  <2>1. ObjectFits(p) /\ Made(p)
    BY <1>4
  <2> QED
    BY <1>3, <2>1 DEF ObjectFits, Made, Initialised, Sub, ClassOf, Kid
<1>8. ASSUME NEW p \in 1..m, NEW q \in 1..m  PROVE Once(p, q)'
  BY <1>3, <1>4 DEF Once, Kid
<1>9. ASSUME NEW p \in 1..m  PROVE Known(p)'
  <2>1. Known(p)
    BY <1>4
  <2> QED
    BY <1>1, <1>3, <1>5, <2>1 DEF Known, Kid
<1>10. ASSUME NEW i \in 1..t  PROVE CallFits(i)'
  <2>1. CallFits(i)
    BY <1>4
  <2> QED
    BY <1>3, <1>5, <2>1 DEF CallFits, Initialised
<1>11. ASSUME NEW i \in 1..t  PROVE FrameFits(i)' /\ WaitFits(i)'
  <2>1. WaitFits(i) /\ FrameFits(i)
    BY <1>4
  <2>2. Current(i)' = Current(i)
    <3>1. i < t => stack'[i + 1].obj = stack[i + 1].obj
      BY <1>5
    <3> QED
      BY <1>1, <1>3, <1>5, <3>1 DEF Current, Kid
  <2>3. CASE i = t
    <3>1. Current(i) = {}
      BY <1>1, <2>3 DEF Current
    <3>2. /\ stack'[i].obj = stack[i].obj /\ stack'[i].level = stack[i].level
          /\ stack'[i].todo = {} /\ stack'[i].at = x
      BY <1>3, <1>5, <2>3
    <3>3. FrameFits(i)'
      BY <1>3, <2>1, <2>3, <3>2 DEF FrameFits, Initialised, Sub, ClassOf
    <3>4. WaitFits(i)'
      BY <1>3, <2>2, <2>3, <3>1, <3>2 DEF WaitFits, Sub, ClassOf
    <3> QED
      BY <3>3, <3>4
  <2>4. CASE i # t
    <3>1. WaitFits(i)'
      BY <1>3, <1>5, <2>1, <2>2, <2>4 DEF WaitFits, Sub, ClassOf
    <3>2. FrameFits(i)'
      BY <1>3, <1>5, <2>1, <2>4 DEF FrameFits, Initialised, Sub, ClassOf
    <3> QED
      BY <3>1, <3>2
  <2> QED
    BY <2>3, <2>4
<1>12. Nested'
  <2> SUFFICES ASSUME NEW j \in 1..t, NEW i \in 1..(j - 1)
               PROVE  \/ stack'[i].at = "body" /\ stack'[j].obj = stack'[i].obj /\ stack'[j].todo = {}
                      \/ stack'[i].at = "submodules" /\ stack'[i].obj < stack'[j].obj
    BY <1>5 DEF Nested
  <2>1. /\ i \in 1..t /\ i # t
        /\ \/ stack[i].at = "body" /\ stack[j].obj = stack[i].obj /\ stack[j].todo = {}
           \/ stack[i].at = "submodules" /\ stack[i].obj < stack[j].obj
    BY <1>1 DEF TreeInv, Nested
  <2> QED
    BY <1>5, <2>1
<1> QED
  BY <1>2, <1>3, <1>5, <1>6, <1>7, <1>8, <1>9, <1>10, <1>11, <1>12 DEF TreeInv

LEMMA SkipInitKeeps ==
    ASSUME TreeInv, SkipInit
    PROVE  TreeInv'
<1>1. Len(stack) \in 1..Len(stack)
  BY Domains DEF TreeInv, SkipInit
<1>2. FrameFits(Len(stack))
  BY <1>1 DEF TreeInv
<1>3. frame.todo = {} /\ Initialised(frame.obj) /\ objects[frame.obj].has = Sub(frame.obj)
  BY <1>2 DEF FrameFits, SkipInit, frame
<1> QED
  BY <1>3, MovedKeeps DEF SkipInit

\* When nothing is left to be made, everything has been.
LEMMA AllMade ==
    ASSUME TreeInv, InitDone
    PROVE  frame.todo = {} /\ Initialised(frame.obj) /\ objects[frame.obj].has = Sub(frame.obj)
<1>1. Len(stack) \in 1..Len(stack)
  BY Domains DEF TreeInv, InitDone
<1>2. FrameFits(Len(stack)) /\ WaitFits(Len(stack))
  BY <1>1 DEF TreeInv
<1>3. Current(Len(stack)) = {}
  BY <1>1 DEF Current
<1> QED
  BY <1>2, <1>3 DEF FrameFits, WaitFits, InitDone, frame

LEMMA RunBodyKeeps ==
    ASSUME TreeInv, RunBody
    PROVE  TreeInv'
<1>1. /\ frame.todo = {} /\ Initialised(frame.obj)
      /\ objects[frame.obj].has = Sub(frame.obj)
  BY AllMade DEF RunBody
<1> QED
  BY <1>1, MovedKeeps DEF RunBody, InitDone

\* A constructor that is called is the innermost one.
LEMMA Pushed ==
    ASSUME NEW s \in Seq(Frames), NEW f \in Frames, NEW t \in Nat, t = Len(s),
           NEW u, u = Append(s, f)
    PROVE  /\ u \in Seq(Frames)
           /\ Len(u) = t + 1
           /\ \A i \in 1..t : u[i] = s[i]
           /\ u[t + 1] = f
  BY AppendProperties

LEMMA CallInheritedKeeps ==
    ASSUME TreeInv, CallInherited
    PROVE  TreeInv'
<1>1. PICK t \in Nat : t = Len(stack)
  BY Domains DEF TreeInv
<1>2. PICK m \in Nat : m = Len(objects)
  BY Domains DEF TreeInv
<1>3. /\ t >= 1 /\ t \in 1..t /\ stack[t].todo = {} /\ Initialised(stack[t].obj)
      /\ objects[stack[t].obj].has = Sub(stack[t].obj)
      /\ objects' = objects /\ classes' = classes
  <2>1. /\ frame.todo = {} /\ Initialised(frame.obj)
        /\ objects[frame.obj].has = Sub(frame.obj)
    BY AllMade DEF CallInherited
  <2> QED
    BY <1>1, <2>1, Domains DEF TreeInv, CallInherited, InitDone, frame
<1>4. /\ \A p \in 1..m : ObjectFits(p) /\ Known(p) /\ Made(p)
      /\ \A p, q \in 1..m : Once(p, q)
      /\ \A i \in 1..t : FrameFits(i) /\ WaitFits(i) /\ CallFits(i)
  BY <1>1, <1>2 DEF TreeInv
<1>5. PICK o \in 1..m : o = stack[t].obj
  BY <1>2, <1>3, <1>4 DEF FrameFits
<1>6. PICK b \in 1..Len(classes) : b = classes[stack[t].level].base
  <2>1. PICK k \in 1..Len(classes) : k = stack[t].level
    BY <1>3, <1>4 DEF FrameFits
  <2>2. classes[k].base \in 0..(k - 1) /\ classes[k].base # 0
    BY <1>1, <2>1 DEF TreeInv, ClassesFit, CallInherited, frame
  <2>3. Len(classes) \in Nat
    BY DEF TreeInv, ClassesFit, Sequence
  <2> QED
    BY <2>1, <2>2, <2>3
<1>7. PICK f \in Frames : f = Call(o, b, Top, 0)
  <2>1. Len(classes) \in Nat
    BY DEF TreeInv, ClassesFit, Sequence
  <2>2. o \in Nat /\ b \in Nat
    BY <1>2, <2>1
  <2>3. Call(o, b, Top, 0) \in Frames
    BY <2>2 DEF Frames, Call
  <2> QED
    BY <2>3
<1>8. f.obj = o /\ f.level = b /\ f.parent = 0 /\ f.todo = {} /\ f.at = "start"
  BY <1>7 DEF Call
<1>9. /\ stack' \in Seq(Frames)
      /\ Len(stack') = t + 1
      /\ \A i \in 1..t : /\ stack'[i].obj = stack[i].obj
                         /\ stack'[i].level = stack[i].level
                         /\ stack'[i].parent = stack[i].parent
                         /\ stack'[i].todo = stack[i].todo
                         /\ i # t => stack'[i].at = stack[i].at
      /\ stack'[t].at = "body"
      /\ stack'[t + 1] = f
  <2>1. PICK s : s = At("body")
    OBVIOUS
  <2>2. PlacesFit /\ stack # <<>> /\ stack' = Append(s, f)
    BY <1>1, <1>5, <1>6, <1>7, <2>1 DEF TreeInv, CallInherited, InitDone, frame
  <2>3. /\ s \in Seq(Frames)
        /\ Len(s) = t
        /\ \A i \in 1..t : /\ s[i].obj = stack[i].obj
                           /\ s[i].level = stack[i].level
                           /\ s[i].parent = stack[i].parent
                           /\ s[i].todo = stack[i].todo
                           /\ i # t => s[i].at = stack[i].at
        /\ s[t].at = "body"
    BY <1>1, <2>1, <2>2, Moved
  <2>4. /\ stack' \in Seq(Frames)
        /\ Len(stack') = t + 1
        /\ \A i \in 1..t : stack'[i] = s[i]
        /\ stack'[t + 1] = f
    BY <2>2, <2>3, Pushed
  <2> QED
    BY <1>3, <2>3, <2>4
<1>10. ClassesFit' /\ PlacesFit'
  <2>1. ClassesFit'
    BY <1>3 DEF TreeInv, ClassesFit, Sequence
  <2>2. PlacesFit'
    BY <1>3, <1>9 DEF TreeInv, PlacesFit
  <2> QED
    BY <2>1, <2>2
<1>11. ASSUME NEW p \in 1..m  PROVE ObjectFits(p)' /\ Made(p)'
  <2>1. ObjectFits(p) /\ Made(p)
    BY <1>4
  <2> QED
    BY <1>3, <2>1 DEF ObjectFits, Made, Initialised, Sub, ClassOf, Kid
<1>12. ASSUME NEW p \in 1..m, NEW q \in 1..m  PROVE Once(p, q)'
  BY <1>3, <1>4 DEF Once, Kid
<1>13. ASSUME NEW p \in 1..m  PROVE Known(p)'
  <2>1. Known(p)
    BY <1>4
  <2> QED
    <3> SUFFICES ASSUME objects[p].parent # 0, Kid(p) \notin objects[objects[p].parent].has
                 PROVE  \E i \in 2..(t + 1) : /\ stack'[i].obj = p
                                           /\ stack'[i - 1].obj = objects[p].parent
                                           /\ stack'[i - 1].at = "submodules"
      BY <1>3, <1>9 DEF Known, Kid
    <3>1. PICK i \in 2..t : /\ stack[i].obj = p /\ stack[i - 1].obj = objects[p].parent
                           /\ stack[i - 1].at = "submodules"
      BY <1>1, <2>1 DEF Known
    <3>2. i \in 1..t /\ i \in 2..(t + 1) /\ i - 1 \in 1..t /\ i - 1 # t
      OBVIOUS
    <3>3. /\ stack'[i].obj = stack[i].obj /\ stack'[i - 1].obj = stack[i - 1].obj
          /\ stack'[i - 1].at = stack[i - 1].at
      BY <1>9, <3>2
    <3> QED
      BY <3>1, <3>2, <3>3
<1>14. ASSUME NEW i \in 1..(t + 1)  PROVE CallFits(i)'
  <2>1. CASE i = t + 1
    BY <1>3, <1>8, <1>9, <2>1 DEF CallFits, Initialised
  <2>2. CASE i \in 1..t
    <3>1. CallFits(i)
      BY <1>4, <2>2
    <3> QED
      BY <1>3, <1>9, <2>2, <3>1 DEF CallFits, Initialised
  <2> QED
    BY <2>1, <2>2
<1>15. ASSUME NEW i \in 1..(t + 1)  PROVE FrameFits(i)' /\ WaitFits(i)'
  <2>1. CASE i = t + 1
    <3>1. WaitFits(i)'
      BY <1>8, <1>9, <2>1 DEF WaitFits
    <3> QED
      BY <1>2, <1>3, <1>5, <1>8, <1>9, <2>1, <3>1 DEF FrameFits, Initialised, Sub, ClassOf
  <2>2. CASE i = t
    <3>1. FrameFits(i)
      BY <1>4, <2>2
    <3> QED
      BY <1>2, <1>3, <1>9, <2>2, <3>1 DEF FrameFits, WaitFits, Initialised, Sub, ClassOf
  <2>3. CASE i \in 1..(t - 1)
    <3>1. FrameFits(i) /\ WaitFits(i)
      BY <1>4, <2>3
    <3>2. Current(i)' = Current(i)
      <4>1. stack'[i + 1].obj = stack[i + 1].obj
        BY <1>9, <2>3
      <4> QED
        BY <1>1, <1>3, <1>9, <2>3, <4>1 DEF Current, Kid
    <3>3. /\ stack'[i].obj = stack[i].obj /\ stack'[i].level = stack[i].level
          /\ stack'[i].todo = stack[i].todo /\ stack'[i].at = stack[i].at
      BY <1>9, <2>3
    <3>4. WaitFits(i)'
      BY <1>3, <3>1, <3>2, <3>3 DEF WaitFits, Sub, ClassOf
    <3>5. FrameFits(i)'
      BY <1>3, <3>1, <3>3 DEF FrameFits, Initialised, Sub, ClassOf
    <3> QED
      BY <3>4, <3>5
  <2> QED
    BY <2>1, <2>2, <2>3
<1>16. Nested'
  <2> SUFFICES ASSUME NEW j \in 1..(t + 1), NEW i \in 1..(j - 1)
               PROVE  \/ stack'[i].at = "body" /\ stack'[j].obj = stack'[i].obj /\ stack'[j].todo = {}
                      \/ stack'[i].at = "submodules" /\ stack'[i].obj < stack'[j].obj
    BY <1>9 DEF Nested
  <2>1. CASE j \in 1..t
    BY <1>1, <1>9, <2>1 DEF TreeInv, Nested
  <2>2. CASE j = t + 1 /\ i = t
    BY <1>5, <1>8, <1>9, <2>2
  <2>3. CASE j = t + 1 /\ i \in 1..(t - 1)
    <3>1. \/ stack[i].at = "body" /\ stack[t].obj = stack[i].obj
          \/ stack[i].at = "submodules" /\ stack[i].obj < stack[t].obj
      BY <1>1, <1>3, <2>3 DEF TreeInv, Nested
    <3> QED
      BY <1>5, <1>8, <1>9, <2>3, <3>1
  <2> QED
    BY <2>1, <2>2, <2>3
<1> QED
  BY <1>2, <1>3, <1>9, <1>10, <1>11, <1>12, <1>13, <1>14, <1>15, <1>16 DEF TreeInv

LEMMA InitModuleKeeps ==
    ASSUME TreeInv, InitModule
    PROVE  TreeInv'
<1>1. PICK t \in Nat : t = Len(stack)
  BY Domains DEF TreeInv
<1>2. PICK m \in Nat : m = Len(objects)
  BY Domains DEF TreeInv
<1>3. t >= 1 /\ stack[t] \in Frames
  BY <1>1, Domains DEF TreeInv, InitModule
<1>4. PICK f \in Frames : f = stack[t]
  BY <1>3
<1>5. /\ \A p \in 1..m : ObjectFits(p) /\ Known(p) /\ Made(p)
      /\ \A p, q \in 1..m : Once(p, q)
      /\ \A i \in 1..t : FrameFits(i) /\ WaitFits(i) /\ CallFits(i)
  BY <1>1, <1>2 DEF TreeInv
<1>6. PICK o \in 1..m : o = f.obj
  BY <1>2, <1>3, <1>4, <1>5 DEF FrameFits
<1>7. /\ f.at = "start" /\ f.todo = {}
      /\ ~Initialised(o) /\ objects[o].parent = 0 /\ objects[o].has = {}
      /\ \A p \in 1..m : objects[p].parent # o
  BY <1>1, <1>2, <1>3, <1>4, <1>5, <1>6 DEF ObjectFits, FrameFits, InitModule, frame
<1>8. /\ classes' = classes
      /\ objects' = [objects EXCEPT ![o].name = f.name, ![o].parent = f.parent]
      /\ stack' = [stack EXCEPT ![t].at = "submodules", ![t].todo = Sub(o)]
  BY <1>1, <1>4, <1>6 DEF InitModule, frame, Sub
<1>9. Sub(o) \subseteq Names
  BY <1>2, Domains DEF TreeInv, ObjectFits, ClassesFit, Sub, ClassOf
<1>10. /\ objects' \in Seq(ObjectRecords)
       /\ Len(objects') = m
       /\ \A p \in 1..m : /\ objects'[p].class = objects[p].class
                          /\ objects'[p].path = objects[p].path
                          /\ objects'[p].has = objects[p].has
                          /\ p # o => objects'[p].name = objects[p].name
                                    /\ objects'[p].parent = objects[p].parent
       /\ objects'[o].name = f.name /\ objects'[o].parent = f.parent
  <2>1. objects \in Seq(ObjectRecords) /\ objects[o] \in ObjectRecords
    BY <1>2, Domains DEF TreeInv, PlacesFit
  <2>2. PICK g \in ObjectRecords : g = [objects[o] EXCEPT !.name = f.name, !.parent = f.parent]
    BY <2>1 DEF ObjectRecords, Frames
  <2>3. objects' = [objects EXCEPT ![o] = g]
    BY <1>8, <2>1, <2>2
  <2>4. /\ objects' \in Seq(ObjectRecords)
        /\ Len(objects') = m
        /\ \A p \in 1..m : objects'[p] = IF p = o THEN g ELSE objects[p]
    BY <1>2, <2>1, <2>3, ExceptSeq
  <2>5. /\ g.class = objects[o].class /\ g.path = objects[o].path /\ g.has = objects[o].has
        /\ g.name = f.name /\ g.parent = f.parent
    BY <2>1, <2>2 DEF ObjectRecords
  <2> QED
    BY <2>4, <2>5
<1>11. /\ stack' \in Seq(Frames)
       /\ Len(stack') = t
       /\ \A i \in 1..t : /\ stack'[i].obj = stack[i].obj
                          /\ stack'[i].level = stack[i].level
                          /\ stack'[i].name = stack[i].name
                          /\ stack'[i].parent = stack[i].parent
                          /\ i # t => stack'[i].at = stack[i].at /\ stack'[i].todo = stack[i].todo
       /\ stack'[t].at = "submodules" /\ stack'[t].todo = Sub(o)
  <2>1. stack \in Seq(Frames) /\ t \in 1..Len(stack)
    BY <1>1, <1>3 DEF TreeInv, PlacesFit
  <2>2. PICK g \in Frames : g = [f EXCEPT !.at = "submodules", !.todo = Sub(o)]
    BY <1>4, <1>9 DEF Frames
  <2>3. stack' = [stack EXCEPT ![t] = g]
    BY <1>4, <1>8, <2>1, <2>2
  <2>4. /\ stack' \in Seq(Frames)
        /\ Len(stack') = t
        /\ \A i \in 1..t : stack'[i] = IF i = t THEN g ELSE stack[i]
    BY <1>1, <2>1, <2>2, <2>3, ExceptSeq
  <2>5. /\ g.obj = f.obj /\ g.level = f.level /\ g.name = f.name /\ g.parent = f.parent
        /\ g.at = "submodules" /\ g.todo = Sub(o)
    BY <1>4, <2>2 DEF Frames
  <2> QED
    BY <1>3, <1>4, <2>4, <2>5
<1>12. f.name # NoName
  BY <1>4, NoNameAssumption DEF Frames, Top
<1>13. \A p \in 1..m : objects'[p].name # NoName <=> p = o \/ objects[p].name # NoName
  BY <1>10, <1>12
\* All the others on the stack are older.
<1>14. \A i \in 1..(t - 1) : stack[i].at = "submodules" /\ stack[i].obj < o
  <2> SUFFICES ASSUME NEW i \in 1..(t - 1)
               PROVE  stack[i].at = "submodules" /\ stack[i].obj < o
    OBVIOUS
  <2>1. i \in 1..Len(stack) /\ t \in 1..Len(stack)
    BY <1>1, <1>3
  <2>2. \/ stack[i].at = "body" /\ o = stack[i].obj
        \/ stack[i].at = "submodules" /\ stack[i].obj < o
    BY <1>1, <1>4, <1>6, <2>1 DEF TreeInv, Nested
  <2>3. stack[i].at = "body" => Initialised(stack[i].obj)
    BY <1>5, <2>1 DEF FrameFits
  <2> QED
    BY <1>7, <2>2, <2>3
<1>15. f.parent = 0 \/ (t > 1 /\ f.parent = stack[t - 1].obj)
  <2>1. CallFits(t)
    BY <1>3, <1>5
  <2> QED
    BY <1>4, <2>1 DEF CallFits, Initialised
<1>16. f.parent \in 0..(o - 1)
  <2>1. f.parent \in Nat
    BY <1>4 DEF Frames
  <2> QED
    BY <1>6, <1>14, <1>15, <2>1
<1>17. ClassesFit' /\ PlacesFit'
  <2>1. classes' = classes
    BY <1>8
  <2>2. ClassesFit'
    BY <2>1 DEF TreeInv, ClassesFit, Sequence
  <2> QED
    BY <1>10, <1>11, <2>2 DEF PlacesFit
<1>18. ASSUME NEW p \in 1..m  PROVE ObjectFits(p)'
  <2>1. ObjectFits(p)
    BY <1>5
  <2>2. t > 1 => Initialised(stack[t - 1].obj)
    BY <1>5, <1>14 DEF FrameFits
  <2> QED
    <3>1. /\ objects'[p].class \in 1..Len(classes') /\ objects'[p].has \subseteq Sub(p)'
          /\ objects'[p].has = objects[p].has
      BY <1>8, <1>10, <2>1 DEF ObjectFits, Sub, ClassOf
    <3>2. objects'[p].parent \in 0..(p - 1)
      BY <1>10, <1>16, <2>1 DEF ObjectFits
    <3>3. ASSUME objects'[p].name = NoName
          PROVE  /\ objects'[p].parent = 0 /\ objects'[p].has = {}
                 /\ \A q \in 1..m : objects'[q].parent # p
      <4>1. p # o /\ ~Initialised(p)
        BY <1>13, <3>3 DEF Initialised
      <4>2. f.parent # p
        BY <1>15, <2>2, <4>1
      <4>3. /\ objects[p].parent = 0 /\ objects[p].has = {}
            /\ \A q \in 1..m : objects[q].parent # p
        BY <1>2, <2>1, <4>1 DEF ObjectFits
      <4> QED
        BY <1>10, <4>1, <4>2, <4>3
    <3> QED
      BY <1>10, <3>1, <3>2, <3>3 DEF ObjectFits, Initialised
<1>19. ASSUME NEW i \in 1..t  PROVE FrameFits(i)'
  <2>1. FrameFits(i)
    BY <1>5
  <2>2. PICK p \in 1..m : p = stack[i].obj
    BY <1>2, <2>1 DEF FrameFits
  <2>3. /\ stack'[i].obj = p /\ stack'[i].level = stack[i].level
        /\ p = o => i = t
        /\ i = t => stack'[i].at = "submodules"
        /\ i # t => stack'[i].at = stack[i].at /\ stack'[i].todo = stack[i].todo
    BY <1>6, <1>11, <1>14, <2>2
  <2>4. objects'[p].class = objects[p].class /\ objects'[p].has = objects[p].has
    BY <1>10
  <2>5. objects'[p].name # NoName <=> (i = t \/ objects[p].name # NoName)
    BY <1>4, <1>6, <1>13, <2>2, <2>3
  <2> QED
    <3>1. classes' = classes
      BY <1>8
    <3> QED
      BY <1>10, <2>1, <2>2, <2>3, <2>4, <2>5, <3>1 DEF FrameFits, Initialised, Sub, ClassOf
<1>20. Nested'
  <2> SUFFICES ASSUME NEW j \in 1..t, NEW i \in 1..(j - 1)
               PROVE  \/ stack'[i].at = "body" /\ stack'[j].obj = stack'[i].obj /\ stack'[j].todo = {}
                      \/ stack'[i].at = "submodules" /\ stack'[i].obj < stack'[j].obj
    BY <1>11 DEF Nested
  <2>1. /\ i \in 1..(t - 1) /\ i \in 1..t /\ i # t
        /\ \/ stack[i].at = "body" /\ stack[j].obj = stack[i].obj /\ stack[j].todo = {}
           \/ stack[i].at = "submodules" /\ stack[i].obj < stack[j].obj
    BY <1>1 DEF TreeInv, Nested
  <2>2. stack[i].at = "submodules"
    BY <1>14, <2>1
  <2> QED
    BY <1>11, <2>1, <2>2
<1>21. ASSUME NEW i \in 1..t  PROVE WaitFits(i)'
  <2>1. WaitFits(i)
    BY <1>5
  <2>2. PICK p \in 1..m : p = stack[i].obj
    BY <1>2, <1>5 DEF FrameFits
  <2>3. /\ stack'[i].obj = p
        /\ objects'[p].has = objects[p].has /\ Sub(p)' = Sub(p)
    BY <1>8, <1>10, <1>11, <2>2 DEF Sub, ClassOf
  <2>4. Current(i)' = Current(i)
    <3>1. CASE i < t
      <4>1. PICK q \in 1..m : q = stack[i + 1].obj
        BY <1>2, <1>5, <3>1 DEF FrameFits
      <4>2. stack'[i + 1].obj = q /\ objects'[q].path = objects[q].path
        BY <1>10, <1>11, <3>1, <4>1
      <4> QED
        BY <1>1, <1>11, <3>1, <4>1, <4>2 DEF Current, Kid
    <3>2. CASE i = t
      BY <1>1, <1>11, <3>2 DEF Current
    <3> QED
      BY <3>1, <3>2
  <2>5. CASE i = t
    <3>1. p = o /\ Current(i) = {}
      BY <1>1, <1>4, <1>6, <2>2, <2>5 DEF Current
    <3> QED
      BY <1>7, <1>11, <2>3, <2>4, <2>5, <3>1 DEF WaitFits
  <2>6. CASE i # t
    BY <1>11, <2>1, <2>2, <2>3, <2>4, <2>6 DEF WaitFits
  <2> QED
    BY <2>5, <2>6
<1>22. ASSUME NEW i \in 1..t  PROVE CallFits(i)'
  <2>1. CallFits(i)
    BY <1>5
  <2>2. PICK p \in 1..m : p = stack[i].obj
    BY <1>2, <1>5 DEF FrameFits
  <2>3. /\ stack'[i].obj = p /\ stack'[i].parent = stack[i].parent
        /\ i > 1 => /\ stack'[i - 1].obj = stack[i - 1].obj
                    /\ stack'[i - 1].at = stack[i - 1].at
    BY <1>11, <2>2
  <2>4. CASE i = t
    <3>1. p = o /\ stack[i].parent = f.parent
      BY <1>4, <1>6, <2>2, <2>4
    <3> QED
      BY <1>10, <2>1, <2>2, <2>3, <3>1 DEF CallFits, Initialised
  <2>5. CASE i # t
    <3>1. p # o
      BY <1>6, <1>14, <2>2, <2>5
    <3> QED
      BY <1>10, <2>1, <2>2, <2>3, <3>1 DEF CallFits, Initialised
  <2> QED
    BY <2>4, <2>5
<1>23. ASSUME NEW p \in 1..m  PROVE Known(p)'
  <2>1. Known(p)
    BY <1>5
  <2>2. CASE p = o
    <3>1. CASE f.parent = 0
      BY <1>10, <2>2, <3>1 DEF Known
    <3>2. CASE t > 1 /\ f.parent = stack[t - 1].obj
      <4>1. /\ t \in 2..t /\ stack'[t].obj = o /\ stack'[t - 1].obj = f.parent
            /\ stack'[t - 1].at = "submodules"
        BY <1>4, <1>6, <1>11, <1>14, <3>2
      <4> QED
        BY <1>10, <1>11, <2>2, <4>1 DEF Known
    <3> QED
      BY <1>15, <3>1, <3>2
  <2>3. CASE p # o
    <3> SUFFICES ASSUME objects'[p].parent # 0
                 PROVE  \/ Kid(p)' \in objects'[objects'[p].parent].has
                        \/ \E i \in 2..t : /\ stack'[i].obj = p
                                         /\ stack'[i - 1].obj = objects'[p].parent
                                         /\ stack'[i - 1].at = "submodules"
      BY <1>11 DEF Known
    <3>1. objects'[p].parent = objects[p].parent /\ Kid(p)' = Kid(p)
      BY <1>10, <2>3 DEF Kid
    <3>2. PICK q \in 1..m : q = objects[p].parent
      <4>1. ObjectFits(p)
        BY <1>5
      <4> QED
        BY <3>1, <4>1 DEF ObjectFits
    <3>3. CASE Kid(p) \in objects[q].has
      BY <1>10, <3>1, <3>2, <3>3
    <3>4. CASE \E i \in 2..t : /\ stack[i].obj = p /\ stack[i - 1].obj = q
                             /\ stack[i - 1].at = "submodules"
      BY <1>11, <3>1, <3>2, <3>4
    <3> QED
      BY <1>1, <2>1, <3>1, <3>2, <3>3, <3>4 DEF Known
  <2> QED
    BY <2>2, <2>3
<1>24. ASSUME NEW p \in 1..m  PROVE Made(p)'
  <2> SUFFICES ASSUME NEW n \in objects'[p].has
               PROVE  \E q \in 1..m : objects'[q].parent = p /\ Kid(q)' = n
    BY <1>10 DEF Made
  <2>1. Made(p) /\ n \in objects[p].has
    BY <1>5, <1>10
  <2>2. PICK q \in 1..m : objects[q].parent = p /\ Kid(q) = n
    BY <1>2, <2>1 DEF Made
  <2>3. q # o
    BY <1>7, <2>2
  <2> QED
    BY <1>10, <2>2, <2>3 DEF Kid
\* The parent waits for this submodule, so that it has none of this name.
<1>25. ASSUME NEW p \in 1..m, objects[p].parent # 0, objects[p].parent = f.parent, Kid(p) = Kid(o)
       PROVE  p = o
  <2>1. t > 1 /\ f.parent = stack[t - 1].obj /\ t - 1 \in 1..t /\ t - 1 \in 1..(t - 1)
    BY <1>15, <1>25
  <2>2. PICK q \in 1..m : q = stack[t - 1].obj
    BY <1>2, <1>5, <2>1 DEF FrameFits
  <2>3. Current(t - 1) = {Kid(o)}
    BY <1>1, <1>4, <1>6, <2>1 DEF Current
  <2>4. Kid(p) \notin objects[q].has
    <3>1. WaitFits(t - 1) /\ stack[t - 1].at = "submodules"
      BY <1>5, <1>14, <2>1
    <3> QED
      BY <1>25, <2>2, <2>3, <3>1 DEF WaitFits
  <2>5. PICK i \in 2..t : /\ stack[i].obj = p /\ stack[i - 1].obj = q
                         /\ stack[i - 1].at = "submodules"
    <3>1. Known(p)
      BY <1>5
    <3> QED
      BY <1>1, <1>25, <2>1, <2>2, <2>4, <3>1 DEF Known
  <2>6. CASE i < t
    <3>1. i - 1 \in 1..((t - 1) - 1) /\ t - 1 \in 1..Len(stack)
      BY <1>1, <2>1, <2>6
    <3> QED
      BY <2>2, <2>5, <3>1 DEF TreeInv, Nested
  <2>7. CASE i = t
    BY <1>4, <1>6, <2>5, <2>7
  <2> QED
    BY <2>6, <2>7
<1>26. ASSUME NEW p \in 1..m, NEW q \in 1..m  PROVE Once(p, q)'
  <2> SUFFICES ASSUME objects'[p].parent = objects'[q].parent, objects'[p].parent # 0,
                      Kid(p)' = Kid(q)'
               PROVE  p = q
    BY DEF Once
  <2>1. Kid(p) = Kid(q) /\ Once(p, q)
    BY <1>5, <1>10 DEF Kid
  <2>2. CASE p # o /\ q # o
    BY <1>10, <2>1, <2>2 DEF Once
  <2>3. CASE p = o /\ q # o
    BY <1>10, <1>25, <2>1, <2>3
  <2>4. CASE p # o /\ q = o
    BY <1>10, <1>25, <2>1, <2>4
  <2> QED
    BY <2>2, <2>3, <2>4
<1> QED
  BY <1>10, <1>11, <1>17, <1>18, <1>19, <1>20, <1>21, <1>22, <1>23, <1>24, <1>26 DEF TreeInv

LEMMA InitSubmoduleKeeps ==
    ASSUME TreeInv, InitSubmodule
    PROVE  TreeInv'
<1>1. PICK t \in Nat : t = Len(stack)
  BY Domains DEF TreeInv
<1>2. PICK m \in Nat : m = Len(objects)
  BY Domains DEF TreeInv
<1>3. t >= 1 /\ t \in 1..t /\ stack # <<>>
  BY <1>1, Domains DEF TreeInv, InitSubmodule
<1>4. /\ \A p \in 1..m : ObjectFits(p) /\ Known(p) /\ Made(p)
      /\ \A p, q \in 1..m : Once(p, q)
      /\ \A i \in 1..t : FrameFits(i) /\ WaitFits(i) /\ CallFits(i)
  BY <1>1, <1>2 DEF TreeInv
<1>5. PICK o \in 1..m : o = stack[t].obj
  BY <1>2, <1>3, <1>4 DEF FrameFits
<1>6. PICK n \in stack[t].todo : \E class :
         /\ class = ClassOf(o).submodules[n]
         /\ stack[t].at = "submodules"
         /\ objects' = Append(objects, New(class, Append(objects[o].path, n)))
         /\ stack' = Append([stack EXCEPT ![t].todo = @ \ {n}], Call(m + 1, class, n, o))
         /\ classes' = classes
  BY <1>1, <1>2, <1>3, <1>5 DEF InitSubmodule, frame
<1>7. PICK class :
         /\ class = ClassOf(o).submodules[n]
         /\ stack[t].at = "submodules"
         /\ objects' = Append(objects, New(class, Append(objects[o].path, n)))
         /\ stack' = Append([stack EXCEPT ![t].todo = @ \ {n}], Call(m + 1, class, n, o))
         /\ classes' = classes
  BY <1>6
<1>8. n \in Names /\ n \in Sub(o) /\ n \notin objects[o].has /\ Initialised(o)
  <2>1. WaitFits(t) /\ FrameFits(t) /\ stack[t] \in Frames
    BY <1>1, <1>3, <1>4, Domains DEF TreeInv
  <2> QED
    BY <1>5, <1>7, <2>1 DEF WaitFits, FrameFits, Frames
<1>9. class \in 1..Len(classes) /\ class \in Nat
  <2>1. PICK k \in 1..Len(classes) : k = objects[o].class
    BY <1>4 DEF ObjectFits
  <2>2. class \in 1..(k - 1)
    BY <1>7, <1>8, <2>1 DEF TreeInv, ClassesFit, Sub, ClassOf
  <2>3. Len(classes) \in Nat
    BY DEF TreeInv, ClassesFit, Sequence
  <2> QED
    BY <2>1, <2>2, <2>3
<1>10. PICK e \in ObjectRecords :
          /\ e.class = class /\ e.name = NoName /\ e.parent = 0 /\ e.has = {}
          /\ e.path[Len(e.path)] = n
          /\ objects' = Append(objects, e)
  <2>1. objects[o].path \in Seq(Names)
    BY <1>2, Domains DEF TreeInv, ObjectRecords
  <2>2. PICK path \in Seq(Names) : path = Append(objects[o].path, n) /\ path[Len(path)] = n
    <3>1. PICK s \in Seq(Names) : s = objects[o].path
      BY <2>1
    <3>2. PICK path : path = Append(s, n)
      OBVIOUS
    <3>3. path \in Seq(Names) /\ Len(path) = Len(s) + 1 /\ path[Len(s) + 1] = n
      BY <1>8, <3>2, AppendProperties
    <3> QED
      BY <3>1, <3>2, <3>3
  <2>4. New(class, path) \in ObjectRecords
    BY <1>9 DEF ObjectRecords, New
  <2>5. PICK e \in ObjectRecords : e = New(class, path)
    BY <2>4
  <2>6. /\ e.class = class /\ e.name = NoName /\ e.parent = 0 /\ e.has = {}
        /\ e.path = path
    BY <2>5 DEF New
  <2>7. objects' = Append(objects, e)
    BY <1>7, <2>2, <2>5
  <2> QED
    BY <2>2, <2>6, <2>7
<1>11. /\ objects' \in Seq(ObjectRecords)
       /\ Len(objects') = m + 1
       /\ \A p \in 1..m : objects'[p] = objects[p]
       /\ objects'[m + 1] = e
  <2>1. objects \in Seq(ObjectRecords)
    BY DEF TreeInv, PlacesFit
  <2> QED
    BY <1>2, <1>10, <2>1, AppendProperties
<1>12. PICK f \in Frames :
          /\ f.obj = m + 1 /\ f.level = class /\ f.parent = o /\ f.todo = {} /\ f.at = "start"
          /\ stack' = Append([stack EXCEPT ![t].todo = @ \ {n}], f)
  <2>1. Call(m + 1, class, n, o) \in Frames
    BY <1>8, <1>9 DEF Call, Frames
  <2>2. PICK f \in Frames : f = Call(m + 1, class, n, o)
    BY <2>1
  <2>3. f.obj = m + 1 /\ f.level = class /\ f.parent = o /\ f.todo = {} /\ f.at = "start"
    BY <2>2 DEF Call
  <2>4. stack' = Append([stack EXCEPT ![t].todo = @ \ {n}], f)
    BY <1>7, <2>2
  <2> QED
    BY <2>3, <2>4
<1>13. /\ stack' \in Seq(Frames)
       /\ Len(stack') = t + 1
       /\ \A i \in 1..t : /\ stack'[i].obj = stack[i].obj
                          /\ stack'[i].level = stack[i].level
                          /\ stack'[i].parent = stack[i].parent
                          /\ stack'[i].at = stack[i].at
                          /\ i # t => stack'[i].todo = stack[i].todo
       /\ stack'[t].todo = stack[t].todo \ {n}
       /\ stack'[t + 1] = f
  <2>1. stack \in Seq(Frames) /\ t \in 1..Len(stack) /\ stack[t] \in Frames
    BY <1>1, <1>3, Domains DEF TreeInv, PlacesFit
  <2>2. PICK g \in Frames : g = [stack[t] EXCEPT !.todo = stack[t].todo \ {n}]
    BY <2>1 DEF Frames
  <2>3. PICK s \in Seq(Frames) : s = [stack EXCEPT ![t] = g]
    BY <2>1, ExceptSeq
  <2>4. /\ Len(s) = t
        /\ \A i \in 1..t : s[i] = IF i = t THEN g ELSE stack[i]
    BY <1>1, <2>1, <2>3, ExceptSeq
  <2>5. /\ g.obj = stack[t].obj /\ g.level = stack[t].level /\ g.parent = stack[t].parent
        /\ g.at = stack[t].at /\ g.todo = stack[t].todo \ {n}
    BY <2>1, <2>2 DEF Frames
  <2>6. [stack EXCEPT ![t].todo = @ \ {n}] = s
    BY <2>2, <2>3
  <2>7. /\ stack' \in Seq(Frames)
        /\ Len(stack') = t + 1
        /\ \A i \in 1..t : stack'[i] = s[i]
        /\ stack'[t + 1] = f
    <3>1. stack' = Append(s, f)
      BY <1>12, <2>6
    <3> QED
      BY <2>4, <3>1, Pushed
  <2> QED
    BY <1>3, <2>4, <2>5, <2>7
<1>14. classes' = classes
  BY <1>7
<1>15. ClassesFit' /\ PlacesFit'
  <2>1. ClassesFit'
    BY <1>14 DEF TreeInv, ClassesFit, Sequence
  <2> QED
    BY <1>11, <1>13, <2>1 DEF PlacesFit
<1>16. ASSUME NEW p \in 1..m  PROVE ObjectFits(p) /\ objects[p].parent \in 0..(m - 1)
  <2>1. ObjectFits(p)
    BY <1>4
  <2>2. objects[p].parent \in 0..(p - 1)
    BY <2>1 DEF ObjectFits
  <2> QED
    BY <2>1, <2>2
<1>17. ASSUME NEW p \in 1..(m + 1)  PROVE ObjectFits(p)' /\ Made(p)' /\ Known(p)'
  <2>1. CASE p = m + 1
    <3>1. ObjectFits(p)'
      <4>1. \A q \in 1..(m + 1) : objects'[q].parent # p
        BY <1>10, <1>11, <1>16, <2>1
      <4>2. objects'[p] = e /\ e.class \in 1..Len(classes') /\ e.parent \in 0..(p - 1)
        BY <1>9, <1>10, <1>11, <1>14, <2>1
      <4> QED
        BY <1>10, <1>11, <4>1, <4>2 DEF ObjectFits
    <3>2. Made(p)' /\ Known(p)'
      BY <1>10, <1>11, <2>1 DEF Made, Known
    <3> QED
      BY <3>1, <3>2
  <2>2. CASE p \in 1..m
    <3>1. ObjectFits(p) /\ Made(p) /\ Known(p)
      BY <1>4, <2>2
    <3>2. ObjectFits(p)'
      <4>1. objects'[p] = objects[p]
        BY <1>11, <2>2
      <4>2. ASSUME \A q \in 1..m : objects[q].parent # p
            PROVE  \A q \in 1..(m + 1) : objects'[q].parent # p
        BY <1>10, <1>11, <2>2, <4>2
      <4> QED
        BY <1>2, <1>11, <1>14, <3>1, <4>1, <4>2 DEF ObjectFits, Initialised, Sub, ClassOf
    <3>3. Made(p)'
      BY <1>2, <1>11, <2>2, <3>1 DEF Made, Kid
    <3>4. Known(p)'
      <4> SUFFICES ASSUME objects'[p].parent # 0
                   PROVE  \/ Kid(p)' \in objects'[objects'[p].parent].has
                          \/ \E i \in 2..(t + 1) : /\ stack'[i].obj = p
                                                 /\ stack'[i - 1].obj = objects'[p].parent
                                                 /\ stack'[i - 1].at = "submodules"
        BY <1>13 DEF Known
      <4>1. objects'[p] = objects[p] /\ Kid(p)' = Kid(p)
        BY <1>11, <2>2 DEF Kid
      <4>2. PICK q \in 1..m : q = objects[p].parent
        BY <1>16, <2>2, <4>1
      <4>3. CASE Kid(p) \in objects[q].has
        BY <1>11, <4>1, <4>2, <4>3
      <4>4. CASE \E i \in 2..t : /\ stack[i].obj = p /\ stack[i - 1].obj = q
                               /\ stack[i - 1].at = "submodules"
        <5>1. PICK i \in 2..t : /\ stack[i].obj = p /\ stack[i - 1].obj = q
                               /\ stack[i - 1].at = "submodules"
          BY <4>4
        <5>2. i \in 1..t /\ i - 1 \in 1..t /\ i \in 2..(t + 1)
          OBVIOUS
        <5>3. /\ stack'[i].obj = p /\ stack'[i - 1].obj = q
              /\ stack'[i - 1].at = "submodules"
          BY <1>13, <5>1, <5>2
        <5> QED
          BY <4>1, <4>2, <5>2, <5>3
      <4> QED
        BY <1>1, <3>1, <4>1, <4>2, <4>3, <4>4 DEF Known
    <3> QED
      BY <3>2, <3>3, <3>4
  <2> QED
    BY <2>1, <2>2
<1>18. ASSUME NEW p \in 1..(m + 1), NEW q \in 1..(m + 1)  PROVE Once(p, q)'
  <2>1. CASE p = m + 1 \/ q = m + 1
    BY <1>10, <1>11, <2>1 DEF Once
  <2>2. CASE p \in 1..m /\ q \in 1..m
    BY <1>4, <1>11, <2>2 DEF Once, Kid
  <2> QED
    BY <2>1, <2>2
<1>19. ASSUME NEW i \in 1..(t + 1)  PROVE CallFits(i)'
  <2>1. CASE i = t + 1
    <3>1. /\ i > 1 /\ i - 1 = t
          /\ stack'[t].at = "submodules" /\ stack'[t].obj = o
          /\ stack'[i].obj = m + 1 /\ stack'[i].parent = o
          /\ objects'[m + 1].name = NoName
      <4>1. i > 1 /\ i - 1 = t
        BY <1>3, <2>1
      <4>2. stack'[t].at = "submodules" /\ stack'[t].obj = o
        BY <1>3, <1>5, <1>7, <1>13
      <4>3. stack'[i].obj = m + 1 /\ stack'[i].parent = o
        BY <1>12, <1>13, <2>1
      <4>4. objects'[m + 1].name = NoName
        BY <1>10, <1>11
      <4> QED
        BY <4>1, <4>2, <4>3, <4>4
    <3> QED
      BY <3>1 DEF CallFits, Initialised
  <2>2. CASE i \in 1..t
    <3>1. CallFits(i) /\ stack[i].obj \in 1..m
      BY <1>2, <1>4, <2>2 DEF FrameFits
    <3> QED
      BY <1>11, <1>13, <2>2, <3>1 DEF CallFits, Initialised
  <2> QED
    BY <2>1, <2>2
<1>20. ASSUME NEW i \in 1..(t + 1)  PROVE FrameFits(i)'
  <2>1. CASE i = t + 1
    BY <1>9, <1>10, <1>11, <1>12, <1>13, <1>14, <2>1 DEF FrameFits, Initialised
  <2>2. CASE i \in 1..t
    <3>1. FrameFits(i)
      BY <1>4, <2>2
    <3>2. PICK p \in 1..m : p = stack[i].obj
      BY <1>2, <3>1 DEF FrameFits
    <3>3. /\ stack'[i].obj = p /\ stack'[i].level = stack[i].level /\ stack'[i].at = stack[i].at
          /\ stack'[i].at = "start" => stack'[i].todo = stack[i].todo
          /\ objects'[p] = objects[p]
      BY <1>7, <1>11, <1>13, <2>2, <3>2
    <3> QED
      BY <1>2, <1>11, <1>14, <3>1, <3>2, <3>3 DEF FrameFits, Initialised, Sub, ClassOf
  <2> QED
    BY <2>1, <2>2
<1>21. ASSUME NEW i \in 1..(t + 1)  PROVE WaitFits(i)'
  <2>1. CASE i = t + 1
    BY <1>12, <1>13, <2>1 DEF WaitFits
  <2>2. CASE i \in 1..t
    <3>1. WaitFits(i)
      BY <1>4, <2>2
    <3>2. PICK p \in 1..m : p = stack[i].obj
      BY <1>2, <1>4, <2>2 DEF FrameFits
    <3>3. stack'[i].obj = p /\ stack'[i].at = stack[i].at /\ objects'[p] = objects[p]
      BY <1>11, <1>13, <2>2, <3>2
    <3>4. Sub(p)' = Sub(p)
      BY <1>14, <3>3 DEF Sub, ClassOf
    <3>5. CASE i = t
      <4>1. Current(i) = {} /\ p = o
        BY <1>1, <1>5, <3>2, <3>5 DEF Current
      <4>2. Current(i)' = {n}
        <5>1. stack'[i + 1].obj = m + 1 /\ i < Len(stack')
          BY <1>3, <1>12, <1>13, <3>5
        <5>2. Kid(m + 1)' = n
          BY <1>10, <1>11 DEF Kid
        <5> QED
          BY <5>1, <5>2 DEF Current, Kid
      <4>3. stack'[i].todo = stack[i].todo \ {n}
        BY <1>13, <3>5
      <4> QED
        <5>1. PICK has, todo, sub : has = objects[o].has /\ todo = stack[t].todo /\ sub = Sub(o)
          OBVIOUS
        <5>2. has \cup todo = sub /\ has \cap todo = {} /\ n \in todo
          BY <1>6, <1>7, <3>1, <3>2, <3>5, <4>1, <5>1 DEF WaitFits
        <5>3. /\ has \cup (todo \ {n}) \cup {n} = sub /\ has \cap (todo \ {n}) = {}
              /\ has \cap {n} = {} /\ (todo \ {n}) \cap {n} = {}
          BY ONLY <5>2
        <5>4. /\ objects'[stack'[i].obj].has = has /\ stack'[i].todo = todo \ {n}
              /\ Sub(stack[i].obj)' = sub
          BY <3>2, <3>3, <3>4, <3>5, <4>1, <4>3, <5>1 DEF Sub, ClassOf
        <5> QED
          BY <4>2, <5>3, <5>4 DEF WaitFits
    <3>6. CASE i # t
      <4>1. i + 1 \in 1..t /\ stack[i + 1].obj \in 1..m
        BY <1>2, <1>4, <2>2, <3>6 DEF FrameFits
      <4>2. Current(i)' = Current(i)
        <5>1. PICK q \in 1..m : q = stack[i + 1].obj
          BY <4>1
        <5>2. stack'[i + 1].obj = q /\ objects'[q] = objects[q]
          BY <1>11, <1>13, <4>1, <5>1
        <5>3. i < Len(stack) /\ i < Len(stack')
          BY <1>1, <1>13, <2>2, <3>6
        <5> QED
          BY <5>1, <5>2, <5>3 DEF Current, Kid
      <4>3. stack'[i].todo = stack[i].todo
        BY <1>13, <2>2, <3>6
      <4> QED
        BY <3>1, <3>2, <3>3, <3>4, <4>2, <4>3 DEF WaitFits
    <3> QED
      BY <3>5, <3>6
  <2> QED
    BY <2>1, <2>2
<1>22. Nested'
  <2> SUFFICES ASSUME NEW j \in 1..(t + 1), NEW i \in 1..(j - 1)
               PROVE  \/ stack'[i].at = "body" /\ stack'[j].obj = stack'[i].obj /\ stack'[j].todo = {}
                      \/ stack'[i].at = "submodules" /\ stack'[i].obj < stack'[j].obj
    BY <1>13 DEF Nested
  <2>1. CASE j \in 1..t
    <3>1. i \in 1..t
      BY <2>1
    <3>2. stack'[j].todo = stack[j].todo \/ stack'[j].todo = stack[j].todo \ {n}
      BY <1>13, <2>1
    <3> QED
      <4>1. /\ stack'[i].obj = stack[i].obj /\ stack'[j].obj = stack[j].obj
            /\ stack'[i].at = stack[i].at
        BY <1>13, <2>1, <3>1
      <4>2. \/ stack[i].at = "body" /\ stack[j].obj = stack[i].obj /\ stack[j].todo = {}
            \/ stack[i].at = "submodules" /\ stack[i].obj < stack[j].obj
        BY <1>1, <2>1 DEF TreeInv, Nested
      <4> QED
        BY <3>2, <4>1, <4>2
  <2>2. CASE j = t + 1 /\ i = t
    <3>1. stack'[i].at = "submodules" /\ stack'[i].obj = o
      BY <1>3, <1>5, <1>7, <1>13, <2>2
    <3>2. stack'[j].obj = m + 1
      BY <1>12, <1>13, <2>2
    <3> QED
      BY <3>1, <3>2
  <2>3. CASE j = t + 1 /\ i \in 1..(t - 1)
    <3>1. \/ stack[i].at = "body" /\ stack[t].todo = {}
          \/ stack[i].at = "submodules" /\ stack[i].obj \in 1..m
      BY <1>1, <1>2, <1>3, <1>4, <2>3 DEF TreeInv, Nested, FrameFits
    <3> QED
      <4>1. stack[i].at = "submodules" /\ stack[i].obj \in 1..m
        BY <1>6, <3>1
      <4>2. /\ stack'[i].at = stack[i].at /\ stack'[i].obj = stack[i].obj
            /\ stack'[j].obj = m + 1
        BY <1>12, <1>13, <2>3
      <4> QED
        BY <4>1, <4>2
  <2> QED
    BY <2>1, <2>2, <2>3
<1> QED
  BY <1>11, <1>13, <1>15, <1>17, <1>18, <1>19, <1>20, <1>21, <1>22 DEF TreeInv

LEMMA ReturnKeeps ==
    ASSUME TreeInv, Return
    PROVE  TreeInv'
<1>1. PICK t \in Nat : t = Len(stack)
  BY Domains DEF TreeInv
<1>2. PICK m \in Nat : m = Len(objects)
  BY Domains DEF TreeInv
<1>3. t >= 1 /\ t \in 1..t /\ t - 1 \in Nat /\ stack[t].at = "body" /\ classes' = classes
  BY <1>1, Domains DEF TreeInv, Return, frame
<1>4. /\ \A p \in 1..m : ObjectFits(p) /\ Known(p) /\ Made(p)
      /\ \A p, q \in 1..m : Once(p, q)
      /\ \A i \in 1..t : FrameFits(i) /\ WaitFits(i) /\ CallFits(i)
  BY <1>1, <1>2 DEF TreeInv
<1>5. PICK o \in 1..m : o = stack[t].obj
  BY <1>2, <1>3, <1>4 DEF FrameFits
<1>6. /\ stack' \in Seq(Frames)
      /\ Len(stack') = t - 1
      /\ \A i \in 1..(t - 1) : stack'[i] = stack[i]
  <2>1. stack \in Seq(Frames) /\ stack' = SubSeq(stack, 1, t - 1)
    BY <1>1 DEF TreeInv, PlacesFit, Return, Front
  <2> QED
    BY <1>1, <1>3, <2>1, SubSeqProperties
<1>7. Nested'
  <2> SUFFICES ASSUME NEW j \in 1..(t - 1), NEW i \in 1..(j - 1)
               PROVE  \/ stack'[i].at = "body" /\ stack'[j].obj = stack'[i].obj /\ stack'[j].todo = {}
                      \/ stack'[i].at = "submodules" /\ stack'[i].obj < stack'[j].obj
    BY <1>6 DEF Nested
  <2>1. i \in 1..(t - 1) /\ stack'[i] = stack[i] /\ stack'[j] = stack[j]
    BY <1>6
  <2> QED
    BY <1>1, <2>1 DEF TreeInv, Nested
\* A submodule's constructor was called by one of the parent.
<1>8. t > 1 => \/ /\ stack[t - 1].at = "body" /\ stack[t - 1].obj = o
                  /\ objects' = objects
               \/ /\ stack[t - 1].at = "submodules" /\ stack[t - 1].obj < o
                  /\ objects[o].parent = stack[t - 1].obj
                  /\ objects' = [objects EXCEPT ![stack[t - 1].obj].has = @ \cup {Kid(o)}]
  <2> HAVE t > 1
  <2>1. PICK q \in 1..m : q = stack[t - 1].obj
    BY <1>2, <1>3, <1>4 DEF FrameFits
  <2>2. objects' = IF q = o THEN objects
                   ELSE [objects EXCEPT ![q].has = @ \cup {Kid(o)}]
    BY <1>1, <1>3, <1>5, <2>1 DEF Return, frame, Kid, Last
  <2>3. \/ stack[t - 1].at = "body" /\ q = o
        \/ stack[t - 1].at = "submodules" /\ q < o
    BY <1>1, <1>3, <1>5, <2>1 DEF TreeInv, Nested
  <2>4. stack[t - 1].at = "submodules" => objects[o].parent = q
    <3>1. CallFits(t) /\ FrameFits(t)
      BY <1>3, <1>4
    <3> QED
      BY <1>3, <1>5, <2>1, <3>1 DEF CallFits, FrameFits
  <2> QED
    BY <2>1, <2>2, <2>3, <2>4
<1>9. t = 1 => objects' = objects
  BY <1>1 DEF Return
<1>10. CASE objects' = objects /\ (t > 1 => stack[t - 1].at = "body")
  <2>1. ClassesFit' /\ PlacesFit'
    <3>1. ClassesFit'
      BY <1>3 DEF TreeInv, ClassesFit, Sequence
    <3> QED
      BY <1>6, <1>10, <3>1 DEF TreeInv, PlacesFit
  <2>2. ASSUME NEW p \in 1..m  PROVE ObjectFits(p)' /\ Made(p)' /\ Known(p)'
    <3>1. ObjectFits(p) /\ Made(p) /\ Known(p)
      BY <1>4
    <3>2. ObjectFits(p)' /\ Made(p)'
      BY <1>3, <1>10, <3>1 DEF ObjectFits, Made, Initialised, Sub, ClassOf, Kid
    <3>3. Known(p)'
      <4> SUFFICES ASSUME objects[p].parent # 0, Kid(p) \notin objects[objects[p].parent].has
                   PROVE  \E i \in 2..(t - 1) : /\ stack'[i].obj = p
                                             /\ stack'[i - 1].obj = objects[p].parent
                                             /\ stack'[i - 1].at = "submodules"
        BY <1>6, <1>10 DEF Known, Kid
      <4>1. PICK i \in 2..t : /\ stack[i].obj = p /\ stack[i - 1].obj = objects[p].parent
                             /\ stack[i - 1].at = "submodules"
        BY <1>1, <3>1 DEF Known
      <4>2. i \in 2..(t - 1)
        BY <1>10, <4>1
      <4>3. stack'[i] = stack[i] /\ stack'[i - 1] = stack[i - 1]
        BY <1>6, <4>2
      <4> QED
        BY <4>1, <4>2, <4>3
    <3> QED
      BY <3>2, <3>3
  <2>3. ASSUME NEW p \in 1..m, NEW q \in 1..m  PROVE Once(p, q)'
    BY <1>4, <1>10 DEF Once, Kid
  <2>4. ASSUME NEW i \in 1..(t - 1)  PROVE FrameFits(i)' /\ CallFits(i)' /\ WaitFits(i)'
    <3>1. FrameFits(i) /\ CallFits(i) /\ WaitFits(i)
      BY <1>4
    <3>2. FrameFits(i)'
      BY <1>3, <1>6, <1>10, <3>1 DEF FrameFits, Initialised, Sub, ClassOf
    <3>3. CallFits(i)'
      BY <1>6, <1>10, <3>1 DEF CallFits, Initialised
    <3>4. WaitFits(i)'
      <4>1. CASE i = t - 1
        BY <1>6, <1>10, <4>1 DEF WaitFits
      <4>2. CASE i # t - 1
        <5>1. Current(i)' = Current(i)
          <6>1. stack'[i + 1] = stack[i + 1] /\ i < Len(stack) /\ i < Len(stack')
            BY <1>1, <1>6, <4>2
          <6> QED
            BY <1>10, <6>1 DEF Current, Kid
        <5> QED
          BY <1>3, <1>6, <1>10, <3>1, <5>1 DEF WaitFits, Sub, ClassOf
      <4> QED
        BY <4>1, <4>2
    <3> QED
      BY <3>2, <3>3, <3>4
  <2> QED
    BY <1>2, <1>6, <1>10, <1>7, <2>1, <2>2, <2>3, <2>4 DEF TreeInv
<1>11. CASE /\ t > 1 /\ stack[t - 1].at = "submodules" /\ stack[t - 1].obj < o
            /\ objects[o].parent = stack[t - 1].obj
            /\ objects' = [objects EXCEPT ![stack[t - 1].obj].has = @ \cup {Kid(o)}]
  <2>1. PICK q \in 1..m : q = stack[t - 1].obj
    BY <1>2, <1>3, <1>4, <1>11 DEF FrameFits
  <2>2. PICK k : k = Kid(o)
    OBVIOUS
  <2>3. /\ objects[q].has \cup stack[t - 1].todo \cup {k} = Sub(q)
        /\ objects[q].has \cap stack[t - 1].todo = {}
        /\ k \notin stack[t - 1].todo
        /\ Initialised(q)
    <3>1. t - 1 \in 1..t /\ WaitFits(t - 1) /\ FrameFits(t - 1)
      BY <1>4, <1>11
    <3>2. Current(t - 1) = {k}
      BY <1>1, <1>5, <1>11, <2>2 DEF Current
    <3> QED
      BY <1>11, <2>1, <3>1, <3>2 DEF WaitFits, FrameFits
  <2>4. PICK has : has = objects[q].has \cup {k}
    OBVIOUS
  <2>5. has \subseteq Sub(q) /\ has \subseteq Names
    <3>1. has \subseteq Sub(q)
      BY <2>3, <2>4
    <3>2. Sub(q) \subseteq Names
      BY <1>4, <2>1 DEF TreeInv, ClassesFit, ObjectFits, Sub, ClassOf
    <3> QED
      BY <3>1, <3>2
  <2>6. /\ objects' \in Seq(ObjectRecords)
        /\ Len(objects') = m
        /\ \A p \in 1..m : /\ objects'[p].class = objects[p].class
                           /\ objects'[p].path = objects[p].path
                           /\ objects'[p].name = objects[p].name
                           /\ objects'[p].parent = objects[p].parent
                           /\ p # q => objects'[p].has = objects[p].has
        /\ objects'[q].has = has
    <3>1. objects \in Seq(ObjectRecords) /\ objects[q] \in ObjectRecords
      BY <1>2, Domains DEF TreeInv, PlacesFit
    <3>2. PICK g \in ObjectRecords : g = [objects[q] EXCEPT !.has = has]
      BY <2>5, <3>1 DEF ObjectRecords
    <3>3. objects' = [objects EXCEPT ![q] = g]
      BY <1>11, <2>1, <2>2, <2>4, <3>1, <3>2
    <3>4. /\ objects' \in Seq(ObjectRecords)
          /\ Len(objects') = m
          /\ \A p \in 1..m : objects'[p] = IF p = q THEN g ELSE objects[p]
      BY <1>2, <3>1, <3>3, ExceptSeq
    <3>5. /\ g.class = objects[q].class /\ g.path = objects[q].path /\ g.name = objects[q].name
          /\ g.parent = objects[q].parent /\ g.has = has
      BY <3>1, <3>2 DEF ObjectRecords
    <3> QED
      BY <3>4, <3>5
  <2>7. ClassesFit' /\ PlacesFit'
    <3>1. ClassesFit'
      BY <1>3 DEF TreeInv, ClassesFit, Sequence
    <3> QED
      BY <1>6, <2>6, <3>1 DEF PlacesFit
  <2>8. \A p \in 1..m : Sub(p)' = Sub(p) /\ Kid(p)' = Kid(p) /\ objects[p].has \subseteq objects'[p].has
    BY <1>3, <2>4, <2>6 DEF Sub, Kid, ClassOf
  <2>9. ASSUME NEW p \in 1..m  PROVE ObjectFits(p)' /\ Made(p)' /\ Known(p)'
    <3>1. ObjectFits(p) /\ Made(p) /\ Known(p)
      BY <1>4
    <3>2. ObjectFits(p)'
      BY <1>2, <1>3, <2>3, <2>5, <2>6, <3>1 DEF ObjectFits, Initialised, Sub, ClassOf
    <3>3. Made(p)'
      <4> SUFFICES ASSUME NEW n \in objects'[p].has
                   PROVE  \E r \in 1..m : objects'[r].parent = p /\ Kid(r)' = n
        BY <2>6 DEF Made
      <4>1. n \in objects[p].has \/ (p = q /\ n = k)
        BY <2>4, <2>6
      <4>2. CASE n \in objects[p].has
        <5>1. PICK r \in 1..m : objects[r].parent = p /\ Kid(r) = n
          BY <1>2, <3>1, <4>2 DEF Made
        <5> QED
          BY <2>6, <2>8, <5>1
      <4>3. CASE p = q /\ n = k
        BY <1>11, <2>1, <2>2, <2>6, <2>8, <4>3
      <4> QED
        BY <4>1, <4>2, <4>3
    <3>4. Known(p)'
      <4> SUFFICES ASSUME objects[p].parent # 0
                   PROVE  \/ Kid(p)' \in objects'[objects[p].parent].has
                          \/ \E i \in 2..(t - 1) : /\ stack'[i].obj = p
                                                 /\ stack'[i - 1].obj = objects[p].parent
                                                 /\ stack'[i - 1].at = "submodules"
        BY <1>6, <2>6 DEF Known
      <4>1. PICK r \in 1..m : r = objects[p].parent
        BY <1>2, <3>1 DEF ObjectFits
      <4>2. CASE Kid(p) \in objects[r].has
        BY <2>8, <4>1, <4>2
      <4>3. CASE \E i \in 2..t : /\ stack[i].obj = p /\ stack[i - 1].obj = r
                               /\ stack[i - 1].at = "submodules"
        <5>1. PICK i \in 2..t : /\ stack[i].obj = p /\ stack[i - 1].obj = r
                               /\ stack[i - 1].at = "submodules"
          BY <4>3
        <5>2. CASE i = t
          BY <1>5, <2>1, <2>2, <2>4, <2>6, <2>8, <4>1, <5>1, <5>2
        <5>3. CASE i # t
          <6>1. i \in 2..(t - 1) /\ stack'[i] = stack[i] /\ stack'[i - 1] = stack[i - 1]
            BY <1>6, <5>3
          <6> QED
            BY <4>1, <5>1, <6>1
        <5> QED
          BY <5>2, <5>3
      <4> QED
        BY <1>1, <3>1, <4>1, <4>2, <4>3 DEF Known
    <3> QED
      BY <3>2, <3>3, <3>4
  <2>10. ASSUME NEW p \in 1..m, NEW p2 \in 1..m  PROVE Once(p, p2)'
    BY <1>4, <2>6 DEF Once, Kid
  <2>11. ASSUME NEW i \in 1..(t - 1)  PROVE FrameFits(i)' /\ CallFits(i)' /\ WaitFits(i)'
    <3>1. i \in 1..t /\ FrameFits(i) /\ CallFits(i) /\ WaitFits(i) /\ stack'[i] = stack[i]
      BY <1>4, <1>6
    <3>2. PICK p \in 1..m : p = stack[i].obj
      BY <1>2, <3>1 DEF FrameFits
    <3>3. FrameFits(i)'
      <4>1. objects[p].has = Sub(p) => objects'[p].has = Sub(p)
        <5>1. CASE p = q
          BY <2>4, <2>5, <2>6, <5>1
        <5>2. CASE p # q
          BY <2>6, <5>2
        <5> QED
          BY <5>1, <5>2
      <4>2. Initialised(p)' <=> Initialised(p)
        BY <2>6 DEF Initialised
      <4> QED
        BY <1>2, <1>3, <2>6, <3>1, <3>2, <4>1, <4>2 DEF FrameFits, Initialised, Sub, ClassOf
    <3>4. CallFits(i)'
      BY <1>6, <2>6, <3>1, <3>2 DEF CallFits, Initialised
    <3>5. WaitFits(i)'
      <4>1. CASE i = t - 1
        <5>1. Current(i)' = {}
          BY <1>6, <4>1 DEF Current
        <5>2. p = q /\ Sub(stack[i].obj)' = Sub(q) /\ stack'[i].obj = q
          BY <2>1, <2>8, <3>1, <3>2, <4>1 DEF Sub, ClassOf
        <5> QED
          BY <2>3, <2>4, <2>6, <3>1, <4>1, <5>1, <5>2 DEF WaitFits
      <4>2. CASE i # t - 1
        <5>1. Current(i)' = Current(i)
          <6>1. /\ stack'[i + 1] = stack[i + 1] /\ i < Len(stack) /\ i < Len(stack')
                /\ i + 1 \in 1..t
            BY <1>1, <1>6, <4>2
          <6>2. PICK r \in 1..m : r = stack[i + 1].obj
            BY <1>2, <1>4, <6>1 DEF FrameFits
          <6> QED
            BY <2>6, <6>1, <6>2 DEF Current, Kid
        <5>2. stack[i].at = "submodules" => p # q
          <6>1. t - 1 \in 1..t /\ i \in 1..((t - 1) - 1)
            BY <1>11, <4>2
          <6> QED
            BY <1>1, <2>1, <3>2, <6>1 DEF TreeInv, Nested
        <5> QED
          BY <1>3, <2>6, <3>1, <3>2, <5>1, <5>2 DEF WaitFits, Sub, ClassOf
      <4> QED
        BY <4>1, <4>2
    <3> QED
      BY <3>3, <3>4, <3>5
  <2> QED
    BY <1>6, <1>7, <2>6, <2>7, <2>9, <2>10, <2>11 DEF TreeInv
<1> QED
  BY <1>8, <1>9, <1>10, <1>11, <1>3

LEMMA InitTree ==
    ASSUME TreeInit
    PROVE  TreeInv
<1>1. Len(classes) = 0 /\ Len(objects) = 0 /\ Len(stack) = 0
  BY DEF TreeInit
<1>2. ClassesFit
  BY <1>1 DEF ClassesFit, Sequence, TreeInit
<1>3. PlacesFit
  BY DEF PlacesFit, TreeInit
<1> QED
  BY <1>1, <1>2, <1>3 DEF TreeInv, Nested

LEMMA DefineClassKeeps ==
    ASSUME TreeInv, objects = <<>>, NEW base \in 0..Len(classes), NEW dom \in SUBSET Names,
           NEW own \in [dom -> Types \cup 1..Len(classes)], DefineClass(base, own)
    PROVE  TreeInv'
<1>1. Len(objects) = 0 /\ Len(stack) \in Nat
  BY Domains DEF TreeInv
<1>2. Len(stack) = 0
  <2>1. SUFFICES ASSUME 1 \in 1..Len(stack)  PROVE FALSE
    BY <1>1
  <2>2. FrameFits(1)
    BY <2>1 DEF TreeInv
  <2> QED
    BY <1>1, <2>2 DEF FrameFits
<1>3. ClassesFit'
  BY DefineClassFits DEF TreeInv
<1>4. objects' = objects /\ stack' = stack
  BY DEF DefineClass
<1>5. PlacesFit'
  BY <1>4 DEF TreeInv, PlacesFit
<1> QED
  BY <1>1, <1>2, <1>3, <1>4, <1>5 DEF TreeInv, Nested

LEMMA RunKeeps ==
    ASSUME TreeInv, NEW k \in 1..Len(classes), Run(k)
    PROVE  TreeInv'
<1>1. Len(classes) \in Nat /\ k \in Nat
  BY DEF TreeInv, ClassesFit, Sequence
<1>2. PICK e \in ObjectRecords : e = New(k, <<>>)
  <2>1. New(k, <<>>) \in ObjectRecords
    BY <1>1 DEF New, ObjectRecords
  <2> QED
    BY <2>1
<1>3. e.class = k /\ e.name = NoName /\ e.parent = 0 /\ e.has = {}
  BY <1>2 DEF New
<1>4. PICK f \in Frames : f = Call(1, k, Top, 0)
  <2>1. Call(1, k, Top, 0) \in Frames
    BY <1>1 DEF Call, Frames
  <2> QED
    BY <2>1
<1>5. f.obj = 1 /\ f.level = k /\ f.parent = 0 /\ f.todo = {} /\ f.at = "start"
  BY <1>4 DEF Call
<1>6. /\ objects' \in Seq(ObjectRecords) /\ stack' \in Seq(Frames)
      /\ Len(objects') = 1 /\ objects'[1] = e
      /\ Len(stack') = 1 /\ stack'[1] = f
      /\ classes' = classes
  BY <1>2, <1>4 DEF Run
<1>7. ClassesFit' /\ PlacesFit'
  <2>1. ClassesFit'
    BY <1>6 DEF TreeInv, ClassesFit, Sequence
  <2> QED
    BY <1>6, <2>1 DEF PlacesFit
<1>8. ObjectFits(1)' /\ Known(1)' /\ Made(1)' /\ Once(1, 1)'
  BY <1>3, <1>6 DEF ObjectFits, Known, Made, Once
<1>9. FrameFits(1)' /\ WaitFits(1)' /\ CallFits(1)'
  <2>1. FrameFits(1)'
    BY <1>3, <1>5, <1>6 DEF FrameFits, Initialised
  <2> QED
    BY <1>5, <1>6, <2>1 DEF WaitFits, CallFits
<1>10. Nested'
  BY <1>6 DEF Nested
<1> QED
  BY <1>6, <1>7, <1>8, <1>9, <1>10 DEF TreeInv

LEMMA UnchangedKeeps ==
    ASSUME TreeInv, classes' = classes, objects' = objects, stack' = stack
    PROVE  TreeInv'
<1>1. ClassesFit' /\ PlacesFit' /\ Nested'
  BY DEF TreeInv, ClassesFit, Sequence, PlacesFit, Nested
<1>2. ASSUME NEW p \in 1..Len(objects)  PROVE ObjectFits(p)' /\ Known(p)' /\ Made(p)'
  <2>1. ObjectFits(p) /\ Known(p) /\ Made(p)
    BY DEF TreeInv
  <2> QED
    BY <2>1 DEF ObjectFits, Known, Made, Initialised, Kid, Sub, ClassOf
<1>3. ASSUME NEW p \in 1..Len(objects), NEW q \in 1..Len(objects)  PROVE Once(p, q)'
  BY DEF TreeInv, Once, Kid
<1>4. ASSUME NEW i \in 1..Len(stack)  PROVE FrameFits(i)' /\ WaitFits(i)' /\ CallFits(i)'
  <2>1. FrameFits(i) /\ WaitFits(i) /\ CallFits(i)
    BY DEF TreeInv
  <2> QED
    BY <2>1 DEF FrameFits, WaitFits, CallFits, Current, Initialised, Kid, Sub, ClassOf
<1> QED
  BY <1>1, <1>2, <1>3, <1>4 DEF TreeInv

LEMMA TreeInvariance ==
    TreeSpec => []TreeInv
<1>1. TreeInit => TreeInv
  BY InitTree
<1>2. TreeInv /\ [TreeNext]_treeVars => TreeInv'
  <2> SUFFICES ASSUME TreeInv, [TreeNext]_treeVars  PROVE TreeInv'
    OBVIOUS
  <2>1. CASE objects = <<>> /\ \E base \in 0..Len(classes), dom \in SUBSET Names :
                \E own \in [dom -> Types \cup 1..Len(classes)] : DefineClass(base, own)
    BY <2>1, DefineClassKeeps
  <2>2. CASE \E k \in 1..Len(classes) : Run(k)
    BY <2>2, RunKeeps
  <2>3. CASE SkipInit
    BY <2>3, SkipInitKeeps
  <2>4. CASE InitModule
    BY <2>4, InitModuleKeeps
  <2>5. CASE InitSubmodule
    BY <2>5, InitSubmoduleKeeps
  <2>6. CASE CallInherited
    BY <2>6, CallInheritedKeeps
  <2>7. CASE RunBody
    BY <2>7, RunBodyKeeps
  <2>8. CASE Return
    BY <2>8, ReturnKeeps
  <2>9. CASE UNCHANGED treeVars
    <3>1. classes' = classes /\ objects' = objects /\ stack' = stack
      BY <2>9 DEF treeVars
    <3> QED
      BY <3>1, UnchangedKeeps
  <2> QED
    BY <2>1, <2>2, <2>3, <2>4, <2>5, <2>6, <2>7, <2>8, <2>9 DEF TreeNext
<1> QED
  BY <1>1, <1>2, PTL DEF TreeSpec

(* When the body of a constructor runs, the object's submodules have all   *)
(* been constructed, each once, and none of their constructors is still    *)
(* running, whatever the classes inherit (module.py:97-100, 108-125).      *)
THEOREM ConstructorsFindSubmodules ==
    TreeSpec => []BodiesFindSubmodules
<1>1. TreeInv => BodiesFindSubmodules
  <2> SUFFICES ASSUME TreeInv  PROVE BodiesFindSubmodules
    OBVIOUS
  <2>1. PICK t \in Nat : t = Len(stack)
    BY Domains DEF TreeInv
  <2>2. PICK m \in Nat : m = Len(objects)
    BY Domains DEF TreeInv
  <2>3. DOMAIN stack = 1..t /\ DOMAIN objects = 1..m
    BY <2>1, <2>2, Domains DEF TreeInv
  <2>4. /\ \A p \in 1..m : ObjectFits(p) /\ Known(p) /\ Made(p)
        /\ \A p, q \in 1..m : Once(p, q)
        /\ \A i \in 1..t : FrameFits(i) /\ WaitFits(i) /\ CallFits(i)
    BY <2>1, <2>2 DEF TreeInv
  <2> DEFINE childrenOf(o) == {p \in DOMAIN objects : objects[p].parent = o}
  <2> SUFFICES ASSUME NEW i \in 1..t, stack[i].at = "body"
               PROVE  /\ objects[stack[i].obj].has = DOMAIN ClassOf(stack[i].obj).submodules
                      /\ Cardinality(childrenOf(stack[i].obj)) = Cardinality(objects[stack[i].obj].has)
                      /\ \A p \in childrenOf(stack[i].obj) : \A j \in DOMAIN stack : stack[j].obj # p
    BY <2>3 DEF BodiesFindSubmodules
  <2> PICK o : o = stack[i].obj
    OBVIOUS
  <2> PICK children : children = {p \in 1..m : objects[p].parent = o}
    OBVIOUS
  <2>5. o \in 1..m /\ objects[o].has = Sub(o)
    BY <2>2, <2>4 DEF FrameFits
  <2>6. ASSUME NEW p \in children  PROVE Kid(p) \in objects[o].has
    <3>1. p \in 1..m /\ objects[p].parent = o /\ o # 0 /\ Known(p)
      BY <2>4, <2>5
    <3>2. CASE \E j \in 2..t : /\ stack[j].obj = p /\ stack[j - 1].obj = o
                             /\ stack[j - 1].at = "submodules"
      <4>1. PICK j \in 2..t : /\ stack[j].obj = p /\ stack[j - 1].obj = o
                             /\ stack[j - 1].at = "submodules"
        BY <3>2
      <4>2. j - 1 \in 1..t /\ WaitFits(j - 1) /\ j - 1 < Len(stack)
        BY <2>1, <2>4
      <4>3. Current(j - 1) = {Kid(p)}
        BY <4>1, <4>2 DEF Current
      <4>4. Kid(p) \in Sub(o)
        BY <4>1, <4>2, <4>3 DEF WaitFits
      <4> QED
        BY <2>5, <4>4
    <3> QED
      BY <2>1, <3>1, <3>2 DEF Known
  <2>7. ASSUME NEW p \in children, NEW q \in children, Kid(p) = Kid(q)  PROVE p = q
    <3>1. Once(p, q) /\ objects[p].parent = o /\ objects[q].parent = o /\ o # 0
      BY <2>4, <2>5
    <3> QED
      BY <2>7, <3>1 DEF Once
  <2>8. ASSUME NEW n \in objects[o].has  PROVE \E p \in children : Kid(p) = n
    <3>1. Made(o)
      BY <2>4, <2>5
    <3> QED
      BY <2>2, <3>1 DEF Made
  <2>9. Cardinality(children) = Cardinality(objects[o].has)
    <3>1. PICK has : has = objects[o].has
      OBVIOUS
    <3>2. PICK f : f = [p \in children |-> Kid(p)]
      OBVIOUS
    <3>3. /\ f \in [children -> has]
          /\ \A a, b \in children : f[a] = f[b] => a = b
          /\ \A n \in has : \E p \in children : f[p] = n
      BY <2>6, <2>7, <2>8, <3>1, <3>2
    <3>4. ExistsBijection(children, has)
      BY <3>3, Bijective
    <3>5. IsFiniteSet(children)
      <4>1. children \subseteq 1..m /\ IsFiniteSet(1..m)
        BY FS_Interval
      <4> QED
        BY <4>1, FS_Subset
    <3> QED
      BY <3>1, <3>4, <3>5, FS_Bijection
  <2>10. ASSUME NEW p \in children, NEW j \in 1..t, stack[j].obj = p  PROVE FALSE
    <3>1. p \in 1..m /\ o < p
      <4>1. p \in 1..m /\ objects[p].parent = o /\ ObjectFits(p)
        BY <2>4
      <4> QED
        BY <2>5, <4>1 DEF ObjectFits
    <3>2. CASE j < i
      <4>1. j \in 1..(i - 1)
        BY <3>2
      <4>2. \/ stack[i].obj = stack[j].obj
            \/ stack[j].obj < stack[i].obj
        BY <2>1, <4>1 DEF TreeInv, Nested
      <4> QED
        BY <2>5, <2>10, <3>1, <4>2
    <3>3. CASE i < j
      <4>1. i \in 1..(j - 1)
        BY <3>3
      <4>2. stack[j].obj = stack[i].obj
        BY <2>1, <4>1 DEF TreeInv, Nested
      <4> QED
        BY <2>5, <2>10, <3>1, <4>2
    <3>4. CASE i = j
      BY <2>5, <2>10, <3>1, <3>4
    <3> QED
      BY <3>2, <3>3, <3>4
  <2> QED
    BY <2>3, <2>5, <2>9, <2>10 DEF Sub
<1> QED
  BY <1>1, TreeInvariance, PTL

-----------------------------------------------------------------------------
(* The places of objects.  A call of a constructor for an object that has  *)
(* no name yet brings the name and the parent that the object will have;   *)
(* PlacesInv says of both, the calls and the objects, that they fit the    *)
(* path that leads to the object through the classes.                      *)

\* An attribute's type is the register's.
AttributesFit ==
    \A k \in 1..Len(classes) :
        /\ DOMAIN classes[k].registers \subseteq Names
        /\ DOMAIN classes[k].attributes \subseteq DOMAIN classes[k].registers
        /\ \A n \in DOMAIN classes[k].attributes :
               classes[k].attributes[n] = classes[k].registers[n]

\* The place that a constructor gives its object is that of the submodule in
\* its parent.
Placed(o, parent, name) ==
    \/ o = 1 /\ parent = 0 /\ name = Top /\ objects[o].path = <<>>
    \/ /\ parent \in 1..(o - 1) /\ Initialised(parent)
       /\ name \in Sub(parent)
       /\ objects[o].path = Append(objects[parent].path, name)
       /\ objects[o].class = ClassOf(parent).submodules[name]

ObjectPlaced(o) == Initialised(o) => Placed(o, objects[o].parent, objects[o].name)
CallPlaced(i) ==
    ~Initialised(stack[i].obj) => Placed(stack[i].obj, stack[i].parent, stack[i].name)

PlacesInv ==
    /\ TreeInv
    /\ AttributesFit
    /\ \A o \in 1..Len(objects) : ObjectPlaced(o)
    /\ \A i \in 1..Len(stack) : CallPlaced(i)

\* What has been placed stays there.
LEMMA PlacedKeeps ==
    ASSUME TreeInv, NEW m \in Nat, m = Len(objects), classes' = classes,
           \A p \in 1..m : /\ objects'[p].class = objects[p].class
                           /\ objects'[p].path = objects[p].path
                           /\ Initialised(p) => objects'[p].name # NoName,
           NEW o \in 1..m, NEW parent, NEW name, Placed(o, parent, name)
    PROVE  Placed(o, parent, name)'
<1>1. CASE o = 1 /\ parent = 0 /\ name = Top /\ objects[o].path = <<>>
  BY <1>1 DEF Placed
<1>2. CASE /\ parent \in 1..(o - 1) /\ Initialised(parent)
           /\ name \in Sub(parent)
           /\ objects[o].path = Append(objects[parent].path, name)
           /\ objects[o].class = ClassOf(parent).submodules[name]
  <2>1. parent \in 1..m
    BY <1>2
  <2>2. /\ objects'[parent].class = objects[parent].class
        /\ objects'[parent].path = objects[parent].path
        /\ objects'[parent].name # NoName
    BY <1>2, <2>1
  <2> QED
    BY <1>2, <2>2 DEF Placed, Initialised, Sub, ClassOf
<1> QED
  BY <1>1, <1>2 DEF Placed

\* Objects get the places that constructors have been given for them.
LEMMA PlacesKept ==
    ASSUME PlacesInv, TreeInv', NEW m \in Nat, m = Len(objects), classes' = classes,
           NEW l \in Nat, l = Len(objects'), m <= l,
           \A p \in 1..m : /\ objects'[p].class = objects[p].class
                           /\ objects'[p].path = objects[p].path
                           /\ Initialised(p) => /\ objects'[p].name = objects[p].name
                                                /\ objects'[p].parent = objects[p].parent,
           \A p \in 1..l : \/ objects'[p].name = NoName
                           \/ p \in 1..m /\ Initialised(p)
                           \/ \E j \in 1..Len(stack) :
                                 /\ stack[j].obj = p /\ ~Initialised(p)
                                 /\ objects'[p].parent = stack[j].parent
                                 /\ objects'[p].name = stack[j].name,
           \A i \in 1..Len(stack') : \/ objects'[stack'[i].obj].name # NoName
                                     \/ CallPlaced(i)'
                                     \/ \E j \in 1..Len(stack) :
                                           /\ stack'[i].obj = stack[j].obj
                                           /\ stack'[i].parent = stack[j].parent
                                           /\ stack'[i].name = stack[j].name
    PROVE  PlacesInv'
<1>1. \A p \in 1..m : Initialised(p) => objects'[p].name # NoName
  BY DEF Initialised
<1>2. ASSUME NEW j \in 1..Len(stack), NEW o \in 1..m, NEW parent, NEW name, ~Initialised(o),
             o = stack[j].obj, parent = stack[j].parent, name = stack[j].name
      PROVE  Placed(o, parent, name)'
  <2>1. Placed(o, parent, name)
    BY <1>2 DEF PlacesInv, CallPlaced
  <2> QED
    BY <1>1, <2>1, PlacedKeeps DEF PlacesInv
<1>3. ASSUME NEW p \in 1..l
      PROVE  ObjectPlaced(p)'
  <2>1. CASE objects'[p].name = NoName
    BY <2>1 DEF ObjectPlaced, Initialised
  <2>2. CASE p \in 1..m /\ Initialised(p)
    <3>1. PICK parent, name : parent = objects[p].parent /\ name = objects[p].name
      OBVIOUS
    <3>2. Placed(p, parent, name)
      BY <2>2, <3>1 DEF PlacesInv, ObjectPlaced
    <3>3. Placed(p, parent, name)'
      BY <1>1, <2>2, <3>2, PlacedKeeps DEF PlacesInv
    <3>4. objects'[p].parent = parent /\ objects'[p].name = name
      BY <2>2, <3>1
    <3> QED
      BY <3>3, <3>4 DEF ObjectPlaced, Placed
  <2>3. CASE \E j \in 1..Len(stack) : /\ stack[j].obj = p /\ ~Initialised(p)
                                      /\ objects'[p].parent = stack[j].parent
                                      /\ objects'[p].name = stack[j].name
    <3>1. PICK j \in 1..Len(stack) : /\ stack[j].obj = p /\ ~Initialised(p)
                                     /\ objects'[p].parent = stack[j].parent
                                     /\ objects'[p].name = stack[j].name
      BY <2>3
    <3>2. PICK parent, name : parent = stack[j].parent /\ name = stack[j].name
      OBVIOUS
    <3>3. Placed(p, parent, name)'
      <4>1. p \in 1..m
        BY <3>1 DEF PlacesInv, TreeInv, FrameFits
      <4> QED
        BY <1>2, <3>1, <3>2, <4>1
    <3> QED
      BY <3>1, <3>2, <3>3 DEF ObjectPlaced, Placed
  <2> QED
    BY <2>1, <2>2, <2>3
<1>4. ASSUME NEW i \in 1..Len(stack')
      PROVE  CallPlaced(i)'
  <2>1. CASE objects'[stack'[i].obj].name # NoName
    BY <2>1 DEF CallPlaced, Initialised
  <2>2. CASE objects'[stack'[i].obj].name = NoName /\
             \E j \in 1..Len(stack) : /\ stack'[i].obj = stack[j].obj
                                      /\ stack'[i].parent = stack[j].parent
                                      /\ stack'[i].name = stack[j].name
    <3>1. PICK j \in 1..Len(stack) : /\ stack'[i].obj = stack[j].obj
                                     /\ stack'[i].parent = stack[j].parent
                                     /\ stack'[i].name = stack[j].name
      BY <2>2
    <3>2. PICK o \in 1..m : o = stack[j].obj
      BY DEF PlacesInv, TreeInv, FrameFits
    <3>3. PICK parent, name : parent = stack[j].parent /\ name = stack[j].name
      OBVIOUS
    <3>4. ~Initialised(o)
      BY <1>1, <2>2, <3>1, <3>2
    <3>5. Placed(o, parent, name)'
      BY <1>2, <3>2, <3>3, <3>4
    <3>6. stack'[i].obj = o /\ stack'[i].parent = parent /\ stack'[i].name = name
      BY <3>1, <3>2, <3>3
    <3> QED
      BY <3>5, <3>6 DEF CallPlaced, Placed
  <2> QED
    BY <2>1, <2>2
<1>5. AttributesFit'
  BY DEF PlacesInv, AttributesFit
<1> QED
  BY <1>3, <1>4, <1>5 DEF PlacesInv

LEMMA DefineClassPlaces ==
    ASSUME PlacesInv, objects = <<>>, NEW base \in 0..Len(classes), NEW dom \in SUBSET Names,
           NEW own \in [dom -> Types \cup 1..Len(classes)], DefineClass(base, own)
    PROVE  PlacesInv'
<1>1. TreeInv /\ TreeInv' /\ Len(objects) = 0
  BY DefineClassKeeps DEF PlacesInv
<1>2. PICK c : c = Class(base, own)
  OBVIOUS
<1>3. classes' = Append(classes, c) /\ objects' = objects
  BY <1>2 DEF DefineClass
<1>4. /\ Len(classes) \in Nat
      /\ Len(classes') = Len(classes) + 1
      /\ \A k \in 1..Len(classes) : classes'[k] = classes[k]
      /\ classes'[Len(classes) + 1] = c
  BY <1>1, <1>3, AppendSequence DEF TreeInv, ClassesFit
<1>5. /\ DOMAIN Attributes(base) \subseteq Names
      /\ DOMAIN Hints(base) \subseteq Names
  <2>1. CASE base = 0
    BY <2>1 DEF Attributes, Hints
  <2>2. CASE base # 0
    BY <1>1, <2>2 DEF Attributes, Hints, PlacesInv, AttributesFit, TreeInv, ClassesFit
  <2> QED
    BY <2>1, <2>2
<1>6. PICK h, f, r : /\ h = Updated(Hints(base), own) /\ f = Attributes(base)
                     /\ r = Updated(Only(h, Types), f)
  OBVIOUS
<1>7. c.registers = r /\ c.attributes = Updated(r, f)
  BY <1>2, <1>6 DEF Class, Scanned
<1>8. /\ DOMAIN r = DOMAIN f \cup DOMAIN Only(h, Types)
      /\ \A n \in DOMAIN f : r[n] = f[n]
  BY <1>6 DEF Updated
<1>9. DOMAIN h \subseteq Names
  BY <1>5, <1>6 DEF Updated
<1>10. DOMAIN r \subseteq Names
  <2>1. DOMAIN Only(h, Types) \subseteq DOMAIN h
    BY DEF Only
  <2> QED
    BY <1>5, <1>6, <1>8, <1>9, <2>1
<1>11. /\ DOMAIN Updated(r, f) = DOMAIN r
       /\ \A n \in DOMAIN r : Updated(r, f)[n] = r[n]
  BY <1>8 DEF Updated
<1>12. AttributesFit'
  <2> SUFFICES ASSUME NEW k \in 1..Len(classes')
               PROVE  /\ DOMAIN classes'[k].registers \subseteq Names
                      /\ DOMAIN classes'[k].attributes \subseteq DOMAIN classes'[k].registers
                      /\ \A n \in DOMAIN classes'[k].attributes :
                             classes'[k].attributes[n] = classes'[k].registers[n]
    BY DEF AttributesFit
  <2>1. CASE k = Len(classes) + 1
    BY <1>4, <1>7, <1>10, <1>11, <2>1
  <2>2. CASE k \in 1..Len(classes)
    BY <1>4, <2>2 DEF PlacesInv, AttributesFit
  <2> QED
    BY <1>4, <2>1, <2>2
<1>13. 1..Len(objects') = {} /\ 1..Len(stack') = {}
  <2>1. Len(stack') = 0
    <3>1. SUFFICES ASSUME 1 \in 1..Len(stack')  PROVE FALSE
      BY <1>1, Domains DEF TreeInv, PlacesFit
    <3>2. FrameFits(1)'
      BY <1>1, <3>1 DEF TreeInv
    <3> QED
      BY <1>1, <1>3, <3>2 DEF FrameFits
  <2> QED
    BY <1>1, <1>3, <2>1
<1> QED
  BY <1>1, <1>12, <1>13 DEF PlacesInv

LEMMA RunPlaces ==
    ASSUME PlacesInv, NEW k \in 1..Len(classes), Run(k)
    PROVE  PlacesInv'
<1>1. TreeInv'
  BY RunKeeps DEF PlacesInv
<1>2. /\ Len(objects') = 1 /\ objects'[1] = New(k, <<>>)
      /\ Len(stack') = 1 /\ stack'[1] = Call(1, k, Top, 0)
      /\ classes' = classes
  BY DEF Run
<1>3. objects'[1].path = <<>> /\ objects'[1].name = NoName
  BY <1>2 DEF New
<1>4. stack'[1].obj = 1 /\ stack'[1].parent = 0 /\ stack'[1].name = Top
  BY <1>2 DEF Call
<1>5. ObjectPlaced(1)' /\ CallPlaced(1)'
  BY <1>3, <1>4 DEF ObjectPlaced, CallPlaced, Placed, Initialised
<1>6. AttributesFit'
  BY <1>2 DEF PlacesInv, AttributesFit
<1> QED
  BY <1>1, <1>2, <1>5, <1>6 DEF PlacesInv

\* No object and no call's arguments change.
LEMMA SamePlaces ==
    ASSUME PlacesInv, TreeInv', classes' = classes, objects' = objects,
           \A i \in 1..Len(stack') :
               \/ Initialised(stack'[i].obj)
               \/ \E j \in 1..Len(stack) : /\ stack'[i].obj = stack[j].obj
                                           /\ stack'[i].parent = stack[j].parent
                                           /\ stack'[i].name = stack[j].name
    PROVE  PlacesInv'
<1>1. PICK m \in Nat : m = Len(objects)
  BY Domains DEF PlacesInv, TreeInv
<1>2. \A p \in 1..m : objects'[p].name = NoName \/ (p \in 1..m /\ Initialised(p))
  BY DEF Initialised
<1>3. \A i \in 1..Len(stack') :
          \/ objects'[stack'[i].obj].name # NoName
          \/ CallPlaced(i)'
          \/ \E j \in 1..Len(stack) : /\ stack'[i].obj = stack[j].obj
                                      /\ stack'[i].parent = stack[j].parent
                                      /\ stack'[i].name = stack[j].name
  BY DEF Initialised
<1>4. /\ m = Len(objects') /\ m <= m
      /\ \A p \in 1..m : /\ objects'[p].class = objects[p].class
                         /\ objects'[p].path = objects[p].path
                         /\ Initialised(p) => /\ objects'[p].name = objects[p].name
                                              /\ objects'[p].parent = objects[p].parent
  BY <1>1
<1> QED
  BY <1>1, <1>2, <1>3, <1>4, PlacesKept

\* What a call has been given does not change while it runs.
LEMMA SameCalls ==
    ASSUME NEW f \in Seq(Frames), NEW t \in 1..Len(f), NEW g \in Frames,
           g.obj = f[t].obj, g.parent = f[t].parent, g.name = f[t].name,
           NEW s, s = [f EXCEPT ![t] = g]
    PROVE  /\ s \in Seq(Frames) /\ Len(s) = Len(f)
           /\ \A i \in 1..Len(f) : /\ s[i].obj = f[i].obj
                                   /\ s[i].parent = f[i].parent
                                   /\ s[i].name = f[i].name
<1>1. /\ s \in Seq(Frames) /\ Len(s) = Len(f)
      /\ \A i \in 1..Len(f) : s[i] = IF i = t THEN g ELSE f[i]
  BY ExceptSeq
<1> QED
  BY <1>1

LEMMA MovedCalls ==
    ASSUME PlacesFit, stack # <<>>, NEW x \in {"start", "submodules", "body"},
           NEW s, s = At(x)
    PROVE  /\ s \in Seq(Frames) /\ Len(s) = Len(stack)
           /\ \A i \in 1..Len(stack) : /\ s[i].obj = stack[i].obj
                                       /\ s[i].parent = stack[i].parent
                                       /\ s[i].name = stack[i].name
<1>1. PICK t \in Nat : t = Len(stack)
  BY Domains
<1>2. t \in 1..Len(stack) /\ stack[t] \in Frames /\ stack \in Seq(Frames)
  BY <1>1, Domains DEF PlacesFit
<1>3. PICK g \in Frames : g = [stack[t] EXCEPT !.at = x]
  BY <1>2 DEF Frames
<1>4. g.obj = stack[t].obj /\ g.parent = stack[t].parent /\ g.name = stack[t].name
  BY <1>2, <1>3 DEF Frames
<1>5. s = [stack EXCEPT ![t] = g]
  BY <1>1, <1>3 DEF At
<1> QED
  BY <1>2, <1>4, <1>5, SameCalls

LEMMA MovedPlaces ==
    ASSUME PlacesInv, TreeInv', stack # <<>>, NEW x \in {"submodules", "body"}, stack' = At(x),
           classes' = classes, objects' = objects
    PROVE  PlacesInv'
<1>1. /\ Len(stack') = Len(stack)
      /\ \A i \in 1..Len(stack) : /\ stack'[i].obj = stack[i].obj
                                  /\ stack'[i].parent = stack[i].parent
                                  /\ stack'[i].name = stack[i].name
  <2>1. PlacesFit
    BY DEF PlacesInv, TreeInv
  <2> QED
    BY <2>1, MovedCalls
<1> QED
  BY <1>1, SamePlaces

LEMMA CallInheritedPlaces ==
    ASSUME PlacesInv, CallInherited
    PROVE  PlacesInv'
<1>1. PICK t \in Nat : t = Len(stack)
  BY Domains DEF PlacesInv, TreeInv
<1>2. TreeInv' /\ PlacesFit /\ stack # <<>> /\ classes' = classes /\ objects' = objects
  BY CallInheritedKeeps DEF PlacesInv, TreeInv, CallInherited, InitDone
<1>3. PICK s, f : /\ s = At("body") /\ f = Call(frame.obj, classes[frame.level].base, Top, 0)
                  /\ stack' = Append(s, f)
  BY DEF CallInherited
<1>4. /\ s \in Seq(Frames) /\ Len(s) = t
      /\ \A i \in 1..t : /\ s[i].obj = stack[i].obj
                         /\ s[i].parent = stack[i].parent
                         /\ s[i].name = stack[i].name
  BY <1>1, <1>2, <1>3, MovedCalls
<1>5. Len(stack') = t + 1 /\ stack'[t + 1] = f /\ \A i \in 1..t : stack'[i] = s[i]
  BY <1>3, <1>4, AppendSequence DEF Sequence
<1>6. Initialised(f.obj)
  <2>1. Initialised(frame.obj)
    BY AllMade DEF PlacesInv, CallInherited
  <2>2. f.obj = frame.obj
    BY <1>3 DEF Call
  <2> QED
    BY <2>1, <2>2
<1>7. ASSUME NEW i \in 1..Len(stack')
      PROVE  \/ Initialised(stack'[i].obj)
             \/ \E j \in 1..Len(stack) : /\ stack'[i].obj = stack[j].obj
                                         /\ stack'[i].parent = stack[j].parent
                                         /\ stack'[i].name = stack[j].name
  <2>1. CASE i = t + 1
    BY <1>5, <1>6, <2>1
  <2>2. CASE i \in 1..t
    BY <1>1, <1>4, <1>5, <2>2
  <2> QED
    BY <1>5, <2>1, <2>2
<1> QED
  BY <1>2, <1>7, SamePlaces

LEMMA InitModulePlaces ==
    ASSUME PlacesInv, InitModule
    PROVE  PlacesInv'
<1>1. PICK t \in Nat : t = Len(stack)
  BY Domains DEF PlacesInv, TreeInv
<1>2. PICK m \in Nat : m = Len(objects)
  BY Domains DEF PlacesInv, TreeInv
<1>3. t \in 1..t /\ stack[t] \in Frames
  BY <1>1, Domains DEF PlacesInv, TreeInv, InitModule
<1>4. PICK f \in Frames : f = stack[t]
  BY <1>3
<1>5. PICK o \in 1..m : o = f.obj
  BY <1>1, <1>2, <1>3, <1>4 DEF PlacesInv, TreeInv, FrameFits
<1>6. /\ ~Initialised(o) /\ classes' = classes
      /\ objects' = [objects EXCEPT ![o].name = f.name, ![o].parent = f.parent]
      /\ stack' = [stack EXCEPT ![t].at = "submodules",
                                ![t].todo = DOMAIN ClassOf(o).submodules]
  BY <1>1, <1>4, <1>5 DEF InitModule, frame
<1>7. /\ Len(objects') = m
      /\ \A p \in 1..m : /\ objects'[p].class = objects[p].class
                         /\ objects'[p].path = objects[p].path
                         /\ p # o => objects'[p].name = objects[p].name
                                   /\ objects'[p].parent = objects[p].parent
      /\ objects'[o].name = f.name /\ objects'[o].parent = f.parent
  <2>1. objects \in Seq(ObjectRecords) /\ objects[o] \in ObjectRecords
    BY <1>2, Domains DEF PlacesInv, TreeInv, PlacesFit
  <2>2. PICK g \in ObjectRecords : g = [objects[o] EXCEPT !.name = f.name, !.parent = f.parent]
    BY <2>1 DEF ObjectRecords, Frames
  <2>3. objects' = [objects EXCEPT ![o] = g]
    BY <1>6, <2>1, <2>2
  <2>4. /\ Len(objects') = m
        /\ \A p \in 1..m : objects'[p] = IF p = o THEN g ELSE objects[p]
    BY <1>2, <2>1, <2>3, ExceptSeq
  <2>5. /\ g.class = objects[o].class /\ g.path = objects[o].path
        /\ g.name = f.name /\ g.parent = f.parent
    BY <2>1, <2>2 DEF ObjectRecords
  <2> QED
    BY <2>4, <2>5
<1>8. /\ Len(stack') = t
      /\ \A i \in 1..t : /\ stack'[i].obj = stack[i].obj
                         /\ stack'[i].parent = stack[i].parent
                         /\ stack'[i].name = stack[i].name
  <2>1. PICK k \in 1..Len(classes) : k = objects[o].class
    BY <1>2 DEF PlacesInv, TreeInv, ObjectFits
  <2>2. PICK todo \in SUBSET Names : todo = DOMAIN ClassOf(o).submodules
    BY <2>1 DEF PlacesInv, TreeInv, ClassesFit, ClassOf
  <2>3. PICK g \in Frames : g = [f EXCEPT !.at = "submodules", !.todo = todo]
    BY <1>4, <2>2 DEF Frames
  <2>4. g.obj = f.obj /\ g.parent = f.parent /\ g.name = f.name
    BY <1>4, <2>3 DEF Frames
  <2>5. stack \in Seq(Frames) /\ t \in 1..Len(stack)
    BY <1>1, <1>3 DEF PlacesInv, TreeInv, PlacesFit
  <2>6. stack' = [stack EXCEPT ![t] = g]
    BY <1>4, <1>6, <2>2, <2>3, <2>5
  <2> QED
    BY <1>1, <1>4, <2>4, <2>5, <2>6, SameCalls
<1>9. ASSUME NEW p \in 1..m, Initialised(p)
      PROVE  objects'[p].name = objects[p].name /\ objects'[p].parent = objects[p].parent
  BY <1>6, <1>7, <1>9
<1>10. ASSUME NEW p \in 1..m
       PROVE  \/ objects'[p].name = NoName
              \/ p \in 1..m /\ Initialised(p)
              \/ \E j \in 1..Len(stack) :
                    /\ stack[j].obj = p /\ ~Initialised(p)
                    /\ objects'[p].parent = stack[j].parent
                    /\ objects'[p].name = stack[j].name
  <2>1. CASE p = o
    <3>1. t \in 1..Len(stack) /\ stack[t].obj = o /\ ~Initialised(o)
      BY <1>1, <1>3, <1>4, <1>5, <1>6
    <3>2. objects'[o].parent = stack[t].parent /\ objects'[o].name = stack[t].name
      BY <1>4, <1>7
    <3> QED
      BY <2>1, <3>1, <3>2
  <2>2. CASE p # o
    BY <1>7, <2>2 DEF Initialised
  <2> QED
    BY <2>1, <2>2
<1>11. \A i \in 1..Len(stack') :
           \/ objects'[stack'[i].obj].name # NoName
           \/ CallPlaced(i)'
           \/ \E j \in 1..Len(stack) : /\ stack'[i].obj = stack[j].obj
                                       /\ stack'[i].parent = stack[j].parent
                                       /\ stack'[i].name = stack[j].name
  BY <1>1, <1>8
<1>12. /\ m = Len(objects') /\ m <= m /\ TreeInv'
       /\ \A p \in 1..m : /\ objects'[p].class = objects[p].class
                          /\ objects'[p].path = objects[p].path
                          /\ Initialised(p) => /\ objects'[p].name = objects[p].name
                                               /\ objects'[p].parent = objects[p].parent
  BY <1>7, <1>9, InitModuleKeeps DEF PlacesInv
<1> QED
  BY <1>2, <1>6, <1>10, <1>11, <1>12, PlacesKept

LEMMA InitSubmodulePlaces ==
    ASSUME PlacesInv, InitSubmodule
    PROVE  PlacesInv'
<1>1. PICK t \in Nat : t = Len(stack)
  BY Domains DEF PlacesInv, TreeInv
<1>2. PICK m \in Nat : m = Len(objects)
  BY Domains DEF PlacesInv, TreeInv
<1>3. t >= 1 /\ t \in 1..t /\ stack # <<>>
  BY <1>1, Domains DEF PlacesInv, TreeInv, InitSubmodule
<1>4. FrameFits(t) /\ WaitFits(t) /\ stack[t] \in Frames /\ stack \in Seq(Frames)
      /\ objects \in Seq(ObjectRecords)
  BY <1>1, <1>3, Domains DEF PlacesInv, TreeInv, PlacesFit
<1>5. PICK o \in 1..m : o = stack[t].obj
  BY <1>2, <1>4 DEF FrameFits
<1>6. PICK n \in stack[t].todo : \E class :
         /\ class = ClassOf(o).submodules[n]
         /\ stack[t].at = "submodules"
         /\ objects' = Append(objects, New(class, Append(objects[o].path, n)))
         /\ stack' = Append([stack EXCEPT ![t].todo = @ \ {n}], Call(m + 1, class, n, o))
         /\ classes' = classes
  BY <1>1, <1>2, <1>3, <1>5 DEF InitSubmodule, frame
<1>7. PICK class, e, f :
         /\ class = ClassOf(o).submodules[n]
         /\ stack[t].at = "submodules"
         /\ e = New(class, Append(objects[o].path, n))
         /\ f = Call(m + 1, class, n, o)
         /\ objects' = Append(objects, e)
         /\ stack' = Append([stack EXCEPT ![t].todo = @ \ {n}], f)
         /\ classes' = classes
  BY <1>6
<1>8. n \in Sub(o) /\ Initialised(o)
  BY <1>4, <1>5, <1>7 DEF WaitFits, FrameFits
<1>9. /\ Len(objects') = m + 1 /\ objects'[m + 1] = e
      /\ \A p \in 1..m : objects'[p] = objects[p]
  <2>1. Sequence(objects)
    BY <1>4 DEF Sequence
  <2> QED
    BY <1>2, <1>7, <2>1, AppendSequence
<1>10. e.name = NoName /\ e.class = class /\ e.path = Append(objects[o].path, n)
  BY <1>7 DEF New
<1>11. f.obj = m + 1 /\ f.parent = o /\ f.name = n
  BY <1>7 DEF Call
<1>12. /\ Len(stack') = t + 1 /\ stack'[t + 1] = f
       /\ \A i \in 1..t : /\ stack'[i].obj = stack[i].obj
                          /\ stack'[i].parent = stack[i].parent
                          /\ stack'[i].name = stack[i].name
  <2>1. PICK g \in Frames : g = [stack[t] EXCEPT !.todo = stack[t].todo \ {n}]
    BY <1>4 DEF Frames
  <2>2. g.obj = stack[t].obj /\ g.parent = stack[t].parent /\ g.name = stack[t].name
    BY <1>4, <2>1 DEF Frames
  <2>3. PICK s : s = [stack EXCEPT ![t] = g]
    OBVIOUS
  <2>4. /\ s \in Seq(Frames) /\ Len(s) = t
        /\ \A i \in 1..t : /\ s[i].obj = stack[i].obj
                           /\ s[i].parent = stack[i].parent
                           /\ s[i].name = stack[i].name
    BY <1>1, <1>3, <1>4, <2>2, <2>3, SameCalls
  <2>5. Sequence(s)
    BY <2>4 DEF Sequence
  <2>6. stack' = Append(s, f)
    BY <1>7, <2>1, <2>3
  <2>7. Len(stack') = t + 1 /\ stack'[t + 1] = f /\ \A i \in 1..t : stack'[i] = s[i]
    BY <2>4, <2>5, <2>6, AppendSequence
  <2> QED
    BY <2>4, <2>7
<1>13. CallPlaced(t + 1)'
  <2>1. o \in 1..((m + 1) - 1) /\ objects'[o] = objects[o]
    BY <1>9
  <2>2. /\ stack'[t + 1].obj = m + 1 /\ stack'[t + 1].parent = o /\ stack'[t + 1].name = n
        /\ objects'[m + 1].path = Append(objects'[o].path, n)
        /\ objects'[m + 1].class = class /\ objects'[o].name # NoName
        /\ n \in Sub(o)' /\ class = ClassOf(o)'.submodules[n]
    BY <1>7, <1>8, <1>9, <1>10, <1>11, <1>12, <2>1 DEF Sub, ClassOf, Initialised
  <2>3. Placed(m + 1, o, n)'
    BY <2>1, <2>2 DEF Placed, Initialised
  <2> QED
    BY <2>2, <2>3 DEF CallPlaced, Placed
<1>14. ASSUME NEW i \in 1..Len(stack')
       PROVE  \/ objects'[stack'[i].obj].name # NoName
              \/ CallPlaced(i)'
              \/ \E j \in 1..Len(stack) : /\ stack'[i].obj = stack[j].obj
                                          /\ stack'[i].parent = stack[j].parent
                                          /\ stack'[i].name = stack[j].name
  <2>1. CASE i = t + 1
    BY <1>13, <2>1
  <2>2. CASE i \in 1..t
    BY <1>1, <1>12, <2>2
  <2> QED
    BY <1>12, <2>1, <2>2
<1>15. ASSUME NEW p \in 1..(m + 1)
       PROVE  objects'[p].name = NoName \/ (p \in 1..m /\ Initialised(p))
  <2>1. CASE p = m + 1
    BY <1>9, <1>10, <2>1
  <2>2. CASE p \in 1..m
    BY <1>9, <2>2 DEF Initialised
  <2> QED
    BY <2>1, <2>2
<1>16. /\ m + 1 \in Nat /\ m + 1 = Len(objects') /\ m <= m + 1 /\ TreeInv'
       /\ \A p \in 1..m : /\ objects'[p].class = objects[p].class
                          /\ objects'[p].path = objects[p].path
                          /\ Initialised(p) => /\ objects'[p].name = objects[p].name
                                               /\ objects'[p].parent = objects[p].parent
  BY <1>9, InitSubmoduleKeeps DEF PlacesInv
<1> QED
  BY <1>2, <1>7, <1>14, <1>15, <1>16, PlacesKept

LEMMA ReturnPlaces ==
    ASSUME PlacesInv, Return
    PROVE  PlacesInv'
<1>1. PICK t \in Nat : t = Len(stack)
  BY Domains DEF PlacesInv, TreeInv
<1>2. PICK m \in Nat : m = Len(objects)
  BY Domains DEF PlacesInv, TreeInv
<1>3. t \in 1..t /\ t - 1 \in Nat /\ classes' = classes
      /\ stack \in Seq(Frames) /\ objects \in Seq(ObjectRecords)
  BY <1>1, Domains DEF PlacesInv, TreeInv, PlacesFit, Return
<1>4. Len(stack') = t - 1 /\ \A i \in 1..(t - 1) : stack'[i] = stack[i]
  <2>1. stack' = SubSeq(stack, 1, t - 1)
    BY <1>1 DEF Return, Front
  <2> QED
    BY <1>1, <1>3, <2>1, SubSeqProperties
<1>5. TreeInv'
  BY ReturnKeeps DEF PlacesInv
<1>6. /\ Len(objects') = m
      /\ \A p \in 1..m : /\ objects'[p].class = objects[p].class
                         /\ objects'[p].path = objects[p].path
                         /\ objects'[p].name = objects[p].name
                         /\ objects'[p].parent = objects[p].parent
  <2>1. CASE objects' = objects
    BY <1>2, <2>1
  <2>2. CASE objects' # objects
    <3>1. t > 1 /\ t - 1 \in 1..Len(stack)
      BY <1>1, <1>3, <2>2 DEF Return
    <3>2. PICK q \in 1..m : q = stack[t - 1].obj
      BY <1>2, <3>1 DEF PlacesInv, TreeInv, FrameFits
    <3>3. PICK has : objects' = [objects EXCEPT ![q].has = has]
      BY <1>1, <2>2, <3>2 DEF Return
    <3>4. objects[q] \in ObjectRecords
      BY <1>2, Domains DEF PlacesInv, TreeInv
    <3>5. PICK g : g = [objects[q] EXCEPT !.has = has]
      OBVIOUS
    <3>6. /\ g.class = objects[q].class /\ g.path = objects[q].path
          /\ g.name = objects[q].name /\ g.parent = objects[q].parent
      BY <3>4, <3>5 DEF ObjectRecords
    <3>7. \A p \in 1..m : objects'[p] = IF p = q THEN g ELSE objects[p]
      BY <1>2, <1>3, <3>3, <3>5
    <3>8. Len(objects') = m
      BY <1>2, <1>3, <3>3
    <3> QED
      BY <3>6, <3>7, <3>8
  <2> QED
    BY <2>1, <2>2
<1>7. \A p \in 1..m : objects'[p].name = NoName \/ (p \in 1..m /\ Initialised(p))
  BY <1>6 DEF Initialised
<1>8. \A i \in 1..Len(stack') :
          \/ objects'[stack'[i].obj].name # NoName
          \/ CallPlaced(i)'
          \/ \E j \in 1..Len(stack) : /\ stack'[i].obj = stack[j].obj
                                      /\ stack'[i].parent = stack[j].parent
                                      /\ stack'[i].name = stack[j].name
  <2>1. \A i \in 1..(t - 1) : i \in 1..Len(stack) /\ stack'[i] = stack[i]
    BY <1>1, <1>4
  <2> QED
    BY <1>4, <2>1
<1>9. m = Len(objects') /\ m <= m
  BY <1>6
<1> QED
  BY <1>2, <1>3, <1>5, <1>6, <1>7, <1>8, <1>9, PlacesKept

LEMMA InitPlaces ==
    ASSUME TreeInit
    PROVE  PlacesInv
<1>1. 1..Len(classes) = {} /\ 1..Len(objects) = {} /\ 1..Len(stack) = {}
  BY DEF TreeInit
<1> QED
  BY <1>1, InitTree DEF PlacesInv, AttributesFit

LEMMA PlacesInvariance ==
    TreeSpec => []PlacesInv
<1>1. TreeInit => PlacesInv
  BY InitPlaces
<1>2. PlacesInv /\ [TreeNext]_treeVars => PlacesInv'
  <2> SUFFICES ASSUME PlacesInv, [TreeNext]_treeVars  PROVE PlacesInv'
    OBVIOUS
  <2>1. CASE objects = <<>> /\ \E base \in 0..Len(classes), dom \in SUBSET Names :
                \E own \in [dom -> Types \cup 1..Len(classes)] : DefineClass(base, own)
    BY <2>1, DefineClassPlaces
  <2>2. CASE \E k \in 1..Len(classes) : Run(k)
    BY <2>2, RunPlaces
  <2>3. CASE SkipInit
    <3>1. TreeInv'
      BY <2>3, SkipInitKeeps DEF PlacesInv
    <3> QED
      BY <2>3, <3>1, MovedPlaces DEF SkipInit
  <2>4. CASE InitModule
    BY <2>4, InitModulePlaces
  <2>5. CASE InitSubmodule
    BY <2>5, InitSubmodulePlaces
  <2>6. CASE CallInherited
    BY <2>6, CallInheritedPlaces
  <2>7. CASE RunBody
    <3>1. TreeInv'
      BY <2>7, RunBodyKeeps DEF PlacesInv
    <3> QED
      BY <2>7, <3>1, MovedPlaces DEF RunBody, InitDone
  <2>8. CASE Return
    BY <2>8, ReturnPlaces
  <2>9. CASE UNCHANGED treeVars
    <3>1. classes' = classes /\ objects' = objects /\ stack' = stack
      BY <2>9 DEF treeVars
    <3>2. TreeInv'
      BY <3>1, UnchangedKeeps DEF PlacesInv
    <3> QED
      BY <3>1, <3>2, SamePlaces
  <2> QED
    BY <2>1, <2>2, <2>3, <2>4, <2>5, <2>6, <2>7, <2>8, <2>9 DEF TreeNext
<1> QED
  BY <1>1, <1>2, PTL DEF TreeSpec

\* A program defines no more classes than the bound says.
Bounded == Len(classes) <= MaxClasses

LEMMA BoundInvariance ==
    TreeSpec => []Bounded
<1>1. TreeInit => Bounded
  BY BoundsAssumption DEF TreeInit, Bounded
<1>2. TreeInv /\ Bounded /\ [TreeNext]_treeVars => Bounded'
  <2> SUFFICES ASSUME TreeInv, Bounded, [TreeNext]_treeVars
               PROVE  Len(classes') <= MaxClasses
    BY DEF Bounded
  <2>1. ASSUME NEW base \in 0..Len(classes), NEW dom \in SUBSET Names,
               NEW own \in [dom -> Types \cup 1..Len(classes)], DefineClass(base, own)
        PROVE  Len(classes') <= MaxClasses
    <3>1. PICK n \in Nat : n = Len(classes)
      BY DEF TreeInv, ClassesFit, Sequence
    <3>2. PICK c : c = Class(base, own)
      OBVIOUS
    <3>3. classes' = Append(classes, c) /\ n < MaxClasses
      BY <2>1, <3>1, <3>2 DEF DefineClass
    <3>4. Len(Append(classes, c)) = n + 1
      BY <3>1, AppendSequence DEF TreeInv, ClassesFit
    <3> QED
      BY <3>3, <3>4, BoundsAssumption
  <2>2. CASE classes' = classes
    BY <2>2 DEF Bounded
  <2> QED
    BY <2>1, <2>2 DEF TreeNext, treeVars, Run, SkipInit, InitModule, InitSubmodule,
       CallInherited, RunBody, Return
<1> QED
  BY <1>1, <1>2, TreeInvariance, PTL DEF TreeSpec

(* A class's members are its own and lead to classes defined before, and   *)
(* an object has the submodules that its class says and a parent made      *)
(* before it, for classes and trees of any number and depth                *)
(* (module.py:45-64, 93-98 and 108-125).                                   *)
THEOREM TreeTypeCorrect ==
    TreeSpec => []TreeTypeOK
<1>1. ASSUME PlacesInv, Bounded
      PROVE  TreeTypeOK
  <2>1. DOMAIN classes = 1..Len(classes) /\ DOMAIN objects = 1..Len(objects)
        /\ DOMAIN stack = 1..Len(stack)
    BY <1>1, Domains DEF PlacesInv, TreeInv, ClassesFit, Sequence
  <2>2. ASSUME NEW k \in 1..Len(classes)
        PROVE  /\ classes[k].base \in 0..(k - 1)
               /\ DOMAIN classes[k].registers \cup DOMAIN classes[k].submodules \subseteq Names
               /\ \A n \in DOMAIN classes[k].submodules : classes[k].submodules[n] < k
    <3>1. /\ classes[k].base \in 0..(k - 1)
          /\ DOMAIN classes[k].submodules \subseteq Names
          /\ \A n \in DOMAIN classes[k].submodules : classes[k].submodules[n] \in 1..(k - 1)
      BY <1>1 DEF PlacesInv, TreeInv, ClassesFit
    <3>2. DOMAIN classes[k].registers \subseteq Names
      BY <1>1 DEF PlacesInv, AttributesFit
    <3>3. k \in Nat
      BY <1>1 DEF PlacesInv, TreeInv, ClassesFit, Sequence
    <3> QED
      BY <3>1, <3>2, <3>3
  <2>3. ASSUME NEW o \in 1..Len(objects)
        PROVE  /\ objects[o].class \in 1..Len(classes)
               /\ objects[o].name \in Names \cup {Top, NoName}
               /\ objects[o].parent \in 0..(o - 1)
               /\ objects[o].has \subseteq DOMAIN ClassOf(o).submodules
    <3>1. ObjectFits(o) /\ objects[o] \in ObjectRecords
      BY <1>1, Domains DEF PlacesInv, TreeInv
    <3> QED
      BY <3>1 DEF ObjectFits, ObjectRecords, Sub
  <2>4. ASSUME NEW i \in 1..Len(stack)
        PROVE  stack[i].obj \in 1..Len(objects)
    BY <1>1 DEF PlacesInv, TreeInv, FrameFits
  <2> QED
    BY <1>1, <2>1, <2>2, <2>3, <2>4 DEF TreeTypeOK, Bounded
<1> QED
  BY <1>1, PlacesInvariance, BoundInvariance, PTL

-----------------------------------------------------------------------------
(* A recursive function exists: if it did not up to some number, there     *)
(* would be a least such number, and it would up to the one before.         *)

\* A set of numbers that is not empty has a least one.
LEMMA Least ==
    ASSUME NEW T \in SUBSET Nat, T # {}
    PROVE  \E m \in T : \A k \in T : m <= k
<1>1. PICK m \in T : \A k \in T : ~(<<k, m>> \in OpToRel(<, Nat))
  BY NatLessThanWellFounded, WFMin
<1>2. \A k \in T : ~(k < m)
  BY <1>1 DEF OpToRel
<1> QED
  BY <1>2

-----------------------------------------------------------------------------
(* The rows of a class, from those of its submodules' classes.             *)

OwnRows(k) == {[path |-> <<n>>, type |-> classes[k].registers[n]] : n \in DOMAIN classes[k].registers}
Below(n, rows) == {[path |-> <<n>> \o r.path, type |-> r.type] : r \in rows}
RowsOf(f, k) == OwnRows(k) \cup UNION {Below(n, f[classes[k].submodules[n]]) :
                                           n \in DOMAIN classes[k].submodules}

LEMMA RowsOfAgree ==
    ASSUME ClassesFit, NEW k \in 1..Len(classes), NEW f, NEW g,
           \A j \in 1..(k - 1) : f[j] = g[j]
    PROVE  RowsOf(f, k) = RowsOf(g, k)
<1>1. \A n \in DOMAIN classes[k].submodules :
          f[classes[k].submodules[n]] = g[classes[k].submodules[n]]
  BY DEF ClassesFit
<1>2. \A n \in DOMAIN classes[k].submodules :
          Below(n, f[classes[k].submodules[n]]) = Below(n, g[classes[k].submodules[n]])
  BY <1>1
<1> QED
  BY <1>2 DEF RowsOf

LEMMA RowsExist ==
    ASSUME ClassesFit
    PROVE  \E f : f = [k \in 1..Len(classes) |-> RowsOf(f, k)]
<1>1. PICK t \in Nat : t = Len(classes)
  BY DEF ClassesFit, Sequence
<1> DEFINE Bad == {n \in 0..t : ~\E f : f = [k \in 1..n |-> RowsOf(f, k)]}
<1>2. SUFFICES ASSUME Bad # {}
               PROVE  FALSE
  BY <1>1
<1>3. PICK n \in Bad : \A k \in Bad : n <= k
  <2>1. Bad \in SUBSET Nat
    OBVIOUS
  <2> HIDE DEF Bad
  <2> QED
    BY <1>2, <2>1, Least
<1>4. n # 0
  <2>1. PICK f : f = [k \in 1..0 |-> {}]
    OBVIOUS
  <2>2. f = [k \in 1..0 |-> RowsOf(f, k)]
    BY <2>1
  <2> QED
    BY <2>2
<1>5. n - 1 \in 0..t /\ ~(n - 1 \in Bad)
  <2>1. n \in 0..t /\ n - 1 \in 0..t /\ ~(n <= n - 1)
    BY <1>4
  <2> HIDE DEF Bad
  <2> QED
    BY <1>3, <2>1
<1>6. PICK f : f = [k \in 1..(n - 1) |-> RowsOf(f, k)]
  BY <1>5
<1>7. PICK g : g = [k \in 1..n |-> IF k = n THEN RowsOf(f, n) ELSE f[k]]
  OBVIOUS
<1>8. n \in 1..Len(classes)
  BY <1>1, <1>4
<1>9. \A k \in 1..(n - 1) : g[k] = f[k]
  BY <1>7, <1>8
<1>10. ASSUME NEW k \in 1..n
       PROVE  g[k] = RowsOf(g, k)
  <2>1. k \in 1..Len(classes) /\ \A j \in 1..(k - 1) : f[j] = g[j]
    BY <1>1, <1>8, <1>9
  <2>2. RowsOf(f, k) = RowsOf(g, k)
    BY <2>1, RowsOfAgree
  <2>3. CASE k = n
    BY <1>7, <2>2, <2>3
  <2>4. CASE k # n
    <3>1. k \in 1..(n - 1)
      BY <2>4, <1>8
    <3>2. f[k] = RowsOf(f, k)
      BY <1>6, <3>1
    <3> QED
      BY <1>9, <2>2, <3>1, <3>2
  <2> QED
    BY <2>3, <2>4
<1>11. g = [k \in 1..n |-> RowsOf(g, k)]
  BY <1>7, <1>10
<1> QED
  BY <1>11

LEMMA RowsEquation ==
    ASSUME ClassesFit, NEW k \in 1..Len(classes)
    PROVE  Rows[k] = RowsOf(Rows, k)
<1> DEFINE f == CHOOSE f : f = [j \in 1..Len(classes) |-> RowsOf(f, j)]
<1>1. f = [j \in 1..Len(classes) |-> RowsOf(f, j)]
  BY RowsExist
<1>2. Rows = f
  BY DEF Rows, RowsOf, OwnRows, Below
<1> HIDE DEF f
<1> QED
  BY <1>1, <1>2

-----------------------------------------------------------------------------
(* The names that lead to an object, from those that lead to its parent.   *)

ParentsOf(f, o) == IF o = 0 THEN <<>> ELSE Append(f[objects[o].parent], objects[o].name)

LEMMA ParentsExist ==
    ASSUME PlacesFit, \A o \in 1..Len(objects) : ObjectFits(o)
    PROVE  \E f : f = [o \in 0..Len(objects) |-> ParentsOf(f, o)]
<1>1. PICK m \in Nat : m = Len(objects)
  BY Domains
<1>2. \A o \in 1..m : objects[o].parent \in 0..(o - 1)
  BY <1>1 DEF ObjectFits
<1> DEFINE Bad == {n \in 0..m : ~\E f : f = [o \in 0..n |-> ParentsOf(f, o)]}
<1>3. SUFFICES ASSUME Bad # {}
               PROVE  FALSE
  BY <1>1
<1>4. PICK n \in Bad : \A k \in Bad : n <= k
  <2>1. Bad \in SUBSET Nat
    OBVIOUS
  <2> HIDE DEF Bad
  <2> QED
    BY <1>3, <2>1, Least
<1>5. n # 0
  <2>1. PICK f : f = [o \in 0..0 |-> <<>>]
    OBVIOUS
  <2>2. f = [o \in 0..0 |-> ParentsOf(f, o)]
    BY <2>1 DEF ParentsOf
  <2> QED
    BY <2>2
<1>6. n - 1 \in 0..m /\ ~(n - 1 \in Bad)
  <2>1. n \in 0..m /\ n - 1 \in 0..m /\ ~(n <= n - 1)
    BY <1>5
  <2> HIDE DEF Bad
  <2> QED
    BY <1>4, <2>1
<1>7. PICK f : f = [o \in 0..(n - 1) |-> ParentsOf(f, o)]
  BY <1>6
<1>8. PICK g : g = [o \in 0..n |-> IF o = n THEN ParentsOf(f, n) ELSE f[o]]
  OBVIOUS
<1>9. n \in 1..m
  BY <1>5
<1>10. \A o \in 0..(n - 1) : g[o] = f[o]
  BY <1>8, <1>9
<1>11. ASSUME NEW o \in 0..n
       PROVE  g[o] = ParentsOf(g, o)
  <2>1. ParentsOf(f, o) = ParentsOf(g, o)
    <3>1. CASE o = 0
      BY <3>1 DEF ParentsOf
    <3>2. CASE o # 0
      <4>1. objects[o].parent \in 0..(o - 1)
        BY <1>2, <1>9, <3>2
      <4>2. objects[o].parent \in 0..(n - 1)
        BY <1>9, <4>1
      <4>3. f[objects[o].parent] = g[objects[o].parent]
        BY <1>10, <4>2
      <4> QED
        BY <4>3 DEF ParentsOf
    <3> QED
      BY <3>1, <3>2
  <2>2. CASE o = n
    BY <1>8, <2>1, <2>2
  <2>3. CASE o # n
    <3>1. o \in 0..(n - 1)
      BY <1>9, <2>3
    <3>2. f[o] = ParentsOf(f, o)
      BY <1>7, <3>1
    <3> QED
      BY <1>10, <2>1, <3>1, <3>2
  <2> QED
    BY <2>2, <2>3
<1>12. g = [o \in 0..n |-> ParentsOf(g, o)]
  BY <1>8, <1>11
<1> QED
  BY <1>12

LEMMA ParentsEquation ==
    ASSUME PlacesFit, \A p \in 1..Len(objects) : ObjectFits(p), NEW o \in 0..Len(objects)
    PROVE  Parents[o] = ParentsOf(Parents, o)
<1> DEFINE f == CHOOSE f : f = [p \in 0..Len(objects) |-> ParentsOf(f, p)]
<1>1. f = [p \in 0..Len(objects) |-> ParentsOf(f, p)]
  BY ParentsExist
<1>2. Parents = f
  BY DEF Parents, ParentsOf
<1> HIDE DEF f
<1> QED
  BY <1>1, <1>2

-----------------------------------------------------------------------------
(* Sequences put together.                                                 *)

\* The sequences so far, one after the other.
Flattened(f, s, n) == \A i \in 1..n : f[i] = IF i = 1 THEN s[i] ELSE f[i - 1] \o s[i]

LEMMA FlattenedExists ==
    ASSUME NEW T, \A a, b \in T : a \o b \in T, NEW s \in Seq(T)
    PROVE  \E f \in [1..Len(s) -> T] : Flattened(f, s, Len(s))
<1>1. PICK t \in Nat : t = Len(s)
  BY LenProperties
<1>2. \A i \in 1..t : s[i] \in T
  BY <1>1, ElementOfSeq
<1> DEFINE Bad == {n \in 0..t : ~\E f \in [1..n -> T] : Flattened(f, s, n)}
<1>3. SUFFICES ASSUME Bad # {}
               PROVE  FALSE
  BY <1>1
<1>4. PICK n \in Bad : \A k \in Bad : n <= k
  <2>1. Bad \in SUBSET Nat
    OBVIOUS
  <2> HIDE DEF Bad
  <2> QED
    BY <1>3, <2>1, Least
<1>5. n # 0
  <2>1. PICK f : f = [i \in 1..0 |-> <<>>]
    OBVIOUS
  <2>2. f \in [1..0 -> T] /\ Flattened(f, s, 0)
    BY <2>1 DEF Flattened
  <2> QED
    BY <2>2
<1>6. n - 1 \in 0..t /\ ~(n - 1 \in Bad)
  <2>1. n \in 0..t /\ n - 1 \in 0..t /\ ~(n <= n - 1)
    BY <1>5
  <2> HIDE DEF Bad
  <2> QED
    BY <1>4, <2>1
<1>7. PICK f \in [1..(n - 1) -> T] : Flattened(f, s, n - 1)
  BY <1>6
<1>8. s[n] \in T /\ n \in Nat
  BY <1>2, <1>5
<1>9. PICK e \in T : e = IF n = 1 THEN s[n] ELSE f[n - 1] \o s[n]
  <2>1. CASE n = 1
    BY <1>8, <2>1
  <2>2. CASE n # 1
    <3>1. f[n - 1] \in T
      BY <1>5, <2>2
    <3> QED
      BY <1>8, <2>2, <3>1
  <2> QED
    BY <2>1, <2>2
<1>10. PICK g \in [1..n -> T] : g = [i \in 1..n |-> IF i = n THEN e ELSE f[i]]
  <2>1. [i \in 1..n |-> IF i = n THEN e ELSE f[i]] \in [1..n -> T]
    BY <1>8
  <2> QED
    BY <2>1
<1>11. Flattened(g, s, n)
  <2>1. ASSUME NEW i \in 1..n
        PROVE  g[i] = IF i = 1 THEN s[i] ELSE g[i - 1] \o s[i]
    <3>1. CASE i = n
      BY <1>5, <1>9, <1>10, <3>1
    <3>2. CASE i # n
      <4>1. i \in 1..(n - 1) /\ g[i] = f[i]
        BY <1>10, <3>2
      <4>2. i # 1 => g[i - 1] = f[i - 1]
        BY <1>10, <3>2
      <4>3. f[i] = IF i = 1 THEN s[i] ELSE f[i - 1] \o s[i]
        BY <1>7, <4>1 DEF Flattened
      <4> QED
        BY <4>1, <4>2, <4>3
    <3> QED
      BY <3>1, <3>2
  <2> QED
    BY <2>1 DEF Flattened
<1> QED
  BY <1>11

LEMMA FlattenedAgree ==
    ASSUME NEW s, NEW n \in Nat, NEW f, NEW g, Flattened(f, s, n), Flattened(g, s, n)
    PROVE  \A i \in 1..n : f[i] = g[i]
<1> DEFINE Bad == {i \in 1..n : f[i] # g[i]}
<1>1. SUFFICES ASSUME Bad # {}
               PROVE  FALSE
  OBVIOUS
<1>2. PICK m \in Bad : \A k \in Bad : m <= k
  <2>1. Bad \in SUBSET Nat
    OBVIOUS
  <2> HIDE DEF Bad
  <2> QED
    BY <1>1, <2>1, Least
<1>3. m # 1
  BY DEF Flattened
<1>4. m - 1 \in 1..n /\ ~(m - 1 \in Bad)
  BY <1>2, <1>3
<1>5. f[m - 1] = g[m - 1]
  BY <1>4
<1> QED
  BY <1>3, <1>5 DEF Flattened

LEMMA FlattenIs ==
    ASSUME NEW T, \A a, b \in T : a \o b \in T, NEW s \in Seq(T), Len(s) # 0, NEW f, Flattened(f, s, Len(s))
    PROVE  FlattenSeq(s) = f[Len(s)]
<1>1. PICK t \in Nat : t = Len(s) /\ t # 0
  BY LenProperties
<1>2. PICK g \in [1..t -> T] : Flattened(g, s, t)
  BY <1>1, FlattenedExists
<1>3. g = [i \in 1..t |-> IF i = 1 THEN s[i] ELSE g[i - 1] \o s[i]]
  BY <1>2 DEF Flattened
<1> DEFINE h == CHOOSE h : h = [i \in 1..t |-> IF i = 1 THEN s[i] ELSE h[i - 1] \o s[i]]
<1>4. h = [i \in 1..t |-> IF i = 1 THEN s[i] ELSE h[i - 1] \o s[i]]
  BY <1>3
<1>5. FlattenSeq(s) = h[t]
  BY <1>1 DEF FlattenSeq
<1> HIDE DEF h
<1>6. Flattened(h, s, t)
  BY <1>4 DEF Flattened
<1>7. h[t] = f[t]
  <2>1. Flattened(f, s, t) /\ t \in 1..t
    BY <1>1
  <2> QED
    BY <1>6, <2>1, FlattenedAgree
<1> QED
  BY <1>1, <1>5, <1>7

\* What comes first is in front of all the others.
LEMMA FlattenFirst ==
    ASSUME NEW T, \A a, b \in T : a \o b \in T,
           \A a, b, c \in T : a \o (b \o c) = (a \o b) \o c,
           NEW x \in T, NEW q \in Seq(T), Len(q) # 0
    PROVE  FlattenSeq(<<x>> \o q) = x \o FlattenSeq(q)
<1>1. PICK t \in Nat \ {0} : t = Len(q)
  BY LenProperties
<1>2. PICK g \in [1..t -> T] : Flattened(g, q, t)
  BY <1>1, FlattenedExists
<1>3. \A i \in 1..t : q[i] \in T
  BY <1>1, ElementOfSeq
<1>4. PICK r \in Seq(T) : r = <<x>> \o q
  <2>1. <<x>> \in Seq(T)
    OBVIOUS
  <2> QED
    BY <2>1, ConcatProperties
<1>5. Len(r) = t + 1 /\ r[1] = x /\ \A i \in 1..t : r[i + 1] = q[i]
  <2>1. <<x>> \in Seq(T) /\ Len(<<x>>) = 1 /\ <<x>>[1] = x
    OBVIOUS
  <2>2. /\ Len(<<x>> \o q) = 1 + t
        /\ \A i \in 1..(1 + t) : (<<x>> \o q)[i] = IF i <= 1 THEN <<x>>[i] ELSE q[i - 1]
    BY <1>1, <2>1, ConcatProperties
  <2>3. \A i \in 1..(t + 1) : r[i] = IF i <= 1 THEN <<x>>[i] ELSE q[i - 1]
    BY <1>4, <2>2
  <2> QED
    BY <1>4, <2>1, <2>2, <2>3
<1>6. PICK f : f = [i \in 1..(t + 1) |-> IF i = 1 THEN x ELSE x \o g[i - 1]]
  OBVIOUS
<1>7. f[1] = x /\ \A k \in 1..t : f[k + 1] = x \o g[k]
  <2>1. \A k \in 1..(t + 1) : f[k] = IF k = 1 THEN x ELSE x \o g[k - 1]
    BY <1>6
  <2>2. ASSUME NEW k \in 1..t  PROVE f[k + 1] = x \o g[k]
    <3>1. k + 1 \in 1..(t + 1) /\ k + 1 # 1 /\ (k + 1) - 1 = k
      OBVIOUS
    <3> QED
      BY ONLY <2>1, <3>1
  <2>3. 1 \in 1..(t + 1)
    OBVIOUS
  <2> QED
    BY ONLY <2>1, <2>2, <2>3
<1>8. Flattened(f, r, t + 1)
  <2> SUFFICES ASSUME NEW i \in 1..(t + 1)
               PROVE  f[i] = IF i = 1 THEN r[i] ELSE f[i - 1] \o r[i]
    BY DEF Flattened
  <2>1. CASE i = 1
    BY <1>5, <1>6, <2>1
  <2>2. CASE i = 2
    <3>1. r[2] = q[1]
      <4>1. 1 \in 1..t /\ r[1 + 1] = q[1]
        BY <1>5
      <4> QED
        BY <4>1
    <3>2. g[1] = q[1]
      <4>1. 1 \in 1..t
        OBVIOUS
      <4>2. \A k \in 1..t : g[k] = IF k = 1 THEN q[k] ELSE g[k - 1] \o q[k]
        BY <1>2 DEF Flattened
      <4> QED
        BY ONLY <4>1, <4>2
    <3>3. f[1] = x
      BY <1>7
    <3>4. f[2] = x \o g[1]
      <4>1. f[1 + 1] = x \o g[1]
        <5>1. 1 \in 1..t
          OBVIOUS
        <5> QED
          BY ONLY <1>7, <5>1
      <4> QED
        BY <4>1
    <3>5. f[2] = f[1] \o r[2]
      BY ONLY <3>1, <3>2, <3>3, <3>4
    <3>6. i - 1 = 1 /\ i # 1
      BY <2>2
    <3> QED
      BY ONLY <2>2, <3>5, <3>6
  <2>3. CASE i > 2
    <3>1. PICK j \in 2..t : i = j + 1
      <4>1. i - 1 \in 2..t /\ i = (i - 1) + 1
        BY <2>3
      <4> QED
        BY <4>1
    <3>2. r[j + 1] = q[j]
      BY <1>5
    <3>3. g[j] = g[j - 1] \o q[j]
      <4>1. j \in 1..t /\ j # 1
        OBVIOUS
      <4>2. \A k \in 1..t : g[k] = IF k = 1 THEN q[k] ELSE g[k - 1] \o q[k]
        BY <1>2 DEF Flattened
      <4> QED
        BY ONLY <4>1, <4>2
    <3>4. f[j + 1] = x \o g[j] /\ f[j] = x \o g[j - 1]
      <4>1. j \in 1..t /\ j - 1 \in 1..t /\ (j - 1) + 1 = j
        OBVIOUS
      <4> QED
        BY ONLY <1>7, <4>1
    <3>5. q[j] \in T /\ g[j - 1] \in T
      BY <1>2, <1>3
    <3>6. \A b, a \in T : x \o (b \o a) = (x \o b) \o a
      OBVIOUS
    <3>7. f[j + 1] = f[j] \o r[j + 1]
      <4>1. x \o (g[j - 1] \o q[j]) = (x \o g[j - 1]) \o q[j]
        BY ONLY <3>5, <3>6
      <4> QED
        BY ONLY <3>2, <3>3, <3>4, <4>1
    <3>8. i # 1 /\ i - 1 = j
      BY <3>1
    <3> QED
      BY <3>1, <3>7, <3>8
  <2> QED
    BY <2>1, <2>2, <2>3
<1>9. f[t + 1] = x \o g[t]
  BY <1>7
<1>10. FlattenSeq(q) = g[t]
  BY <1>1, <1>2, FlattenIs
<1>11. FlattenSeq(r) = f[t + 1]
  <2>1. Len(r) # 0 /\ Len(r) = t + 1
    BY <1>5
  <2> QED
    BY <1>8, <2>1, FlattenIs
<1> QED
  BY <1>4, <1>9, <1>10, <1>11

-----------------------------------------------------------------------------
(* The names and rows of registers.                                        *)

LEMMA Joins ==
    ASSUME NEW S, NEW s \in Seq(S), NEW n \in S
    PROVE  /\ s \o <<n>> = Append(s, n)
           /\ Append(s, n) \in Seq(S)
           /\ \A r \in Seq(S) : <<n>> \o r \in Seq(S) /\ s \o (<<n>> \o r) = Append(s, n) \o r
           /\ \A r \in Seq(S) : r \o Append(s, n) = Append(r \o s, n)
<1>1. s \o <<n>> = Append(s, n) /\ Append(s, n) \in Seq(S)
  BY AppendIsConcat, AppendProperties
<1>2. PICK u \in Seq(S) : u = <<n>>
  <2>1. <<n>> \in Seq(S)
    OBVIOUS
  <2> QED
    BY <2>1
<1>3. ASSUME NEW r \in Seq(S)
      PROVE  /\ u \o r \in Seq(S)
             /\ s \o (u \o r) = (s \o u) \o r
             /\ r \o (s \o u) = (r \o s) \o u
  <2>1. u \o r \in Seq(S)
    BY ConcatProperties
  <2>2. s \o (u \o r) = (s \o u) \o r
    BY ConcatAssociative, SMTT(40)
  <2>3. r \o (s \o u) = (r \o s) \o u
    BY ConcatAssociative, SMTT(40)
  <2> QED
    BY <2>1, <2>2, <2>3
<1>4. ASSUME NEW r \in Seq(S)
      PROVE  (r \o s) \o u = Append(r \o s, n)
  <2>1. PICK w \in Seq(S) : w = r \o s
    BY ConcatProperties
  <2>2. w \o <<n>> = Append(w, n)
    BY AppendIsConcat
  <2> QED
    BY <1>2, <2>1, <2>2
<1> QED
  BY <1>1, <1>2, <1>3, <1>4

\* Names are put together of words.
Texts(T) == /\ \A a, b \in T : a \o b \in T
            /\ \A a, b, c \in T : a \o (b \o c) = (a \o b) \o c
            /\ Top \in T /\ Names \subseteq T

LEMMA TextsExist ==
    \E T : Texts(T)
<1>1. PICK W : W = {"top"} \cup UNION {Range(n) : n \in Names}
  OBVIOUS
<1>2. ASSUME NEW a \in Seq(W), NEW b \in Seq(W)
      PROVE  a \o b \in Seq(W)
  BY ConcatProperties
<1>3. ASSUME NEW a \in Seq(W), NEW b \in Seq(W), NEW c \in Seq(W)
      PROVE  a \o (b \o c) = (a \o b) \o c
  BY ConcatAssociative
<1>4. Top \in Seq(W)
  <2>1. "top" \in W
    BY <1>1
  <2> QED
    BY <2>1 DEF Top
<1>5. ASSUME NEW n \in Names
      PROVE  n \in Seq(W)
  <2>1. PICK R : R = Range(n)
    OBVIOUS
  <2>2. n \in Seq(R)
    BY <2>1, NamesAssumption
  <2>3. R \subseteq W
    BY <1>1, <2>1
  <2> QED
    BY <2>2, <2>3, SeqMonotonic
<1>6. PICK T : T = Seq(W)
  OBVIOUS
<1>7. Top \in T /\ Names \subseteq T
  BY <1>4, <1>5, <1>6
<1>8. /\ \A a, b \in T : a \o b \in T
      /\ \A a, b, c \in T : a \o (b \o c) = (a \o b) \o c
  BY <1>2, <1>3, <1>6
<1>9. Texts(T)
  BY <1>7, <1>8 DEF Texts
<1> QED
  BY <1>9

LEMMA RowsAreRows ==
    ASSUME ClassesFit, AttributesFit, NEW k \in 1..Len(classes)
    PROVE  \A r \in Rows[k] : r.path \in Seq(Names) /\ r = [path |-> r.path, type |-> r.type]
<1> DEFINE Good(j) == \A r \in Rows[j] : r.path \in Seq(Names) /\ r = [path |-> r.path, type |-> r.type]
           Bad == {j \in 1..Len(classes) : ~Good(j)}
<1>1. SUFFICES ASSUME Bad # {}
               PROVE  FALSE
  OBVIOUS
<1>2. PICK j \in Bad : \A i \in Bad : j <= i
  <2>1. Bad \in SUBSET Nat
    BY DEF ClassesFit, Sequence
  <2> HIDE DEF Bad
  <2> QED
    BY <1>1, <2>1, Least
<1>3. j \in 1..Len(classes) /\ Len(classes) \in Nat
  BY DEF ClassesFit, Sequence
<1>4. \A i \in 1..(j - 1) : Good(i)
  <2> SUFFICES ASSUME NEW i \in 1..(j - 1)
               PROVE  Good(i)
    OBVIOUS
  <2>1. i \in 1..Len(classes) /\ ~(j <= i)
    BY <1>3
  <2>2. i \notin Bad
    <3> HIDE DEF Bad
    <3> QED
      BY <1>2, <2>1
  <2> QED
    BY <2>1, <2>2
<1>5. Rows[j] = RowsOf(Rows, j)
  BY <1>3, RowsEquation
<1>6. /\ DOMAIN classes[j].registers \subseteq Names
      /\ DOMAIN classes[j].submodules \subseteq Names
      /\ \A n \in DOMAIN classes[j].submodules : classes[j].submodules[n] \in 1..(j - 1)
  BY <1>3 DEF ClassesFit, AttributesFit
<1>7. ASSUME NEW r \in OwnRows(j)
      PROVE  r.path \in Seq(Names) /\ r = [path |-> r.path, type |-> r.type]
  <2>1. PICK n \in DOMAIN classes[j].registers :
            r = [path |-> <<n>>, type |-> classes[j].registers[n]]
    BY DEF OwnRows
  <2> QED
    BY <1>6, <2>1
<1>8. ASSUME NEW n \in DOMAIN classes[j].submodules,
             NEW r \in Below(n, Rows[classes[j].submodules[n]])
      PROVE  r.path \in Seq(Names) /\ r = [path |-> r.path, type |-> r.type]
  <2>1. PICK s \in Rows[classes[j].submodules[n]] : r = [path |-> <<n>> \o s.path, type |-> s.type]
    BY DEF Below
  <2>2. s.path \in Seq(Names) /\ n \in Names
    BY <1>4, <1>6
  <2>3. PICK path \in Seq(Names) : path = <<n>> \o s.path
    BY <2>2, Joins
  <2> QED
    BY <2>1, <2>3
<1>9. Good(j)
  BY <1>5, <1>7, <1>8 DEF RowsOf
<1> QED
  BY <1>9

\* What a class has a row for, the top module's class has one for below each
\* object of the class.
LEMMA RowsReach ==
    ASSUME PlacesInv, NEW o \in 1..Len(objects), Initialised(o)
    PROVE  \A r \in Rows[objects[o].class] :
               [path |-> objects[o].path \o r.path, type |-> r.type] \in Rows[objects[1].class]
<1> DEFINE Good(p) == \A r \in Rows[objects[p].class] :
                          [path |-> objects[p].path \o r.path, type |-> r.type] \in Rows[objects[1].class]
           Bad == {p \in 1..Len(objects) : Initialised(p) /\ ~Good(p)}
<1>1. SUFFICES ASSUME Bad # {}
               PROVE  FALSE
  OBVIOUS
<1>2. PICK m \in Nat : m = Len(objects)
  BY Domains DEF PlacesInv, TreeInv
<1>3. PICK p \in Bad : \A q \in Bad : p <= q
  <2>1. Bad \in SUBSET Nat
    <3>1. Bad \subseteq 1..m
      BY <1>2
    <3> HIDE DEF Bad
    <3> QED
      BY <3>1
  <2> HIDE DEF Bad
  <2> QED
    BY <1>1, <2>1, Least
<1>4. p \in 1..m /\ Initialised(p) /\ ~Good(p)
  BY <1>2
<1>5. ClassesFit /\ AttributesFit /\ PlacesFit /\ ObjectFits(p)
      /\ Placed(p, objects[p].parent, objects[p].name)
  BY <1>2, <1>4 DEF PlacesInv, TreeInv, ObjectPlaced
<1>6. PICK k \in 1..Len(classes) : k = objects[p].class
  BY <1>5 DEF ObjectFits
<1>7. \A r \in Rows[k] : r.path \in Seq(Names) /\ r = [path |-> r.path, type |-> r.type]
  BY <1>5, <1>6, RowsAreRows
<1>8. CASE p = 1 /\ objects[p].path = <<>>
  <2>1. ASSUME NEW r \in Rows[k]
        PROVE  <<>> \o r.path = r.path
    <3>1. PICK s \in Seq(Names) : s = r.path
      BY <1>7
    <3>2. <<>> \o s = s
      BY ConcatEmptySeq
    <3> QED
      BY <3>1, <3>2
  <2> QED
    BY <1>4, <1>6, <1>7, <1>8, <2>1
<1>9. CASE /\ objects[p].parent \in 1..(p - 1) /\ Initialised(objects[p].parent)
           /\ objects[p].name \in Sub(objects[p].parent)
           /\ objects[p].path = Append(objects[objects[p].parent].path, objects[p].name)
           /\ objects[p].class = ClassOf(objects[p].parent).submodules[objects[p].name]
  <2>1. PICK q \in 1..(p - 1) : q = objects[p].parent
    BY <1>9
  <2>2. PICK n : n = objects[p].name
    OBVIOUS
  <2>3. q \in 1..m /\ ~(p <= q)
    BY <1>4
  <2>4. Good(q)
    <3>1. q \notin Bad
      <4> HIDE DEF Bad
      <4> QED
        BY <1>3, <2>3
    <3>2. Initialised(q)
      BY <1>9, <2>1
    <3> QED
      BY <1>2, <2>3, <3>1, <3>2
  <2>5. PICK l \in 1..Len(classes) : l = objects[q].class
    BY <1>2, <2>3 DEF PlacesInv, TreeInv, ObjectFits
  <2>6. n \in DOMAIN classes[l].submodules /\ k = classes[l].submodules[n] /\ n \in Names
    BY <1>5, <1>6, <1>9, <2>1, <2>2, <2>5 DEF Sub, ClassOf, ClassesFit
  <2>7. PICK path \in Seq(Names) : path = objects[q].path
    BY <1>2, <1>5, <2>3, Domains DEF ObjectRecords
  <2>8. ASSUME NEW r \in Rows[k]
        PROVE  [path |-> objects[p].path \o r.path, type |-> r.type] \in Rows[objects[1].class]
    <3>1. PICK s : s = [path |-> <<n>> \o r.path, type |-> r.type]
      OBVIOUS
    <3>2. s \in Below(n, Rows[classes[l].submodules[n]])
      BY <2>6, <3>1 DEF Below
    <3>3. s \in Rows[l]
      <4>1. Rows[l] = RowsOf(Rows, l)
        BY <1>5, RowsEquation
      <4> QED
        BY <2>6, <3>2, <4>1 DEF RowsOf
    <3>4. [path |-> path \o s.path, type |-> s.type] \in Rows[objects[1].class]
      BY <2>4, <2>5, <2>7, <3>3
    <3>5. PICK t \in Seq(Names) : t = r.path
      BY <1>7
    <3>6. path \o (<<n>> \o t) = Append(path, n) \o t
      <4>1. n \in Names /\ path \in Seq(Names) /\ t \in Seq(Names)
        BY <2>6
      <4> QED
        BY ONLY <4>1, Joins, SMTT(40)
    <3>7. s.path = <<n>> \o t /\ s.type = r.type
      BY <3>1, <3>5
    <3> QED
      BY <1>9, <2>1, <2>2, <2>7, <3>4, <3>5, <3>6, <3>7
  <2> QED
    BY <1>4, <1>6, <2>8
<1> QED
  BY <1>5, <1>8, <1>9 DEF Placed

\* The parents of an object are those on its path.
LEMMA ParentsReach ==
    ASSUME PlacesInv, NEW o \in 1..Len(objects), Initialised(o)
    PROVE  Parents[o] = <<Top>> \o objects[o].path
<1> DEFINE Good(p) == Parents[p] = <<Top>> \o objects[p].path
           Bad == {p \in 1..Len(objects) : Initialised(p) /\ ~Good(p)}
<1>1. SUFFICES ASSUME Bad # {}
               PROVE  FALSE
  OBVIOUS
<1>2. PICK m \in Nat : m = Len(objects)
  BY Domains DEF PlacesInv, TreeInv
<1>3. PICK p \in Bad : \A q \in Bad : p <= q
  <2>1. Bad \in SUBSET Nat
    <3>1. Bad \subseteq 1..m
      BY <1>2
    <3> HIDE DEF Bad
    <3> QED
      BY <3>1
  <2> HIDE DEF Bad
  <2> QED
    BY <1>1, <2>1, Least
<1>4. p \in 1..m /\ Initialised(p) /\ ~Good(p)
  BY <1>2
<1>5. PlacesFit /\ ClassesFit /\ Placed(p, objects[p].parent, objects[p].name)
      /\ \A q \in 1..m : ObjectFits(q)
  BY <1>2, <1>4 DEF PlacesInv, TreeInv, ObjectPlaced
<1>6. /\ Parents[0] = <<>>
      /\ Parents[p] = Append(Parents[objects[p].parent], objects[p].name)
  <2>1. 0 \in 0..m /\ p \in 0..m /\ p # 0
    BY <1>4
  <2>2. Parents[0] = ParentsOf(Parents, 0) /\ Parents[p] = ParentsOf(Parents, p)
    BY <1>2, <1>5, <2>1, ParentsEquation
  <2> QED
    BY <2>1, <2>2 DEF ParentsOf
<1>7. CASE objects[p].parent = 0 /\ objects[p].name = Top /\ objects[p].path = <<>>
  <2>1. Parents[p] = <<Top>>
    BY <1>6, <1>7
  <2>2. <<Top>> \o <<>> = <<Top>>
    OBVIOUS
  <2> QED
    BY <1>4, <1>7, <2>1, <2>2
<1>8. CASE /\ objects[p].parent \in 1..(p - 1) /\ Initialised(objects[p].parent)
           /\ objects[p].name \in Sub(objects[p].parent)
           /\ objects[p].path = Append(objects[objects[p].parent].path, objects[p].name)
  <2>1. PICK q \in 1..(p - 1) : q = objects[p].parent
    BY <1>8
  <2>2. PICK n : n = objects[p].name
    OBVIOUS
  <2>3. q \in 1..m /\ ~(p <= q)
    BY <1>4
  <2>4. Good(q)
    <3>1. q \notin Bad
      <4> HIDE DEF Bad
      <4> QED
        BY <1>3, <2>3
    <3>2. Initialised(q)
      BY <1>8, <2>1
    <3> QED
      BY <1>2, <2>3, <3>1, <3>2
  <2>5. n \in Names
    BY <1>5, <1>8, <2>1, <2>2, <2>3 DEF Sub, ClassOf, ClassesFit, ObjectFits
  <2>6. PICK path \in Seq(Names \cup {Top}) : path = objects[q].path
    <3>1. objects[q].path \in Seq(Names)
      BY <1>2, <1>5, <2>3, Domains DEF ObjectRecords
    <3>2. Seq(Names) \subseteq Seq(Names \cup {Top})
      BY SeqMonotonic
    <3> QED
      BY <3>1, <3>2
  <2>7. <<Top>> \o Append(path, n) = Append(<<Top>> \o path, n)
    <3>1. PICK S : S = Names \cup {Top}
      OBVIOUS
    <3>2. n \in S /\ <<Top>> \in Seq(S) /\ path \in Seq(S)
      <4>1. n \in S /\ Top \in S /\ path \in Seq(S)
        BY <2>5, <3>1
      <4> QED
        BY <4>1
    <3> QED
      BY ONLY <3>2, Joins, SMTT(40)
  <2>8. Parents[q] = <<Top>> \o path
    BY <2>4, <2>6
  <2> QED
    BY <1>4, <1>6, <1>8, <2>1, <2>2, <2>6, <2>7, <2>8
<1> QED
  BY <1>5, <1>7, <1>8 DEF Placed

LEMMA PlacesReach ==
    PlacesInv => AccessReachesOwn
<1> SUFFICES ASSUME PlacesInv, objects # <<>>,
                    NEW o \in {p \in DOMAIN objects : objects[p].name # NoName},
                    NEW n \in DOMAIN ClassOf(o).attributes
             PROVE  /\ [path |-> Append(objects[o].path, n), type |-> ClassOf(o).attributes[n]]
                          \in Rows[objects[1].class]
                    /\ FullName(o, n) = RowName([path |-> Append(objects[o].path, n),
                                                 type |-> ClassOf(o).attributes[n]])
  BY DEF AccessReachesOwn
<1>1. o \in 1..Len(objects) /\ Initialised(o)
  BY Domains DEF PlacesInv, TreeInv, Initialised
<1>2. PICK k \in 1..Len(classes) : k = objects[o].class
  BY <1>1 DEF PlacesInv, TreeInv, ObjectFits
<1>3. /\ n \in DOMAIN classes[k].registers /\ n \in Names
      /\ classes[k].registers[n] = ClassOf(o).attributes[n]
  BY <1>2 DEF PlacesInv, AttributesFit, ClassOf
<1>4. PICK path \in Seq(Names) : path = objects[o].path
  BY <1>1, Domains DEF PlacesInv, TreeInv, ObjectRecords
<1>5. PICK whole \in Seq(Names) : whole = Append(path, n) /\ path \o <<n>> = whole /\ Len(whole) # 0
  <2>1. path \o <<n>> = Append(path, n) /\ Append(path, n) \in Seq(Names)
    BY <1>3, Joins
  <2>2. Len(Append(path, n)) = Len(path) + 1 /\ Len(path) \in Nat
    BY <1>3, AppendProperties, LenProperties
  <2>3. Len(path) + 1 # 0
    BY <2>2
  <2>4. PICK whole : whole = Append(path, n)
    OBVIOUS
  <2>5. whole \in Seq(Names) /\ path \o <<n>> = whole /\ Len(whole) # 0
    BY <2>1, <2>2, <2>3, <2>4
  <2> QED
    BY <2>4, <2>5
<1>6. PICK type : type = ClassOf(o).attributes[n]
  OBVIOUS
<1>7. [path |-> whole, type |-> type] \in Rows[objects[1].class]
  <2>1. PICK r : r = [path |-> <<n>>, type |-> type]
    OBVIOUS
  <2>2. r \in Rows[k]
    <3>1. Rows[k] = RowsOf(Rows, k)
      BY RowsEquation DEF PlacesInv, TreeInv
    <3> QED
      BY <1>3, <1>6, <2>1, <3>1 DEF RowsOf, OwnRows
  <2>3. [path |-> path \o r.path, type |-> r.type] \in Rows[objects[1].class]
    BY <1>1, <1>2, <1>4, <2>2, RowsReach
  <2>4. r.path = <<n>> /\ r.type = type
    BY <2>1
  <2> QED
    BY <1>5, <2>3, <2>4
<1>8. FullName(o, n) = Top \o FlattenSeq(whole)
  <2>1. FullName(o, n) = FlattenSeq(Append(<<Top>> \o path, n))
    BY <1>1, <1>4, ParentsReach DEF FullName
  <2>2. Append(<<Top>> \o path, n) = <<Top>> \o whole
    <3>1. /\ <<Top>> \in Seq(Names \cup {Top}) /\ path \in Seq(Names \cup {Top})
          /\ n \in Names \cup {Top}
      BY <1>3, SeqMonotonic
    <3>2. <<Top>> \o Append(path, n) = Append(<<Top>> \o path, n)
      BY ONLY <3>1, Joins
    <3> QED
      BY <1>5, <3>2
  <2>3. PICK T : Texts(T)
    BY TextsExist
  <2>4. whole \in Seq(T)
    BY <2>3, SeqMonotonic DEF Texts
  <2>5. FlattenSeq(<<Top>> \o whole) = Top \o FlattenSeq(whole)
    BY <1>5, <2>3, <2>4, FlattenFirst DEF Texts
  <2> QED
    BY <2>1, <2>2, <2>5
<1>9. RowName([path |-> whole, type |-> type]) = Top \o FlattenSeq(whole)
  BY DEF RowName
<1> QED
  BY <1>4, <1>5, <1>6, <1>7, <1>8, <1>9

(* Whatever the classes inherit, whenever an object has a name, also while *)
(* constructors are running, each of its registers has the name of its own *)
(* row in the gateware's list, and the type that the gateware has          *)
(* (module.py:45-53, 98, 108-138, register.py:112-114, migen.py:37-70).    *)
THEOREM AccessFindsOwn ==
    TreeSpec => []AccessReachesOwn
  BY PlacesInvariance, PlacesReach, PTL
=============================================================================
