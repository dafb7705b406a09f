----------------------------- MODULE DaqProofs -----------------------------
(***************************************************************************)
(* Proofs about Daq, for every period register but zero, every factor,     *)
(* width and length, signed or not: an acquisition takes its length, and   *)
(* every stored value is the reduction of what has passed of its bin, at   *)
(* its place, in an array register and in RAM.                             *)
(*                                                                         *)
(* The length of a bin and the countdown to the next pulse add up (Paced), *)
(* the sums are those of the bin so far (Reduced), and each register of    *)
(* the pipeline holds what the bin was some cycles ago, or, if it had not  *)
(* begun then, the bin before it (Piped).  What a recursive function       *)
(* computes is proved with the least argument for which it would be wrong. *)
(***************************************************************************)
EXTENDS Daq, FiniteSetTheorems, SequenceTheorems, TLAPS

\* No counter of a bin wraps, as far as the modes depend on it.
BinsFit ==
    /\ Modes \cap {0, 6} # {} => Period + 2 <= SampleSpan
    /\ Modes \cap {4, 6} # {} => Period + 2 <= Lowest + DataSpan
    /\ 4 \in Modes => Period + 2 <= EdgeSpan

-----------------------------------------------------------------------------
(* The inductive invariant.                                                *)

\* The bin grows while the countdown to the next pulse runs.
Paced ==
    /\ bin \in Seq(Levels) /\ before \in Seq(Levels)
    /\ bin = <<>> => before = <<>>
    /\ out => busy /\ wait \in {Period, Period + 1}
    /\ out /\ bin # <<>> => Len(bin) \in {Period + 1, Period + 2}
    /\ busy /\ ~out => Len(bin) >= 1 /\ Len(bin) + wait \in {Period, Period + 1}

Counted == busy => taken >= 1 /\ taken + count = Pulses(asked) + 1

TimeInv == TypeOK /\ Paced /\ Counted

\* A sum of n inputs.
Fits(s, n) == n * Lowest <= s /\ s <= n * (Lowest + DataSpan - 1)

Reduced ==
    bin # <<>> =>
        /\ below <=> bin[Len(bin)] < Threshold
        /\ mode = 0 => sum = Total(bin) /\ Fits(sum, Len(bin))
        /\ mode = 1 => max \in ToSet(bin) /\ \A in \in ToSet(bin) : max >= in
        /\ mode = 2 => min \in ToSet(bin) /\ \A in \in ToSet(bin) : min <= in
        /\ mode = 4 => edges = Edges(bin) /\ edges < Len(bin)
        /\ mode = 6 => samples = Len(bin) - 1

\* Each register holds what the one before it held a cycle ago.
Piped ==
    /\ mode = 7 => value = 0
    /\ mode = 0 => oldsum = Total(Ago(bin, before, 1)) \/ Ago(bin, before, 1) = <<>>
    /\ mode = 0 => average = Averaged(Total(Ago(bin, before, 2))) \/ Ago(bin, before, 2) = <<>>
    /\ value = Summary(mode, Passed(bin, before)) \/ Passed(bin, before) = <<>>

\* An address and the data are offered together, one cycle after the pulse.
OfferedTogether ==
    /\ stalls \in Nat
    /\ stalls = 0 => addresses = <<>> /\ datas = <<>>
    /\ valid => /\ port # NoPort
                /\ busy
                /\ address = RamAddress(Place(taken))
                /\ value = Due(offered, value)

DataInv == Reduced /\ Piped /\ OfferedTogether /\ RamHoldsBins

-----------------------------------------------------------------------------
(* The sum of a sequence.                                                  *)

LEMMA Least ==
    ASSUME NEW T \in SUBSET Nat, T # {}
    PROVE  \E m \in T : \A k \in T : m <= k
<1>1. PICK m \in T : \A k \in T : ~(<<k, m>> \in OpToRel(<, Nat))
  BY NatLessThanWellFounded, WFMin
<1>2. \A k \in T : ~(k < m)
  BY <1>1 DEF OpToRel
<1> QED
  BY <1>2

\* The sums of the first elements, up to n of them.
Sums(f, s, n) == \A i \in 0..n : f[i] = IF i = 0 THEN 0 ELSE f[i - 1] + s[i]

LEMMA SumsExist ==
    ASSUME NEW s \in Seq(Int)
    PROVE  \E f \in [0..Len(s) -> Int] : Sums(f, s, Len(s))
<1> DEFINE Bad == {n \in 0..Len(s) : ~\E f \in [0..n -> Int] : Sums(f, s, n)}
<1>1. SUFFICES ASSUME Bad # {}
               PROVE  FALSE
  BY LenProperties
<1>0. Bad \in SUBSET Nat
  BY LenProperties
<1>2. PICK n \in Bad : \A k \in Bad : n <= k
  <2> HIDE DEF Bad
  <2> QED
    BY <1>0, <1>1, Least
<1>3. n \in 0..Len(s) /\ n \in Nat
  BY LenProperties
<1>4. n # 0
  <2>1. Sums([i \in 0..0 |-> 0], s, 0)
    BY DEF Sums
  <2>2. [i \in 0..0 |-> 0] \in [0..0 -> Int]
    OBVIOUS
  <2>3. ~(0 \in Bad)
    BY <2>1, <2>2
  <2> HIDE DEF Bad
  <2> QED
    BY <1>2, <2>3
<1>5. n - 1 \in 0..Len(s) /\ ~(n - 1 \in Bad)
  <2>1. n - 1 \in 0..Len(s)
    BY <1>3, <1>4, LenProperties
  <2>2. ~(n <= n - 1)
    BY <1>3
  <2> HIDE DEF Bad
  <2> QED
    BY <1>2, <2>1, <2>2
<1>6. PICK f \in [0..(n - 1) -> Int] : Sums(f, s, n - 1)
  BY <1>5
<1>7. s[n] \in Int
  BY <1>3, <1>4, LenProperties
<1> DEFINE g == [i \in 0..n |-> IF i = n THEN f[n - 1] + s[n] ELSE f[i]]
<1>8. g \in [0..n -> Int]
  BY <1>3, <1>4, <1>7
<1>9. Sums(g, s, n)
  <2>1. ASSUME NEW i \in 0..n, i # n
        PROVE  g[i] = IF i = 0 THEN 0 ELSE g[i - 1] + s[i]
    BY <1>3, <1>6, <2>1 DEF Sums
  <2>2. g[n] = g[n - 1] + s[n]
    BY <1>3, <1>4
  <2> QED
    BY <2>1, <2>2, <1>4 DEF Sums
<1> QED
  BY <1>8, <1>9

LEMMA SumsAgree ==
    ASSUME NEW s, NEW n \in Nat, NEW f, NEW g, Sums(f, s, n), Sums(g, s, n)
    PROVE  \A i \in 0..n : f[i] = g[i]
<1> DEFINE Bad == {i \in 0..n : f[i] # g[i]}
<1>1. SUFFICES ASSUME Bad # {}
               PROVE  FALSE
  OBVIOUS
<1>0. Bad \in SUBSET Nat
  OBVIOUS
<1>2. PICK m \in Bad : \A k \in Bad : m <= k
  <2> HIDE DEF Bad
  <2> QED
    BY <1>0, <1>1, Least
<1>3. m # 0
  BY DEF Sums
<1>4. m - 1 \in 0..n /\ ~(m - 1 \in Bad)
  BY <1>2, <1>3
<1>5. f[m - 1] = g[m - 1]
  BY <1>4
<1> QED
  BY <1>3, <1>5 DEF Sums

LEMMA TotalIsSum ==
    ASSUME NEW s \in Seq(Int), NEW f \in [0..Len(s) -> Int], Sums(f, s, Len(s))
    PROVE  Total(s) = f[Len(s)]
<1>1. Len(s) \in Nat
  BY LenProperties
<1>2. f = [n \in 0..Len(s) |-> IF n = 0 THEN 0 ELSE f[n - 1] + s[n]]
  BY <1>1 DEF Sums
<1> DEFINE t == CHOOSE t : t = [n \in 0..Len(s) |-> IF n = 0 THEN 0 ELSE t[n - 1] + s[n]]
<1>3. t = [n \in 0..Len(s) |-> IF n = 0 THEN 0 ELSE t[n - 1] + s[n]]
  BY <1>2
<1>4. Total(s) = t[Len(s)]
  BY DEF Total
<1> HIDE DEF t
<1>5. Sums(t, s, Len(s))
  BY <1>3 DEF Sums
<1> QED
  BY <1>1, <1>4, <1>5, SumsAgree

LEMMA TotalAppend ==
    ASSUME NEW s \in Seq(Int), NEW x \in Int
    PROVE  /\ Total(s) \in Int
           /\ Total(Append(s, x)) = Total(s) + x
<1>1. PICK f \in [0..Len(s) -> Int] : Sums(f, s, Len(s))
  BY SumsExist
<1>2. Len(s) \in Nat
  BY LenProperties
<1>3. Total(s) = f[Len(s)] /\ f[Len(s)] \in Int
  BY <1>1, <1>2, TotalIsSum
<1> DEFINE r == Append(s, x)
           g == [i \in 0..(Len(s) + 1) |-> IF i > Len(s) THEN f[Len(s)] + x ELSE f[i]]
<1>4. /\ r \in Seq(Int) /\ Len(r) = Len(s) + 1
      /\ \A i \in 1..Len(s) : r[i] = s[i]
      /\ r[Len(s) + 1] = x
  BY AppendProperties
<1>5. g \in [0..Len(r) -> Int]
  BY <1>2, <1>3, <1>4
<1>6. Sums(g, r, Len(r))
  <2>1. ASSUME NEW i \in 0..Len(s)
        PROVE  g[i] = IF i = 0 THEN 0 ELSE g[i - 1] + r[i]
    BY <1>1, <1>2, <1>4 DEF Sums
  <2>2. g[Len(s) + 1] = g[Len(s)] + r[Len(s) + 1]
    BY <1>2, <1>4
  <2>3. \A i \in 0..Len(r) : i \in 0..Len(s) \/ i = Len(s) + 1
    BY <1>2, <1>4
  <2>4. Len(s) + 1 # 0 /\ Len(s) + 1 - 1 = Len(s)
    BY <1>2
  <2> HIDE DEF g, r
  <2> QED
    BY <2>1, <2>2, <2>3, <2>4 DEF Sums
<1>7. Total(r) = g[Len(s) + 1]
  BY <1>4, <1>5, <1>6, TotalIsSum
<1> QED
  BY <1>2, <1>3, <1>7

LEMMA TotalOfOne ==
    ASSUME NEW x \in Int
    PROVE  Total(<<x>>) = x
<1>1. <<>> \in Seq(Int) /\ Len(<<>>) = 0
  BY EmptySeq
<1>2. Sums([i \in 0..0 |-> 0], <<>>, 0)
  BY DEF Sums
<1>3. Total(<<>>) = 0
  BY <1>1, <1>2, TotalIsSum
<1>4. Append(<<>>, x) = <<x>>
  OBVIOUS
<1>5. Total(Append(<<>>, x)) = 0 + x
  BY <1>1, <1>3, TotalAppend
<1> QED
  BY <1>4, <1>5

-----------------------------------------------------------------------------
(* The other reductions of a sequence.                                     *)

LEMMA LevelsFit ==
    /\ Levels \subseteq Int /\ Inputs \subseteq Levels /\ 0 \in Levels
    /\ Lowest \in Int /\ Lowest <= 0 /\ Lowest + DataSpan \in Nat \ {0}
    /\ DataSpan \in Nat \ {0} /\ SampleSpan \in Nat \ {0}
    /\ CountSpan \in Nat \ {0} /\ Depth \in Nat \ {0} /\ AreaSpan \in Nat \ {0}
    /\ Threshold \in Int /\ Offset \in Levels /\ Factor \in Nat
    /\ Period \in Nat \ {0}
    /\ EdgeSpan \in Nat \ {0}
<1>1. EdgeSpan \in Nat \ {0}
  BY SMT DEF EdgeSpan
<1>2. DataSpan \in Nat \ {0} /\ DataSigned \in BOOLEAN
  BY SpansAssumption, SignAssumption
<1>3. Lowest = 0 \/ Lowest = -(DataSpan \div 2)
  BY DEF Lowest
<1>4. Lowest \in Int /\ Lowest <= 0 /\ Lowest + DataSpan \in Nat \ {0}
  BY <1>2, <1>3
<1>5. Levels \subseteq Int /\ 0 \in Levels
  BY <1>2, <1>4 DEF Levels
<1>6. Threshold \in Int /\ Offset \in Levels
  BY <1>5, LevelsAssumption
<1> QED
  BY <1>1, <1>2, <1>4, <1>5, <1>6, SpansAssumption, InputsAssumption, PeriodAssumption, AreaAssumption,
     FactorAssumption

LEMMA OneInput ==
    ASSUME NEW in \in Levels
    PROVE  /\ <<in>> \in Seq(Levels) /\ Len(<<in>>) = 1 /\ <<in>>[1] = in
           /\ <<in>> # <<>>
           /\ ToSet(<<in>>) = {in}
           /\ Edges(<<in>>) = 0
<1>1. <<in>> \in Seq(Levels) /\ Len(<<in>>) = 1 /\ <<in>>[1] = in /\ <<in>> # <<>>
  OBVIOUS
<1>2. ToSet(<<in>>) = {in}
  BY DEF ToSet
<1>3. {i \in 2..1 : <<in>>[i - 1] < Threshold /\ <<in>>[i] > Threshold} = {}
  OBVIOUS
<1>4. Edges(<<in>>) = 0
  BY <1>1, <1>3, FS_EmptySet DEF Edges
<1> QED
  BY <1>1, <1>2, <1>4

LEMMA ToSetAppend ==
    ASSUME NEW s \in Seq(Levels), NEW in \in Levels
    PROVE  /\ ToSet(s) \subseteq Levels
           /\ ToSet(Append(s, in)) = ToSet(s) \cup {in}
<1>1. /\ Len(s) \in Nat /\ DOMAIN s = 1..Len(s)
      /\ \A i \in 1..Len(s) : s[i] \in Levels
  BY LenProperties
<1> DEFINE r == Append(s, in)
<1>2. /\ r \in Seq(Levels) /\ Len(r) = Len(s) + 1
      /\ \A i \in 1..Len(s) : r[i] = s[i]
      /\ r[Len(s) + 1] = in
  BY AppendProperties
<1>3. DOMAIN r = 1..(Len(s) + 1)
  BY <1>2, LenProperties
<1> HIDE DEF r
<1>4. DOMAIN r = DOMAIN s \cup {Len(s) + 1}
  BY <1>1, <1>3
<1>5. \A i \in DOMAIN s : r[i] = s[i]
  BY <1>1, <1>2
<1>6. ToSet(r) = ToSet(s) \cup {in}
  BY <1>2, <1>4, <1>5 DEF ToSet
<1> QED
  BY <1>1, <1>6 DEF ToSet, r

LEMMA LargestIsMax ==
    ASSUME NEW S \in SUBSET Int, NEW m \in S, \A in \in S : m >= in
    PROVE  m = Max(S)
<1>1. \A k \in S : (\A in \in S : k >= in) => k = m
  OBVIOUS
<1> QED
  BY <1>1 DEF Max

LEMMA SmallestIsMin ==
    ASSUME NEW S \in SUBSET Int, NEW m \in S, \A in \in S : m <= in
    PROVE  m = Min(S)
<1>1. \A k \in S : (\A in \in S : k <= in) => k = m
  OBVIOUS
<1> QED
  BY <1>1 DEF Min

LEMMA EdgesAppend ==
    ASSUME NEW s \in Seq(Levels), s # <<>>, NEW in \in Levels
    PROVE  /\ Edges(s) \in Nat
           /\ Edges(Append(s, in)) =
                  Edges(s) + (IF s[Len(s)] < Threshold /\ in > Threshold THEN 1 ELSE 0)
<1>1. Len(s) \in Nat \ {0} /\ \A i \in 1..Len(s) : s[i] \in Levels
  BY EmptySeq, LenProperties
<1> DEFINE r == Append(s, in)
           Rise(q, i) == q[i - 1] < Threshold /\ q[i] > Threshold
           Old == {i \in 2..Len(s) : Rise(s, i)}
           New == {i \in 2..Len(r) : Rise(r, i)}
<1>2. /\ r \in Seq(Levels) /\ Len(r) = Len(s) + 1
      /\ \A i \in 1..Len(s) : r[i] = s[i]
      /\ r[Len(s) + 1] = in
  BY AppendProperties
<1>3. Edges(s) = Cardinality(Old) /\ Edges(r) = Cardinality(New)
  BY DEF Edges
<1> HIDE DEF r
<1>4. IsFiniteSet(Old)
  <2>1. IsFiniteSet(2..Len(s))
    BY <1>1, FS_Interval
  <2> QED
    BY <2>1, FS_Subset
<1>5. ~(Len(s) + 1 \in Old)
  BY <1>1
<1>6. \A i \in 2..Len(s) : Rise(r, i) <=> Rise(s, i)
  BY <1>1, <1>2
<1>7. Rise(r, Len(s) + 1) <=> s[Len(s)] < Threshold /\ in > Threshold
  BY <1>1, <1>2
<1>8. \A i : i \in 2..Len(r) <=> i \in 2..Len(s) \/ i = Len(s) + 1
  BY <1>1, <1>2
<1> HIDE DEF Rise
<1>9. New = IF Rise(r, Len(s) + 1) THEN Old \cup {Len(s) + 1} ELSE Old
  <2>1. CASE Rise(r, Len(s) + 1)
    BY <1>6, <1>8, <2>1
  <2>2. CASE ~Rise(r, Len(s) + 1)
    BY <1>6, <1>8, <2>2
  <2> QED
    BY <2>1, <2>2
<1> HIDE DEF Old, New
<1>10. Cardinality(Old) \in Nat
  BY <1>4, FS_CardinalityType
<1>11. Cardinality(Old \cup {Len(s) + 1}) = Cardinality(Old) + 1
  BY <1>4, <1>5, FS_AddElement
<1>12. CASE Rise(r, Len(s) + 1)
  BY <1>3, <1>7, <1>9, <1>10, <1>11, <1>12 DEF r
<1>13. CASE ~Rise(r, Len(s) + 1)
  BY <1>3, <1>7, <1>9, <1>10, <1>13 DEF r
<1> QED
  BY <1>12, <1>13

LEMMA WithoutType ==
    ASSUME NEW s \in Seq(Levels), NEW k \in Nat
    PROVE  /\ Without(s, k) \in Seq(Levels)
           /\ Without(<<>>, k) = <<>>
           /\ Without(s, 0) = s
<1>1. Len(s) \in Nat /\ (Len(s) = 0 <=> s = <<>>)
  BY EmptySeq, LenProperties
<1>2. Without(<<>>, k) = <<>>
  BY DEF Without
<1>3. ASSUME Len(s) > k
      PROVE  SubSeq(s, 1, Len(s) - k) \in Seq(Levels)
  <2>1. \A i \in 1..(Len(s) - k) : s[i] \in Levels
    BY <1>1, LenProperties
  <2> QED
    BY <1>1, <1>3, <2>1, SubSeqProperties
<1>4. Without(s, k) \in Seq(Levels)
  BY <1>3, EmptySeq DEF Without
<1>5. Without(s, 0) = s
  <2>1. Len(s) - 0 = Len(s)
    BY <1>1
  <2> QED
    BY <1>1, <2>1, SubSeqFull DEF Without
<1> QED
  BY <1>2, <1>4, <1>5

LEMMA WithoutAppend ==
    ASSUME NEW s \in Seq(Levels), NEW in \in Levels, NEW k \in Nat
    PROVE  Without(Append(s, in), k + 1) = Without(s, k)
<1>1. Len(s) \in Nat /\ Len(Append(s, in)) = Len(s) + 1
  BY AppendProperties, LenProperties
<1>2. Append(s, in) = s \o <<in>>
  BY AppendIsConcat
<1>3. CASE Len(s) > k
  <2>1. Len(s) - k \in 1..Len(s) /\ 1 \in 1..Len(s) /\ Len(s) + 1 - (k + 1) = Len(s) - k
    BY <1>1, <1>3
  <2>2. SubSeq(s \o <<in>>, 1, Len(s) - k) = SubSeq(s, 1, Len(s) - k)
    BY <2>1, OneInput, SubSeqOfConcat1
  <2>3. Len(s) + 1 > k + 1
    BY <1>1, <1>3
  <2> QED
    BY <1>1, <1>2, <1>3, <2>1, <2>2, <2>3 DEF Without
<1>4. CASE ~(Len(s) > k)
  <2>1. ~(Len(s) + 1 > k + 1)
    BY <1>1, <1>4
  <2> QED
    BY <1>1, <1>4, <2>1 DEF Without
<1> QED
  BY <1>3, <1>4

\* A cycle later, the same is one cycle more ago.
LEMMA AgoAppend ==
    ASSUME NEW s \in Seq(Levels), NEW b \in Seq(Levels), NEW in \in Levels, NEW k \in Nat
    PROVE  Ago(Append(s, in), b, k + 1) = Ago(s, b, k)
<1>1. Len(s) \in Nat /\ Len(Append(s, in)) = Len(s) + 1
  BY AppendProperties, LenProperties
<1>2. CASE Len(s) > k
  <2>1. Len(s) + 1 > k + 1
    BY <1>1, <1>2
  <2> QED
    BY <1>1, <1>2, <2>1, WithoutAppend DEF Ago
<1>3. CASE ~(Len(s) > k)
  <2>1. ~(Len(s) + 1 > k + 1) /\ k + 1 - (Len(s) + 1) = k - Len(s)
    BY <1>1, <1>3
  <2> QED
    BY <1>1, <1>3, <2>1 DEF Ago
<1> QED
  BY <1>2, <1>3

LEMMA AgoOfOne ==
    ASSUME NEW s \in Seq(Levels), NEW b \in Seq(Levels), NEW in \in Levels, NEW k \in Nat,
           Ago(<<in>>, s, k + 1) # <<>>
    PROVE  Ago(<<in>>, s, k + 1) = Ago(s, b, k)
<1>1. Len(<<in>>) = 1
  BY OneInput
<1>2. ~(1 > k + 1) /\ k + 1 - 1 = k
  OBVIOUS
<1>3. Ago(<<in>>, s, k + 1) = Without(s, k)
  BY <1>1, <1>2 DEF Ago
<1>4. Len(s) > k
  BY <1>3 DEF Without
<1> QED
  BY <1>3, <1>4 DEF Ago

LEMMA AgoNone ==
    ASSUME NEW s \in Seq(Levels), NEW b \in Seq(Levels), s = <<>> => b = <<>>
    PROVE  Ago(s, b, 0) = s
<1>1. CASE s = <<>>
  <2>1. Len(s) = 0 /\ 0 - 0 = 0 /\ ~(0 > 0)
    BY <1>1
  <2> QED
    BY <1>1, <2>1, WithoutType DEF Ago
<1>2. CASE s # <<>>
  <2>1. Len(s) > 0
    BY <1>2, EmptySeq, LenProperties
  <2> QED
    BY <2>1, WithoutType DEF Ago
<1> QED
  BY <1>1, <1>2

LEMMA AgoOfNothing ==
    ASSUME NEW k \in Nat
    PROVE  Ago(<<>>, <<>>, k) = <<>>
<1>1. Len(<<>>) = 0 /\ k - 0 = k /\ ~(0 > k)
  OBVIOUS
<1> QED
  BY <1>1, EmptySeq, WithoutType DEF Ago

-----------------------------------------------------------------------------
(* The pulses: their times and their number.                               *)

LEMMA PulsesFacts ==
    ASSUME NEW r \in Registers
    PROVE  /\ r \in 0..(CountSpan - 1)
           /\ Pulses(r) \in 0..(CountSpan - 1)
           /\ Pulses(r) + 1 = IF r = 0 THEN CountSpan ELSE r
<1>1. CountSpan \in Nat \ {0}
  BY LevelsFit
<1>2. PICK n \in Lengths : r = LengthRegister(n)
  BY DEF Registers
<1>3. n \in Nat /\ n <= CountSpan
  BY LengthsAssumption
<1>4. r \in 0..(CountSpan - 1)
  BY <1>1, <1>2, <1>3 DEF LengthRegister
<1>5. CASE r = 0
  <2>1. (0 - 1) % CountSpan = CountSpan - 1
    BY <1>1
  <2> QED
    BY <1>1, <1>5, <2>1 DEF Pulses
<1>6. CASE r > 0
  <2>1. (r - 1) % CountSpan = r - 1
    BY <1>1, <1>4, <1>6
  <2> QED
    BY <1>1, <1>4, <1>6, <2>1 DEF Pulses
<1> QED
  BY <1>4, <1>5, <1>6

\* What an edge does to the generator.
Starts == ~busy /\ count' = Pulses(length) /\ wait' \in {Period, Period + 1}
Continues == busy /\ wait = 0 /\ count = 0 /\ count' = Pulses(length) /\ wait' = Period + 1
Repeats == busy /\ wait = 0 /\ count > 0 /\ count' = count - 1 /\ wait' = Period + 1
Waits == busy /\ wait > 0 /\ busy' /\ count' = count /\ wait' = wait - 1
Ends == busy /\ wait = 0 /\ count = 0 /\ ~busy' /\ count' = 0 /\ wait' = 0
Rests == ~busy /\ ~busy' /\ count' = count /\ wait' = 0

PulseEdge == out' /\ busy' /\ (Starts \/ Continues \/ Repeats)
QuietEdge == ~out' /\ (Waits \/ Ends \/ Rests)

Clocked(in, awReady, wReady) ==
    /\ Logic(in, awReady, wReady)
    /\ {out', busy', justEnded'} \subseteq BOOLEAN
    /\ PulseEdge \/ QuietEdge

LEMMA ClockEdge ==
    ASSUME Next, ~SetLength
    PROVE  \E in \in Inputs, awReady, wReady \in BOOLEAN : Clocked(in, awReady, wReady)
<1> DEFINE Edge == {out', busy', justEnded'} \subseteq BOOLEAN /\ (PulseEdge \/ QuietEdge)
<1>1. ASSUME Trigger
      PROVE  Step /\ Edge
  <2>1. CASE Train!Start
    BY <1>1, <2>1 DEF Trigger, Train!Start, Train!Pulse, PulseEdge, Starts
  <2>2. CASE Train!Continue
    BY <1>1, <2>2 DEF Trigger, Train!Continue, Train!Pulse, PulseEdge, Continues
  <2> QED
    BY <1>1, <2>1, <2>2 DEF Trigger
<1>2. ASSUME NextPulse
      PROVE  Step /\ Edge
  BY <1>2 DEF NextPulse, Train!NextPulse, Train!Pulse, PulseEdge, Repeats
<1>3. ASSUME CountDown
      PROVE  Step /\ Edge
  BY <1>3 DEF CountDown, Train!CountDown, Train!Quiet, QuietEdge, Waits
<1>4. ASSUME End
      PROVE  Step /\ Edge
  BY <1>4 DEF End, Train!End, Train!Quiet, QuietEdge, Ends
<1>5. ASSUME Idle
      PROVE  Step /\ Edge
  BY <1>5 DEF Idle, Train!Idle, Train!Quiet, QuietEdge, Rests
<1>6. Step /\ Edge
  BY <1>1, <1>2, <1>3, <1>4, <1>5 DEF Next
<1>7. PICK in \in Inputs, awReady \in BOOLEAN, wReady \in BOOLEAN : Logic(in, awReady, wReady)
  BY <1>6 DEF Step
<1>8. Clocked(in, awReady, wReady)
  BY <1>6, <1>7 DEF Clocked
<1> QED
  BY <1>8

LEMMA KeepsCounted ==
    ASSUME TimeInv, NEW in, NEW a, NEW w, Clocked(in, a, w)
    PROVE  /\ Counted'
           /\ length' \in Registers /\ asked' \in Registers
           /\ taken' \in 0..CountSpan /\ count' \in 0..(CountSpan - 1)
<1>1. /\ length \in Registers /\ asked \in Registers
      /\ count \in 0..(CountSpan - 1) /\ taken \in 0..CountSpan
      /\ busy \in BOOLEAN
      /\ CountSpan \in Nat \ {0}
  BY LevelsFit DEF TimeInv, TypeOK
<1>2. /\ length' = length
      /\ asked' = IF Begins THEN length ELSE asked
      /\ taken' = IF Begins THEN 1 ELSE IF out' THEN taken + 1 ELSE taken
  BY DEF Clocked, Logic, History
<1>3. /\ Pulses(length) \in 0..(CountSpan - 1)
      /\ Pulses(asked) \in 0..(CountSpan - 1)
  BY <1>1, PulsesFacts
<1>4. busy => taken >= 1 /\ taken + count = Pulses(asked) + 1
  BY DEF TimeInv, Counted
<1>5. CASE PulseEdge /\ (Starts \/ Continues)
  <2>1. Begins
    BY <1>5 DEF PulseEdge, Starts, Continues, Begins
  <2>2. asked' = length /\ taken' = 1 /\ count' = Pulses(length)
    BY <1>2, <1>5, <2>1 DEF Starts, Continues
  <2> QED
    BY <1>1, <1>2, <1>3, <2>2 DEF Counted
<1>6. CASE PulseEdge /\ Repeats
  <2>1. asked' = asked /\ taken' = taken + 1 /\ count' = count - 1 /\ count > 0 /\ busy
    BY <1>1, <1>2, <1>6 DEF PulseEdge, Repeats, Begins
  <2> QED
    BY <1>1, <1>2, <1>3, <1>4, <2>1 DEF Counted
<1>7. CASE QuietEdge
  <2>1. asked' = asked /\ taken' = taken
    BY <1>2, <1>7 DEF QuietEdge, Begins
  <2>2. (busy' => busy) /\ (count' = count \/ (count' = 0 /\ ~busy'))
    BY <1>7 DEF QuietEdge, Waits, Ends, Rests
  <2> QED
    BY <1>1, <1>2, <1>3, <1>4, <2>1, <2>2 DEF Counted
<1> QED
  BY <1>5, <1>6, <1>7 DEF Clocked, PulseEdge

LEMMA KeepsPaced ==
    ASSUME TimeInv, NEW in \in Levels, NEW a, NEW w, Clocked(in, a, w)
    PROVE  Paced' /\ wait' \in 0..(Period + 1)
<1>1. /\ out \in BOOLEAN /\ busy \in BOOLEAN
      /\ wait \in 0..(Period + 1) /\ Period \in Nat /\ Period >= 1
      /\ bin \in Seq(Levels) /\ before \in Seq(Levels)
      /\ Len(bin) \in Nat
  <2>1. bin \in Seq(Levels) /\ before \in Seq(Levels)
    BY DEF TimeInv, Paced
  <2> QED
    BY <2>1, LevelsFit, LenProperties DEF TimeInv, TypeOK
<1>2. /\ bin' = IF out THEN <<in>> ELSE IF busy THEN Append(bin, in) ELSE <<>>
      /\ before' = IF out THEN bin ELSE IF busy THEN before ELSE <<>>
  BY DEF Clocked, Logic, History
<1>3. /\ Append(bin, in) \in Seq(Levels) /\ Len(Append(bin, in)) = Len(bin) + 1
  BY <1>1, AppendProperties
<1>4. /\ out => busy /\ wait \in {Period, Period + 1}
      /\ busy /\ ~out => Len(bin) >= 1 /\ Len(bin) + wait \in {Period, Period + 1}
  BY DEF TimeInv, Paced
<1>5. /\ bin' \in Seq(Levels) /\ before' \in Seq(Levels)
      /\ bin' = <<>> => before' = <<>>
  BY <1>1, <1>2, <1>3, OneInput, EmptySeq
<1>6. /\ out => Len(bin') = 1
      /\ ~out /\ busy => Len(bin') = Len(bin) + 1
      /\ ~busy => bin' = <<>>
  BY <1>2, <1>3, <1>4, OneInput
<1>7. CASE PulseEdge /\ Starts
  <2>1. out' /\ busy' /\ wait' \in {Period, Period + 1} /\ bin' = <<>>
    BY <1>6, <1>7 DEF PulseEdge, Starts
  <2> QED
    BY <1>1, <1>5, <2>1 DEF Paced
<1>8. CASE PulseEdge /\ (Continues \/ Repeats)
  <2>1. out' /\ busy' /\ wait' = Period + 1 /\ busy /\ wait = 0
    BY <1>8 DEF PulseEdge, Continues, Repeats
  <2>2. ~out
    BY <1>1, <1>4, <2>1
  <2>3. Len(bin') = Len(bin) + 1 /\ Len(bin) \in {Period, Period + 1}
    BY <1>1, <1>4, <1>6, <2>1, <2>2
  <2>4. Len(bin') \in {Period + 1, Period + 2}
    BY <1>1, <2>3
  <2> QED
    BY <1>1, <1>5, <2>1, <2>4 DEF Paced
<1>9. CASE QuietEdge /\ Waits
  <2>1. ~out' /\ busy' /\ busy /\ wait > 0 /\ wait' = wait - 1
    BY <1>9 DEF QuietEdge, Waits
  <2>2. CASE out
    <3>1. Len(bin') = 1 /\ wait \in {Period, Period + 1}
      BY <1>4, <1>6, <2>2
    <3> QED
      BY <1>1, <1>5, <2>1, <3>1 DEF Paced
  <2>3. CASE ~out
    <3>1. Len(bin') = Len(bin) + 1 /\ Len(bin) + wait \in {Period, Period + 1} /\ Len(bin) >= 1
      BY <1>4, <1>6, <2>1, <2>3
    <3> QED
      BY <1>1, <1>5, <2>1, <3>1 DEF Paced
  <2> QED
    BY <2>2, <2>3
<1>10. CASE QuietEdge /\ (Ends \/ Rests)
  <2>1. ~out' /\ ~busy' /\ wait' = 0
    BY <1>10 DEF QuietEdge, Ends, Rests
  <2> QED
    BY <1>1, <1>5, <2>1 DEF Paced
<1> QED
  BY <1>7, <1>8, <1>9, <1>10 DEF Clocked, PulseEdge, QuietEdge

-----------------------------------------------------------------------------
(* The types of the sums, and of what is stored.                           *)

LEMMA ModRange ==
    ASSUME NEW n \in Nat \ {0}, NEW a \in Int
    PROVE  a % n \in 0..(n - 1)
  OBVIOUS

LEMMA SmallMod ==
    ASSUME NEW n \in Nat \ {0}, NEW a \in 0..(n - 1)
    PROVE  a % n = a
  OBVIOUS

LEMMA CutRange ==
    ASSUME NEW low \in Int, NEW n \in Nat \ {0}, NEW a \in Int
    PROVE  Cut(a, low, n) \in low..(low + n - 1)
<1>1. a - low \in Int
  OBVIOUS
<1>2. (a - low) % n \in 0..(n - 1)
  BY <1>1, ModRange
<1> QED
  BY <1>2 DEF Cut

LEMMA CutSmall ==
    ASSUME NEW low \in Int, NEW n \in Nat \ {0}, NEW a \in low..(low + n - 1)
    PROVE  Cut(a, low, n) = a
<1>1. a - low \in 0..(n - 1)
  OBVIOUS
<1>2. (a - low) % n = a - low
  BY <1>1, SmallMod
<1> QED
  BY <1>2 DEF Cut

LEMMA SumRange ==
    /\ SumSpan \in Nat \ {0} /\ SumLowest \in Int
    /\ Levels \subseteq SumLowest..(SumLowest + SumSpan - 1)
    /\ 0 \in SumLowest..(SumLowest + SumSpan - 1)
<1>1. PICK d \in Nat \ {0} : d = DataSpan
  BY LevelsFit
<1>2. PICK n \in Nat \ {0} : n = SampleSpan
  BY LevelsFit
<1>3. PICK l \in Int : l = Lowest /\ l <= 0 /\ l + d \in Nat \ {0}
  BY <1>1, LevelsFit
<1>4. d * n \in Nat \ {0} /\ l * n \in Int
  BY <1>1, <1>2, <1>3
<1>5. PICK k \in Nat : n = k + 1
  BY <1>2
<1>6. l * n = l + l * k /\ l * k <= 0
  BY <1>3, <1>5
<1>7. l * n + d * n = (l + d) + (l + d) * k /\ (l + d) * k >= 0
  BY <1>1, <1>3, <1>5
<1>8. l * n <= l /\ l + d <= l * n + d * n
  BY <1>3, <1>4, <1>6, <1>7
<1>9. Levels = l..(l + d - 1) /\ 0 \in Levels
  BY <1>1, <1>3, LevelsFit DEF Levels
<1>10. SumLowest = l * n /\ SumSpan = d * n
  BY <1>1, <1>2, <1>3 DEF SumLowest, SumSpan
<1>11. Levels \subseteq SumLowest..(SumLowest + SumSpan - 1)
  BY <1>3, <1>4, <1>8, <1>9, <1>10
<1> QED
  BY <1>4, <1>9, <1>10, <1>11

LEMMA DataRange ==
    ASSUME NEW x \in Int
    PROVE  Cut(x, Lowest, DataSpan) \in Levels
BY LevelsFit, CutRange DEF Levels

LEMMA AveragedType ==
    ASSUME NEW s \in Int
    PROVE  Averaged(s) \in Levels
<1>1. s * Factor \in Int
  BY LevelsFit
<1>2. (s * Factor) \div Scale \in Int
  BY <1>1 DEF Scale
<1> QED
  BY <1>2, DataRange DEF Averaged

LEMMA OrOfPorts ==
    ASSUME NEW p \in 0..3
    PROVE  /\ Or(p, 0) = p
           /\ \A q \in 0..3 : Or(p, q) \in 0..3
  BY DEF Or, Larger

LEMMA AddressInMemory ==
    ASSUME NEW c \in Nat, port \in 0..3
    PROVE  RamAddress(c) \in 0..(4 * AreaSpan - 1)
<1>1. AreaSpan \in Nat \ {0}
  BY LevelsFit
<1>2. c \div AreaSpan \in Nat
  BY <1>1
<1>3. (c \div AreaSpan) % 4 \in 0..3
  BY <1>2
<1>4. PICK o \in 0..3 : o = Or(port, (c \div AreaSpan) % 4)
  BY <1>3, OrOfPorts
<1>5. c % AreaSpan \in 0..(AreaSpan - 1)
  BY <1>1, ModRange
<1>6. AreaSpan * o + (c % AreaSpan) \in 0..(4 * AreaSpan - 1)
  BY <1>1, <1>5
<1> QED
  BY <1>4, <1>6 DEF RamAddress

\* Places within an area are addressed within the port's own one.
LEMMA AddressInArea ==
    ASSUME NEW c \in 0..(AreaSpan - 1), port \in 0..3
    PROVE  RamAddress(c) = AreaSpan * port + c
<1>1. AreaSpan \in Nat \ {0}
  BY LevelsFit
<1>2. c \div AreaSpan = 0 /\ c % AreaSpan = c
  BY <1>1
<1>3. Or(port, 0 % 4) = port
  BY OrOfPorts
<1> QED
  BY <1>2, <1>3 DEF RamAddress

LEMMA ReduceTypes ==
    ASSUME TypeOK, NEW in \in Levels, Reduce(in)
    PROVE  /\ sum' \in SumLowest..(SumLowest + SumSpan - 1)
           /\ max' \in Levels /\ min' \in Levels
           /\ samples' \in 0..(SampleSpan - 1)
           /\ edges' \in 0..(EdgeSpan - 1)
<1>1. /\ sum \in Int /\ sum \in SumLowest..(SumLowest + SumSpan - 1)
      /\ max \in Levels /\ min \in Levels
      /\ samples \in 0..(SampleSpan - 1) /\ edges \in 0..(EdgeSpan - 1)
  BY SumRange DEF TypeOK
<1>2. in \in Int /\ in \in SumLowest..(SumLowest + SumSpan - 1)
  BY SumRange, LevelsFit
<1>3. SampleSpan \in Nat \ {0} /\ EdgeSpan \in Nat \ {0}
  BY LevelsFit
<1>4. CASE Restart(in)
  BY <1>2, <1>3, <1>4 DEF Restart
<1>5. CASE Accumulate(in)
  <2>1. sum' \in SumLowest..(SumLowest + SumSpan - 1)
    <3>1. sum' = Cut(sum + in, SumLowest, SumSpan)
      BY <1>5 DEF Accumulate
    <3>2. sum + in \in Int
      BY <1>1, <1>2
    <3> QED
      BY <3>1, <3>2, SumRange, CutRange
  <2>2. samples' \in 0..(SampleSpan - 1)
    <3>1. samples' = (samples + 1) % SampleSpan
      BY <1>5 DEF Accumulate
    <3> QED
      BY <1>1, <1>3, <3>1, ModRange
  <2>3. max' \in {max, in} /\ min' \in {min, in}
    BY <1>5 DEF Accumulate, Larger, Smaller
  <2>4. edges' \in 0..(EdgeSpan - 1)
    <3>1. PICK n \in Nat : edges' = n % EdgeSpan
      BY <1>1, <1>3, <1>5 DEF Accumulate
    <3> QED
      BY <1>3, <3>1, ModRange
  <2> QED
    BY <1>1, <2>1, <2>2, <2>3, <2>4
<1>6. CASE UNCHANGED acc
  BY <1>1, <1>6 DEF acc
<1> QED
  BY <1>4, <1>5, <1>6 DEF Reduce

LEMMA PipelineTypes ==
    ASSUME TypeOK, NEW in \in Levels, Pipeline(in)
    PROVE  /\ below' \in BOOLEAN
           /\ oldsum' \in SumLowest..(SumLowest + SumSpan - 1)
           /\ average' \in Levels /\ value' \in Levels
           /\ address' \in 0..(4 * AreaSpan - 1)
<1>1. below' \in BOOLEAN
  <2>1. ASSUME NEW x, NEW y, below' = (x < y)
        PROVE  below' \in BOOLEAN
    BY <2>1
  <2> QED
    BY Zenon, <2>1 DEF Pipeline
<1>2. oldsum' = sum /\ average' = Averaged(oldsum) /\ value' = Selected(in)
  BY DEF Pipeline
<1>3. oldsum' \in SumLowest..(SumLowest + SumSpan - 1)
  BY <1>2 DEF TypeOK
<1>4. average' \in Levels
  <2>1. oldsum \in Int
    BY SumRange DEF TypeOK
  <2> QED
    BY <1>2, <2>1, AveragedType
<1>5. value' \in Levels
  <2>1. /\ mode \in 0..7 /\ edges \in Int /\ samples \in Int
        /\ {average, max, min, in, Offset, value} \subseteq Levels
    BY LevelsFit, ChoicesAssumption DEF TypeOK
  <2>2. Cut(edges, Lowest, DataSpan) \in Levels /\ Cut(samples, Lowest, DataSpan) \in Levels
    BY <2>1, DataRange
  <2>3. Selected(in) \in {average, max, min, in, Cut(edges, Lowest, DataSpan), Offset,
                          Cut(samples, Lowest, DataSpan), value}
    BY <2>1 DEF Selected
  <2> QED
    BY <1>2, <2>1, <2>2, <2>3
<1>6. address' \in 0..(4 * AreaSpan - 1)
  <2>1. CASE port = NoPort
    BY <2>1 DEF Pipeline, TypeOK
  <2>2. CASE port # NoPort
    <3>1. port \in 0..3 /\ count \in Nat
      BY <2>2, LevelsFit, ChoicesAssumption DEF TypeOK
    <3>2. address' = RamAddress(count)
      BY <2>2 DEF Pipeline
    <3> QED
      BY <3>1, <3>2, AddressInMemory
  <2> QED
    BY <2>1, <2>2
<1> QED
  BY <1>1, <1>3, <1>4, <1>5, <1>6

LEMMA KeepsTimes ==
    ASSUME TimeInv, Next
    PROVE  TimeInv'
<1>1. CASE SetLength
  <2>1. /\ length' \in Registers
        /\ UNCHANGED <<mode, port, burst, axi, acc, pipe, hist>>
    BY <1>1 DEF SetLength
  <2>2. /\ UNCHANGED <<mode, port, out, busy, count, wait, justEnded, valid>>
        /\ UNCHANGED <<sum, max, min, samples, edges, below, oldsum, average, value, address>>
        /\ UNCHANGED <<bin, before, offered, asked, taken>>
    BY <2>1 DEF burst, axi, acc, pipe, hist
  <2>3. TypeOK'
    BY <2>1, <2>2 DEF TimeInv, TypeOK
  <2>4. Paced' /\ Counted'
    BY <2>2 DEF TimeInv, Paced, Counted
  <2> QED
    BY <2>3, <2>4 DEF TimeInv
<1>2. CASE ~SetLength
  <2>1. PICK in \in Inputs, a \in BOOLEAN, w \in BOOLEAN : Clocked(in, a, w)
    BY <1>2, ClockEdge
  <2>2. in \in Levels
    BY LevelsFit
  <2>3. Reduce(in) /\ Pipeline(in) /\ UNCHANGED <<mode, port, length>>
    BY <2>1 DEF Clocked, Logic
  <2>4. valid' \in BOOLEAN
    <3>1. ASSUME NEW x, NEW y, valid' = (x /\ y)
          PROVE  valid' \in BOOLEAN
      BY <3>1
    <3> QED
      BY Zenon, <2>1, <3>1 DEF Clocked, Logic, Writer!Clock
  <2>5. out' \in BOOLEAN /\ busy' \in BOOLEAN /\ justEnded' \in BOOLEAN
    BY <2>1 DEF Clocked
  <2>6. Paced' /\ wait' \in 0..(Period + 1)
    BY <2>1, <2>2, KeepsPaced
  <2>7. /\ Counted' /\ length' \in Registers /\ asked' \in Registers
        /\ taken' \in 0..CountSpan /\ count' \in 0..(CountSpan - 1)
    BY <2>1, KeepsCounted
  <2>8. mode' \in Modes /\ port' \in Ports
    BY <2>3 DEF TimeInv, TypeOK
  <2>9. TypeOK
    BY DEF TimeInv
  <2>10. TypeOK'
    BY <2>2, <2>3, <2>4, <2>5, <2>6, <2>7, <2>8, <2>9, ReduceTypes, PipelineTypes
    DEF TypeOK
  <2> QED
    BY <2>6, <2>7, <2>10 DEF TimeInv
<1> QED
  BY <1>1, <1>2

LEMMA InitTimes ==
    ASSUME Init
    PROVE  TimeInv
<1>2. /\ out = FALSE /\ busy = FALSE /\ count = 0 /\ wait = 0 /\ justEnded = FALSE
      /\ valid = FALSE
  BY DEF Init, Train!Init, Writer!Init
<1>3. TypeOK
  <2>1. /\ mode \in Modes /\ port \in Ports /\ length \in Registers /\ asked = length
        /\ sum = 0 /\ oldsum = 0 /\ max = 0 /\ min = 0 /\ average = 0 /\ value = 0
        /\ samples = 0 /\ edges = 0 /\ address = 0 /\ taken = 0 /\ below = FALSE
    BY DEF Init
  <2>2. \A n \in Nat \ {0} : 0 \in 0..(n - 1)
    OBVIOUS
  <2>3. 0 \in 0..(CountSpan - 1) /\ 0 \in 0..(SampleSpan - 1)
    BY <2>2, LevelsFit
  <2>4. 0 \in 0..(EdgeSpan - 1) /\ 0 \in 0..(Period + 1) /\ 0 \in 0..CountSpan
    BY LevelsFit
  <2>5. 0 \in 0..(4 * AreaSpan - 1)
    BY LevelsFit
  <2> QED
    BY <1>2, <2>1, <2>3, <2>4, <2>5, LevelsFit, SumRange DEF TypeOK
<1>4. Paced /\ Counted
  BY <1>2, EmptySeq DEF Init, Paced, Counted
<1> QED
  BY <1>3, <1>4 DEF TimeInv

LEMMA TimesInvariance == Spec => []TimeInv
<1>1. TimeInv /\ [Next]_vars => TimeInv'
  <2>1. ASSUME TimeInv, UNCHANGED vars
        PROVE  TimeInv'
    <3>1. /\ UNCHANGED <<mode, port, length, out, busy, count, wait, justEnded, valid>>
          /\ UNCHANGED <<sum, max, min, samples, edges, below, oldsum, average, value, address>>
          /\ UNCHANGED <<bin, before, offered, asked, taken>>
      BY <2>1 DEF vars, burst, axi, acc, pipe, hist
    <3> QED
      BY <2>1, <3>1 DEF TimeInv, TypeOK, Paced, Counted
  <2> QED
    BY <2>1, KeepsTimes
<1> QED
  BY <1>1, InitTimes, PTL DEF Spec

(* Every register keeps its width (daq.py:33-41, 74-90 and 157-170).       *)
THEOREM TypeCorrect == Spec => []TypeOK
<1>1. TimeInv => TypeOK
  BY DEF TimeInv
<1> QED
  BY <1>1, TimesInvariance, PTL

(* For every length register, an acquisition ends with as many samples as  *)
(* it says, or as the count can count (daq.py:74-78 and 147).              *)
THEOREM TakesItsLength == Spec => TakesLength
<1>1. TimeInv => [busy /\ wait = 0 /\ count = 0 =>
                     taken = IF asked = 0 THEN CountSpan ELSE asked]_vars
  <2>1. ASSUME TimeInv, busy, wait = 0, count = 0
        PROVE  taken = IF asked = 0 THEN CountSpan ELSE asked
    <3>1. asked \in Registers /\ taken \in Nat /\ taken + 0 = Pulses(asked) + 1
      BY <2>1, LevelsFit DEF TimeInv, TypeOK, Counted
    <3> QED
      BY <3>1, PulsesFacts
  <2> QED
    BY <2>1
<1> QED
  BY <1>1, TimesInvariance, PTL DEF TakesLength

-----------------------------------------------------------------------------
(* The sums are those of the bin.                                          *)

\* One more input fits in a sum with room for n + 1 of them.
LEMMA SumFits ==
    ASSUME NEW s \in Int, NEW n \in Nat, NEW in \in Levels, Fits(s, n)
    PROVE  /\ Fits(s + in, n + 1)
           /\ n + 1 <= SampleSpan => s + in \in SumLowest..(SumLowest + SumSpan - 1)
<1>1. PICK l \in Int : l = Lowest /\ l <= 0
  BY LevelsFit
<1>2. PICK d \in Nat : d = Lowest + DataSpan - 1 /\ DataSpan = d + 1 - l
  BY <1>1, LevelsFit
<1>3. in \in Int /\ l <= in /\ in <= d
  <2>1. in \in l..(l + DataSpan - 1) /\ l + DataSpan - 1 = d
    BY <1>1, <1>2 DEF Levels
  <2> QED
    BY <1>1, <1>2, <2>1
<1>4. n * l <= s /\ s <= n * d
  BY <1>1, <1>2 DEF Fits
<1>5. (n + 1) * l = n * l + l /\ (n + 1) * d = n * d + d /\ n * l \in Int /\ n * d \in Int
  BY <1>1, <1>2
<1>6. (n + 1) * l <= s + in /\ s + in <= (n + 1) * d
  BY <1>1, <1>2, <1>3, <1>4, <1>5
<1>7. Fits(s + in, n + 1)
  BY <1>1, <1>2, <1>6 DEF Fits
<1>8. ASSUME n + 1 <= SampleSpan
      PROVE  s + in \in SumLowest..(SumLowest + SumSpan - 1)
  <2>1. PICK k \in Nat : SampleSpan = n + 1 + k
    BY <1>8, LevelsFit
  <2>2. l * (n + 1 + k) = (n + 1) * l + k * l /\ k * l <= 0 /\ k * l \in Int
    BY <1>1, <2>1
  <2>3. (d + 1 - l) * (n + 1 + k) = (n + 1) * d + (n + 1) + (d + 1) * k - l * (n + 1 + k)
    BY <1>1, <1>2, <2>1
  <2>4. (d + 1) * k >= 0 /\ (d + 1) * k \in Int
    BY <1>2, <2>1
  <2>5. SumLowest = l * (n + 1 + k) /\ SumSpan = (d + 1 - l) * (n + 1 + k)
    BY <1>1, <1>2, <2>1 DEF SumLowest, SumSpan
  <2>6. SumLowest <= (n + 1) * l
    BY <1>1, <1>5, <2>2, <2>5
  <2>7. SumLowest + SumSpan > (n + 1) * d
    <3>1. PICK t \in Int : t = l * (n + 1 + k)
      BY <1>1, <2>1
    <3>2. SumLowest + SumSpan = t + ((n + 1) * d + (n + 1) + (d + 1) * k - t)
      BY <2>3, <2>5, <3>1
    <3> QED
      BY <1>5, <1>2, <2>4, <3>1, <3>2
  <2> QED
    BY <1>3, <1>5, <1>6, <2>6, <2>7, <1>1, <1>2, SumRange
<1> QED
  BY <1>7, <1>8

LEMMA BinSteps ==
    ASSUME TimeInv, NEW in \in Levels, NEW a, NEW w, Clocked(in, a, w)
    PROVE  /\ mode' = mode /\ mode \in Modes /\ mode \in 0..7
           /\ bin \in Seq(Levels) /\ Len(bin) \in Nat
           /\ out => Restart(in) /\ bin' = <<in>>
           /\ ~out /\ busy => Accumulate(in) /\ bin' = Append(bin, in) /\ bin # <<>>
           /\ ~out /\ busy => Len(bin) >= 1 /\ Len(bin) <= Period + 1
           /\ ~out /\ ~busy => bin' = <<>>
<1>1. bin \in Seq(Levels) /\ Len(bin) \in Nat
  BY LenProperties DEF TimeInv, Paced
<1>2. mode' = mode /\ mode \in Modes /\ mode \in 0..7
  BY ChoicesAssumption DEF Clocked, Logic, TimeInv, TypeOK
<1>3. ~out /\ busy => Len(bin) >= 1 /\ Len(bin) <= Period + 1
  BY <1>1, LevelsFit DEF TimeInv, TypeOK, Paced
<1>4. ~out /\ busy => bin # <<>>
  BY <1>3, EmptySeq
<1>5. Reduce(in) /\ History(in)
  BY DEF Clocked, Logic
<1>6. out => Restart(in) /\ bin' = <<in>>
  BY <1>5 DEF Reduce, History
<1>7. ~out /\ busy => Accumulate(in) /\ bin' = Append(bin, in)
  BY <1>5 DEF Reduce, History
<1>8. ~out /\ ~busy => bin' = <<>>
  BY <1>5 DEF History
<1> QED
  BY <1>1, <1>2, <1>3, <1>4, <1>6, <1>7, <1>8

LEMMA KeepsReduced ==
    ASSUME BinsFit, TimeInv, Reduced, NEW in \in Levels, NEW a, NEW w, Clocked(in, a, w)
    PROVE  Reduced'
<1>1. /\ mode' = mode /\ mode \in Modes /\ mode \in 0..7
      /\ bin \in Seq(Levels) /\ Len(bin) \in Nat
  BY BinSteps
<1>2. in \in Int /\ Levels \subseteq Int /\ Period \in Nat /\ Threshold \in Int
  BY LevelsFit
<1>3. below' <=> in < Threshold
  <2>1. ASSUME NEW x, NEW y, below' = (x < y)
        PROVE  below' <=> x < y
    BY <2>1
  <2> QED
    BY Zenon, <2>1 DEF Clocked, Logic, Pipeline
<1>4. CASE out
  <2>1. bin' = <<in>> /\ Restart(in)
    BY <1>4, BinSteps
  <2>2. bin'[Len(bin')] = in /\ Len(bin') = 1
    BY <2>1, OneInput
  <2>3. Total(bin') = in /\ Edges(bin') = 0 /\ ToSet(bin') = {in}
    BY <1>2, <2>1, OneInput, TotalOfOne
  <2>4. sum' = Total(bin') /\ Fits(sum', Len(bin'))
    <3>1. 1 * Lowest <= in /\ in <= 1 * (Lowest + DataSpan - 1)
      BY <1>2, LevelsFit DEF Levels
    <3> QED
      BY <2>1, <2>2, <2>3, <3>1 DEF Restart, Fits
  <2>5. max' \in ToSet(bin') /\ \A i \in ToSet(bin') : max' >= i
    BY <1>2, <2>1, <2>3 DEF Restart
  <2>6. min' \in ToSet(bin') /\ \A i \in ToSet(bin') : min' <= i
    BY <1>2, <2>1, <2>3 DEF Restart
  <2>7. edges' = Edges(bin') /\ edges' < Len(bin') /\ samples' = Len(bin') - 1
    BY <2>1, <2>2, <2>3 DEF Restart
  <2> QED
    BY <1>3, <2>2, <2>4, <2>5, <2>6, <2>7 DEF Reduced
<1>5. CASE ~out /\ busy
  <2>1. bin' = Append(bin, in) /\ Accumulate(in) /\ bin # <<>>
    BY <1>5, BinSteps
  <2>2. PICK n \in Nat : n = Len(bin) /\ n >= 1 /\ n <= Period + 1
    BY <1>1, <1>5, BinSteps
  <2>3. bin'[Len(bin')] = in /\ Len(bin') = n + 1
    BY <1>1, <2>1, <2>2, AppendProperties
  <2>4. ASSUME mode = 0
        PROVE  sum' = Total(bin') /\ Fits(sum', Len(bin'))
    <3>1. Period + 2 <= SampleSpan
      BY <1>1, <2>4 DEF BinsFit
    <3>2. sum = Total(bin) /\ Fits(sum, n) /\ sum \in Int
      BY <2>1, <2>2, <2>4, SumRange DEF Reduced, TimeInv, TypeOK
    <3>3. n + 1 <= SampleSpan
      BY <1>2, <2>2, <3>1, LevelsFit
    <3>4. Fits(sum + in, n + 1) /\ sum + in \in SumLowest..(SumLowest + SumSpan - 1)
      BY <2>2, <3>2, <3>3, SumFits
    <3>5. sum' = sum + in
      BY <2>1, <3>4, SumRange, CutSmall DEF Accumulate
    <3>6. Total(bin') = Total(bin) + in
      <4>1. bin \in Seq(Int)
        BY <1>1, <1>2, SeqMonotonic
      <4> QED
        BY <1>2, <2>1, <4>1, TotalAppend
    <3> QED
      BY <2>3, <3>2, <3>4, <3>5, <3>6
  <2>5. ToSet(bin') = ToSet(bin) \cup {in} /\ ToSet(bin) \subseteq Int
    BY <1>1, <1>2, <2>1, ToSetAppend
  <2>6. ASSUME mode = 1
        PROVE  max' \in ToSet(bin') /\ \A i \in ToSet(bin') : max' >= i
    <3>1. max \in ToSet(bin) /\ \A i \in ToSet(bin) : max >= i
      BY <2>1, <2>6 DEF Reduced
    <3>2. max' = IF max > in THEN max ELSE in
      BY <2>1 DEF Accumulate, Larger
    <3> QED
      BY <1>2, <2>5, <3>1, <3>2
  <2>7. ASSUME mode = 2
        PROVE  min' \in ToSet(bin') /\ \A i \in ToSet(bin') : min' <= i
    <3>1. min \in ToSet(bin) /\ \A i \in ToSet(bin) : min <= i
      BY <2>1, <2>7 DEF Reduced
    <3>2. min' = IF min < in THEN min ELSE in
      BY <2>1 DEF Accumulate, Smaller
    <3> QED
      BY <1>2, <2>5, <3>1, <3>2
  <2>8. ASSUME mode = 4
        PROVE  edges' = Edges(bin') /\ edges' < Len(bin')
    <3>1. edges = Edges(bin) /\ edges < n /\ edges \in Nat
      BY <2>1, <2>2, <2>8, LevelsFit DEF Reduced, TimeInv, TypeOK
    <3>2. Period + 2 <= EdgeSpan
      BY <1>1, <2>8 DEF BinsFit
    <3>3. below <=> bin[Len(bin)] < Threshold
      BY <2>1 DEF Reduced
    <3>4. Edges(bin') = Edges(bin) + (IF bin[Len(bin)] < Threshold /\ in > Threshold THEN 1 ELSE 0)
      BY <1>1, <2>1, EdgesAppend
    <3>5. CASE Rises(in)
      <4>1. edges' = (edges + 1) % EdgeSpan
        BY <2>1, <3>5 DEF Accumulate
      <4>2. edges + 1 \in 0..(EdgeSpan - 1)
        BY <1>2, <2>2, <3>1, <3>2, LevelsFit
      <4>3. edges' = edges + 1
        BY <4>1, <4>2, LevelsFit, SmallMod
      <4>4. bin[Len(bin)] < Threshold /\ in > Threshold
        BY <3>3, <3>5 DEF Rises
      <4> QED
        BY <2>3, <3>1, <3>4, <4>3, <4>4
    <3>6. CASE ~Rises(in)
      <4>1. edges' = (edges + 0) % EdgeSpan
        BY <2>1, <3>6 DEF Accumulate
      <4>2. edges + 0 \in 0..(EdgeSpan - 1)
        BY <1>2, <2>2, <3>1, <3>2, LevelsFit
      <4>3. edges' = edges
        BY <3>1, <4>1, <4>2, LevelsFit, SmallMod
      <4>4. ~(bin[Len(bin)] < Threshold /\ in > Threshold)
        BY <3>3, <3>6 DEF Rises
      <4> QED
        BY <2>3, <3>1, <3>4, <4>3, <4>4
    <3> QED
      BY <3>5, <3>6
  <2>9. ASSUME mode = 6
        PROVE  samples' = Len(bin') - 1
    <3>1. samples = n - 1 /\ Period + 2 <= SampleSpan
      BY <1>1, <2>1, <2>2, <2>9 DEF Reduced, BinsFit
    <3>2. samples + 1 \in 0..(SampleSpan - 1)
      BY <1>2, <2>2, <3>1, LevelsFit
    <3>3. samples' = samples + 1
      BY <2>1, <3>2, LevelsFit, SmallMod DEF Accumulate
    <3> QED
      BY <2>2, <2>3, <3>1, <3>3
  <2> QED
    BY <1>1, <1>3, <2>3, <2>4, <2>6, <2>7, <2>8, <2>9 DEF Reduced
<1>6. CASE ~out /\ ~busy
  BY <1>6, BinSteps DEF Reduced
<1> QED
  BY <1>4, <1>5, <1>6

-----------------------------------------------------------------------------
(* The value is what the mode makes of the bin.                            *)

LEMMA MissingFacts ==
    ASSUME mode \in 0..7
    PROVE  Missing(mode) \in 0..3 /\ (Missing(mode) = 0 => mode \in {3, 5, 7})
  BY DEF Missing

\* At a clock edge, everything becomes one cycle older.
LEMMA KeepsAgo ==
    ASSUME TimeInv, NEW in \in Levels, NEW a, NEW w, Clocked(in, a, w), NEW k \in Nat,
           Ago(bin', before', k + 1) # <<>>
    PROVE  Ago(bin', before', k + 1) = Ago(bin, before, k)
<1>1. bin \in Seq(Levels) /\ before \in Seq(Levels)
  BY DEF TimeInv, Paced
<1>2. /\ bin' = IF out THEN <<in>> ELSE IF busy THEN Append(bin, in) ELSE <<>>
      /\ before' = IF out THEN bin ELSE IF busy THEN before ELSE <<>>
  BY DEF Clocked, Logic, History
<1>3. CASE out
  <2>1. bin' = <<in>> /\ before' = bin
    BY <1>2, <1>3
  <2> QED
    BY <1>1, <2>1, AgoOfOne
<1>4. CASE ~out /\ busy
  <2>1. bin' = Append(bin, in) /\ before' = before
    BY <1>2, <1>4
  <2> QED
    BY <1>1, <2>1, AgoAppend
<1>5. CASE ~out /\ ~busy
  <2>1. bin' = <<>> /\ before' = <<>> /\ k + 1 \in Nat
    BY <1>2, <1>5
  <2> QED
    BY <2>1, AgoOfNothing
<1> QED
  BY <1>3, <1>4, <1>5

LEMMA AgoIsBin ==
    ASSUME TimeInv
    PROVE  Ago(bin, before, 0) = bin
BY AgoNone DEF TimeInv, Paced

\* What an edge makes the value: by the modes that pass the input on, and by
\* the others.
LEMMA ValueOfInput ==
    ASSUME Piped, NEW in, Pipeline(in), mode \in {3, 5, 7}, NEW s, s[Len(s)] = in
    PROVE  value' = Summary(mode, s)
<1>1. value' = Selected(in) /\ Last(s) = in
  BY DEF Pipeline, Last
<1>2. CASE mode = 3
  BY <1>1, <1>2 DEF Selected, Summary
<1>3. CASE mode = 5
  BY <1>1, <1>3 DEF Selected, Summary
<1>4. CASE mode = 7
  BY <1>1, <1>4 DEF Selected, Summary, Piped
<1> QED
  BY <1>2, <1>3, <1>4

LEMMA ValueOfSum ==
    ASSUME BinsFit, TimeInv, Reduced, Piped, NEW in, Pipeline(in), busy, NEW s, s # <<>>,
           mode \in {0, 1, 2, 4, 6}, s = Ago(bin, before, Missing(mode) - 1)
    PROVE  value' = Summary(mode, s)
<1>1. mode \in Modes /\ bin \in Seq(Levels) /\ busy /\ out \in BOOLEAN
  BY DEF TimeInv, TypeOK, Paced
<1>2. value' = Selected(in)
  BY DEF Pipeline
<1>3. CASE mode = 0
  <2>1. Missing(mode) - 1 = 2
    BY <1>3 DEF Missing
  <2>2. average = Averaged(Total(s))
    BY <1>3, <2>1 DEF Piped
  <2> QED
    BY <1>2, <1>3, <2>2 DEF Selected, Summary
<1>4. CASE mode \in {1, 2, 4, 6}
  <2>1. Missing(mode) - 1 = 0
    BY <1>4 DEF Missing
  <2>2. s = bin /\ bin # <<>>
    BY <2>1, AgoIsBin
  <2>3. PICK n \in Nat : n = Len(bin) /\ n >= 1 /\ n <= Period + 2 /\ Period \in Nat
    <3>1. Len(bin) \in Nat /\ Len(bin) >= 1
      BY <1>1, <2>2, EmptySeq, LenProperties
    <3>2. Len(bin) <= Period + 2
      BY <1>1, <2>2, <3>1, LevelsFit DEF TimeInv, TypeOK, Paced
    <3> QED
      BY <3>1, <3>2, LevelsFit
  <2>4. ToSet(bin) \in SUBSET Int
    BY <1>1, <2>2, ToSetAppend, LevelsFit
  <2>5. ASSUME NEW x \in Nat, x < n, Period + 2 <= Lowest + DataSpan
        PROVE  Cut(x, Lowest, DataSpan) = x
    <3>1. x \in Lowest..(Lowest + DataSpan - 1)
      BY <2>3, <2>5, LevelsFit
    <3> QED
      BY <3>1, LevelsFit, CutSmall
  <2>6. CASE mode = 1
    <3>1. max = Max(ToSet(bin))
      BY <2>2, <2>4, <2>6, LargestIsMax DEF Reduced
    <3> QED
      BY <1>2, <2>2, <2>6, <3>1 DEF Selected, Summary
  <2>7. CASE mode = 2
    <3>1. min = Min(ToSet(bin))
      BY <2>2, <2>4, <2>7, SmallestIsMin DEF Reduced
    <3> QED
      BY <1>2, <2>2, <2>7, <3>1 DEF Selected, Summary
  <2>8. CASE mode = 4
    <3>1. edges = Edges(bin) /\ edges < n /\ edges \in Nat
      BY <2>2, <2>3, <2>8, LevelsFit DEF Reduced, TimeInv, TypeOK
    <3>2. Period + 2 <= Lowest + DataSpan
      BY <1>1, <2>8 DEF BinsFit
    <3>3. Cut(edges, Lowest, DataSpan) = edges
      BY <2>5, <3>1, <3>2
    <3> QED
      BY <1>2, <2>2, <2>8, <3>1, <3>3 DEF Selected, Summary
  <2>9. CASE mode = 6
    <3>1. samples = n - 1 /\ samples \in Nat /\ samples < n
      BY <2>2, <2>3, <2>9 DEF Reduced
    <3>2. Period + 2 <= Lowest + DataSpan
      BY <1>1, <2>9 DEF BinsFit
    <3>3. Cut(samples, Lowest, DataSpan) = samples
      BY <2>5, <3>1, <3>2
    <3> QED
      BY <1>2, <2>2, <2>3, <2>9, <3>1, <3>3 DEF Selected, Summary
  <2> QED
    BY <1>4, <2>6, <2>7, <2>8, <2>9
<1> QED
  BY <1>3, <1>4

LEMMA KeepsPiped ==
    ASSUME BinsFit, TimeInv, Reduced, Piped, NEW in \in Levels, NEW a, NEW w, Clocked(in, a, w)
    PROVE  Piped'
<1>1. mode' = mode /\ mode \in 0..7
  BY BinSteps
<1>2. Pipeline(in)
  BY DEF Clocked, Logic
<1>3. oldsum' = sum /\ average' = Averaged(oldsum) /\ value' = Selected(in)
  BY <1>2 DEF Pipeline
<1>4. mode = 7 => value' = 0
  BY <1>3 DEF Selected, Piped
<1>5. \A k \in Nat : Ago(bin', before', k + 1) = Ago(bin, before, k) \/ Ago(bin', before', k + 1) = <<>>
  BY KeepsAgo
<1>6. ASSUME mode = 0, Ago(bin', before', 1) # <<>>
      PROVE  oldsum' = Total(Ago(bin', before', 1))
  <2>1. Ago(bin', before', 0 + 1) = Ago(bin, before, 0)
    BY <1>5, <1>6
  <2>2. Ago(bin', before', 1) = bin
    BY <2>1, AgoIsBin
  <2>3. sum = Total(bin)
    BY <1>6, <2>2 DEF Reduced
  <2> QED
    BY <1>3, <2>2, <2>3
<1>7. ASSUME mode = 0, Ago(bin', before', 2) # <<>>
      PROVE  average' = Averaged(Total(Ago(bin', before', 2)))
  <2>1. Ago(bin', before', 1 + 1) = Ago(bin, before, 1)
    BY <1>5, <1>7
  <2>2. Ago(bin', before', 2) = Ago(bin, before, 1)
    BY <2>1
  <2>3. oldsum = Total(Ago(bin, before, 1))
    BY <1>7, <2>2 DEF Piped
  <2> QED
    BY <1>3, <2>2, <2>3
<1>8. ASSUME Ago(bin', before', Missing(mode)) # <<>>
      PROVE  value' = Summary(mode, Ago(bin', before', Missing(mode)))
  <2>1. CASE mode \in {3, 5, 7}
    <3>1. Missing(mode) = 0
      BY <2>1 DEF Missing
    <3>2. Ago(bin', before', 0) = bin'
      <4>1. Paced'
        BY KeepsPaced
      <4> QED
        BY <4>1, AgoNone DEF Paced
    <3>3. bin' # <<>>
      BY <1>8, <3>1, <3>2
    <3>4. bin'[Len(bin')] = in
      <4>1. CASE out
        BY <4>1, BinSteps, OneInput
      <4>2. CASE ~out /\ busy
        <5>1. bin' = Append(bin, in) /\ bin \in Seq(Levels)
          BY <4>2, BinSteps
        <5> QED
          BY <5>1, AppendProperties
      <4>3. CASE ~out /\ ~busy
        BY <3>3, <4>3, BinSteps
      <4> QED
        BY <4>1, <4>2, <4>3
    <3> QED
      BY <1>2, <2>1, <3>1, <3>2, <3>4, ValueOfInput
  <2>2. CASE mode \in {0, 1, 2, 4, 6}
    <3>1. PICK k \in Nat : k = Missing(mode) - 1 /\ k + 1 = Missing(mode)
      BY <2>2 DEF Missing
    <3>2. Ago(bin', before', k + 1) = Ago(bin, before, k)
      BY <1>5, <1>8, <3>1
    <3>3. busy
      <4>1. SUFFICES ASSUME ~busy
                     PROVE  FALSE
        OBVIOUS
      <4>2. bin' = <<>> /\ before' = <<>>
        BY <4>1 DEF TimeInv, Paced, Clocked, Logic, History
      <4> QED
        BY <1>8, <3>1, <4>2, AgoOfNothing
    <3> QED
      BY <1>2, <1>8, <2>2, <3>1, <3>2, <3>3, ValueOfSum
  <2> QED
    BY <1>1, <2>1, <2>2
<1> QED
  BY <1>1, <1>4, <1>6, <1>7, <1>8 DEF Piped, Passed

-----------------------------------------------------------------------------
(* The writes to RAM.                                                      *)

\* What the bus does with the offers while it takes both or neither.
LEMMA BusEdge ==
    ASSUME NEW a \in BOOLEAN, NEW w \in BOOLEAN, NEW at, NEW data,
           OfferedTogether, Writer!Bus(a, w, at, data)
    PROVE  /\ stalls' \in Nat /\ (stalls' = 0 => stalls = 0)
           /\ stalls' = 0 => addresses' = <<>> /\ datas' = <<>>
           /\ stalls' = 0 => \/ wrote' = <<>>
                             \/ valid /\ wrote' = <<[at |-> at, data |-> data]>>
<1> DEFINE as == Writer!With(addresses, a, at)
           ds == Writer!With(datas, w, data)
<1>1. stalls \in Nat /\ (stalls = 0 => addresses = <<>> /\ datas = <<>>)
  BY DEF OfferedTogether
<1>2. stalls' = stalls + (IF a = w THEN 0 ELSE 1)
  BY DEF Writer!Bus
<1>3. stalls' \in Nat /\ (stalls' = 0 => stalls = 0 /\ (a <=> w))
  <2>1. CASE a = w
    BY <1>1, <1>2, <2>1
  <2>2. CASE a # w
    BY <1>1, <1>2, <2>2
  <2> QED
    BY <2>1, <2>2
<1>4. /\ as # <<>> /\ ds # <<>> =>
             /\ wrote' = <<[at |-> Head(as), data |-> Head(ds)]>>
             /\ addresses' = Tail(as) /\ datas' = Tail(ds)
      /\ as = <<>> \/ ds = <<>> => wrote' = <<>> /\ addresses' = as /\ datas' = ds
  BY DEF Writer!Bus
<1>5. ASSUME stalls' = 0, valid, a
      PROVE  /\ addresses' = <<>> /\ datas' = <<>>
             /\ wrote' = <<[at |-> at, data |-> data]>>
  <2>1. as = Append(<<>>, at) /\ ds = Append(<<>>, data)
    BY <1>1, <1>3, <1>5 DEF Writer!With
  <2>2. as = <<at>> /\ ds = <<data>>
    BY <2>1
  <2> HIDE DEF as, ds
  <2>3. as # <<>> /\ ds # <<>> /\ Head(as) = at /\ Head(ds) = data
    BY <2>2
  <2>4. Tail(as) = <<>> /\ Tail(ds) = <<>>
    BY <2>2
  <2> QED
    BY <1>4, <2>3, <2>4
<1>6. ASSUME stalls' = 0, ~(valid /\ a)
      PROVE  addresses' = <<>> /\ datas' = <<>> /\ wrote' = <<>>
  <2>1. as = <<>> /\ ds = <<>>
    BY <1>1, <1>3, <1>6 DEF Writer!With
  <2> QED
    BY <1>4, <2>1
<1> QED
  BY <1>3, <1>5, <1>6

LEMMA PlaceOfSample ==
    ASSUME TimeInv, busy
    PROVE  Place(taken) = count /\ count \in Nat
<1>1. asked \in Registers /\ taken \in Nat /\ count \in Nat
  BY LevelsFit DEF TimeInv, TypeOK
<1>2. taken + count = Pulses(asked) + 1 /\ Pulses(asked) \in Nat
  BY <1>1, LevelsFit, PulsesFacts DEF TimeInv, Counted
<1> QED
  BY <1>1, <1>2 DEF Place

\* No acquisition begins while a countdown runs.
LEMMA StillTheSame ==
    ASSUME TimeInv, busy, wait > 0, NEW in, NEW a, NEW w, Clocked(in, a, w)
    PROVE  /\ ~out' /\ busy' /\ wait' = wait - 1 /\ count' = count
           /\ asked' = asked /\ taken' = taken /\ port' = port /\ mode' = mode
<1>1. QuietEdge /\ Waits
  BY LevelsFit DEF TimeInv, TypeOK, Clocked, PulseEdge, Starts, Continues, Repeats, QuietEdge, Ends, Rests
<1> QED
  BY <1>1 DEF QuietEdge, Waits, Clocked, Logic, History, Begins

LEMMA KeepsOffered ==
    ASSUME BinsFit, TimeInv, DataInv, NEW in \in Levels,
           NEW a \in BOOLEAN, NEW w \in BOOLEAN, Clocked(in, a, w)
    PROVE  OfferedTogether'
<1>1. Writer!Bus(a, w, address, [v |-> value, due |-> Due(offered, value), place |-> Place(taken)])
  BY DEF Clocked, Logic
<1>2. stalls' \in Nat /\ (stalls' = 0 => addresses' = <<>> /\ datas' = <<>>)
  BY <1>1, BusEdge DEF DataInv
<1>3. ASSUME valid'
      PROVE  /\ port' # NoPort
             /\ busy'
             /\ address' = RamAddress(Place(taken))'
             /\ value' = Due(offered, value)'
  <2>1. out /\ port # NoPort
    <3>1. ASSUME NEW x, NEW y, valid' = (x /\ y)
          PROVE  x /\ y
      BY <1>3, <3>1
    <3> QED
      BY Zenon, <3>1 DEF Clocked, Logic, Writer!Clock
  <2>2. busy /\ wait > 0
    BY <2>1, LevelsFit DEF TimeInv, TypeOK, Paced
  <2>3. /\ ~out' /\ busy' /\ wait' = wait - 1 /\ count' = count
        /\ asked' = asked /\ taken' = taken /\ port' = port /\ mode' = mode
    BY <2>2, StillTheSame
  <2>4. address' = RamAddress(Place(taken))'
    <3>1. address' = RamAddress(count)
      BY <2>1 DEF Clocked, Logic, Pipeline
    <3>2. Place(taken) = count
      BY <2>2, PlaceOfSample
    <3> QED
      BY <2>3, <3>1, <3>2 DEF RamAddress, Place
  <2>5. CASE bin = <<>>
    <3>1. offered' = <<>>
      BY <2>5 DEF Clocked, Logic, History
    <3> QED
      BY <2>2, <2>3, <2>1, <2>4, <2>5, <3>1 DEF Due
  <2>6. CASE bin # <<>>
    <3>1. offered' = Ago(Append(bin, in), before, Missing(mode))
      BY <2>1, <2>6 DEF Clocked, Logic, History, Passed
    <3>2. bin \in Seq(Levels) /\ before \in Seq(Levels) /\ mode \in 0..7
      BY ChoicesAssumption DEF TimeInv, TypeOK, Paced
    <3>3. Pipeline(in) /\ Reduced /\ Piped
      BY DEF DataInv, Clocked, Logic
    <3>4. ASSUME offered' # <<>>
          PROVE  value' = Summary(mode, offered')
      <4>1. CASE mode \in {3, 5, 7}
        <5>1. Missing(mode) = 0
          BY <4>1 DEF Missing
        <5>2. /\ Append(bin, in) \in Seq(Levels) /\ Append(bin, in) # <<>>
              /\ Append(bin, in)[Len(Append(bin, in))] = in
          BY <3>2, AppendProperties
        <5>3. offered' = Append(bin, in)
          BY <3>1, <3>2, <5>1, <5>2, AgoNone
        <5> QED
          BY <3>3, <4>1, <5>2, <5>3, ValueOfInput
      <4>2. CASE mode \in {0, 1, 2, 4, 6}
        <5>1. PICK k \in Nat : k = Missing(mode) - 1 /\ k + 1 = Missing(mode)
          BY <4>2 DEF Missing
        <5>2. offered' = Ago(bin, before, k)
          BY <3>1, <3>2, <5>1, AgoAppend
        <5> QED
          BY <2>2, <3>3, <3>4, <4>2, <5>1, <5>2, ValueOfSum
      <4> QED
        BY <3>2, <4>1, <4>2
    <3>5. value' = Due(offered, value)'
      BY <2>3, <3>4 DEF Due
    <3> QED
      BY <2>1, <2>2, <2>3, <2>4, <3>5
  <2> QED
    BY <2>5, <2>6
<1> QED
  BY <1>2, <1>3 DEF OfferedTogether

LEMMA KeepsWritten ==
    ASSUME TimeInv, DataInv, NEW in,
           NEW a \in BOOLEAN, NEW w \in BOOLEAN, Clocked(in, a, w)
    PROVE  RamHoldsBins'
<1> DEFINE data == [v |-> value, due |-> Due(offered, value), place |-> Place(taken)]
<1>1. Writer!Bus(a, w, address, data) /\ port' = port
  BY DEF Clocked, Logic
<1>2. SUFFICES ASSUME stalls' = 0, wrote' # <<>>
               PROVE  RamHoldsBins'
  BY EmptySeq DEF RamHoldsBins
<1>3. valid /\ wrote' = <<[at |-> address, data |-> data]>>
  BY <1>1, <1>2, BusEdge DEF DataInv
<1>4. /\ port # NoPort /\ busy
      /\ address = RamAddress(Place(taken)) /\ value = Due(offered, value)
  BY <1>3 DEF DataInv, OfferedTogether
<1>5. Place(taken) \in Nat
  BY <1>4, PlaceOfSample
<1>6. Place(taken) < AreaSpan => address = AreaSpan * port + Place(taken)
  <2>1. port \in 0..3
    BY <1>4, ChoicesAssumption DEF TimeInv, TypeOK
  <2>2. Place(taken) < AreaSpan => Place(taken) \in 0..(AreaSpan - 1)
    BY <1>5, LevelsFit
  <2> QED
    BY <1>4, <2>1, <2>2, AddressInArea
<1>7. Len(wrote') = 1 /\ wrote'[1] = [at |-> address, data |-> data]
  BY <1>3
<1> QED
  BY <1>1, <1>4, <1>6, <1>7 DEF RamHoldsBins

-----------------------------------------------------------------------------
(* The theorems about what is stored.                                      *)

LEMMA KeepsData ==
    ASSUME BinsFit, TimeInv, DataInv, Next
    PROVE  DataInv'
<1>1. CASE SetLength
  <2>1. /\ UNCHANGED <<mode, port, busy, out, wait, valid, addresses, datas, wrote, stalls>>
        /\ UNCHANGED <<sum, max, min, samples, edges, below, oldsum, average, value, address>>
        /\ UNCHANGED <<bin, before, offered, asked, taken>>
    BY <1>1 DEF SetLength, burst, axi, acc, pipe, hist
  <2>2. Reduced' /\ Piped'
    BY <2>1 DEF DataInv, Reduced, Piped, Passed
  <2>3. OfferedTogether' /\ RamHoldsBins'
    BY <2>1 DEF DataInv, OfferedTogether, RamHoldsBins, RamAddress, Place, Due
  <2> QED
    BY <2>2, <2>3 DEF DataInv
<1>2. CASE ~SetLength
  <2>1. PICK in \in Inputs, a \in BOOLEAN, w \in BOOLEAN : Clocked(in, a, w)
    BY <1>2, ClockEdge
  <2>2. in \in Levels
    BY LevelsFit
  <2>3. Reduced' /\ Piped'
    BY <2>1, <2>2, KeepsReduced, KeepsPiped DEF DataInv
  <2>4. OfferedTogether' /\ RamHoldsBins'
    BY <2>1, <2>2, KeepsOffered, KeepsWritten
  <2> QED
    BY <2>3, <2>4 DEF DataInv
<1> QED
  BY <1>1, <1>2

LEMMA InitData ==
    ASSUME Init
    PROVE  DataInv
<1>1. /\ bin = <<>> /\ value = 0 /\ Len(<<>>) = 0 /\ mode \in 0..7
      /\ valid = FALSE /\ stalls = 0 /\ addresses = <<>> /\ datas = <<>> /\ wrote = <<>>
  BY ChoicesAssumption DEF Init, Writer!Init
<1>2. before = <<>> /\ Missing(mode) \in Nat /\ 1 \in Nat /\ 2 \in Nat
  BY <1>1, MissingFacts DEF Init
<1>3. Reduced /\ Piped
  BY <1>1, <1>2, AgoOfNothing DEF Reduced, Piped, Passed
<1>4. OfferedTogether /\ RamHoldsBins
  BY <1>1 DEF OfferedTogether, RamHoldsBins
<1> QED
  BY <1>3, <1>4 DEF DataInv

LEMMA DataInvariance ==
    ASSUME BinsFit
    PROVE  Spec => [](TimeInv /\ DataInv)
<1>1. Init => DataInv
  BY InitData
<1>2. TimeInv /\ DataInv /\ [Next]_vars => DataInv'
  <2>1. ASSUME DataInv, UNCHANGED vars
        PROVE  DataInv'
    <3>1. /\ UNCHANGED <<mode, port, busy, out, wait, valid, addresses, datas, wrote, stalls>>
          /\ UNCHANGED <<sum, max, min, samples, edges, below, oldsum, average, value, address>>
          /\ UNCHANGED <<bin, before, offered, asked, taken>>
      BY <2>1 DEF vars, burst, axi, acc, pipe, hist
    <3>2. Reduced' /\ Piped'
      BY <2>1, <3>1 DEF DataInv, Reduced, Piped, Passed
    <3>3. OfferedTogether' /\ RamHoldsBins'
      BY <2>1, <3>1 DEF DataInv, OfferedTogether, RamHoldsBins, RamAddress, Place, Due
    <3> QED
      BY <3>2, <3>3 DEF DataInv
  <2> QED
    BY <2>1, KeepsData
<1> QED
  BY <1>1, <1>2, TimesInvariance, PTL DEF Spec

(* Whatever the mode, the factor and the period, as long as the counters   *)
(* of a bin do not wrap, what is written to an array register at a pulse   *)
(* is the reduction of what has passed through the registers: all but the  *)
(* last inputs of the bin that the pulse ends, or, if it is not longer     *)
(* than those, of the bin before.  It is written to the cell of its number *)
(* (daq.py:155-202 and 227-234).                                           *)
THEOREM RegisterStoresBins ==
    ASSUME BinsFit
    PROVE  Spec => []RegisterHoldsBins
<1>1. TimeInv /\ DataInv => RegisterHoldsBins
  <2>1. SUFFICES ASSUME TimeInv, DataInv, out
                 PROVE  count % Depth = Place(taken) % Depth /\ value = Due(Passed(bin, before), value)
    BY DEF RegisterHoldsBins
  <2>2. busy
    BY <2>1 DEF TimeInv, Paced
  <2>3. Place(taken) = count
    BY <2>1, <2>2, PlaceOfSample
  <2>4. value = Summary(mode, Passed(bin, before)) \/ Passed(bin, before) = <<>>
    BY <2>1 DEF DataInv, Piped
  <2> QED
    BY <2>3, <2>4 DEF Due
<1> QED
  BY <1>1, DataInvariance, PTL

(* The same for RAM, with one input more, whatever the bus accepts in      *)
(* which cycle, as long as it accepts address and data of a sample         *)
(* together: what it writes is the sample's, and the address is that of    *)
(* its place in the port's area, if the place fits into the area           *)
(* (daq.py:243-262, axiwriter.py:55-98).                                   *)
THEOREM RamStoresBins ==
    ASSUME BinsFit
    PROVE  Spec => []RamHoldsBins
<1>1. DataInv => RamHoldsBins
  BY DEF DataInv
<1> QED
  BY <1>1, DataInvariance, PTL
============================================================================
