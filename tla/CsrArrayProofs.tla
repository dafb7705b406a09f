--------------------------- MODULE CsrArrayProofs ---------------------------
(***************************************************************************)
(* Proofs about CsrArray for registers of every depth and width.           *)
(*                                                                         *)
(* Two facts about the surroundings are hypotheses of every theorem.       *)
(* Without IndexFits the index of a cell may not fit into the word, and    *)
(* without SlowBus an access would find the pipeline still busy with the   *)
(* one before.                                                             *)
(***************************************************************************)
EXTENDS CsrArray, TLAPS

IndexFits == Depth <= Span
SlowBus   == BusGap >= 4
Proper    == IndexFits /\ SlowBus

-----------------------------------------------------------------------------
(* The bus words.                                                          *)

\* Reduction modulo n leaves the numbers below n alone.
LEMMA SmallMod ==
    ASSUME NEW n \in Nat \ {0}, NEW a \in 0..(n - 1)
    PROVE  a % n = a
  OBVIOUS

\* An index access selects the cell it names, and is not a store.
LEMMA IndexWordMeaning ==
    ASSUME IndexFits, NEW i \in Index
    PROVE  /\ IndexWord(i) \in Word
           /\ LsbSet(IndexWord(i))
           /\ Address(IndexWord(i)) = i
<1>1. i \in Nat /\ Depth \in Nat /\ Span \in Nat /\ i < Depth /\ Depth <= Span
  BY DepthAssumption, SpanAssumption DEF IndexFits, Index
<1>2. (2 * i + 1) \in 0..(2 * Span - 1) /\ 2 * Span \in Nat \ {0}
  BY <1>1
<1>3. IndexWord(i) = 2 * i + 1
  BY <1>2, SmallMod DEF IndexWord
<1>4. (2 * i + 1) % 2 = 1 /\ (2 * i + 1) \div 2 = i
  BY <1>1
<1>5. i % Depth = i
  BY <1>1, DepthAssumption, SmallMod DEF Index
<1> QED
  BY <1>2, <1>3, <1>4, <1>5 DEF Word, LsbSet, Address, Upper

\* A data access carries its value, and is not a selection.
LEMMA ValueWordMeaning ==
    ASSUME NEW v \in Value
    PROVE  /\ ValueWord(v) \in Word
           /\ ~LsbSet(ValueWord(v))
           /\ Upper(ValueWord(v)) = v
  BY SpanAssumption DEF Value, Word, ValueWord, LsbSet, Upper

\* Whatever the word, its upper part is a value and selects a cell.
LEMMA WordParts ==
    ASSUME NEW w \in Word
    PROVE  Upper(w) \in Value /\ Address(w) \in Index
<1>1. w \in Nat /\ w < 2 * Span /\ Span \in Nat
  BY SpanAssumption DEF Word
<1>2. Upper(w) \in Nat /\ Upper(w) < Span
  BY <1>1 DEF Upper
<1>3. Address(w) \in 0..(Depth - 1)
  BY <1>2, DepthAssumption DEF Address
<1> QED
  BY <1>2, <1>3, SpanAssumption DEF Value, Index

\* A value is a word.
LEMMA ValueIsWord == Value \subseteq Word /\ Index \subseteq Int /\ 0 \in Index /\ 0 \in Value /\ 0 \in Word
  BY SpanAssumption, DepthAssumption DEF Value, Word, Index

-----------------------------------------------------------------------------
(* The inductive invariant.                                                *)

\* The server is at a place of its loops, and only writes writable arrays.
LoopInv ==
    /\ op = "idle" => phase = "index"
    /\ op # "idle" => IF len > 1 THEN pos < len ELSE pos = 0
    /\ phase = "data" => len > 1
    /\ op = "read" => len = Depth
    /\ op = "write" => ~Readonly

\* After an index access, the time that passed says how far the request to
\* copy the selected cell has come; after four cycles the copy is there.
SelectInv ==
    phase = "data" =>
        /\ op # "idle"
        /\ ~portWe
        /\ re <=> quiet = 0
        /\ quiet = 0 => storage = IndexWord(pos)
        /\ wePipeline[0] <=> quiet = 1
        /\ wePipeline[1] <=> quiet = 2
        /\ csrWe <=> quiet = 3
        /\ quiet > 0 => adr = pos
        /\ quiet > 1 => memadr = pos
        /\ quiet > 3 => storage \in seen
        /\ quiet > 3 /\ ~Readonly => storage = mem[pos]
        /\ mem[pos] \in seen

\* Otherwise the last access, a store or the word of a short list, has its
\* effect on the memory within two cycles and on the word within four.
SettleInv ==
    phase = "index" =>
        /\ re => quiet = 0
        /\ wePipeline[0] => quiet = 1
        /\ wePipeline[1] => quiet = 2
        /\ csrWe => quiet = 3
        /\ portWe => quiet = 1

\* The part of the buffer that was transferred is equal to the array.
TransferInv ==
    ~Readonly /\ op # "idle" => \A i \in Index : i < pos => buf[i] = Cells[i]

IInv == TypeOK /\ LoopInv /\ SelectInv /\ SettleInv /\ TransferInv

-----------------------------------------------------------------------------
(* One clock edge.                                                         *)

\* A clock edge keeps the registers and the memory in their types.
LEMMA EdgeTypes ==
    ASSUME TypeOK, NEW b \in BOOLEAN, NEW w \in Word, Edge(b, w)
    PROVE  /\ mem' \in [Index -> Value]
           /\ storage' \in Word
           /\ re' \in BOOLEAN
           /\ adr' \in Index
           /\ memadr' \in Index
           /\ wePipeline' \in [0..1 -> BOOLEAN]
           /\ csrWe' \in BOOLEAN
           /\ datW' \in Value
           /\ portWe' \in BOOLEAN
<1>1. mem' \in [Index -> Value]
  BY DEF Edge, NextMem, TypeOK
<1>2. mem[memadr] \in Word
  BY ValueIsWord DEF TypeOK
<1>3. storage' \in Word
  BY <1>2 DEF Edge, NextStorage, DatR, TypeOK
<1>4. adr' \in Index /\ memadr' \in Index /\ datW' \in Value
  BY WordParts DEF Edge, TypeOK
<1>5. UpdateIndex \in BOOLEAN /\ UpdateValue \in BOOLEAN
  BY DEF UpdateIndex, UpdateValue, TypeOK
<1>6. wePipeline' \in [0..1 -> BOOLEAN]
  BY <1>5 DEF Edge, PipelineShift, TypeOK
<1>7. re' \in BOOLEAN /\ csrWe' \in BOOLEAN /\ portWe' \in BOOLEAN
  BY <1>5 DEF Edge, NextCsrWe, TypeOK
<1> QED
  BY <1>1, <1>3, <1>4, <1>6, <1>7

\* On a writable array an edge performs the store that was on its way, and
\* nothing else; what is on its way next is what the word asked for.
LEMMA EdgeStores ==
    ASSUME IInv, ~Readonly, NEW b \in BOOLEAN, NEW w \in Word, Edge(b, w),
           b => ~re /\ ~portWe
    PROVE  Cells' = IF b /\ ~LsbSet(w) THEN [Cells EXCEPT ![adr] = Upper(w)] ELSE Cells
<1>1. re' = b /\ portWe' = UpdateValue /\ datW' = Upper(storage)
  BY DEF Edge
<1>2. mem' = IF portWe THEN [mem EXCEPT ![adr] = datW] ELSE mem
  BY DEF Edge, NextMem
<1>3. UpdateValue' <=> b /\ ~LsbSet(storage')
  BY <1>1 DEF UpdateValue
<1>4. ~UpdateIndex => adr' = adr
  BY DEF Edge
<1>5. b => storage' = w
  BY DEF Edge, NextStorage
<1>6. UpdateValue => ~UpdateIndex
  BY DEF UpdateValue, UpdateIndex
<1>7. CASE b
  <2>1. ~UpdateValue /\ ~UpdateIndex /\ ~portWe
    BY <1>7 DEF UpdateValue, UpdateIndex
  <2> QED
    BY <1>1, <1>2, <1>3, <1>4, <1>5, <1>7, <2>1 DEF Cells
<1>8. CASE ~b
  <2>1. ~UpdateValue'
    BY <1>3, <1>8
  <2>2. ~(portWe /\ UpdateValue)
    BY DEF IInv, TypeOK, SelectInv, SettleInv, UpdateValue
  <2>3. CASE portWe
    BY <1>1, <1>2, <1>8, <2>1, <2>2, <2>3 DEF Cells
  <2>4. CASE UpdateValue
    BY <1>1, <1>2, <1>4, <1>6, <1>8, <2>1, <2>2, <2>4 DEF Cells
  <2>5. CASE ~portWe /\ ~UpdateValue
    BY <1>1, <1>2, <1>8, <2>1, <2>5 DEF Cells
  <2> QED
    BY <2>3, <2>4, <2>5
<1> QED
  BY <1>7, <1>8

-----------------------------------------------------------------------------
(* The invariant is inductive.                                             *)

\* The invariant holds at power-on.
LEMMA InitInv ==
    ASSUME Proper, Init
    PROVE  IInv
<1>1. BusGap \in Nat /\ BusGap >= 4 /\ Depth \in Nat
  BY BusGapAssumption, DepthAssumption DEF Proper, SlowBus
<1>2. TypeOK
  <2>1. /\ mem \in [Index -> Value] /\ buf \in [Index -> Value]
        /\ wePipeline \in [0..1 -> BOOLEAN]
    BY ValueIsWord DEF Init
  <2>2. len \in 0..Depth /\ pos \in 0..Depth /\ quiet \in 0..BusGap
    BY <1>1 DEF Init
  <2> QED
    BY <2>1, <2>2, ValueIsWord DEF Init, TypeOK
<1>3. LoopInv /\ SelectInv /\ SettleInv /\ TransferInv
  BY DEF Init, LoopInv, SelectInv, SettleInv, TransferInv
<1> QED
  BY <1>2, <1>3 DEF IInv

\* A request in the registers is one cycle further after a cycle without a
\* bus access.
LEMMA TickInv ==
    ASSUME Proper, IInv, Tick
    PROVE  IInv'
<1> USE DEF IInv
<1>1. BusGap \in Nat /\ BusGap >= 4
  BY BusGapAssumption DEF Proper, SlowBus
<1>2. Edge(FALSE, 0) /\ UNCHANGED <<op, len, pos, phase, buf>>
  BY DEF Tick, server
<1>3. /\ quiet \in Nat /\ quiet' \in 0..BusGap
      /\ quiet' # 0
      /\ quiet = 0 => quiet' = 1
      /\ \A k \in 1..3 : quiet' = k <=> quiet = k - 1
      /\ quiet' > 3 <=> quiet >= 3
  BY <1>1 DEF Tick, TypeOK
<1>4. TypeOK'
  <2>1. seen' \subseteq Value
    <3>1. mem' \in [Index -> Value]
      BY <1>2, EdgeTypes, ValueIsWord
    <3> QED
      BY <3>1 DEF Tick, TypeOK
  <2> QED
    BY <1>2, <1>3, <2>1, EdgeTypes, ValueIsWord DEF TypeOK
<1>5. LoopInv'
  BY <1>2 DEF LoopInv
<1>6. SelectInv'
  <2> SUFFICES ASSUME phase' = "data"
               PROVE  SelectInv'
    BY DEF SelectInv
  <2>1. phase = "data" /\ pos \in Index /\ pos' = pos /\ op' = op
    BY <1>2, DepthAssumption DEF SelectInv, LoopInv, TypeOK, Index
  <2>2. ~re' /\ op' # "idle"
    BY <1>2, <2>1 DEF Edge, SelectInv
  <2>3. UpdateIndex <=> quiet = 0
    BY <2>1, IndexWordMeaning DEF SelectInv, UpdateIndex, Proper
  <2>4. ~UpdateValue
    BY <2>1, IndexWordMeaning DEF SelectInv, UpdateValue, Proper
  <2>5. ~portWe'
    BY <1>2, <2>4 DEF Edge
  <2>6. /\ wePipeline'[0] <=> quiet' = 1
        /\ wePipeline'[1] <=> quiet' = 2
        /\ csrWe' <=> quiet' = 3
    BY <1>2, <1>3, <2>1, <2>3 DEF Edge, PipelineShift, NextCsrWe, SelectInv, TypeOK
  <2>7. adr' = pos'
    BY <1>2, <1>3, <2>1, <2>3, IndexWordMeaning DEF Edge, SelectInv, Proper, TypeOK
  <2>8. quiet' > 1 => memadr' = pos'
    BY <1>2, <1>3, <2>1 DEF Edge, SelectInv, TypeOK
  <2>9. mem'[pos] \in seen' /\ seen \subseteq seen'
    BY <2>1 DEF Tick
  <2>10. ASSUME quiet' > 3
         PROVE  storage' \in seen' /\ (~Readonly => storage' = mem'[pos])
    <3>1. ~Readonly => mem' = mem
      BY <1>2, <2>1 DEF Edge, NextMem, SelectInv
    <3>2. CASE quiet = 3
      <4>1. storage' = mem[pos]
        BY <1>2, <2>1, <3>2 DEF Edge, NextStorage, DatR, SelectInv
      <4> QED
        BY <2>1, <2>9, <3>1, <4>1 DEF SelectInv
    <3>3. CASE quiet > 3
      <4>1. storage' = storage
        BY <1>2, <2>1, <3>3 DEF Edge, NextStorage, SelectInv
      <4> QED
        BY <2>1, <2>9, <3>1, <3>3, <4>1 DEF SelectInv
    <3> QED
      BY <1>3, <2>10, <3>2, <3>3
  <2> QED
    BY <1>2, <1>3, <2>1, <2>2, <2>5, <2>6, <2>7, <2>8, <2>9, <2>10 DEF SelectInv
<1>7. SettleInv'
  <2> SUFFICES ASSUME phase' = "index"
               PROVE  SettleInv'
    BY DEF SettleInv
  <2>1. phase = "index"
    BY <1>2
  <2>2. UpdateIndex => quiet = 0
    BY <2>1 DEF SettleInv, UpdateIndex
  <2>3. /\ ~re'
        /\ wePipeline'[0] => quiet' = 1
        /\ wePipeline'[1] => quiet' = 2
        /\ csrWe' => quiet' = 3
    BY <1>2, <1>3, <2>1, <2>2 DEF Edge, PipelineShift, NextCsrWe, SettleInv
  <2>4. portWe' => quiet' = 1
    BY <1>2, <1>3, <2>1 DEF Edge, UpdateValue, SettleInv
  <2> QED
    BY <2>3, <2>4 DEF SettleInv
<1>8. TransferInv'
  <2>1. ~Readonly => Cells' = Cells
    BY <1>2, EdgeStores, ValueIsWord
  <2> QED
    BY <1>2, <2>1 DEF TransferInv
<1> QED
  BY <1>4, <1>5, <1>6, <1>7, <1>8

\* Starting an operation touches neither the gateware nor the array.
LEMMA StartInv ==
    ASSUME Proper, IInv, StartRead \/ StartWrite
    PROVE  IInv'
<1> USE DEF IInv
<1>1. /\ UNCHANGED <<mem, storage, re, adr, memadr, wePipeline, csrWe, datW, portWe>>
      /\ UNCHANGED <<phase, quiet, seen>>
      /\ op = "idle" /\ pos' = 0
  BY DEF StartRead, StartWrite, csr
<1>2. phase = "index" /\ phase' = "index"
  BY <1>1 DEF LoopInv
<1>3. 1 < Depth /\ Depth \in Nat
  BY DepthAssumption
<1>4. /\ len' \in 0..Depth
      /\ op' = "read" => len' = Depth
      /\ op' = "write" => ~Readonly
      /\ op' \in {"read", "write"}
      /\ buf' \in [Index -> Value]
  <2>1. CASE StartRead
    BY <1>3, <2>1 DEF StartRead, TypeOK
  <2>2. CASE StartWrite
    BY <2>2, LengthsAssumption DEF StartWrite
  <2> QED
    BY <2>1, <2>2
<1>5. TypeOK'
  BY <1>1, <1>3, <1>4 DEF TypeOK
<1>6. LoopInv' /\ SelectInv'
  BY <1>1, <1>2, <1>3, <1>4 DEF LoopInv, SelectInv
<1>7. SettleInv'
  BY <1>1, <1>2 DEF SettleInv
<1>8. TransferInv'
  BY <1>1, ValueIsWord DEF TransferInv, Index
<1> QED
  BY <1>5, <1>6, <1>7, <1>8

\* When the bus lets the server continue, nothing is under way in the
\* gateware any more, and the element it continues with is a cell.
LEMMA Settled ==
    ASSUME Proper, IInv, BusReady, op # "idle"
    PROVE  /\ ~re /\ ~portWe /\ ~csrWe
           /\ ~wePipeline[0] /\ ~wePipeline[1]
           /\ pos \in Index /\ pos \in Nat
           /\ quiet > 3
           /\ BusGap \in Nat /\ BusGap >= 4
           /\ Depth \in Nat /\ Depth > 1
<1> USE DEF IInv
<1>1. BusGap \in Nat /\ BusGap >= 4 /\ quiet \in Nat /\ quiet > 3
  BY BusGapAssumption DEF Proper, SlowBus, BusReady, TypeOK
<1>2. pos \in Nat /\ pos \in Index
  BY DepthAssumption DEF TypeOK, LoopInv, Index
<1>3. phase = "data" \/ phase = "index"
  BY DEF TypeOK
<1>4. ~re /\ ~portWe /\ ~csrWe /\ ~wePipeline[0] /\ ~wePipeline[1]
  BY <1>1, <1>3 DEF SelectInv, SettleInv
<1> QED
  BY <1>1, <1>2, <1>4, DepthAssumption

\* A bus access that finds the gateware settled leaves its pipeline empty.
LEMMA AccessStartsAfresh ==
    ASSUME Proper, IInv, BusReady, op # "idle",
           NEW b \in BOOLEAN, NEW w \in Word, Edge(b, w)
    PROVE  /\ re' = b
           /\ b => storage' = w
           /\ ~wePipeline'[0] /\ ~wePipeline'[1] /\ ~csrWe' /\ ~portWe'
           /\ adr' = adr
           /\ ~Readonly => mem' = mem /\ Cells = mem
<1>1. ~re /\ ~portWe /\ ~csrWe /\ ~wePipeline[0] /\ ~wePipeline[1]
  BY Settled
<1>2. ~UpdateIndex /\ ~UpdateValue
  BY <1>1 DEF UpdateIndex, UpdateValue
<1> QED
  BY <1>1, <1>2 DEF Edge, NextStorage, PipelineShift, NextCsrWe, NextMem, Cells

\* Selecting the next element.
LEMMA BusIndexInv ==
    ASSUME Proper, IInv, BusIndex
    PROVE  IInv'
<1> USE DEF IInv
<1>1. /\ Edge(TRUE, IndexWord(pos)) /\ quiet' = 0
      /\ op # "idle" /\ len > 1 /\ BusReady
      /\ phase' = "data" /\ seen' = {mem'[pos]}
      /\ UNCHANGED <<op, len, pos, buf>>
  BY DEF BusIndex, BusWrite
<1>2. pos \in Index /\ BusGap \in Nat
  BY <1>1, Settled
<1>3. IndexWord(pos) \in Word /\ LsbSet(IndexWord(pos))
  BY <1>2, IndexWordMeaning DEF Proper
<1>4. TypeOK'
  <2>1. mem' \in [Index -> Value]
    BY <1>1, <1>3, EdgeTypes
  <2>2. seen' \subseteq Value
    BY <1>1, <1>2, <2>1
  <2>3. quiet' \in 0..BusGap /\ phase' \in {"index", "data"}
    BY <1>1, <1>2
  <2>4. op' = op /\ len' = len /\ pos' = pos /\ buf' = buf
    BY <1>1
  <2> QED
    BY <1>1, <1>3, <2>2, <2>3, <2>4, EdgeTypes DEF TypeOK
<1>5. LoopInv'
  BY <1>1 DEF LoopInv
<1>6. SelectInv'
  <2>1. /\ re' /\ storage' = IndexWord(pos)
        /\ ~wePipeline'[0] /\ ~wePipeline'[1] /\ ~csrWe' /\ ~portWe'
    BY <1>1, <1>3, AccessStartsAfresh
  <2>2. IndexWord(pos)' = IndexWord(pos')
    BY DEF IndexWord
  <2> QED
    BY <1>1, <2>1 DEF SelectInv
<1>7. SettleInv'
  BY <1>1 DEF SettleInv
<1>8. TransferInv'
  <2>1. ~Readonly => Cells' = Cells
    BY <1>1, <1>3, EdgeStores, Settled
  <2> QED
    BY <1>1, <2>1 DEF TransferInv
<1> QED
  BY <1>4, <1>5, <1>6, <1>7, <1>8

\* The server's loop goes on to the next element or ends.
LEMMA AdvanceLoop ==
    ASSUME Proper, IInv, BusReady, op # "idle", len > 1, Advance
    PROVE  /\ op' \in {"idle", "read", "write"}
           /\ len' \in 0..Depth /\ pos' \in 0..Depth
           /\ phase' = "index"
           /\ LoopInv'
<1>1. pos \in Nat /\ pos < len /\ len \in 0..Depth /\ Depth \in Nat
  BY Settled DEF IInv, LoopInv, TypeOK
<1>2. pos' \in 0..Depth
  BY <1>1 DEF Advance
<1> QED
  BY <1>1, <1>2 DEF Advance, IInv, LoopInv, TypeOK

\* Fetching the selected element: the word holds a value that the cell had,
\* on a writable array the value it has.
LEMMA FetchesSelected ==
    ASSUME Proper, IInv, BusFetch
    PROVE  /\ buf' = [buf EXCEPT ![pos] = storage]
           /\ pos \in Index
           /\ storage \in Value /\ storage \in seen
           /\ ~Readonly => storage = Cells[pos] /\ Cells' = Cells
<1> USE DEF IInv
<1>1. /\ Edge(FALSE, 0) /\ op # "idle" /\ BusReady /\ phase = "data"
      /\ buf' = [buf EXCEPT ![pos] = storage]
  BY DEF BusFetch, BusRead
<1>2. pos \in Index /\ quiet > 3
  BY <1>1, Settled
<1>3. storage \in seen /\ (~Readonly => storage = mem[pos])
  BY <1>1, <1>2 DEF SelectInv
<1>4. ~Readonly => Cells = mem
  BY <1>1, ValueIsWord, AccessStartsAfresh
<1>5. ~Readonly => Cells' = Cells
  BY <1>1, ValueIsWord, EdgeStores
<1> QED
  BY <1>1, <1>2, <1>3, <1>4, <1>5 DEF TypeOK

LEMMA BusFetchInv ==
    ASSUME Proper, IInv, BusFetch
    PROVE  IInv'
<1> USE DEF IInv
<1>1. /\ Edge(FALSE, 0) /\ quiet' = 0 /\ Advance
      /\ op # "idle" /\ len > 1 /\ BusReady /\ UNCHANGED seen
  BY DEF BusFetch, BusRead
<1>2. /\ buf' = [buf EXCEPT ![pos] = storage] /\ pos \in Index /\ storage \in Value
      /\ ~Readonly => storage = Cells[pos] /\ Cells' = Cells
  BY FetchesSelected
<1>3. BusGap \in Nat
  BY <1>1, Settled
<1>4. TypeOK'
  <2>1. buf' \in [Index -> Value] /\ quiet' \in 0..BusGap /\ phase' \in {"index", "data"}
    BY <1>1, <1>2, <1>3, AdvanceLoop DEF TypeOK
  <2> QED
    BY <1>1, <2>1, ValueIsWord, EdgeTypes, AdvanceLoop DEF TypeOK
<1>5. LoopInv' /\ SelectInv'
  BY <1>1, AdvanceLoop DEF SelectInv
<1>6. SettleInv'
  BY <1>1, ValueIsWord, AccessStartsAfresh DEF SettleInv
<1>7. TransferInv'
  <2> SUFFICES ASSUME ~Readonly, NEW i \in Index, i < pos'
               PROVE  buf'[i] = Cells'[i]
    BY DEF TransferInv
  <2>1. i < pos \/ i = pos
    BY <1>1, <1>2 DEF Advance, Index
  <2> QED
    BY <1>1, <1>2, <2>1 DEF TransferInv, TypeOK
<1> QED
  BY <1>4, <1>5, <1>6, <1>7

\* Storing an element changes the selected cell, and that is all.
LEMMA StoresSelected ==
    ASSUME Proper, IInv, BusStore
    PROVE  /\ pos \in Index
           /\ UNCHANGED buf
           /\ ValueWord(buf[pos]) \in Word
           /\ ~LsbSet(ValueWord(buf[pos]))
           /\ Cells' = [Cells EXCEPT ![pos] = buf[pos]]
<1> USE DEF IInv
<1>1. /\ Edge(TRUE, ValueWord(buf[pos])) /\ op = "write" /\ BusReady /\ phase = "data"
      /\ UNCHANGED buf
  BY DEF BusStore, BusWrite
<1>2. pos \in Index /\ quiet > 3 /\ ~re /\ ~portWe
  BY <1>1, Settled
<1>3. adr = pos
  BY <1>1, <1>2 DEF SelectInv, TypeOK
<1>4. buf[pos] \in Value
  BY <1>2 DEF TypeOK
<1>5. /\ ValueWord(buf[pos]) \in Word
      /\ ~LsbSet(ValueWord(buf[pos]))
      /\ Upper(ValueWord(buf[pos])) = buf[pos]
  BY <1>4, ValueWordMeaning
<1>6. ~Readonly
  BY <1>1 DEF LoopInv
<1> QED
  BY <1>1, <1>2, <1>3, <1>5, <1>6, EdgeStores

LEMMA BusStoreInv ==
    ASSUME Proper, IInv, BusStore
    PROVE  IInv'
<1> USE DEF IInv
<1>1. /\ Edge(TRUE, ValueWord(buf[pos])) /\ quiet' = 0 /\ Advance
      /\ op # "idle" /\ op = "write" /\ len > 1 /\ BusReady /\ UNCHANGED seen
  BY DEF BusStore, BusWrite
<1>2. /\ pos \in Index /\ UNCHANGED buf
      /\ ValueWord(buf[pos]) \in Word /\ ~LsbSet(ValueWord(buf[pos]))
      /\ Cells' = [Cells EXCEPT ![pos] = buf[pos]]
  BY StoresSelected
<1>3. BusGap \in Nat
  BY <1>1, Settled
<1>4. TypeOK'
  <2>1. quiet' \in 0..BusGap /\ phase' \in {"index", "data"}
    BY <1>1, <1>3, AdvanceLoop
  <2> QED
    BY <1>1, <1>2, <2>1, EdgeTypes, AdvanceLoop DEF TypeOK
<1>5. LoopInv' /\ SelectInv'
  BY <1>1, AdvanceLoop DEF SelectInv
<1>6. SettleInv'
  <2>1. LsbSet(storage)' = LsbSet(storage')
    BY DEF LsbSet
  <2> QED
    BY <1>1, <1>2, <2>1, AccessStartsAfresh DEF SettleInv, LoopInv
<1>7. TransferInv'
  <2> SUFFICES ASSUME ~Readonly, NEW i \in Index, i < pos'
               PROVE  buf'[i] = Cells'[i]
    BY DEF TransferInv
  <2>1. i < pos \/ i = pos
    BY <1>1, <1>2 DEF Advance, Index
  <2>2. Cells \in [Index -> Value]
    BY <1>1, <1>2, AccessStartsAfresh DEF TypeOK
  <2>3. Cells'[i] = IF i = pos THEN buf[pos] ELSE Cells[i]
    BY <1>2, <2>2
  <2> QED
    BY <1>1, <1>2, <2>1, <2>3 DEF TransferInv, TypeOK
<1> QED
  BY <1>4, <1>5, <1>6, <1>7

\* The word of a short list may change the cell that was selected last.
LEMMA PokesOnce ==
    ASSUME Proper, IInv, BusPoke
    PROVE  /\ buf[0] \in Value /\ buf[0] \in Word
           /\ Cells' = Cells \/ Cells' = [Cells EXCEPT ![adr] = Upper(buf[0])]
           /\ adr \in Index /\ Upper(buf[0]) \in Value
<1> USE DEF IInv
<1>1. Edge(TRUE, buf[0]) /\ op = "write" /\ op # "idle" /\ BusReady
  BY DEF BusPoke, BusWrite
<1>2. buf[0] \in Value /\ buf[0] \in Word
  BY ValueIsWord DEF TypeOK
<1>3. ~re /\ ~portWe /\ ~Readonly
  BY <1>1, Settled DEF LoopInv
<1> QED
  BY <1>1, <1>2, <1>3, EdgeStores, WordParts DEF TypeOK

LEMMA BusPokeInv ==
    ASSUME Proper, IInv, BusPoke
    PROVE  IInv'
<1> USE DEF IInv
<1>1. /\ Edge(TRUE, buf[0]) /\ quiet' = 0 /\ len <= 1
      /\ op # "idle" /\ BusReady /\ op' = "idle" /\ pos' = len
      /\ UNCHANGED <<len, phase, buf, seen>>
  BY DEF BusPoke, BusWrite
<1>2. buf[0] \in Word
  BY PokesOnce
<1>3. BusGap \in Nat
  BY <1>1, Settled
<1>4. phase = "index" /\ phase' = "index"
  BY <1>1 DEF LoopInv, TypeOK
<1>5. TypeOK'
  <2>1. quiet' \in 0..BusGap
    BY <1>1, <1>3
  <2>2. pos' \in 0..Depth /\ len' \in 0..Depth /\ buf' \in [Index -> Value] /\ seen' \subseteq Value
    BY <1>1 DEF TypeOK
  <2> QED
    BY <1>1, <1>2, <1>4, <2>1, <2>2, EdgeTypes DEF TypeOK
<1>6. LoopInv' /\ SelectInv' /\ TransferInv'
  BY <1>1, <1>4 DEF LoopInv, SelectInv, TransferInv
<1>7. SettleInv'
  BY <1>1, <1>2, AccessStartsAfresh DEF SettleInv
<1> QED
  BY <1>5, <1>6, <1>7

\* Every step of the specification preserves the invariant.
LEMMA NextInv ==
    ASSUME Proper, IInv, [Next]_vars
    PROVE  IInv'
<1>1. CASE Tick
  BY <1>1, TickInv
<1>2. CASE StartRead \/ StartWrite
  BY <1>2, StartInv
<1>3. CASE BusIndex
  BY <1>3, BusIndexInv
<1>4. CASE BusFetch
  BY <1>4, BusFetchInv
<1>5. CASE BusStore
  BY <1>5, BusStoreInv
<1>6. CASE BusPoke
  BY <1>6, BusPokeInv
<1>7. CASE UNCHANGED vars
  <2>1. UNCHANGED Cells
    BY <1>7 DEF vars, csr, server, Cells, UpdateValue, LsbSet, Upper
  <2>2. UNCHANGED <<mem, storage, re, adr, memadr, wePipeline, csrWe, datW, portWe,
                    op, len, pos, phase, buf, quiet, seen>>
    BY <1>7 DEF vars, csr, server
  <2>3. TypeOK' /\ LoopInv' /\ TransferInv'
    BY <2>1, <2>2 DEF IInv, TypeOK, LoopInv, TransferInv
  <2>4. SelectInv' /\ SettleInv'
    BY <2>2 DEF IInv, SelectInv, SettleInv, IndexWord, LsbSet
  <2> QED
    BY <2>3, <2>4 DEF IInv
<1> QED
  BY <1>1, <1>2, <1>3, <1>4, <1>5, <1>6, <1>7 DEF Next

\* The invariant holds throughout.
LEMMA Invariance ==
    ASSUME Proper
    PROVE  Spec => []IInv
<1>1. Init => IInv
  BY InitInv
<1>2. IInv /\ [Next]_vars => IInv'
  BY NextInv
<1> QED
  BY <1>1, <1>2, PTL DEF Spec

-----------------------------------------------------------------------------
(* The theorems.                                                           *)

(* The registers of the gateware and the server's variables keep their     *)
(* types: in particular the address always selects a cell, and the server  *)
(* never returns a word that is not a cell's value (register.py:60-95,     *)
(* server.c:300-357).                                                      *)
THEOREM TypeCorrect ==
    ASSUME Proper
    PROVE  Spec => []TypeOK
<1>1. IInv => TypeOK
  BY DEF IInv
<1> QED
  BY <1>1, Invariance, PTL

(* A fetched element is a value its cell had between the two bus accesses  *)
(* of that element, for any depth, width and bus speed, whatever the logic *)
(* writes to the memory meanwhile (register.py:68-77, server.c:308-312).   *)
THEOREM FetchesInWindow ==
    ASSUME Proper
    PROVE  Spec => FetchedValueWasHeld
<1>1. ASSUME IInv, Next, pos' # pos /\ op = "read"
      PROVE  buf'[pos] \in seen
  <2>1. BusFetch
    BY <1>1 DEF Next, Tick, server, StartRead, StartWrite, BusIndex, BusStore, BusPoke
  <2> QED
    BY <1>1, <2>1, FetchesSelected DEF IInv, TypeOK
<1>2. IInv /\ [Next]_vars => [pos' # pos /\ op = "read" => buf'[pos] \in seen]_vars
  BY <1>1
<1> QED
  BY <1>2, Invariance, PTL DEF Spec, FetchedValueWasHeld

(* Once write_array has returned, each element of a list of at least two   *)
(* is in its cell, however the cells were poked before (server.c:330-337,  *)
(* register.py:84-92).                                                     *)
THEOREM StoresList ==
    ASSUME Proper
    PROVE  Spec => LongListStored
<1>1. ASSUME IInv, IInv', Next, op = "write" /\ op' = "idle" /\ len > 1
      PROVE  \A i \in 0..(len - 1) : Cells'[i] = buf[i]
  <2>1. BusStore
    BY <1>1 DEF Next, Tick, server, StartRead, StartWrite, BusIndex, BusFetch, BusPoke,
                IInv, LoopInv, TypeOK
  <2>2. /\ pos \in Nat /\ len \in 0..Depth /\ Depth \in Nat /\ pos < len
        /\ len = pos + 1
        /\ Cells = mem /\ ~Readonly
    <3>1. op # "idle" /\ BusReady /\ Edge(TRUE, ValueWord(buf[pos]))
      BY <2>1 DEF BusStore, BusWrite
    <3>2. ValueWord(buf[pos]) \in Word
      BY <1>1, <2>1, StoresSelected
    <3>3. pos \in Nat /\ len \in 0..Depth /\ Depth \in Nat /\ pos < len
      BY <1>1, <3>1, Settled DEF IInv, LoopInv, TypeOK
    <3>4. ~(pos + 1 < len)
      BY <1>1, <2>1 DEF BusStore, Advance
    <3>5. Cells = mem /\ ~Readonly
      BY <1>1, <3>1, <3>2, AccessStartsAfresh DEF IInv, LoopInv
    <3> QED
      BY <3>3, <3>4, <3>5
  <2>3. Cells' = [mem EXCEPT ![pos] = buf[pos]] /\ mem \in [Index -> Value]
    BY <1>1, <2>1, <2>2, StoresSelected DEF IInv, TypeOK
  <2>4. TAKE i \in 0..(len - 1)
  <2>5. i \in Index /\ (i < pos \/ i = pos)
    BY <2>2 DEF Index
  <2> QED
    BY <1>1, <2>2, <2>3, <2>5 DEF IInv, TransferInv
<1>2. IInv /\ IInv' /\ [Next]_vars
      => [op = "write" /\ op' = "idle" /\ len > 1 => \A i \in 0..(len - 1) : Cells'[i] = buf[i]]_vars
  BY <1>1
<1> QED
  BY <1>2, Invariance, PTL DEF Spec, LongListStored

(* What read_array returns is the array, element for element               *)
(* (server.c:308-312, register.py:68-77).                                  *)
THEOREM ReadsArray ==
    ASSUME Proper, ~Readonly
    PROVE  Spec => ReadReturnsArray
<1>1. ASSUME IInv, Next, op = "read" /\ op' = "idle"
      PROVE  \A i \in Index : buf'[i] = Cells'[i]
  <2>1. BusFetch
    BY <1>1 DEF Next, Tick, server, StartRead, StartWrite, BusIndex, BusStore, BusPoke
  <2>2. /\ buf' = [buf EXCEPT ![pos] = storage] /\ pos \in Index
        /\ storage = Cells[pos] /\ Cells' = Cells /\ buf \in [Index -> Value]
    BY <1>1, <2>1, FetchesSelected DEF IInv, TypeOK
  <2>3. pos + 1 >= len /\ len = Depth /\ Depth \in Nat
    BY <1>1, <2>1, DepthAssumption DEF BusFetch, Advance, IInv, LoopInv, TypeOK
  <2>4. TAKE i \in Index
  <2>5. i < pos \/ i = pos
    BY <2>2, <2>3 DEF Index
  <2> QED
    BY <1>1, <2>2, <2>5 DEF IInv, TransferInv
<1>2. IInv /\ [Next]_vars
      => [op = "read" /\ op' = "idle" => \A i \in Index : buf'[i] = Cells'[i]]_vars
  BY <1>1
<1> QED
  BY <1>2, Invariance, PTL DEF Spec, ReadReturnsArray

(* Operations on a writable array register are, element by element,        *)
(* operations on a plain array: index accesses and clock cycles change     *)
(* nothing, a fetch returns the cell and a store sets it, although both    *)
(* pass through one shared word, an address register and a pipeline        *)
(* (register.py:41-95, server.c:300-357).                                  *)
THEOREM Implements ==
    ASSUME Proper, ~Readonly
    PROVE  Spec => ImplementsStore
<1> USE DEF Store!vars
<1>1. ASSUME Init
      PROVE  Store!Init
  <2>1. Cells = mem
    BY <1>1 DEF Init, Cells, UpdateValue
  <2> QED
    BY <1>1, <2>1 DEF Init, Store!Init, Index, Value, Store!Index, Store!Value
<1>2. ASSUME IInv, [Next]_vars
      PROVE  [Store!Next]_Store!vars
  <2>1. CASE Tick
    <3>1. Cells' = Cells
      BY <1>2, <2>1, EdgeStores, ValueIsWord DEF Tick
    <3> QED
      BY <2>1, <3>1 DEF Tick, server
  <2>2. CASE StartRead
    <3>1. Cells' = Cells
      BY <2>2 DEF StartRead, csr, Cells, UpdateValue, LsbSet, Upper
    <3> QED
      BY <2>2, <3>1 DEF StartRead, Store!Next, Store!BeginRead
  <2>3. CASE StartWrite
    <3>1. Cells' = Cells
      BY <2>3 DEF StartWrite, csr, Cells, UpdateValue, LsbSet, Upper
    <3> QED
      BY <2>3, <3>1 DEF StartWrite, Store!Next, Store!BeginWrite, Index, Value,
                        Store!Index, Store!Value
  <2>4. CASE BusIndex
    <3>1. /\ Edge(TRUE, IndexWord(pos)) /\ BusReady /\ op # "idle"
          /\ UNCHANGED <<op, len, pos, buf>>
      BY <2>4 DEF BusIndex, BusWrite
    <3>2. IndexWord(pos) \in Word /\ LsbSet(IndexWord(pos)) /\ ~re /\ ~portWe
      BY <1>2, <3>1, Settled, IndexWordMeaning DEF Proper
    <3>3. Cells' = Cells
      BY <1>2, <3>1, <3>2, EdgeStores
    <3> QED
      BY <3>1, <3>3
  <2>5. CASE BusFetch
    <3>1. op = "read" /\ Advance /\ pos < len
      BY <1>2, <2>5 DEF BusFetch, IInv, LoopInv
    <3>2. Cells' = Cells /\ buf' = [buf EXCEPT ![pos] = Cells[pos]]
      BY <1>2, <2>5, FetchesSelected
    <3> QED
      BY <3>1, <3>2 DEF Advance, Store!Next, Store!Fetch, Store!Advance
  <2>6. CASE BusStore
    <3>1. op = "write" /\ Advance /\ len > 1 /\ pos < len
      BY <1>2, <2>6 DEF BusStore, IInv, LoopInv
    <3>2. Cells' = [Cells EXCEPT ![pos] = buf[pos]] /\ UNCHANGED buf
      BY <1>2, <2>6, StoresSelected
    <3> QED
      BY <3>1, <3>2 DEF Advance, Store!Next, Store!Store, Store!Advance
  <2>7. CASE BusPoke
    <3>1. op = "write" /\ len <= 1 /\ op' = "idle" /\ pos' = len /\ UNCHANGED <<len, buf>>
      BY <2>7 DEF BusPoke
    <3>2. Cells' = Cells \/ \E i \in Index, v \in Value : Cells' = [Cells EXCEPT ![i] = v]
      BY <1>2, <2>7, PokesOnce
    <3> QED
      BY <3>1, <3>2 DEF Store!Next, Store!Poke, Index, Value, Store!Index, Store!Value
  <2>8. CASE UNCHANGED vars
    BY <2>8 DEF vars, csr, server, Cells, UpdateValue, LsbSet, Upper
  <2> QED
    BY <1>2, <2>1, <2>2, <2>3, <2>4, <2>5, <2>6, <2>7, <2>8 DEF Next
<1> QED
  BY <1>1, <1>2, Invariance, PTL DEF Spec, ImplementsStore, Store!Spec
=============================================================================
