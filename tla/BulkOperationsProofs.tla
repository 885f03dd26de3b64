------------------------- MODULE BulkOperationsProofs -------------------------
(***************************************************************************)
(* Proofs about BulkOperations for any stores, sizes, limits, segments and *)
(* address width: types, the bounds of the loops, and that memories and    *)
(* tables are the arrays of Storage.                                       *)
(***************************************************************************)
EXTENDS BulkOperations, SequenceTheorems, TLAPS

\* What a loop has been started with and what is true until it ends: the
\* ranges exist, and within one store it runs away from what it overwrites.
LoopRange ==
  /\ loop.todo <= loop.count
  /\ loop.todo > 0 =>
       /\ loop.destination + loop.count <= Length(loop.to)
       /\ loop.from \in Stores => loop.source + loop.count <= Length(loop.from)
       /\ loop.from \in Segments =>
            loop.source + loop.count <= Len(segments[loop.from])
       /\ loop.from = loop.to => (loop.down <=> loop.destination > loop.source)

\* The inductive invariant.
IInv == TypeOK /\ LoopRange

-----------------------------------------------------------------------------
(* Sizes and places.                                                       *)

LEMMA UnitType == \A s \in Stores : Unit[s] \in Nat \ {0}
  BY BulkAssumption DEF Unit

LEMMA ProductMonotone ==
  ASSUME NEW a \in Nat, NEW b \in Nat, NEW c \in Nat, a <= b
  PROVE  a * c <= b * c /\ a * c \in Nat
  OBVIOUS

\* A store is never longer than its limit and an operand can say.
LEMMA LengthBounded ==
  ASSUME TypeOK, NEW s \in Stores
  PROVE  /\ Length(s) \in Nat
         /\ Length(s) <= Limit[s] * Unit[s]
         /\ Length(s) <= U32
         /\ Limit[s] * Unit[s] \in Nat
<1>1. /\ size[s] \in Nat /\ Limit[s] \in Nat /\ Unit[s] \in Nat
      /\ size[s] <= Limit[s]
  BY BulkAssumption, UnitType DEF TypeOK
<1>2. /\ size[s] * Unit[s] <= Limit[s] * Unit[s]
      /\ size[s] * Unit[s] \in Nat
  BY <1>1, ProductMonotone
<1>3. Limit[s] * Unit[s] \in Nat
  BY <1>1, ProductMonotone
<1>4. Limit[s] * Unit[s] <= U32 /\ U32 \in Nat
  BY BulkAssumption
<1> DEFINE length == size[s] * Unit[s]
           most   == Limit[s] * Unit[s]
<1>5. length \in Nat /\ length <= most /\ most \in Nat /\ most <= U32
  BY <1>2, <1>3, <1>4
<1>6. length <= U32
  <2> HIDE DEF length, most
  <2> QED
    BY <1>4, <1>5
<1> QED
  BY <1>5, <1>6 DEF Length

\* A cell below the length has a place.
LEMMA PlaceExists ==
  ASSUME TypeOK, NEW s \in Stores, NEW n \in Nat, n < Length(s)
  PROVE  <<s, n>> \in Places
<1> DEFINE most == Limit[s] * Unit[s]
<1>1. /\ Length(s) \in Nat /\ Length(s) <= most /\ Length(s) <= U32
      /\ most \in Nat /\ U32 \in Nat
  BY LengthBounded, BulkAssumption
<1>2. n < most /\ n \in 0..(U32 - 1)
  <2> HIDE DEF most
  <2> QED
    BY <1>1
<1> QED
  BY <1>2 DEF Places

LEMMA OperandsType == Operands \subseteq Nat /\ 0 \in Operands /\ 1 \in Operands
  BY BulkAssumption DEF Operands

LEMMA NoLoopType == NoLoop \in Loops /\ NoLoop.todo = 0 /\ NoLoop.count = 0
<1>1. (CHOOSE s \in Stores : TRUE) \in Stores
  BY BulkAssumption
<1> QED
  BY <1>1, OperandsType, BulkAssumption DEF NoLoop, Loops

\* A cell's place is a store and an index.
LEMMA PlaceType ==
  ASSUME NEW p \in Places
  PROVE  p[1] \in Stores /\ p[2] \in Nat /\ p = <<p[1], p[2]>>
  BY BulkAssumption DEF Places

-----------------------------------------------------------------------------
(* The loops.                                                              *)

\* What a loop that runs is about to do is in range, and what is left of it.
LEMMA OffsetInRange ==
  ASSUME IInv, loop.todo > 0
  PROVE  /\ loop \in Loops
         /\ Offset(loop) \in Remaining(loop)
         /\ Remaining(loop) \subseteq 0..(loop.count - 1)
         /\ loop.source \in Nat /\ loop.destination \in Nat
         /\ loop.count \in Nat /\ loop.todo \in Nat /\ loop.todo <= loop.count
         /\ loop.down \in BOOLEAN
         /\ loop.to \in Stores
<1>1. /\ loop \in Loops
      /\ loop.source \in Nat /\ loop.destination \in Nat
      /\ loop.count \in Nat /\ loop.todo \in Nat /\ loop.todo <= loop.count
      /\ loop.down \in BOOLEAN
      /\ loop.to \in Stores
  BY OperandsType DEF IInv, TypeOK, Loops, LoopRange
<1>2. /\ Offset(loop) \in Remaining(loop)
      /\ Remaining(loop) \subseteq 0..(loop.count - 1)
  <2>1. CASE loop.down
    BY <1>1, <2>1 DEF Offset, Remaining
  <2>2. CASE ~loop.down
    BY <1>1, <2>2 DEF Offset, Remaining
  <2> QED
    BY <2>1, <2>2
<1> QED
  BY <1>1, <1>2

\* An offset of the loop is that of a cell, and it reads a value.
LEMMA ReadsAndWritesExist ==
  ASSUME IInv, loop.todo > 0, NEW i \in 0..(loop.count - 1)
  PROVE  /\ loop.destination + i \in 0..(Length(loop.to) - 1)
         /\ <<loop.to, loop.destination + i>> \in Places
         /\ loop.from \in Stores =>
              /\ loop.source + i \in 0..(Length(loop.from) - 1)
              /\ <<loop.from, loop.source + i>> \in Places
         /\ loop.from \in Segments =>
              loop.source + i + 1 \in DOMAIN segments[loop.from]
         /\ Read(loop, i) \in Values
<1>1. /\ loop.source \in Nat /\ loop.destination \in Nat /\ loop.count \in Nat
      /\ loop.to \in Stores
      /\ loop.from \in Stores \cup Segments \cup Values
  BY OffsetInRange DEF Loops
<1>2. /\ loop.destination + i \in 0..(Length(loop.to) - 1)
      /\ <<loop.to, loop.destination + i>> \in Places
  <2>1. Length(loop.to) \in Nat
    BY <1>1, LengthBounded DEF IInv
  <2>2. loop.destination + i \in Nat /\ loop.destination + i < Length(loop.to)
    BY <1>1, <2>1 DEF IInv, LoopRange
  <2> QED
    BY <1>1, <2>1, <2>2, PlaceExists DEF IInv
<1>3. ASSUME loop.from \in Stores
      PROVE  /\ loop.source + i \in 0..(Length(loop.from) - 1)
             /\ <<loop.from, loop.source + i>> \in Places
  <2>1. Length(loop.from) \in Nat
    BY <1>3, LengthBounded DEF IInv
  <2>2. loop.source + i \in Nat /\ loop.source + i < Length(loop.from)
    BY <1>1, <1>3, <2>1 DEF IInv, LoopRange
  <2> QED
    BY <1>3, <2>1, <2>2, PlaceExists DEF IInv
<1>4. ASSUME loop.from \in Segments
      PROVE  /\ loop.source + i + 1 \in DOMAIN segments[loop.from]
             /\ segments[loop.from][loop.source + i + 1] \in Values
  <2>1. segments[loop.from] \in Seq(Values)
    BY <1>4 DEF IInv, TypeOK
  <2>2. loop.source + i + 1 \in 1..Len(segments[loop.from])
    BY <1>1, <1>4, <2>1, LenProperties DEF IInv, LoopRange
  <2> QED
    BY <2>1, <2>2, LenProperties, ElementOfSeq
<1>5. Read(loop, i) \in Values
  <2>1. CASE loop.from \in Stores
    BY <1>3, <2>1, BulkAssumption DEF Read, IInv, TypeOK
  <2>2. CASE loop.from \in Segments
    BY <1>4, <2>2, BulkAssumption DEF Read
  <2>3. CASE loop.from \notin Stores /\ loop.from \notin Segments
    BY <1>1, <2>3 DEF Read
  <2> QED
    BY <2>1, <2>2, <2>3
<1> QED
  BY <1>2, <1>3, <1>4, <1>5

-----------------------------------------------------------------------------
(* The invariant.                                                          *)

LEMMA InitInv == Init => IInv
<1> SUFFICES ASSUME Init PROVE IInv
  OBVIOUS
<1>1. TypeOK
  BY NoLoopType, BulkAssumption DEF Init, TypeOK
<1>2. LoopRange
  BY NoLoopType DEF Init, LoopRange
<1> QED
  BY <1>1, <1>2 DEF IInv

LEMMA StepPreserves == ASSUME IInv, Step PROVE IInv'
<1>1. /\ loop.todo > 0
      /\ cells' = [cells EXCEPT ![<<loop.to, loop.destination + Offset(loop)>>] =
                     Read(loop, Offset(loop))]
      /\ loop' = Advanced(loop)
      /\ UNCHANGED <<size, segments, outcome, turn>>
  BY DEF Step
<1>2. Read(loop, Offset(loop)) \in Values
  BY <1>1, OffsetInRange, ReadsAndWritesExist
<1>3. cells' \in [Places -> Values]
  BY <1>1, <1>2 DEF IInv, TypeOK
<1>4. CASE loop.todo > 1
  <2>1. loop' = [loop EXCEPT !.todo = loop.todo - 1]
    BY <1>1, <1>4 DEF Advanced
  <2>2. loop.todo - 1 \in Operands /\ loop \in Loops
    BY <1>4, BulkAssumption DEF IInv, TypeOK, Loops, Operands
  <2>3. /\ loop' \in Loops
        /\ loop'.todo = loop.todo - 1
        /\ loop'.count = loop.count /\ loop'.from = loop.from
        /\ loop'.to = loop.to /\ loop'.source = loop.source
        /\ loop'.destination = loop.destination /\ loop'.down = loop.down
    BY <2>1, <2>2 DEF Loops
  <2>4. loop.todo - 1 <= loop.count
    BY <1>1, OffsetInRange
  <2>5. LoopRange'
    BY <1>1, <2>3, <2>4 DEF IInv, LoopRange, Length
  <2> QED
    BY <1>1, <1>3, <2>3, <2>5 DEF IInv, TypeOK
<1>5. CASE ~(loop.todo > 1)
  <2>1. loop' = NoLoop
    BY <1>1, <1>5 DEF Advanced
  <2> QED
    BY <1>1, <1>3, <2>1, NoLoopType DEF IInv, TypeOK, LoopRange
<1> QED
  BY <1>4, <1>5

LEMMA TrapPreserves == ASSUME IInv, Trap PROVE IInv'
  BY DEF Trap, Ends, IInv, TypeOK, LoopRange, Length

\* A loop that starts in range, in the right direction.
LEMMA StartsPreserves ==
  ASSUME IInv, NEW from \in Stores \cup Segments \cup Values,
         NEW source \in Operands, NEW to \in Stores,
         NEW destination \in Operands, NEW count \in Operands,
         NEW down \in BOOLEAN,
         Starts(from, source, to, destination, count, down),
         Fits(to, destination, count),
         from \in Stores => Fits(from, source, count),
         from \in Segments => source + count <= Len(segments[from]),
         from = to => (down <=> destination > source)
  PROVE  IInv'
<1>1. /\ UNCHANGED <<cells, size, segments>>
      /\ outcome' = "done" /\ turn' \in {0, 1}
  BY DEF Starts, IInv, TypeOK
<1>2. CASE count = 0
  <2>1. loop' = NoLoop
    BY <1>2 DEF Starts
  <2> QED
    BY <1>1, <2>1, NoLoopType DEF IInv, TypeOK, LoopRange
<1>3. CASE count # 0
  <2>1. loop' = [from |-> from, source |-> source, to |-> to,
                 destination |-> destination, count |-> count,
                 todo |-> count, down |-> down]
    BY <1>3 DEF Starts
  <2>2. loop' \in Loops
    BY <2>1 DEF Loops
  <2>3. count <= count
    BY OperandsType
  <2>4. LoopRange'
    BY <1>1, <2>1, <2>3 DEF LoopRange, Fits, Length
  <2> QED
    BY <1>1, <2>2, <2>4 DEF IInv, TypeOK
<1> QED
  BY <1>2, <1>3

\* An instruction without a loop, which leaves sizes and segments in order.
LEMMA EndsPreserves ==
  ASSUME IInv, NEW result \in {"done", "trap", "refused"}, Ends(result),
         cells' \in [Places -> Values],
         size' \in [Stores -> Nat], \A s \in Stores : size'[s] <= Limit[s],
         segments' \in [Segments -> Seq(Values)]
  PROVE  IInv'
<1>1. loop.todo = 0 /\ loop' = loop /\ outcome' = result /\ turn' \in {0, 1}
  BY DEF Ends, IInv, TypeOK
<1>2. TypeOK'
  BY <1>1 DEF IInv, TypeOK
<1>3. LoopRange'
  BY <1>1 DEF IInv, LoopRange
<1> QED
  BY <1>2, <1>3 DEF IInv

LEMMA MemoryStorePreserves ==
  ASSUME IInv, NEW s \in Memories, NEW address \in Operands,
         NEW offset \in Operands, NEW data \in Data,
         MemoryStore(s, address, offset, data)
  PROVE  IInv'
<1>1. CASE Fits(s, address, offset + Len(data))
  <2>1. /\ Ends("done")
        /\ cells' = [p \in Places |->
             IF p[1] = s /\ p[2] - (address + offset) \in 0..(Len(data) - 1)
             THEN data[p[2] - (address + offset) + 1] ELSE cells[p]]
        /\ UNCHANGED <<size, segments>>
    BY <1>1 DEF MemoryStore
  <2>2. data \in Seq(Values) /\ Len(data) \in Nat
    BY BulkAssumption, LenProperties
  <2>3. ASSUME NEW p \in Places,
               p[2] - (address + offset) \in 0..(Len(data) - 1)
        PROVE  data[p[2] - (address + offset) + 1] \in Values
    <3>1. p[2] - (address + offset) + 1 \in 1..Len(data)
      BY <2>2, <2>3
    <3> QED
      BY <2>2, <3>1, ElementOfSeq
  <2>4. cells' \in [Places -> Values]
    BY <2>1, <2>3 DEF IInv, TypeOK
  <2> QED
    BY <2>1, <2>4, EndsPreserves DEF IInv, TypeOK
<1>2. CASE ~Fits(s, address, offset + Len(data))
  BY <1>2, TrapPreserves DEF MemoryStore
<1> QED
  BY <1>1, <1>2

LEMMA TableSetPreserves ==
  ASSUME IInv, NEW s \in Tables, NEW index \in Operands, NEW value \in Values,
         TableSet(s, index, value)
  PROVE  IInv'
<1>1. CASE index < size[s]
  <2>1. /\ Ends("done")
        /\ cells' = [cells EXCEPT ![<<s, index>>] = value]
        /\ UNCHANGED <<size, segments>>
    BY <1>1 DEF TableSet
  <2>2. cells' \in [Places -> Values]
    BY <2>1 DEF IInv, TypeOK
  <2> QED
    BY <2>1, <2>2, EndsPreserves DEF IInv, TypeOK
<1>2. CASE ~(index < size[s])
  BY <1>2, TrapPreserves DEF TableSet
<1> QED
  BY <1>1, <1>2

LEMMA FillPreserves ==
  ASSUME IInv, NEW s \in Stores, NEW destination \in Operands,
         NEW count \in Operands, NEW value \in Values,
         Fill(s, destination, count, value)
  PROVE  IInv'
<1>1. CASE Fits(s, destination, count)
  <2>1. Starts(value, 0, s, destination, count, FALSE)
    BY <1>1 DEF Fill
  <2>2. value \notin Stores /\ value \notin Segments /\ value # s
    BY BulkAssumption
  <2> QED
    BY <1>1, <2>1, <2>2, OperandsType, StartsPreserves
<1>2. CASE ~Fits(s, destination, count)
  BY <1>2, TrapPreserves DEF Fill
<1> QED
  BY <1>1, <1>2

LEMMA CopyPreserves ==
  ASSUME IInv, NEW from \in Stores, NEW to \in Stores, NEW source \in Operands,
         NEW destination \in Operands, NEW count \in Operands,
         Copy(from, to, source, destination, count)
  PROVE  IInv'
<1>1. CASE Fits(from, source, count) /\ Fits(to, destination, count)
  <2>1. Starts(from, source, to, destination, count,
               CopiesDown(source, destination))
    BY <1>1 DEF Copy
  <2>2. from \notin Segments
    BY BulkAssumption
  <2>3. /\ CopiesDown(source, destination) \in BOOLEAN
        /\ CopiesDown(source, destination) <=> destination > source
    BY DEF CopiesDown
  <2> QED
    BY <1>1, <2>1, <2>2, <2>3, StartsPreserves
<1>2. CASE ~(Fits(from, source, count) /\ Fits(to, destination, count))
  BY <1>2, TrapPreserves DEF Copy
<1> QED
  BY <1>1, <1>2

LEMMA InitFromPreserves ==
  ASSUME IInv, NEW g \in Segments, NEW to \in Stores, NEW source \in Operands,
         NEW destination \in Operands, NEW count \in Operands,
         InitFrom(g, to, source, destination, count)
  PROVE  IInv'
<1>1. CASE source + count <= Len(segments[g]) /\ Fits(to, destination, count)
  <2>1. Starts(g, source, to, destination, count, FALSE)
    BY <1>1 DEF InitFrom
  <2>2. g \notin Stores /\ g # to
    BY BulkAssumption
  <2> QED
    BY <1>1, <2>1, <2>2, StartsPreserves
<1>2. CASE ~(source + count <= Len(segments[g]) /\ Fits(to, destination, count))
  BY <1>2, TrapPreserves DEF InitFrom
<1> QED
  BY <1>1, <1>2

LEMMA DropPreserves ==
  ASSUME IInv, NEW g \in Segments, Drop(g)
  PROVE  IInv'
<1>1. /\ Ends("done")
      /\ segments' = [segments EXCEPT ![g] = <<>>]
      /\ UNCHANGED <<cells, size>>
  BY DEF Drop
<1>2. <<>> \in Seq(Values)
  BY EmptySeq
<1>3. segments' \in [Segments -> Seq(Values)]
  BY <1>1, <1>2 DEF IInv, TypeOK
<1> QED
  BY <1>1, <1>3, EndsPreserves DEF IInv, TypeOK

LEMMA GrowPreserves ==
  ASSUME IInv, NEW s \in Stores, NEW n \in Operands, NEW value \in Values,
         Grow(s, n, value)
  PROVE  IInv'
<1>1. CASE MayGrow(s, n)
  <2>1. /\ Ends("done")
        /\ cells' = Grown(s, n, value)
        /\ size' = [size EXCEPT ![s] = size[s] + n]
        /\ UNCHANGED segments
    BY <1>1 DEF Grow
  <2>2. cells' \in [Places -> Values]
    BY <2>1 DEF Grown, IInv, TypeOK
  <2>3. size[s] + n \in Nat /\ size[s] + n <= Limit[s]
    BY <1>1, OperandsType DEF MayGrow, IInv, TypeOK
  <2>4. size' \in [Stores -> Nat] /\ \A t \in Stores : size'[t] <= Limit[t]
    BY <2>1, <2>3 DEF IInv, TypeOK
  <2> QED
    BY <2>1, <2>2, <2>4, EndsPreserves DEF IInv, TypeOK
<1>2. CASE ~MayGrow(s, n)
  <2>1. Ends("refused") /\ UNCHANGED <<cells, size, segments>>
    BY <1>2 DEF Grow
  <2> QED
    BY <2>1, EndsPreserves DEF IInv, TypeOK
<1> QED
  BY <1>1, <1>2

LEMMA NextPreserves == IInv /\ [Next]_vars => IInv'
<1> SUFFICES ASSUME IInv, [Next]_vars PROVE IInv'
  OBVIOUS
<1>1. CASE Step
  BY <1>1, StepPreserves
<1>2. ASSUME NEW s \in Memories, NEW a \in Operands, NEW i \in Operands,
             NEW d \in Data, MemoryStore(s, a, i, d)
      PROVE  IInv'
  BY <1>2, MemoryStorePreserves
<1>3. ASSUME NEW s \in Tables, NEW a \in Operands, NEW v \in Values,
             TableSet(s, a, v)
      PROVE  IInv'
  BY <1>3, TableSetPreserves
<1>4. ASSUME NEW s \in Stores, NEW j \in Operands, NEW n \in Operands,
             NEW v \in Values, Fill(s, j, n, v)
      PROVE  IInv'
  BY <1>4, FillPreserves
<1>5. ASSUME NEW s \in Stores, NEW t \in Stores, NEW i \in Operands,
             NEW j \in Operands, NEW n \in Operands, Copy(s, t, i, j, n)
      PROVE  IInv'
  BY <1>5, CopyPreserves
<1>6. ASSUME NEW g \in Segments, NEW s \in Stores, NEW i \in Operands,
             NEW j \in Operands, NEW n \in Operands, InitFrom(g, s, i, j, n)
      PROVE  IInv'
  BY <1>6, InitFromPreserves
<1>7. ASSUME NEW g \in Segments, Drop(g) PROVE IInv'
  BY <1>7, DropPreserves
<1>8. ASSUME NEW s \in Memories, NEW n \in Operands, Grow(s, n, Zero)
      PROVE  IInv'
  BY <1>8, GrowPreserves, BulkAssumption DEF Stores
<1>9. ASSUME NEW s \in Tables, NEW n \in Operands, NEW v \in Values,
             Grow(s, n, v)
      PROVE  IInv'
  BY <1>9, GrowPreserves DEF Stores
<1>10. CASE UNCHANGED vars
  BY <1>10 DEF vars, IInv, TypeOK, LoopRange, Length
<1> QED
  BY <1>1, <1>2, <1>3, <1>4, <1>5, <1>6, <1>7, <1>8, <1>9, <1>10 DEF Next

\* The invariant holds in every state.
THEOREM Invariance == Spec => []IInv
  BY InitInv, NextPreserves, PTL DEF Spec

\* The variables have their types, and no memory or table outgrows its limit.
THEOREM TypeCorrect == Spec => []TypeOK
<1>1. IInv => TypeOK
  BY DEF IInv
<1> QED
  BY <1>1, Invariance, PTL

\* No loop of the bulk instructions reads or writes a cell that does not
\* exist, for any sizes, limits and operands.
THEOREM LoopsStayInBounds == Spec => []LoopInBounds
<1>1. IInv => LoopInBounds
  <2> SUFFICES ASSUME IInv, loop.todo > 0 PROVE LoopInBounds
    BY DEF LoopInBounds
  <2>1. Offset(loop) \in 0..(loop.count - 1)
    BY OffsetInRange
  <2> QED
    BY <2>1, ReadsAndWritesExist DEF LoopInBounds
<1> QED
  BY <1>1, Invariance, PTL

-----------------------------------------------------------------------------
(* The refinement: settled contents are the cells of Storage.              *)

\* Between instructions the contents are settled.
LEMMA SettledWhenIdle ==
  ASSUME TypeOK, loop.todo = 0
  PROVE  Settled = cells
<1>1. loop.count \in Nat
  BY OperandsType DEF TypeOK, Loops
<1>2. Remaining(loop) = {}
  BY <1>1 DEF Remaining
<1> QED
  BY <1>2 DEF Settled, TypeOK

Idle == loop.todo = 0

ContentsSettled == Settled = cells

LEMMA SettledWhenIdleNext == TypeOK' /\ Idle' => ContentsSettled'
<1>1. TypeOK /\ Idle => ContentsSettled
  BY SettledWhenIdle DEF Idle, ContentsSettled
<1> QED
  BY <1>1, PTL

\* What is still to be read is not overwritten: within one store the loop
\* runs away from the cells that it has yet to read.
LEMMA StepKeepsUnread ==
  ASSUME IInv, Step, loop.todo > 1, NEW k \in Remaining(loop), k # Offset(loop)
  PROVE  Read(loop, k)' = Read(loop, k)
<1> DEFINE w == <<loop.to, loop.destination + Offset(loop)>>
<1>1. /\ cells' = [cells EXCEPT ![w] = Read(loop, Offset(loop))]
      /\ loop' = [loop EXCEPT !.todo = loop.todo - 1]
      /\ UNCHANGED segments
  BY DEF Step, Advanced
<1>0. loop.todo > 0
  BY DEF Step
<1>2. /\ loop \in Loops
      /\ loop.source \in Nat /\ loop.destination \in Nat
      /\ loop.count \in Nat /\ loop.todo \in Nat /\ loop.todo <= loop.count
      /\ loop.down \in BOOLEAN
      /\ k \in 0..(loop.count - 1)
      /\ Offset(loop) \in 0..(loop.count - 1)
  BY <1>0, OffsetInRange
<1>3. loop'.from = loop.from /\ loop'.source = loop.source
  BY <1>1, <1>2 DEF Loops
<1>4. CASE loop.from \in Stores
  <2>1. <<loop.from, loop.source + k>> # w
    <3>1. CASE loop.from # loop.to
      BY <3>1
    <3>2. CASE loop.from = loop.to
      <4>1. loop.down <=> loop.destination > loop.source
        BY <1>0, <3>2 DEF IInv, LoopRange
      <4>2. loop.source + k # loop.destination + Offset(loop)
        <5>1. CASE loop.down
          <6>1. k < Offset(loop)
            BY <1>2, <5>1 DEF Remaining, Offset
          <6> QED
            BY <1>2, <4>1, <5>1, <6>1
        <5>2. CASE ~loop.down
          <6>1. k > Offset(loop)
            BY <1>2, <5>2 DEF Remaining, Offset
          <6> QED
            BY <1>2, <4>1, <5>2, <6>1
        <5> QED
          BY <5>1, <5>2
      <4> QED
        BY <4>2
    <3> QED
      BY <3>1, <3>2
  <2>2. <<loop.from, loop.source + k>> \in Places
    BY <1>0, <1>2, <1>4, ReadsAndWritesExist
  <2>3. cells'[<<loop.from, loop.source + k>>] = cells[<<loop.from, loop.source + k>>]
    BY <1>1, <2>1, <2>2 DEF IInv, TypeOK
  <2>4. Read(loop, k) = cells[<<loop.from, loop.source + k>>]
    BY <1>4, BulkAssumption DEF Read
  <2>5. Read(loop, k)' = cells'[<<loop.from, loop.source + k>>]
    BY <1>3, <1>4, BulkAssumption DEF Read
  <2> QED
    BY <2>3, <2>4, <2>5
<1>5. CASE loop.from \in Segments
  <2>1. Read(loop, k) = segments[loop.from][loop.source + k + 1]
    BY <1>5, BulkAssumption DEF Read
  <2>2. Read(loop, k)' = segments'[loop.from][loop.source + k + 1]
    BY <1>3, <1>5, BulkAssumption DEF Read
  <2> QED
    BY <1>1, <2>1, <2>2
<1>6. CASE loop.from \notin Stores /\ loop.from \notin Segments
  BY <1>3, <1>6 DEF Read
<1> QED
  BY <1>4, <1>5, <1>6

\* The cell that a step writes gets what it is to settle to.
LEMMA StepStutters ==
  ASSUME IInv, IInv', Step
  PROVE  Settled' = Settled
<1> DEFINE i == Offset(loop)
           w == <<loop.to, loop.destination + i>>
           r == Remaining(loop)
<1>1. /\ loop.todo > 0
      /\ cells' = [cells EXCEPT ![w] = Read(loop, i)]
      /\ loop' = Advanced(loop)
  BY DEF Step
<1>2. /\ i \in r
      /\ loop \in Loops
      /\ loop.destination \in Nat /\ loop.count \in Nat /\ loop.todo \in Nat
      /\ loop.todo <= loop.count
      /\ r \subseteq 0..(loop.count - 1)
      /\ loop.down \in BOOLEAN /\ loop.to \in Stores
  BY <1>1, OffsetInRange
<1>3. w \in Places
  BY <1>1, <1>2, ReadsAndWritesExist
<1>4. /\ cells'[w] = Read(loop, i)
      /\ \A p \in Places : p # w => cells'[p] = cells[p]
      /\ cells' \in [Places -> Values]
  BY <1>1, <1>3 DEF IInv, TypeOK
<1>5. /\ i \in Nat
      /\ w[1] = loop.to /\ w[2] - loop.destination = i
      /\ \A p \in Places : p[1] = loop.to /\ p[2] - loop.destination = i => p = w
  <2>1. i \in Nat
    BY <1>2
  <2>2. w[1] = loop.to /\ w[2] - loop.destination = i
    BY <1>2, <2>1
  <2>3. ASSUME NEW p \in Places, p[1] = loop.to, p[2] - loop.destination = i
        PROVE  p = w
    <3>1. p[2] = loop.destination + i
      BY <1>2, <2>1, <2>3, PlaceType
    <3> QED
      BY <2>3, <3>1, PlaceType
  <2> QED
    BY <2>1, <2>2, <2>3
<1>6. CASE loop.todo > 1
  <2>1. loop' = [loop EXCEPT !.todo = loop.todo - 1]
    BY <1>1, <1>6 DEF Advanced
  <2>2. /\ loop'.to = loop.to /\ loop'.destination = loop.destination
        /\ loop'.down = loop.down /\ loop'.count = loop.count
        /\ loop'.todo = loop.todo - 1
    BY <1>2, <2>1 DEF Loops
  <2>3. Remaining(loop)' = r \ {i}
    <3>1. CASE loop.down
      BY <1>2, <2>2, <3>1 DEF Remaining, Offset
    <3>2. CASE ~loop.down
      BY <1>2, <2>2, <3>2 DEF Remaining, Offset
    <3> QED
      BY <3>1, <3>2
  <2>4. \A k \in r \ {i} : Read(loop, k)' = Read(loop, k)
    BY <1>6, StepKeepsUnread
  <2>5. ASSUME NEW p \in Places PROVE Settled'[p] = Settled[p]
    <3>1. PICK k : k = p[2] - loop.destination
      OBVIOUS
    <3>2. Settled'[p] = IF p[1] = loop.to /\ k \in r \ {i}
                        THEN Read(loop, k)' ELSE cells'[p]
      BY <2>2, <2>3, <3>1 DEF Settled
    <3>3. Settled[p] = IF p[1] = loop.to /\ k \in r THEN Read(loop, k) ELSE cells[p]
      BY <3>1 DEF Settled
    <3>4. CASE p = w
      <4>1. p[1] = loop.to /\ k = i
        BY <1>5, <3>1, <3>4
      <4>2. Settled'[p] = cells'[p]
        BY <3>2, <4>1
      <4>3. Settled[p] = Read(loop, i)
        BY <1>2, <3>3, <4>1
      <4> QED
        BY <1>4, <3>4, <4>2, <4>3
    <3>5. CASE p # w
      <4>1. ~(p[1] = loop.to /\ k = i)
        BY <1>5, <3>1, <3>5
      <4>2. cells'[p] = cells[p]
        BY <1>4, <3>5
      <4> HIDE DEF i, r
      <4> QED
        BY <2>4, <3>2, <3>3, <4>1, <4>2
    <3> QED
      BY <3>4, <3>5
  <2> QED
    BY <2>5 DEF Settled
<1>7. CASE ~(loop.todo > 1)
  <2>1. loop.todo = 1 /\ loop' = NoLoop
    BY <1>1, <1>2, <1>7 DEF Advanced
  <2>2. Settled' = cells'
    BY <2>1, NoLoopType, SettledWhenIdleNext DEF IInv, Idle, ContentsSettled
  <2>3. r = {i}
    <3>1. CASE loop.down
      BY <1>2, <2>1, <3>1 DEF Remaining, Offset
    <3>2. CASE ~loop.down
      BY <1>2, <2>1, <3>2 DEF Remaining, Offset
    <3> QED
      BY <3>1, <3>2, <1>2
  <2>4. ASSUME NEW p \in Places PROVE cells'[p] = Settled[p]
    <3>1. Settled[p] = IF p[1] = loop.to /\ p[2] - loop.destination \in r
                       THEN Read(loop, p[2] - loop.destination) ELSE cells[p]
      BY DEF Settled
    <3>2. CASE p = w
      <4>1. p[1] = loop.to /\ p[2] - loop.destination = i
        BY <1>5, <3>2
      <4> QED
        BY <1>4, <2>3, <3>1, <3>2, <4>1
    <3>3. CASE p # w
      <4>1. ~(p[1] = loop.to /\ p[2] - loop.destination \in r)
        BY <1>5, <2>3, <3>3
      <4> QED
        BY <1>4, <3>1, <3>3, <4>1
    <3> QED
      BY <3>2, <3>3
  <2> QED
    BY <1>4, <2>2, <2>4 DEF Settled
<1> QED
  BY <1>6, <1>7

\* An instruction without a loop finds and leaves the contents settled.
LEMMA EndsSettled ==
  ASSUME IInv, IInv', NEW result, Ends(result)
  PROVE  Settled = cells /\ Settled' = cells'
<1>1. loop.todo = 0 /\ loop' = loop
  BY DEF Ends
<1>2. Settled = cells
  BY <1>1, SettledWhenIdle DEF IInv
<1>3. Settled' = cells'
  BY <1>1, SettledWhenIdleNext DEF IInv, Idle, ContentsSettled
<1> QED
  BY <1>2, <1>3

LEMMA TrapRefines ==
  ASSUME IInv, IInv', Trap
  PROVE  Abstract!Trap
<1>1. Ends("trap") /\ UNCHANGED <<cells, size, segments>>
  BY DEF Trap
<1>2. Settled = cells /\ Settled' = cells'
  BY <1>1, EndsSettled
<1> QED
  BY <1>1, <1>2 DEF Ends, Abstract!Trap, Abstract!Ends

\* What a loop with this source takes at an offset.
Taken(from, source, k) ==
  CASE from \in Stores -> cells[<<from, source + k>>]
    [] from \in Segments -> segments[from][source + k + 1]
    [] OTHER -> from

\* A loop that starts has written its range as far as Storage can tell.
LEMMA StartsWrites ==
  ASSUME IInv, IInv', NEW from \in Stores \cup Segments \cup Values,
         NEW source \in Operands, NEW to \in Stores,
         NEW destination \in Operands, NEW count \in Operands,
         NEW down \in BOOLEAN,
         Starts(from, source, to, destination, count, down),
         NEW data, \A k \in 0..(count - 1) : data[k] = Taken(from, source, k)
  PROVE  Abstract!Write(to, destination, count, data)
<1>1. /\ loop.todo = 0
      /\ UNCHANGED <<cells, size, segments>>
      /\ Abstract!Ends("done")
  BY DEF Starts, Abstract!Ends
<1>2. Settled = cells
  BY <1>1, SettledWhenIdle DEF IInv
<1>3. destination \in Nat /\ count \in Nat
  BY OperandsType
<1>4. Abstract!Written(to, destination, count, data) =
        [p \in Places |->
           IF p[1] = to /\ p[2] \in destination..(destination + count - 1)
           THEN data[p[2] - destination] ELSE cells[p]]
  BY <1>2 DEF Abstract!Written
<1>5. Settled' = Abstract!Written(to, destination, count, data)
  <2>1. CASE count = 0
    <3>1. Settled' = cells
      BY <1>1, <2>1, NoLoopType, SettledWhenIdleNext
      DEF IInv, Idle, ContentsSettled, Starts
    <3>2. destination..(destination + count - 1) = {}
      BY <1>3, <2>1
    <3>3. Abstract!Written(to, destination, count, data) = [p \in Places |-> cells[p]]
      BY <1>4, <3>2
    <3> QED
      BY <3>1, <3>3 DEF IInv, TypeOK
  <2>2. CASE count # 0
    <3>1. loop' = [from |-> from, source |-> source, to |-> to,
                   destination |-> destination, count |-> count,
                   todo |-> count, down |-> down]
      BY <2>2 DEF Starts
    <3>2. Remaining(loop)' = 0..(count - 1)
      BY <1>3, <3>1 DEF Remaining
    <3>3. \A k : Read(loop, k)' = Taken(from, source, k)
      BY <1>1, <3>1 DEF Read, Taken
    <3>4. ASSUME NEW p \in Places
          PROVE  Settled'[p] =
                   IF p[1] = to /\ p[2] \in destination..(destination + count - 1)
                   THEN data[p[2] - destination] ELSE cells[p]
      <4>1. PICK k : k = p[2] - destination
        OBVIOUS
      <4>2. Settled'[p] = IF p[1] = to /\ k \in 0..(count - 1)
                          THEN Read(loop, k)' ELSE cells[p]
        BY <1>1, <3>1, <3>2, <4>1 DEF Settled
      <4>3. p[2] \in destination..(destination + count - 1) <=> k \in 0..(count - 1)
        BY <1>3, <4>1, PlaceType
      <4> QED
        BY <3>3, <4>1, <4>2, <4>3
    <3> QED
      BY <1>4, <3>4 DEF Settled
  <2> QED
    BY <2>1, <2>2
<1> QED
  BY <1>1, <1>5 DEF Abstract!Write

LEMMA MemoryStoreRefines ==
  ASSUME IInv, IInv', NEW s \in Memories, NEW address \in Operands,
         NEW offset \in Operands, NEW data \in Data,
         MemoryStore(s, address, offset, data)
  PROVE  Abstract!Next
<1> DEFINE bytes == [i \in 0..(Len(data) - 1) |-> data[i + 1]]
           start == address + offset
<1>1. /\ data \in Seq(Values) /\ Len(data) \in Nat
      /\ address \in Nat /\ offset \in Nat /\ s \in Stores
  BY BulkAssumption, OperandsType, LenProperties DEF Stores
<1>2. Length(s) \in Nat
  BY <1>1, LengthBounded DEF IInv
<1>3. Fits(s, address, offset + Len(data)) <=> start + Len(data) <= Length(s)
  BY <1>1, <1>2 DEF Fits
<1>4. Abstract!Store(s, start, Len(data), bytes)
  <2>1. CASE Fits(s, address, offset + Len(data))
    <3>1. /\ Ends("done")
          /\ cells' = [p \in Places |->
               IF p[1] = s /\ p[2] - start \in 0..(Len(data) - 1)
               THEN data[p[2] - start + 1] ELSE cells[p]]
          /\ UNCHANGED <<size, segments>>
      BY <2>1 DEF MemoryStore
    <3>2. Settled = cells /\ Settled' = cells'
      BY <3>1, EndsSettled
    <3>3. ASSUME NEW p \in Places
          PROVE  /\ p[2] - start \in 0..(Len(data) - 1) <=>
                      p[2] \in start..(start + Len(data) - 1)
                 /\ p[2] - start \in 0..(Len(data) - 1) =>
                      bytes[p[2] - start] = data[p[2] - start + 1]
      BY <1>1, PlaceType
    <3>4. cells' = Abstract!Written(s, start, Len(data), bytes)
      <4> HIDE DEF bytes, start
      <4> QED
        BY <3>1, <3>2, <3>3 DEF Abstract!Written
    <3> QED
      BY <1>3, <2>1, <3>1, <3>2, <3>4
      DEF Abstract!Store, Abstract!Write, Abstract!Ends, Abstract!Length, Ends, Length
  <2>2. CASE ~Fits(s, address, offset + Len(data))
    <3>1. Abstract!Trap
      BY <2>2, TrapRefines DEF MemoryStore
    <3> QED
      BY <1>3, <2>2, <3>1 DEF Abstract!Store, Abstract!Length, Length
  <2> QED
    BY <2>1, <2>2
<1>5. start \in Addresses
  BY BulkAssumption DEF Operands, Addresses
<1> QED
  BY <1>1, <1>4, <1>5 DEF Abstract!Next

LEMMA TableSetRefines ==
  ASSUME IInv, IInv', NEW s \in Tables, NEW index \in Operands,
         NEW value \in Values, TableSet(s, index, value)
  PROVE  Abstract!Next
<1>1. s \in Stores /\ index \in Nat /\ size[s] \in Nat
  BY OperandsType DEF Stores, IInv, TypeOK
<1>2. Length(s) = size[s]
  <2>1. Unit[s] = 1
    BY <1>1, BulkAssumption DEF Unit
  <2> QED
    BY <1>1, <2>1 DEF Length
<1>3. index < size[s] <=> index + 1 <= Length(s)
  BY <1>1, <1>2
<1>4. Abstract!Fill(s, index, 1, value)
  <2>1. CASE index < size[s]
    <3>1. /\ Ends("done")
          /\ cells' = [cells EXCEPT ![<<s, index>>] = value]
          /\ UNCHANGED <<size, segments>>
      BY <2>1 DEF TableSet
    <3>2. Settled = cells /\ Settled' = cells'
      BY <3>1, EndsSettled
    <3>3. ASSUME NEW p \in Places
          PROVE  p[1] = s /\ p[2] \in index..(index + 1 - 1) <=> p = <<s, index>>
      BY <1>1, PlaceType
    <3>4. ASSUME NEW p \in Places
          PROVE  p[2] \in index..(index + 1 - 1) =>
                   [i \in 0..(1 - 1) |-> value][p[2] - index] = value
      BY <1>1, PlaceType
    <3>5. cells' = [p \in Places |-> IF p = <<s, index>> THEN value ELSE cells[p]]
      BY <3>1 DEF IInv, TypeOK
    <3>6. cells' = Abstract!Written(s, index, 1, [i \in 0..(1 - 1) |-> value])
      BY <3>2, <3>3, <3>4, <3>5 DEF Abstract!Written
    <3> QED
      BY <1>3, <2>1, <3>1, <3>2, <3>6
      DEF Abstract!Fill, Abstract!Store, Abstract!Write, Abstract!Ends,
          Abstract!Length, Ends, Length
  <2>2. CASE ~(index < size[s])
    <3>1. Abstract!Trap
      BY <2>2, TrapRefines DEF TableSet
    <3> QED
      BY <1>3, <2>2, <3>1
      DEF Abstract!Fill, Abstract!Store, Abstract!Length, Length
  <2> QED
    BY <2>1, <2>2
<1> QED
  BY <1>1, <1>4, OperandsType DEF Abstract!Next

LEMMA FillRefines ==
  ASSUME IInv, IInv', NEW s \in Stores, NEW destination \in Operands,
         NEW count \in Operands, NEW value \in Values,
         Fill(s, destination, count, value)
  PROVE  Abstract!Fill(s, destination, count, value)
<1>1. CASE Fits(s, destination, count)
  <2> DEFINE data == [i \in 0..(count - 1) |-> value]
  <2>1. Starts(value, 0, s, destination, count, FALSE)
    BY <1>1 DEF Fill
  <2>2. \A k \in 0..(count - 1) : data[k] = Taken(value, 0, k)
    BY BulkAssumption DEF Taken
  <2>3. Abstract!Write(s, destination, count, data)
    <3> HIDE DEF data
    <3> QED
      BY <2>1, <2>2, OperandsType, StartsWrites
  <2> QED
    BY <1>1, <2>3
    DEF Abstract!Fill, Abstract!Store, Abstract!Length, Fits, Length
<1>2. CASE ~Fits(s, destination, count)
  <2>1. Abstract!Trap
    BY <1>2, TrapRefines DEF Fill
  <2> QED
    BY <1>2, <2>1
    DEF Abstract!Fill, Abstract!Store, Abstract!Length, Fits, Length
<1> QED
  BY <1>1, <1>2

LEMMA CopyRefines ==
  ASSUME IInv, IInv', NEW from \in Stores, NEW to \in Stores,
         NEW source \in Operands, NEW destination \in Operands,
         NEW count \in Operands, Copy(from, to, source, destination, count)
  PROVE  Abstract!Copy(from, to, source, destination, count)
<1>1. CASE Fits(from, source, count) /\ Fits(to, destination, count)
  <2> DEFINE data == [i \in 0..(count - 1) |-> Settled[<<from, source + i>>]]
  <2>1. Starts(from, source, to, destination, count,
               CopiesDown(source, destination))
    BY <1>1 DEF Copy
  <2>2. Settled = cells
    BY <2>1, SettledWhenIdle DEF Starts, IInv
  <2>3. \A k \in 0..(count - 1) : data[k] = Taken(from, source, k)
    BY <2>2, BulkAssumption DEF Taken
  <2>4. CopiesDown(source, destination) \in BOOLEAN
    BY DEF CopiesDown
  <2>5. Abstract!Write(to, destination, count, data)
    <3> HIDE DEF data
    <3> QED
      BY <2>1, <2>3, <2>4, StartsWrites
  <2> QED
    BY <1>1, <2>5
    DEF Abstract!Copy, Abstract!Store, Abstract!Length, Fits, Length
<1>2. CASE ~(Fits(from, source, count) /\ Fits(to, destination, count))
  <2>1. Abstract!Trap
    BY <1>2, TrapRefines DEF Copy
  <2> QED
    BY <1>2, <2>1
    DEF Abstract!Copy, Abstract!Store, Abstract!Length, Fits, Length
<1> QED
  BY <1>1, <1>2

LEMMA InitFromRefines ==
  ASSUME IInv, IInv', NEW g \in Segments, NEW to \in Stores,
         NEW source \in Operands, NEW destination \in Operands,
         NEW count \in Operands, InitFrom(g, to, source, destination, count)
  PROVE  Abstract!FromSegment(g, to, source, destination, count)
<1>1. CASE source + count <= Len(segments[g]) /\ Fits(to, destination, count)
  <2> DEFINE data == [i \in 0..(count - 1) |-> segments[g][source + i + 1]]
  <2>1. Starts(g, source, to, destination, count, FALSE)
    BY <1>1 DEF InitFrom
  <2>2. \A k \in 0..(count - 1) : data[k] = Taken(g, source, k)
    BY BulkAssumption DEF Taken
  <2>3. Abstract!Write(to, destination, count, data)
    <3> HIDE DEF data
    <3> QED
      BY <2>1, <2>2, StartsWrites
  <2> QED
    BY <1>1, <2>3
    DEF Abstract!FromSegment, Abstract!Store, Abstract!Length, Fits, Length
<1>2. CASE ~(source + count <= Len(segments[g]) /\ Fits(to, destination, count))
  <2>1. Abstract!Trap
    BY <1>2, TrapRefines DEF InitFrom
  <2> QED
    BY <1>2, <2>1
    DEF Abstract!FromSegment, Abstract!Store, Abstract!Length, Fits, Length
<1> QED
  BY <1>1, <1>2

LEMMA DropRefines ==
  ASSUME IInv, IInv', NEW g \in Segments, Drop(g)
  PROVE  Abstract!Drop(g)
<1>1. /\ Ends("done")
      /\ segments' = [segments EXCEPT ![g] = <<>>]
      /\ UNCHANGED <<cells, size>>
  BY DEF Drop
<1>2. Settled = cells /\ Settled' = cells'
  BY <1>1, EndsSettled
<1> QED
  BY <1>1, <1>2 DEF Ends, Abstract!Drop, Abstract!Ends

LEMMA GrowRefines ==
  ASSUME IInv, IInv', NEW s \in Stores, NEW n \in Operands, NEW value \in Values,
         Grow(s, n, value)
  PROVE  Abstract!Grow(s, n, value)
<1>1. CASE MayGrow(s, n)
  <2> DEFINE added == n * Unit[s]
             data  == [i \in 0..(added - 1) |-> value]
  <2>1. /\ Ends("done")
        /\ cells' = Grown(s, n, value)
        /\ size' = [size EXCEPT ![s] = size[s] + n]
        /\ UNCHANGED segments
    BY <1>1 DEF Grow
  <2>2. Settled = cells /\ Settled' = cells'
    BY <2>1, EndsSettled
  <2>3. Length(s) \in Nat /\ added \in Nat
    BY LengthBounded, UnitType, OperandsType, ProductMonotone DEF IInv
  <2>4. cells' = [p \in Places |->
          IF p[1] = s /\ Length(s) <= p[2] /\ p[2] < Length(s) + added
          THEN value ELSE cells[p]]
    BY <2>1 DEF Grown
  <2>5. ASSUME NEW p \in Places
        PROVE  /\ Length(s) <= p[2] /\ p[2] < Length(s) + added <=>
                    p[2] \in Length(s)..(Length(s) + added - 1)
               /\ p[2] \in Length(s)..(Length(s) + added - 1) =>
                    data[p[2] - Length(s)] = value
    <3>1. p[2] \in Nat
      BY PlaceType
    <3> HIDE DEF added
    <3> QED
      BY <2>3, <3>1
  <2>6. cells' = Abstract!Written(s, Length(s), added, data)
    <3> HIDE DEF added, data
    <3> QED
      BY <2>2, <2>4, <2>5 DEF Abstract!Written
  <2> QED
    BY <1>1, <2>1, <2>2, <2>6
    DEF MayGrow, Ends, Length, Abstract!Grow, Abstract!Ends, Abstract!Length
<1>2. CASE ~MayGrow(s, n)
  <2>1. Ends("refused") /\ UNCHANGED <<cells, size, segments>>
    BY <1>2 DEF Grow
  <2>2. Settled = cells /\ Settled' = cells'
    BY <2>1, EndsSettled
  <2> QED
    BY <1>2, <2>1, <2>2 DEF MayGrow, Ends, Abstract!Grow, Abstract!Ends
<1> QED
  BY <1>1, <1>2

LEMMA NextRefines ==
  IInv /\ IInv' /\ [Next]_vars => [Abstract!Next]_(Abstract!storageVars)
<1> SUFFICES ASSUME IInv, IInv', [Next]_vars
             PROVE  Abstract!Next \/ UNCHANGED Abstract!storageVars
  OBVIOUS
<1>1. CASE Step
  BY <1>1, StepStutters DEF Step, Abstract!storageVars
<1>2. ASSUME NEW s \in Memories, NEW a \in Operands, NEW i \in Operands,
             NEW d \in Data, MemoryStore(s, a, i, d)
      PROVE  Abstract!Next
  BY <1>2, MemoryStoreRefines
<1>3. ASSUME NEW s \in Tables, NEW a \in Operands, NEW v \in Values,
             TableSet(s, a, v)
      PROVE  Abstract!Next
  BY <1>3, TableSetRefines
<1>4. ASSUME NEW s \in Stores, NEW j \in Operands, NEW n \in Operands,
             NEW v \in Values, Fill(s, j, n, v)
      PROVE  Abstract!Next
  BY <1>4, FillRefines DEF Abstract!Next
<1>5. ASSUME NEW s \in Stores, NEW t \in Stores, NEW i \in Operands,
             NEW j \in Operands, NEW n \in Operands, Copy(s, t, i, j, n)
      PROVE  Abstract!Next
  BY <1>5, CopyRefines DEF Abstract!Next
<1>6. ASSUME NEW g \in Segments, NEW s \in Stores, NEW i \in Operands,
             NEW j \in Operands, NEW n \in Operands, InitFrom(g, s, i, j, n)
      PROVE  Abstract!Next
  BY <1>6, InitFromRefines DEF Abstract!Next
<1>7. ASSUME NEW g \in Segments, Drop(g) PROVE Abstract!Next
  BY <1>7, DropRefines DEF Abstract!Next
<1>8. ASSUME NEW s \in Memories, NEW n \in Operands, Grow(s, n, Zero)
      PROVE  Abstract!Next
  BY <1>8, GrowRefines, BulkAssumption DEF Stores, Abstract!Next
<1>9. ASSUME NEW s \in Tables, NEW n \in Operands, NEW v \in Values,
             Grow(s, n, v)
      PROVE  Abstract!Next
  BY <1>9, GrowRefines DEF Stores, Abstract!Next
<1>10. CASE UNCHANGED vars
  BY <1>10 DEF vars, Settled, Remaining, Read, Abstract!storageVars
<1> QED
  BY <1>1, <1>2, <1>3, <1>4, <1>5, <1>6, <1>7, <1>8, <1>9, <1>10 DEF Next

\* Memories and tables are the arrays of Storage: a copy writes what its
\* source held before it, however the ranges overlap, all of a range is
\* written or nothing, and growth keeps the contents.
THEOREM StorageImplemented == Spec => ImplementsStorage
<1>1. Init => Abstract!Init
  <2> SUFFICES ASSUME Init PROVE Abstract!Init
    OBVIOUS
  <2>1. IInv
    BY InitInv
  <2>2. Settled = cells
    BY <2>1, NoLoopType, SettledWhenIdle DEF IInv, Init
  <2> QED
    BY <2>1, <2>2 DEF IInv, TypeOK, Init, Abstract!Init
<1> QED
  BY <1>1, Invariance, NextRefines, PTL DEF Spec, ImplementsStorage, Abstract!Spec
=============================================================================
