---------------------------- MODULE BulkOperations ----------------------------
(***************************************************************************)
(* The instructions that write memories and tables.  A store is an array   *)
(* of cells: bytes or references.  A range is written by a loop, one cell  *)
(* at a step, with values out of cells (copy), a segment (init) or a       *)
(* constant (fill); memcpy and memset are taken as loops that run up.      *)
(*                                                                         *)
(* Memories and tables here have 32-bit addresses, and the offset of a     *)
(* MemArg is below 2^32 too: the code adds such numbers in uint64_t, where *)
(* a sum of a few of them is exact.                                        *)
(***************************************************************************)
EXTENDS Integers, Sequences

CONSTANTS
  Memories,      \* cells are bytes, the size is in pages
  Tables,        \* cells are references, the size is in entries
  PageSize,      \* WASM_PAGE_SIZE
  InitialSize,   \* Limits::min of each memory and table
  Limit,         \* its max, or what the code takes when it has none
  Segments,      \* data and element segments
  DataSegments,  \* those with bytes
  SegmentData,   \* their contents
  Values,        \* the values of a cell
  Zero,          \* the byte of a new page and the first value of a table
  U32,           \* bound: 2^32
  Data           \* bound: what a store instruction or table.set writes

Stores == Memories \cup Tables

Unit == [s \in Stores |-> IF s \in Memories THEN PageSize ELSE 1]

Operands == 0..(U32 - 1)
Addresses == 0..(2 * U32 - 2)

ASSUME BulkAssumption ==
  /\ Memories \cap Tables = {} /\ Stores \cap Segments = {}
  /\ Values \cap (Stores \cup Segments) = {} /\ Stores # {}
  /\ DataSegments \subseteq Segments
  /\ PageSize \in Nat \ {0} /\ U32 \in Nat \ {0, 1}
  /\ Limit \in [Stores -> Nat] /\ InitialSize \in [Stores -> Nat]
  /\ \A s \in Stores : InitialSize[s] <= Limit[s] /\ Limit[s] * Unit[s] <= U32
  /\ SegmentData \in [Segments -> Seq(Values)]
  /\ Zero \in Values /\ Data \subseteq Seq(Values)

\* Every cell there may ever be.
Places == {p \in Stores \X (0..(U32 - 1)) : p[2] < Limit[p[1]] * Unit[p[1]]}

VARIABLES
  cells,      \* the contents; the cells within the size exist
  size,       \* m_size of a memory, m_elements.size() of a table
  segments,   \* dataBlocks and elements
  outcome,    \* of the last instruction: "done", "trap", "refused" (-1)
  turn,       \* history: flips when an instruction starts
  loop        \* the loop that runs, NoLoop between instructions

vars == <<cells, size, segments, outcome, turn, loop>>

\* A loop that writes count cells of `to`, todo of which are left.  It takes
\* them from cells or a segment at source, or `from` is their value.
Loops ==
  [from : Stores \cup Segments \cup Values, source : Operands, to : Stores,
   destination : Operands, count : Operands, todo : Operands, down : BOOLEAN]

NoLoop ==
  [from |-> Zero, source |-> 0, to |-> CHOOSE s \in Stores : TRUE,
   destination |-> 0, count |-> 0, todo |-> 0, down |-> FALSE]

\* The variables have their types, and no store is larger than its limit.
TypeOK ==
  /\ cells \in [Places -> Values]
  /\ size \in [Stores -> Nat] /\ \A s \in Stores : size[s] <= Limit[s]
  /\ segments \in [Segments -> Seq(Values)]
  /\ outcome \in {"done", "trap", "refused"}
  /\ turn \in {0, 1}
  /\ loop \in Loops

Length(s) == size[s] * Unit[s]

\* Mutant: only the start is compared.
FitsStart(s, start, count) == start <= Length(s)

\* Memory::check_outside_bounds, and the tests the table instructions make.
Fits(s, start, count) == start + count <= Length(s)

Init ==
  /\ cells = [p \in Places |-> Zero]
  /\ size = InitialSize
  /\ segments = SegmentData
  /\ outcome = "done"
  /\ turn = 0
  /\ loop = NoLoop

-----------------------------------------------------------------------------
(* The loops.                                                              *)

\* The offset the loop writes next, and those it has yet to write.
Offset(o) == IF o.down THEN o.todo - 1 ELSE o.count - o.todo

Remaining(o) ==
  IF o.down THEN 0..(o.todo - 1) ELSE (o.count - o.todo)..(o.count - 1)

Read(o, i) ==
  CASE o.from \in Stores -> cells[<<o.from, o.source + i>>]
    [] o.from \in Segments -> segments[o.from][o.source + i + 1]
    [] OTHER -> o.from

\* Mutant: the index of a loop that runs down is never below zero.
AdvancedForever(o) ==
  IF o.todo > 1 THEN [o EXCEPT !.todo = o.todo - 1]
  ELSE IF o.down THEN [o EXCEPT !.todo = o.count] ELSE NoLoop

Advanced(o) ==
  IF o.todo > 1 THEN [o EXCEPT !.todo = o.todo - 1] ELSE NoLoop

Step ==
  /\ loop.todo > 0
  /\ cells' = [cells EXCEPT ![<<loop.to, loop.destination + Offset(loop)>>] =
                 Read(loop, Offset(loop))]
  /\ loop' = Advanced(loop)
  /\ UNCHANGED <<size, segments, outcome, turn>>

-----------------------------------------------------------------------------
(* The instructions.                                                       *)

Ends(result) ==
  /\ loop.todo = 0
  /\ outcome' = result
  /\ turn' = 1 - turn
  /\ UNCHANGED loop

Trap == Ends("trap") /\ UNCHANGED <<cells, size, segments>>

Starts(from, source, to, destination, count, down) ==
  /\ loop.todo = 0
  /\ outcome' = "done"
  /\ turn' = 1 - turn
  /\ loop' = IF count = 0 THEN NoLoop
             ELSE [from |-> from, source |-> source, to |-> to,
                   destination |-> destination, count |-> count,
                   todo |-> count, down |-> down]
  /\ UNCHANGED <<cells, size, segments>>

\* A store instruction, which adds the offset of its MemArg to the address.
MemoryStore(s, address, offset, data) ==
  IF Fits(s, address, offset + Len(data))
  THEN /\ Ends("done")
       /\ cells' = [p \in Places |->
            IF p[1] = s /\ p[2] - (address + offset) \in 0..(Len(data) - 1)
            THEN data[p[2] - (address + offset) + 1] ELSE cells[p]]
       /\ UNCHANGED <<size, segments>>
  ELSE Trap

TableSet(s, index, value) ==
  IF index < size[s]
  THEN /\ Ends("done")
       /\ cells' = [cells EXCEPT ![<<s, index>>] = value]
       /\ UNCHANGED <<size, segments>>
  ELSE Trap

\* memory.fill and table.fill.
Fill(s, destination, count, value) ==
  IF Fits(s, destination, count)
  THEN Starts(value, 0, s, destination, count, FALSE)
  ELSE Trap

\* Mutant: the directions are the wrong way round.
CopiesUp(source, destination) == destination <= source

\* The loop of a copy runs down when the destination is above the source.
CopiesDown(source, destination) == destination > source

\* memory.copy and table.copy.
Copy(from, to, source, destination, count) ==
  /\ from \in Memories <=> to \in Memories
  /\ IF Fits(from, source, count) /\ Fits(to, destination, count)
     THEN Starts(from, source, to, destination, count,
                 CopiesDown(source, destination))
     ELSE Trap

\* memory.init and table.init.
InitFrom(g, to, source, destination, count) ==
  /\ g \in DataSegments <=> to \in Memories
  /\ IF source + count <= Len(segments[g]) /\ Fits(to, destination, count)
     THEN Starts(g, source, to, destination, count, FALSE)
     ELSE Trap

\* data.drop and elem.drop.
Drop(g) ==
  /\ Ends("done")
  /\ segments' = [segments EXCEPT ![g] = <<>>]
  /\ UNCHANGED <<cells, size>>

\* Mutant: only what is added is compared.
AdditionFits(s, n) == n <= Limit[s]

MayGrow(s, n) == size[s] + n <= Limit[s]

\* Memory::grow makes a new array of zeros and copies the old one into it;
\* Table::grow appends the value.
Grown(s, n, value) ==
  [p \in Places |-> IF p[1] = s /\ Length(s) <= p[2] /\ p[2] < Length(s) + n * Unit[s]
                    THEN value ELSE cells[p]]

\* memory.grow and table.grow, which return -1 rather than grow too far.
Grow(s, n, value) ==
  IF MayGrow(s, n)
  THEN /\ Ends("done")
       /\ cells' = Grown(s, n, value)
       /\ size' = [size EXCEPT ![s] = size[s] + n]
       /\ UNCHANGED segments
  ELSE Ends("refused") /\ UNCHANGED <<cells, size, segments>>

Next ==
  \/ Step
  \/ \E s \in Memories, a, i \in Operands, d \in Data : MemoryStore(s, a, i, d)
  \/ \E s \in Tables, a \in Operands, v \in Values : TableSet(s, a, v)
  \/ \E s \in Stores, j, n \in Operands, v \in Values : Fill(s, j, n, v)
  \/ \E s, t \in Stores, i, j, n \in Operands : Copy(s, t, i, j, n)
  \/ \E g \in Segments, s \in Stores, i, j, n \in Operands :
       InitFrom(g, s, i, j, n)
  \/ \E g \in Segments : Drop(g)
  \/ \E s \in Memories, n \in Operands : Grow(s, n, Zero)
  \/ \E s \in Tables, n \in Operands, v \in Values : Grow(s, n, v)

Spec == Init /\ [][Next]_vars /\ WF_vars(Step)

-----------------------------------------------------------------------------
(* Properties.                                                             *)

\* The contents as they are when the loop that runs is over.
Settled ==
  [p \in Places |->
     IF p[1] = loop.to /\ p[2] - loop.destination \in Remaining(loop)
     THEN Read(loop, p[2] - loop.destination) ELSE cells[p]]

Abstract == INSTANCE Storage WITH cells <- Settled

\* Seen between instructions, memories and tables are the arrays of Storage:
\* the loops of VM.cpp write what one step that reads everything first would,
\* whichever way the ranges of a copy overlap; a trap and a refused growth
\* change nothing, and growth keeps the contents.
ImplementsStorage == Abstract!Spec

\* A loop never leaves the range that its instruction has checked, and so
\* what it reads and writes exists: neither growth nor a drop falls between.
LoopInBounds ==
  loop.todo > 0 =>
    /\ loop.destination + Offset(loop) \in 0..(Length(loop.to) - 1)
    /\ loop.from \in Stores =>
         loop.source + Offset(loop) \in 0..(Length(loop.from) - 1)
    /\ loop.from \in Segments =>
         loop.source + Offset(loop) + 1 \in DOMAIN segments[loop.from]

\* Every loop ends, so no instruction hangs the program.
LoopsEnd == loop.todo > 0 ~> loop.todo = 0
=============================================================================
