------------------------------- MODULE Storage -------------------------------
(***************************************************************************)
(* What memories and tables promise: arrays of cells that only grow, up to *)
(* a limit.  An operation on a range of cells is one step, on all of it or *)
(* on nothing, and a copy takes all its cells before it writes any.        *)
(***************************************************************************)
EXTENDS Integers, Sequences

CONSTANTS Memories, Tables, Stores, Unit, Limit, Places, Values, Zero,
          Operands, Addresses, Data, Segments, SegmentData

VARIABLES
  cells,      \* the contents; the cells within the size exist
  size,       \* how large each store is
  segments,   \* what is left of the segments
  outcome,    \* of the last operation: "done", "trap" or "refused"
  turn        \* flips at each operation, so that every operation is a step

storageVars == <<cells, size, segments, outcome, turn>>

Ends(result) == outcome' = result /\ turn' = 1 - turn

Length(s) == size[s] * Unit[s]

\* The range of count cells from start takes data, which starts at 0.
Written(s, start, count, data) ==
  [p \in Places |-> IF p[1] = s /\ p[2] \in start..(start + count - 1)
                    THEN data[p[2] - start] ELSE cells[p]]

Init ==
  /\ cells \in [Places -> Values]
  /\ size \in [Stores -> Nat]
  /\ segments = SegmentData
  /\ outcome = "done"
  /\ turn = 0

Trap ==
  /\ Ends("trap")
  /\ UNCHANGED <<cells, size, segments>>

Write(s, start, count, data) ==
  /\ Ends("done")
  /\ cells' = Written(s, start, count, data)
  /\ UNCHANGED <<size, segments>>

Store(s, start, count, data) ==
  IF start + count <= Length(s) THEN Write(s, start, count, data) ELSE Trap

Fill(s, start, count, v) ==
  Store(s, start, count, [i \in 0..(count - 1) |-> v])

Copy(from, to, source, destination, count) ==
  IF source + count <= Length(from)
  THEN Store(to, destination, count,
             [i \in 0..(count - 1) |-> cells[<<from, source + i>>]])
  ELSE Trap

FromSegment(g, to, source, destination, count) ==
  IF source + count <= Len(segments[g])
  THEN Store(to, destination, count,
             [i \in 0..(count - 1) |-> segments[g][source + i + 1]])
  ELSE Trap

Drop(g) ==
  /\ Ends("done")
  /\ segments' = [segments EXCEPT ![g] = <<>>]
  /\ UNCHANGED <<cells, size>>

Grow(s, n, v) ==
  IF size[s] + n <= Limit[s]
  THEN /\ Ends("done")
       /\ size' = [size EXCEPT ![s] = size[s] + n]
       /\ cells' = Written(s, Length(s), n * Unit[s],
                           [i \in 0..(n * Unit[s] - 1) |-> v])
       /\ UNCHANGED segments
  ELSE /\ Ends("refused")
       /\ UNCHANGED <<cells, size, segments>>

Next ==
  \/ \E s \in Stores, a \in Addresses, d \in Data : Store(s, a, Len(d), [i \in 0..(Len(d) - 1) |-> d[i + 1]])
  \/ \E s \in Stores, j, n \in Operands, v \in Values : Fill(s, j, n, v)
  \/ \E s \in Memories, n \in Operands : Grow(s, n, Zero)
  \/ \E s \in Tables, n \in Operands, v \in Values : Grow(s, n, v)
  \/ \E s, t \in Stores, i, j, n \in Operands : Copy(s, t, i, j, n)
  \/ \E g \in Segments, s \in Stores, i, j, n \in Operands :
       FromSegment(g, s, i, j, n)
  \/ \E g \in Segments : Drop(g)

Spec == Init /\ [][Next]_storageVars
=============================================================================
