------------------------------- MODULE MCBulk -------------------------------
(***************************************************************************)
(* A memory of at most two pages of two bytes and a table of at most two   *)
(* entries, with a data segment of two bytes and an element segment of one.*)
(***************************************************************************)
EXTENDS BulkOperations

CONSTANTS m, t, d, e, v0, v1

MCInitialSize == [s \in {m, t} |-> 1]
MCLimit == [s \in {m, t} |-> 2]
MCSegmentData == [s \in {d, e} |-> IF s = d THEN <<v1, v0>> ELSE <<v1>>]
MCData == {<<v1>>, <<v0, v1>>}
=============================================================================
