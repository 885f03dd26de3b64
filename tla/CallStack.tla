------------------------------ MODULE CallStack ------------------------------
(***************************************************************************)
(* What run_function promises: a call stack.  Entering pushes an entry for *)
(* the callee and leaving pops it, gives its results to the entry below,   *)
(* and touches no other; the stack is bounded; a trap takes the entries    *)
(* one by one and nothing runs until the host has it.                      *)
(***************************************************************************)
EXTENDS Integers, Sequences

CONSTANTS Modules, MaxDepth

VARIABLES
  calls,   \* the entries: the module of the code, the results it got
  status   \* "host", "running", or "unwinding" after a trap

callVars == <<calls, status>>

WithResults(entry) == [entry EXCEPT !.operands = @ + 1]

Popped == SubSeq(calls, 1, Len(calls) - 1)

Init == calls = <<>> /\ status = "host"

\* The callee may trap at once.
Enter(m) ==
  /\ status # "unwinding"
  /\ Len(calls) < MaxDepth
  /\ calls' = Append(calls, [mod |-> m, operands |-> 0])
  /\ status' \in {"running", "unwinding"}

\* A tail call: the entry is given to another function.
Replace(m) ==
  /\ status = "running"
  /\ calls # <<>>
  /\ calls' = [calls EXCEPT ![Len(calls)] = [mod |-> m, operands |-> 0]]
  /\ UNCHANGED status

\* A call of a native, which needs no entry of its own.
GetResults ==
  /\ status = "running"
  /\ calls # <<>>
  /\ calls' = [calls EXCEPT ![Len(calls)] = WithResults(@)]
  /\ UNCHANGED status

Leave ==
  /\ status = "running"
  /\ Len(calls) > 1
  /\ calls' = [k \in 1..(Len(calls) - 1) |->
                 IF k = Len(calls) - 1
                 THEN WithResults(calls[k]) ELSE calls[k]]
  /\ UNCHANGED status

Finish ==
  /\ status = "running"
  /\ Len(calls) = 1
  /\ calls' = Popped
  /\ status' = "host"

Trap ==
  /\ status # "unwinding"
  /\ status' = "unwinding"
  /\ UNCHANGED calls

Unwind ==
  /\ status = "unwinding"
  /\ calls # <<>>
  /\ calls' = Popped
  /\ UNCHANGED status

Report ==
  /\ status = "unwinding"
  /\ calls = <<>>
  /\ status' = "host"
  /\ UNCHANGED calls

Next ==
  \/ \E m \in Modules : Enter(m) \/ Replace(m)
  \/ GetResults
  \/ Leave
  \/ Finish
  \/ Trap
  \/ Unwind
  \/ Report

Spec == Init /\ [][Next]_callVars
=============================================================================
