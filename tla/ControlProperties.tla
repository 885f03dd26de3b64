--------------------------- MODULE ControlProperties ---------------------------
(***************************************************************************)
(* What parser, validator and interpreter owe each other.  The structure   *)
(* of the code is defined here from the nesting of its openers and ends    *)
(* alone, and the labels the program computes are compared with it.        *)
(***************************************************************************)
EXTENDS Interpreter

\* The parser and the validator hold indices into the code and heights into
\* stacks that must stay in range, whatever the stream holds.
TypeOK ==
  /\ phase \in Phases
  /\ instructions \in Seq([op : STRING, type : Signatures, idx : Nat,
                           idx2 : Nat, depths : Seq(Nat), label : Labels,
                           elseLocation : Nat, targets : Seq(Labels)])
  /\ blockBeginStack \in Seq(BlockBegins)
  /\ position \in 0..Len(instructions)
  /\ types \in Seq(Types \cup {Unknown})
  /\ labels \in Seq(ValidatorLabels)
  /\ ip \in Nat
  /\ stack \in Seq(Types)
  /\ locals \in Seq(Types)
  /\ globals \in Seq(Types)

-----------------------------------------------------------------------------
(* The structure of a code.                                                *)

Indices == 0..(Len(instructions) - 1)

IsOp(i, ops) == At(instructions, i).op \in ops

\* How many blocks opened in i..j are still open after j.
Depth(i, j) == Cardinality({k \in i..j : IsOp(k, Openers)})
                 - Cardinality({k \in i..j : IsOp(k, {"end"})})

MatchingEnd(i) ==
  CHOOSE j \in Indices : /\ j > i /\ Depth(i, j) = 0
                         /\ \A k \in i..(j - 1) : Depth(i, k) > 0

\* The openers whose block holds instruction i (an opener is not in its own).
Enclosing(i) == {k \in Indices : k < i /\ IsOp(k, Openers) /\ MatchingEnd(k) >= i}

\* The opener a branch at i with label index d names; -1 is the function.
TargetOf(i, d) ==
  IF d = Cardinality(Enclosing(i)) THEN -1
  ELSE CHOOSE k \in Enclosing(i) :
         Cardinality({m \in Enclosing(i) : m > k}) = d

\* Where control goes on after the block opened at k, and with how many
\* operands, when it is branched to.
ContinuationOf(k) ==
  IF k = -1 THEN Len(instructions)
  ELSE IF IsOp(k, {"loop"}) THEN k ELSE MatchingEnd(k) + 1

ArityOf(k) ==
  IF k = -1 THEN Len(FunctionType.returns)
  ELSE IF IsOp(k, {"loop"}) THEN Len(At(instructions, k).type.params)
  ELSE Len(At(instructions, k).type.returns)

IsLabelOf(label, k) ==
  label.continuation = ContinuationOf(k) /\ label.arity = ArityOf(k)

\* The else of the if at i: in its block and in no block inside that.
ElsesOf(i) ==
  {k \in (i + 1)..MatchingEnd(i) : IsOp(k, {"else"}) /\ Depth(i, k) = 1}

\* The label indices with which instruction i branches, and the labels.
BranchDepths(i) ==
  CASE At(instructions, i).op \in {"br", "br_if"} -> <<At(instructions, i).idx>>
    [] At(instructions, i).op = "br_table" -> At(instructions, i).depths
    [] OTHER -> <<>>

BranchLabels(i) ==
  IF IsOp(i, {"br_table"}) THEN At(instructions, i).targets
                           ELSE <<At(instructions, i).label>>

\* A label index without a successor in uint32_t: get_label lets it pass and
\* reads outside of the labels (Validator.cpp:124).
Wraps(index) == index + 1 >= U32

BranchWraps(i) == \E k \in DOMAIN BranchDepths(i) : Wraps(BranchDepths(i)[k])

\* Whether a callee found through a table is of another type than the one the
\* call was validated for: a type index means something else in the module of
\* the reference (VM.cpp:265, 302).
FindsOtherTypes(i) ==
  /\ IsOp(i, IndirectCalls)
  /\ \E fileTypes \in ForeignTypes :
       \/ At(instructions, i).idx >= Len(fileTypes)
       \/ At(fileTypes, At(instructions, i).idx) # CalleeType(At(instructions, i))

-----------------------------------------------------------------------------
(* Properties.                                                             *)

\* The code that is run branches where its nesting says: every label of a
\* br, br_if or br_table, computed by the parser when the end is read and
\* copied by the validator, is that of the block the label index names, and
\* an if and its else agree on where the block ends.  Named exception: the
\* label index that wraps.
BranchesResolved ==
  phase = "run" =>
    \A i \in Indices :
      /\ \A k \in DOMAIN BranchDepths(i) : ~Wraps(BranchDepths(i)[k]) =>
           IsLabelOf(BranchLabels(i)[k], TargetOf(i, BranchDepths(i)[k]))
      /\ IsOp(i, {"if"}) =>
           /\ IsLabelOf(At(instructions, i).label, i)
           /\ ElsesOf(i) = {At(instructions, i).elseLocation} \ {0}
           /\ \A k \in ElsesOf(i) : IsLabelOf(At(instructions, k).label, i)

\* When validation is over every block is closed and exactly the results of
\* the function are left, though that check is commented out in the code.
ValidationIsBalanced ==
  phase = "run" => labels = <<>> /\ types = FunctionType.returns

\* The height below which the operands of outer blocks are out of reach never
\* decreases with nesting and is never above the stack.
HeightsNested ==
  \A k \in DOMAIN labels :
    labels[k].stackHeight <= IF k < Len(labels) THEN labels[k + 1].stackHeight
                                                ELSE Len(types)

\* Control moves to the next instruction, back to a loop, or forward to just
\* after an else or an end: no step lands in the middle of a block.  Named
\* exception: a branch with a label index that wraps.
JumpsAreStructured ==
  [][phase = "run" /\ phase' = "run" /\ ip' # ip =>
       \/ ip' = ip + 1
       \/ ip' <= ip /\ IsOp(ip', {"loop"})
       \/ ip' > ip /\ IsOp(ip' - 1, {"else", "end"})
       \/ BranchWraps(ip)]_vars

\* What the validator lets through although the interpreter cannot run it: a
\* branch out of an if, whose label has no stack height; a branch to a loop
\* with parameters, which are not checked; a br_if that leaves its operands
\* in the reverse order; an if without else that changes the types; two
\* instructions validated with i32 operands that run on those of a 64-bit
\* memory; a tail call of a function that may be a native with another
\* number of parameters than its caller (VM.cpp:281, 312); a branch with a label
\* index that wraps; and an indirect call that may find a function of a module
\* in which its type index means something else.
UncheckedByValidator ==
  \E i \in Indices :
    \/ BranchWraps(i)
    \/ FindsOtherTypes(i)
    \/ \E k \in DOMAIN BranchDepths(i) :
         LET target == TargetOf(i, BranchDepths(i)[k]) IN
         /\ target # -1
         /\ \/ IsOp(target, {"if"})
            \/ IsOp(target, {"loop"}) /\ At(instructions, target).type.params # <<>>
    \/ /\ IsOp(i, {"br_if"})
       /\ LET target  == TargetOf(i, At(instructions, i).idx)
              results == IF target = -1 THEN FunctionType.returns
                         ELSE At(instructions, target).type.returns
          IN  Reverse(results) # results
    \/ /\ IsOp(i, {"if"})
       /\ At(instructions, i).elseLocation = 0
       /\ At(instructions, i).type.params # At(instructions, i).type.returns
    \/ IsOp(i, {"memory_init"}) /\ Memory(At(instructions, i).idx2) = "i64"
    \/ IsOp(i, {"v128_store_lane"}) /\ Memory(At(instructions, i).idx) = "i64"
    \/ /\ \/ IsOp(i, {"return_call"}) /\ At(instructions, i).idx \in Natives
          \/ IsOp(i, {"return_call_indirect"})
       /\ Len(CalleeType(At(instructions, i)).params) # Len(FunctionType.params)

\* Validated code never makes a debug assertion of the stack fail, erases a
\* range that is none, runs a native on operands of another number or looks a
\* type up outside of those there are, and what it returns has the types it
\* declares.
ValidatedCodeIsSafe ==
  /\ phase \in Faults => UncheckedByValidator
  /\ phase = "returned" => stack = FunctionType.returns \/ UncheckedByValidator

\* The assertion of Stack::pop, with no exception.
NeverPopsEmpty == phase # "popEmpty"

\* The assertion of ValueStack::pop_as, with no exception.
NeverPopsOtherType == phase # "popType"
=============================================================================
