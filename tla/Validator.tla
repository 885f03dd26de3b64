------------------------------ MODULE Validator ------------------------------
(***************************************************************************)
(* validate_function(): one instruction of the parsed code is checked at   *)
(* each step against a stack of operand types and a stack of labels.  It   *)
(* is also the pass that lowers br, br_if and br_table: the label index in *)
(* the stream is replaced by the label the interpreter will branch to, and *)
(* only here do labels get their stack height.                             *)
(***************************************************************************)
EXTENDS Parser

CONSTANTS
  FunctionType,   \* the signature of the function
  LocalTypes,     \* the types of its declared locals
  FunctionTypes,  \* the function types of the file
  Callees,        \* m_functions: the signatures of the module's functions
  Globals,        \* m_globals: [type, mutable]
  Memories,       \* m_memories: address types
  Tables,         \* m_tables: [type, address]
  Elements,       \* element segments: their value types
  DataBlocks,     \* number of data segments
  HasDataCount,   \* whether the file has a data count section
  U32,            \* bound: the modulus of uint32_t
  StrayLabels     \* what memory outside of m_labels may be taken for

\* struct ValidatorLabel
ValidatorLabels ==
  [stackHeight : Nat, returnTypes : Seq(Types), paramTypes : Seq(Types),
   type : {"entry", "block", "loop", "if", "ifAfterElse"},
   unreachable : BOOLEAN, label : Labels]

ASSUME ValidatorAssumption ==
  /\ FunctionType \in Signatures
  /\ LocalTypes \in Seq(Types)
  /\ FunctionTypes \in Seq(Signatures) /\ Callees \in Seq(Signatures)
  /\ Globals \in Seq([type : Types, mutable : BOOLEAN])
  /\ Memories \in Seq({"i32", "i64"})
  /\ Tables \in Seq([type : Types, address : {"i32", "i64"}])
  /\ Elements \in Seq(Types)
  /\ DataBlocks \in Nat
  /\ HasDataCount \in BOOLEAN
  /\ U32 \in Nat /\ U32 > 0
  /\ StrayLabels \subseteq ValidatorLabels /\ StrayLabels # {}

VARIABLES
  position,   \* index of the next instruction to validate
  types,      \* ValidatorStack: the types of the operands
  labels      \* ValidatorStack::m_labels

validatorVars == <<position, types, labels>>

\* What an operand of unreachable code may be: ValidatorType's default.
Unknown == "unknown"

EntryLabel(length) ==
  [stackHeight |-> 0, returnTypes |-> FunctionType.returns,
   paramTypes |-> FunctionType.params, type |-> "entry", unreachable |-> FALSE,
   label |-> [continuation |-> length, arity |-> Len(FunctionType.returns),
              stackHeight |-> 0]]

ValidatorInit ==
  /\ position = 0
  /\ types = <<>>
  /\ labels = <<>>

-----------------------------------------------------------------------------
(* The operand stack: pop, expect and erase, as functions of the stack and *)
(* of the innermost label.                                                 *)

Agrees(actual, expected) ==
  actual = expected \/ actual = Unknown \/ expected = Unknown

\* How many of n operands pop finds before it reaches the label's height,
\* below which unreachable code finds operands of any type.
Found(stack, label, n) ==
  IF n <= Len(stack) - label.stackHeight THEN n
  ELSE Len(stack) - label.stackHeight

\* Mutant: operands of the outer blocks are within reach.
CanPopBelowLabel(stack, label, n) ==
  n <= Len(stack) \/ label.unreachable

CanPop(stack, label, n) ==
  \/ n <= Len(stack) - label.stackHeight
  \/ label.unreachable /\ Len(stack) >= label.stackHeight

AfterPop(stack, label, n) ==
  SubSeq(stack, 1, Len(stack) - Found(stack, label, n))

\* The k-th operand popped, 1 being the top of the stack.
Popped(stack, label, n, k) ==
  IF k <= Found(stack, label, n) THEN stack[Len(stack) - k + 1] ELSE Unknown

\* Whether expect succeeds for each type of expected, the last one first.
CanExpect(stack, label, expected) ==
  LET n == Len(expected) IN
  /\ CanPop(stack, label, n)
  /\ \A k \in 1..n : Agrees(Popped(stack, label, n, k), expected[n - k + 1])

AfterExpect(stack, label, expected) == AfterPop(stack, label, Len(expected))

LastLabel == Last(labels)

\* The assertion of get_label, with a sum in uint32_t: the last index passes,
\* for its successor is 0.
HasLabel(index) == (index + 1) % U32 <= Len(labels)

\* What get_label reads is then 2^32 labels below the innermost one, or just
\* above it where addresses have 32 bits: some stray label, unless the process
\* ends of it.
GetLabel(index, stray) ==
  IF index < Len(labels) THEN labels[Len(labels) - index] ELSE stray

ReadsOutside(index) == HasLabel(index) /\ index >= Len(labels)

\* What a branch to the label takes: nothing is checked for a loop.
BranchTypes(label) == IF label.type = "loop" THEN <<>> ELSE label.returnTypes

FunctionLocals == FunctionType.params \o LocalTypes

-----------------------------------------------------------------------------
(* Instructions with a fixed signature.                                    *)

AddressOfCount(a, b) == IF a = "i64" /\ b = "i64" THEN "i64" ELSE "i32"

Memory(i) == Memories[i + 1]

TableAt(i) == Tables[i + 1]

IndirectCalls == {"call_indirect", "return_call_indirect"}

\* The checks of the immediates.
IndicesValid(i) ==
  CASE i.op \in {"load", "store", "memory_size", "memory_grow", "memory_fill",
                 "v128_load_lane", "v128_store_lane"} ->
         i.idx < Len(Memories)
    [] i.op = "memory_init" ->
         HasDataCount /\ i.idx2 < Len(Memories) /\ i.idx < DataBlocks
    [] i.op = "data_drop" -> HasDataCount /\ i.idx < DataBlocks
    [] i.op = "memory_copy" -> i.idx < Len(Memories) /\ i.idx2 < Len(Memories)
    [] i.op \in {"table_get", "table_set", "table_grow", "table_size",
                 "table_fill"} -> i.idx < Len(Tables)
    [] i.op = "table_init" ->
         /\ i.idx2 < Len(Tables) /\ i.idx < Len(Elements)
         /\ TableAt(i.idx2).type = Elements[i.idx + 1]
    [] i.op = "table_copy" ->
         /\ i.idx < Len(Tables) /\ i.idx2 < Len(Tables)
         /\ TableAt(i.idx).type = TableAt(i.idx2).type
    [] i.op = "elem_drop" -> i.idx < Len(Elements)
    [] i.op \in {"local_get", "local_set", "local_tee"} ->
         i.idx < Len(FunctionLocals)
    [] i.op = "global_get" -> i.idx < Len(Globals)
    [] i.op = "global_set" ->
         i.idx < Len(Globals) /\ Globals[i.idx + 1].mutable
    [] i.op \in {"ref_func", "call", "return_call"} -> i.idx < Len(Callees)
    [] i.op \in IndirectCalls ->
         /\ i.idx2 < Len(Tables) /\ i.idx < Len(FunctionTypes)
         /\ TableAt(i.idx2).type = "funcref"
    [] OTHER -> TRUE

ConstantOps == {"nop", "i32_const", "i64_const", "v128_const", "i32_add", "i64_eqz"}

VectorOps == {"v128_bitselect", "extract_lane", "replace_lane"}

VariableOps == {"local_get", "local_set", "local_tee", "global_get", "global_set"}

LoadStoreOps == {"load", "store", "memory_size", "memory_grow",
                 "v128_load_lane", "v128_store_lane"}

BulkOps == {"memory_init", "data_drop", "memory_copy", "memory_fill"}

TableOps == {"table_get", "table_set", "table_init", "elem_drop", "table_copy",
             "table_grow", "table_size", "table_fill"}

ReferenceOps == {"ref_null", "ref_is_null", "ref_func"}

SimpleOps == ConstantOps \cup VectorOps \cup VariableOps \cup LoadStoreOps
               \cup BulkOps \cup TableOps \cup ReferenceOps \cup {"call", "call_indirect"}

\* The operands each is validated to take (the last one on top) and to leave.
ConstantAs(i) ==
  CASE i.op = "nop"        -> Empty
    [] i.op = "i32_const"  -> Signature(<<>>, <<"i32">>)
    [] i.op = "i64_const"  -> Signature(<<>>, <<"i64">>)
    [] i.op = "v128_const" -> Signature(<<>>, <<"v128">>)
    [] i.op = "i32_add"    -> Signature(<<"i32", "i32">>, <<"i32">>)
    [] i.op = "i64_eqz"    -> Signature(<<"i64">>, <<"i32">>)

VectorAs(i) ==
  CASE i.op = "v128_bitselect" -> Signature(<<"v128", "v128", "v128">>, <<"v128">>)
    [] i.op = "extract_lane"   -> Signature(<<"v128">>, <<"i32">>)
    [] i.op = "replace_lane"   -> Signature(<<"v128", "i32">>, <<"v128">>)

VariableAs(i) ==
  LET local  == FunctionLocals[i.idx + 1]
      global == Globals[i.idx + 1].type
  IN  CASE i.op = "local_get"  -> Signature(<<>>, <<local>>)
        [] i.op = "local_set"  -> Signature(<<local>>, <<>>)
        [] i.op = "local_tee"  -> Signature(<<local>>, <<local>>)
        [] i.op = "global_get" -> Signature(<<>>, <<global>>)
        [] i.op = "global_set" -> Signature(<<global>>, <<>>)

\* Mutant: a store takes a 32-bit address whatever the memory.
StoreAsOn32(mem) == Signature(<<"i32", "i32">>, <<>>)

StoreAs(mem) == Signature(<<mem, "i32">>, <<>>)

LoadStoreAs(i) ==
  LET mem == Memory(i.idx) IN
  CASE i.op = "load"            -> Signature(<<mem>>, <<"i32">>)
    [] i.op = "store"           -> StoreAs(mem)
    [] i.op = "memory_size"     -> Signature(<<>>, <<mem>>)
    [] i.op = "memory_grow"     -> Signature(<<mem>>, <<mem>>)
    [] i.op = "v128_load_lane"  -> Signature(<<mem, "v128">>, <<"v128">>)
    [] i.op = "v128_store_lane" -> Signature(<<"i32", "v128">>, <<>>)

\* memory_init names a segment, then a memory; memory_copy the source first.
BulkAs(i) ==
  LET mem  == Memory(i.idx)
      mem2 == Memory(i.idx2)
  IN  CASE i.op = "data_drop"   -> Empty
        [] i.op = "memory_init" -> Signature(<<mem2, "i32", "i32">>, <<>>)
        [] i.op = "memory_copy" ->
             Signature(<<mem2, mem, AddressOfCount(mem, mem2)>>, <<>>)
        [] i.op = "memory_fill" -> Signature(<<mem, "i32", mem>>, <<>>)

\* table_init names a segment, then a table; table_copy the destination first.
TableAs(i) ==
  LET tab  == TableAt(i.idx)
      tab2 == TableAt(i.idx2)
  IN  CASE i.op = "elem_drop"  -> Empty
        [] i.op = "table_get"  -> Signature(<<tab.address>>, <<tab.type>>)
        [] i.op = "table_set"  -> Signature(<<tab.address, tab.type>>, <<>>)
        [] i.op = "table_init" -> Signature(<<tab2.address, "i32", "i32">>, <<>>)
        [] i.op = "table_copy" ->
             Signature(<<tab.address, tab2.address,
                         AddressOfCount(tab.address, tab2.address)>>, <<>>)
        [] i.op = "table_grow" ->
             Signature(<<tab.type, tab.address>>, <<tab.address>>)
        [] i.op = "table_size" -> Signature(<<>>, <<tab.address>>)
        [] i.op = "table_fill" ->
             Signature(<<tab.address, tab.type, tab.address>>, <<>>)

ReferenceAs(i) ==
  CASE i.op \in {"ref_null", "ref_func"} -> Signature(<<>>, <<"funcref">>)
    [] i.op = "ref_is_null" -> Signature(<<"funcref">>, <<"i32">>)

\* An indirect call names a type, then a table.
CalleeType(i) ==
  IF i.op \in IndirectCalls THEN FunctionTypes[i.idx + 1] ELSE Callees[i.idx + 1]

\* The operand that an indirect call finds its callee with.
CalleeIndex(i) ==
  IF i.op \in IndirectCalls THEN <<TableAt(i.idx2).address>> ELSE <<>>

CallAs(i) == Signature(CalleeType(i).params \o CalleeIndex(i), CalleeType(i).returns)

ValidatedAs(i) ==
  CASE i.op \in ConstantOps  -> ConstantAs(i)
    [] i.op \in VectorOps    -> VectorAs(i)
    [] i.op \in VariableOps  -> VariableAs(i)
    [] i.op \in LoadStoreOps -> LoadStoreAs(i)
    [] i.op \in BulkOps      -> BulkAs(i)
    [] i.op \in TableOps     -> TableAs(i)
    [] i.op \in ReferenceOps -> ReferenceAs(i)
    [] i.op \in {"call", "call_indirect"} -> CallAs(i)

-----------------------------------------------------------------------------
(* The steps of the validator.                                             *)

Reject ==
  /\ phase' = "rejected"
  /\ UNCHANGED <<instructions, blockBeginStack, validatorVars>>

\* VALIDATION_ASSERT(valid), then the operand types, labels and code after.
Check(valid, newTypes, newLabels, newCode) ==
  IF valid
  THEN /\ types' = newTypes
       /\ labels' = newLabels
       /\ instructions' = newCode
       /\ position' = position + 1
       /\ UNCHANGED <<phase, blockBeginStack>>
  ELSE Reject

\* Mutant: the operands of the outer blocks go as well.
CheckLeavingAll(valid, newCode) ==
  Check(valid, <<>>,
        [labels EXCEPT ![Len(labels)].unreachable = TRUE], newCode)

\* What follows cannot be reached: the operands of the innermost block go.
CheckLeaving(valid, newCode) ==
  Check(valid, SubSeq(types, 1, LastLabel.stackHeight),
        [labels EXCEPT ![Len(labels)].unreachable = TRUE], newCode)

\* instruction.arguments = label
Lowered(label) == [instructions EXCEPT ![position + 1].label = label]

ExpectOf(params, returns) ==
  Check(CanExpect(types, LastLabel, params),
        AfterExpect(types, LastLabel, params) \o returns, labels, instructions)

ValidateSimple(i) ==
  /\ i.op \in SimpleOps
  /\ IF IndicesValid(i)
     THEN ExpectOf(ValidatedAs(i).params, ValidatedAs(i).returns)
     ELSE Reject

ValidateDrop(i) ==
  /\ i.op = "drop"
  /\ Check(CanPop(types, LastLabel, 1), AfterPop(types, LastLabel, 1),
           labels, instructions)

\* The operands need not be known; the result is the one that is.
ValidateSelect(i) ==
  /\ i.op = "select"
  /\ LET under == AfterExpect(types, LastLabel, <<"i32">>)
         a     == Popped(under, LastLabel, 2, 1)
         b     == Popped(under, LastLabel, 2, 2)
     IN  Check(/\ CanExpect(types, LastLabel, <<"i32">>)
               /\ CanPop(under, LastLabel, 2)
               /\ Agrees(a, b)
               /\ a \in NumericTypes \cup {Unknown},
               Append(AfterPop(under, LastLabel, 2),
                      IF a # Unknown THEN a ELSE b),
               labels, instructions)

\* The type comes as a vector of one.
ValidateSelectTyped(i) ==
  /\ i.op = "select_typed"
  /\ IF Len(i.type.returns) = 1
     THEN ExpectOf(i.type.returns \o i.type.returns \o <<"i32">>, i.type.returns)
     ELSE Reject

ValidateUnreachable(i) ==
  /\ i.op = "unreachable"
  /\ CheckLeaving(TRUE, instructions)

\* The labels with that of the block i, entered with `below` beneath its
\* parameters.
PushLabel(i, below, label) ==
  Append(labels,
         [stackHeight |-> Len(below), returnTypes |-> i.type.returns,
          paramTypes |-> i.type.params, type |-> i.op, unreachable |-> FALSE,
          label |-> label])

\* The stack height the label is lowered with is taken before the parameters
\* are popped, in uint32_t.  The arguments of the instruction are dropped
\* before their label is read: the build (clang, libstdc++) destroys a trivial
\* object and constructs an empty one, which leaves the bytes of the label.
ValidateBlockOrLoop(i) ==
  /\ i.op \in {"block", "loop"}
  /\ LET params == i.type.params
         below  == AfterExpect(types, LastLabel, params)
         height == (Len(types) - Len(params)) % U32
     IN  Check(CanExpect(types, LastLabel, params),
               below \o params,
               PushLabel(i, below, [i.label EXCEPT !.stackHeight = height]),
               Lowered(NoLabel))

\* Here the label keeps the stack height the parser gave it.
ValidateIf(i) ==
  /\ i.op = "if"
  /\ LET condition == Append(i.type.params, "i32")
         below     == AfterExpect(types, LastLabel, condition)
     IN  Check(CanExpect(types, LastLabel, condition),
               below \o i.type.params, PushLabel(i, below, i.label),
               instructions)

\* Mutant: what is under the results is not counted.
LeavesAtLeastResults == CanExpect(types, LastLabel, LastLabel.returnTypes)

\* Whether exactly the results of the innermost block are on its stack.
LeavesResults ==
  /\ CanExpect(types, LastLabel, LastLabel.returnTypes)
  /\ Len(AfterExpect(types, LastLabel, LastLabel.returnTypes))
       = LastLabel.stackHeight

ValidateElse(i) ==
  /\ i.op = "else"
  /\ Check(LastLabel.type = "if" /\ LeavesResults,
           AfterExpect(types, LastLabel, LastLabel.returnTypes)
             \o LastLabel.paramTypes,
           [labels EXCEPT ![Len(labels)].type = "ifAfterElse",
                          ![Len(labels)].unreachable = FALSE],
           instructions)

\* An if without an else needs as many results as parameters.
ValidateEnd(i) ==
  /\ i.op = "end"
  /\ Check(/\ LastLabel.type = "if" =>
               Len(LastLabel.returnTypes) = Len(LastLabel.paramTypes)
           /\ LeavesResults,
           AfterExpect(types, LastLabel, LastLabel.returnTypes)
             \o LastLabel.returnTypes,
           Front(labels), instructions)

ValidateBr(i, stray) ==
  /\ i.op = "br"
  /\ LET target == GetLabel(i.idx, stray) IN
     CheckLeaving(HasLabel(i.idx)
                    /\ CanExpect(types, LastLabel, BranchTypes(target)),
                  Lowered(target.label))

\* What was popped is pushed again in the order in which it was popped.
ValidateBrIf(i, stray) ==
  /\ i.op = "br_if"
  /\ LET taken == BranchTypes(GetLabel(i.idx, stray))
         under == AfterExpect(types, LastLabel, <<"i32">>)
     IN  Check(/\ HasLabel(i.idx)
               /\ CanExpect(types, LastLabel, <<"i32">>)
               /\ CanExpect(under, LastLabel, taken),
               AfterExpect(under, LastLabel, taken)
                 \o [k \in 1..Len(taken) |->
                       Popped(under, LastLabel, Len(taken), k)],
               labels, Lowered(GetLabel(i.idx, stray).label))

\* All targets but loops take as many operands as the default, none if that
\* is a loop.
ValidateBrTable(i, stray) ==
  /\ i.op = "br_table"
  /\ LET under     == AfterExpect(types, LastLabel, <<"i32">>)
         target(k) == GetLabel(i.depths[k], stray)
         byDefault == GetLabel(Last(i.depths), stray)
     IN  CheckLeaving(
           /\ CanExpect(types, LastLabel, <<"i32">>)
           /\ \A k \in DOMAIN i.depths :
                /\ HasLabel(i.depths[k])
                /\ CanExpect(under, LastLabel, BranchTypes(target(k)))
           /\ \A k \in DOMAIN i.depths :
                target(k).type # "loop" =>
                  Len(target(k).returnTypes) = Len(BranchTypes(byDefault)),
           [instructions EXCEPT ![position + 1].targets =
              [k \in DOMAIN i.depths |-> target(k).label]])

\* The process ends where a label is read outside of m_labels.  br_table takes
\* its index before, and may be rejected for another of its labels first.
EndOutsideLabels(i) ==
  /\ \/ i.op \in {"br", "br_if"} /\ ReadsOutside(i.idx)
     \/ /\ i.op = "br_table"
        /\ CanExpect(types, LastLabel, <<"i32">>)
        /\ \E k \in DOMAIN i.depths : ReadsOutside(i.depths[k])
  /\ phase' = "labelsRange"
  /\ UNCHANGED <<instructions, blockBeginStack, validatorVars>>

ValidateReturn(i) ==
  /\ i.op = "return"
  /\ CheckLeaving(CanExpect(types, LastLabel, FunctionType.returns), instructions)

ValidateReturnCall(i) ==
  /\ i.op \in {"return_call", "return_call_indirect"}
  /\ CheckLeaving(/\ IndicesValid(i)
                  /\ CanExpect(types, LastLabel, CallAs(i).params)
                  /\ CalleeType(i).returns = FunctionType.returns,
                  instructions)

StartValidation ==
  /\ phase = "parsed"
  /\ phase' = "validate"
  /\ labels' = <<EntryLabel(Len(instructions))>>
  /\ UNCHANGED <<instructions, blockBeginStack, position, types>>

ValidateInstruction ==
  /\ phase = "validate"
  /\ position < Len(instructions)
  /\ LET i == At(instructions, position) IN
       \/ ValidateSimple(i)
       \/ ValidateDrop(i)
       \/ ValidateSelect(i)
       \/ ValidateSelectTyped(i)
       \/ ValidateUnreachable(i)
       \/ ValidateBlockOrLoop(i)
       \/ ValidateIf(i)
       \/ ValidateElse(i)
       \/ ValidateEnd(i)
       \/ \E stray \in StrayLabels :
            ValidateBr(i, stray) \/ ValidateBrIf(i, stray) \/ ValidateBrTable(i, stray)
       \/ EndOutsideLabels(i)
       \/ ValidateReturn(i)
       \/ ValidateReturnCall(i)

\* The code is now what the interpreter runs.
FinishValidation ==
  /\ phase = "validate"
  /\ position = Len(instructions)
  /\ phase' = "run"
  /\ UNCHANGED <<instructions, blockBeginStack, validatorVars>>

ValidatorNext == StartValidation \/ ValidateInstruction \/ FinishValidation
=============================================================================
