----------------------------- MODULE Interpreter -----------------------------
(***************************************************************************)
(* run_function(): the validated code is run in one frame.  Operands are   *)
(* their types, so what an i32 condition or index holds, and whether an    *)
(* instruction that may trap does, are nondeterministic.  Calls are run to *)
(* their return here (module CallFrames models the frames).  The function  *)
(* was called, not entered by a tail call from another module.             *)
(*                                                                         *)
(* The checks of the debug build are phases of their own; in the other     *)
(* builds the same steps are undefined behaviour:                          *)
(*   popEmpty       Stack::pop and pop_n_values on too few operands        *)
(*   popType        ValueStack::pop_as of an operand of another type       *)
(*   extraElements  more or fewer operands than results at the end         *)
(*   eraseRange     Stack::erase of a range that is none (no check at all) *)
(*   wrongArguments a native run on another number of operands than it has *)
(*                  parameters (no check at all)                           *)
(*   typesRange     a read outside of the function types of another module *)
(*                  (no check at all)                                      *)
(* A read outside of the labels ends the validator (labelsRange).          *)
(***************************************************************************)
EXTENDS Validator

CONSTANTS
  Natives,        \* the functions that are no RealFunction, by index
  ForeignTypes    \* the lists of function types that other modules have, to
                  \* which references in its tables may belong

ASSUME InterpreterAssumption ==
  /\ Natives \subseteq 0..(Len(Callees) - 1)
  /\ ForeignTypes \subseteq Seq(Signatures)

VARIABLES
  ip,        \* Frame::ip
  stack,     \* Frame::stack
  locals,    \* Frame::locals
  globals    \* the values of the module's globals

frameVars == <<ip, stack, locals, globals>>

vars == <<parserVars, validatorVars, frameVars>>

Faults == {"popEmpty", "popType", "extraElements", "eraseRange", "wrongArguments",
           "typesRange"}

Phases ==
  {"parse", "parsed", "validate", "rejected", "labelsRange", "run", "returned",
   "trapped"} \cup Faults

Init ==
  /\ ParserInit
  /\ ValidatorInit
  /\ ip = 0
  /\ stack = <<>>
  /\ locals = FunctionLocals
  /\ globals = [g \in DOMAIN Globals |-> Globals[g].type]

-----------------------------------------------------------------------------
(* The frame's operand stack.                                              *)

AnyType == "any"

\* What the interpreter pops with pop_as, the last one first, and what it
\* pushes.  pop and pop_n_values do not look at the type of what they pop.
RunConstantAs(i) ==
  CASE i.op = "nop"        -> Empty
    [] i.op = "i32_const"  -> Signature(<<>>, <<"i32">>)
    [] i.op = "i64_const"  -> Signature(<<>>, <<"i64">>)
    [] i.op = "v128_const" -> Signature(<<>>, <<"v128">>)
    [] i.op = "i32_add"    -> Signature(<<"i32", "i32">>, <<"i32">>)
    [] i.op = "i64_eqz"    -> Signature(<<"i64">>, <<"i32">>)

RunVectorAs(i) ==
  CASE i.op = "v128_bitselect" -> Signature(<<"v128", "v128", "v128">>, <<"v128">>)
    [] i.op = "extract_lane"   -> Signature(<<"v128">>, <<"i32">>)
    [] i.op = "replace_lane"   -> Signature(<<"v128", "i32">>, <<"v128">>)

RunVariableAs(i) ==
  CASE i.op = "local_get"  -> Signature(<<>>, <<locals[i.idx + 1]>>)
    [] i.op = "global_get" -> Signature(<<>>, <<globals[i.idx + 1]>>)
    [] i.op \in {"local_set", "global_set"} -> Signature(<<AnyType>>, <<>>)

RunLoadStoreAs(i) ==
  LET mem == Memory(i.idx) IN
  CASE i.op = "load"            -> Signature(<<mem>>, <<"i32">>)
    [] i.op = "store"           -> Signature(<<mem, "i32">>, <<>>)
    [] i.op = "memory_size"     -> Signature(<<>>, <<mem>>)
    [] i.op = "memory_grow"     -> Signature(<<mem>>, <<mem>>)
    [] i.op = "v128_load_lane"  -> Signature(<<mem, "v128">>, <<"v128">>)
    [] i.op = "v128_store_lane" -> Signature(<<mem, "v128">>, <<>>)

RunBulkAs(i) ==
  LET mem  == Memory(i.idx)
      mem2 == Memory(i.idx2)
  IN  CASE i.op = "data_drop"   -> Empty
        [] i.op = "memory_init" -> Signature(<<mem2, mem2, mem2>>, <<>>)
        [] i.op = "memory_copy" ->
             Signature(<<mem2, mem, AddressOfCount(mem2, mem)>>, <<>>)
        [] i.op = "memory_fill" -> Signature(<<mem, "i32", mem>>, <<>>)

\* pop_as<Reference> stands for either reference type.
RunTableAs(i) ==
  LET tab  == TableAt(i.idx)
      tab2 == TableAt(i.idx2)
  IN  CASE i.op = "elem_drop"  -> Empty
        [] i.op = "table_get"  -> Signature(<<tab.address>>, <<tab.type>>)
        [] i.op = "table_set"  -> Signature(<<tab.address, "funcref">>, <<>>)
        [] i.op = "table_init" -> Signature(<<tab2.address, "i32", "i32">>, <<>>)
        [] i.op = "table_copy" ->
             Signature(<<tab.address, tab2.address,
                         AddressOfCount(tab.address, tab2.address)>>, <<>>)
        [] i.op = "table_grow" ->
             Signature(<<"funcref", tab.address>>, <<tab.address>>)
        [] i.op = "table_size" -> Signature(<<>>, <<tab.address>>)
        [] i.op = "table_fill" ->
             Signature(<<tab.address, "funcref", tab.address>>, <<>>)

RunReferenceAs(i) ==
  CASE i.op \in {"ref_null", "ref_func"} -> Signature(<<>>, <<"funcref">>)
    [] i.op = "ref_is_null" -> Signature(<<"funcref">>, <<"i32">>)

RunAs(i) ==
  CASE i.op \in {"block", "loop", "end"} -> Empty
    [] i.op = "drop"         -> Signature(<<AnyType>>, <<>>)
    [] i.op \in ConstantOps  -> RunConstantAs(i)
    [] i.op \in VectorOps    -> RunVectorAs(i)
    [] i.op \in VariableOps  -> RunVariableAs(i)
    [] i.op \in LoadStoreOps -> RunLoadStoreAs(i)
    [] i.op \in BulkOps      -> RunBulkAs(i)
    [] i.op \in TableOps     -> RunTableAs(i)
    [] i.op \in ReferenceOps -> RunReferenceAs(i)

\* What an opcode with such a signature does is over when it goes on.
RunnableOps ==
  (SimpleOps \ {"local_tee", "call", "call_indirect"}) \cup {"drop", "block", "loop", "end"}

\* The instructions that trap on the values of their operands.
MayTrap == {"load", "store", "memory_init", "memory_copy", "memory_fill",
            "v128_load_lane", "v128_store_lane", "table_get", "table_set",
            "table_init", "table_copy", "table_fill"}

\* A function found through a table has the type that its index has in the
\* module of the reference.  What is read outside of the types of that module
\* may be like the type of any of its functions.
TypesAt(fileTypes, index) ==
  IF index < Len(fileTypes) THEN {fileTypes[index + 1]} ELSE ToSet(fileTypes)

\* The types a callee may have.
CalleeTypes(i) ==
  IF i.op \in IndirectCalls
  THEN UNION {TypesAt(fileTypes, i.idx) : fileTypes \in {FunctionTypes} \cup ForeignTypes}
  ELSE {CalleeType(i)}

\* How popping these operands goes wrong, if it does: the topmost one that is
\* missing or of another type decides.
PopFault(params) ==
  LET n     == Len(params)
      wrong == {k \in 1..n : /\ k <= Len(stack)
                             /\ params[n - k + 1] # AnyType
                             /\ params[n - k + 1] # stack[Len(stack) - k + 1]}
  IN  IF wrong # {} THEN "popType"
      ELSE IF n > Len(stack) THEN "popEmpty" ELSE "none"

Below(n) == SubSeq(stack, 1, Len(stack) - n)

LastValues(s, n) == SubSeq(s, Len(s) - n + 1, Len(s))

Stop(newPhase) ==
  /\ phase' = newPhase
  /\ UNCHANGED <<instructions, blockBeginStack, validatorVars, frameVars>>

\* Pop these operands or stop on the check that fails.
Popping(params, step) ==
  IF PopFault(params) # "none" THEN Stop(PopFault(params)) ELSE step

Continue(newIp, newStack) ==
  /\ ip' = newIp
  /\ stack' = newStack
  /\ UNCHANGED <<parserVars, validatorVars, locals, globals>>

\* Mutant: a branch skips the instruction it goes to.
BranchPast(label, operands) ==
  IF label.stackHeight + label.arity > Len(operands)
  THEN Stop("eraseRange")
  ELSE Continue(IF label.continuation < Len(instructions)
                THEN label.continuation + 1 ELSE label.continuation,
                SubSeq(operands, 1, label.stackHeight)
                  \o LastValues(operands, label.arity))

\* branch_to_label: keep what is below the label and the operands it takes.
BranchTo(label, operands) ==
  IF label.stackHeight + label.arity > Len(operands)
  THEN Stop("eraseRange")
  ELSE Continue(label.continuation,
                SubSeq(operands, 1, label.stackHeight)
                  \o LastValues(operands, label.arity))

-----------------------------------------------------------------------------
(* The instructions.                                                       *)

RunSimple(i) ==
  /\ i.op \in RunnableOps \ {"local_set", "global_set"}
  /\ Popping(RunAs(i).params,
             Continue(ip + 1, Below(Len(RunAs(i).params)) \o RunAs(i).returns))

RunTrap(i) ==
  /\ i.op \in MayTrap
  /\ Popping(RunAs(i).params, Stop("trapped"))

\* call_function: the callee takes its arguments, whatever their types, and
\* returns or traps.
CallOn(callee, operands) ==
  LET n == Len(callee.params) IN
  IF Len(operands) < n THEN Stop("popEmpty")
  ELSE \/ Continue(ip + 1, SubSeq(operands, 1, Len(operands) - n) \o callee.returns)
       \/ Stop("trapped")

RunCall(i) ==
  /\ i.op = "call"
  /\ \E callee \in CalleeTypes(i) : CallOn(callee, stack)

RunCallIndirect(i) ==
  /\ i.op = "call_indirect"
  /\ Popping(CalleeIndex(i), \E callee \in CalleeTypes(i) : CallOn(callee, Below(1)))

\* There is no function at the index, or its type is not the one that its own
\* module has for the call: this is found out before the arguments are popped.
RunTrapIndirect(i) ==
  /\ i.op \in IndirectCalls
  /\ Popping(CalleeIndex(i), Stop("trapped"))

\* The module of the reference has no such type, and the process ends of it.
RunOutsideTypes(i) ==
  /\ i.op \in IndirectCalls
  /\ \E fileTypes \in ForeignTypes : i.idx >= Len(fileTypes)
  /\ Popping(CalleeIndex(i), Stop("typesRange"))

RunUnreachable(i) ==
  /\ i.op = "unreachable"
  /\ Stop("trapped")

RunLocalSet(i) ==
  /\ i.op = "local_set"
  /\ Popping(RunAs(i).params,
             /\ locals' = [locals EXCEPT ![i.idx + 1] = Last(stack)]
             /\ ip' = ip + 1
             /\ stack' = Below(1)
             /\ UNCHANGED <<parserVars, validatorVars, globals>>)

\* peek looks at the last operand without any check.
RunLocalTee(i) ==
  /\ i.op = "local_tee"
  /\ IF stack = <<>>
     THEN Stop("popEmpty")
     ELSE /\ locals' = [locals EXCEPT ![i.idx + 1] = Last(stack)]
          /\ ip' = ip + 1
          /\ UNCHANGED <<parserVars, validatorVars, stack, globals>>

RunGlobalSet(i) ==
  /\ i.op = "global_set"
  /\ Popping(RunAs(i).params,
             /\ globals' = [globals EXCEPT ![i.idx + 1] = Last(stack)]
             /\ ip' = ip + 1
             /\ stack' = Below(1)
             /\ UNCHANGED <<parserVars, validatorVars, locals>>)

\* Either of the two operands under the condition is kept.
RunSelect(i) ==
  /\ i.op \in {"select", "select_typed"}
  /\ Popping(<<AnyType, AnyType, "i32">>,
             \E k \in {1, 2} :
               Continue(ip + 1, Append(Below(3), stack[Len(stack) - k])))

\* Mutant: go to the else, which goes to the end.
RunIfToElse(i) ==
  /\ i.op = "if"
  /\ Popping(<<"i32">>,
             \/ Continue(ip + 1, Below(1))
             \/ Continue(IF i.elseLocation # 0 THEN i.elseLocation
                                               ELSE i.label.continuation,
                         Below(1)))

\* When the condition is zero, go past the else, or past the end.
RunIf(i) ==
  /\ i.op = "if"
  /\ Popping(<<"i32">>,
             \/ Continue(ip + 1, Below(1))
             \/ Continue(IF i.elseLocation # 0 THEN i.elseLocation + 1
                                               ELSE i.label.continuation,
                         Below(1)))

RunElse(i) ==
  /\ i.op = "else"
  /\ Continue(i.label.continuation, stack)

RunBr(i) ==
  /\ i.op = "br"
  /\ BranchTo(i.label, stack)

RunBrIf(i) ==
  /\ i.op = "br_if"
  /\ Popping(<<"i32">>, \/ Continue(ip + 1, Below(1))
                        \/ BranchTo(i.label, Below(1)))

RunBrTable(i) ==
  /\ i.op = "br_table"
  /\ Popping(<<"i32">>,
             \E k \in DOMAIN i.targets : BranchTo(i.targets[k], Below(1)))

\* pop_n_values of the results, and the function is left.
Leave(results) ==
  /\ phase' = "returned"
  /\ stack' = results
  /\ UNCHANGED <<instructions, blockBeginStack, validatorVars, ip, locals, globals>>

RunReturn(i) ==
  /\ i.op = "return"
  /\ LET n == Len(FunctionType.returns) IN
     IF Len(stack) < n THEN Stop("popEmpty") ELSE Leave(LastValues(stack, n))

\* The callee takes the place of the function: its results are the results.  A
\* native is run on as many operands as the function has parameters.
TailCall(callee, native, operands) ==
  LET taken == Len(IF native THEN FunctionType.params ELSE callee.params) IN
  IF Len(operands) < taken THEN Stop("popEmpty")
  ELSE IF taken # Len(callee.params) THEN Stop("wrongArguments")
  ELSE Leave(callee.returns) \/ Stop("trapped")

RunReturnCall(i) ==
  /\ i.op = "return_call"
  /\ TailCall(CalleeType(i), i.idx \in Natives, stack)

RunReturnCallIndirect(i) ==
  /\ i.op = "return_call_indirect"
  /\ Popping(CalleeIndex(i),
             \E callee \in CalleeTypes(i), native \in BOOLEAN :
               TailCall(callee, native, Below(1)))

RunInstruction ==
  /\ phase = "run"
  /\ ip < Len(instructions)
  /\ LET i == At(instructions, ip) IN
       \/ RunSimple(i)
       \/ RunTrap(i)
       \/ RunCall(i)
       \/ RunCallIndirect(i)
       \/ RunTrapIndirect(i)
       \/ RunOutsideTypes(i)
       \/ RunUnreachable(i)
       \/ RunLocalSet(i)
       \/ RunLocalTee(i)
       \/ RunGlobalSet(i)
       \/ RunSelect(i)
       \/ RunIf(i)
       \/ RunElse(i)
       \/ RunBr(i)
       \/ RunBrIf(i)
       \/ RunBrTable(i)
       \/ RunReturn(i)
       \/ RunReturnCall(i)
       \/ RunReturnCallIndirect(i)

\* Past the last instruction.
RunEnd ==
  /\ phase = "run"
  /\ ip >= Len(instructions)
  /\ IF Len(stack) # Len(FunctionType.returns)
     THEN Stop("extraElements")
     ELSE Leave(stack)

InterpreterNext == RunInstruction \/ RunEnd

ParserStep == ParserNext /\ UNCHANGED <<validatorVars, frameVars>>

ValidatorStep == ValidatorNext /\ UNCHANGED frameVars

Next == ParserStep \/ ValidatorStep \/ InterpreterNext

Spec == Init /\ [][Next]_vars
=============================================================================
