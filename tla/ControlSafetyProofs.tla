------------------------- MODULE ControlSafetyProofs -------------------------
(***************************************************************************)
(* Type soundness: what the validator lets through runs on the operands    *)
(* the validator has seen, for codes of any length.  Before an instruction *)
(* that control can reach, the types on the stack of the frame are those   *)
(* that the validator had on its own stack when it looked at that          *)
(* instruction.  So the proof needs the whole history of the validator:    *)
(* the operands and the labels it had at every place of the code.          *)
(***************************************************************************)
EXTENDS ControlProofs

-----------------------------------------------------------------------------
(* The validator at one place, with its operands s and labels l, and at    *)
(* the next, with t and m.                                                 *)

Leaves(s, l, t, m) ==
  /\ t = SubSeq(s, 1, Last(l).stackHeight)
  /\ m = [l EXCEPT ![Len(l)].unreachable = TRUE]

Expects(s, l, params, returns, t, m) ==
  /\ CanExpect(s, Last(l), params)
  /\ t = AfterExpect(s, Last(l), params) \o returns /\ m = l

LabelAt(l, d) == l[Len(l) - d]

TakenAt(l, d) == BranchTypes(LabelAt(l, d))

InLabels(l, d) == d + 1 <= Len(l)

\* What a block is entered with.
Entry(i) == IF i.op = "if" THEN Append(i.type.params, "i32") ELSE i.type.params

BlockLabel(i, height, label) ==
  [stackHeight |-> height, returnTypes |-> i.type.returns, paramTypes |-> i.type.params,
   type |-> i.op, unreachable |-> FALSE, label |-> label]

Enters(i, s, l, t, m) ==
  LET below == AfterExpect(s, Last(l), Entry(i)) IN
  /\ CanExpect(s, Last(l), Entry(i))
  /\ t = below \o i.type.params
  /\ \E label \in Labels :
       /\ m = Append(l, BlockLabel(i, Len(below), label))
       /\ i.op # "if" => label.stackHeight = (Len(s) - Len(i.type.params)) % U32

\* The results of the innermost block are what is left of it.
LeavesOn(s, l) ==
  /\ CanExpect(s, Last(l), Last(l).returnTypes)
  /\ Len(AfterExpect(s, Last(l), Last(l).returnTypes)) = Last(l).stackHeight

Selects(s, l, t, m) ==
  LET under == AfterExpect(s, Last(l), <<"i32">>)
      a     == Popped(under, Last(l), 2, 1)
      b     == Popped(under, Last(l), 2, 2)
  IN  /\ CanExpect(s, Last(l), <<"i32">>)
      /\ CanPop(under, Last(l), 2) /\ Agrees(a, b)
      /\ t = Append(AfterPop(under, Last(l), 2), IF a # Unknown THEN a ELSE b) /\ m = l

\* A conditional branch leaves what it takes in the order it was popped.
BranchesOn(i, s, l, t, m) ==
  LET taken == TakenAt(l, i.idx)
      under == AfterExpect(s, Last(l), <<"i32">>)
  IN  /\ CanExpect(s, Last(l), <<"i32">>) /\ CanExpect(under, Last(l), taken)
      /\ t = AfterExpect(under, Last(l), taken)
               \o [k \in 1..Len(taken) |-> Popped(under, Last(l), Len(taken), k)]
      /\ m = l

\* What the validator does on each instruction it passes.  The labels of
\* branches are those it has written.
EffectOnOperands(i, s, l, t, m) ==
  /\ i.op \in SimpleOps =>
       IndicesValid(i) /\ Expects(s, l, ValidatedAs(i).params, ValidatedAs(i).returns, t, m)
  /\ i.op = "drop" => CanPop(s, Last(l), 1) /\ t = AfterPop(s, Last(l), 1) /\ m = l
  /\ i.op = "select" => Selects(s, l, t, m)
  /\ i.op = "select_typed" =>
       /\ Len(i.type.returns) = 1
       /\ Expects(s, l, i.type.returns \o i.type.returns \o <<"i32">>, i.type.returns, t, m)
  /\ i.op = "unreachable" => Leaves(s, l, t, m)

EffectOnBlocks(i, s, l, t, m) ==
  /\ i.op \in Openers => Enters(i, s, l, t, m)
  /\ i.op = "else" =>
       /\ Last(l).type = "if" /\ LeavesOn(s, l)
       /\ t = AfterExpect(s, Last(l), Last(l).returnTypes) \o Last(l).paramTypes
       /\ m = [l EXCEPT ![Len(l)].type = "ifAfterElse", ![Len(l)].unreachable = FALSE]
  /\ i.op = "end" =>
       /\ LeavesOn(s, l)
       /\ t = AfterExpect(s, Last(l), Last(l).returnTypes) \o Last(l).returnTypes
       /\ m = Front(l)

EffectOfBranches(i, s, l, t, m) ==
  /\ i.op = "br" =>
       /\ InLabels(l, i.idx) /\ CanExpect(s, Last(l), TakenAt(l, i.idx))
       /\ Leaves(s, l, t, m) /\ i.label = LabelAt(l, i.idx).label
  /\ i.op = "br_if" =>
       InLabels(l, i.idx) /\ BranchesOn(i, s, l, t, m) /\ i.label = LabelAt(l, i.idx).label
  /\ i.op = "br_table" =>
       /\ CanExpect(s, Last(l), <<"i32">>)
       /\ \A k \in DOMAIN i.depths :
            /\ InLabels(l, i.depths[k])
            /\ CanExpect(AfterExpect(s, Last(l), <<"i32">>), Last(l), TakenAt(l, i.depths[k]))
       /\ Leaves(s, l, t, m)
       /\ i.targets = [k \in DOMAIN i.depths |-> LabelAt(l, i.depths[k]).label]
  /\ i.op = "return" =>
       CanExpect(s, Last(l), FunctionType.returns) /\ Leaves(s, l, t, m)
  /\ i.op \in {"return_call", "return_call_indirect"} =>
       /\ IndicesValid(i) /\ CanExpect(s, Last(l), CallAs(i).params)
       /\ CalleeType(i).returns = FunctionType.returns
       /\ Leaves(s, l, t, m)

BranchOps == {"br", "br_if", "br_table", "return", "return_call", "return_call_indirect"}

ValidOps ==
  SimpleOps \cup {"drop", "select", "select_typed", "unreachable", "else", "end"}
    \cup Openers \cup BranchOps

Effect(i, s, l, t, m) ==
  /\ i.op \in ValidOps
  /\ EffectOnOperands(i, s, l, t, m)
  /\ EffectOnBlocks(i, s, l, t, m)
  /\ EffectOfBranches(i, s, l, t, m)

-----------------------------------------------------------------------------
(* The validator's steps have these effects.                               *)

\* An opcode is of one kind.
LEMMA KindsOfOps ==
  /\ \A op \in SimpleOps :
       op \notin {"drop", "select", "select_typed", "unreachable", "else", "end"}
                   \cup Openers \cup BranchOps
  /\ \A op \in Openers :
       op \notin {"drop", "select", "select_typed", "unreachable", "else", "end"} \cup BranchOps
  /\ \A op \in BranchOps :
       op \notin {"drop", "select", "select_typed", "unreachable", "else", "end"}
BY DEF SimpleOps, ConstantOps, VectorOps, VariableOps, LoadStoreOps, BulkOps, TableOps,
       ReferenceOps, Openers, BranchOps

\* The instruction at the position, as it is after the step.
Passed == At(instructions', position)

\* Instructions whose labels are not written.
LEMMA PassedUnchanged ==
  ASSUME instructions' = instructions
  PROVE  Passed = At(instructions, position)
BY DEF Passed, At

StepEffect == Effect(Passed, types, labels, types', labels')

LEMMA OperandEffects ==
  ASSUME Validating, NEW i, i = At(instructions, position),
         \/ ValidateSimple(i) \/ ValidateDrop(i) \/ ValidateSelect(i) \/ ValidateSelectTyped(i)
         \/ ValidateUnreachable(i)
  PROVE  Reject \/ StepEffect
<1>1. Reject \/ instructions' = instructions
  BY DEF ValidateSimple, ValidateDrop, ValidateSelect, ValidateSelectTyped,
         ValidateUnreachable, ExpectOf, CheckLeaving, Check
<1> SUFFICES ASSUME ~Reject, Passed = i
             PROVE  EffectOnOperands(i, types, labels, types', labels')
                    /\ i.op \in SimpleOps \cup {"drop", "select", "select_typed", "unreachable"}
  BY <1>1, PassedUnchanged, KindsOfOps
     DEF StepEffect, Effect, EffectOnBlocks, EffectOfBranches, ValidOps, BranchOps
<1>2. CASE ValidateSimple(i)
  BY <1>2, KindsOfOps DEF ValidateSimple, ExpectOf, Check, EffectOnOperands, Expects, LastLabel
<1>3. CASE ValidateDrop(i)
  BY <1>3, KindsOfOps DEF ValidateDrop, Check, EffectOnOperands, LastLabel
<1>4. CASE ValidateSelect(i)
  BY <1>4, KindsOfOps DEF ValidateSelect, Check, EffectOnOperands, Selects, LastLabel
<1>5. CASE ValidateSelectTyped(i)
  BY <1>5, KindsOfOps
     DEF ValidateSelectTyped, ExpectOf, Check, EffectOnOperands, Expects, LastLabel
<1>6. CASE ValidateUnreachable(i)
  BY <1>6, KindsOfOps
     DEF ValidateUnreachable, CheckLeaving, Check, EffectOnOperands, Leaves, LastLabel
<1> QED BY <1>2, <1>3, <1>4, <1>5, <1>6

\* Fields that writing a label, or labels, leaves alone.
LEMMA PassedLowered ==
  ASSUME Validating, NEW i, i = At(instructions, position)
  PROVE  /\ \A label : instructions' = Lowered(label) =>
              /\ Passed.op = i.op /\ Passed.type = i.type /\ Passed.idx = i.idx
              /\ Passed.label = label
         /\ \A targets : instructions' = [instructions EXCEPT ![position + 1].targets = targets]
              => /\ Passed.op = i.op /\ Passed.depths = i.depths
                 /\ Passed.targets = targets
<1>1. /\ instructions \in Seq(InstructionType) /\ position + 1 \in 1..Len(instructions)
      /\ i = instructions[position + 1] /\ i \in InstructionType
  BY HasInnermost DEF Validating, IInv, CodeInv, At
<1>2. position + 1 \in DOMAIN instructions
  BY <1>1, LenProperties
<1>3. \A x : /\ [instructions EXCEPT ![position + 1].label = x][position + 1]
                  = [i EXCEPT !.label = x]
             /\ [instructions EXCEPT ![position + 1].targets = x][position + 1]
                  = [i EXCEPT !.targets = x]
  BY <1>1, <1>2
<1>5. ASSUME NEW label, instructions' = Lowered(label)
      PROVE  Passed = [i EXCEPT !.label = label]
  BY <1>3, <1>5 DEF Passed, At, Lowered
<1>6. ASSUME NEW targets,
             instructions' = [instructions EXCEPT ![position + 1].targets = targets]
      PROVE  Passed = [i EXCEPT !.targets = targets]
  BY <1>3, <1>6 DEF Passed, At
<1>7. ASSUME NEW label, instructions' = Lowered(label)
      PROVE  /\ Passed.op = i.op /\ Passed.type = i.type /\ Passed.idx = i.idx
             /\ Passed.label = label
  BY <1>1, <1>5, <1>7 DEF InstructionType
<1>8. ASSUME NEW targets,
             instructions' = [instructions EXCEPT ![position + 1].targets = targets]
      PROVE  /\ Passed.op = i.op /\ Passed.depths = i.depths
             /\ Passed.targets = targets
  BY <1>1, <1>6, <1>8 DEF InstructionType
<1> QED BY <1>7, <1>8
LEMMA ReturnEffects ==
  ASSUME Validating, NEW i, i = At(instructions, position),
         ValidateReturn(i) \/ ValidateReturnCall(i)
  PROVE  Reject \/ StepEffect
<1>1. Reject \/ instructions' = instructions
  BY DEF ValidateReturn, ValidateReturnCall, CheckLeaving, Check
<1> SUFFICES ASSUME ~Reject, Passed = i
             PROVE  EffectOfBranches(i, types, labels, types', labels')
                    /\ i.op \in {"return", "return_call", "return_call_indirect"}
  BY <1>1, PassedUnchanged, KindsOfOps
     DEF StepEffect, Effect, EffectOnBlocks, EffectOnOperands, ValidOps, BranchOps
<1> QED BY DEF ValidateReturn, ValidateReturnCall, CheckLeaving, Check, EffectOfBranches, Leaves,
               LastLabel

\* Whether a label index of an instruction is the one that wraps.
Strays(i) == \E n \in DOMAIN DepthsOf(i) : Wraps(DepthsOf(i)[n])

\* Any other that passes the check is that of a label.
LEMMA LabelInRange ==
  ASSUME Validating, NEW d \in Nat, ~Wraps(d), HasLabel(d)
  PROVE  InLabels(labels, d) /\ \A stray : GetLabel(d, stray) = LabelAt(labels, d)
<1>1. Len(labels) \in Nat /\ U32 \in Nat /\ d + 1 \in Nat /\ d + 1 < U32
  BY LenProperties, ValidatorAssumption DEF Validating, IInv, ValidatorInv, Wraps
<1>2. (d + 1) % U32 = d + 1
  BY <1>1, SmallRemainder
<1>3. d + 1 <= Len(labels) /\ d < Len(labels)
  BY <1>1, <1>2 DEF HasLabel
<1> QED BY <1>3 DEF InLabels, GetLabel, LabelAt

LEMMA BranchEffects ==
  ASSUME Validating, NEW i, i = At(instructions, position), NEW stray,
         ValidateBr(i, stray) \/ ValidateBrIf(i, stray) \/ ValidateBrTable(i, stray)
  PROVE  Reject \/ Strays(Passed) \/ StepEffect
<1> SUFFICES ASSUME ~Reject, ~Strays(Passed)
             PROVE  EffectOfBranches(Passed, types, labels, types', labels')
                    /\ Passed.op \in {"br", "br_if", "br_table"}
  BY KindsOfOps
     DEF StepEffect, Effect, EffectOnBlocks, EffectOnOperands, ValidOps, BranchOps
<1>0. i \in InstructionType
  BY HasInnermost
<1>1. CASE ValidateBr(i, stray)
  <2> DEFINE target == GetLabel(i.idx, stray)
  <2>1. instructions' = Lowered(target.label) /\ i.op = "br" /\ HasLabel(i.idx)
    BY <1>1 DEF ValidateBr, CheckLeaving, Check
  <2> HIDE DEF target
  <2>2. Passed.op = "br" /\ Passed.idx = i.idx /\ Passed.label = target.label
    BY <2>1, PassedLowered
  <2>3. ~Wraps(i.idx) /\ i.idx \in Nat
    <3>1. DepthsOf(Passed) = <<i.idx>>
      BY <2>2 DEF DepthsOf
    <3> QED BY <1>0, <3>1 DEF Strays, InstructionType
  <2>4. InLabels(labels, i.idx) /\ target = LabelAt(labels, i.idx)
    BY <2>1, <2>3, LabelInRange DEF target
  <2>5. /\ CanExpect(types, Last(labels), BranchTypes(target))
        /\ Leaves(types, labels, types', labels')
    BY <1>1 DEF ValidateBr, CheckLeaving, Check, Leaves, LastLabel, target
  <2> QED BY <2>2, <2>4, <2>5 DEF EffectOfBranches, TakenAt
<1>2. CASE ValidateBrIf(i, stray)
  <2> DEFINE target == GetLabel(i.idx, stray)
  <2>1. instructions' = Lowered(target.label) /\ i.op = "br_if" /\ HasLabel(i.idx)
    BY <1>2 DEF ValidateBrIf, Check
  <2> HIDE DEF target
  <2>2. Passed.op = "br_if" /\ Passed.idx = i.idx /\ Passed.label = target.label
    BY <2>1, PassedLowered
  <2>3. ~Wraps(i.idx) /\ i.idx \in Nat
    <3>1. DepthsOf(Passed) = <<i.idx>>
      BY <2>2 DEF DepthsOf
    <3> QED BY <1>0, <3>1 DEF Strays, InstructionType
  <2>4. InLabels(labels, i.idx) /\ target = LabelAt(labels, i.idx)
    BY <2>1, <2>3, LabelInRange DEF target
  <2>5. BranchTypes(target) = TakenAt(labels, i.idx)
    BY <2>4 DEF TakenAt
  <2>6. BranchesOn(i, types, labels, types', labels')
    BY <1>2, <2>5 DEF ValidateBrIf, Check, BranchesOn, LastLabel, target
  <2>7. BranchesOn(Passed, types, labels, types', labels')
    BY <2>2, <2>6 DEF BranchesOn
  <2> QED BY <2>2, <2>4, <2>7 DEF EffectOfBranches
<1>3. CASE ValidateBrTable(i, stray)
  <2> DEFINE targets == [k \in DOMAIN i.depths |-> GetLabel(i.depths[k], stray).label]
  <2>1. /\ instructions' = [instructions EXCEPT ![position + 1].targets = targets]
        /\ i.op = "br_table"
        /\ CanExpect(types, Last(labels), <<"i32">>)
        /\ \A k \in DOMAIN i.depths :
             /\ HasLabel(i.depths[k])
             /\ CanExpect(AfterExpect(types, Last(labels), <<"i32">>), Last(labels),
                          BranchTypes(GetLabel(i.depths[k], stray)))
        /\ Leaves(types, labels, types', labels')
    BY <1>3 DEF ValidateBrTable, CheckLeaving, Check, Leaves, LastLabel
  <2> HIDE DEF targets
  <2>2. Passed.op = "br_table" /\ Passed.depths = i.depths /\ Passed.targets = targets
    BY <2>1, PassedLowered
  <2>3. ASSUME NEW k \in DOMAIN i.depths
        PROVE  /\ InLabels(labels, i.depths[k])
               /\ GetLabel(i.depths[k], stray) = LabelAt(labels, i.depths[k])
    <3>1. DepthsOf(Passed) = i.depths
      BY <2>2 DEF DepthsOf
    <3>2. ~Wraps(i.depths[k])
      BY <3>1 DEF Strays
    <3>3. i.depths[k] \in Nat
      BY <1>0, LenProperties, ElementOfSeq DEF InstructionType
    <3> QED BY <2>1, <3>2, <3>3, LabelInRange
  <2>4. Passed.targets = [k \in DOMAIN i.depths |-> LabelAt(labels, i.depths[k]).label]
    BY <2>2, <2>3 DEF targets
  <2>5. \A k \in DOMAIN i.depths :
          CanExpect(AfterExpect(types, Last(labels), <<"i32">>), Last(labels),
                    TakenAt(labels, i.depths[k]))
    BY <2>1, <2>3 DEF TakenAt
  <2> QED BY <2>1, <2>2, <2>3, <2>4, <2>5 DEF EffectOfBranches
<1> QED BY <1>1, <1>2, <1>3

LEMMA EntryEffects ==
  ASSUME Validating, NEW i, i = At(instructions, position),
         ValidateBlockOrLoop(i) \/ ValidateIf(i)
  PROVE  Reject \/ StepEffect
<1> SUFFICES ASSUME ~Reject
             PROVE  Enters(Passed, types, labels, types', labels') /\ Passed.op \in Openers
  BY KindsOfOps DEF StepEffect, Effect, EffectOnBlocks, EffectOnOperands, EffectOfBranches,
                    ValidOps, BranchOps
<1>1. /\ i \in InstructionType /\ i.label \in Labels
      /\ Len(types) \in Nat /\ Len(i.type.params) \in Nat
  BY NextInstruction, Innermost, LenProperties
<1>2. CASE ValidateBlockOrLoop(i)
  <2> DEFINE height == (Len(types) - Len(i.type.params)) % U32
             label  == [i.label EXCEPT !.stackHeight = height]
             below  == AfterExpect(types, LastLabel, i.type.params)
  <2>1. Len(types) - Len(i.type.params) \in Int /\ U32 \in Nat /\ U32 > 0
    BY <1>1, ValidatorAssumption
  <2>9. height \in Nat
    <3>1. ASSUME NEW a \in Int, NEW n \in Nat, n > 0
          PROVE  a % n \in Nat
      BY <3>1
    <3> QED BY <2>1, <3>1
  <2>2. label \in Labels /\ label.stackHeight = height
    BY <1>1, <2>9 DEF Labels
  <2>3. /\ instructions' = Lowered(NoLabel) /\ i.op \in {"block", "loop"}
        /\ CanExpect(types, LastLabel, i.type.params)
        /\ types' = below \o i.type.params
        /\ labels' = PushLabel(i, below, label)
    BY <1>2 DEF ValidateBlockOrLoop, Check
  <2> HIDE DEF label, height, below
  <2>4. Passed.op = i.op /\ Passed.type = i.type
    BY <2>3, PassedLowered
  <2>5. Entry(Passed) = i.type.params
    BY <2>3, <2>4 DEF Entry
  <2>6. labels' = Append(labels, BlockLabel(Passed, Len(below), label))
    BY <2>3, <2>4 DEF PushLabel, BlockLabel
  <2> QED BY <2>2, <2>3, <2>4, <2>5, <2>6 DEF Enters, LastLabel, below, height, Openers
<1>3. CASE ValidateIf(i)
  <2> DEFINE condition == Append(i.type.params, "i32")
             below     == AfterExpect(types, LastLabel, condition)
  <2>1. /\ instructions' = instructions /\ i.op = "if"
        /\ CanExpect(types, LastLabel, condition)
        /\ types' = below \o i.type.params
        /\ labels' = PushLabel(i, below, i.label)
    BY <1>3 DEF ValidateIf, Check
  <2>2. Passed = i
    BY <2>1, PassedUnchanged
  <2>3. Entry(Passed) = condition
    BY <2>1, <2>2 DEF Entry
  <2> HIDE DEF condition, below
  <2>4. labels' = Append(labels, BlockLabel(Passed, Len(below), i.label))
    BY <2>1, <2>2 DEF PushLabel, BlockLabel
  <2> QED BY <1>1, <2>1, <2>2, <2>3, <2>4 DEF Enters, LastLabel, below, Openers
<1> QED BY <1>2, <1>3

LEMMA ExitEffects ==
  ASSUME Validating, NEW i, i = At(instructions, position), ValidateElse(i) \/ ValidateEnd(i)
  PROVE  Reject \/ StepEffect
<1>1. Reject \/ instructions' = instructions
  BY DEF ValidateElse, ValidateEnd, Check
<1> SUFFICES ASSUME ~Reject, Passed = i
             PROVE  EffectOnBlocks(i, types, labels, types', labels') /\ i.op \in {"else", "end"}
  BY <1>1, PassedUnchanged, KindsOfOps
     DEF StepEffect, Effect, EffectOfBranches, EffectOnOperands, ValidOps
<1> QED BY DEF ValidateElse, ValidateEnd, Check, EffectOnBlocks, LeavesOn, LeavesResults,
               LastLabel, Openers

LEMMA ValidatorEffects ==
  ASSUME Validating, ValidateInstruction
  PROVE  \/ Reject \/ EndOutsideLabels(At(instructions, position))
         \/ Strays(Passed) \/ StepEffect
<1> DEFINE i == At(instructions, position)
<1> QED BY OperandEffects, ReturnEffects, BranchEffects, EntryEffects, ExitEffects
        DEF ValidateInstruction

-----------------------------------------------------------------------------
(* Dead code.  Code is live if no label says that what follows in its      *)
(* block is unreachable.                                                   *)

Live(l) == \A m \in 1..Len(l) : ~l[m].unreachable

\* The operands and labels of some place.
AtPlace(s, l) == s \in Seq(OperandTypes) /\ l \in Seq(ValidatorLabels) /\ Nested(s, l)

\* What is not known was pushed in an unreachable part of a block.
UnknownIsDead(s, l) ==
  \A j \in 1..Len(s) : s[j] = Unknown =>
    \E m \in 1..Len(l) : l[m].unreachable /\ l[m].stackHeight < j

LEMMA LiveIsKnown ==
  ASSUME NEW s \in Seq(OperandTypes), NEW l, UnknownIsDead(s, l), Live(l)
  PROVE  s \in Seq(Types)
<1>1. Len(s) \in Nat /\ s \in [1..Len(s) -> OperandTypes]
  BY LenProperties
<1>2. \A j \in 1..Len(s) : s[j] \in Types
  BY <1>1 DEF UnknownIsDead, Live, OperandTypes
<1>3. s \in [1..Len(s) -> Types]
  BY <1>1, <1>2
<1> QED BY <1>1, <1>3, FunctionIsSeq

\* The heights of labels rise.
LEMMA HeightsRise ==
  ASSUME NEW s, NEW l, AtPlace(s, l), NEW m \in 1..Len(l), NEW n \in m..Len(l)
  PROVE  l[m].stackHeight <= l[n].stackHeight
<1> DEFINE S == {d \in Nat : m + d <= Len(l) => l[m].stackHeight <= l[m + d].stackHeight}
<1>1. /\ Len(l) \in Nat
      /\ \A k \in 1..Len(l) : l[k].stackHeight \in Nat
      /\ \A k \in 1..Len(l) : k < Len(l) => l[k].stackHeight <= l[k + 1].stackHeight
  <2>1. l \in Seq(ValidatorLabels) /\ Nested(s, l)
    BY DEF AtPlace
  <2>2. Len(l) \in Nat /\ \A k \in 1..Len(l) : l[k] \in ValidatorLabels
    BY <2>1, LenProperties, ElementOfSeq
  <2> QED BY <2>1, <2>2 DEF Nested, ValidatorLabels
<1>2. 0 \in S
  BY <1>1
<1>3. ASSUME NEW d \in Nat, d \in S
      PROVE  d + 1 \in S
  <2>1. CASE m + (d + 1) <= Len(l)
    <3>1. m + d \in 1..Len(l) /\ m + d < Len(l) /\ (m + d) + 1 = m + (d + 1)
      BY <1>1, <2>1
    <3>2. l[m].stackHeight <= l[m + d].stackHeight
      BY <1>3, <3>1
    <3>3. l[m + d].stackHeight <= l[m + (d + 1)].stackHeight
      BY <1>1, <3>1
    <3>4. m + (d + 1) \in 1..Len(l) /\ m \in 1..Len(l)
      BY <1>1, <2>1
    <3> QED BY <1>1, <3>1, <3>2, <3>3, <3>4
  <2> QED BY <2>1
<1> HIDE DEF S
<1>4. Nat \subseteq S
  BY <1>2, <1>3, SetInduction
<1>5. n - m \in S
  BY <1>1, <1>4
<1> QED BY <1>1, <1>5 DEF S

LEMMA TopLabel ==
  ASSUME NEW s, NEW l, AtPlace(s, l), l # <<>>
  PROVE  /\ s \in Seq(OperandTypes) /\ Len(s) \in Nat
         /\ Len(l) \in Nat \ {0} /\ Last(l) = l[Len(l)] /\ Last(l) \in ValidatorLabels
         /\ Last(l).stackHeight \in 0..Len(s)
         /\ Last(l).returnTypes \in Seq(Types) /\ Last(l).paramTypes \in Seq(Types)
         /\ \A m \in 1..Len(l) : /\ l[m].stackHeight \in Nat
                                 /\ l[m].stackHeight <= Last(l).stackHeight
         /\ Live(l) => ~Last(l).unreachable
<1>1. s \in Seq(OperandTypes) /\ l \in Seq(ValidatorLabels) /\ Nested(s, l)
  BY DEF AtPlace
<1>2. /\ Len(s) \in Nat /\ Len(l) \in Nat \ {0} /\ Last(l) = l[Len(l)]
      /\ Last(l) \in ValidatorLabels /\ Len(l) \in 1..Len(l)
  BY <1>1, LenProperties, FrontAndLast
<1>3. l[Len(l)].stackHeight <= Len(s)
  BY <1>1, <1>2 DEF Nested
<1>4. \A m \in 1..Len(l) : l[m] \in ValidatorLabels
  BY <1>1, ElementOfSeq
<1>5. \A m \in 1..Len(l) : l[m].stackHeight <= l[Len(l)].stackHeight
  BY <1>2, HeightsRise
<1> QED BY <1>1, <1>2, <1>3, <1>4, <1>5 DEF ValidatorLabels, Live

\* What pop leaves is a part of the stack that reaches to the label.
LEMMA PopLeaves ==
  ASSUME NEW s \in Seq(OperandTypes), NEW label \in ValidatorLabels, NEW n \in Nat,
         label.stackHeight <= Len(s)
  PROVE  LET u == AfterPop(s, label, n) IN
         /\ u \in Seq(OperandTypes) /\ Len(u) \in label.stackHeight..Len(s)
         /\ \A j \in 1..Len(u) : u[j] = s[j]
         /\ Len(u) = label.stackHeight => u = SubSeq(s, 1, label.stackHeight)
<1> DEFINE f == Len(s) - Found(s, label, n)
<1>1. label.stackHeight \in Nat /\ Len(s) \in Nat
  BY LenProperties DEF ValidatorLabels
<1>2. f \in Nat /\ f <= Len(s)
  BY <1>1 DEF Found
<1>3. \A k \in 1..f : s[k] \in OperandTypes
  BY <1>1, <1>2, ElementOfSeq
<1>4. AfterPop(s, label, n) = SubSeq(s, 1, f)
  BY DEF AfterPop
<1> HIDE DEF f
<1>5. Len(SubSeq(s, 1, f)) = f /\ \A j \in 1..f : SubSeq(s, 1, f)[j] = s[j]
  BY <1>2, <1>3, SubSeqProperties
<1> QED BY <1>4, <1>5, PopBounds

\* On the known operands of live code pop takes as many as it is asked for.
LEMMA LivePop ==
  ASSUME NEW s \in Seq(Types), NEW label \in ValidatorLabels, NEW n \in Nat,
         label.stackHeight <= Len(s), ~label.unreachable, CanPop(s, label, n)
  PROVE  LET u == AfterPop(s, label, n) IN
         /\ u \in Seq(Types) /\ Len(u) = Len(s) - n /\ u = SubSeq(s, 1, Len(s) - n)
         /\ Len(s) \in Nat /\ n <= Len(s) - label.stackHeight
         /\ \A k \in 1..n : /\ Popped(s, label, n, k) = s[Len(s) - k + 1]
                            /\ s[Len(s) - k + 1] \in Types
<1>1. label.stackHeight \in Nat /\ Len(s) \in Nat
  BY LenProperties DEF ValidatorLabels
<1>2. n <= Len(s) - label.stackHeight /\ Found(s, label, n) = n
  BY <1>1 DEF CanPop, Found
<1>3. AfterPop(s, label, n) = SubSeq(s, 1, Len(s) - n) /\ Len(s) - n \in Nat
  BY <1>1, <1>2 DEF AfterPop
<1>4. \A k \in 1..(Len(s) - n) : s[k] \in Types
  BY <1>1, <1>2, ElementOfSeq
<1>5. /\ SubSeq(s, 1, Len(s) - n) \in Seq(Types)
      /\ Len(SubSeq(s, 1, Len(s) - n)) = Len(s) - n
  BY <1>1, <1>3, <1>4, SubSeqProperties
<1>6. ASSUME NEW k \in 1..n
      PROVE  /\ Popped(s, label, n, k) = s[Len(s) - k + 1]
             /\ s[Len(s) - k + 1] \in Types
  <2>1. Len(s) - k + 1 \in 1..Len(s)
    BY <1>1, <1>2
  <2> QED BY <1>2, <2>1, ElementOfSeq DEF Popped
<1> QED BY <1>1, <1>2, <1>3, <1>5, <1>6

\* expect then finds what it expects, and nothing else is popped.
LEMMA LiveExpect ==
  ASSUME NEW s \in Seq(Types), NEW label \in ValidatorLabels, NEW expected \in Seq(Types),
         label.stackHeight <= Len(s), ~label.unreachable, CanExpect(s, label, expected)
  PROVE  LET u == AfterExpect(s, label, expected) IN
         /\ u \in Seq(Types) /\ Len(u) = Len(s) - Len(expected) /\ Len(u) >= label.stackHeight
         /\ u = SubSeq(s, 1, Len(s) - Len(expected))
         /\ s = u \o expected
         /\ \A k \in 1..Len(expected) :
              s[Len(s) - k + 1] = expected[Len(expected) - k + 1]
<1> DEFINE n == Len(expected)
           u == AfterExpect(s, label, expected)
<1>1. /\ n \in Nat /\ Len(s) \in Nat /\ label.stackHeight \in Nat
      /\ \A k \in 1..n : expected[k] \in Types
  BY LenProperties, ElementOfSeq DEF ValidatorLabels
<1>2. CanPop(s, label, n) /\ \A k \in 1..n : Agrees(Popped(s, label, n, k), expected[n - k + 1])
  BY DEF CanExpect
<1>3. /\ u \in Seq(Types) /\ Len(u) = Len(s) - n /\ u = SubSeq(s, 1, Len(s) - n)
      /\ n <= Len(s) - label.stackHeight
      /\ \A k \in 1..n : /\ Popped(s, label, n, k) = s[Len(s) - k + 1]
                         /\ s[Len(s) - k + 1] \in Types
  BY <1>1, <1>2, LivePop DEF AfterExpect
<1>4. ASSUME NEW k \in 1..n
      PROVE  s[Len(s) - k + 1] = expected[n - k + 1]
  <2>1. Agrees(s[Len(s) - k + 1], expected[n - k + 1]) /\ s[Len(s) - k + 1] \in Types
    BY <1>2, <1>3
  <2>2. expected[n - k + 1] \in Types
    BY <1>1
  <2>3. Unknown \notin Types
    BY DEF Unknown, Types
  <2> QED BY <2>1, <2>2, <2>3 DEF Agrees
<1> HIDE DEF u, n
<1>5. /\ u \o expected \in Seq(Types) /\ Len(u \o expected) = Len(s)
      /\ \A j \in 1..Len(s) : (u \o expected)[j] = IF j <= Len(u) THEN u[j] ELSE expected[j - Len(u)]
  BY <1>1, <1>3, ConcatProperties DEF n
<1>6. \A j \in 1..(Len(s) - n) : u[j] = s[j]
  <2>1. \A j \in 1..(Len(s) - n) : s[j] \in Types
    BY <1>1, <1>3, ElementOfSeq
  <2>2. \A j \in 1..(Len(s) - n) : SubSeq(s, 1, Len(s) - n)[j] = s[1 + j - 1]
    BY <1>1, <2>1, SubSeqProperties
  <2> QED BY <1>1, <1>3, <2>2
<1>7. ASSUME NEW j \in 1..Len(s)
      PROVE  (u \o expected)[j] = s[j]
  <2>1. CASE j <= Len(u)
    BY <1>1, <1>3, <1>5, <1>6, <2>1
  <2>2. CASE ~(j <= Len(u))
    <3> DEFINE k == Len(s) - j + 1
    <3>1. k \in 1..n /\ Len(s) - k + 1 = j /\ n - k + 1 = j - Len(u)
      BY <1>1, <1>3, <2>2
    <3>2. s[j] = expected[j - Len(u)]
      BY <1>4, <3>1
    <3> QED BY <1>5, <2>2, <3>2
  <2> QED BY <2>1, <2>2
<1>8. s = u \o expected
  BY <1>5, <1>7, SeqEqual
<1> QED BY <1>1, <1>3, <1>4, <1>8 DEF u, n

-----------------------------------------------------------------------------
(* What every step of the validator has in common: it touches the operands *)
(* above the innermost label, and no other label than that.                *)

SameBlock(a, b) ==
  /\ a.stackHeight = b.stackHeight /\ a.label = b.label
  /\ a.returnTypes = b.returnTypes /\ a.paramTypes = b.paramTypes
  /\ a.type = "loop" <=> b.type = "loop"

\* Either what it leaves is known, or nothing becomes reachable.
Moves(s, l, t, m) ==
  LET n == Len(l)
      h == Last(l).stackHeight
  IN  /\ Len(t) >= h /\ \A j \in 1..h : t[j] = s[j]
      /\ Len(m) \in Nat /\ Len(m) >= n - 1 /\ \A k \in 1..(n - 1) : m[k] = l[k]
      /\ Len(m) >= n => SameBlock(m[n], l[n])
      /\ \/ \A j \in (h + 1)..Len(t) : t[j] # Unknown
         \/ /\ Len(m) >= n /\ (l[n].unreachable => m[n].unreachable)
            /\ Live(l) => t \in Seq(Types)

LEMMA MovesDead ==
  ASSUME NEW s, NEW l, AtPlace(s, l), l # <<>>, UnknownIsDead(s, l),
         NEW t \in Seq(OperandTypes), NEW m, Moves(s, l, t, m)
  PROVE  UnknownIsDead(t, m)
<1> DEFINE n == Len(l)
           h == Last(l).stackHeight
<1>1. /\ n \in Nat \ {0} /\ h \in 0..Len(s) /\ Len(s) \in Nat /\ l[n].stackHeight = h
      /\ \A k \in 1..n : l[k].stackHeight \in Nat /\ l[k].stackHeight <= h
      /\ Len(t) \in Nat
  BY TopLabel, LenProperties
<1>2. /\ Len(t) >= h /\ \A j \in 1..h : t[j] = s[j]
      /\ Len(m) \in Nat /\ Len(m) >= n - 1 /\ \A k \in 1..(n - 1) : m[k] = l[k]
      /\ Len(m) >= n => m[n].stackHeight = h
  BY <1>1 DEF Moves, SameBlock
<1>3. \/ \A j \in (h + 1)..Len(t) : t[j] # Unknown
      \/ /\ Len(m) >= n /\ (l[n].unreachable => m[n].unreachable)
         /\ Live(l) => t \in Seq(Types)
  BY DEF Moves
<1> HIDE DEF n, h
<1> SUFFICES ASSUME NEW j \in 1..Len(t), t[j] = Unknown
             PROVE  \E k \in 1..Len(m) : m[k].unreachable /\ m[k].stackHeight < j
  BY DEF UnknownIsDead
\* It was there before, under the innermost label.
<1>4. CASE j <= h
  <2>1. s[j] = Unknown /\ j \in 1..Len(s)
    BY <1>1, <1>2, <1>4
  <2>2. PICK k \in 1..n : l[k].unreachable /\ l[k].stackHeight < j
    BY <2>1 DEF UnknownIsDead, n
  <2>3. k # n
    BY <1>1, <1>4, <2>2
  <2>4. k \in 1..(n - 1) /\ k \in 1..Len(m)
    BY <1>1, <1>2, <2>2, <2>3
  <2> QED BY <1>2, <2>2, <2>4
<1>5. CASE ~(j <= h)
  <2>1. j \in (h + 1)..Len(t)
    BY <1>1, <1>5
  <2>2. /\ Len(m) >= n /\ (l[n].unreachable => m[n].unreachable)
        /\ Live(l) => t \in Seq(Types)
    BY <1>3, <2>1
  <2>3. t \notin Seq(Types)
    <3>1. Unknown \notin Types
      BY DEF Unknown, Types
    <3> QED BY <3>1, ElementOfSeq
  <2>4. PICK k \in 1..n : l[k].unreachable
    BY <2>2, <2>3 DEF Live, n
  <2>5. k \in 1..Len(m) /\ m[k].unreachable /\ m[k].stackHeight <= h
    <3>1. CASE k = n
      BY <1>1, <1>2, <2>2, <2>4, <3>1
    <3>2. CASE k # n
      <4>1. k \in 1..(n - 1)
        BY <1>1, <3>2
      <4> QED BY <1>1, <1>2, <2>2, <2>4, <4>1
    <3> QED BY <3>1, <3>2
  <2>6. m[k].stackHeight < j
    <3>1. m[k].stackHeight \in Nat
      <4>1. CASE k = n
        BY <1>1, <1>2, <2>2, <4>1
      <4>2. CASE k # n
        <5>1. k \in 1..(n - 1)
          BY <1>1, <4>2
        <5> QED BY <1>1, <1>2, <5>1
      <4> QED BY <4>1, <4>2
    <3> QED BY <1>1, <1>5, <2>5, <3>1
  <2> QED BY <2>5, <2>6
<1> QED BY <1>4, <1>5

\* Steps that leave the labels as they are.
LEMMA MovesOn ==
  ASSUME NEW s, NEW l, AtPlace(s, l), l # <<>>, NEW u \in Seq(OperandTypes),
         NEW r \in Seq(OperandTypes),
         Len(u) >= Last(l).stackHeight, Len(u) <= Len(s), \A j \in 1..Len(u) : u[j] = s[j],
         Live(l) => u \in Seq(Types) /\ r \in Seq(Types)
  PROVE  Moves(s, l, u \o r, l)
<1> DEFINE h == Last(l).stackHeight
           t == u \o r
<1>1. /\ Len(l) \in Nat \ {0} /\ h \in Nat /\ Len(u) \in Nat /\ Len(r) \in Nat
  BY TopLabel, LenProperties
<1>2. /\ Len(t) = Len(u) + Len(r)
      /\ \A j \in 1..(Len(u) + Len(r)) : t[j] = IF j <= Len(u) THEN u[j] ELSE r[j - Len(u)]
  BY ConcatProperties
<1>3. Live(l) => t \in Seq(Types)
  BY ConcatProperties
<1> HIDE DEF h, t
<1>4. Len(t) >= h
  BY <1>1, <1>2 DEF h
<1>5. ASSUME NEW j \in 1..h
      PROVE  t[j] = s[j]
  <2>1. j \in 1..Len(u) /\ j \in 1..(Len(u) + Len(r)) /\ j <= Len(u)
    BY <1>1 DEF h
  <2> QED BY <1>2, <2>1
<1>6. SameBlock(l[Len(l)], l[Len(l)])
  BY DEF SameBlock
<1>7. Moves(s, l, t, l)
  BY <1>1, <1>3, <1>4, <1>5, <1>6 DEF Moves, h
<1> QED BY <1>7 DEF t

\* Popping some operands and pushing others.
LEMMA ExpectMoves ==
  ASSUME NEW s, NEW l, AtPlace(s, l), l # <<>>, UnknownIsDead(s, l),
         NEW params \in Seq(Types), NEW r \in Seq(OperandTypes),
         CanExpect(s, Last(l), params), Live(l) => r \in Seq(Types)
  PROVE  /\ Moves(s, l, AfterExpect(s, Last(l), params) \o r, l)
         /\ AfterExpect(s, Last(l), params) \in Seq(OperandTypes)
         /\ Len(AfterExpect(s, Last(l), params)) \in Last(l).stackHeight..Len(s)
         /\ \A j \in 1..Len(AfterExpect(s, Last(l), params)) :
              AfterExpect(s, Last(l), params)[j] = s[j]
         /\ Live(l) => AfterExpect(s, Last(l), params) \in Seq(Types)
<1> DEFINE u == AfterExpect(s, Last(l), params)
<1>1. /\ s \in Seq(OperandTypes) /\ Last(l) \in ValidatorLabels
      /\ Last(l).stackHeight \in 0..Len(s) /\ Len(s) \in Nat
      /\ Live(l) => ~Last(l).unreachable
      /\ Len(params) \in Nat
  BY TopLabel, LenProperties
<1>2. /\ u \in Seq(OperandTypes) /\ Len(u) \in Last(l).stackHeight..Len(s)
      /\ \A j \in 1..Len(u) : u[j] = s[j]
  BY <1>1, PopLeaves DEF AfterExpect
<1>3. Live(l) => u \in Seq(Types)
  BY <1>1, LiveIsKnown, LiveExpect
<1>4. Len(u) >= Last(l).stackHeight /\ Len(u) <= Len(s)
  BY <1>1, <1>2
<1> HIDE DEF u
<1>5. Moves(s, l, u \o r, l)
  BY <1>2, <1>3, <1>4, MovesOn
<1> QED BY <1>2, <1>3, <1>5 DEF u

\* What is at hand of an instruction and its place.
Passing(i, s, l, t, m) ==
  /\ i \in InstructionType /\ AtPlace(s, l) /\ l # <<>> /\ UnknownIsDead(s, l)
  /\ AtPlace(t, m) /\ Effect(i, s, l, t, m)

LEMMA ExpectsMoves ==
  ASSUME NEW s, NEW l, AtPlace(s, l), l # <<>>, UnknownIsDead(s, l), NEW params \in Seq(Types),
         NEW returns \in Seq(Types), NEW t, NEW m, Expects(s, l, params, returns, t, m)
  PROVE  Moves(s, l, t, m)
<1>1. returns \in Seq(OperandTypes)
  BY TypesAreOperands
<1> QED BY <1>1, ExpectMoves DEF Expects

LEMMA TypedBy ==
  ASSUME NEW i \in InstructionType
  PROVE  /\ i.type.params \in Seq(Types) /\ i.type.returns \in Seq(Types)
         /\ Entry(i) \in Seq(Types)
         /\ i.type.returns \o i.type.returns \o <<"i32">> \in Seq(Types)
         /\ i.idx \in Nat /\ i.idx2 \in Nat /\ i.depths \in Seq(Nat)
         /\ <<"i32">> \in Seq(Types) /\ Len(<<"i32">>) = 1
<1>1. /\ i.type.params \in Seq(Types) /\ i.type.returns \in Seq(Types)
      /\ i.idx \in Nat /\ i.idx2 \in Nat /\ i.depths \in Seq(Nat)
  BY DEF InstructionType, Signatures
<1>2. "i32" \in Types
  BY DEF Types
<1>3. <<"i32">> \in Seq(Types) /\ Len(<<"i32">>) = 1
  BY <1>2
<1>4. Entry(i) \in Seq(Types)
  BY <1>1, <1>2, AppendProperties DEF Entry
<1>5. i.type.returns \o i.type.returns \o <<"i32">> \in Seq(Types)
  BY <1>1, <1>3, ConcatProperties
<1> QED BY <1>1, <1>3, <1>4, <1>5

LEMMA LeavesMoves ==
  ASSUME NEW s, NEW l, AtPlace(s, l), l # <<>>, NEW t, NEW m, Leaves(s, l, t, m)
  PROVE  Moves(s, l, t, m)
<1> DEFINE h == Last(l).stackHeight
<1>1. /\ h \in 0..Len(s) /\ Len(s) \in Nat /\ Len(l) \in Nat \ {0} /\ s \in Seq(OperandTypes)
      /\ l \in Seq(ValidatorLabels)
  BY TopLabel DEF AtPlace
<1>2. \A j \in 1..h : s[j] \in OperandTypes
  BY <1>1, ElementOfSeq
<1>3. Len(t) = h /\ \A j \in 1..h : t[j] = s[j]
  BY <1>1, <1>2, SubSeqProperties DEF Leaves
<1>4. l \in [1..Len(l) -> ValidatorLabels] /\ Len(l) \in 1..Len(l)
  BY <1>1, LenProperties
<1>5. l[Len(l)] \in ValidatorLabels
  BY <1>4
<1>6. DOMAIN m = 1..Len(l) /\ \A k \in 1..(Len(l) - 1) : m[k] = l[k]
  BY <1>1, <1>4 DEF Leaves
<1>7. m[Len(l)] = [l[Len(l)] EXCEPT !.unreachable = TRUE]
  BY <1>4 DEF Leaves
<1>8. SameBlock(m[Len(l)], l[Len(l)])
  BY <1>5, <1>7 DEF SameBlock, ValidatorLabels
<1>9. Len(m) = Len(l)
  <2>1. m \in [1..Len(l) -> {m[k] : k \in 1..Len(l)}]
    BY <1>4 DEF Leaves
  <2> QED BY <1>1, <2>1, FunctionIsSeq
<1> HIDE DEF h
<1> QED BY <1>1, <1>3, <1>6, <1>8, <1>9 DEF Moves, h

LEMMA OperandMoves ==
  ASSUME NEW i, NEW s, NEW l, NEW t, NEW m, Passing(i, s, l, t, m),
         i.op \in SimpleOps \cup {"drop", "select", "select_typed", "unreachable"}
  PROVE  Moves(s, l, t, m)
<1>1. /\ i \in InstructionType /\ AtPlace(s, l) /\ l # <<>> /\ UnknownIsDead(s, l)
      /\ t \in Seq(OperandTypes) /\ EffectOnOperands(i, s, l, t, m)
  BY DEF Passing, AtPlace, Effect
<1>2. CASE i.op \in SimpleOps
  <2>1. IndicesValid(i) /\ Expects(s, l, ValidatedAs(i).params, ValidatedAs(i).returns, t, m)
    BY <1>1, <1>2 DEF EffectOnOperands
  <2>2. ValidatedAs(i).params \in Seq(Types) /\ ValidatedAs(i).returns \in Seq(Types)
    BY <1>1, <1>2, <2>1, ValidSignature DEF IsSignature
  <2> QED BY <1>1, <2>1, <2>2, ExpectsMoves
<1>3. CASE i.op = "select_typed"
  <2>1. Expects(s, l, i.type.returns \o i.type.returns \o <<"i32">>, i.type.returns, t, m)
    BY <1>1, <1>3 DEF EffectOnOperands
  <2> QED BY <1>1, <2>1, TypedBy, ExpectsMoves
<1>4. CASE i.op = "unreachable"
  BY <1>1, <1>4, LeavesMoves DEF EffectOnOperands
<1>5. /\ s \in Seq(OperandTypes) /\ Last(l) \in ValidatorLabels
      /\ Last(l).stackHeight \in 0..Len(s) /\ Len(s) \in Nat
      /\ Last(l).stackHeight <= Len(s)
      /\ Live(l) => ~Last(l).unreachable /\ s \in Seq(Types)
  BY <1>1, TopLabel, LiveIsKnown
<1>6. CASE i.op = "drop"
  <2> DEFINE u == AfterPop(s, Last(l), 1)
  <2>1. t = u /\ m = l /\ CanPop(s, Last(l), 1)
    BY <1>1, <1>6 DEF EffectOnOperands
  <2>2. /\ u \in Seq(OperandTypes) /\ Len(u) \in Last(l).stackHeight..Len(s)
        /\ \A j \in 1..Len(u) : u[j] = s[j]
    BY <1>5, PopLeaves
  <2>3. Live(l) => u \in Seq(Types)
    BY <1>5, <2>1, LivePop
  <2>4. <<>> \in Seq(OperandTypes) /\ <<>> \in Seq(Types)
    BY EmptySeq
  <2>5. Len(u) >= Last(l).stackHeight /\ Len(u) <= Len(s)
    BY <1>5, <2>2
  <2> HIDE DEF u
  <2>6. Moves(s, l, u \o <<>>, l)
    BY <1>1, <2>2, <2>3, <2>4, <2>5, MovesOn
  <2>7. u \o <<>> = u
    BY <2>2, ConcatEmptySeq
  <2> QED BY <2>1, <2>6, <2>7
<1>7. CASE i.op = "select"
  <2> DEFINE under == AfterExpect(s, Last(l), <<"i32">>)
             a     == Popped(under, Last(l), 2, 1)
             b     == Popped(under, Last(l), 2, 2)
             u     == AfterPop(under, Last(l), 2)
             c     == IF a # Unknown THEN a ELSE b
  <2>1. /\ CanExpect(s, Last(l), <<"i32">>) /\ CanPop(under, Last(l), 2)
        /\ t = Append(u, c) /\ m = l
    BY <1>1, <1>7 DEF EffectOnOperands, Selects
  <2>2. /\ under \in Seq(OperandTypes) /\ Len(under) \in Last(l).stackHeight..Len(s)
        /\ \A j \in 1..Len(under) : under[j] = s[j]
        /\ Live(l) => under \in Seq(Types)
    <3>1. <<>> \in Seq(OperandTypes) /\ <<>> \in Seq(Types) /\ <<"i32">> \in Seq(Types)
      BY <1>1, EmptySeq, TypedBy
    <3> QED BY <1>1, <2>1, <3>1, ExpectMoves
  <2>3. Last(l).stackHeight <= Len(under) /\ Len(under) <= Len(s) /\ Len(under) \in Nat
    BY <1>5, <2>2
  <2> HIDE DEF under
  <2>4. /\ u \in Seq(OperandTypes) /\ Len(u) \in Last(l).stackHeight..Len(under)
        /\ \A j \in 1..Len(u) : u[j] = under[j]
    BY <1>5, <2>2, <2>3, PopLeaves
  <2>5. a \in OperandTypes /\ b \in OperandTypes
    <3>1. \A k \in 1..2 : Popped(under, Last(l), 2, k) \in OperandTypes
      BY <1>5, <2>2, <2>3, PopBounds
    <3> QED BY <3>1
  <2>6. ASSUME Live(l)
        PROVE  u \in Seq(Types) /\ a \in Types /\ b \in Types
    <3>1. under \in Seq(Types) /\ ~Last(l).unreachable
      BY <1>5, <2>2, <2>6
    <3>2. /\ u \in Seq(Types)
          /\ \A k \in 1..2 : /\ Popped(under, Last(l), 2, k) = under[Len(under) - k + 1]
                             /\ under[Len(under) - k + 1] \in Types
      BY <1>5, <2>1, <2>3, <3>1, LivePop
    <3>3. \A k \in 1..2 : Popped(under, Last(l), 2, k) \in Types
      BY <3>2
    <3> QED BY <3>2, <3>3
  <2>7. \A j \in 1..Len(u) : u[j] = s[j]
    BY <1>5, <2>2, <2>3, <2>4
  <2>8. Len(u) >= Last(l).stackHeight /\ Len(u) <= Len(s)
    BY <1>5, <2>3, <2>4
  <2>9. c \in OperandTypes /\ (Live(l) => c \in Types)
    BY <2>5, <2>6
  <2> HIDE DEF u, a, b, c
  <2>10. <<c>> \in Seq(OperandTypes) /\ (Live(l) => <<c>> \in Seq(Types))
    BY <2>9
  <2>11. Moves(s, l, u \o <<c>>, l)
    BY <1>1, <2>4, <2>6, <2>7, <2>8, <2>10, MovesOn
  <2>12. t = u \o <<c>>
    BY <2>1, <2>4, <2>9, AppendIsConcat
  <2> QED BY <2>1, <2>11, <2>12
<1> QED BY <1>2, <1>3, <1>4, <1>6, <1>7

LEMMA LabelAtDepth ==
  ASSUME NEW s, NEW l, AtPlace(s, l), l # <<>>, NEW d \in Nat, InLabels(l, d)
  PROVE  /\ Len(l) - d \in 1..Len(l) /\ LabelAt(l, d) \in ValidatorLabels
         /\ TakenAt(l, d) \in Seq(Types) /\ Len(TakenAt(l, d)) \in Nat
<1>1. Len(l) \in Nat \ {0} /\ l \in Seq(ValidatorLabels)
  BY TopLabel DEF AtPlace
<1>2. Len(l) - d \in 1..Len(l)
  BY <1>1 DEF InLabels
<1>3. LabelAt(l, d) \in ValidatorLabels
  BY <1>1, <1>2, ElementOfSeq DEF LabelAt
<1>4. TakenAt(l, d) \in Seq(Types)
  BY <1>3, EmptySeq DEF TakenAt, BranchTypes, ValidatorLabels
<1> QED BY <1>2, <1>3, <1>4, LenProperties

\* The operands under a condition or an index.
LEMMA UnderCondition ==
  ASSUME NEW s, NEW l, AtPlace(s, l), l # <<>>, UnknownIsDead(s, l),
         CanExpect(s, Last(l), <<"i32">>)
  PROVE  LET under == AfterExpect(s, Last(l), <<"i32">>) IN
         /\ under \in Seq(OperandTypes) /\ Len(under) \in Nat
         /\ Len(under) >= Last(l).stackHeight /\ Len(under) <= Len(s)
         /\ \A j \in 1..Len(under) : under[j] = s[j]
         /\ Live(l) => under \in Seq(Types)
<1>1. <<>> \in Seq(OperandTypes) /\ <<>> \in Seq(Types) /\ <<"i32">> \in Seq(Types)
  <2>1. "i32" \in Types
    BY DEF Types
  <2> QED BY <2>1, EmptySeq
<1> DEFINE under == AfterExpect(s, Last(l), <<"i32">>)
<1>2. /\ under \in Seq(OperandTypes)
      /\ Len(under) \in Last(l).stackHeight..Len(s)
      /\ \A j \in 1..Len(under) : under[j] = s[j]
      /\ Live(l) => under \in Seq(Types)
  BY <1>1, ExpectMoves
<1>3. Last(l).stackHeight \in Nat /\ Len(s) \in Nat
  BY TopLabel
<1> HIDE DEF under
<1>4. Len(under) \in Nat /\ Len(under) >= Last(l).stackHeight /\ Len(under) <= Len(s)
  BY <1>2, <1>3
<1> QED BY <1>2, <1>4 DEF under

LEMMA BranchMoves ==
  ASSUME NEW i, NEW s, NEW l, NEW t, NEW m, Passing(i, s, l, t, m), i.op \in BranchOps
  PROVE  Moves(s, l, t, m)
<1>1. /\ i \in InstructionType /\ AtPlace(s, l) /\ l # <<>> /\ UnknownIsDead(s, l)
      /\ EffectOfBranches(i, s, l, t, m)
  BY DEF Passing, Effect
<1>2. CASE i.op # "br_if"
  <2>1. Leaves(s, l, t, m)
    BY <1>1, <1>2 DEF EffectOfBranches, BranchOps
  <2> QED BY <1>1, <2>1, LeavesMoves
<1>3. CASE i.op = "br_if"
  <2> DEFINE taken == TakenAt(l, i.idx)
             n     == Len(taken)
             under == AfterExpect(s, Last(l), <<"i32">>)
             u     == AfterExpect(under, Last(l), taken)
             r     == [k \in 1..n |-> Popped(under, Last(l), n, k)]
  <2>1. /\ InLabels(l, i.idx) /\ CanExpect(s, Last(l), <<"i32">>)
        /\ CanExpect(under, Last(l), taken) /\ t = u \o r /\ m = l
    BY <1>1, <1>3 DEF EffectOfBranches, BranchesOn
  <2>2. taken \in Seq(Types) /\ n \in Nat
    BY <1>1, <2>1, TypedBy, LabelAtDepth
  <2>3. /\ under \in Seq(OperandTypes) /\ Len(under) \in Nat
        /\ Last(l).stackHeight <= Len(under) /\ Len(under) <= Len(s)
        /\ \A j \in 1..Len(under) : under[j] = s[j]
        /\ Live(l) => under \in Seq(Types)
    BY <1>1, <2>1, UnderCondition
  <2>4. /\ Last(l) \in ValidatorLabels /\ Last(l).stackHeight \in Nat /\ Len(s) \in Nat
        /\ Live(l) => ~Last(l).unreachable
    BY <1>1, TopLabel
  <2>5. CanPop(under, Last(l), n) /\ u = AfterPop(under, Last(l), n)
    BY <2>1 DEF CanExpect, AfterExpect
  <2> HIDE DEF under, taken, n, u
  <2>6. /\ u \in Seq(OperandTypes) /\ Len(u) \in Last(l).stackHeight..Len(under)
        /\ \A j \in 1..Len(u) : u[j] = under[j]
    BY <2>2, <2>3, <2>4, <2>5, PopLeaves
  <2>7. \A k \in 1..n : Popped(under, Last(l), n, k) \in OperandTypes
    BY <2>2, <2>3, <2>4, PopBounds
  <2>8. r \in Seq(OperandTypes)
    <3>1. r \in [1..n -> OperandTypes]
      BY <2>7
    <3> HIDE DEF r
    <3> QED BY <2>2, <3>1, FunctionIsSeq
  <2>9. ASSUME Live(l)
        PROVE  u \in Seq(Types) /\ r \in Seq(Types)
    <3>1. under \in Seq(Types) /\ ~Last(l).unreachable
      BY <2>3, <2>4, <2>9
    <3>2. /\ u \in Seq(Types)
          /\ \A k \in 1..n : /\ Popped(under, Last(l), n, k) = under[Len(under) - k + 1]
                             /\ under[Len(under) - k + 1] \in Types
      BY <2>2, <2>3, <2>4, <2>5, <3>1, LivePop
    <3>3. r \in [1..n -> Types]
      BY <3>2
    <3> HIDE DEF r
    <3> QED BY <2>2, <3>2, <3>3, FunctionIsSeq
  <2> HIDE DEF r
  <2>10. /\ Len(u) >= Last(l).stackHeight /\ Len(u) <= Len(s)
         /\ \A j \in 1..Len(u) : u[j] = s[j]
    BY <2>3, <2>4, <2>6
  <2>11. Moves(s, l, u \o r, l)
    BY <1>1, <2>6, <2>8, <2>9, <2>10, MovesOn
  <2> QED BY <2>1, <2>11
<1> QED BY <1>2, <1>3

LEMMA EntryMoves ==
  ASSUME NEW i, NEW s, NEW l, NEW t, NEW m, Passing(i, s, l, t, m), i.op \in Openers
  PROVE  Moves(s, l, t, m)
<1> DEFINE u == AfterExpect(s, Last(l), Entry(i))
<1>1. /\ i \in InstructionType /\ AtPlace(s, l) /\ l # <<>> /\ UnknownIsDead(s, l)
      /\ Enters(i, s, l, t, m) /\ m \in Seq(ValidatorLabels) /\ l \in Seq(ValidatorLabels)
  BY DEF Passing, Effect, EffectOnBlocks, AtPlace
<1>2. CanExpect(s, Last(l), Entry(i)) /\ t = u \o i.type.params
  BY <1>1 DEF Enters
<1>3. i.type.params \in Seq(Types) /\ i.type.params \in Seq(OperandTypes)
      /\ Entry(i) \in Seq(Types)
  BY <1>1, TypedBy, TypesAreOperands
<1>4. Moves(s, l, t, l)
  BY <1>1, <1>2, <1>3, ExpectMoves
<1>5. PICK b : m = Append(l, b)
  BY <1>1 DEF Enters
<1>6. Len(l) \in Nat \ {0} /\ l[Len(l)] = Last(l)
  BY <1>1, TopLabel
<1>7. Len(m) = Len(l) + 1 /\ \A k \in 1..Len(l) : m[k] = l[k]
  BY <1>1, <1>5
<1>8. /\ Len(m) \in Nat /\ Len(m) >= Len(l) /\ Len(m) >= Len(l) - 1
      /\ m[Len(l)] = l[Len(l)] /\ \A k \in 1..(Len(l) - 1) : m[k] = l[k]
  BY <1>6, <1>7
<1> HIDE DEF u
<1> QED BY <1>4, <1>8 DEF Moves

\* The part of the stack that is left when a block leaves its results on it.
LEMMA OnlyResults ==
  ASSUME NEW s, NEW l, AtPlace(s, l), l # <<>>, LeavesOn(s, l)
  PROVE  AfterExpect(s, Last(l), Last(l).returnTypes) = SubSeq(s, 1, Last(l).stackHeight)
<1>1. /\ s \in Seq(OperandTypes) /\ Last(l) \in ValidatorLabels
      /\ Last(l).stackHeight <= Len(s) /\ Len(Last(l).returnTypes) \in Nat
  BY TopLabel, LenProperties
<1>2. LET u == AfterPop(s, Last(l), Len(Last(l).returnTypes)) IN
      Len(u) = Last(l).stackHeight => u = SubSeq(s, 1, Last(l).stackHeight)
  BY <1>1, PopLeaves
<1> QED BY <1>2 DEF LeavesOn, AfterExpect

\* What is on the stack behind an else or an end.
LEMMA Restored ==
  ASSUME NEW s \in Seq(OperandTypes), NEW h \in Nat, h <= Len(s), NEW r \in Seq(Types)
  PROVE  LET t == SubSeq(s, 1, h) \o r IN
         /\ Len(r) \in Nat /\ Len(t) = h + Len(r)
         /\ \A j \in 1..h : t[j] = s[j]
         /\ \A j \in (h + 1)..Len(t) : t[j] = r[j - h] /\ t[j] # Unknown
<1>1. Len(s) \in Nat /\ Len(r) \in Nat /\ r \in Seq(OperandTypes)
  BY LenProperties, TypesAreOperands
<1>2. \A j \in 1..h : s[j] \in OperandTypes
  BY <1>1, ElementOfSeq
<1> DEFINE u == SubSeq(s, 1, h)
           t == u \o r
<1>3. u \in Seq(OperandTypes) /\ Len(u) = h /\ \A j \in 1..h : u[j] = s[j]
  BY <1>1, <1>2, SubSeqProperties
<1> HIDE DEF u
<1>4. /\ Len(t) = h + Len(r)
      /\ \A j \in 1..(h + Len(r)) : t[j] = IF j <= h THEN u[j] ELSE r[j - h]
  BY <1>1, <1>3, ConcatProperties
<1>5. Unknown \notin Types /\ \A j \in 1..Len(r) : r[j] \in Types
  BY ElementOfSeq DEF Unknown, Types
<1> HIDE DEF t
<1>6. \A j \in (h + 1)..Len(t) : j - h \in 1..Len(r) /\ t[j] = r[j - h]
  BY <1>1, <1>4
<1>7. \A j \in 1..h : t[j] = s[j]
  BY <1>1, <1>3, <1>4
<1>8. \A j \in (h + 1)..Len(t) : t[j] # Unknown
  BY <1>5, <1>6
<1> QED BY <1>1, <1>4, <1>6, <1>7, <1>8 DEF t, u

LEMMA ExitMoves ==
  ASSUME NEW i, NEW s, NEW l, NEW t, NEW m, Passing(i, s, l, t, m), i.op \in {"else", "end"}
  PROVE  Moves(s, l, t, m)
<1> DEFINE h == Last(l).stackHeight
           r == IF i.op = "else" THEN Last(l).paramTypes ELSE Last(l).returnTypes
<1>1. /\ AtPlace(s, l) /\ l # <<>> /\ EffectOnBlocks(i, s, l, t, m)
      /\ l \in Seq(ValidatorLabels)
  BY DEF Passing, Effect, AtPlace
<1>2. /\ LeavesOn(s, l) /\ t = SubSeq(s, 1, h) \o r
      /\ \/ m = Front(l)
         \/ /\ Last(l).type = "if"
            /\ m = [l EXCEPT ![Len(l)].type = "ifAfterElse", ![Len(l)].unreachable = FALSE]
  BY <1>1, OnlyResults DEF EffectOnBlocks
<1>3. /\ s \in Seq(OperandTypes) /\ h \in 0..Len(s) /\ r \in Seq(Types) /\ Len(s) \in Nat
      /\ Len(l) \in Nat \ {0} /\ Last(l) = l[Len(l)] /\ Last(l) \in ValidatorLabels
  BY <1>1, TopLabel
<1> HIDE DEF h, r
<1>4. /\ Len(t) = h + Len(r) /\ Len(r) \in Nat
      /\ \A j \in 1..h : t[j] = s[j]
      /\ \A j \in (h + 1)..Len(t) : t[j] # Unknown
  <2>1. t = SubSeq(s, 1, h) \o r
    BY <1>2
  <2>2. s \in Seq(OperandTypes) /\ h \in Nat /\ h <= Len(s) /\ r \in Seq(Types)
    BY <1>3
  <2> QED BY <2>1, <2>2, Restored
<1>5. Len(t) >= h
  BY <1>3, <1>4
<1>6. CASE m = Front(l)
  <2>1. Len(m) = Len(l) - 1 /\ \A k \in 1..(Len(l) - 1) : m[k] = l[k]
    BY <1>1, <1>6, FrontAndLast
  <2>2. Len(m) \in Nat /\ Len(m) >= Len(l) - 1 /\ ~(Len(m) >= Len(l))
    BY <1>3, <2>1
  <2> QED BY <1>4, <1>5, <2>1, <2>2 DEF Moves, h
<1>7. CASE /\ Last(l).type = "if"
           /\ m = [l EXCEPT ![Len(l)].type = "ifAfterElse", ![Len(l)].unreachable = FALSE]
  <2>1. DOMAIN l = 1..Len(l) /\ Len(l) \in 1..Len(l)
    BY <1>1, <1>3, LenProperties
  <2>2. m \in [1..Len(l) -> {m[k] : k \in 1..Len(l)}] /\ \A k \in 1..(Len(l) - 1) : m[k] = l[k]
    BY <1>3, <1>7, <2>1
  <2>3. m[Len(l)] = [l[Len(l)] EXCEPT !.type = "ifAfterElse", !.unreachable = FALSE]
    BY <1>7, <2>1
  <2>4. SameBlock(m[Len(l)], l[Len(l)])
    BY <1>3, <1>7, <2>3 DEF SameBlock, ValidatorLabels
  <2>5. Len(m) = Len(l)
    BY <1>3, <2>2, FunctionIsSeq
  <2>6. Len(m) \in Nat /\ Len(m) >= Len(l) - 1
    BY <1>3, <2>5
  <2> QED BY <1>4, <1>5, <2>2, <2>4, <2>6 DEF Moves, h
<1> QED BY <1>2, <1>6, <1>7

LEMMA EffectMoves ==
  ASSUME NEW i, NEW s, NEW l, NEW t, NEW m, Passing(i, s, l, t, m)
  PROVE  Moves(s, l, t, m)
<1>1. i.op \in ValidOps
  BY DEF Passing, Effect
<1> QED BY <1>1, OperandMoves, BranchMoves, EntryMoves, ExitMoves DEF ValidOps

-----------------------------------------------------------------------------
(* The history of the validator: its operands T[i] and its labels L[i]     *)
(* before instruction i, for the first p instructions of a code.           *)

History(code, p, T, L) ==
  /\ \A i \in 0..p : /\ AtPlace(T[i], L[i]) /\ Len(L[i]) = Nesting(code, i) + 1
                      /\ Len(T[i]) < U32
  /\ T[0] = <<>> /\ L[0] = <<EntryLabel(Len(code))>>
  /\ \A i \in 0..(p - 1) : Effect(code[i + 1], T[i], L[i], T[i + 1], L[i + 1])

Traced(code, p, T, L) ==
  /\ code \in Seq(InstructionType) /\ Balanced(code) /\ p \in 0..Len(code)
  /\ History(code, p, T, L)

LEMMA TracedPlaces ==
  ASSUME NEW code, NEW p, NEW T, NEW L, Traced(code, p, T, L)
  PROVE  /\ Len(code) \in Nat /\ p \in Nat /\ p <= Len(code)
         /\ \A i \in 0..p : /\ i \in Nat /\ AtPlace(T[i], L[i])
                            /\ Len(L[i]) = Nesting(code, i) + 1 /\ Nesting(code, i) \in Int
         /\ \A i \in 0..(p - 1) :
              /\ i \in 0..p /\ i + 1 \in 0..p /\ i \in Nat /\ i \in Places(code)
              /\ code[i + 1] \in InstructionType /\ Nesting(code, i) \in Nat
              /\ Len(L[i]) \in Nat \ {0} /\ L[i] # <<>>
              /\ Effect(code[i + 1], T[i], L[i], T[i + 1], L[i + 1])
<1>1. /\ Len(code) \in Nat /\ p \in Nat /\ p <= Len(code)
      /\ History(code, p, T, L) /\ Balanced(code)
  BY LenProperties DEF Traced
<1>2. ASSUME NEW i \in 0..p
      PROVE  /\ i \in Nat /\ AtPlace(T[i], L[i]) /\ Len(L[i]) = Nesting(code, i) + 1
             /\ Nesting(code, i) \in Int
  <2>1. i \in Nat
    BY <1>1
  <2>2. Nesting(code, i) \in Int
    BY <2>1, NestingInt
  <2> QED BY <1>1, <2>1, <2>2 DEF History
<1>3. ASSUME NEW i \in 0..(p - 1)
      PROVE  /\ i \in 0..p /\ i + 1 \in 0..p /\ i \in Nat /\ i \in Places(code)
             /\ code[i + 1] \in InstructionType /\ Nesting(code, i) \in Nat
             /\ Len(L[i]) \in Nat \ {0} /\ L[i] # <<>>
             /\ Effect(code[i + 1], T[i], L[i], T[i + 1], L[i + 1])
  <2>1. i \in 0..p /\ i + 1 \in 0..p /\ i \in Nat /\ i \in Places(code) /\ i + 1 \in 1..Len(code)
    BY <1>1 DEF Places
  <2>2. Nesting(code, i) \in Nat
    BY <1>1, <1>2, <2>1 DEF Balanced
  <2>3. code[i + 1] \in InstructionType
    BY <2>1, ElementOfSeq DEF Traced
  <2>4. Len(L[i]) \in Nat \ {0}
    BY <1>2, <2>1, <2>2
  <2>5. L[i] # <<>>
    BY <2>4
  <2> QED BY <1>1, <2>1, <2>2, <2>3, <2>4, <2>5 DEF History
<1> QED BY <1>1, <1>2, <1>3

LEMMA TracedDead ==
  ASSUME NEW code, NEW p, NEW T, NEW L, Traced(code, p, T, L)
  PROVE  \A i \in 0..p : UnknownIsDead(T[i], L[i])
<1> DEFINE S == {i \in Nat : i <= p => UnknownIsDead(T[i], L[i])}
<1>1. p \in Nat
  BY TracedPlaces
<1>2. 0 \in S
  <2>1. T[0] = <<>>
    BY DEF Traced, History
  <2>2. UnknownIsDead(T[0], L[0])
    BY <2>1 DEF UnknownIsDead
  <2> QED BY <2>2
<1>3. ASSUME NEW i \in Nat, i \in S
      PROVE  i + 1 \in S
  <2> SUFFICES ASSUME i + 1 <= p
               PROVE  UnknownIsDead(T[i + 1], L[i + 1])
    OBVIOUS
  <2>1. i \in 0..(p - 1) /\ i \in 0..p /\ i + 1 \in 0..p /\ UnknownIsDead(T[i], L[i])
    BY <1>1, <1>3
  <2>2. Passing(code[i + 1], T[i], L[i], T[i + 1], L[i + 1])
    BY <2>1, TracedPlaces DEF Passing
  <2>3. /\ Moves(T[i], L[i], T[i + 1], L[i + 1])
        /\ AtPlace(T[i], L[i]) /\ L[i] # <<>> /\ T[i + 1] \in Seq(OperandTypes)
    BY <2>2, EffectMoves DEF Passing, AtPlace
  <2> QED BY <2>1, <2>3, MovesDead
<1> HIDE DEF S
<1>4. Nat \subseteq S
  BY <1>2, <1>3, SetInduction
<1>5. ASSUME NEW i \in 0..p
      PROVE  UnknownIsDead(T[i], L[i])
  <2>1. i \in S /\ i <= p
    BY <1>1, <1>4
  <2> QED BY <2>1 DEF S
<1> QED BY <1>5

LEMMA TracedMoves ==
  ASSUME NEW code, NEW p, NEW T, NEW L, Traced(code, p, T, L), NEW i \in 0..(p - 1)
  PROVE  /\ Passing(code[i + 1], T[i], L[i], T[i + 1], L[i + 1])
         /\ Moves(T[i], L[i], T[i + 1], L[i + 1])
<1>1. Passing(code[i + 1], T[i], L[i], T[i + 1], L[i + 1])
  BY TracedPlaces, TracedDead DEF Passing
<1> QED BY <1>1, EffectMoves

\* The operands of live code are known.
LEMMA TracedLive ==
  ASSUME NEW code, NEW p, NEW T, NEW L, Traced(code, p, T, L), NEW i \in 0..p, Live(L[i])
  PROVE  T[i] \in Seq(Types)
BY TracedPlaces, TracedDead, LiveIsKnown DEF AtPlace

-----------------------------------------------------------------------------
(* Blocks.  What is below a block, and what the labels say of it and of    *)
(* the blocks around it, stays the same for as long as it is open.         *)

LabelOf(L, k) == L[k + 1][Len(L[k]) + 1]

Height(L, k) == LabelOf(L, k).stackHeight

\* The operands below the block that instruction k opens.
Base(T, L, k) == SubSeq(T[k + 1], 1, Height(L, k))

\* The block at its opener.
LEMMA BlockEntered ==
  ASSUME NEW code, NEW p, NEW T, NEW L, Traced(code, p, T, L),
         NEW k \in 0..(p - 1), code[k + 1].op \in Openers
  PROVE  LET i == code[k + 1] IN
         /\ Len(L[k + 1]) = Len(L[k]) + 1 /\ \A m \in 1..Len(L[k]) : L[k + 1][m] = L[k][m]
         /\ LabelOf(L, k).returnTypes = i.type.returns
         /\ LabelOf(L, k).paramTypes = i.type.params
         /\ LabelOf(L, k).type = i.op /\ ~LabelOf(L, k).unreachable
         /\ Height(L, k) \in Nat /\ Height(L, k) <= Len(T[k + 1])
         /\ i.type.params \in Seq(Types) /\ i.type.returns \in Seq(Types)
         /\ Base(T, L, k) \in Seq(OperandTypes) /\ Len(Base(T, L, k)) = Height(L, k)
         /\ T[k + 1] = Base(T, L, k) \o i.type.params
         /\ Live(L[k]) =>
              /\ T[k] = Base(T, L, k) \o Entry(i)
              /\ i.op # "if" => LabelOf(L, k).label.stackHeight = Height(L, k)
<1> DEFINE i == code[k + 1]
           s == T[k]
           l == L[k]
           u == AfterExpect(s, Last(l), Entry(i))
<1>1. /\ AtPlace(s, l) /\ l # <<>> /\ UnknownIsDead(s, l) /\ i \in InstructionType
      /\ Enters(i, s, l, T[k + 1], L[k + 1])
  <2>1. Passing(i, s, l, T[k + 1], L[k + 1])
    BY TracedMoves
  <2>2. EffectOnBlocks(i, s, l, T[k + 1], L[k + 1])
    BY <2>1 DEF Passing, Effect
  <2> QED BY <2>1, <2>2 DEF Passing, EffectOnBlocks
<1>2. /\ i.type.params \in Seq(Types) /\ i.type.returns \in Seq(Types) /\ Entry(i) \in Seq(Types)
      /\ Len(i.type.params) \in Nat /\ i.type.params \in Seq(OperandTypes)
  BY <1>1, TypedBy, TypesAreOperands
<1>3. /\ CanExpect(s, Last(l), Entry(i)) /\ T[k + 1] = u \o i.type.params
  BY <1>1 DEF Enters
<1>4. PICK label \in Labels :
        /\ L[k + 1] = Append(l, BlockLabel(i, Len(u), label))
        /\ i.op # "if" => label.stackHeight = (Len(s) - Len(i.type.params)) % U32
  BY <1>1 DEF Enters
<1>5. Len(l) \in Nat
  BY <1>1, TopLabel
<1>6. /\ Len(L[k + 1]) = Len(l) + 1 /\ \A m \in 1..Len(l) : L[k + 1][m] = l[m]
      /\ LabelOf(L, k) = BlockLabel(i, Len(u), label)
  BY <1>4, <1>5 DEF LabelOf
<1>7. /\ u \in Seq(OperandTypes) /\ Len(u) \in Last(l).stackHeight..Len(s)
      /\ Live(l) => u \in Seq(Types)
  BY <1>1, <1>2, <1>3, ExpectMoves
<1>8. Len(u) \in Nat /\ Len(s) \in Nat
  BY <1>1, <1>7, LenProperties, TopLabel
<1> HIDE DEF i, u
<1>9. Height(L, k) = Len(u)
  BY <1>6 DEF Height, BlockLabel
<1>10. /\ Len(T[k + 1]) = Len(u) + Len(i.type.params)
       /\ Base(T, L, k) = u
  <2>1. /\ T[k + 1] \in Seq(OperandTypes)
        /\ Len(T[k + 1]) = Len(u) + Len(i.type.params)
        /\ \A j \in 1..(Len(u) + Len(i.type.params)) :
             T[k + 1][j] = IF j <= Len(u) THEN u[j] ELSE i.type.params[j - Len(u)]
    BY <1>2, <1>3, <1>7, ConcatProperties
  <2>2. \A j \in 1..Len(u) : T[k + 1][j] = u[j] /\ T[k + 1][j] \in OperandTypes
    BY <1>2, <1>7, <1>8, <2>1, ElementOfSeq
  <2>3. /\ SubSeq(T[k + 1], 1, Len(u)) \in Seq(OperandTypes)
        /\ Len(SubSeq(T[k + 1], 1, Len(u))) = Len(u)
        /\ \A j \in 1..Len(u) : SubSeq(T[k + 1], 1, Len(u))[j] = T[k + 1][j]
    BY <1>8, <2>2, SubSeqProperties
  <2>4. SubSeq(T[k + 1], 1, Len(u)) = u
    BY <1>7, <2>2, <2>3, SeqEqual
  <2> QED BY <1>9, <2>1, <2>4 DEF Base
<1>11. ASSUME Live(l)
       PROVE  /\ s = u \o Entry(i)
              /\ i.op # "if" => LabelOf(L, k).label.stackHeight = Height(L, k)
  <2>1. /\ s \in Seq(Types) /\ Last(l) \in ValidatorLabels /\ ~Last(l).unreachable
        /\ Last(l).stackHeight <= Len(s) /\ s \in Seq(OperandTypes)
    BY <1>1, <1>11, TopLabel, LiveIsKnown
  <2>2. s = u \o Entry(i) /\ Len(u) = Len(s) - Len(Entry(i))
    <3> HIDE DEF s, l
    <3> QED BY <1>2, <1>3, <2>1, LiveExpect DEF u
  <2>3. CASE i.op # "if"
    <3>1. Len(u) = Len(s) - Len(i.type.params)
      BY <2>2, <2>3 DEF Entry
    <3>2. Len(u) < U32 /\ U32 \in Nat
      <4>1. k \in 0..p /\ Len(s) < U32
        BY TracedPlaces DEF Traced, History
      <4>2. U32 \in Nat
        BY ValidatorAssumption
      <4> HIDE DEF s
      <4> QED BY <1>2, <1>8, <3>1, <4>1, <4>2
    <3>3. Len(u) % U32 = Len(u)
      BY <1>8, <3>2
    <3>4. label.stackHeight = Len(u)
      BY <1>4, <2>3, <3>1, <3>3
    <3>5. LabelOf(L, k).label = label
      BY <1>6 DEF BlockLabel
    <3> QED BY <1>9, <2>2, <3>4, <3>5
  <2> QED BY <2>2, <2>3
<1>12. /\ LabelOf(L, k).returnTypes = i.type.returns /\ LabelOf(L, k).paramTypes = i.type.params
       /\ LabelOf(L, k).type = i.op /\ ~LabelOf(L, k).unreachable
  BY <1>6 DEF BlockLabel
<1>13. Height(L, k) <= Len(T[k + 1])
  BY <1>2, <1>8, <1>9, <1>10
<1> QED BY <1>2, <1>3, <1>6, <1>7, <1>8, <1>9, <1>10, <1>11, <1>12, <1>13 DEF i

Inside(T, L, k, q) ==
  LET n == Len(L[k]) IN
  /\ Len(L[q]) \in Nat /\ Len(L[q]) >= n + 1
  /\ \A m \in 1..n : L[q][m] = L[k][m]
  /\ SameBlock(L[q][n + 1], LabelOf(L, k))
  /\ Len(T[q]) >= Height(L, k)
  /\ \A j \in 1..Height(L, k) : T[q][j] = T[k + 1][j]

LEMMA InsideStep ==
  ASSUME NEW code, NEW p, NEW T, NEW L, Traced(code, p, T, L),
         NEW k \in 0..(p - 1), code[k + 1].op \in Openers,
         NEW q \in (k + 1)..(p - 1), Inside(T, L, k, q), Nesting(code, q + 1) > Nesting(code, k)
  PROVE  Inside(T, L, k, q + 1)
<1> DEFINE n == Len(L[k])
           h == Height(L, k)
           s == T[q]
           l == L[q]
           t == T[q + 1]
           m == L[q + 1]
<1>1. p \in Nat /\ k \in Nat /\ q \in Nat /\ q \in 0..(p - 1) /\ q + 1 \in 0..p /\ k \in 0..p
  BY TracedPlaces
<1>2. AtPlace(s, l) /\ l # <<>> /\ Moves(s, l, t, m)
  BY <1>1, TracedMoves DEF Passing
<1>3. n \in Nat /\ h \in Nat
  BY <1>1, TracedPlaces, BlockEntered
<1>4. Len(m) >= n + 1
  <2>1. /\ Len(m) = Nesting(code, q + 1) + 1 /\ n = Nesting(code, k) + 1
        /\ Nesting(code, q + 1) \in Int /\ Nesting(code, k) \in Int
    BY <1>1, TracedPlaces
  <2> QED BY <2>1
<1>5. /\ Len(l) \in Nat /\ Len(l) >= n + 1 /\ \A j \in 1..n : l[j] = L[k][j]
      /\ SameBlock(l[n + 1], LabelOf(L, k)) /\ l[n + 1].stackHeight = h
      /\ Len(s) >= h /\ \A j \in 1..h : s[j] = T[k + 1][j]
  BY DEF Inside, SameBlock, Height
<1>6. n + 1 \in 1..Len(l) /\ h <= Last(l).stackHeight /\ Last(l).stackHeight \in Nat
  <2>1. n + 1 \in 1..Len(l)
    BY <1>3, <1>5
  <2> QED BY <1>2, <1>5, <2>1, TopLabel
<1> HIDE DEF n, h, s, l, t, m
<1>7. /\ Len(t) >= Last(l).stackHeight /\ \A j \in 1..Last(l).stackHeight : t[j] = s[j]
      /\ Len(m) \in Nat /\ \A j \in 1..(Len(l) - 1) : m[j] = l[j]
      /\ Len(m) >= Len(l) => SameBlock(m[Len(l)], l[Len(l)])
  BY <1>2 DEF Moves
<1>8. \A j \in 1..n : m[j] = L[k][j]
  BY <1>3, <1>5, <1>7
<1>9. SameBlock(m[n + 1], LabelOf(L, k))
  <2>1. CASE Len(l) = n + 1
    BY <1>4, <1>5, <1>7, <2>1 DEF SameBlock
  <2>2. CASE Len(l) # n + 1
    <3>1. n + 1 \in 1..(Len(l) - 1)
      BY <1>3, <1>5, <2>2
    <3> QED BY <1>5, <1>7, <3>1
  <2> QED BY <2>1, <2>2
<1>10. Len(t) \in Nat
  BY <1>1, TracedPlaces, LenProperties DEF t, AtPlace
<1>11. Len(t) >= h
  BY <1>3, <1>6, <1>7, <1>10
<1>12. ASSUME NEW j \in 1..h
       PROVE  t[j] = T[k + 1][j]
  <2>1. j \in 1..Last(l).stackHeight
    BY <1>3, <1>6
  <2> QED BY <1>5, <1>7, <2>1
<1> QED BY <1>4, <1>7, <1>8, <1>9, <1>11, <1>12 DEF Inside, n, h, t, m

LEMMA InsideBlock ==
  ASSUME NEW code, NEW p, NEW T, NEW L, Traced(code, p, T, L),
         NEW k, NEW q \in 0..p, OpenAt(code, k, q)
  PROVE  /\ k \in 0..(p - 1) /\ k \in Nat /\ code[k + 1].op \in Openers /\ q \in (k + 1)..p
         /\ Inside(T, L, k, q)
<1> DEFINE S == {d \in Nat : (k + 1) + d <= q => Inside(T, L, k, (k + 1) + d)}
<1>1. /\ p \in Nat /\ k \in 0..(p - 1) /\ k \in Nat /\ q \in (k + 1)..p
      /\ code[k + 1].op \in Openers
      /\ \A r \in (k + 1)..q : Nesting(code, r) > Nesting(code, k)
  BY TracedPlaces DEF OpenAt
<1>2. 0 \in S
  <2>1. /\ Len(L[k + 1]) = Len(L[k]) + 1 /\ \A m \in 1..Len(L[k]) : L[k + 1][m] = L[k][m]
        /\ Height(L, k) <= Len(T[k + 1]) /\ Height(L, k) \in Nat
    BY <1>1, BlockEntered
  <2>2. k \in 0..p /\ k + 1 \in 0..p /\ Len(L[k]) \in Nat /\ AtPlace(T[k + 1], L[k + 1])
    BY <1>1, TracedPlaces
  <2>3. Len(T[k + 1]) \in Nat
    BY <2>2, LenProperties DEF AtPlace
  <2>4. SameBlock(L[k + 1][Len(L[k]) + 1], LabelOf(L, k))
    BY DEF SameBlock, LabelOf
  <2>5. Inside(T, L, k, k + 1)
    BY <2>1, <2>2, <2>3, <2>4 DEF Inside
  <2> QED BY <1>1, <2>5
<1>3. ASSUME NEW d \in Nat, d \in S
      PROVE  d + 1 \in S
  <2> SUFFICES ASSUME (k + 1) + (d + 1) <= q
               PROVE  Inside(T, L, k, (k + 1) + (d + 1))
    OBVIOUS
  <2> DEFINE r == (k + 1) + d
  <2>1. /\ r \in (k + 1)..(p - 1) /\ Inside(T, L, k, r) /\ r + 1 = (k + 1) + (d + 1)
        /\ r + 1 \in (k + 1)..q
    BY <1>1, <1>3
  <2> HIDE DEF r
  <2>2. Inside(T, L, k, r + 1)
    BY <1>1, <2>1, InsideStep
  <2> QED BY <2>1, <2>2
<1> HIDE DEF S
<1>4. Nat \subseteq S
  BY <1>2, <1>3, SetInduction
<1>5. q - (k + 1) \in S /\ (k + 1) + (q - (k + 1)) = q
  BY <1>1, <1>4
<1>6. Inside(T, L, k, (k + 1) + (q - (k + 1)))
  BY <1>1, <1>5 DEF S
<1> QED BY <1>1, <1>5, <1>6

\* The lowest label is always that of the function.
LEMMA EntryKept ==
  ASSUME NEW code, NEW p, NEW T, NEW L, Traced(code, p, T, L), NEW q \in 0..p, L[q] # <<>>
  PROVE  SameBlock(L[q][1], EntryLabel(Len(code)))
<1> DEFINE e == EntryLabel(Len(code))
           S == {i \in Nat : i <= p /\ L[i] # <<>> => SameBlock(L[i][1], e)}
<1>1. p \in Nat
  BY TracedPlaces
<1>2. 0 \in S
  <2>1. L[0][1] = e
    BY DEF Traced, History
  <2>2. SameBlock(L[0][1], e)
    BY <2>1 DEF SameBlock
  <2> QED BY <2>2
<1>3. ASSUME NEW i \in Nat, i \in S
      PROVE  i + 1 \in S
  <2> SUFFICES ASSUME i + 1 <= p, L[i + 1] # <<>>
               PROVE  SameBlock(L[i + 1][1], e)
    OBVIOUS
  <2> DEFINE l == L[i]
             m == L[i + 1]
  <2>1. i \in 0..(p - 1) /\ i + 1 \in 0..p /\ i <= p
    BY <1>1
  <2>2. l # <<>> /\ Len(l) \in Nat \ {0} /\ Moves(T[i], l, T[i + 1], m) /\ m \in Seq(ValidatorLabels)
    BY <2>1, TracedPlaces, TracedMoves DEF AtPlace
  <2>3. SameBlock(l[1], e)
    BY <1>3, <2>1, <2>2
  <2>4. Len(m) \in Nat /\ Len(m) >= 1
    BY <2>2, EmptySeq
  <2> HIDE DEF l, m, e
  <2>5. CASE Len(l) = 1
    <3>1. SameBlock(m[1], l[1])
      BY <2>2, <2>4, <2>5 DEF Moves
    <3> QED BY <2>3, <3>1 DEF SameBlock, m
  <2>6. CASE Len(l) # 1
    <3> DEFINE n == Len(l)
    <3>1. 1 \in 1..(n - 1)
      <4>1. n \in Nat /\ n # 0 /\ n # 1
        BY <2>2, <2>6
      <4> HIDE DEF n
      <4> QED BY <4>1
    <3>2. m[1] = l[1]
      BY <2>2, <3>1 DEF Moves
    <3> QED BY <2>3, <3>2 DEF m
  <2> QED BY <2>5, <2>6
<1> HIDE DEF S, e
<1>4. Nat \subseteq S
  BY <1>2, <1>3, SetInduction
<1>5. q \in S /\ q <= p
  BY <1>1, <1>4
<1> QED BY <1>5 DEF S, e

LEMMA BaseKept ==
  ASSUME NEW code, NEW p, NEW T, NEW L, Traced(code, p, T, L),
         NEW k, NEW q \in 0..p, OpenAt(code, k, q)
  PROVE  /\ SubSeq(T[q], 1, Height(L, k)) = Base(T, L, k)
         /\ Height(L, k) \in Nat /\ Height(L, k) <= Len(T[q]) /\ Len(T[q]) \in Nat
         /\ Live(L[q]) => Live(L[k])
<1> DEFINE h == Height(L, k)
<1>1. /\ k \in 0..(p - 1) /\ code[k + 1].op \in Openers /\ Inside(T, L, k, q)
  BY InsideBlock
<1>2. /\ h \in Nat /\ Base(T, L, k) \in Seq(OperandTypes) /\ Len(Base(T, L, k)) = h
      /\ h <= Len(T[k + 1])
  BY <1>1, BlockEntered
<1>3. /\ T[q] \in Seq(OperandTypes) /\ T[k + 1] \in Seq(OperandTypes)
      /\ Len(T[q]) \in Nat /\ Len(T[k + 1]) \in Nat
      /\ Len(L[k]) \in Nat
  <2>1. k + 1 \in 0..p /\ Len(L[k]) \in Nat
    BY <1>1, TracedPlaces
  <2> QED BY <2>1, TracedPlaces, LenProperties DEF AtPlace
<1>4. /\ Len(T[q]) >= h /\ \A j \in 1..h : T[q][j] = T[k + 1][j]
      /\ Len(L[q]) \in Nat /\ Len(L[q]) >= Len(L[k]) + 1
      /\ \A m \in 1..Len(L[k]) : L[q][m] = L[k][m]
  BY <1>1 DEF Inside
<1>5. Base(T, L, k) = SubSeq(T[k + 1], 1, h)
  BY DEF Base
<1> HIDE DEF h
<1>6. SubSeq(T[q], 1, h) = Base(T, L, k)
  <2>1. \A j \in 1..h : T[q][j] \in OperandTypes /\ T[k + 1][j] \in OperandTypes
    BY <1>2, <1>3, <1>4, ElementOfSeq
  <2>2. /\ SubSeq(T[q], 1, h) \in Seq(OperandTypes) /\ Len(SubSeq(T[q], 1, h)) = h
        /\ \A j \in 1..h : SubSeq(T[q], 1, h)[j] = T[q][j]
    BY <1>2, <2>1, SubSeqProperties
  <2>3. \A j \in 1..h : Base(T, L, k)[j] = T[k + 1][j]
    BY <1>2, <1>5, <2>1, SubSeqProperties
  <2>4. \A j \in 1..h : SubSeq(T[q], 1, h)[j] = Base(T, L, k)[j]
    BY <1>4, <2>2, <2>3
  <2> QED BY <1>2, <2>2, <2>4, SeqEqual
<1>7. Live(L[q]) => Live(L[k])
  BY <1>3, <1>4 DEF Live
<1> QED BY <1>2, <1>3, <1>4, <1>6, <1>7 DEF h

\* The label on top is that of the innermost block.
LEMMA InnermostTop ==
  ASSUME NEW code, NEW p, NEW T, NEW L, Traced(code, p, T, L),
         NEW k, NEW q \in 0..p, InnermostAt(code, k, q)
  PROVE  /\ AtPlace(T[q], L[q]) /\ L[q] # <<>>
         /\ Len(L[q]) = Len(L[k]) + 1 /\ Len(L[k]) \in Nat
         /\ \A m \in 1..Len(L[k]) : L[q][m] = L[k][m]
         /\ Last(L[q]).stackHeight = Height(L, k)
         /\ Last(L[q]).returnTypes = code[k + 1].type.returns
         /\ Last(L[q]).paramTypes = code[k + 1].type.params
<1>1. OpenAt(code, k, q) /\ Nesting(code, q) = Nesting(code, k) + 1
  BY DEF InnermostAt
<1>2. k \in 0..(p - 1) /\ code[k + 1].op \in Openers /\ Inside(T, L, k, q)
  BY <1>1, InsideBlock
<1>3. /\ AtPlace(T[q], L[q]) /\ Len(L[q]) = Nesting(code, q) + 1
      /\ Len(L[k]) = Nesting(code, k) + 1 /\ Len(L[k]) \in Nat /\ Nesting(code, k) \in Nat
  BY <1>2, TracedPlaces
<1>4. Len(L[q]) = Len(L[k]) + 1
  BY <1>1, <1>3
<1>5. L[q] # <<>>
  BY <1>3, <1>4
<1>6. Last(L[q]) = L[q][Len(L[k]) + 1]
  BY <1>3, <1>4, <1>5, TopLabel
<1>7. SameBlock(Last(L[q]), LabelOf(L, k)) /\ \A m \in 1..Len(L[k]) : L[q][m] = L[k][m]
  BY <1>2, <1>6 DEF Inside
<1>8. /\ LabelOf(L, k).returnTypes = code[k + 1].type.returns
      /\ LabelOf(L, k).paramTypes = code[k + 1].type.params
  BY <1>2, BlockEntered
<1> QED BY <1>3, <1>4, <1>5, <1>7, <1>8 DEF SameBlock, Height

\* In live code, exactly the results are on the stack of a block that leaves.
LEMMA LiveResults ==
  ASSUME NEW s, NEW l, AtPlace(s, l), l # <<>>, UnknownIsDead(s, l), Live(l), LeavesOn(s, l)
  PROVE  s = SubSeq(s, 1, Last(l).stackHeight) \o Last(l).returnTypes
<1>1. /\ s \in Seq(Types) /\ Last(l) \in ValidatorLabels /\ Last(l).returnTypes \in Seq(Types)
      /\ Last(l).stackHeight <= Len(s) /\ ~Last(l).unreachable
  BY TopLabel, LiveIsKnown
<1>2. CanExpect(s, Last(l), Last(l).returnTypes)
  BY DEF LeavesOn
<1>3. s = AfterExpect(s, Last(l), Last(l).returnTypes) \o Last(l).returnTypes
  BY <1>1, <1>2, LiveExpect
<1> QED BY <1>3, OnlyResults

\* Where a block is left by its end.
LEMMA EndPlace ==
  ASSUME NEW code, NEW p, NEW T, NEW L, Traced(code, p, T, L),
         NEW k, NEW q \in 0..(p - 1), EndsAt(code, k, q)
  PROVE  /\ T[q + 1] = Base(T, L, k) \o code[k + 1].type.returns
         /\ Live(L[q]) => T[q] = T[q + 1]
         /\ Live(L[k]) => Live(L[q + 1])
<1>1. InnermostAt(code, k, q) /\ OpenAt(code, k, q) /\ code[q + 1].op = "end"
  BY TracedPlaces, EndClosesInnermost DEF EndsAt
<1>2. q \in 0..p
  BY TracedPlaces
<1>3. Passing(code[q + 1], T[q], L[q], T[q + 1], L[q + 1])
  BY TracedMoves
<1>4. /\ AtPlace(T[q], L[q]) /\ L[q] # <<>> /\ UnknownIsDead(T[q], L[q])
      /\ LeavesOn(T[q], L[q]) /\ L[q + 1] = Front(L[q])
      /\ T[q + 1] = AfterExpect(T[q], Last(L[q]), Last(L[q]).returnTypes) \o Last(L[q]).returnTypes
  BY <1>1, <1>3 DEF Passing, Effect, EffectOnBlocks
<1>5. /\ Len(L[q]) = Len(L[k]) + 1 /\ \A m \in 1..Len(L[k]) : L[q][m] = L[k][m]
      /\ Last(L[q]).stackHeight = Height(L, k) /\ Len(L[k]) \in Nat
      /\ Last(L[q]).returnTypes = code[k + 1].type.returns
  BY <1>1, <1>2, InnermostTop
<1>6. AfterExpect(T[q], Last(L[q]), Last(L[q]).returnTypes) = Base(T, L, k)
  <2>1. AfterExpect(T[q], Last(L[q]), Last(L[q]).returnTypes)
          = SubSeq(T[q], 1, Last(L[q]).stackHeight)
    BY <1>4, OnlyResults
  <2>2. SubSeq(T[q], 1, Height(L, k)) = Base(T, L, k)
    BY <1>1, <1>2, BaseKept
  <2> QED BY <1>5, <2>1, <2>2
<1>7. Live(L[q]) => T[q] = Base(T, L, k) \o code[k + 1].type.returns
  <2>1. SubSeq(T[q], 1, Last(L[q]).stackHeight) = Base(T, L, k)
    BY <1>1, <1>2, <1>5, BaseKept
  <2>2. Live(L[q]) =>
          T[q] = SubSeq(T[q], 1, Last(L[q]).stackHeight) \o Last(L[q]).returnTypes
    BY <1>4, LiveResults
  <2> QED BY <1>5, <2>1, <2>2
<1>8. Live(L[k]) => Live(L[q + 1])
  <2>1. L[q] \in Seq(ValidatorLabels)
    BY <1>4 DEF AtPlace
  <2>2. /\ Len(Front(L[q])) = Len(L[q]) - 1
        /\ \A m \in 1..(Len(L[q]) - 1) : Front(L[q])[m] = L[q][m]
    BY <1>4, <2>1, FrontAndLast
  <2>3. Len(L[q + 1]) = Len(L[k]) /\ \A m \in 1..Len(L[k]) : L[q + 1][m] = L[k][m]
    BY <1>4, <1>5, <2>2
  <2> QED BY <2>3 DEF Live
<1> QED BY <1>4, <1>5, <1>6, <1>7, <1>8

\* Where the else of an if begins.
LEMMA ElsePlace ==
  ASSUME NEW code, NEW p, NEW T, NEW L, Traced(code, p, T, L),
         NEW k, NEW e \in 0..(p - 1), ElseIn(code, k, e)
  PROVE  /\ T[e + 1] = Base(T, L, k) \o code[k + 1].type.params
         /\ Live(L[e]) => T[e] = Base(T, L, k) \o code[k + 1].type.returns /\ Live(L[k])
         /\ Live(L[k]) => Live(L[e + 1])
<1>1. InnermostAt(code, k, e) /\ OpenAt(code, k, e) /\ code[e + 1].op = "else"
  BY DEF ElseIn, InnermostAt
<1>2. e \in 0..p
  BY TracedPlaces
<1>3. Passing(code[e + 1], T[e], L[e], T[e + 1], L[e + 1])
  BY TracedMoves
<1>4. /\ AtPlace(T[e], L[e]) /\ L[e] # <<>> /\ UnknownIsDead(T[e], L[e])
      /\ LeavesOn(T[e], L[e])
      /\ L[e + 1] = [L[e] EXCEPT ![Len(L[e])].type = "ifAfterElse",
                                 ![Len(L[e])].unreachable = FALSE]
      /\ T[e + 1] = AfterExpect(T[e], Last(L[e]), Last(L[e]).returnTypes) \o Last(L[e]).paramTypes
  BY <1>1, <1>3 DEF Passing, Effect, EffectOnBlocks
<1>5. /\ Len(L[e]) = Len(L[k]) + 1 /\ \A m \in 1..Len(L[k]) : L[e][m] = L[k][m]
      /\ Last(L[e]).stackHeight = Height(L, k) /\ Len(L[k]) \in Nat
      /\ Last(L[e]).returnTypes = code[k + 1].type.returns
      /\ Last(L[e]).paramTypes = code[k + 1].type.params
  BY <1>1, <1>2, InnermostTop
<1>6. AfterExpect(T[e], Last(L[e]), Last(L[e]).returnTypes) = Base(T, L, k)
  <2>1. AfterExpect(T[e], Last(L[e]), Last(L[e]).returnTypes)
          = SubSeq(T[e], 1, Last(L[e]).stackHeight)
    BY <1>4, OnlyResults
  <2>2. SubSeq(T[e], 1, Height(L, k)) = Base(T, L, k)
    BY <1>1, <1>2, BaseKept
  <2> QED BY <1>5, <2>1, <2>2
<1>7. Live(L[e]) => T[e] = Base(T, L, k) \o code[k + 1].type.returns /\ Live(L[k])
  <2>1. SubSeq(T[e], 1, Last(L[e]).stackHeight) = Base(T, L, k) /\ (Live(L[e]) => Live(L[k]))
    BY <1>1, <1>2, <1>5, BaseKept
  <2>2. Live(L[e]) =>
          T[e] = SubSeq(T[e], 1, Last(L[e]).stackHeight) \o Last(L[e]).returnTypes
    BY <1>4, LiveResults
  <2> QED BY <1>5, <2>1, <2>2
<1>8. Live(L[k]) => Live(L[e + 1])
  <2> DEFINE n == Len(L[e])
             l == L[e]
  <2>1. l \in [1..n -> ValidatorLabels] /\ n \in 1..n /\ n \in Nat
    BY <1>4, <1>5, LenProperties DEF AtPlace
  <2>2. /\ L[e + 1] \in [1..n -> {L[e + 1][m] : m \in 1..n}]
        /\ \A m \in 1..(n - 1) : L[e + 1][m] = l[m]
        /\ L[e + 1][n] = [l[n] EXCEPT !.type = "ifAfterElse", !.unreachable = FALSE]
    <3>1. L[e + 1] = [l EXCEPT ![n].type = "ifAfterElse", ![n].unreachable = FALSE]
      BY <1>4
    <3>2. DOMAIN l = 1..n
      BY <2>1
    <3> HIDE DEF n, l
    <3>3. /\ L[e + 1] \in [1..n -> {L[e + 1][m] : m \in 1..n}]
          /\ \A m \in 1..(n - 1) : L[e + 1][m] = l[m]
      BY <2>1, <3>1, <3>2
    <3>4. L[e + 1][n] = [l[n] EXCEPT !.type = "ifAfterElse", !.unreachable = FALSE]
      BY <2>1, <3>1, <3>2
    <3> QED BY <3>3, <3>4
  <2>3. ~L[e + 1][n].unreachable
    <3>1. l[n] \in ValidatorLabels
      BY <2>1
    <3> QED BY <2>2, <3>1 DEF ValidatorLabels
  <2> HIDE DEF n
  <2>4. Len(L[e + 1]) = n
    BY <2>1, <2>2, FunctionIsSeq
  <2>5. ASSUME Live(L[k]), NEW m \in 1..n
        PROVE  ~L[e + 1][m].unreachable
    <3>1. CASE m = n
      BY <2>3, <3>1
    <3>2. CASE m # n
      <4>1. m \in 1..(n - 1) /\ m \in 1..Len(L[k])
        BY <1>5, <2>1, <3>2 DEF n
      <4> QED BY <1>5, <2>2, <2>5, <4>1 DEF Live
    <3> QED BY <3>1, <3>2
  <2> QED BY <2>4, <2>5 DEF Live
<1> QED BY <1>4, <1>5, <1>6, <1>7, <1>8

-----------------------------------------------------------------------------
(* The validator has a history.                                            *)

\* The heights of the validator's stack that its labels can hold.
HeightsFit == Len(types) < U32

\* The history up to the place where the validator is.
HistoryHere(T, L) ==
  /\ History(instructions, position, T, L)
  /\ T[position] = types /\ L[position] = labels

HasHistory == \E T, L : HistoryHere(T, L)

LEMMA HistoryStarts ==
  ASSUME StartValidation, IInv, IInv', HeightsFit'
  PROVE  HasHistory'
<1>1. /\ position' = 0 /\ types' = <<>> /\ labels' = <<EntryLabel(Len(instructions'))>>
      /\ phase' = "validate"
  BY DEF StartValidation, IInv, ValidatorInv
<1>2. AtPlace(types', labels') /\ Len(labels') = Nesting(instructions', position') + 1
  BY <1>1 DEF IInv, ValidatorInv, AtPlace
<1> DEFINE T == [i \in {0} |-> types']
           L == [i \in {0} |-> labels']
<1>3. T[0] = types' /\ L[0] = labels'
  OBVIOUS
<1> HIDE DEF T, L
<1>4. History(instructions', position', T, L)
  <2>1. 0..0 = {0} /\ 0..(0 - 1) = {}
    OBVIOUS
  <2> QED BY <1>1, <1>2, <1>3, <2>1 DEF History, HeightsFit
<1>5. PICK X, Y : X = T /\ Y = L
  OBVIOUS
<1>6. History(instructions', position', X, Y) /\ X[position'] = types' /\ Y[position'] = labels'
  BY <1>1, <1>3, <1>4, <1>5
<1> QED BY <1>6 DEF HasHistory, HistoryHere

\* Writing a label, or labels, leaves the other instructions alone.
LEMMA WritesOne ==
  ASSUME Validating, ValidateInstruction, ~Reject,
         ~EndOutsideLabels(At(instructions, position))
  PROVE  /\ Len(instructions') = Len(instructions) /\ position' = position + 1
         /\ phase' = "validate"
         /\ \A j \in 1..position : instructions'[j] = instructions[j]
<1>1. /\ instructions \in Seq(InstructionType) /\ position + 1 \in 1..Len(instructions)
      /\ Len(instructions) \in Nat /\ DOMAIN instructions = 1..Len(instructions)
      /\ position \in Nat /\ phase = "validate"
  BY HasInnermost, LenProperties DEF Validating, IInv, CodeInv
<1>2. /\ position' = position + 1 /\ phase' = phase
      /\ \/ instructions' = instructions
         \/ \E x : instructions' = [instructions EXCEPT ![position + 1].label = x]
         \/ \E x : instructions' = [instructions EXCEPT ![position + 1].targets = x]
  BY DEF ValidateInstruction, ValidateSimple, ValidateDrop, ValidateSelect, ValidateSelectTyped,
         ValidateUnreachable, ValidateBlockOrLoop, ValidateIf, ValidateElse, ValidateEnd,
         ValidateBr, ValidateBrIf, ValidateBrTable, ValidateReturn, ValidateReturnCall,
         ExpectOf, CheckLeaving, Check, Lowered
<1>3. \A j \in 1..position : j \in DOMAIN instructions /\ j # position + 1
  BY <1>1
<1>4. \A j \in 1..position : instructions'[j] = instructions[j]
  BY <1>2, <1>3
<1>5. Len(instructions') = Len(instructions)
  <2>1. DOMAIN instructions' = 1..Len(instructions)
    <3>1. CASE instructions' = instructions
      BY <1>1, <3>1
    <3>2. ASSUME NEW x, instructions' = [instructions EXCEPT ![position + 1].label = x]
          PROVE  DOMAIN instructions' = 1..Len(instructions)
      BY <1>1, <3>2
    <3>3. ASSUME NEW x, instructions' = [instructions EXCEPT ![position + 1].targets = x]
          PROVE  DOMAIN instructions' = 1..Len(instructions)
      BY <1>1, <3>3
    <3> QED BY <1>2, <3>1, <3>2, <3>3
  <2>2. instructions' = [j \in DOMAIN instructions' |-> instructions'[j]]
    <3>1. CASE instructions' = instructions
      BY <1>1, <3>1
    <3>2. ASSUME NEW x, instructions' = [instructions EXCEPT ![position + 1].label = x]
          PROVE  instructions' = [j \in DOMAIN instructions' |-> instructions'[j]]
      BY <3>2
    <3>3. ASSUME NEW x, instructions' = [instructions EXCEPT ![position + 1].targets = x]
          PROVE  instructions' = [j \in DOMAIN instructions' |-> instructions'[j]]
      BY <3>3
    <3> QED BY <1>2, <3>1, <3>2, <3>3
  <2>3. instructions' \in [1..Len(instructions) -> {instructions'[j] : j \in 1..Len(instructions)}]
    BY <2>1, <2>2
  <2> QED BY <1>1, <2>3, FunctionIsSeq
<1> QED BY <1>1, <1>2, <1>4, <1>5

LEMMA HistoryGoesOn ==
  ASSUME Validating, ValidateInstruction, ~Reject, IInv', HeightsFit',
         ~EndOutsideLabels(At(instructions, position)), ~Strays(Passed),
         HasHistory
  PROVE  HasHistory'
<1> DEFINE p == position
           code == instructions
           other == instructions'
<1>1. /\ Len(other) = Len(code) /\ position' = p + 1 /\ phase' = "validate"
      /\ \A j \in 1..p : other[j] = code[j]
      /\ p \in Nat
  BY WritesOne DEF Validating
<1>2. AtPlace(types', labels') /\ Len(labels') = Nesting(other, p + 1) + 1 /\ Len(types') < U32
  BY <1>1 DEF IInv, ValidatorInv, AtPlace, HeightsFit
<1>3. Effect(other[p + 1], types, labels, types', labels')
  BY ValidatorEffects DEF StepEffect, Passed, At
<1>4. PICK T, L : HistoryHere(T, L)
  BY DEF HasHistory
<1>5. History(code, p, T, L) /\ T[p] = types /\ L[p] = labels
  BY <1>4 DEF HistoryHere
<1> DEFINE T2 == [i \in 0..(p + 1) |-> IF i = p + 1 THEN types' ELSE T[i]]
           L2 == [i \in 0..(p + 1) |-> IF i = p + 1 THEN labels' ELSE L[i]]
<1>6. /\ T2[p + 1] = types' /\ L2[p + 1] = labels'
      /\ \A i \in 0..p : T2[i] = T[i] /\ L2[i] = L[i]
  BY <1>1
<1> HIDE DEF T2, L2, p, code, other
<1>7. ASSUME NEW i \in 0..(p + 1)
      PROVE  /\ AtPlace(T2[i], L2[i]) /\ Len(L2[i]) = Nesting(other, i) + 1
             /\ Len(T2[i]) < U32
  <2>1. CASE i = p + 1
    BY <1>2, <1>6, <2>1
  <2>2. CASE i # p + 1
    <3>1. i \in 0..p /\ i \in Nat /\ \A j \in 1..i : other[j] = code[j]
      BY <1>1, <2>2
    <3>2. Nesting(other, i) = Nesting(code, i)
      BY <3>1, NestingSame
    <3> QED BY <1>5, <1>6, <3>1, <3>2 DEF History
  <2> QED BY <2>1, <2>2
<1>8. ASSUME NEW i \in 0..((p + 1) - 1)
      PROVE  Effect(other[i + 1], T2[i], L2[i], T2[i + 1], L2[i + 1])
  <2>1. CASE i = p
    <3>1. p \in 0..p
      BY <1>1
    <3> QED BY <1>3, <1>5, <1>6, <2>1, <3>1
  <2>2. CASE i # p
    <3>1. i \in 0..(p - 1) /\ i \in 0..p /\ i + 1 \in 0..p /\ i + 1 \in 1..p
      BY <1>1, <2>2
    <3>2. Effect(code[i + 1], T[i], L[i], T[i + 1], L[i + 1])
      BY <1>5, <3>1 DEF History
    <3> QED BY <1>1, <1>6, <3>1, <3>2
  <2> QED BY <2>1, <2>2
<1>9. T2[0] = <<>> /\ L2[0] = <<EntryLabel(Len(other))>>
  BY <1>1, <1>5, <1>6 DEF History
<1>10. History(other, p + 1, T2, L2)
  BY <1>7, <1>8, <1>9 DEF History
<1>11. PICK X, Y : X = T2 /\ Y = L2
  OBVIOUS
<1>12. History(instructions', position', X, Y) /\ X[position'] = types' /\ Y[position'] = labels'
  BY <1>1, <1>6, <1>10, <1>11 DEF other
<1> QED BY <1>12 DEF HasHistory, HistoryHere

\* Among the first p instructions is a branch with the index that wraps: what
\* the validator has done since has no meaning.
StraySeen(code, p) == \E j \in 1..p : Strays(code[j])

LEMMA StraysStay ==
  ASSUME Validating, ValidateInstruction, ~Reject,
         ~EndOutsideLabels(At(instructions, position)),
         StraySeen(instructions, position) \/ Strays(Passed)
  PROVE  StraySeen(instructions', position')
<1>1. /\ position \in Nat /\ position' = position + 1
      /\ \A j \in 1..position : instructions'[j] = instructions[j]
  BY WritesOne, HasInnermost DEF Validating
<1>2. \A j \in 1..position : j \in 1..(position + 1)
  BY <1>1
<1>3. position + 1 \in 1..(position + 1)
  BY <1>1
<1> QED BY <1>1, <1>2, <1>3 DEF StraySeen, Passed, At

-----------------------------------------------------------------------------
(* The frame follows the validator.                                        *)

GlobalTypes == [g \in DOMAIN Globals |-> Globals[g].type]

\* Making an instance of a module fails on any other table (Type.cpp:42).
TablesHoldReferences == \A t \in DOMAIN Tables : Tables[t].type = "funcref"

\* Control is at a place that the validator took to be within reach, with the
\* operands that the validator had there.
IsAt(T, L, place, operands) ==
  place \in 0..Len(instructions) /\ operands = T[place] /\ Live(L[place])

Follows(T, L) ==
  /\ Traced(instructions, Len(instructions), T, L)
  /\ T[Len(instructions)] = FunctionType.returns
  /\ IsAt(T, L, ip, stack)
  /\ locals = FunctionLocals /\ globals = GlobalTypes

\* Nothing in the code is among what the validator does not check.
Sound == Running /\ ~UncheckedByValidator /\ TablesHoldReferences

\* What is left to show of a step of the interpreter.
Fine(T, L) ==
  /\ phase' \notin Faults
  /\ phase' = "returned" => stack' = FunctionType.returns
  /\ phase' = "run" => /\ IsAt(T, L, ip', stack')
                       /\ locals' = FunctionLocals /\ globals' = GlobalTypes

LEMMA ContinueFine ==
  ASSUME Sound, NEW T, NEW L, Follows(T, L), NEW to, NEW operands,
         Continue(to, operands), IsAt(T, L, to, operands)
  PROVE  Fine(T, L)
BY DEF Sound, Running, Follows, Continue, parserVars, Fine, IsAt, Faults

LEMMA StopFine ==
  ASSUME NEW T, NEW L, Stop("trapped")
  PROVE  Fine(T, L)
BY DEF Stop, Fine, Faults

LEMMA LeaveFine ==
  ASSUME NEW T, NEW L, Leave(FunctionType.returns)
  PROVE  Fine(T, L)
BY DEF Leave, Fine, Faults

\* The instruction that runs, at its place.
LEMMA RunsHere ==
  ASSUME Sound, NEW T, NEW L, Follows(T, L), RunInstruction, NEW i, i = At(instructions, ip)
  PROVE  /\ ip \in Indices /\ ip \in 0..(Len(instructions) - 1) /\ ip \in Nat
         /\ i \in InstructionType /\ i = instructions[ip + 1]
         /\ i.op \in CheckedOps => IndicesValid(i)
         /\ Passing(i, stack, L[ip], T[ip + 1], L[ip + 1])
         /\ stack \in Seq(Types) /\ Live(L[ip])
<1>1. ip < Len(instructions) /\ Live(L[ip]) /\ stack = T[ip]
  BY DEF RunInstruction, Follows, IsAt
<1>2. i \in InstructionType /\ (i.op \in CheckedOps => IndicesValid(i)) /\ ip \in Nat
  BY RunningInstruction DEF Sound, Running
<1>3. /\ ip \in Indices /\ ip \in 0..(Len(instructions) - 1) /\ ip \in 0..Len(instructions)
      /\ i = instructions[ip + 1]
  BY <1>1, <1>2, RunningCode DEF Sound, At
<1>4. Traced(instructions, Len(instructions), T, L)
  BY DEF Follows
<1>5. Passing(i, T[ip], L[ip], T[ip + 1], L[ip + 1])
  BY <1>3, <1>4, TracedMoves
<1>6. stack \in Seq(Types)
  BY <1>1, <1>3, <1>4, TracedLive
<1> QED BY <1>1, <1>2, <1>3, <1>5, <1>6

\* The innermost label there.
LEMMA LabelHere ==
  ASSUME NEW s \in Seq(Types), NEW i, NEW l, NEW t, NEW m, Passing(i, s, l, t, m), Live(l)
  PROVE  /\ Last(l) \in ValidatorLabels /\ ~Last(l).unreachable
         /\ Last(l).stackHeight \in Nat /\ Last(l).stackHeight <= Len(s) /\ Len(s) \in Nat
         /\ Last(l).returnTypes \in Seq(Types)
         /\ AtPlace(s, l) /\ l # <<>> /\ UnknownIsDead(s, l)
         /\ Effect(i, s, l, t, m)
<1>1. /\ AtPlace(s, l) /\ l # <<>> /\ UnknownIsDead(s, l)
      /\ Effect(i, s, l, t, m)
  BY DEF Passing
<1>2. /\ Len(s) \in Nat /\ Last(l) \in ValidatorLabels
      /\ Last(l).stackHeight \in 0..Len(s)
      /\ Last(l).returnTypes \in Seq(Types)
      /\ ~Last(l).unreachable
  BY <1>1, TopLabel
<1> QED BY <1>1, <1>2

\* Popping what the validator expects, some of it whatever its type.
LEMMA PopsExpected ==
  ASSUME stack \in Seq(Types), NEW label \in ValidatorLabels, NEW expected \in Seq(Types),
         label.stackHeight <= Len(stack), ~label.unreachable,
         CanExpect(stack, label, expected),
         NEW params, Len(params) = Len(expected),
         \A k \in 1..Len(expected) : params[k] \in {AnyType, expected[k]}
  PROVE  /\ PopFault(params) = "none"
         /\ Below(Len(params)) = AfterExpect(stack, label, expected)
         /\ stack = Below(Len(params)) \o expected
         /\ Below(Len(params)) \in Seq(Types)
         /\ Len(params) \in Nat /\ Len(params) <= Len(stack)
<1> DEFINE n == Len(expected)
           u == AfterExpect(stack, label, expected)
<1>1. n \in Nat /\ Len(stack) \in Nat /\ label.stackHeight \in Nat
  BY LenProperties DEF ValidatorLabels
<1>2. /\ u \in Seq(Types) /\ Len(u) = Len(stack) - n /\ Len(u) >= label.stackHeight
      /\ u = SubSeq(stack, 1, Len(stack) - n)
      /\ stack = u \o expected
      /\ \A k \in 1..n : stack[Len(stack) - k + 1] = expected[n - k + 1]
  BY LiveExpect
<1>3. n <= Len(stack)
  BY <1>1, <1>2
<1>4. ASSUME NEW k \in 1..n
      PROVE  params[n - k + 1] = AnyType \/ params[n - k + 1] = stack[Len(stack) - k + 1]
  <2>1. n - k + 1 \in 1..n
    BY <1>1
  <2> QED BY <1>2, <2>1
<1> HIDE DEF n, u
<1>5. PopFault(params) = "none"
  BY <1>1, <1>3, <1>4 DEF PopFault, n
<1>6. Below(Len(params)) = u
  BY <1>2 DEF Below, n
<1> QED BY <1>1, <1>2, <1>3, <1>5, <1>6 DEF u, n

-----------------------------------------------------------------------------
(* Instructions with a fixed signature.                                    *)

\* What an instruction takes and leaves when it runs is what it is validated
\* to take and leave, where the interpreter looks.
Matches(run, valid) ==
  /\ Len(run.params) = Len(valid.params)
  /\ \A k \in 1..Len(valid.params) : run.params[k] \in {AnyType, valid.params[k]}
  /\ run.returns = valid.returns

LEMMA MatchesItself ==
  ASSUME NEW s
  PROVE  Matches(s, s)
BY DEF Matches

LEMMA NotUnchecked ==
  ASSUME Sound, NEW i \in Indices
  PROVE  /\ At(instructions, i).op = "memory_init" =>
              Memory(At(instructions, i).idx2) # "i64"
         /\ At(instructions, i).op = "v128_store_lane" =>
              Memory(At(instructions, i).idx) # "i64"
         /\ At(instructions, i).op = "return_call" =>
              \/ At(instructions, i).idx \notin Natives
              \/ Len(CalleeType(At(instructions, i)).params) = Len(FunctionType.params)
         /\ At(instructions, i).op = "return_call_indirect" =>
              Len(CalleeType(At(instructions, i)).params) = Len(FunctionType.params)
         /\ At(instructions, i).op = "if" /\ At(instructions, i).elseLocation = 0 =>
              At(instructions, i).type.params = At(instructions, i).type.returns
         /\ ~BranchWraps(i) /\ ~FindsOtherTypes(i)
BY DEF Sound, UncheckedByValidator, IsOp

\* The addresses of a memory and the type of a table, by the index.
LEMMA MemoryOf ==
  ASSUME NEW n \in Nat, n < Len(Memories)
  PROVE  Memory(n) \in {"i32", "i64"}
<1>1. Memories \in Seq({"i32", "i64"})
  BY ValidatorAssumption
<1> QED BY <1>1, IndexedElement DEF Memory

LEMMA TableOf ==
  ASSUME TablesHoldReferences, NEW n \in Nat, n < Len(Tables)
  PROVE  TableAt(n).type = "funcref"
<1>1. Tables \in Seq([type : Types, address : {"i32", "i64"}])
  BY ValidatorAssumption
<1>2. Len(Tables) \in Nat /\ DOMAIN Tables = 1..Len(Tables)
  BY <1>1, LenProperties
<1>3. n + 1 \in DOMAIN Tables
  BY <1>2
<1> QED BY <1>3 DEF TableAt, TablesHoldReferences

LEMMA GlobalOf ==
  ASSUME NEW n \in Nat, n < Len(Globals)
  PROVE  n + 1 \in DOMAIN Globals /\ GlobalTypes[n + 1] = Globals[n + 1].type
<1>1. Globals \in Seq([type : Types, mutable : BOOLEAN])
  BY ValidatorAssumption
<1>2. Len(Globals) \in Nat /\ DOMAIN Globals = 1..Len(Globals)
  BY <1>1, LenProperties
<1>3. n + 1 \in DOMAIN Globals
  BY <1>2
<1> QED BY <1>3 DEF GlobalTypes

LEMMA MemoryRuns ==
  ASSUME Sound, NEW i \in InstructionType, i.op \in LoadStoreOps \cup BulkOps, IndicesValid(i),
         i.op = "memory_init" => Memory(i.idx2) # "i64",
         i.op = "v128_store_lane" => Memory(i.idx) # "i64"
  PROVE  Matches(RunAs(i), ValidatedAs(i))
<1>1. i.idx \in Nat /\ i.idx2 \in Nat
  BY IndicesAreNat
<1>2. CASE i.op \in LoadStoreOps
  <2>1. RunAs(i) = RunLoadStoreAs(i) /\ ValidatedAs(i) = LoadStoreAs(i)
    BY <1>2 DEF RunAs, ValidatedAs, ConstantOps, VectorOps, VariableOps, LoadStoreOps, BulkOps,
                TableOps, ReferenceOps
  <2>2. i.op = "v128_store_lane" => i.idx < Len(Memories)
    BY <1>2 DEF IndicesValid, IndirectCalls
  <2>3. i.op = "v128_store_lane" => Memory(i.idx) = "i32"
    BY <1>1, <2>2, MemoryOf
  <2>4. RunLoadStoreAs(i) = LoadStoreAs(i)
    BY <1>2, <2>3 DEF LoadStoreOps, RunLoadStoreAs, LoadStoreAs, StoreAs
  <2> QED BY <2>1, <2>4, MatchesItself
<1>3. CASE i.op \in BulkOps
  <2>1. RunAs(i) = RunBulkAs(i) /\ ValidatedAs(i) = BulkAs(i)
    BY <1>3 DEF RunAs, ValidatedAs, ConstantOps, VectorOps, VariableOps, LoadStoreOps, BulkOps,
                TableOps, ReferenceOps
  <2>2. i.op = "memory_init" => i.idx2 < Len(Memories)
    BY <1>3 DEF IndicesValid, IndirectCalls
  <2>3. i.op = "memory_init" => Memory(i.idx2) = "i32"
    BY <1>1, <2>2, MemoryOf
  <2>4. AddressOfCount(Memory(i.idx2), Memory(i.idx))
          = AddressOfCount(Memory(i.idx), Memory(i.idx2))
    BY DEF AddressOfCount
  <2>5. RunBulkAs(i) = BulkAs(i)
    BY <1>3, <2>3, <2>4 DEF BulkOps, RunBulkAs, BulkAs
  <2> QED BY <2>1, <2>5, MatchesItself
<1> QED BY <1>2, <1>3

LEMMA TablesRun ==
  ASSUME Sound, NEW i \in InstructionType, i.op \in TableOps, IndicesValid(i)
  PROVE  Matches(RunAs(i), ValidatedAs(i))
<1>1. i.idx \in Nat /\ i.idx2 \in Nat
  BY IndicesAreNat
<1>2. RunAs(i) = RunTableAs(i) /\ ValidatedAs(i) = TableAs(i)
  BY DEF RunAs, ValidatedAs, ConstantOps, VectorOps, VariableOps, LoadStoreOps, BulkOps,
         TableOps, ReferenceOps
<1>3. i.op \in {"table_set", "table_grow", "table_fill"} => i.idx < Len(Tables)
  BY DEF IndicesValid, IndirectCalls
<1>4. i.op \in {"table_set", "table_grow", "table_fill"} => TableAt(i.idx).type = "funcref"
  BY <1>1, <1>3, TableOf DEF Sound
<1>5. RunTableAs(i) = TableAs(i)
  BY <1>4 DEF TableOps, RunTableAs, TableAs
<1> QED BY <1>2, <1>5, MatchesItself

LEMMA VariablesRun ==
  ASSUME locals = FunctionLocals, globals = GlobalTypes,
         NEW i \in InstructionType, i.op \in VariableOps \ {"local_tee"}, IndicesValid(i)
  PROVE  Matches(RunAs(i), ValidatedAs(i))
<1>1. i.idx \in Nat
  BY IndicesAreNat
<1>2. RunAs(i) = RunVariableAs(i) /\ ValidatedAs(i) = VariableAs(i)
  BY DEF RunAs, ValidatedAs, ConstantOps, VectorOps, VariableOps, LoadStoreOps, BulkOps,
         TableOps, ReferenceOps
<1>3. i.op = "global_get" => i.idx < Len(Globals)
  BY DEF IndicesValid, IndirectCalls
<1>4. i.op = "global_get" => globals[i.idx + 1] = Globals[i.idx + 1].type
  BY <1>1, <1>3, GlobalOf
<1>5. CASE i.op \in {"local_get", "global_get"}
  <2>1. RunVariableAs(i) = VariableAs(i)
    BY <1>4, <1>5 DEF RunVariableAs, VariableAs
  <2> QED BY <1>2, <2>1, MatchesItself
<1>6. ASSUME NEW type, i.op \in {"local_set", "global_set"},
             VariableAs(i) = Signature(<<type>>, <<>>)
      PROVE  Matches(RunVariableAs(i), VariableAs(i))
  <2>1. RunVariableAs(i) = Signature(<<AnyType>>, <<>>)
    BY <1>6 DEF RunVariableAs
  <2>2. /\ RunVariableAs(i).params = <<AnyType>> /\ RunVariableAs(i).returns = <<>>
        /\ VariableAs(i).params = <<type>> /\ VariableAs(i).returns = <<>>
    BY <1>6, <2>1 DEF Signature
  <2>3. Len(<<AnyType>>) = 1 /\ Len(<<type>>) = 1 /\ <<AnyType>>[1] = AnyType
    OBVIOUS
  <2> QED BY <2>2, <2>3 DEF Matches
<1>7. CASE i.op \in {"local_set", "global_set"}
  <2>1. \/ VariableAs(i) = Signature(<<FunctionLocals[i.idx + 1]>>, <<>>)
        \/ VariableAs(i) = Signature(<<Globals[i.idx + 1].type>>, <<>>)
    BY <1>7 DEF VariableAs
  <2> QED BY <1>2, <1>6, <1>7, <2>1
<1> QED BY <1>5, <1>7 DEF VariableOps

LEMMA RunsAsValidated ==
  ASSUME Sound, NEW T, NEW L, Follows(T, L), RunInstruction, NEW i, i = At(instructions, ip),
         i.op \in SimpleOps \ {"local_tee", "call", "call_indirect"}
  PROVE  Matches(RunAs(i), ValidatedAs(i)) /\ IndicesValid(i)
<1>1. i \in InstructionType /\ IndicesValid(i) /\ ip \in Indices
  BY RunsHere DEF CheckedOps
<1>2. /\ i.op = "memory_init" => Memory(i.idx2) # "i64"
      /\ i.op = "v128_store_lane" => Memory(i.idx) # "i64"
  BY <1>1, NotUnchecked
<1>3. CASE i.op \in ConstantOps \cup VectorOps \cup ReferenceOps
  <2>1. RunAs(i) = ValidatedAs(i)
    <3>1. CASE i.op \in ConstantOps
      BY <3>1 DEF RunAs, ValidatedAs, ConstantOps, VectorOps, VariableOps, LoadStoreOps,
                  BulkOps, TableOps, ReferenceOps, RunConstantAs, ConstantAs
    <3>2. CASE i.op \in VectorOps
      BY <3>2 DEF RunAs, ValidatedAs, ConstantOps, VectorOps, VariableOps, LoadStoreOps,
                  BulkOps, TableOps, ReferenceOps, RunVectorAs, VectorAs
    <3>3. CASE i.op \in ReferenceOps
      BY <3>3 DEF RunAs, ValidatedAs, ConstantOps, VectorOps, VariableOps, LoadStoreOps,
                  BulkOps, TableOps, ReferenceOps, RunReferenceAs, ReferenceAs
    <3> QED BY <1>3, <3>1, <3>2, <3>3
  <2> QED BY <1>1, <2>1, MatchesItself
<1>4. CASE i.op \in LoadStoreOps \cup BulkOps
  BY <1>1, <1>2, <1>4, MemoryRuns
<1>5. CASE i.op \in TableOps
  BY <1>1, <1>5, TablesRun
<1>6. CASE i.op \in VariableOps
  BY <1>1, <1>6, VariablesRun DEF Follows
<1> QED BY <1>3, <1>4, <1>5, <1>6 DEF SimpleOps

-----------------------------------------------------------------------------
(* The instructions that go on with the next one.                          *)

LEMMA NextIsAt ==
  ASSUME Sound, NEW T, NEW L, Follows(T, L), RunInstruction, NEW operands,
         operands = T[ip + 1], Live(L[ip + 1])
  PROVE  IsAt(T, L, ip + 1, operands)
<1>1. ip \in 0..(Len(instructions) - 1) /\ Len(instructions) \in Nat
  BY RunsHere, RunningCode DEF Sound
<1> QED BY <1>1 DEF IsAt

LEMMA FixedFine ==
  ASSUME Sound, NEW T, NEW L, Follows(T, L), RunInstruction, NEW i, i = At(instructions, ip),
         i.op \in SimpleOps \ {"local_tee", "call", "call_indirect"}
  PROVE  /\ PopFault(RunAs(i).params) = "none"
         /\ IsAt(T, L, ip + 1, Below(Len(RunAs(i).params)) \o RunAs(i).returns)
<1> DEFINE v == ValidatedAs(i)
           l == L[ip]
<1>1. /\ i \in InstructionType /\ stack \in Seq(Types) /\ Live(l)
      /\ Passing(i, stack, l, T[ip + 1], L[ip + 1])
  BY RunsHere
<1>2. /\ Last(l) \in ValidatorLabels /\ ~Last(l).unreachable
      /\ Last(l).stackHeight <= Len(stack)
      /\ Effect(i, stack, l, T[ip + 1], L[ip + 1])
  BY <1>1, LabelHere
<1>3. IndicesValid(i) /\ Matches(RunAs(i), v)
  BY RunsAsValidated
<1>4. v.params \in Seq(Types)
  BY <1>1, <1>3, ValidSignature DEF IsSignature
<1>5. /\ CanExpect(stack, Last(l), v.params)
      /\ T[ip + 1] = AfterExpect(stack, Last(l), v.params) \o v.returns /\ L[ip + 1] = l
  BY <1>2 DEF Effect, EffectOnOperands, Expects
<1>6. /\ PopFault(RunAs(i).params) = "none"
      /\ Below(Len(RunAs(i).params)) = AfterExpect(stack, Last(l), v.params)
  BY <1>1, <1>2, <1>3, <1>4, <1>5, PopsExpected DEF Matches
<1>7. Below(Len(RunAs(i).params)) \o RunAs(i).returns = T[ip + 1]
  BY <1>3, <1>5, <1>6 DEF Matches
<1>8. Live(L[ip + 1])
  BY <1>1, <1>5
<1> HIDE DEF v, l
<1>9. IsAt(T, L, ip + 1, Below(Len(RunAs(i).params)) \o RunAs(i).returns)
  BY <1>7, <1>8, NextIsAt
<1> QED BY <1>6, <1>9

\* Popping one operand whatever its type.
LEMMA PopsOne ==
  ASSUME Sound, NEW T, NEW L, Follows(T, L), RunInstruction, NEW i, i = At(instructions, ip),
         i.op = "drop"
  PROVE  /\ PopFault(<<AnyType>>) = "none"
         /\ IsAt(T, L, ip + 1, Below(1))
<1> DEFINE l == L[ip]
<1>1. /\ i \in InstructionType /\ stack \in Seq(Types) /\ Live(l)
      /\ Passing(i, stack, l, T[ip + 1], L[ip + 1])
  BY RunsHere
<1>2. /\ Last(l) \in ValidatorLabels /\ ~Last(l).unreachable
      /\ Last(l).stackHeight <= Len(stack) /\ Last(l).stackHeight \in Nat
      /\ Effect(i, stack, l, T[ip + 1], L[ip + 1])
  BY <1>1, LabelHere
<1>3. CanPop(stack, Last(l), 1) /\ T[ip + 1] = AfterPop(stack, Last(l), 1) /\ L[ip + 1] = l
  BY <1>2 DEF Effect, EffectOnOperands
<1>4. /\ AfterPop(stack, Last(l), 1) = SubSeq(stack, 1, Len(stack) - 1)
      /\ Len(stack) \in Nat /\ 1 <= Len(stack) - Last(l).stackHeight
  BY <1>1, <1>2, <1>3, LivePop
<1>5. T[ip + 1] = Below(1) /\ Live(L[ip + 1])
  BY <1>1, <1>3, <1>4 DEF Below
<1>6. PopFault(<<AnyType>>) = "none"
  <2>1. Len(<<AnyType>>) = 1 /\ <<AnyType>>[1] = AnyType /\ \A k \in 1..1 : 1 - k + 1 = 1
    OBVIOUS
  <2>2. 1 <= Len(stack)
    BY <1>2, <1>4
  <2> QED BY <2>1, <2>2 DEF PopFault
<1> HIDE DEF l
<1>7. IsAt(T, L, ip + 1, Below(1))
  BY <1>5, NextIsAt
<1> QED BY <1>6, <1>7

\* A block is entered and left with the operands as they are.
LEMMA NothingPopped ==
  ASSUME NEW s \in Seq(Types)
  PROVE  SubSeq(s, 1, Len(s) - Len(<<>>)) \o <<>> = s
<1>1. Len(s) \in Nat /\ Len(<<>>) = 0
  BY LenProperties
<1>2. SubSeq(s, 1, Len(s)) = s
  BY <1>1, SubSeqProperties, SeqEqual, ElementOfSeq
<1>3. s \o <<>> = s
  BY ConcatEmptySeq
<1> QED BY <1>1, <1>2, <1>3

\* The code of a block is within reach when the block is.
LEMMA EnteredLive ==
  ASSUME NEW i, NEW l \in Seq(ValidatorLabels), Live(l), NEW m,
         \E label, height : m = Append(l, BlockLabel(i, height, label))
  PROVE  Live(m)
<1>1. PICK label, height : m = Append(l, BlockLabel(i, height, label))
  OBVIOUS
<1> DEFINE b == BlockLabel(i, height, label)
<1>2. ~b.unreachable
  BY DEF BlockLabel
<1> HIDE DEF b
<1>3. l \in Seq({l[n] : n \in 1..Len(l)} \cup {b}) /\ Len(l) \in Nat
  <2>1. Len(l) \in Nat /\ l \in [1..Len(l) -> {l[n] : n \in 1..Len(l)} \cup {b}]
    BY LenProperties
  <2> QED BY <2>1, FunctionIsSeq
<1>4. /\ Len(Append(l, b)) = Len(l) + 1
      /\ \A n \in 1..Len(l) : Append(l, b)[n] = l[n]
      /\ Append(l, b)[Len(l) + 1] = b
  BY <1>3, AppendProperties
<1>5. ASSUME NEW n \in 1..(Len(l) + 1)
      PROVE  ~Append(l, b)[n].unreachable
  <2>1. CASE n = Len(l) + 1
    BY <1>2, <1>4, <2>1
  <2>2. CASE n # Len(l) + 1
    <3>1. n \in 1..Len(l)
      BY <1>3, <2>2
    <3> QED BY <1>4, <3>1 DEF Live
  <2> QED BY <2>1, <2>2
<1> QED BY <1>1, <1>4, <1>5 DEF Live, b

LEMMA KeepsOperands ==
  ASSUME Sound, NEW T, NEW L, Follows(T, L), RunInstruction, NEW i, i = At(instructions, ip),
         i.op \in {"block", "loop", "end"}
  PROVE  IsAt(T, L, ip + 1, stack)
<1> DEFINE l == L[ip]
<1>1. /\ i \in InstructionType /\ stack \in Seq(Types) /\ Live(l)
      /\ Passing(i, stack, l, T[ip + 1], L[ip + 1])
  BY RunsHere
<1>2. /\ Last(l) \in ValidatorLabels /\ ~Last(l).unreachable
      /\ Last(l).stackHeight <= Len(stack) /\ Last(l).returnTypes \in Seq(Types)
      /\ Effect(i, stack, l, T[ip + 1], L[ip + 1])
      /\ AtPlace(stack, l) /\ l # <<>>
  BY <1>1, LabelHere
<1>3. CASE i.op \in {"block", "loop"}
  <2>1. Entry(i) = i.type.params /\ i.type.params \in Seq(Types)
    BY <1>1, <1>3, TypedBy DEF Entry
  <2>2. /\ CanExpect(stack, Last(l), i.type.params)
        /\ T[ip + 1] = AfterExpect(stack, Last(l), i.type.params) \o i.type.params
        /\ \E label, height : L[ip + 1] = Append(l, BlockLabel(i, height, label))
    BY <1>2, <1>3, <2>1 DEF Effect, EffectOnBlocks, Enters, Openers
  <2>3. stack = AfterExpect(stack, Last(l), i.type.params) \o i.type.params
    BY <1>1, <1>2, <2>1, <2>2, LiveExpect
  <2>4. Live(L[ip + 1])
    BY <1>1, <1>2, <2>2, EnteredLive DEF AtPlace
  <2> HIDE DEF l
  <2>5. stack = T[ip + 1]
    BY <2>2, <2>3
  <2> QED BY <2>4, <2>5, NextIsAt
<1>4. CASE i.op = "end"
  <2>1. /\ CanExpect(stack, Last(l), Last(l).returnTypes)
        /\ T[ip + 1] = AfterExpect(stack, Last(l), Last(l).returnTypes) \o Last(l).returnTypes
        /\ L[ip + 1] = Front(l)
    BY <1>2, <1>4 DEF Effect, EffectOnBlocks, LeavesOn
  <2>2. stack = T[ip + 1]
    BY <1>1, <1>2, <2>1, LiveExpect
  <2>3. Live(L[ip + 1])
    <3>1. /\ Len(l) \in Nat \ {0} /\ Len(Front(l)) = Len(l) - 1
          /\ \A k \in 1..(Len(l) - 1) : Front(l)[k] = l[k]
      BY <1>2, FrontAndLast DEF AtPlace
    <3> QED BY <1>1, <2>1, <3>1 DEF Live
  <2> HIDE DEF l
  <2> QED BY <2>2, <2>3, NextIsAt
<1> QED BY <1>3, <1>4

LEMMA SimpleFine ==
  ASSUME Sound, NEW T, NEW L, Follows(T, L), RunInstruction, NEW i, i = At(instructions, ip),
         RunSimple(i)
  PROVE  Fine(T, L)
<1> DEFINE r == RunAs(i)
           after == Below(Len(r.params)) \o r.returns
<1>1. i.op \in (SimpleOps \ {"local_tee", "call", "call_indirect"})
                \cup {"drop", "block", "loop", "end"}
  BY DEF RunSimple, RunnableOps
<1>2. stack \in Seq(Types)
  BY RunsHere
<1>3. PopFault(r.params) = "none" /\ IsAt(T, L, ip + 1, after)
  <2>1. CASE i.op \in SimpleOps \ {"local_tee", "call", "call_indirect"}
    BY <2>1, FixedFine
  <2>2. CASE i.op = "drop"
    <3>1. r = Signature(<<AnyType>>, <<>>)
      BY <2>2 DEF RunAs, ConstantOps, VectorOps, VariableOps, LoadStoreOps, BulkOps, TableOps,
                  ReferenceOps
    <3>2. r.params = <<AnyType>> /\ r.returns = <<>> /\ Len(<<AnyType>>) = 1
      BY <3>1 DEF Signature
    <3>3. PopFault(<<AnyType>>) = "none" /\ IsAt(T, L, ip + 1, Below(1))
      BY <2>2, PopsOne
    <3>4. Below(1) \o <<>> = Below(1)
      <4>1. Len(stack) \in Nat /\ 1 <= Len(stack)
        BY <1>2, <3>2, <3>3, LenProperties DEF PopFault
      <4>2. Below(1) \in Seq(Types)
        BY <1>2, <4>1, PartOfStack DEF Below
      <4> QED BY <4>2, ConcatEmptySeq
    <3> QED BY <3>2, <3>3, <3>4
  <2>3. CASE i.op \in {"block", "loop", "end"}
    <3>1. r = Empty
      BY <2>3 DEF RunAs, ConstantOps, VectorOps, VariableOps, LoadStoreOps, BulkOps, TableOps,
                  ReferenceOps
    <3>2. r.params = <<>> /\ r.returns = <<>> /\ Len(<<>>) = 0
      BY <3>1 DEF Empty, Signature
    <3>3. after = stack
      BY <1>2, <3>2, NothingPopped DEF Below
    <3>4. PopFault(<<>>) = "none"
      <4>1. Len(stack) \in Nat
        BY <1>2, LenProperties
      <4> QED BY <3>2, <4>1 DEF PopFault
    <3>5. IsAt(T, L, ip + 1, stack)
      BY <2>3, KeepsOperands
    <3> QED BY <3>2, <3>3, <3>4, <3>5
  <2> QED BY <1>1, <2>1, <2>2, <2>3
<1>4. Continue(ip + 1, after)
  BY <1>3 DEF RunSimple, Popping
<1> HIDE DEF after
<1> QED BY <1>3, <1>4, ContinueFine

\* An instruction that traps on its operands has popped them.
LEMMA TrapFine ==
  ASSUME Sound, NEW T, NEW L, Follows(T, L), RunInstruction, NEW i, i = At(instructions, ip),
         RunTrap(i)
  PROVE  Fine(T, L)
<1>1. i.op \in SimpleOps \ {"local_tee", "call", "call_indirect"}
  BY DEF RunTrap, MayTrap, SimpleOps, LoadStoreOps, BulkOps, TableOps
<1>2. PopFault(RunAs(i).params) = "none"
  BY <1>1, FixedFine
<1>3. Stop("trapped")
  BY <1>2 DEF RunTrap, Popping
<1> QED BY <1>3, StopFine

\* The variable that an instruction assigns.
VariableType(i) ==
  IF i.op = "global_set" THEN Globals[i.idx + 1].type ELSE FunctionLocals[i.idx + 1]

LEMMA PopsAny ==
  ASSUME Len(stack) \in Nat, 1 <= Len(stack)
  PROVE  PopFault(<<AnyType>>) = "none"
<1>1. Len(<<AnyType>>) = 1 /\ <<AnyType>>[1] = AnyType /\ \A k \in 1..1 : 1 - k + 1 = 1
  OBVIOUS
<1> QED BY <1>1 DEF PopFault

LEMMA TopIsVariable ==
  ASSUME Sound, NEW T, NEW L, Follows(T, L), RunInstruction, NEW i, i = At(instructions, ip),
         i.op \in {"local_set", "local_tee", "global_set"}
  PROVE  /\ PopFault(<<AnyType>>) = "none" /\ stack # <<>> /\ Last(stack) = VariableType(i)
         /\ IsAt(T, L, ip + 1, IF i.op = "local_tee" THEN stack ELSE Below(1))
         /\ IndicesValid(i) /\ i.idx \in Nat
<1> DEFINE v == ValidatedAs(i)
           l == L[ip]
           type == VariableType(i)
<1>1. /\ i \in InstructionType /\ stack \in Seq(Types) /\ Live(l)
      /\ Passing(i, stack, l, T[ip + 1], L[ip + 1])
      /\ IndicesValid(i) /\ i.idx \in Nat
  BY RunsHere, IndicesAreNat DEF CheckedOps, SimpleOps, VariableOps
<1>2. /\ Last(l) \in ValidatorLabels /\ ~Last(l).unreachable
      /\ Last(l).stackHeight <= Len(stack) /\ Len(stack) \in Nat
      /\ Effect(i, stack, l, T[ip + 1], L[ip + 1])
  BY <1>1, LabelHere
<1>3. /\ i.op \in SimpleOps
      /\ v = Signature(<<type>>, IF i.op = "local_tee" THEN <<type>> ELSE <<>>)
  BY DEF SimpleOps, ValidatedAs, VariableAs, ConstantOps, VectorOps, VariableOps, LoadStoreOps,
         BulkOps, TableOps, ReferenceOps, VariableType
<1>4. /\ v.params = <<type>> /\ v.returns = IF i.op = "local_tee" THEN <<type>> ELSE <<>>
  BY <1>3 DEF Signature
<1>5. <<type>> \in Seq(Types)
  BY <1>1, <1>3, <1>4, ValidSignature DEF IsSignature
<1>6. /\ CanExpect(stack, Last(l), <<type>>)
      /\ T[ip + 1] = AfterExpect(stack, Last(l), <<type>>) \o v.returns /\ L[ip + 1] = l
  BY <1>2, <1>3, <1>4 DEF Effect, EffectOnOperands, Expects
<1> HIDE DEF v, l, type
<1> DEFINE e == <<type>>
           u == AfterExpect(stack, Last(l), e)
<1>8. Len(e) = 1 /\ e[1] = type /\ 1 - 1 + 1 = 1 /\ 1 \in 1..1
  OBVIOUS
<1>a. e \in Seq(Types) /\ CanExpect(stack, Last(l), e)
  BY <1>5, <1>6
<1> HIDE DEF e
<1>7. /\ u \in Seq(Types) /\ Len(u) = Len(stack) - Len(e)
      /\ u = SubSeq(stack, 1, Len(stack) - Len(e))
      /\ stack = u \o e
      /\ \A k \in 1..Len(e) : stack[Len(stack) - k + 1] = e[Len(e) - k + 1]
  BY <1>1, <1>2, <1>a, LiveExpect
<1> HIDE DEF u
<1>9. u = Below(1) /\ stack[Len(stack) - 1 + 1] = type /\ Len(u) = Len(stack) - 1
  BY <1>7, <1>8 DEF Below
<1>10. stack[Len(stack)] = type /\ 1 <= Len(stack) /\ stack # <<>>
  <2>1. Len(u) \in Nat
    BY <1>7, LenProperties
  <2> QED BY <1>2, <1>9, <2>1
<1>11. Last(stack) = type
  BY <1>1, <1>10, FrontAndLast
<1>12. Live(L[ip + 1]) /\ T[ip + 1] = IF i.op = "local_tee" THEN stack ELSE Below(1)
  <2>1. u \o <<>> = u
    BY <1>7, ConcatEmptySeq
  <2> QED BY <1>1, <1>4, <1>6, <1>7, <1>9, <2>1 DEF u, e
<1>13. IsAt(T, L, ip + 1, IF i.op = "local_tee" THEN stack ELSE Below(1))
  BY <1>12, NextIsAt
<1>14. PopFault(<<AnyType>>) = "none"
  BY <1>2, <1>10, PopsAny
<1> QED BY <1>1, <1>10, <1>11, <1>13, <1>14 DEF type

\* A variable keeps its type.
LEMMA AssignFine ==
  ASSUME Sound, NEW T, NEW L, Follows(T, L), RunInstruction, NEW i, i = At(instructions, ip),
         RunLocalSet(i) \/ RunLocalTee(i) \/ RunGlobalSet(i)
  PROVE  Fine(T, L)
<1>1. i.op \in {"local_set", "local_tee", "global_set"}
  BY DEF RunLocalSet, RunLocalTee, RunGlobalSet
<1>2. /\ PopFault(<<AnyType>>) = "none" /\ stack # <<>> /\ Last(stack) = VariableType(i)
      /\ IsAt(T, L, ip + 1, IF i.op = "local_tee" THEN stack ELSE Below(1))
      /\ IndicesValid(i) /\ i.idx \in Nat
  BY <1>1, TopIsVariable
<1>3. locals = FunctionLocals /\ globals = GlobalTypes /\ phase = "run"
  BY DEF Follows, Sound, Running
<1>4. i.op \in {"local_set", "global_set"} => RunAs(i).params = <<AnyType>>
  <2>1. i.op \in {"local_set", "global_set"} => RunAs(i) = RunVariableAs(i)
    BY DEF RunAs, ConstantOps, VectorOps, VariableOps, LoadStoreOps, BulkOps, TableOps,
           ReferenceOps
  <2> QED BY <2>1 DEF RunVariableAs, Signature
<1>5. ASSUME locals' = [locals EXCEPT ![i.idx + 1] = Last(stack)], i.op # "global_set"
      PROVE  locals' = FunctionLocals
  <2>1. locals \in [1..Len(locals) -> Types]
    BY LenProperties DEF Sound, Running, TInv, FrameInv
  <2>2. Last(stack) = locals[i.idx + 1]
    BY <1>2, <1>3, <1>5 DEF VariableType
  <2> QED BY <1>3, <1>5, <2>1, <2>2
<1>6. CASE RunLocalTee(i)
  <2>1. /\ locals' = [locals EXCEPT ![i.idx + 1] = Last(stack)] /\ i.op = "local_tee"
        /\ ip' = ip + 1 /\ stack' = stack /\ globals' = globals /\ phase' = phase
    BY <1>2, <1>6 DEF RunLocalTee, parserVars
  <2>2. locals' = FunctionLocals
    BY <1>5, <2>1
  <2> QED BY <1>2, <1>3, <2>1, <2>2 DEF Fine, Faults
<1>7. CASE RunLocalSet(i)
  <2>1. /\ locals' = [locals EXCEPT ![i.idx + 1] = Last(stack)] /\ i.op = "local_set"
        /\ ip' = ip + 1 /\ stack' = Below(1) /\ globals' = globals /\ phase' = phase
    BY <1>2, <1>4, <1>7 DEF RunLocalSet, Popping, parserVars
  <2>2. locals' = FunctionLocals
    BY <1>5, <2>1
  <2> QED BY <1>2, <1>3, <2>1, <2>2 DEF Fine, Faults
<1>8. CASE RunGlobalSet(i)
  <2>1. /\ globals' = [globals EXCEPT ![i.idx + 1] = Last(stack)] /\ i.op = "global_set"
        /\ ip' = ip + 1 /\ stack' = Below(1) /\ locals' = locals /\ phase' = phase
    BY <1>2, <1>4, <1>8 DEF RunGlobalSet, Popping, parserVars
  <2>2. i.idx < Len(Globals)
    BY <1>2, <2>1 DEF IndicesValid, IndirectCalls
  <2>3. GlobalTypes[i.idx + 1] = Last(stack)
    BY <1>2, <2>1, <2>2, GlobalOf DEF VariableType
  <2>4. globals' = GlobalTypes
    BY <1>3, <2>1, <2>3 DEF GlobalTypes
  <2> QED BY <1>2, <1>3, <2>1, <2>4 DEF Fine, Faults
<1> QED BY <1>6, <1>7, <1>8

LEMMA LengthOne ==
  ASSUME NEW S, NEW s \in Seq(S), Len(s) = 1
  PROVE  \E x \in S : s = <<x>>
<1>1. s[1] \in S
  BY ElementOfSeq
<1>2. PICK x : x = s[1]
  OBVIOUS
<1>3. <<x>> \in Seq(S) /\ Len(<<x>>) = 1 /\ <<x>>[1] = s[1]
  BY <1>1, <1>2
<1>4. s = <<x>>
  BY <1>3, SeqEqual
<1> QED BY <1>1, <1>2, <1>4

LEMMA SelectOperands ==
  ASSUME NEW type \in Types
  PROVE  LET e == <<type>> \o <<type>> \o <<"i32">> IN
         Len(e) = 3 /\ e[1] = type /\ e[2] = type /\ e[3] = "i32"
<1> DEFINE a == <<type>>
           b == <<"i32">>
<1>1. /\ a \in Seq(Types) /\ Len(a) = 1 /\ a[1] = type
      /\ b \in Seq(Types) /\ Len(b) = 1 /\ b[1] = "i32"
  BY DEF Types
<1> HIDE DEF a, b
<1>2. /\ a \o a \in Seq(Types) /\ Len(a \o a) = 2
      /\ (a \o a)[1] = type /\ (a \o a)[2] = type
  BY <1>1, ConcatProperties
<1>3. /\ Len((a \o a) \o b) = 3 /\ ((a \o a) \o b)[1] = type
      /\ ((a \o a) \o b)[2] = type /\ ((a \o a) \o b)[3] = "i32"
  <2> DEFINE c == a \o a
  <2> HIDE DEF c
  <2>1. c \in Seq(Types) /\ Len(c) = 2 /\ c[1] = type /\ c[2] = type
    BY <1>2 DEF c
  <2>2. Len(c \o b) = 3 /\ (c \o b)[1] = type /\ (c \o b)[2] = type /\ (c \o b)[3] = "i32"
    <3>1. /\ Len(c \o b) = Len(c) + Len(b)
          /\ \A k \in 1..(Len(c) + Len(b)) :
               (c \o b)[k] = IF k <= Len(c) THEN c[k] ELSE b[k - Len(c)]
      BY <1>1, <2>1, ConcatProperties
    <3>2. 1 \in 1..3 /\ 2 \in 1..3 /\ 3 \in 1..3 /\ Len(c) + Len(b) = 3 /\ 3 - Len(c) = 1
      BY <1>1, <2>1
    <3> QED BY <1>1, <2>1, <3>1, <3>2
  <2> QED BY <2>2 DEF c
<1> QED BY <1>3 DEF a, b

\* Of two operands of one type either may be kept.
LEMMA SelectFine ==
  ASSUME Sound, NEW T, NEW L, Follows(T, L), RunInstruction, NEW i, i = At(instructions, ip),
         RunSelect(i)
  PROVE  Fine(T, L)
<1> DEFINE l == L[ip]
<1>1. /\ i \in InstructionType /\ stack \in Seq(Types) /\ Live(l)
      /\ Passing(i, stack, l, T[ip + 1], L[ip + 1])
      /\ i.op \in {"select", "select_typed"}
  BY RunsHere DEF RunSelect
<1>2. /\ Last(l) \in ValidatorLabels /\ ~Last(l).unreachable
      /\ Last(l).stackHeight <= Len(stack) /\ Len(stack) \in Nat
      /\ Effect(i, stack, l, T[ip + 1], L[ip + 1])
      /\ Last(l).stackHeight \in Nat
  BY <1>1, LabelHere
<1> DEFINE h == Last(l).stackHeight
           n == Len(stack)
<1>3. \E type \in Types :
        /\ 3 <= n /\ stack[n] = "i32" /\ stack[n - 1] = type /\ stack[n - 2] = type
        /\ T[ip + 1] = Append(Below(3), type) /\ L[ip + 1] = l
  <2>1. CASE i.op = "select"
    <3> DEFINE under == AfterExpect(stack, Last(l), <<"i32">>)
               a == Popped(under, Last(l), 2, 1)
               b == Popped(under, Last(l), 2, 2)
    <3>1. /\ CanExpect(stack, Last(l), <<"i32">>)
          /\ CanPop(under, Last(l), 2) /\ Agrees(a, b)
          /\ T[ip + 1] = Append(AfterPop(under, Last(l), 2), IF a # Unknown THEN a ELSE b)
          /\ L[ip + 1] = l
      BY <1>2, <2>1 DEF Effect, EffectOnOperands, Selects
    <3>2. <<"i32">> \in Seq(Types) /\ Len(<<"i32">>) = 1 /\ <<"i32">>[1] = "i32"
      BY <1>1, TypedBy
    <3>3. /\ under \in Seq(Types) /\ Len(under) = n - Len(<<"i32">>) /\ Len(under) >= h
          /\ under = SubSeq(stack, 1, n - Len(<<"i32">>))
          /\ \A k \in 1..Len(<<"i32">>) :
               stack[n - k + 1] = <<"i32">>[Len(<<"i32">>) - k + 1]
      BY <1>1, <1>2, <3>1, <3>2, LiveExpect
    <3>4. stack[n] = "i32"
      <4>1. 1 \in 1..1 /\ 1 - 1 + 1 = 1 /\ n - 1 + 1 = n
        BY <1>2
      <4> QED BY <3>2, <3>3, <4>1
    <3> HIDE DEF under, l, h, n
    <3>14. under \in Seq(Types) /\ Last(l).stackHeight <= Len(under) /\ 2 \in Nat
      BY <3>3 DEF h
    <3>5. /\ AfterPop(under, Last(l), 2) = SubSeq(under, 1, Len(under) - 2)
          /\ Len(under) \in Nat /\ 2 <= Len(under) - Last(l).stackHeight
          /\ \A k \in 1..2 : /\ Popped(under, Last(l), 2, k) = under[Len(under) - k + 1]
                             /\ under[Len(under) - k + 1] \in Types
      BY <1>2, <3>1, <3>14, LivePop
    <3>6. a = under[Len(under)] /\ b = under[Len(under) - 1] /\ a \in Types /\ b \in Types
      <4>1. 1 \in 1..2 /\ 2 \in 1..2 /\ Len(under) - 1 + 1 = Len(under)
            /\ Len(under) - 2 + 1 = Len(under) - 1
        BY <3>5
      <4> QED BY <3>5, <4>1
    <3> HIDE DEF a, b
    <3>7. a = b /\ a # Unknown
      BY <3>1, <3>6 DEF Agrees, Types, Unknown
    <3>8. 3 <= n /\ Len(under) = n - 1 /\ n \in Nat
      BY <1>2, <3>2, <3>3, <3>5 DEF n
    <3>9. \A j \in 1..(n - 1) : under[j] = stack[j]
      <4>1. \A j \in 1..n : stack[j] \in Types
        BY <1>1, ElementOfSeq DEF n
      <4>2. \A j \in 1..(n - 1) : SubSeq(stack, 1, n - 1)[j] = stack[1 + j - 1]
        BY <1>1, <3>8, <4>1, SubSeqProperties DEF n
      <4> QED BY <3>2, <3>3, <3>8, <4>2
    <3>10. n - 1 \in 1..(n - 1) /\ n - 2 \in 1..(n - 1) /\ Len(under) - 1 = n - 2
      BY <3>8
    <3>11. stack[n - 1] = a /\ stack[n - 2] = a
      BY <3>6, <3>7, <3>8, <3>9, <3>10
    <3>12. SubSeq(under, 1, Len(under) - 2) = Below(3)
      <4>1. under = SubSeq(stack, 1, n - 1) /\ Len(under) - 2 = n - 3
        BY <3>2, <3>3, <3>8
      <4>2. SubSeq(SubSeq(stack, 1, n - 1), 1, n - 3) = SubSeq(stack, 1, n - 3)
        <5>1. stack \in Seq(Types) /\ n = Len(stack)
          BY <1>1 DEF n
        <5>2. /\ SubSeq(stack, 1, n - 3) \in Seq(Types) /\ Len(SubSeq(stack, 1, n - 3)) = n - 3
              /\ \A j \in 1..(n - 3) : SubSeq(stack, 1, n - 3)[j] = stack[j]
          BY <3>8, <5>1, SubSeqProperties
        <5>3. /\ SubSeq(under, 1, n - 3) \in Seq(Types) /\ Len(SubSeq(under, 1, n - 3)) = n - 3
              /\ \A j \in 1..(n - 3) : SubSeq(under, 1, n - 3)[j] = under[j]
          BY <3>3, <3>8, SubSeqProperties
        <5>4. \A j \in 1..(n - 3) : under[j] = stack[j]
          BY <3>8, <3>9
        <5> QED BY <4>1, <5>2, <5>3, <5>4, SeqEqual
      <4> QED BY <4>1, <4>2 DEF Below, n
    <3>13. T[ip + 1] = Append(Below(3), a)
      BY <3>1, <3>5, <3>7, <3>12
    <3> QED BY <3>1, <3>4, <3>6, <3>8, <3>11, <3>13
  <2>2. CASE i.op = "select_typed"
    <3> DEFINE r == i.type.returns
               e == r \o r \o <<"i32">>
    <3>1. /\ Len(r) = 1 /\ CanExpect(stack, Last(l), e)
          /\ T[ip + 1] = AfterExpect(stack, Last(l), e) \o r /\ L[ip + 1] = l
      BY <1>2, <2>2 DEF Effect, EffectOnOperands, Expects
    <3>2. r \in Seq(Types) /\ e \in Seq(Types)
      BY <1>1, TypedBy
    <3>3. PICK type \in Types : r = <<type>>
      BY <3>1, <3>2, LengthOne
    <3>5. Len(e) = 3 /\ e[1] = type /\ e[2] = type /\ e[3] = "i32"
      BY <3>3, SelectOperands
    <3> HIDE DEF e, l, h, n
    <3>6. /\ AfterExpect(stack, Last(l), e) = SubSeq(stack, 1, Len(stack) - Len(e))
          /\ AfterExpect(stack, Last(l), e) \in Seq(Types)
          /\ Len(AfterExpect(stack, Last(l), e)) = Len(stack) - Len(e)
          /\ \A k \in 1..Len(e) : stack[Len(stack) - k + 1] = e[Len(e) - k + 1]
      BY <1>1, <1>2, <3>1, <3>2, LiveExpect
    <3>7. 3 <= n /\ n \in Nat
      <4>1. Len(AfterExpect(stack, Last(l), e)) \in Nat
        BY <3>6, LenProperties
      <4>2. Len(stack) \in Nat /\ Len(AfterExpect(stack, Last(l), e)) = Len(stack) - 3
        BY <1>2, <3>5, <3>6
      <4> QED BY <4>1, <4>2 DEF n
    <3>8. stack[n] = "i32" /\ stack[n - 1] = type /\ stack[n - 2] = type
      <4>1. /\ \A k \in 1..3 : stack[n - k + 1] = e[3 - k + 1]
            /\ 1 \in 1..3 /\ 2 \in 1..3 /\ 3 \in 1..3
            /\ n - 1 + 1 = n /\ n - 2 + 1 = n - 1 /\ n - 3 + 1 = n - 2
            /\ 3 - 1 + 1 = 3 /\ 3 - 2 + 1 = 2 /\ 3 - 3 + 1 = 1
        BY <3>5, <3>6, <3>7 DEF n
      <4> QED BY <3>5, <4>1
    <3>9. AfterExpect(stack, Last(l), e) = Below(3) /\ Below(3) \in Seq(Types)
      BY <3>5, <3>6 DEF Below
    <3>10. Below(3) \o r = Append(Below(3), type)
      <4>1. Append(Below(3), type) = Below(3) \o <<type>>
        BY <3>9, AppendIsConcat
      <4> QED BY <3>3, <4>1
    <3> QED BY <3>1, <3>3, <3>7, <3>8, <3>9, <3>10
  <2> QED BY <1>1, <2>1, <2>2
<1>4. PICK type \in Types :
        /\ 3 <= n /\ stack[n] = "i32" /\ stack[n - 1] = type /\ stack[n - 2] = type
        /\ T[ip + 1] = Append(Below(3), type) /\ L[ip + 1] = l
  BY <1>3
<1> DEFINE params == <<AnyType, AnyType, "i32">>
<1>5. PopFault(params) = "none"
  <2>1. Len(params) = 3 /\ params[1] = AnyType /\ params[2] = AnyType /\ params[3] = "i32"
    OBVIOUS
  <2> HIDE DEF params
  <2>2. ASSUME NEW k \in 1..3
        PROVE  params[3 - k + 1] = AnyType \/ params[3 - k + 1] = stack[Len(stack) - k + 1]
    <3>1. k = 1 \/ k = 2 \/ k = 3
      OBVIOUS
    <3>2. 3 - 1 + 1 = 3 /\ 3 - 2 + 1 = 2 /\ 3 - 3 + 1 = 1 /\ Len(stack) - 1 + 1 = n
      BY <1>2
    <3> QED BY <1>4, <2>1, <3>1, <3>2
  <2> QED BY <1>2, <1>4, <2>1, <2>2 DEF PopFault
<1>6. PICK k \in {1, 2} : Continue(ip + 1, Append(Below(3), stack[Len(stack) - k]))
  BY <1>5 DEF RunSelect, Popping
<1>7. stack[Len(stack) - k] = type
  BY <1>4, <1>6
<1>8. T[ip + 1] = Append(Below(3), stack[Len(stack) - k]) /\ Live(L[ip + 1])
  BY <1>1, <1>4, <1>7
<1> HIDE DEF l, n, params
<1>9. IsAt(T, L, ip + 1, Append(Below(3), stack[Len(stack) - k]))
  BY <1>8, NextIsAt
<1> QED BY <1>6, <1>9, ContinueFine

-----------------------------------------------------------------------------
(* Jumps: the other ways of going on.                                      *)

LEMMA ConditionPops ==
  ASSUME NEW u \in Seq(Types), stack = u \o <<"i32">>
  PROVE  PopFault(<<"i32">>) = "none" /\ Below(1) = u
<1> DEFINE c == <<"i32">>
<1>1. c \in Seq(Types) /\ Len(c) = 1 /\ c[1] = "i32"
  BY DEF Types
<1> HIDE DEF c
<1>2. /\ stack \in Seq(Types) /\ Len(stack) = Len(u) + 1 /\ Len(u) \in Nat
      /\ \A k \in 1..(Len(u) + 1) : stack[k] = IF k <= Len(u) THEN u[k] ELSE c[k - Len(u)]
  <2>1. stack = u \o c
    BY DEF c
  <2> QED BY <1>1, <2>1, ConcatProperties, LenProperties
<1>3. stack[Len(stack)] = "i32"
  BY <1>1, <1>2
<1>4. PopFault(c) = "none"
  <2>1. \A k \in 1..1 : k = 1 /\ 1 - k + 1 = 1 /\ Len(stack) - k + 1 = Len(stack)
    BY <1>2
  <2> QED BY <1>1, <1>2, <1>3, <2>1 DEF PopFault
<1>5. Below(1) = u
  <2>1. /\ SubSeq(stack, 1, Len(u)) \in Seq(Types) /\ Len(SubSeq(stack, 1, Len(u))) = Len(u)
        /\ \A j \in 1..Len(u) : SubSeq(stack, 1, Len(u))[j] = stack[j]
    BY <1>2, SubSeqProperties
  <2>2. \A j \in 1..Len(u) : stack[j] = u[j]
    BY <1>2
  <2>3. SubSeq(stack, 1, Len(u)) = u
    BY <2>1, <2>2, SeqEqual
  <2>4. Len(stack) - 1 = Len(u)
    BY <1>2
  <2> QED BY <2>3, <2>4 DEF Below
<1> QED BY <1>4, <1>5 DEF c

\* What is on the stack before and behind an opener.
LEMMA OpenerPlace ==
  ASSUME NEW code, NEW p, NEW T, NEW L, Traced(code, p, T, L),
         NEW k \in 0..(p - 1), code[k + 1].op \in Openers
  PROVE  LET j == code[k + 1] IN
         /\ j.type.params \in Seq(Types) /\ Base(T, L, k) \in Seq(OperandTypes)
         /\ T[k + 1] = Base(T, L, k) \o j.type.params
         /\ Live(L[k]) => T[k] = Base(T, L, k) \o Entry(j)
BY BlockEntered

LEMMA IfFine ==
  ASSUME Sound, NEW T, NEW L, Follows(T, L), RunInstruction, NEW i, i = At(instructions, ip),
         RunIf(i)
  PROVE  Fine(T, L)
<1> DEFINE base == Base(T, L, ip)
           params == i.type.params
<1>1. /\ i \in InstructionType /\ stack \in Seq(Types) /\ Live(L[ip])
      /\ Passing(i, stack, L[ip], T[ip + 1], L[ip + 1])
      /\ ip \in Indices /\ ip \in 0..(Len(instructions) - 1)
      /\ i = instructions[ip + 1]
  BY RunsHere
<1>2. /\ i.op = "if" /\ i.op \in Openers /\ IsOp(ip, {"if"})
      /\ Traced(instructions, Len(instructions), T, L) /\ stack = T[ip] /\ Running
  BY DEF RunIf, Openers, Follows, IsAt, IsOp, Sound
<1>3. /\ params \in Seq(Types) /\ base \in Seq(OperandTypes)
      /\ T[ip + 1] = base \o params
      /\ stack = base \o Entry(i)
  <2>1. /\ Traced(instructions, Len(instructions), T, L) /\ ip \in 0..(Len(instructions) - 1)
        /\ instructions[ip + 1].op \in Openers
    BY <1>1, <1>2
  <2>2. LET j == instructions[ip + 1] IN
        /\ j.type.params \in Seq(Types) /\ Base(T, L, ip) \in Seq(OperandTypes)
        /\ T[ip + 1] = Base(T, L, ip) \o j.type.params
        /\ Live(L[ip]) => T[ip] = Base(T, L, ip) \o Entry(j)
    BY <2>1, OpenerPlace
  <2> QED BY <1>1, <1>2, <2>2
<1>4. base \in Seq(Types)
  <2> HIDE DEF base
  <2>1. Entry(i) \in Seq(OperandTypes)
    <3>1. Entry(i) \in Seq(Types)
      BY <1>1, TypedBy
    <3> QED BY <3>1, TypesAreOperands
  <2>2. /\ Len(stack) = Len(base) + Len(Entry(i)) /\ Len(base) \in Nat /\ Len(Entry(i)) \in Nat
        /\ \A k \in 1..(Len(base) + Len(Entry(i))) :
             stack[k] = IF k <= Len(base) THEN base[k] ELSE Entry(i)[k - Len(base)]
    BY <1>3, <2>1, ConcatProperties, LenProperties
  <2>3. \A k \in 1..Len(base) : base[k] = stack[k] /\ k \in 1..Len(stack)
    BY <2>2
  <2>4. \A k \in 1..Len(base) : base[k] \in Types
    BY <1>1, <2>3, ElementOfSeq
  <2>5. base \in [1..Len(base) -> Types]
    BY <1>3, <2>4, LenProperties
  <2> QED BY <2>2, <2>5, FunctionIsSeq
<1>5. stack = (base \o params) \o <<"i32">> /\ base \o params \in Seq(Types)
  <2> HIDE DEF base, params
  <2>1. Entry(i) = Append(params, "i32")
    BY <1>2 DEF Entry, params
  <2>2. "i32" \in Types /\ Append(params, "i32") = params \o <<"i32">>
    BY <1>3, AppendIsConcat DEF Types
  <2>3. <<"i32">> \in Seq(Types)
    BY <2>2
  <2>4. base \o (params \o <<"i32">>) = (base \o params) \o <<"i32">>
    BY <1>3, <1>4, <2>3, ConcatAssociative
  <2> QED BY <1>3, <1>4, <2>1, <2>2, <2>4, ConcatProperties
<1>6. PopFault(<<"i32">>) = "none" /\ Below(1) = base \o params
  BY <1>5, ConditionPops
<1>7. IsAt(T, L, ip + 1, base \o params)
  <2>1. Effect(i, stack, L[ip], T[ip + 1], L[ip + 1]) /\ L[ip] \in Seq(ValidatorLabels)
    BY <1>1 DEF Passing, AtPlace
  <2>2. \E label, height : L[ip + 1] = Append(L[ip], BlockLabel(i, height, label))
    BY <1>2, <2>1 DEF Effect, EffectOnBlocks, Enters
  <2>3. Live(L[ip + 1])
    BY <1>1, <2>1, <2>2, EnteredLive
  <2> QED BY <1>3, <2>3, NextIsAt
<1>8. ASSUME i.elseLocation # 0
      PROVE  IsAt(T, L, i.elseLocation + 1, base \o params)
  <2> DEFINE e == i.elseLocation
  <2>1. e \in ElsesOf(ip)
    BY <1>1, <1>2, <1>8, ElseIsFound
  <2>2. e \in Indices /\ ElseIn(instructions, ip, e)
    BY <1>1, <1>2, <2>1, ElsesAreIn
  <2>3. e \in 0..(Len(instructions) - 1) /\ e + 1 \in 0..Len(instructions)
    BY <1>2, <2>2, RunningCode
  <2> HIDE DEF e
  <2>4. /\ T[e + 1] = Base(T, L, ip) \o instructions[ip + 1].type.params
        /\ Live(L[ip]) => Live(L[e + 1])
    BY <1>2, <2>2, <2>3, ElsePlace
  <2> QED BY <1>1, <2>3, <2>4 DEF IsAt, e
<1>9. ASSUME i.elseLocation = 0
      PROVE  IsAt(T, L, i.label.continuation, base \o params)
  <2>1. LeadsOutOf(i.label, instructions, ip)
    BY <1>1, <1>2, IfLeads
  <2>2. PICK q \in Places(instructions) :
          EndsAt(instructions, ip, q) /\ i.label.continuation = q + 1
    BY <1>1, <1>2, <2>1 DEF LeadsOutOf, LeadsTo
  <2>3. q \in 0..(Len(instructions) - 1) /\ q + 1 \in 0..Len(instructions)
    BY <1>2, RunningCode DEF Places
  <2>4. params = i.type.returns
    BY <1>1, <1>2, <1>9, NotUnchecked
  <2>5. /\ T[q + 1] = Base(T, L, ip) \o instructions[ip + 1].type.returns
        /\ Live(L[ip]) => Live(L[q + 1])
    BY <1>2, <2>2, <2>3, EndPlace
  <2> QED BY <1>1, <2>2, <2>3, <2>4, <2>5 DEF IsAt
<1> DEFINE to == IF i.elseLocation # 0 THEN i.elseLocation + 1 ELSE i.label.continuation
<1>10. Continue(ip + 1, Below(1)) \/ Continue(to, Below(1))
  BY <1>6 DEF RunIf, Popping
<1>11. IsAt(T, L, ip + 1, Below(1)) /\ IsAt(T, L, to, Below(1))
  BY <1>6, <1>7, <1>8, <1>9
<1> HIDE DEF to
<1> QED BY <1>10, <1>11, ContinueFine

LEMMA ElseFine ==
  ASSUME Sound, NEW T, NEW L, Follows(T, L), RunInstruction, NEW i, i = At(instructions, ip),
         RunElse(i)
  PROVE  Fine(T, L)
<1>1. /\ i \in InstructionType /\ stack \in Seq(Types) /\ Live(L[ip])
      /\ ip \in Indices /\ ip \in 0..(Len(instructions) - 1)
      /\ i = instructions[ip + 1]
  BY RunsHere
<1>2. /\ i.op = "else" /\ Continue(i.label.continuation, stack)
      /\ Traced(instructions, Len(instructions), T, L) /\ stack = T[ip] /\ Running
  BY DEF RunElse, Follows, IsAt, Sound
<1>3. ElseOfIf(instructions, ip)
  BY <1>1, <1>2, RunningCode DEF Structured, ElsesInv
<1>4. PICK k \in Places(instructions) :
        instructions[k + 1].op = "if" /\ InnermostAt(instructions, k, ip)
  BY <1>3 DEF ElseOfIf
<1>5. k \in Indices /\ IsOp(k, {"if"}) /\ ElseIn(instructions, k, ip)
  BY <1>1, <1>2, <1>4, RunningCode DEF IsOp, At, ElseIn
<1>6. ip \in ElsesOf(k)
  BY <1>1, <1>2, <1>5, ElsesAreIn
<1>7. LeadsOutOf(i.label, instructions, k)
  BY <1>2, <1>5, <1>6, IfLeads
<1>8. PICK q \in Places(instructions) :
        EndsAt(instructions, k, q) /\ i.label.continuation = q + 1
  <2>1. k # -1 /\ instructions[k + 1].op # "loop"
    BY <1>2, <1>4, <1>5, RunningCode
  <2> QED BY <1>7, <2>1 DEF LeadsOutOf, LeadsTo
<1>9. q \in 0..(Len(instructions) - 1) /\ q + 1 \in 0..Len(instructions)
  BY <1>2, RunningCode DEF Places
<1>10. T[ip] = Base(T, L, k) \o instructions[k + 1].type.returns /\ Live(L[k])
  BY <1>1, <1>2, <1>5, ElsePlace
<1>11. T[q + 1] = Base(T, L, k) \o instructions[k + 1].type.returns /\ Live(L[q + 1])
  BY <1>2, <1>8, <1>9, <1>10, EndPlace
<1>12. IsAt(T, L, i.label.continuation, stack)
  BY <1>2, <1>8, <1>9, <1>10, <1>11 DEF IsAt
<1> QED BY <1>2, <1>12, ContinueFine

-----------------------------------------------------------------------------
(* Branches.                                                               *)

\* What a branch with index d at the instruction that runs leads to: the
\* function, a loop without parameters, or a block.  Its label has the height
\* of the block.
LeadsOn(T, L, label, d) ==
  LET taken == TakenAt(L[ip], d) IN
  \/ /\ TargetOf(ip, d) = -1
     /\ LeadsTo(label, Len(instructions), Len(FunctionType.returns))
     /\ label.stackHeight = 0 /\ taken = FunctionType.returns
  \/ \E k \in 0..(Len(instructions) - 1) :
       LET i == instructions[k + 1] IN
       /\ TargetOf(ip, d) = k /\ OpenAt(instructions, k, ip) /\ Live(L[k])
       /\ label.stackHeight = Height(L, k) /\ Height(L, k) <= Last(L[ip]).stackHeight
       /\ \/ i.op = "loop" /\ LeadsTo(label, k, 0) /\ taken = <<>> /\ i.type.params = <<>>
          \/ /\ i.op = "block" /\ taken = i.type.returns
             /\ \E q \in 0..(Len(instructions) - 1) :
                  /\ EndsAt(instructions, k, q)
                  /\ LeadsTo(label, q + 1, Len(i.type.returns))

\* A branch whose target is not checked is none of a sound code.
LEMMA TargetChecked ==
  ASSUME Sound, NEW i \in Indices, NEW n \in DOMAIN BranchDepths(i), NEW k,
         TargetOf(i, BranchDepths(i)[n]) = k, k # -1
  PROVE  /\ At(instructions, k).op # "if"
         /\ At(instructions, k).op = "loop" => At(instructions, k).type.params = <<>>
BY DEF Sound, UncheckedByValidator, IsOp

LEMMA DepthsAreBranchDepths ==
  ASSUME NEW i
  PROVE  BranchDepths(i) = DepthsOf(At(instructions, i))
BY DEF BranchDepths, DepthsOf

\* The blocks that are open have their label at its place.
LEMMA LabelOfOpen ==
  ASSUME NEW code, NEW p, NEW T, NEW L, Traced(code, p, T, L), NEW q \in 0..p, NEW k,
         OpenAt(code, k, q), Live(L[q]), code[k + 1].op # "if", NEW d \in Nat,
         Nesting(code, k) = Nesting(code, q) - 1 - d
  PROVE  /\ LabelAt(L[q], d).label = LabelOf(L, k).label
         /\ LabelAt(L[q], d).returnTypes = code[k + 1].type.returns
         /\ LabelAt(L[q], d).type = "loop" <=> code[k + 1].op = "loop"
         /\ LabelOf(L, k).label.stackHeight = Height(L, k)
         /\ Live(L[k]) /\ Height(L, k) <= Last(L[q]).stackHeight
<1>1. /\ k \in 0..(p - 1) /\ k \in Nat /\ code[k + 1].op \in Openers
      /\ Inside(T, L, k, q) /\ p \in Nat
  BY InsideBlock, TracedPlaces
<1>2. k \in 0..p /\ Len(L[k]) = Nesting(code, k) + 1 /\ Len(L[q]) = Nesting(code, q) + 1
      /\ Nesting(code, k) \in Int /\ Nesting(code, q) \in Int /\ AtPlace(T[q], L[q])
  BY <1>1, TracedPlaces
<1>3. Len(L[q]) - d = Len(L[k]) + 1
  BY <1>2
<1>4. SameBlock(LabelAt(L[q], d), LabelOf(L, k)) /\ Len(L[k]) + 1 <= Len(L[q])
  BY <1>1, <1>3 DEF Inside, LabelAt
<1>5. Live(L[k])
  BY BaseKept
<1>6. /\ LabelOf(L, k).returnTypes = code[k + 1].type.returns
      /\ LabelOf(L, k).type = code[k + 1].op
      /\ LabelOf(L, k).label.stackHeight = Height(L, k)
  BY <1>1, <1>5, BlockEntered
<1>7. LabelAt(L[q], d).stackHeight = Height(L, k)
  BY <1>4 DEF SameBlock, Height
<1>8. LabelAt(L[q], d).stackHeight <= Last(L[q]).stackHeight
  <2>1. L[q] # <<>> /\ Len(L[q]) \in Nat /\ Len(L[k]) \in Nat
    <3>1. Len(L[k]) \in Nat
      BY <1>1, TracedPlaces
    <3>2. Len(L[q]) \in Nat /\ Len(L[q]) # 0
      <4>1. L[q] \in Seq(ValidatorLabels)
        BY <1>2 DEF AtPlace
      <4>2. Len(L[q]) \in Nat
        BY <4>1, LenProperties
      <4>3. Len(L[k]) + 1 <= Len(L[q])
        BY <1>4
      <4> QED BY <3>1, <4>2, <4>3
    <3>3. L[q] # <<>>
      BY <3>2
    <3> QED BY <3>1, <3>2, <3>3
  <2>2. Len(L[q]) - d \in 1..Len(L[q])
    BY <1>3, <1>4, <2>1
  <2>3. \A m \in 1..Len(L[q]) : L[q][m].stackHeight <= Last(L[q]).stackHeight
    BY <1>2, <2>1, TopLabel
  <2> QED BY <2>2, <2>3 DEF LabelAt
<1> QED BY <1>4, <1>5, <1>6, <1>7, <1>8 DEF SameBlock

LEMMA LabelOfFunction ==
  ASSUME NEW code, NEW p, NEW T, NEW L, Traced(code, p, T, L), NEW q \in 0..(p - 1),
         NEW d \in Nat, d = Nesting(code, q)
  PROVE  /\ LabelAt(L[q], d).label.stackHeight = 0
         /\ TakenAt(L[q], d) = FunctionType.returns
<1>1. /\ q \in 0..p /\ Len(L[q]) = Nesting(code, q) + 1 /\ L[q] # <<>>
      /\ Nesting(code, q) \in Int
  BY TracedPlaces
<1>2. SameBlock(L[q][1], EntryLabel(Len(code)))
  BY <1>1, EntryKept
<1>3. LabelAt(L[q], d) = L[q][1]
  BY <1>1 DEF LabelAt
<1>4. /\ EntryLabel(Len(code)).label.stackHeight = 0
      /\ EntryLabel(Len(code)).returnTypes = FunctionType.returns
      /\ EntryLabel(Len(code)).type = "entry"
  BY DEF EntryLabel
<1> QED BY <1>2, <1>3, <1>4 DEF SameBlock, TakenAt, BranchTypes

LEMMA BranchLeadsOn ==
  ASSUME Sound, NEW T, NEW L, Follows(T, L), RunInstruction, NEW i, i = At(instructions, ip),
         NEW n \in DOMAIN DepthsOf(i), NEW d \in Nat, d = DepthsOf(i)[n],
         LabelsOf(i)[n] = LabelAt(L[ip], d).label
  PROVE  LeadsOn(T, L, LabelsOf(i)[n], d)
<1> DEFINE label == LabelsOf(i)[n]
<1>1. /\ ip \in Indices /\ ip \in 0..(Len(instructions) - 1) /\ ip \in 0..Len(instructions)
      /\ i = instructions[ip + 1] /\ Live(L[ip]) /\ Running
      /\ Traced(instructions, Len(instructions), T, L)
      /\ Len(instructions) \in Nat
  BY RunsHere, RunningCode DEF Sound, Follows, IsAt
<1>2. BranchesAt(instructions, ip)
  BY <1>1, RunningCode DEF Structured, BranchInv
<1>3. PICK k \in {-1} \cup Places(instructions) :
        Names(instructions, ip, d, k) /\ LeadsOutOf(label, instructions, k)
  <2>1. ~BranchWraps(ip) /\ BranchDepths(ip) = DepthsOf(i)
    BY <1>1, NotUnchecked, DepthsAreBranchDepths
  <2>2. ~Wraps(DepthsOf(i)[n])
    BY <2>1 DEF BranchWraps
  <2> QED BY <1>1, <1>2, <2>2 DEF BranchesAt
<1>4. TargetOf(ip, d) = k
  BY <1>1, <1>3, TargetIsNamed
<1> HIDE DEF label
<1>5. CASE k = -1
  <2>1. d = Nesting(instructions, ip)
    BY <1>3, <1>5 DEF Names, OpenAt
  <2>2. LabelAt(L[ip], d).label.stackHeight = 0 /\ TakenAt(L[ip], d) = FunctionType.returns
    BY <1>1, <2>1, LabelOfFunction
  <2>3. LeadsTo(label, Len(instructions), Len(FunctionType.returns))
    BY <1>3, <1>5 DEF LeadsOutOf
  <2> QED BY <1>4, <1>5, <2>2, <2>3 DEF LeadsOn, label
<1>6. CASE k # -1
  <2>1. /\ k \in 0..(Len(instructions) - 1) /\ k \in Places(instructions)
        /\ OpenAt(instructions, k, ip)
        /\ Nesting(instructions, k) = Nesting(instructions, ip) - 1 - d
    BY <1>3, <1>6 DEF Names, Places
  <2>2. /\ instructions[k + 1].op # "if"
        /\ instructions[k + 1].op = "loop" => instructions[k + 1].type.params = <<>>
    <3>1. BranchDepths(ip) = DepthsOf(i)
      BY DepthsAreBranchDepths
    <3> QED BY <1>1, <1>4, <1>6, <3>1, TargetChecked DEF At
  <2>3. /\ LabelAt(L[ip], d).label = LabelOf(L, k).label
        /\ LabelAt(L[ip], d).returnTypes = instructions[k + 1].type.returns
        /\ LabelAt(L[ip], d).type = "loop" <=> instructions[k + 1].op = "loop"
        /\ LabelOf(L, k).label.stackHeight = Height(L, k)
        /\ Live(L[k]) /\ Height(L, k) <= Last(L[ip]).stackHeight
    BY <1>1, <2>1, <2>2, LabelOfOpen
  <2>4. label.stackHeight = Height(L, k)
    BY <2>3 DEF label
  <2>5. CASE instructions[k + 1].op = "loop"
    <3>1. LeadsTo(label, k, 0)
      <4>1. Len(<<>>) = 0
        OBVIOUS
      <4> QED BY <1>3, <1>6, <2>2, <2>5, <4>1 DEF LeadsOutOf
    <3>2. TakenAt(L[ip], d) = <<>>
      BY <2>3, <2>5 DEF TakenAt, BranchTypes
    <3> QED BY <1>4, <2>1, <2>2, <2>3, <2>4, <2>5, <3>1, <3>2 DEF LeadsOn, label
  <2>6. CASE instructions[k + 1].op # "loop"
    <3>1. instructions[k + 1].op = "block"
      BY <2>1, <2>2, <2>6 DEF OpenAt, Openers
    <3>2. \E q \in 0..(Len(instructions) - 1) :
            /\ EndsAt(instructions, k, q)
            /\ LeadsTo(label, q + 1, Len(instructions[k + 1].type.returns))
      BY <1>3, <1>6, <2>6 DEF LeadsOutOf, Places
    <3>3. TakenAt(L[ip], d) = instructions[k + 1].type.returns
      BY <2>3, <2>6 DEF TakenAt, BranchTypes
    <3> QED BY <1>4, <2>1, <2>3, <2>4, <3>1, <3>2, <3>3 DEF LeadsOn, label
  <2> QED BY <2>5, <2>6
<1> QED BY <1>5, <1>6 DEF label

\* What is left of the stack, and what is taken from it.
LEMMA KeptAndTaken ==
  ASSUME NEW u \in Seq(Types), NEW r \in Seq(Types)
  PROVE  LET operands == u \o r IN
         /\ Len(operands) = Len(u) + Len(r) /\ Len(u) \in Nat /\ Len(r) \in Nat
         /\ LastValues(operands, Len(r)) = r
<1> DEFINE operands == u \o r
<1>1. Len(u) \in Nat /\ Len(r) \in Nat
  BY LenProperties
<1>2. /\ Len(operands) = Len(u) + Len(r)
      /\ \A k \in 1..(Len(u) + Len(r)) :
           operands[k] = IF k <= Len(u) THEN u[k] ELSE r[k - Len(u)]
      /\ operands \in Seq(Types)
  BY ConcatProperties
<1> HIDE DEF operands
<1>3. LastValues(operands, Len(r)) = r
  <2> DEFINE m == Len(u) + 1
             n == Len(operands)
  <2>1. m \in Nat /\ n \in Nat /\ Len(operands) - Len(r) + 1 = m /\ n - m + 1 = Len(r)
    BY <1>1, <1>2
  <2>2. \A k \in m..n : operands[k] \in Types
    <3>1. \A k \in m..n : k \in 1..Len(operands)
      BY <1>1, <2>1
    <3> QED BY <1>2, <3>1, ElementOfSeq
  <2> HIDE DEF m, n
  <2>3. /\ SubSeq(operands, m, n) \in Seq(Types)
        /\ Len(SubSeq(operands, m, n)) = IF m <= n THEN n - m + 1 ELSE 0
        /\ \A k \in 1..(n - m + 1) : SubSeq(operands, m, n)[k] = operands[m + k - 1]
    BY <1>2, <2>1, <2>2, SubSeqProperties
  <2>4. Len(SubSeq(operands, m, n)) = Len(r)
    BY <1>1, <2>1, <2>3
  <2>5. \A k \in 1..Len(r) : SubSeq(operands, m, n)[k] = r[k]
    <3> SUFFICES ASSUME NEW k \in 1..Len(r)
                 PROVE  SubSeq(operands, m, n)[k] = r[k]
      OBVIOUS
    <3> DEFINE c == m + k - 1
    <3>1. SubSeq(operands, m, n)[k] = operands[c]
      BY <2>1, <2>3
    <3>2. c \in 1..(Len(u) + Len(r)) /\ ~(c <= Len(u)) /\ c - Len(u) = k
      BY <1>1 DEF m
    <3> HIDE DEF c
    <3>3. operands[c] = IF c <= Len(u) THEN u[c] ELSE r[c - Len(u)]
      BY <1>2, <3>2
    <3>4. operands[c] = r[c - Len(u)]
      BY <3>2, <3>3
    <3>5. r[c - Len(u)] = r[k]
      BY <3>2
    <3> QED BY <3>1, <3>4, <3>5
  <2>6. SubSeq(operands, m, n) = r
    BY <2>3, <2>4, <2>5, SeqEqual
  <2> QED BY <2>1, <2>6 DEF LastValues, n
<1> QED BY <1>1, <1>2, <1>3 DEF operands

\* The operands that are left under the condition or index of a branch.
UnderHere(T, L, operands) ==
  /\ operands \in Seq(Types)
  /\ Last(L[ip]).stackHeight <= Len(operands)
  /\ Len(operands) <= Len(stack)
  /\ \A j \in 1..Len(operands) : operands[j] = stack[j]

LEMMA BranchFine ==
  ASSUME Sound, NEW T, NEW L, Follows(T, L), RunInstruction, NEW label, NEW d,
         LeadsOn(T, L, label, d), NEW operands, UnderHere(T, L, operands),
         CanExpect(operands, Last(L[ip]), TakenAt(L[ip], d)), TakenAt(L[ip], d) \in Seq(Types),
         BranchTo(label, operands)
  PROVE  Fine(T, L)
<1> DEFINE i == At(instructions, ip)
           l == L[ip]
           taken == TakenAt(L[ip], d)
           u == AfterExpect(operands, Last(l), taken)
           h == label.stackHeight
<1>1. /\ Passing(i, stack, l, T[ip + 1], L[ip + 1])
      /\ stack \in Seq(Types) /\ Live(l) /\ ip \in 0..Len(instructions)
      /\ stack = T[ip] /\ Traced(instructions, Len(instructions), T, L)
      /\ T[Len(instructions)] = FunctionType.returns /\ Running
      /\ Len(instructions) \in Nat
  BY RunsHere, RunningCode DEF Follows, IsAt, Sound
<1>2. /\ Last(l) \in ValidatorLabels /\ ~Last(l).unreachable /\ Last(l).stackHeight \in Nat
  BY <1>1, LabelHere
<1>3. /\ u \in Seq(Types) /\ Len(u) >= Last(l).stackHeight /\ operands = u \o taken
      /\ Len(operands) \in Nat /\ operands \in Seq(Types)
  <2> HIDE DEF l, taken
  <2>1. /\ operands \in Seq(Types) /\ Last(l).stackHeight <= Len(operands)
        /\ CanExpect(operands, Last(l), taken) /\ taken \in Seq(Types)
    BY DEF UnderHere, l, taken
  <2>2. /\ u \in Seq(Types) /\ Len(u) >= Last(l).stackHeight
        /\ operands = u \o taken
    BY <1>2, <2>1, LiveExpect
  <2> QED BY <2>1, <2>2, LenProperties
<1> HIDE DEF u, i
<1>4. ASSUME NEW k, OpenAt(instructions, k, ip), h = Height(L, k),
             Height(L, k) <= Last(l).stackHeight
      PROVE  h \in Nat /\ h <= Len(u) /\ SubSeq(operands, 1, h) = Base(T, L, k)
  <2>1. /\ SubSeq(T[ip], 1, Height(L, k)) = Base(T, L, k)
        /\ Height(L, k) \in Nat /\ Height(L, k) <= Len(T[ip])
    BY <1>1, <1>4, BaseKept
  <2>2. h \in Nat /\ h <= Len(u) /\ h <= Len(operands) /\ h <= Len(stack)
    <3>1. Len(u) \in Nat /\ Last(l).stackHeight <= Len(operands)
      BY <1>3, LenProperties DEF UnderHere
    <3> QED BY <1>1, <1>2, <1>3, <1>4, <2>1, <3>1
  <2> HIDE DEF h
  <2>3. SubSeq(operands, 1, h) = SubSeq(stack, 1, h)
    <3>1. \A j \in 1..h : operands[j] = stack[j] /\ operands[j] \in Types /\ stack[j] \in Types
      <4>1. \A j \in 1..h : j \in 1..Len(operands)
        BY <1>3, <2>2
      <4>2. \A j \in 1..Len(operands) : operands[j] = stack[j] /\ operands[j] \in Types
        BY <1>3, ElementOfSeq DEF UnderHere
      <4> QED BY <4>1, <4>2
    <3>2. /\ SubSeq(operands, 1, h) \in Seq(Types) /\ Len(SubSeq(operands, 1, h)) = h
          /\ \A j \in 1..h : SubSeq(operands, 1, h)[j] = operands[j]
      BY <1>3, <2>2, <3>1, SubSeqProperties
    <3>3. /\ SubSeq(stack, 1, h) \in Seq(Types) /\ Len(SubSeq(stack, 1, h)) = h
          /\ \A j \in 1..h : SubSeq(stack, 1, h)[j] = stack[j]
      BY <1>1, <2>2, <3>1, SubSeqProperties
    <3> QED BY <3>1, <3>2, <3>3, SeqEqual
  <2> QED BY <1>1, <1>4, <2>1, <2>2, <2>3
<1>5. ASSUME h \in Nat, h <= Len(u), label.arity = Len(taken),
             IsAt(T, L, label.continuation, SubSeq(operands, 1, h) \o taken)
      PROVE  Fine(T, L)
  <2> HIDE DEF h, taken
  <2>1. /\ ~(label.stackHeight + label.arity > Len(operands))
        /\ LastValues(operands, label.arity) = taken
    <3>1. taken \in Seq(Types) /\ u \in Seq(Types)
      BY <1>3 DEF taken
    <3>2. /\ Len(u \o taken) = Len(u) + Len(taken) /\ Len(u) \in Nat /\ Len(taken) \in Nat
          /\ LastValues(u \o taken, Len(taken)) = taken
      BY <3>1, KeptAndTaken
    <3>3. /\ label.stackHeight \in Nat /\ label.stackHeight <= Len(u)
          /\ label.arity = Len(taken) /\ operands = u \o taken
      BY <1>3, <1>5 DEF h
    <3> QED BY <3>2, <3>3
  <2>2. Continue(label.continuation, SubSeq(operands, 1, h) \o taken)
    BY <2>1 DEF BranchTo, h
  <2> QED BY <1>5, <2>2, ContinueFine
<1>6. CASE /\ LeadsTo(label, Len(instructions), Len(FunctionType.returns))
           /\ label.stackHeight = 0 /\ taken = FunctionType.returns
  <2>1. L[Len(instructions)] = <<>> /\ Len(instructions) \in 0..Len(instructions)
    <3>1. Len(instructions) \in 0..Len(instructions)
      BY <1>1
    <3>2. /\ Len(L[Len(instructions)]) = Nesting(instructions, Len(instructions)) + 1
          /\ AtPlace(T[Len(instructions)], L[Len(instructions)])
      BY <1>1, <3>1, TracedPlaces
    <3>3. Nesting(instructions, Len(instructions)) = -1
      BY <1>1, RunningCode DEF Balanced
    <3>4. Len(L[Len(instructions)]) = 0
      BY <3>2, <3>3
    <3> QED BY <3>1, <3>2, <3>4, EmptySeq DEF AtPlace
  <2>2. Live(L[Len(instructions)])
    BY <2>1 DEF Live
  <2>3. SubSeq(operands, 1, 0) \o taken = taken
    <3> HIDE DEF taken
    <3>1. taken \in Seq(Types)
      BY DEF taken
    <3>2. SubSeq(operands, 1, 0) = <<>>
      BY <1>3
    <3> QED BY <3>1, <3>2, ConcatEmptySeq
  <2>4. IsAt(T, L, label.continuation, SubSeq(operands, 1, h) \o taken)
    BY <1>1, <1>6, <2>1, <2>2, <2>3 DEF IsAt, LeadsTo
  <2>5. h \in Nat /\ h <= Len(u) /\ label.arity = Len(taken)
    BY <1>3, <1>6, LenProperties DEF LeadsTo
  <2> QED BY <1>5, <2>4, <2>5
<1>7. ASSUME NEW k \in 0..(Len(instructions) - 1), OpenAt(instructions, k, ip), Live(L[k]),
             h = Height(L, k), Height(L, k) <= Last(l).stackHeight,
             instructions[k + 1].op = "loop", LeadsTo(label, k, 0), taken = <<>>,
             instructions[k + 1].type.params = <<>>
      PROVE  Fine(T, L)
  <2>1. h \in Nat /\ h <= Len(u) /\ SubSeq(operands, 1, h) = Base(T, L, k)
    BY <1>4, <1>7
  <2>2. T[k] = Base(T, L, k) \o <<>>
    <3>1. /\ Traced(instructions, Len(instructions), T, L)
          /\ instructions[k + 1].op \in Openers
      BY <1>1, <1>7 DEF Openers
    <3>2. k \in 0..(Len(instructions) - 1) /\ Live(L[k])
      BY <1>7
    <3>3. T[k] = Base(T, L, k) \o Entry(instructions[k + 1])
      BY <3>1, <3>2, OpenerPlace
    <3>4. Entry(instructions[k + 1]) = <<>>
      BY <1>7 DEF Entry
    <3> QED BY <3>3, <3>4
  <2>3. label.arity = Len(taken) /\ label.continuation = k
    BY <1>7 DEF LeadsTo
  <2>4. k \in 0..Len(instructions)
    BY <1>1, <1>7
  <2> QED BY <1>5, <1>7, <2>1, <2>2, <2>3, <2>4 DEF IsAt
<1>8. ASSUME NEW k, k \in 0..(Len(instructions) - 1), OpenAt(instructions, k, ip), Live(L[k]),
             h = Height(L, k), Height(L, k) <= Last(l).stackHeight,
             taken = instructions[k + 1].type.returns,
             NEW q, q \in 0..(Len(instructions) - 1), EndsAt(instructions, k, q),
             LeadsTo(label, q + 1, Len(instructions[k + 1].type.returns))
      PROVE  Fine(T, L)
  <2>1. h \in Nat /\ h <= Len(u) /\ SubSeq(operands, 1, h) = Base(T, L, k)
    BY <1>4, <1>8
  <2>2. /\ T[q + 1] = Base(T, L, k) \o instructions[k + 1].type.returns
        /\ Live(L[k]) => Live(L[q + 1])
    <3>1. /\ Traced(instructions, Len(instructions), T, L) /\ EndsAt(instructions, k, q)
          /\ q \in 0..(Len(instructions) - 1)
      BY <1>1, <1>8
    <3> QED BY ONLY <3>1, EndPlace
  <2>3. label.arity = Len(taken) /\ label.continuation = q + 1
    BY <1>8 DEF LeadsTo
  <2>4. q + 1 \in 0..Len(instructions)
    BY <1>1, <1>8
  <2> QED BY <1>5, <1>8, <2>1, <2>2, <2>3, <2>4 DEF IsAt
<1> QED BY <1>6, <1>7, <1>8 DEF LeadsOn

\* Popping a condition or an index.
LEMMA ConditionHere ==
  ASSUME Sound, NEW T, NEW L, Follows(T, L), RunInstruction, NEW i, i = At(instructions, ip),
         CanExpect(stack, Last(L[ip]), <<"i32">>)
  PROVE  /\ PopFault(<<"i32">>) = "none" /\ Below(1) \in Seq(Types)
         /\ Below(1) = AfterExpect(stack, Last(L[ip]), <<"i32">>)
         /\ UnderHere(T, L, Below(1))
<1> DEFINE l == L[ip]
           c == <<"i32">>
           under == AfterExpect(stack, Last(l), c)
<1>1. /\ stack \in Seq(Types) /\ Live(l) /\ Passing(i, stack, l, T[ip + 1], L[ip + 1])
  BY RunsHere
<1>2. /\ Last(l) \in ValidatorLabels /\ ~Last(l).unreachable
      /\ Last(l).stackHeight \in Nat /\ Last(l).stackHeight <= Len(stack) /\ Len(stack) \in Nat
      /\ AtPlace(stack, l) /\ l # <<>> /\ UnknownIsDead(stack, l)
  BY <1>1, LabelHere
<1>3. c \in Seq(Types) /\ Len(c) = 1 /\ CanExpect(stack, Last(l), c)
  BY DEF Types
<1>4. /\ under \in Seq(OperandTypes) /\ Len(under) \in Nat
      /\ Len(under) >= Last(l).stackHeight /\ Len(under) <= Len(stack)
      /\ \A j \in 1..Len(under) : under[j] = stack[j]
      /\ Live(l) => under \in Seq(Types)
  BY <1>2, <1>3, UnderCondition
<1> HIDE DEF l, c
<1>5. PopFault(c) = "none" /\ Below(Len(c)) = under
  <2>1. \A k \in 1..Len(c) : c[k] \in {AnyType, c[k]}
    OBVIOUS
  <2> QED BY <1>1, <1>2, <1>3, <2>1, PopsExpected
<1> HIDE DEF under
<1>6. UnderHere(T, L, under)
  BY <1>1, <1>2, <1>4 DEF UnderHere, l
<1> QED BY <1>1, <1>3, <1>4, <1>5, <1>6 DEF under, l, c

LEMMA StackHere ==
  ASSUME Sound, NEW T, NEW L, Follows(T, L), RunInstruction, NEW i, i = At(instructions, ip)
  PROVE  UnderHere(T, L, stack)
<1>1. /\ stack \in Seq(Types) /\ Live(L[ip])
      /\ Passing(i, stack, L[ip], T[ip + 1], L[ip + 1])
  BY RunsHere
<1>2. Last(L[ip]).stackHeight <= Len(stack) /\ Len(stack) \in Nat
  BY <1>1, LabelHere
<1> QED BY <1>1, <1>2 DEF UnderHere

\* What a branch takes has types.
LEMMA TakenTyped ==
  ASSUME Sound, NEW T, NEW L, Follows(T, L), RunInstruction, NEW i, i = At(instructions, ip),
         NEW d \in Nat, InLabels(L[ip], d)
  PROVE  TakenAt(L[ip], d) \in Seq(Types)
<1>1. /\ stack \in Seq(Types) /\ Live(L[ip])
      /\ Passing(i, stack, L[ip], T[ip + 1], L[ip + 1])
  BY RunsHere
<1>2. AtPlace(stack, L[ip]) /\ L[ip] # <<>>
  BY <1>1, LabelHere
<1> QED BY <1>2, LabelAtDepth

LEMMA BrFine ==
  ASSUME Sound, NEW T, NEW L, Follows(T, L), RunInstruction, NEW i, i = At(instructions, ip),
         RunBr(i)
  PROVE  Fine(T, L)
<1> DEFINE d == i.idx
<1>1. /\ i \in InstructionType /\ stack \in Seq(Types) /\ Live(L[ip])
      /\ Passing(i, stack, L[ip], T[ip + 1], L[ip + 1])
  BY RunsHere
<1>2. i.op = "br" /\ BranchTo(i.label, stack) /\ d \in Nat
  BY <1>1 DEF RunBr, InstructionType
<1>3. Effect(i, stack, L[ip], T[ip + 1], L[ip + 1])
  BY <1>1, LabelHere
<1>4. /\ InLabels(L[ip], d) /\ CanExpect(stack, Last(L[ip]), TakenAt(L[ip], d))
      /\ i.label = LabelAt(L[ip], d).label
  BY <1>2, <1>3 DEF Effect, EffectOfBranches
<1>5. /\ 1 \in DOMAIN DepthsOf(i) /\ d = DepthsOf(i)[1]
      /\ LabelsOf(i)[1] = i.label
  BY <1>2 DEF DepthsOf, LabelsOf
<1> HIDE DEF d
<1>6. LeadsOn(T, L, i.label, d)
  <2>1. LabelsOf(i)[1] = LabelAt(L[ip], d).label
    BY <1>4, <1>5
  <2>2. LeadsOn(T, L, LabelsOf(i)[1], d)
    BY <1>2, <1>5, <2>1, BranchLeadsOn
  <2> QED BY <1>5, <2>2
<1>7. TakenAt(L[ip], d) \in Seq(Types) /\ UnderHere(T, L, stack)
  BY <1>2, <1>4, TakenTyped, StackHere
<1> QED BY <1>2, <1>4, <1>6, <1>7, BranchFine

LEMMA BrTableFine ==
  ASSUME Sound, NEW T, NEW L, Follows(T, L), RunInstruction, NEW i, i = At(instructions, ip),
         RunBrTable(i)
  PROVE  Fine(T, L)
<1>1. /\ i \in InstructionType /\ stack \in Seq(Types) /\ Live(L[ip])
      /\ Passing(i, stack, L[ip], T[ip + 1], L[ip + 1])
  BY RunsHere
<1>2. i.op = "br_table" /\ i.depths \in Seq(Nat)
  BY <1>1 DEF RunBrTable, InstructionType
<1>3. Effect(i, stack, L[ip], T[ip + 1], L[ip + 1])
  BY <1>1, LabelHere
<1>4. /\ CanExpect(stack, Last(L[ip]), <<"i32">>)
      /\ \A k \in DOMAIN i.depths :
           /\ InLabels(L[ip], i.depths[k])
           /\ CanExpect(AfterExpect(stack, Last(L[ip]), <<"i32">>), Last(L[ip]),
                        TakenAt(L[ip], i.depths[k]))
      /\ i.targets = [k \in DOMAIN i.depths |-> LabelAt(L[ip], i.depths[k]).label]
  BY <1>2, <1>3 DEF Effect, EffectOfBranches
<1>5. /\ PopFault(<<"i32">>) = "none"
      /\ Below(1) = AfterExpect(stack, Last(L[ip]), <<"i32">>)
      /\ UnderHere(T, L, Below(1))
  BY <1>4, ConditionHere
<1>6. PICK k \in DOMAIN i.targets : BranchTo(i.targets[k], Below(1))
  BY <1>5 DEF RunBrTable, Popping
<1> DEFINE d == i.depths[k]
<1>7. /\ k \in DOMAIN i.depths /\ i.targets[k] = LabelAt(L[ip], d).label
      /\ InLabels(L[ip], d) /\ CanExpect(Below(1), Last(L[ip]), TakenAt(L[ip], d))
  BY <1>4, <1>5, <1>6
<1>8. d \in Nat
  <2>1. DOMAIN i.depths = 1..Len(i.depths)
    BY <1>2, LenProperties
  <2> QED BY <1>2, <1>7, <2>1, ElementOfSeq
<1>9. /\ k \in DOMAIN DepthsOf(i) /\ d = DepthsOf(i)[k] /\ LabelsOf(i)[k] = i.targets[k]
  BY <1>2, <1>7 DEF DepthsOf, LabelsOf
<1> HIDE DEF d
<1>10. LeadsOn(T, L, i.targets[k], d)
  <2>1. LabelsOf(i)[k] = LabelAt(L[ip], d).label
    BY <1>7, <1>9
  <2>2. LeadsOn(T, L, LabelsOf(i)[k], d)
    BY <1>8, <1>9, <2>1, BranchLeadsOn
  <2> QED BY <1>9, <2>2
<1>11. TakenAt(L[ip], d) \in Seq(Types)
  BY <1>7, <1>8, TakenTyped
<1> QED BY <1>5, <1>6, <1>7, <1>10, <1>11, BranchFine

\* The operands that a conditional branch leaves are the same backwards.
LEMMA TakenReverses ==
  ASSUME Sound, NEW T, NEW L, Follows(T, L), RunInstruction, NEW i, i = At(instructions, ip),
         i.op = "br_if", NEW label, LeadsOn(T, L, label, i.idx)
  PROVE  Reverse(TakenAt(L[ip], i.idx)) = TakenAt(L[ip], i.idx)
<1> DEFINE d == i.idx
           taken == TakenAt(L[ip], d)
           target == TargetOf(ip, d)
           results == IF target = -1 THEN FunctionType.returns
                      ELSE At(instructions, target).type.returns
<1>1. ip \in Indices
  BY RunsHere
<1>2. Reverse(results) = results
  BY <1>1 DEF Sound, UncheckedByValidator, IsOp
<1>3. \/ taken = <<>> \/ taken = results
  <2>1. CASE target = -1 /\ taken = FunctionType.returns
    BY <2>1
  <2>2. ASSUME NEW k \in 0..(Len(instructions) - 1), target = k,
               taken = <<>> \/ taken = instructions[k + 1].type.returns
        PROVE  \/ taken = <<>> \/ taken = results
    <3>1. Len(instructions) \in Nat
      BY RunningCode DEF Sound
    <3>2. target # -1
      BY <2>2, <3>1
    <3> QED BY <2>2, <3>2 DEF At
  <2> HIDE DEF taken, target, results, d
  <2> QED BY <2>1, <2>2 DEF LeadsOn, taken, target, d
<1>4. Reverse(<<>>) = <<>>
  BY DEF Reverse
<1> QED BY <1>2, <1>3, <1>4

LEMMA BrIfFine ==
  ASSUME Sound, NEW T, NEW L, Follows(T, L), RunInstruction, NEW i, i = At(instructions, ip),
         RunBrIf(i)
  PROVE  Fine(T, L)
<1> DEFINE d == i.idx
           l == L[ip]
           taken == TakenAt(l, d)
           under == AfterExpect(stack, Last(l), <<"i32">>)
<1>1. /\ i \in InstructionType /\ stack \in Seq(Types) /\ Live(l)
      /\ Passing(i, stack, l, T[ip + 1], L[ip + 1])
  BY RunsHere
<1>2. i.op = "br_if" /\ d \in Nat
  BY <1>1 DEF RunBrIf, InstructionType
<1>3. Effect(i, stack, l, T[ip + 1], L[ip + 1])
  BY <1>1, LabelHere
<1>4. /\ InLabels(l, d) /\ i.label = LabelAt(l, d).label
      /\ CanExpect(stack, Last(l), <<"i32">>) /\ CanExpect(under, Last(l), taken)
      /\ T[ip + 1] = AfterExpect(under, Last(l), taken)
                       \o [k \in 1..Len(taken) |-> Popped(under, Last(l), Len(taken), k)]
      /\ L[ip + 1] = l
  BY <1>2, <1>3 DEF Effect, EffectOfBranches, BranchesOn
<1>5. /\ PopFault(<<"i32">>) = "none" /\ Below(1) \in Seq(Types) /\ Below(1) = under
      /\ UnderHere(T, L, Below(1))
  BY <1>4, ConditionHere
<1>6. /\ 1 \in DOMAIN DepthsOf(i) /\ d = DepthsOf(i)[1] /\ LabelsOf(i)[1] = i.label
  BY <1>2 DEF DepthsOf, LabelsOf
<1> HIDE DEF d, l, taken, under
<1>7. LeadsOn(T, L, i.label, d)
  <2>1. LabelsOf(i)[1] = LabelAt(L[ip], d).label
    BY <1>4, <1>6 DEF l
  <2>2. LeadsOn(T, L, LabelsOf(i)[1], d)
    BY <1>2, <1>6, <2>1, BranchLeadsOn
  <2> QED BY <1>6, <2>2
<1>8. taken \in Seq(Types)
  BY <1>2, <1>4, TakenTyped DEF l, taken
<1>9. CASE BranchTo(i.label, Below(1))
  <2>1. CanExpect(Below(1), Last(L[ip]), TakenAt(L[ip], d)) /\ TakenAt(L[ip], d) \in Seq(Types)
    BY <1>4, <1>5, <1>8 DEF l, taken
  <2> QED BY <1>5, <1>7, <1>9, <2>1, BranchFine
<1>10. CASE Continue(ip + 1, Below(1))
  <2> DEFINE u == AfterExpect(under, Last(l), taken)
             again == [k \in 1..Len(taken) |-> Popped(under, Last(l), Len(taken), k)]
  <2>1. /\ Last(l) \in ValidatorLabels /\ ~Last(l).unreachable /\ Last(l).stackHeight \in Nat
    BY <1>1, LabelHere
  <2>2. under \in Seq(Types) /\ Last(l).stackHeight <= Len(under) /\ Len(under) \in Nat
    BY <1>5, LenProperties DEF UnderHere, l
  <2>3. under = u \o taken
    BY <1>4, <1>8, <2>1, <2>2, LiveExpect
  <2>4. /\ \A k \in 1..Len(taken) :
             under[Len(under) - k + 1] = taken[Len(taken) - k + 1]
    BY <1>4, <1>8, <2>1, <2>2, LiveExpect
  <2>5. /\ Len(taken) \in Nat /\ CanPop(under, Last(l), Len(taken))
    BY <1>4, <1>8, LenProperties DEF CanExpect
  <2>6. \A k \in 1..Len(taken) :
          Popped(under, Last(l), Len(taken), k) = under[Len(under) - k + 1]
    BY <2>1, <2>2, <2>5, LivePop
  <2>7. again = Reverse(taken)
    BY <2>4, <2>6 DEF Reverse
  <2>8. Reverse(taken) = taken
    BY <1>2, <1>7, TakenReverses DEF taken, l, d
  <2>9. T[ip + 1] = Below(1) /\ Live(L[ip + 1])
    <3> HIDE DEF u, again
    <3>1. T[ip + 1] = u \o again
      BY <1>4 DEF u, again
    <3> QED BY <1>1, <1>4, <1>5, <2>3, <2>7, <2>8, <3>1
  <2>10. IsAt(T, L, ip + 1, Below(1))
    BY <2>9, NextIsAt
  <2> QED BY <1>10, <2>10, ContinueFine
<1> QED BY <1>5, <1>9, <1>10 DEF RunBrIf, Popping

-----------------------------------------------------------------------------
(* The ways out of the function.                                           *)

LEMMA UnreachableFine ==
  ASSUME NEW T, NEW L, NEW i, RunUnreachable(i)
  PROVE  Fine(T, L)
BY StopFine DEF RunUnreachable

\* What an instruction that leaves the function finds on the stack.
LEMMA LeavingHere ==
  ASSUME Sound, NEW T, NEW L, Follows(T, L), RunInstruction, NEW i, i = At(instructions, ip),
         NEW expected \in Seq(Types), CanExpect(stack, Last(L[ip]), expected)
  PROVE  \E u \in Seq(Types) : stack = u \o expected
<1> DEFINE l == L[ip]
<1>1. /\ stack \in Seq(Types) /\ Live(l) /\ Passing(i, stack, l, T[ip + 1], L[ip + 1])
  BY RunsHere
<1>2. /\ Last(l) \in ValidatorLabels /\ ~Last(l).unreachable
      /\ Last(l).stackHeight <= Len(stack)
  BY <1>1, LabelHere
<1>3. CanExpect(stack, Last(l), expected)
  OBVIOUS
<1> HIDE DEF l
<1> DEFINE u == AfterExpect(stack, Last(l), expected)
<1>4. u \in Seq(Types) /\ stack = u \o expected
  BY <1>1, <1>2, <1>3, LiveExpect
<1> QED BY <1>4

\* The results are on the stack.
LEMMA ReturnFine ==
  ASSUME Sound, NEW T, NEW L, Follows(T, L), RunInstruction, NEW i, i = At(instructions, ip),
         RunReturn(i)
  PROVE  Fine(T, L)
<1> DEFINE returns == FunctionType.returns
<1>1. Effect(i, stack, L[ip], T[ip + 1], L[ip + 1])
  BY RunsHere DEF Passing
<1>2. CanExpect(stack, Last(L[ip]), returns)
  BY <1>1 DEF RunReturn, Effect, EffectOfBranches
<1>3. returns \in Seq(Types)
  BY ValidatorAssumption DEF Signatures
<1> HIDE DEF returns
<1>4. PICK u \in Seq(Types) : stack = u \o returns
  BY <1>2, <1>3, LeavingHere
<1>5. /\ Len(u \o returns) = Len(u) + Len(returns) /\ Len(u) \in Nat /\ Len(returns) \in Nat
      /\ LastValues(u \o returns, Len(returns)) = returns
  BY <1>3, KeptAndTaken
<1>6. ~(Len(stack) < Len(returns)) /\ LastValues(stack, Len(returns)) = returns
  BY <1>4, <1>5
<1>7. Leave(FunctionType.returns)
  BY <1>6 DEF RunReturn, returns
<1> QED BY <1>7, LeaveFine

\* The operand that finds the callee is on top of the arguments.
LEMMA IndexPops ==
  ASSUME stack \in Seq(Types), NEW u \in Seq(Types), NEW a \in Seq(Types), NEW b \in Seq(Types),
         Len(b) = 1, stack = u \o (a \o b)
  PROVE  PopFault(b) = "none" /\ Len(Below(1)) \in Nat /\ Len(a) <= Len(Below(1))
<1>1. /\ Len(a) \in Nat /\ Len(u) \in Nat /\ a \o b \in Seq(Types)
      /\ Len(a \o b) = Len(a) + 1
      /\ \A k \in 1..(Len(a) + 1) :
           (a \o b)[k] = IF k <= Len(a) THEN a[k] ELSE b[k - Len(a)]
  <2>1. Len(a) \in Nat /\ Len(u) \in Nat
    BY LenProperties
  <2>2. /\ a \o b \in Seq(Types) /\ Len(a \o b) = Len(a) + Len(b)
        /\ \A k \in 1..(Len(a) + Len(b)) :
             (a \o b)[k] = IF k <= Len(a) THEN a[k] ELSE b[k - Len(a)]
    BY ConcatProperties
  <2> QED BY <2>1, <2>2
<1> DEFINE c == a \o b
<1>2. c \in Seq(Types) /\ Len(c) = Len(a) + 1 /\ c[Len(a) + 1] = b[1]
  <2>1. Len(a) + 1 \in 1..(Len(a) + 1) /\ ~(Len(a) + 1 <= Len(a)) /\ Len(a) + 1 - Len(a) = 1
    BY <1>1
  <2> QED BY <1>1, <2>1
<1> HIDE DEF c
<1>3. /\ Len(u \o c) = Len(u) + Len(c)
      /\ \A k \in 1..(Len(u) + Len(c)) :
           (u \o c)[k] = IF k <= Len(u) THEN u[k] ELSE c[k - Len(u)]
  <2>1. c \in Seq(Types)
    BY <1>2
  <2> QED BY <2>1, ConcatProperties
<1>4. Len(stack) = Len(u) + Len(a) + 1 /\ stack[Len(stack)] = b[1]
  <2>1. stack = u \o c
    BY DEF c
  <2> DEFINE n == Len(u) + Len(c)
  <2>2. n \in 1..(Len(u) + Len(c)) /\ ~(n <= Len(u)) /\ n - Len(u) = Len(a) + 1
        /\ n = Len(u) + Len(a) + 1
    BY <1>1, <1>2
  <2>3. Len(stack) = n
    BY <1>3, <2>1
  <2> HIDE DEF n
  <2>4. (u \o c)[n] = c[n - Len(u)]
    BY <1>3, <2>2
  <2>5. stack[n] = b[1]
    BY <1>2, <2>1, <2>2, <2>4
  <2> QED BY <2>2, <2>3, <2>5
<1>5. PopFault(b) = "none"
  <2>1. \A k \in 1..1 : k = 1 /\ 1 - k + 1 = 1 /\ Len(stack) - k + 1 = Len(stack)
    BY <1>1, <1>4
  <2>2. ~(1 > Len(stack))
    BY <1>1, <1>4
  <2> QED BY <1>4, <2>1, <2>2 DEF PopFault
<1>6. Len(Below(1)) = Len(u) + Len(a)
  <2>1. Len(stack) - 1 = Len(u) + Len(a)
    BY <1>1, <1>4
  <2>2. Len(u) + Len(a) \in Nat /\ Len(u) + Len(a) <= Len(stack)
    BY <1>1, <1>4
  <2> DEFINE m == Len(u) + Len(a)
  <2>3. m \in Nat /\ m <= Len(stack) /\ Below(1) = SubSeq(stack, 1, m)
    BY <2>1, <2>2 DEF Below
  <2> HIDE DEF m
  <2>4. Len(SubSeq(stack, 1, m)) = m
    <3>1. \A k \in 1..m : stack[k] \in Types
      <4>1. \A k \in 1..m : k \in 1..Len(stack)
        BY <2>3, LenProperties
      <4> QED BY <4>1, ElementOfSeq
    <3>2. Len(SubSeq(stack, 1, m)) = IF 1 <= m THEN m - 1 + 1 ELSE 0
      BY <2>3, <3>1, SubSeqProperties
    <3> QED BY <2>3, <3>2
  <2> QED BY <2>3, <2>4 DEF m
<1> QED BY <1>1, <1>5, <1>6

\* The arguments of the callee, and the operand that finds it.
LEMMA CallsHere ==
  ASSUME Sound, NEW T, NEW L, Follows(T, L), RunInstruction, NEW i, i = At(instructions, ip),
         i.op \in {"call_indirect", "return_call", "return_call_indirect"}
  PROVE  /\ i.op \in IndirectCalls =>
              /\ PopFault(CalleeIndex(i)) = "none"
              /\ Len(Below(1)) \in Nat /\ Len(CalleeType(i).params) <= Len(Below(1))
         /\ i.op = "return_call" =>
              Len(stack) \in Nat /\ Len(CalleeType(i).params) <= Len(stack)
         /\ i.op # "call_indirect" => CalleeType(i).returns = FunctionType.returns
<1> DEFINE params == CalleeType(i).params
           index == CalleeIndex(i)
<1>1. /\ i \in InstructionType /\ IndicesValid(i) /\ stack \in Seq(Types)
      /\ Effect(i, stack, L[ip], T[ip + 1], L[ip + 1])
  BY RunsHere DEF Passing, CheckedOps, SimpleOps
<1>2. index \in Seq(Types) /\ CalleeType(i) \in Signatures
  BY <1>1, CalleeTyped
<1>3. params \in Seq(Types) /\ Len(params) \in Nat
  BY <1>2, SignatureLengths
<1>4. /\ CanExpect(stack, Last(L[ip]), CallAs(i).params)
      /\ i.op # "call_indirect" => CalleeType(i).returns = FunctionType.returns
  <2>1. CASE i.op = "call_indirect"
    <3>1. ValidatedAs(i) = CallAs(i) /\ i.op \in SimpleOps
      BY <2>1 DEF ValidatedAs, SimpleOps, ConstantOps, VectorOps, VariableOps, LoadStoreOps,
                  BulkOps, TableOps, ReferenceOps
    <3> QED BY <1>1, <2>1, <3>1 DEF Effect, EffectOnOperands, Expects
  <2>2. CASE i.op # "call_indirect"
    BY <1>1, <2>2 DEF Effect, EffectOfBranches
  <2> QED BY <2>1, <2>2
<1>5. CallAs(i).params = params \o index
  BY DEF CallAs, Signature
<1>6. i.op \in IndirectCalls => Len(index) = 1
  BY DEF CalleeIndex
<1>7. i.op = "return_call" => index = <<>>
  BY DEF CalleeIndex, IndirectCalls
<1> HIDE DEF params, index
<1>8. params \o index \in Seq(Types)
  BY <1>2, <1>3, ConcatProperties
<1>9. PICK u \in Seq(Types) : stack = u \o (params \o index)
  BY <1>4, <1>5, <1>8, LeavingHere
<1>10. ASSUME i.op \in IndirectCalls
       PROVE  /\ PopFault(index) = "none"
              /\ Len(Below(1)) \in Nat /\ Len(params) <= Len(Below(1))
  BY <1>1, <1>2, <1>3, <1>6, <1>9, <1>10, IndexPops
<1>11. ASSUME i.op = "return_call"
       PROVE  Len(stack) \in Nat /\ Len(params) <= Len(stack)
  <2>1. params \o index = params
    BY <1>3, <1>7, <1>11, ConcatEmptySeq
  <2>2. stack = u \o params
    BY <1>9, <2>1
  <2>3. Len(u \o params) = Len(u) + Len(params) /\ Len(u) \in Nat
    BY <1>3, KeptAndTaken
  <2> QED BY <1>3, <2>2, <2>3
<1> QED BY <1>4, <1>10, <1>11 DEF params, index

\* The type of a callee found through a table is that of the call.
LEMMA CalleeIsTyped ==
  ASSUME Sound, NEW T, NEW L, Follows(T, L), RunInstruction, NEW i, i = At(instructions, ip),
         i.op \in {"call", "call_indirect", "return_call", "return_call_indirect"}
  PROVE  /\ CalleeTypes(i) = {CalleeType(i)}
         /\ ~RunOutsideTypes(i)
<1>1. /\ ip \in Indices /\ i \in InstructionType /\ IndicesValid(i)
  BY RunsHere DEF CheckedOps, SimpleOps
<1>2. CASE i.op \notin IndirectCalls
  BY <1>2 DEF CalleeTypes, RunOutsideTypes
<1>3. CASE i.op \in IndirectCalls
  <2>1. i.idx < Len(FunctionTypes) /\ CalleeType(i) = FunctionTypes[i.idx + 1]
    BY <1>1, <1>3 DEF IndicesValid, CalleeType, IndirectCalls
  <2>2. \A fileTypes \in ForeignTypes :
          /\ ~(i.idx >= Len(fileTypes))
          /\ fileTypes[i.idx + 1] = CalleeType(i)
    BY <1>1, <1>3, NotUnchecked DEF FindsOtherTypes, IsOp, At
  <2>3. i.idx \in Nat /\ \A fileTypes \in ForeignTypes : Len(fileTypes) \in Nat
    BY <1>1, LenProperties, InterpreterAssumption DEF InstructionType
  <2>4. \A fileTypes \in {FunctionTypes} \cup ForeignTypes :
          TypesAt(fileTypes, i.idx) = {CalleeType(i)}
    BY <2>1, <2>2, <2>3 DEF TypesAt
  <2>5. CalleeTypes(i) = {CalleeType(i)}
    BY <1>3, <2>4 DEF CalleeTypes
  <2>6. ~RunOutsideTypes(i)
    BY <2>2 DEF RunOutsideTypes
  <2> QED BY <2>5, <2>6
<1> QED BY <1>2, <1>3

LEMMA PartOfPart ==
  ASSUME NEW s \in Seq(Types), NEW m \in 0..Len(s), NEW n \in 0..m
  PROVE  SubSeq(SubSeq(s, 1, m), 1, n) = SubSeq(s, 1, n)
<1>1. Len(s) \in Nat /\ \A k \in 1..Len(s) : s[k] \in Types
  BY LenProperties, ElementOfSeq
<1>2. m \in Nat /\ n \in Nat /\ m <= Len(s) /\ n <= m
  BY <1>1
<1>3. /\ SubSeq(s, 1, m) \in Seq(Types) /\ Len(SubSeq(s, 1, m)) = m
      /\ \A k \in 1..m : SubSeq(s, 1, m)[k] = s[k]
  <2>1. \A k \in 1..m : s[k] \in Types
    BY <1>1, <1>2
  <2> QED BY <1>1, <1>2, <2>1, SubSeqProperties
<1>4. /\ SubSeq(s, 1, n) \in Seq(Types) /\ Len(SubSeq(s, 1, n)) = n
      /\ \A k \in 1..n : SubSeq(s, 1, n)[k] = s[k]
  <2>1. \A k \in 1..n : s[k] \in Types
    BY <1>1, <1>2
  <2> QED BY <1>1, <1>2, <2>1, SubSeqProperties
<1> DEFINE u == SubSeq(s, 1, m)
<1>5. u \in Seq(Types) /\ Len(u) = m /\ \A k \in 1..m : u[k] = s[k]
  BY <1>3
<1> HIDE DEF u
<1>6. /\ SubSeq(u, 1, n) \in Seq(Types) /\ Len(SubSeq(u, 1, n)) = n
      /\ \A k \in 1..n : SubSeq(u, 1, n)[k] = u[k]
  <2>1. \A k \in 1..n : u[k] \in Types
    BY <1>1, <1>2, <1>5
  <2> QED BY <1>2, <1>5, <2>1, SubSeqProperties
<1>7. \A k \in 1..n : SubSeq(u, 1, n)[k] = SubSeq(s, 1, n)[k]
  BY <1>2, <1>4, <1>5, <1>6
<1>8. SubSeq(u, 1, n) = SubSeq(s, 1, n)
  BY <1>4, <1>6, <1>7, SeqEqual
<1> QED BY <1>8 DEF u

\* A call takes what the validator has expected, and leaves the results.
LEMMA CallFine ==
  ASSUME Sound, NEW T, NEW L, Follows(T, L), RunInstruction, NEW i, i = At(instructions, ip),
         RunCall(i) \/ RunCallIndirect(i)
  PROVE  Fine(T, L)
<1> DEFINE callee == CalleeType(i)
           expected == CallAs(i).params
           l == L[ip]
           n == Len(callee.params)
<1>1. i.op \in {"call", "call_indirect"}
  BY DEF RunCall, RunCallIndirect
<1>2. /\ i \in InstructionType /\ stack \in Seq(Types) /\ Live(l) /\ IndicesValid(i)
      /\ Passing(i, stack, l, T[ip + 1], L[ip + 1])
  BY <1>1, RunsHere DEF CheckedOps, SimpleOps
<1>3. /\ Last(l) \in ValidatorLabels /\ ~Last(l).unreachable
      /\ Last(l).stackHeight <= Len(stack) /\ Len(stack) \in Nat
      /\ Effect(i, stack, l, T[ip + 1], L[ip + 1])
  BY <1>2, LabelHere
<1>4. callee \in Signatures /\ CalleeIndex(i) \in Seq(Types)
  BY <1>1, <1>2, CalleeTyped
<1>5. callee.params \in Seq(Types) /\ n \in Nat
  BY <1>4, SignatureLengths
<1>6. /\ CanExpect(stack, Last(l), expected) /\ L[ip + 1] = l
      /\ T[ip + 1] = AfterExpect(stack, Last(l), expected) \o callee.returns
  <2>1. i.op \in SimpleOps /\ ValidatedAs(i) = CallAs(i)
    BY <1>1 DEF ValidatedAs, SimpleOps, ConstantOps, VectorOps, VariableOps, LoadStoreOps,
                BulkOps, TableOps, ReferenceOps
  <2>2. CallAs(i).returns = callee.returns
    BY DEF CallAs, Signature
  <2> QED BY <1>3, <2>1, <2>2 DEF Effect, EffectOnOperands, Expects
<1>7. expected = callee.params \o CalleeIndex(i)
  BY DEF CallAs, Signature
<1>8. CalleeTypes(i) = {callee}
  BY <1>1, CalleeIsTyped
<1> HIDE DEF callee, expected, l
<1>9. expected \in Seq(Types) /\ Len(expected) = n + Len(CalleeIndex(i))
  <2>1. Len(CalleeIndex(i)) \in Nat
    BY <1>4, LenProperties
  <2> QED BY <1>4, <1>5, <1>7, <2>1, ConcatProperties
<1>10. /\ Below(Len(expected)) = AfterExpect(stack, Last(l), expected)
       /\ Len(expected) <= Len(stack)
  BY <1>2, <1>3, <1>6, <1>9, PopsExpected
<1> HIDE DEF n
<1>11. IsAt(T, L, ip + 1, Below(Len(expected)) \o callee.returns)
  <2>1. Below(Len(expected)) \o callee.returns = T[ip + 1] /\ Live(L[ip + 1])
    BY <1>2, <1>6, <1>10
  <2> QED BY <2>1, NextIsAt
<1>12. ASSUME NEW operands, CallOn(callee, operands), Len(operands) >= n, Len(operands) \in Nat,
              SubSeq(operands, 1, Len(operands) - n) = Below(Len(expected))
       PROVE  Fine(T, L)
  <2>1. ~(Len(operands) < Len(callee.params))
    BY <1>5, <1>12 DEF n
  <2>2. Continue(ip + 1, Below(Len(expected)) \o callee.returns) \/ Stop("trapped")
    BY <1>12, <2>1 DEF CallOn, n
  <2> QED BY <1>11, <2>2, ContinueFine, StopFine
<1>13. CASE RunCall(i)
  <2>1. CallOn(callee, stack) /\ i.op = "call"
    BY <1>8, <1>13 DEF RunCall
  <2>2. Len(expected) = n
    <3>1. CalleeIndex(i) = <<>> /\ Len(<<>>) = 0
      BY <2>1 DEF CalleeIndex, IndirectCalls
    <3> QED BY <1>5, <1>9, <3>1 DEF n
  <2> QED BY <1>3, <1>10, <1>12, <2>1, <2>2 DEF Below
<1>14. CASE RunCallIndirect(i)
  <2>1. i.op = "call_indirect" /\ i.op \in IndirectCalls
    BY <1>14 DEF RunCallIndirect, IndirectCalls
  <2>2. PopFault(CalleeIndex(i)) = "none"
    BY <2>1, CallsHere
  <2>3. CallOn(callee, Below(1))
    BY <1>8, <1>14, <2>2 DEF RunCallIndirect, Popping
  <2>4. Len(expected) = n + 1 /\ n \in Nat
    <3>1. Len(CalleeIndex(i)) = 1
      BY <2>1 DEF CalleeIndex
    <3> QED BY <1>5, <1>9, <3>1 DEF n
  <2>5. Len(stack) - 1 \in 0..Len(stack) /\ Len(stack) - 1 - n \in 0..(Len(stack) - 1)
    BY <1>3, <1>10, <2>4
  <2>6. Len(Below(1)) = Len(stack) - 1
    <3>1. stack \in Seq(Types) /\ 1 \in Nat /\ 1 <= Len(stack)
      BY <1>2, <1>3, <2>5
    <3>2. Len(SubSeq(stack, 1, Len(stack) - 1)) = Len(stack) - 1
      BY <3>1, PartOfStack
    <3> QED BY <3>2 DEF Below
  <2>7. SubSeq(Below(1), 1, Len(stack) - 1 - n) = SubSeq(stack, 1, Len(stack) - 1 - n)
    BY <1>2, <2>5, PartOfPart DEF Below
  <2>8. Len(stack) - 1 - n = Len(stack) - Len(expected)
    BY <1>3, <2>4
  <2>9. SubSeq(Below(1), 1, Len(Below(1)) - n) = Below(Len(expected))
    BY <2>6, <2>7, <2>8 DEF Below
  <2>10. Len(Below(1)) >= n /\ Len(Below(1)) \in Nat
    BY <1>3, <2>4, <2>5, <2>6
  <2> QED BY <1>12, <2>3, <2>9, <2>10
<1> QED BY <1>13, <1>14

LEMMA IndirectTrapFine ==
  ASSUME Sound, NEW T, NEW L, Follows(T, L), RunInstruction, NEW i, i = At(instructions, ip),
         RunTrapIndirect(i)
  PROVE  Fine(T, L)
<1>1. i.op \in IndirectCalls /\ i.op \in {"call_indirect", "return_call", "return_call_indirect"}
  BY DEF RunTrapIndirect, IndirectCalls
<1>2. PopFault(CalleeIndex(i)) = "none"
  BY <1>1, CallsHere
<1>3. Stop("trapped")
  BY <1>2 DEF RunTrapIndirect, Popping
<1> QED BY <1>3, StopFine

\* The results of a tail call are those of the function.
LEMMA TailCallFine ==
  ASSUME NEW T, NEW L, NEW callee, NEW native, NEW operands, TailCall(callee, native, operands),
         native => Len(callee.params) = Len(FunctionType.params),
         Len(operands) \in Nat, Len(callee.params) \in Nat, Len(callee.params) <= Len(operands),
         callee.returns = FunctionType.returns
  PROVE  Fine(T, L)
<1>1. Len(IF native THEN FunctionType.params ELSE callee.params) = Len(callee.params)
  OBVIOUS
<1>2. Leave(FunctionType.returns) \/ Stop("trapped")
  BY <1>1 DEF TailCall
<1> QED BY <1>2, LeaveFine, StopFine

LEMMA ReturnCallFine ==
  ASSUME Sound, NEW T, NEW L, Follows(T, L), RunInstruction, NEW i, i = At(instructions, ip),
         RunReturnCall(i) \/ RunReturnCallIndirect(i)
  PROVE  Fine(T, L)
<1> DEFINE callee == CalleeType(i)
<1>1. i.op \in {"return_call", "return_call_indirect"} /\ ip \in Indices
  BY RunsHere DEF RunReturnCall, RunReturnCallIndirect
<1>2. i \in InstructionType /\ IndicesValid(i)
  BY <1>1, RunsHere DEF CheckedOps
<1>3. Len(callee.params) \in Nat
  <2>1. callee \in Signatures
    BY <1>1, <1>2, CalleeTyped
  <2> QED BY <2>1, SignatureLengths
<1>4. callee.returns = FunctionType.returns
  BY <1>1, CallsHere
<1>5. CASE RunReturnCall(i)
  <2> DEFINE native == i.idx \in Natives
  <2>1. i.op = "return_call" /\ TailCall(callee, native, stack)
    BY <1>5 DEF RunReturnCall
  <2>2. native => Len(callee.params) = Len(FunctionType.params)
    BY <1>1, <2>1, NotUnchecked
  <2>3. Len(stack) \in Nat /\ Len(callee.params) <= Len(stack)
    BY <1>1, <2>1, CallsHere
  <2> HIDE DEF native, callee
  <2> QED BY <1>3, <1>4, <2>1, <2>2, <2>3, TailCallFine
<1>6. CASE RunReturnCallIndirect(i)
  <2>1. i.op = "return_call_indirect" /\ i.op \in IndirectCalls
    BY <1>6 DEF RunReturnCallIndirect, IndirectCalls
  <2>2. /\ PopFault(CalleeIndex(i)) = "none"
        /\ Len(Below(1)) \in Nat /\ Len(callee.params) <= Len(Below(1))
    BY <1>1, <2>1, CallsHere
  <2>3. PICK native \in BOOLEAN : TailCall(callee, native, Below(1))
    <3>1. CalleeTypes(i) = {callee}
      BY <1>1, CalleeIsTyped
    <3> QED BY <1>6, <2>2, <3>1 DEF RunReturnCallIndirect, Popping
  <2>4. Len(callee.params) = Len(FunctionType.params)
    BY <1>1, <2>1, NotUnchecked
  <2> HIDE DEF callee
  <2> QED BY <1>3, <1>4, <2>2, <2>3, <2>4, TailCallFine
<1> QED BY <1>5, <1>6

\* Past the last instruction the results are left, and nothing else.
LEMMA EndFine ==
  ASSUME Sound, NEW T, NEW L, Follows(T, L), RunEnd
  PROVE  Fine(T, L)
<1>1. ip = Len(instructions)
  BY RunningCode DEF Sound, Follows, IsAt, RunEnd
<1>2. stack = FunctionType.returns
  BY <1>1 DEF Follows, IsAt
<1>3. Leave(FunctionType.returns)
  BY <1>2 DEF RunEnd
<1> QED BY <1>3, LeaveFine

\* A step of the interpreter on a code that is sound.
LEMMA InterpreterFine ==
  ASSUME Sound, NEW T, NEW L, Follows(T, L), InterpreterNext
  PROVE  Fine(T, L)
<1>1. CASE RunEnd
  BY <1>1, EndFine
<1>2. CASE RunInstruction
  <2> DEFINE i == At(instructions, ip)
  <2>1. \/ RunSimple(i) \/ RunTrap(i) \/ RunTrapIndirect(i) \/ RunUnreachable(i)
        \/ RunCall(i) \/ RunCallIndirect(i) \/ RunOutsideTypes(i)
        \/ RunLocalSet(i) \/ RunLocalTee(i) \/ RunGlobalSet(i) \/ RunSelect(i)
        \/ RunIf(i) \/ RunElse(i) \/ RunBr(i) \/ RunBrIf(i) \/ RunBrTable(i)
        \/ RunReturn(i) \/ RunReturnCall(i) \/ RunReturnCallIndirect(i)
    BY <1>2 DEF RunInstruction
  <2>2. i = At(instructions, ip)
    OBVIOUS
  <2> HIDE DEF i
  <2>3. CASE RunSimple(i) \/ RunTrap(i) \/ RunTrapIndirect(i) \/ RunUnreachable(i)
    BY <1>2, <2>2, <2>3, SimpleFine, TrapFine, IndirectTrapFine, UnreachableFine
  <2>4. CASE RunLocalSet(i) \/ RunLocalTee(i) \/ RunGlobalSet(i) \/ RunSelect(i)
    BY <1>2, <2>2, <2>4, AssignFine, SelectFine
  <2>5. CASE RunIf(i) \/ RunElse(i) \/ RunBr(i) \/ RunBrIf(i) \/ RunBrTable(i)
    BY <1>2, <2>2, <2>5, IfFine, ElseFine, BrFine, BrIfFine, BrTableFine
  <2>6. CASE RunReturn(i) \/ RunReturnCall(i) \/ RunReturnCallIndirect(i)
    BY <1>2, <2>2, <2>6, ReturnFine, ReturnCallFine
  <2>7. CASE RunCall(i) \/ RunCallIndirect(i)
    BY <1>2, <2>2, <2>7, CallFine
  <2>8. CASE RunOutsideTypes(i)
    <3>1. i.op \in {"call", "call_indirect", "return_call", "return_call_indirect"}
      BY <2>8 DEF RunOutsideTypes, IndirectCalls
    <3> QED BY <1>2, <2>2, <2>8, <3>1, CalleeIsTyped
  <2> QED BY <2>1, <2>3, <2>4, <2>5, <2>6, <2>7, <2>8
<1> QED BY <1>1, <1>2 DEF InterpreterNext

-----------------------------------------------------------------------------
(* The invariant.                                                          *)

Followed == \E T, L : Follows(T, L)

SafeInv ==
  /\ phase \in BeforeRun =>
       ip = 0 /\ stack = <<>> /\ locals = FunctionLocals /\ globals = GlobalTypes
  /\ phase = "validate" => HasHistory \/ StraySeen(instructions, position)
  /\ phase = "run" => UncheckedByValidator \/ Followed
  /\ ValidatedCodeIsSafe

\* Whether a code is checked depends on its instructions alone.
LEMMA UncheckedSame ==
  ASSUME instructions' = instructions
  PROVE  UncheckedByValidator' <=> UncheckedByValidator
BY DEF UncheckedByValidator, Indices, BranchDepths, TargetOf, MatchingEnd, IsOp, Depth,
       Enclosing, At, BranchWraps, FindsOtherTypes

LEMMA SafeInit == Init => SafeInv
BY DEF Init, ParserInit, ValidatorInit, SafeInv, BeforeRun, ValidatedCodeIsSafe, Faults,
       GlobalTypes

\* The parser leaves the frame alone, and so does the validator.
LEMMA ParserSafe ==
  ASSUME SafeInv, ParserStep
  PROVE  SafeInv'
<1>1. phase \in BeforeRun /\ phase' \in {"parse", "parsed", "rejected"}
      /\ UNCHANGED <<ip, stack, locals, globals>>
  BY DEF ParserStep, ParserNext, ReadInstruction, EndOfStream, ReadBlockOrIf, ReadLoop,
         ReadElse, ReadEnd, ReadOther, Open, frameVars, BeforeRun
<1> QED BY <1>1 DEF SafeInv, BeforeRun, ValidatedCodeIsSafe, Faults

LEMMA FollowsAtStart ==
  ASSUME TInv, SInv, HasHistory, FinishValidation, IInv', ip = 0, stack = <<>>,
         locals = FunctionLocals, globals = GlobalTypes,
         UNCHANGED <<ip, stack, locals, globals>>
  PROVE  Followed'
<1> DEFINE n == Len(instructions)
<1>1. /\ phase = "validate" /\ phase' = "run" /\ position = n
      /\ instructions' = instructions /\ types' = types
  BY DEF FinishValidation, validatorVars
<1>2. /\ instructions \in Seq(InstructionType) /\ Balanced(instructions) /\ n \in Nat
      /\ types = FunctionType.returns
  BY <1>1, LenProperties DEF TInv, SInv, IInv, CodeInv, ValidationIsBalanced
<1>3. PICK T, L : HistoryHere(T, L)
  BY DEF HasHistory
<1>4. /\ Traced(instructions, n, T, L) /\ T[n] = types /\ T[0] = <<>>
      /\ L[0] = <<EntryLabel(n)>>
  <2>1. History(instructions, n, T, L) /\ T[n] = types
    BY <1>1, <1>3 DEF HistoryHere
  <2>2. T[0] = <<>> /\ L[0] = <<EntryLabel(n)>>
    BY <2>1 DEF History
  <2>3. n \in 0..Len(instructions)
    BY <1>2
  <2>4. Traced(instructions, n, T, L)
    BY <1>2, <2>1, <2>3 DEF Traced
  <2> QED BY <2>1, <2>2, <2>4
<1>5. Live(L[0])
  <2> DEFINE e == EntryLabel(n)
  <2>1. Len(<<e>>) = 1 /\ <<e>>[1] = e
    OBVIOUS
  <2>2. ~e.unreachable
    BY DEF EntryLabel
  <2> HIDE DEF e
  <2>3. L[0] = <<e>>
    BY <1>4 DEF e
  <2> QED BY <2>1, <2>2, <2>3 DEF Live
<1>6. /\ Traced(instructions', Len(instructions'), T, L)
      /\ T[Len(instructions')] = FunctionType.returns
      /\ ip' \in 0..Len(instructions') /\ stack' = T[ip'] /\ Live(L[ip'])
      /\ locals' = FunctionLocals /\ globals' = GlobalTypes
  BY <1>1, <1>2, <1>4, <1>5
<1>7. PICK X, Y : X = T /\ Y = L
  OBVIOUS
<1>8. /\ Traced(instructions', Len(instructions'), X, Y)
      /\ X[Len(instructions')] = FunctionType.returns
      /\ ip' \in 0..Len(instructions') /\ stack' = X[ip'] /\ Live(Y[ip'])
      /\ locals' = FunctionLocals /\ globals' = GlobalTypes
  BY <1>6, <1>7
<1> QED BY <1>8 DEF Followed, Follows, IsAt

\* A code in which an index has wrapped is among those that are not checked.
LEMMA StraysUnchecked ==
  ASSUME StraySeen(instructions, Len(instructions)), Len(instructions) \in Nat
  PROVE  UncheckedByValidator
<1>1. PICK j \in 1..Len(instructions) : Strays(instructions[j])
  BY DEF StraySeen
<1>2. PICK i : i = j - 1
  OBVIOUS
<1>3. i \in Indices /\ i + 1 = j
  BY <1>2 DEF Indices
<1>4. Strays(At(instructions, i))
  BY <1>1, <1>3 DEF At
<1>5. BranchDepths(i) = DepthsOf(At(instructions, i))
  BY DepthsAreBranchDepths
<1>6. BranchWraps(i)
  BY <1>4, <1>5 DEF Strays, BranchWraps
<1> QED BY <1>3, <1>6 DEF UncheckedByValidator

LEMMA ValidatorSafe ==
  ASSUME TInv, SInv, SafeInv, HeightsFit', IInv', ValidatorStep
  PROVE  SafeInv'
<1>1. /\ phase \in {"parsed", "validate"}
      /\ UNCHANGED <<ip, stack, locals, globals>>
      /\ ip = 0 /\ stack = <<>> /\ locals = FunctionLocals /\ globals = GlobalTypes
  BY DEF ValidatorStep, ValidatorNext, StartValidation, ValidateInstruction, FinishValidation,
         frameVars, SafeInv, BeforeRun
<1>2. CASE StartValidation
  <2>1. HasHistory' /\ phase' = "validate"
    BY <1>2, HistoryStarts DEF TInv, StartValidation
  <2> QED BY <1>1, <2>1 DEF SafeInv, BeforeRun, ValidatedCodeIsSafe, Faults
<1>3. CASE ValidateInstruction
  <2>1. Validating
    BY <1>3, LenProperties DEF ValidateInstruction, Validating, TInv, IInv, ValidatorInv, CodeInv
  <2>2. CASE Reject
    BY <1>1, <2>2 DEF Reject, SafeInv, BeforeRun, ValidatedCodeIsSafe, Faults
  <2>3. CASE EndOutsideLabels(At(instructions, position))
    BY <1>1, <2>3 DEF EndOutsideLabels, SafeInv, BeforeRun, ValidatedCodeIsSafe, Faults
  <2>4. CASE ~Reject /\ ~EndOutsideLabels(At(instructions, position))
    <3>1. HasHistory \/ StraySeen(instructions, position)
      BY <1>3 DEF SafeInv, ValidateInstruction
    <3>2. HasHistory' \/ StraySeen(instructions', position')
      BY <1>3, <2>1, <2>4, <3>1, HistoryGoesOn, StraysStay
    <3>3. phase' = "validate"
      BY <1>3, <2>1, <2>4, WritesOne
    <3> QED BY <1>1, <3>2, <3>3 DEF SafeInv, BeforeRun, ValidatedCodeIsSafe, Faults
  <2> QED BY <2>2, <2>3, <2>4
<1>4. CASE FinishValidation
  <2>1. /\ phase = "validate" /\ phase' = "run" /\ position = Len(instructions)
        /\ instructions' = instructions
        /\ HasHistory \/ StraySeen(instructions, position)
    BY <1>4 DEF FinishValidation, SafeInv, validatorVars
  <2>2. CASE HasHistory
    <3>1. Followed'
      BY <1>1, <1>4, <2>2, FollowsAtStart
    <3> QED BY <2>1, <3>1 DEF SafeInv, BeforeRun, ValidatedCodeIsSafe, Faults
  <2>3. CASE StraySeen(instructions, position)
    <3>1. Len(instructions) \in Nat
      BY LenProperties DEF TInv, IInv, CodeInv
    <3>2. UncheckedByValidator'
      BY <2>1, <2>3, <3>1, StraysUnchecked, UncheckedSame
    <3> QED BY <2>1, <3>2 DEF SafeInv, BeforeRun, ValidatedCodeIsSafe, Faults
  <2> QED BY <2>1, <2>2, <2>3
<1> QED BY <1>2, <1>3, <1>4 DEF ValidatorStep, ValidatorNext

LEMMA InterpreterSafe ==
  ASSUME TablesHoldReferences, TInv, SInv, SafeInv, InterpreterNext
  PROVE  SafeInv'
<1>1. phase = "run" /\ instructions' = instructions /\ phase' \notin BeforeRun
  <2>1. phase = "run"
    BY DEF InterpreterNext, RunInstruction, RunEnd
  <2>2. CASE RunEnd
    BY <2>1, <2>2, RunsOn DEF RunEnd, Runs, Faults, BeforeRun
  <2>3. CASE RunInstruction
    BY <2>1, <2>3, InstructionRuns DEF Runs, Faults, RunInstruction, BeforeRun
  <2> QED BY <2>1, <2>2, <2>3 DEF InterpreterNext
<1>2. UncheckedByValidator' <=> UncheckedByValidator
  BY <1>1, UncheckedSame
<1>3. CASE UncheckedByValidator
  BY <1>1, <1>2, <1>3 DEF SafeInv, BeforeRun, ValidatedCodeIsSafe
<1>4. CASE ~UncheckedByValidator
  <2>1. PICK T, L : Follows(T, L)
    BY <1>1, <1>4 DEF SafeInv, Followed
  <2>2. Fine(T, L)
    BY <1>1, <1>4, <2>1, InterpreterFine DEF Sound, Running
  <2>3. phase' = "run" => Followed'
    <3> SUFFICES ASSUME phase' = "run" PROVE Followed'
      OBVIOUS
    <3>1. /\ Traced(instructions', Len(instructions'), T, L)
          /\ T[Len(instructions')] = FunctionType.returns
          /\ ip' \in 0..Len(instructions') /\ stack' = T[ip'] /\ Live(L[ip'])
          /\ locals' = FunctionLocals /\ globals' = GlobalTypes
      BY <1>1, <2>1, <2>2 DEF Follows, Fine, IsAt
    <3>2. PICK X, Y : X = T /\ Y = L
      OBVIOUS
    <3>3. /\ Traced(instructions', Len(instructions'), X, Y)
          /\ X[Len(instructions')] = FunctionType.returns
          /\ ip' \in 0..Len(instructions') /\ stack' = X[ip'] /\ Live(Y[ip'])
          /\ locals' = FunctionLocals /\ globals' = GlobalTypes
      BY <3>1, <3>2
    <3> QED BY <3>3 DEF Followed, Follows, IsAt
  <2> QED BY <1>1, <2>2, <2>3 DEF SafeInv, BeforeRun, ValidatedCodeIsSafe, Fine
<1> QED BY <1>3, <1>4

LEMMA StutterSafe ==
  ASSUME SafeInv, UNCHANGED vars
  PROVE  SafeInv'
<1>1. /\ phase' = phase /\ instructions' = instructions /\ ip' = ip /\ stack' = stack
      /\ locals' = locals /\ globals' = globals
      /\ position' = position /\ types' = types /\ labels' = labels
  BY DEF vars, parserVars, validatorVars, frameVars
<1>2. UncheckedByValidator' <=> UncheckedByValidator
  BY <1>1, UncheckedSame
<1>3. /\ HasHistory => HasHistory'
      /\ StraySeen(instructions, position) => StraySeen(instructions', position')
  BY <1>1 DEF HasHistory, HistoryHere
<1>4. Followed => Followed'
  BY <1>1 DEF Followed, Follows, IsAt
<1> QED BY <1>1, <1>2, <1>3, <1>4 DEF SafeInv, BeforeRun, ValidatedCodeIsSafe

LEMMA SafeNext ==
  ASSUME TablesHoldReferences
  PROVE  TInv /\ SInv /\ SafeInv /\ TInv' /\ HeightsFit' /\ [Next]_vars => SafeInv'
<1> SUFFICES ASSUME TInv, SInv, SafeInv, IInv', HeightsFit', [Next]_vars
             PROVE  SafeInv'
  BY DEF TInv
<1> QED BY ParserSafe, ValidatorSafe, InterpreterSafe, StutterSafe DEF Next

\* What the validator lets through is safe to run, however long the code and
\* whatever it holds, but for the codes that UncheckedByValidator lists: no
\* operand is popped that is not there or has another type, no branch erases
\* a range that is none, no native is run on operands of another number, no
\* function type is looked up that is not there, and what is returned are the
\* results of the function.  Three things are taken for granted: tables hold
\* references (making an instance of a module with any other table fails,
\* VM/Type.cpp:42), the validator's stack is never as high as the uint32_t of a
\* label's height can tell, and the function was called, not entered by a tail
\* call from another module (whose indices the interpreter would then use).
THEOREM ValidatedCodeAlwaysSafe ==
  ASSUME TablesHoldReferences
  PROVE  Spec /\ []HeightsFit => []ValidatedCodeIsSafe
<1>1. Init => SafeInv
  BY SafeInit
<1>2. TInv /\ SInv /\ SafeInv /\ TInv' /\ HeightsFit' /\ [Next]_vars => SafeInv'
  BY SafeNext
<1>3. SafeInv => ValidatedCodeIsSafe
  BY DEF SafeInv
<1> QED BY <1>1, <1>2, <1>3, SInvAlways, PTL DEF Spec
=============================================================================
