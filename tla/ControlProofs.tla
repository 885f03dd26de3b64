----------------------------- MODULE ControlProofs -----------------------------
(***************************************************************************)
(* The nesting that the parser keeps and the validator relies on, for      *)
(* codes of any length, any signatures and any instructions.  The parser   *)
(* counts open blocks with its stack; the validator has no check that it   *)
(* still has a label, nor that none is left, and lives on that count.      *)
(***************************************************************************)
EXTENDS ControlProperties, SequenceTheorems, FiniteSetTheorems, FunctionTheorems,
        WellFoundedInduction, TLAPS

InstructionType ==
  [op : STRING, type : Signatures, idx : Nat, idx2 : Nat, depths : Seq(Nat),
   label : Labels, elseLocation : Nat, targets : Seq(Labels)]

OperandTypes == Types \cup {Unknown}

\* How many blocks the first p instructions leave open: -1 after the last end.
Opened(code, p) == {k \in 1..p : code[k].op \in Openers}

Ended(code, p) == {k \in 1..p : code[k].op = "end"}

Nesting(code, p) == Cardinality(Opened(code, p)) - Cardinality(Ended(code, p))

NestingOf(op) == IF op \in Openers THEN 1 ELSE IF op = "end" THEN -1 ELSE 0

\* The parser's stack holds the blocks that are open, and the code of a
\* function ends with the end that no block is open for.
CodeInv ==
  /\ phase \in Phases
  /\ instructions \in Seq(InstructionType)
  /\ blockBeginStack \in Seq(BlockBegins)
  /\ phase = "parse" =>
       /\ \A p \in 0..Len(instructions) : Nesting(instructions, p) >= 0
       /\ Len(blockBeginStack) = Nesting(instructions, Len(instructions))
  /\ phase \in {"parsed", "validate"} =>
       /\ \A p \in 0..(Len(instructions) - 1) : Nesting(instructions, p) >= 0
       /\ Nesting(instructions, Len(instructions)) = -1

\* The lowest label is that of the function, until it is popped with the
\* results of the function on the stack.
Bottom(ts, ls) ==
  IF ls = <<>> THEN ts = FunctionType.returns
  ELSE ls[1].stackHeight = 0 /\ ls[1].returnTypes = FunctionType.returns

Nested(ts, ls) ==
  \A k \in 1..Len(ls) :
    ls[k].stackHeight <= IF k < Len(ls) THEN ls[k + 1].stackHeight ELSE Len(ts)

\* The validator has a label for every open block and one for the function.
ValidatorInv ==
  /\ position \in 0..Len(instructions)
  /\ types \in Seq(OperandTypes)
  /\ labels \in Seq(ValidatorLabels)
  /\ phase \in {"parse", "parsed"} => position = 0 /\ types = <<>> /\ labels = <<>>
  /\ phase = "validate" =>
       /\ Len(labels) = Nesting(instructions, position) + 1
       /\ Bottom(types, labels)
  /\ Nested(types, labels)

IInv == CodeInv /\ ValidatorInv /\ ValidationIsBalanced

-----------------------------------------------------------------------------
(* Nesting.                                                                *)

LEMMA NestingFinite ==
  ASSUME NEW code, NEW p \in Nat
  PROVE  /\ IsFiniteSet(Opened(code, p)) /\ IsFiniteSet(Ended(code, p))
         /\ Nesting(code, p) \in Int
<1>1. IsFiniteSet(1..p)
  BY FS_Interval
<1>2. IsFiniteSet(Opened(code, p)) /\ IsFiniteSet(Ended(code, p))
  BY <1>1, FS_Subset DEF Opened, Ended
<1>3. Cardinality(Opened(code, p)) \in Nat /\ Cardinality(Ended(code, p)) \in Nat
  BY <1>2, FS_CardinalityType
<1> QED BY <1>2, <1>3 DEF Nesting

LEMMA NestingAtStart ==
  ASSUME NEW code
  PROVE  Nesting(code, 0) = 0
<1>1. Opened(code, 0) = {} /\ Ended(code, 0) = {}
  BY DEF Opened, Ended
<1> QED BY <1>1, FS_EmptySet DEF Nesting

LEMMA NestingSame ==
  ASSUME NEW code, NEW other, NEW p \in Nat,
         \A k \in 1..p : code[k].op = other[k].op
  PROVE  Nesting(code, p) = Nesting(other, p)
<1>1. Opened(code, p) = Opened(other, p) /\ Ended(code, p) = Ended(other, p)
  BY DEF Opened, Ended
<1> QED BY <1>1 DEF Nesting

\* One more instruction.
LEMMA NestingStep ==
  ASSUME NEW code, NEW p \in Nat
  PROVE  Nesting(code, p + 1) = Nesting(code, p) + NestingOf(code[p + 1].op)
<1> DEFINE op == code[p + 1].op
<1>1. /\ IsFiniteSet(Opened(code, p)) /\ IsFiniteSet(Ended(code, p))
      /\ Cardinality(Opened(code, p)) \in Nat /\ Cardinality(Ended(code, p)) \in Nat
  BY NestingFinite, FS_CardinalityType
<1>2. p + 1 \notin Opened(code, p) /\ p + 1 \notin Ended(code, p)
  BY DEF Opened, Ended
<1>3. op \in Openers => op # "end"
  BY DEF Openers
<1>4. Opened(code, p + 1) = IF op \in Openers THEN Opened(code, p) \cup {p + 1}
                                              ELSE Opened(code, p)
  BY DEF Opened
<1>5. Ended(code, p + 1) = IF op = "end" THEN Ended(code, p) \cup {p + 1}
                                         ELSE Ended(code, p)
  BY DEF Ended
<1>6. Cardinality(Opened(code, p + 1)) =
        Cardinality(Opened(code, p)) + IF op \in Openers THEN 1 ELSE 0
  <2>1. CASE op \in Openers
    BY <1>1, <1>2, <1>4, <2>1, FS_AddElement
  <2>2. CASE op \notin Openers
    BY <1>1, <1>4, <2>2
  <2> QED BY <2>1, <2>2
<1>7. Cardinality(Ended(code, p + 1)) =
        Cardinality(Ended(code, p)) + IF op = "end" THEN 1 ELSE 0
  <2>1. CASE op = "end"
    BY <1>1, <1>2, <1>5, <2>1, FS_AddElement
  <2>2. CASE op # "end"
    BY <1>1, <1>5, <2>2
  <2> QED BY <2>1, <2>2
<1> QED BY <1>1, <1>3, <1>6, <1>7 DEF Nesting, NestingOf

-----------------------------------------------------------------------------
(* The parser.                                                             *)

\* One instruction is read; what was read before keeps its opcodes.
Reads(op) ==
  /\ instructions' \in Seq(InstructionType)
  /\ Len(instructions') = Len(instructions) + 1
  /\ instructions'[Len(instructions) + 1].op = op
  /\ \A k \in 1..Len(instructions) : instructions'[k].op = instructions[k].op

LEMMA NestingRead ==
  ASSUME CodeInv, NEW op, Reads(op)
  PROVE  /\ Len(instructions) \in Nat
         /\ \A p \in 0..Len(instructions) :
              /\ Nesting(instructions', p) = Nesting(instructions, p)
              /\ Nesting(instructions, p) \in Int
         /\ Nesting(instructions', Len(instructions'))
              = Nesting(instructions, Len(instructions)) + NestingOf(op)
<1>1. Len(instructions) \in Nat
  BY LenProperties DEF CodeInv
<1>2. ASSUME NEW p \in 0..Len(instructions)
      PROVE  Nesting(instructions', p) = Nesting(instructions, p)
  BY <1>1, <1>2, NestingSame DEF Reads
<1>3. Nesting(instructions', Len(instructions) + 1)
        = Nesting(instructions', Len(instructions)) + NestingOf(op)
  BY <1>1, NestingStep DEF Reads
<1> QED BY <1>1, <1>2, <1>3, NestingFinite DEF Reads

\* Reading an instruction that leaves the function open.
LEMMA ReadOnInv ==
  ASSUME CodeInv, phase = "parse", UNCHANGED phase, NEW op, Reads(op),
         blockBeginStack' \in Seq(BlockBegins),
         Len(blockBeginStack') = Len(blockBeginStack) + NestingOf(op)
  PROVE  CodeInv'
<1>1. Len(blockBeginStack') >= 0
  BY LenProperties
<1>2. Len(blockBeginStack') = Nesting(instructions', Len(instructions'))
  BY NestingRead DEF CodeInv
<1>3. \A p \in 0..Len(instructions') : Nesting(instructions', p) >= 0
  BY <1>1, <1>2, NestingRead DEF CodeInv, Reads
<1> QED BY <1>2, <1>3 DEF CodeInv, Reads

\* The last end is read.
LEMMA ReadLastInv ==
  ASSUME CodeInv, phase = "parse", phase' = "parsed", Reads("end"),
         blockBeginStack = <<>>, UNCHANGED blockBeginStack
  PROVE  CodeInv'
<1>1. Len(blockBeginStack) = 0
  BY EmptySeq
<1>2. NestingOf("end") = -1
  BY DEF NestingOf, Openers
<1>3. Nesting(instructions', Len(instructions')) = -1
  BY <1>1, <1>2, NestingRead DEF CodeInv
<1>4. \A p \in 0..(Len(instructions') - 1) : Nesting(instructions', p) >= 0
  BY NestingRead DEF CodeInv, Reads
<1> QED BY <1>3, <1>4 DEF CodeInv, Reads, Phases

\* Reading fails: the code is left as it is.
LEMMA ReadFailsInv ==
  ASSUME CodeInv, phase' = "rejected", UNCHANGED <<instructions, blockBeginStack>>
  PROVE  CodeInv'
BY DEF CodeInv, Phases

LEMMA TokenInstruction ==
  ASSUME NEW t \in Tokens
  PROVE  /\ Instruction(t) \in InstructionType
         /\ Instruction(t).op = t.op /\ Instruction(t).type = t.type
         /\ \A l \in Labels : /\ [Instruction(t) EXCEPT !.label = l] \in InstructionType
                              /\ [Instruction(t) EXCEPT !.label = l].op = t.op
<1>1. NoLabel \in Labels
  BY DEF NoLabel, Labels
<1>2. <<>> \in Seq(Labels)
  BY EmptySeq
<1>3. Instruction(t) \in InstructionType
  BY <1>1, <1>2 DEF Instruction, InstructionType, Tokens
<1>4. Instruction(t).op = t.op /\ Instruction(t).type = t.type
  BY DEF Instruction
<1> QED BY <1>3, <1>4 DEF InstructionType

LEMMA AppendReads ==
  ASSUME instructions \in Seq(InstructionType), NEW i \in InstructionType,
         instructions' = Append(instructions, i)
  PROVE  Reads(i.op)
BY LenProperties, AppendProperties DEF Reads

\* The stack of open blocks when one is pushed and when one is popped.
LEMMA BlocksPushed ==
  ASSUME blockBeginStack \in Seq(BlockBegins), NEW b \in BlockBegins,
         blockBeginStack' = Append(blockBeginStack, b)
  PROVE  /\ blockBeginStack' \in Seq(BlockBegins)
         /\ Len(blockBeginStack') = Len(blockBeginStack) + 1
BY AppendProperties

LEMMA FrontAndLast ==
  ASSUME NEW S, NEW s \in Seq(S), s # <<>>
  PROVE  /\ Len(s) \in Nat \ {0}
         /\ Last(s) = s[Len(s)]
         /\ Last(s) \in S
         /\ Front(s) \in Seq(S)
         /\ Len(Front(s)) = Len(s) - 1
         /\ \A k \in 1..(Len(s) - 1) : Front(s)[k] = s[k]
<1>1. Len(s) \in Nat \ {0} /\ s[Len(s)] \in S
  BY EmptySeq, LenProperties, ElementOfSeq
<1>2. /\ Front(s) \in Seq(S)
      /\ Len(Front(s)) = Len(s) - 1
      /\ \A k \in 1..(Len(s) - 1) : Front(s)[k] = s[k]
  BY <1>1, SubSeqProperties DEF Front
<1> QED BY <1>1, <1>2 DEF Last

LEMMA FunctionIsSeq ==
  ASSUME NEW S, NEW n \in Nat, NEW s \in [1..n -> S]
  PROVE  s \in Seq(S) /\ Len(s) = n
<1>1. [1..n -> S] \in {[1..m -> S] : m \in Nat}
  OBVIOUS
<1>2. s \in Seq(S)
  BY <1>1, SeqDef
<1>3. 1..Len(s) = 1..n /\ Len(s) \in Nat
  BY <1>2, LenProperties
<1> QED BY <1>2, <1>3

LEMMA ResolveKeepsOpcodes ==
  ASSUME NEW code \in Seq(InstructionType), NEW b, NEW l \in Labels
  PROVE  /\ Resolve(code, b, l) \in Seq(InstructionType)
         /\ Len(Resolve(code, b, l)) = Len(code)
         /\ \A k \in 1..Len(code) : Resolve(code, b, l)[k].op = code[k].op
<1>1. /\ DOMAIN code = 1..Len(code) /\ Len(code) \in Nat
      /\ \A k \in 1..Len(code) : code[k] \in InstructionType
  BY LenProperties, ElementOfSeq
<1>2. ASSUME NEW k \in 1..Len(code)
      PROVE  /\ Resolve(code, b, l)[k] \in {code[k], [code[k] EXCEPT !.label = l]}
             /\ [code[k] EXCEPT !.label = l] \in InstructionType
             /\ [code[k] EXCEPT !.label = l].op = code[k].op
  <2>1. code[k] \in InstructionType
    BY <1>1
  <2>2. /\ [code[k] EXCEPT !.label = l] \in InstructionType
        /\ [code[k] EXCEPT !.label = l].op = code[k].op
    BY <2>1 DEF InstructionType
  <2> QED BY <1>1, <2>2 DEF Resolve
<1>3. DOMAIN Resolve(code, b, l) = 1..Len(code)
  BY <1>1 DEF Resolve
<1>4. Resolve(code, b, l) \in [1..Len(code) -> InstructionType]
  <2>1. Resolve(code, b, l) = [k \in 1..Len(code) |-> Resolve(code, b, l)[k]]
    BY <1>1 DEF Resolve
  <2>2. \A k \in 1..Len(code) : Resolve(code, b, l)[k] \in InstructionType
    BY <1>1, <1>2
  <2> QED BY <2>1, <2>2
<1> QED BY <1>1, <1>2, <1>4, FunctionIsSeq

LEMMA OpenInv ==
  ASSUME CodeInv, phase = "parse", NEW i \in InstructionType, NEW b \in BlockBegins,
         i.op \in Openers, Open(i, b)
  PROVE  CodeInv'
<1>1. Reads(i.op)
  BY AppendReads DEF Open, CodeInv
<1>2. /\ blockBeginStack' \in Seq(BlockBegins)
      /\ Len(blockBeginStack') = Len(blockBeginStack) + NestingOf(i.op)
  BY BlocksPushed DEF Open, CodeInv, NestingOf
<1> QED BY <1>1, <1>2, ReadOnInv DEF Open

LEMMA SignatureLengths ==
  ASSUME NEW s \in Signatures
  PROVE  /\ s.params \in Seq(Types) /\ s.returns \in Seq(Types)
         /\ Len(s.params) \in Nat /\ Len(s.returns) \in Nat
BY LenProperties DEF Signatures

LEMMA ReadBlockOrIfInv ==
  ASSUME CodeInv, phase = "parse", NEW t \in Tokens, ReadBlockOrIf(t)
  PROVE  CodeInv'
<1> DEFINE b == [begin |-> Len(instructions), arity |-> Len(t.type.returns), isFake |-> FALSE]
<1>1. b \in BlockBegins
  BY LenProperties, SignatureLengths DEF CodeInv, Tokens, BlockBegins
<1>2. Instruction(t) \in InstructionType /\ Instruction(t).op \in Openers
  BY TokenInstruction DEF ReadBlockOrIf, Openers
<1> QED BY <1>1, <1>2, OpenInv DEF ReadBlockOrIf

LEMMA ReadLoopInv ==
  ASSUME CodeInv, phase = "parse", NEW t \in Tokens, ReadLoop(t)
  PROVE  CodeInv'
<1> DEFINE b == [begin |-> 0, arity |-> 0, isFake |-> TRUE]
           l == [continuation |-> Len(instructions), arity |-> Len(t.type.params),
                 stackHeight |-> 0]
           i == [Instruction(t) EXCEPT !.label = l]
<1>1. b \in BlockBegins
  BY DEF BlockBegins
<1>2. l \in Labels
  BY LenProperties, SignatureLengths DEF CodeInv, Tokens, Labels
<1>3. i \in InstructionType /\ i.op \in Openers
  BY <1>2, TokenInstruction DEF ReadLoop, Openers
<1>4. Open(i, b)
  BY DEF ReadLoop
<1> QED BY <1>1, <1>3, <1>4, OpenInv

\* What an else and an end write into earlier instructions are not opcodes.
LEMMA ReadElseInv ==
  ASSUME CodeInv, phase = "parse", NEW t \in Tokens, ReadElse(t)
  PROVE  CodeInv'
<1> DEFINE k == Last(blockBeginStack).begin + 1
           code == [instructions EXCEPT ![k].elseLocation = Len(instructions)]
<1>1. CASE phase' = "rejected" /\ UNCHANGED <<instructions, blockBeginStack>>
  BY <1>1, ReadFailsInv
<1>2. CASE /\ instructions' = Append(code, Instruction(t))
           /\ UNCHANGED <<phase, blockBeginStack>>
  <2>1. instructions \in [1..Len(instructions) -> InstructionType] /\ Len(instructions) \in Nat
    BY LenProperties DEF CodeInv
  <2>2. code \in [1..Len(instructions) -> InstructionType]
    BY <2>1 DEF InstructionType
  <2>3. \A n \in 1..Len(instructions) : code[n].op = instructions[n].op
    BY <2>1 DEF InstructionType
  <2> HIDE DEF code
  <2>4. code \in Seq(InstructionType) /\ Len(code) = Len(instructions)
    BY <2>1, <2>2, FunctionIsSeq
  <2>5. Reads(Instruction(t).op)
    BY <1>2, <2>1, <2>3, <2>4, TokenInstruction, AppendProperties DEF Reads
  <2>6. NestingOf(Instruction(t).op) = 0
    BY TokenInstruction DEF ReadElse, NestingOf, Openers
  <2>7. Len(blockBeginStack) \in Nat
    BY LenProperties DEF CodeInv
  <2> QED BY <1>2, <2>5, <2>6, <2>7, ReadOnInv DEF CodeInv
<1> QED BY <1>1, <1>2 DEF ReadElse

LEMMA ReadEndInv ==
  ASSUME CodeInv, phase = "parse", NEW t \in Tokens, ReadEnd(t)
  PROVE  CodeInv'
<1> DEFINE code == Append(instructions, Instruction(t))
           begin == Last(blockBeginStack)
           label == [continuation |-> Len(code), arity |-> begin.arity, stackHeight |-> 0]
<1>1. /\ code \in Seq(InstructionType) /\ Len(code) = Len(instructions) + 1
      /\ Len(instructions) \in Nat
      /\ code[Len(instructions) + 1].op = "end"
      /\ \A k \in 1..Len(instructions) : code[k].op = instructions[k].op
  BY TokenInstruction, LenProperties, AppendProperties DEF ReadEnd, CodeInv
<1>2. CASE blockBeginStack = <<>>
  <2>1. Reads("end")
    BY <1>1, <1>2 DEF Reads, ReadEnd
  <2> QED BY <1>2, <2>1, ReadLastInv DEF ReadEnd
<1>3. CASE blockBeginStack # <<>>
  <2>1. /\ begin \in BlockBegins
        /\ Front(blockBeginStack) \in Seq(BlockBegins)
        /\ Len(Front(blockBeginStack)) = Len(blockBeginStack) - 1
        /\ Len(blockBeginStack) \in Nat
    BY <1>3, FrontAndLast DEF CodeInv
  <2>2. label \in Labels
    BY <1>1, <2>1 DEF Labels, BlockBegins
  <2> HIDE DEF code, label
  <2>3. /\ Resolve(code, begin.begin, label) \in Seq(InstructionType)
        /\ Len(Resolve(code, begin.begin, label)) = Len(code)
        /\ \A k \in 1..Len(code) : Resolve(code, begin.begin, label)[k].op = code[k].op
    BY <1>1, <2>2, ResolveKeepsOpcodes
  <2>4. instructions' = code \/ instructions' = Resolve(code, begin.begin, label)
    BY <1>3 DEF ReadEnd, code, label
  <2>5. Reads("end")
    BY <1>1, <2>3, <2>4 DEF Reads
  <2>6. blockBeginStack' = Front(blockBeginStack) /\ UNCHANGED phase
    BY <1>3 DEF ReadEnd
  <2>7. NestingOf("end") = -1
    BY DEF NestingOf, Openers
  <2> QED BY <2>1, <2>5, <2>6, <2>7, ReadOnInv
<1> QED BY <1>2, <1>3

LEMMA ReadOtherInv ==
  ASSUME CodeInv, phase = "parse", NEW t \in Tokens, ReadOther(t)
  PROVE  CodeInv'
<1>1. Reads(Instruction(t).op)
  BY AppendReads, TokenInstruction DEF ReadOther, CodeInv
<1>2. NestingOf(Instruction(t).op) = 0
  BY TokenInstruction DEF ReadOther, NestingOf
<1>3. Len(blockBeginStack) \in Nat
  BY LenProperties DEF CodeInv
<1> QED BY <1>1, <1>2, <1>3, ReadOnInv DEF ReadOther, CodeInv

LEMMA ParserInv ==
  ASSUME IInv, ParserStep
  PROVE  IInv'
<1>1. phase = "parse"
  BY DEF ParserStep, ParserNext, ReadInstruction
<1>2. CodeInv'
  <2>1. ASSUME NEW t \in Alphabet,
               \/ ReadBlockOrIf(t)
               \/ ReadLoop(t)
               \/ ReadElse(t)
               \/ ReadEnd(t)
               \/ ReadOther(t)
        PROVE  CodeInv'
    <3>1. t \in Tokens
      BY ParserAssumption
    <3> QED BY <1>1, <2>1, <3>1, ReadBlockOrIfInv, ReadLoopInv, ReadElseInv, ReadEndInv,
               ReadOtherInv DEF IInv
  <2>2. CASE EndOfStream
    BY <2>2, ReadFailsInv DEF EndOfStream, IInv
  <2> QED BY <2>1, <2>2 DEF ParserStep, ParserNext, ReadInstruction
<1>3. phase' \in {"parse", "parsed", "rejected"}
  BY <1>1 DEF ParserStep, ParserNext, ReadInstruction, EndOfStream, ReadBlockOrIf, ReadLoop,
              ReadElse, ReadEnd, ReadOther, Open
<1>4. ValidatorInv'
  <2>1. position = 0 /\ UNCHANGED <<position, types, labels>>
    BY <1>1 DEF IInv, ValidatorInv, ParserStep, validatorVars
  <2>2. Len(instructions') \in Nat
    BY <1>2, LenProperties DEF CodeInv
  <2>3. 0 \in 0..Len(instructions')
    BY <2>2
  <2> QED BY <1>1, <1>3, <2>1, <2>3 DEF IInv, ValidatorInv, Nested
<1>5. ValidationIsBalanced'
  BY <1>3 DEF ValidationIsBalanced
<1> QED BY <1>2, <1>4, <1>5 DEF IInv

-----------------------------------------------------------------------------
(* The operand stack of the validator.                                     *)

\* pop, expect and erase stop at the height of the innermost label.
LEMMA PopBounds ==
  ASSUME NEW ts \in Seq(OperandTypes), NEW label \in ValidatorLabels, NEW n \in Nat,
         label.stackHeight <= Len(ts)
  PROVE  /\ AfterPop(ts, label, n) \in Seq(OperandTypes)
         /\ Len(AfterPop(ts, label, n)) \in label.stackHeight..Len(ts)
         /\ \A k \in 1..n : Popped(ts, label, n, k) \in OperandTypes
<1> DEFINE h == label.stackHeight
           found == Found(ts, label, n)
<1>1. h \in Nat /\ Len(ts) \in Nat
  BY LenProperties DEF ValidatorLabels
<1>2. found \in 0..n /\ found <= Len(ts) - h
  BY <1>1 DEF Found
<1>3. \A k \in 1..(Len(ts) - found) : ts[k] \in OperandTypes
  BY <1>1, <1>2, ElementOfSeq
<1>4. /\ AfterPop(ts, label, n) \in Seq(OperandTypes)
      /\ Len(AfterPop(ts, label, n)) = Len(ts) - found
  BY <1>1, <1>2, <1>3, SubSeqProperties DEF AfterPop
<1>5. ASSUME NEW k \in 1..n
      PROVE  Popped(ts, label, n, k) \in OperandTypes
  <2>1. CASE k <= found
    <3>1. Len(ts) - k + 1 \in 1..Len(ts)
      BY <1>1, <1>2, <2>1
    <3> QED BY <2>1, <3>1, ElementOfSeq DEF Popped
  <2>2. CASE ~(k <= found)
    BY <2>2 DEF Popped, OperandTypes
  <2> QED BY <2>1, <2>2
<1> QED BY <1>1, <1>2, <1>4, <1>5

LEMMA TypesAreOperands ==
  ASSUME NEW ts \in Seq(Types)
  PROVE  ts \in Seq(OperandTypes) /\ Len(ts) \in Nat
BY SeqMonotonic, LenProperties DEF OperandTypes

\* The innermost label when there is one.
LEMMA InnermostLabel ==
  ASSUME ValidatorInv, labels # <<>>
  PROVE  /\ LastLabel \in ValidatorLabels
         /\ LastLabel = labels[Len(labels)]
         /\ LastLabel.stackHeight \in 0..Len(types)
         /\ LastLabel.paramTypes \in Seq(Types) /\ LastLabel.returnTypes \in Seq(Types)
         /\ Len(labels) \in Nat \ {0}
         /\ Len(types) \in Nat
<1>1. /\ LastLabel \in ValidatorLabels /\ LastLabel = labels[Len(labels)]
      /\ Len(labels) \in Nat \ {0} /\ Len(types) \in Nat
  BY FrontAndLast, LenProperties DEF ValidatorInv, LastLabel
<1>2. labels[Len(labels)].stackHeight <= Len(types)
  BY <1>1 DEF ValidatorInv, Nested
<1> QED BY <1>1, <1>2 DEF ValidatorLabels

-----------------------------------------------------------------------------
(* One step of the validator.                                              *)

Validating ==
  IInv /\ phase = "validate" /\ position \in Nat /\ position < Len(instructions)

Op == At(instructions, position).op

\* A code with the same instructions but for their labels.
SameTokens(code) ==
  /\ code \in Seq(InstructionType)
  /\ Len(code) = Len(instructions)
  /\ \A k \in 1..Len(code) : code[k].op = instructions[k].op

\* What a check that has passed does.
Passes(ts, ls, code) ==
  /\ types' = ts /\ labels' = ls /\ instructions' = code
  /\ position' = position + 1
  /\ UNCHANGED <<phase, blockBeginStack>>

\* While there are instructions left there is a label.
LEMMA HasInnermost ==
  ASSUME Validating
  PROVE  /\ labels # <<>>
         /\ position \in 0..(Len(instructions) - 1)
         /\ Len(instructions) \in Nat
         /\ Nesting(instructions, position) \in Int
         /\ At(instructions, position) \in InstructionType
<1>1. Len(instructions) \in Nat /\ position \in 0..(Len(instructions) - 1)
  BY LenProperties DEF Validating, IInv, CodeInv
<1>2. Nesting(instructions, position) >= 0 /\ Nesting(instructions, position) \in Int
  BY <1>1, NestingFinite DEF Validating, IInv, CodeInv
<1>3. Len(labels) > 0
  BY <1>2 DEF Validating, IInv, ValidatorInv
<1>4. position + 1 \in 1..Len(instructions)
  BY <1>1
<1>5. At(instructions, position) \in InstructionType
  BY <1>4, ElementOfSeq DEF At, Validating, IInv, CodeInv
<1> QED BY <1>1, <1>2, <1>3, <1>5, EmptySeq

LEMMA RejectInv ==
  ASSUME IInv, phase = "validate", Reject
  PROVE  IInv'
<1>1. UNCHANGED <<instructions, blockBeginStack, position, types, labels>> /\ phase' = "rejected"
  BY DEF Reject, validatorVars
<1> QED BY <1>1 DEF IInv, CodeInv, ValidatorInv, ValidationIsBalanced, Phases, Nested

\* A step that keeps the count of labels, their order and the lowest one keeps
\* the invariant.
LEMMA PassesInv ==
  ASSUME Validating, NEW ts \in Seq(OperandTypes), NEW ls \in Seq(ValidatorLabels), NEW code,
         SameTokens(code), Passes(ts, ls, code),
         Len(ls) = Len(labels) + NestingOf(Op),
         Nested(ts, ls), Bottom(ts, ls)
  PROVE  IInv'
<1>1. /\ Len(instructions) \in Nat /\ position \in 0..(Len(instructions) - 1)
      /\ Nesting(instructions, position) \in Int
  BY HasInnermost
<1>2. \A p \in 0..Len(instructions) : Nesting(code, p) = Nesting(instructions, p)
  BY <1>1, NestingSame DEF SameTokens
<1>3. Nesting(instructions, position + 1) = Nesting(instructions, position) + NestingOf(Op)
  BY <1>1, NestingStep DEF Op, At
<1>4. CodeInv'
  <2>1. /\ instructions' = code /\ Len(code) = Len(instructions)
        /\ code \in Seq(InstructionType)
        /\ UNCHANGED <<phase, blockBeginStack>> /\ phase = "validate"
    BY DEF Passes, SameTokens, Validating
  <2>2. /\ \A p \in 0..(Len(instructions) - 1) : Nesting(instructions, p) >= 0
        /\ Nesting(instructions, Len(instructions)) = -1
        /\ blockBeginStack \in Seq(BlockBegins)
    BY <2>1 DEF Validating, IInv, CodeInv
  <2>3. /\ \A p \in 0..(Len(code) - 1) : Nesting(code, p) >= 0
        /\ Nesting(code, Len(code)) = -1
    BY <1>1, <1>2, <2>1, <2>2
  <2> QED BY <2>1, <2>2, <2>3 DEF CodeInv, Phases
<1>5. Len(labels) = Nesting(instructions, position) + 1
  BY DEF Validating, IInv, ValidatorInv
<1>6. NestingOf(Op) \in Int
  BY DEF NestingOf
<1>7. Len(labels') = Nesting(instructions', position') + 1
  BY <1>1, <1>2, <1>3, <1>5, <1>6 DEF Passes
<1>8. position' \in 0..Len(instructions')
  BY <1>1 DEF Passes, SameTokens
<1>9. ValidatorInv'
  BY <1>7, <1>8 DEF ValidatorInv, Passes, Validating, Nested, Bottom
<1>10. ValidationIsBalanced'
  BY DEF ValidationIsBalanced, Passes, Validating
<1> QED BY <1>4, <1>9, <1>10 DEF IInv

LEMMA SameCode ==
  ASSUME Validating
  PROVE  SameTokens(instructions)
BY DEF SameTokens, Validating, IInv, CodeInv

\* The labels stay and the stack does not fall below the innermost one.
LEMMA KeepsLabelsInv ==
  ASSUME Validating, NEW ts \in Seq(OperandTypes), NEW code, SameTokens(code),
         NestingOf(Op) = 0, Len(ts) >= LastLabel.stackHeight, Passes(ts, labels, code)
  PROVE  IInv'
<1>1. labels # <<>> /\ ValidatorInv
  BY HasInnermost DEF Validating, IInv
<1>2. /\ LastLabel = labels[Len(labels)] /\ Len(labels) \in Nat \ {0}
      /\ labels \in Seq(ValidatorLabels)
  BY <1>1, InnermostLabel DEF ValidatorInv
<1>3. Nested(ts, labels)
  BY <1>1, <1>2 DEF Nested, ValidatorInv
<1>4. Bottom(ts, labels)
  BY <1>1 DEF Bottom, Validating, ValidatorInv
<1> QED BY <1>2, <1>3, <1>4, PassesInv

\* Only the innermost label changes, and not its height, results or place.
LEMMA KeepsHeightsInv ==
  ASSUME Validating, NEW ts \in Seq(OperandTypes), NEW l \in ValidatorLabels, NEW code,
         SameTokens(code), NestingOf(Op) = 0,
         l.stackHeight = LastLabel.stackHeight, l.returnTypes = LastLabel.returnTypes,
         Len(ts) >= LastLabel.stackHeight,
         Passes(ts, [labels EXCEPT ![Len(labels)] = l], code)
  PROVE  IInv'
<1> DEFINE ls == [labels EXCEPT ![Len(labels)] = l]
<1>1. labels # <<>> /\ ValidatorInv
  BY HasInnermost DEF Validating, IInv
<1>2. /\ LastLabel = labels[Len(labels)] /\ Len(labels) \in Nat \ {0}
      /\ labels \in Seq(ValidatorLabels)
  BY <1>1, InnermostLabel DEF ValidatorInv
<1>3. Len(labels) \in 1..Len(labels)
  BY <1>2
<1>4. /\ ls \in Seq(ValidatorLabels) /\ Len(ls) = Len(labels)
      /\ \A k \in 1..Len(labels) : ls[k] = IF k = Len(labels) THEN l ELSE labels[k]
  BY <1>2, <1>3, ExceptSeq
<1> HIDE DEF ls
<1>5. \A k \in 1..Len(labels) : /\ ls[k].stackHeight = labels[k].stackHeight
                                /\ ls[k].returnTypes = labels[k].returnTypes
  BY <1>2, <1>4
<1>6. Nested(ts, ls)
  <2>1. ASSUME NEW k \in 1..Len(ls)
        PROVE  ls[k].stackHeight <= IF k < Len(ls) THEN ls[k + 1].stackHeight ELSE Len(ts)
    <3>1. CASE k < Len(ls)
      <4>1. k + 1 \in 1..Len(labels)
        BY <1>2, <1>4, <3>1
      <4>2. labels[k].stackHeight <= labels[k + 1].stackHeight
        BY <1>1, <1>4, <3>1 DEF ValidatorInv, Nested
      <4> QED BY <1>4, <1>5, <3>1, <4>1, <4>2
    <3>2. CASE k = Len(ls)
      BY <1>2, <1>4, <1>5, <3>2
    <3> QED BY <1>2, <1>4, <3>1, <3>2
  <2> QED BY <2>1 DEF Nested
<1>7. Bottom(ts, ls)
  <2>1. ls # <<>> /\ 1 \in 1..Len(labels)
    BY <1>2, <1>4, EmptySeq
  <2>2. labels[1].stackHeight = 0 /\ labels[1].returnTypes = FunctionType.returns
    BY <1>1 DEF Bottom, Validating, ValidatorInv
  <2> QED BY <1>5, <2>1, <2>2 DEF Bottom
<1>8. Passes(ts, ls, code)
  BY DEF ls
<1>9. Len(ls) = Len(labels) + NestingOf(Op)
  BY <1>2, <1>4
<1> QED BY <1>4, <1>6, <1>7, <1>8, <1>9, PassesInv

\* A block is entered.
LEMMA PushesLabelInv ==
  ASSUME Validating, NEW ts \in Seq(OperandTypes), NEW l \in ValidatorLabels, NEW code,
         SameTokens(code), NestingOf(Op) = 1,
         l.stackHeight >= LastLabel.stackHeight, l.stackHeight <= Len(ts),
         Passes(ts, Append(labels, l), code)
  PROVE  IInv'
<1> DEFINE ls == Append(labels, l)
<1>1. labels # <<>> /\ ValidatorInv
  BY HasInnermost DEF Validating, IInv
<1>2. /\ LastLabel = labels[Len(labels)] /\ Len(labels) \in Nat \ {0}
      /\ labels \in Seq(ValidatorLabels)
  BY <1>1, InnermostLabel DEF ValidatorInv
<1>3. /\ ls \in Seq(ValidatorLabels) /\ Len(ls) = Len(labels) + 1
      /\ \A k \in 1..Len(labels) : ls[k] = labels[k]
      /\ ls[Len(labels) + 1] = l
  BY <1>2, AppendProperties
<1>4. Passes(ts, ls, code)
  OBVIOUS
<1> HIDE DEF ls
<1>5. Nested(ts, ls)
  <2>1. ASSUME NEW k \in 1..Len(ls)
        PROVE  ls[k].stackHeight <= IF k < Len(ls) THEN ls[k + 1].stackHeight ELSE Len(ts)
    <3>1. CASE k < Len(labels)
      <4>1. labels[k].stackHeight <= labels[k + 1].stackHeight
        BY <1>1, <1>2, <3>1 DEF ValidatorInv, Nested
      <4> QED BY <1>2, <1>3, <3>1, <4>1
    <3>2. CASE k = Len(labels)
      BY <1>2, <1>3, <3>2
    <3>3. CASE k = Len(labels) + 1
      BY <1>2, <1>3, <3>3
    <3> QED BY <1>2, <1>3, <3>1, <3>2, <3>3
  <2> QED BY <2>1 DEF Nested
<1>6. Bottom(ts, ls)
  <2>1. ls # <<>> /\ 1 \in 1..Len(labels)
    BY <1>2, <1>3, EmptySeq
  <2>2. labels[1].stackHeight = 0 /\ labels[1].returnTypes = FunctionType.returns
    BY <1>1 DEF Bottom, Validating, ValidatorInv
  <2> QED BY <1>3, <2>1, <2>2 DEF Bottom
<1> QED BY <1>3, <1>4, <1>5, <1>6, PassesInv

\* A block, or the function, is left with exactly its results on the stack.
LEMMA PopsLabelInv ==
  ASSUME Validating, NEW ts \in Seq(OperandTypes), Op = "end",
         Len(ts) >= LastLabel.stackHeight,
         LastLabel.stackHeight = 0 => ts = LastLabel.returnTypes,
         Passes(ts, Front(labels), instructions)
  PROVE  IInv'
<1> DEFINE ls == Front(labels)
<1>1. labels # <<>> /\ ValidatorInv
  BY HasInnermost DEF Validating, IInv
<1>2. /\ LastLabel = labels[Len(labels)] /\ labels \in Seq(ValidatorLabels)
      /\ Len(labels) \in Nat /\ Len(labels) >= 1 /\ Len(ts) \in Nat
  BY <1>1, InnermostLabel, LenProperties DEF ValidatorInv
<1>3. /\ ls \in Seq(ValidatorLabels) /\ Len(ls) = Len(labels) - 1
      /\ \A k \in 1..(Len(labels) - 1) : ls[k] = labels[k]
  BY <1>1, <1>2, FrontAndLast
<1>4. Passes(ts, ls, instructions) /\ Len(ls) = Len(labels) + NestingOf(Op)
  BY <1>2, <1>3 DEF NestingOf, Openers
<1> HIDE DEF ls
<1>5. \A k \in 1..Len(labels) : labels[k].stackHeight \in Nat
  <2>1. \A k \in 1..Len(labels) : labels[k] \in ValidatorLabels
    BY <1>2, ElementOfSeq
  <2> QED BY <2>1 DEF ValidatorLabels
<1>6. Nested(ts, ls)
  <2>1. ASSUME NEW k \in 1..Len(ls)
        PROVE  ls[k].stackHeight <= IF k < Len(ls) THEN ls[k + 1].stackHeight ELSE Len(ts)
    <3>1. k \in 1..Len(labels) /\ k < Len(labels) /\ k + 1 \in 1..Len(labels)
      BY <1>2, <1>3
    <3>2. labels[k].stackHeight <= labels[k + 1].stackHeight
      BY <1>1, <3>1 DEF ValidatorInv, Nested
    <3>3. CASE k < Len(ls)
      <4>1. k \in 1..(Len(labels) - 1) /\ k + 1 \in 1..(Len(labels) - 1)
        BY <1>2, <1>3, <3>1, <3>3
      <4> QED BY <1>3, <3>2, <3>3, <4>1
    <3>4. CASE k = Len(ls)
      <4>1. labels[k + 1] = LastLabel
        BY <1>2, <1>3, <3>4
      <4>2. labels[k].stackHeight <= Len(ts)
        BY <1>2, <1>5, <3>1, <3>2, <4>1
      <4> QED BY <1>2, <1>3, <3>4, <4>2
    <3> QED BY <1>2, <1>3, <3>3, <3>4
  <2> QED BY <2>1 DEF Nested
<1>7. Bottom(ts, ls)
  <2>1. labels[1].stackHeight = 0 /\ labels[1].returnTypes = FunctionType.returns
    BY <1>1 DEF Bottom, Validating, ValidatorInv
  <2>2. CASE Len(labels) = 1
    <3>1. ls = <<>>
      BY <1>3, <2>2, EmptySeq
    <3>2. ts = FunctionType.returns
      BY <1>2, <2>1, <2>2
    <3> QED BY <3>1, <3>2 DEF Bottom
  <2>3. CASE Len(labels) > 1
    <3>1. ls # <<>> /\ 1 \in 1..(Len(labels) - 1)
      BY <1>2, <1>3, <2>3, EmptySeq
    <3> QED BY <1>3, <2>1, <3>1 DEF Bottom
  <2>4. Len(labels) = 1 \/ Len(labels) > 1
    BY <1>2
  <2> QED BY <2>2, <2>3, <2>4
<1> QED BY <1>3, <1>4, <1>6, <1>7, SameCode, PassesInv

-----------------------------------------------------------------------------
(* The kinds of steps.                                                     *)

LEMMA Innermost ==
  ASSUME Validating
  PROVE  /\ LastLabel \in ValidatorLabels
         /\ types \in Seq(OperandTypes) /\ Len(types) \in Nat
         /\ LastLabel.stackHeight \in Nat /\ LastLabel.stackHeight <= Len(types)
         /\ LastLabel.paramTypes \in Seq(Types) /\ LastLabel.returnTypes \in Seq(Types)
<1>1. labels # <<>> /\ ValidatorInv
  BY HasInnermost DEF Validating, IInv
<1> QED BY <1>1, InnermostLabel DEF ValidatorInv

\* What is left of the stack when operands have been popped.
LEMMA UnderOperands ==
  ASSUME Validating, NEW ts \in Seq(OperandTypes), LastLabel.stackHeight <= Len(ts),
         NEW expected \in Seq(OperandTypes)
  PROVE  /\ AfterExpect(ts, LastLabel, expected) \in Seq(OperandTypes)
         /\ Len(AfterExpect(ts, LastLabel, expected)) \in Nat
         /\ LastLabel.stackHeight <= Len(AfterExpect(ts, LastLabel, expected))
         /\ \A k \in 1..Len(expected) :
              Popped(ts, LastLabel, Len(expected), k) \in OperandTypes
<1>1. Len(expected) \in Nat /\ Len(ts) \in Nat
  BY LenProperties
<1>2. LastLabel \in ValidatorLabels /\ LastLabel.stackHeight \in Nat
  BY Innermost
<1>3. /\ AfterPop(ts, LastLabel, Len(expected)) \in Seq(OperandTypes)
      /\ Len(AfterPop(ts, LastLabel, Len(expected))) \in LastLabel.stackHeight..Len(ts)
      /\ \A k \in 1..Len(expected) :
           Popped(ts, LastLabel, Len(expected), k) \in OperandTypes
  BY <1>1, <1>2, PopBounds
<1> QED BY <1>1, <1>2, <1>3 DEF AfterExpect

LEMMA ExpectInv ==
  ASSUME Validating, NEW params \in Seq(Types), NEW returns \in Seq(Types),
         NestingOf(Op) = 0, ExpectOf(params, returns)
  PROVE  IInv'
<1> DEFINE under == AfterExpect(types, LastLabel, params)
<1>1. /\ under \in Seq(OperandTypes) /\ Len(under) \in Nat
      /\ LastLabel.stackHeight <= Len(under)
  BY Innermost, UnderOperands, TypesAreOperands
<1>2. returns \in Seq(OperandTypes) /\ Len(returns) \in Nat
  BY TypesAreOperands
<1>3. under \o returns \in Seq(OperandTypes) /\ Len(under \o returns) = Len(under) + Len(returns)
  BY <1>1, <1>2, ConcatProperties
<1>4. Len(under \o returns) >= LastLabel.stackHeight
  BY <1>1, <1>2, <1>3, Innermost
<1>5. CASE Reject
  BY <1>5, RejectInv DEF Validating
<1>6. CASE Passes(under \o returns, labels, instructions)
  <2> HIDE DEF under
  <2> QED BY <1>3, <1>4, <1>6, SameCode, KeepsLabelsInv
<1> QED BY <1>5, <1>6 DEF ExpectOf, Check, Passes

\* What follows is unreachable.
LEMMA LeavingInv ==
  ASSUME Validating, NEW code, SameTokens(code), NestingOf(Op) = 0,
         Passes(SubSeq(types, 1, LastLabel.stackHeight),
                [labels EXCEPT ![Len(labels)].unreachable = TRUE], code)
  PROVE  IInv'
<1> DEFINE ts == SubSeq(types, 1, LastLabel.stackHeight)
           l == [labels[Len(labels)] EXCEPT !.unreachable = TRUE]
<1>1. ts \in Seq(OperandTypes) /\ Len(ts) = LastLabel.stackHeight
  <2>1. \A k \in 1..LastLabel.stackHeight : types[k] \in OperandTypes
    BY Innermost, ElementOfSeq
  <2> QED BY <2>1, Innermost, SubSeqProperties
<1>2. LastLabel = labels[Len(labels)] /\ LastLabel \in ValidatorLabels
  BY HasInnermost, InnermostLabel DEF Validating, IInv
<1>3. /\ l \in ValidatorLabels /\ l.stackHeight = LastLabel.stackHeight
      /\ l.returnTypes = LastLabel.returnTypes
  BY <1>2 DEF ValidatorLabels
<1>4. Passes(ts, [labels EXCEPT ![Len(labels)] = l], code)
  OBVIOUS
<1>5. Len(ts) >= LastLabel.stackHeight
  BY <1>1, Innermost
<1> HIDE DEF ts, l
<1> QED BY <1>1, <1>3, <1>4, <1>5, KeepsHeightsInv

LEMMA LeavesInv ==
  ASSUME Validating, NestingOf(Op) = 0, NEW code, SameTokens(code),
         \/ Reject
         \/ Passes(SubSeq(types, 1, LastLabel.stackHeight),
                   [labels EXCEPT ![Len(labels)].unreachable = TRUE], code)
  PROVE  IInv'
BY RejectInv, LeavingInv DEF Validating

\* A branch gets the label in the place of its index.
LEMMA LoweredSame ==
  ASSUME Validating, NEW l \in Labels
  PROVE  SameTokens(Lowered(l))
<1>1. instructions \in Seq(InstructionType) /\ position + 1 \in 1..Len(instructions)
  BY HasInnermost DEF Validating, IInv, CodeInv
<1>2. instructions[position + 1] \in InstructionType
  BY <1>1, ElementOfSeq
<1> DEFINE i == [instructions[position + 1] EXCEPT !.label = l]
<1>3. i \in InstructionType /\ i.op = instructions[position + 1].op
  BY <1>2 DEF InstructionType
<1>4. Lowered(l) = [instructions EXCEPT ![position + 1] = i]
  BY DEF Lowered
<1> HIDE DEF i
<1> QED BY <1>1, <1>3, <1>4, ExceptSeq DEF SameTokens

LEMMA TargetsSame ==
  ASSUME Validating, NEW targets \in Seq(Labels)
  PROVE  SameTokens([instructions EXCEPT ![position + 1].targets = targets])
<1>1. instructions \in Seq(InstructionType) /\ position + 1 \in 1..Len(instructions)
  BY HasInnermost DEF Validating, IInv, CodeInv
<1>2. instructions[position + 1] \in InstructionType
  BY <1>1, ElementOfSeq
<1> DEFINE i == [instructions[position + 1] EXCEPT !.targets = targets]
<1>3. i \in InstructionType /\ i.op = instructions[position + 1].op
  BY <1>2 DEF InstructionType
<1>4. [instructions EXCEPT ![position + 1].targets = targets]
        = [instructions EXCEPT ![position + 1] = i]
  OBVIOUS
<1> HIDE DEF i
<1> QED BY <1>1, <1>3, <1>4, ExceptSeq DEF SameTokens

\* What get_label reads is a label, be it a stray one.
LEMMA LabelFound ==
  ASSUME Validating, NEW index \in Nat, NEW stray \in StrayLabels
  PROVE  /\ GetLabel(index, stray) \in ValidatorLabels
         /\ GetLabel(index, stray).label \in Labels
         /\ BranchTypes(GetLabel(index, stray)) \in Seq(Types)
<1>1. labels \in Seq(ValidatorLabels) /\ Len(labels) \in Nat
  BY LenProperties DEF Validating, IInv, ValidatorInv
<1>2. index < Len(labels) => Len(labels) - index \in 1..Len(labels)
  BY <1>1
<1>3. GetLabel(index, stray) \in ValidatorLabels
  BY <1>1, <1>2, ElementOfSeq, ValidatorAssumption DEF GetLabel
<1>4. <<>> \in Seq(Types)
  BY EmptySeq
<1> QED BY <1>3, <1>4 DEF ValidatorLabels, BranchTypes

-----------------------------------------------------------------------------
(* The instructions.                                                       *)

IsSignature(s) == s.params \in Seq(Types) /\ s.returns \in Seq(Types)

LEMMA SignaturesBuilt ==
  /\ IsSignature(Empty)
  /\ \A a \in Types : /\ IsSignature(Signature(<<>>, <<a>>))
                      /\ IsSignature(Signature(<<a>>, <<>>))
  /\ \A a, b \in Types : /\ IsSignature(Signature(<<a>>, <<b>>))
                         /\ IsSignature(Signature(<<a, b>>, <<>>))
  /\ \A a, b, c \in Types : /\ IsSignature(Signature(<<a, b>>, <<c>>))
                            /\ IsSignature(Signature(<<a, b, c>>, <<>>))
  /\ \A a, b, c, d \in Types : IsSignature(Signature(<<a, b, c>>, <<d>>))
<1>1. \A a, b, c \in Types :
        /\ <<>> \in Seq(Types) /\ <<a>> \in Seq(Types)
        /\ <<a, b>> \in Seq(Types) /\ <<a, b, c>> \in Seq(Types)
  OBVIOUS
<1> QED BY <1>1 DEF IsSignature, Signature, Empty

LEMMA IndexedElement ==
  ASSUME NEW S, NEW s \in Seq(S), NEW n \in Nat, n < Len(s)
  PROVE  s[n + 1] \in S
<1>1. n + 1 \in 1..Len(s)
  BY LenProperties
<1> QED BY <1>1, ElementOfSeq

\* The elements that indices which have been checked stand for.
LEMMA IndicesFind ==
  ASSUME NEW n \in Nat
  PROVE  /\ n < Len(Memories) => Memory(n) \in Types
         /\ n < Len(Tables) => TableAt(n).type \in Types /\ TableAt(n).address \in Types
         /\ n < Len(Globals) => Globals[n + 1].type \in Types
         /\ n < Len(FunctionLocals) => FunctionLocals[n + 1] \in Types
         /\ n < Len(Callees) => Callees[n + 1] \in Signatures
         /\ n < Len(FunctionTypes) => FunctionTypes[n + 1] \in Signatures
<1> DEFINE TableTypes == [type : Types, address : {"i32", "i64"}]
           GlobalTypes == [type : Types, mutable : BOOLEAN]
<1>1. \A t \in TableTypes : t.type \in Types /\ t.address \in Types
  BY DEF Types
<1>2. \A g \in GlobalTypes : g.type \in Types
  OBVIOUS
<1>3. Tables \in Seq(TableTypes) /\ Globals \in Seq(GlobalTypes)
  BY ValidatorAssumption
<1> HIDE DEF TableTypes, GlobalTypes
<1>4. FunctionLocals \in Seq(Types)
  BY ValidatorAssumption, ConcatProperties DEF FunctionLocals, Signatures
<1>5. {"i32", "i64"} \subseteq Types
  BY DEF Types
<1>6. n < Len(Memories) => Memory(n) \in Types
  BY <1>5, ValidatorAssumption, IndexedElement DEF Memory
<1>7. n < Len(Tables) => TableAt(n).type \in Types /\ TableAt(n).address \in Types
  BY <1>1, <1>3, IndexedElement DEF TableAt
<1>8. n < Len(Globals) => Globals[n + 1].type \in Types
  BY <1>2, <1>3, IndexedElement
<1>9. n < Len(FunctionLocals) => FunctionLocals[n + 1] \in Types
  BY <1>4, IndexedElement
<1>10. /\ n < Len(Callees) => Callees[n + 1] \in Signatures
       /\ n < Len(FunctionTypes) => FunctionTypes[n + 1] \in Signatures
  BY ValidatorAssumption, IndexedElement
<1> QED BY <1>6, <1>7, <1>8, <1>9, <1>10

LEMMA IndicesAreNat ==
  ASSUME NEW i \in InstructionType
  PROVE  i.idx \in Nat /\ i.idx2 \in Nat
BY DEF InstructionType

LEMMA CalleeTyped ==
  ASSUME NEW i \in InstructionType,
         i.op \in {"call", "call_indirect", "return_call", "return_call_indirect"},
         IndicesValid(i)
  PROVE  CalleeType(i) \in Signatures /\ CalleeIndex(i) \in Seq(Types)
<1>1. i.op \in IndirectCalls => /\ i.idx < Len(FunctionTypes)
                                /\ i.idx2 < Len(Tables)
  BY DEF IndicesValid, IndirectCalls
<1>2. i.op \notin IndirectCalls => i.idx < Len(Callees)
  BY DEF IndicesValid, IndirectCalls
<1>3. CalleeType(i) \in Signatures
  BY <1>1, <1>2, IndicesAreNat, IndicesFind DEF CalleeType
<1>4. CASE i.op \in IndirectCalls
  <2>1. TableAt(i.idx2).address \in Types
    BY <1>1, <1>4, IndicesAreNat, IndicesFind
  <2> QED BY <1>3, <1>4, <2>1 DEF CalleeIndex
<1>5. CASE i.op \notin IndirectCalls
  BY <1>3, <1>5, EmptySeq DEF CalleeIndex
<1> QED BY <1>4, <1>5

LEMMA CallSignature ==
  ASSUME NEW i \in InstructionType,
         i.op \in {"call", "call_indirect", "return_call", "return_call_indirect"},
         IndicesValid(i)
  PROVE  IsSignature(CallAs(i))
<1>1. CalleeType(i) \in Signatures /\ CalleeIndex(i) \in Seq(Types)
  BY CalleeTyped
<1>2. CalleeType(i).params \in Seq(Types) /\ CalleeType(i).returns \in Seq(Types)
  BY <1>1 DEF Signatures
<1>3. CalleeType(i).params \o CalleeIndex(i) \in Seq(Types)
  BY <1>1, <1>2, ConcatProperties
<1> QED BY <1>2, <1>3 DEF CallAs, Signature, IsSignature

\* What the validator takes and leaves is a list of types, once the indices
\* have been checked.
LEMMA ValidSignature ==
  ASSUME NEW i \in InstructionType, i.op \in SimpleOps, IndicesValid(i)
  PROVE  IsSignature(ValidatedAs(i))
<1>1. "i32" \in Types /\ "i64" \in Types /\ "v128" \in Types /\ "funcref" \in Types
  BY DEF Types
<1>2. CASE i.op \in ConstantOps
  <2>1. IsSignature(ConstantAs(i))
    BY <1>1, <1>2, SignaturesBuilt DEF ConstantOps, ConstantAs
  <2>2. ValidatedAs(i) = ConstantAs(i)
    BY <1>2 DEF ValidatedAs, ConstantOps, VectorOps, VariableOps, LoadStoreOps, BulkOps,
                TableOps, ReferenceOps
  <2> QED BY <2>1, <2>2
<1>3. CASE i.op \in VectorOps
  <2>1. IsSignature(VectorAs(i))
    BY <1>1, <1>3, SignaturesBuilt DEF VectorOps, VectorAs
  <2>2. ValidatedAs(i) = VectorAs(i)
    BY <1>3 DEF ValidatedAs, ConstantOps, VectorOps, VariableOps, LoadStoreOps, BulkOps,
                TableOps, ReferenceOps
  <2> QED BY <2>1, <2>2
<1>4. CASE i.op \in VariableOps
  <2>1. /\ i.op \in {"local_get", "local_set", "local_tee"} => i.idx < Len(FunctionLocals)
        /\ i.op \in {"global_get", "global_set"} => i.idx < Len(Globals)
    BY <1>4 DEF IndicesValid, IndirectCalls
  <2>2. /\ i.op \in {"local_get", "local_set", "local_tee"} => FunctionLocals[i.idx + 1] \in Types
        /\ i.op \in {"global_get", "global_set"} => Globals[i.idx + 1].type \in Types
    BY <2>1, IndicesAreNat, IndicesFind
  <2>3. IsSignature(VariableAs(i))
    BY <1>4, <2>2, SignaturesBuilt DEF VariableOps, VariableAs
  <2>4. ValidatedAs(i) = VariableAs(i)
    BY <1>4 DEF ValidatedAs, ConstantOps, VectorOps, VariableOps, LoadStoreOps, BulkOps,
                TableOps, ReferenceOps
  <2> QED BY <2>3, <2>4
<1>5. CASE i.op \in LoadStoreOps
  <2>1. i.idx < Len(Memories)
    BY <1>5 DEF LoadStoreOps, IndicesValid, IndirectCalls
  <2>2. Memory(i.idx) \in Types
    BY <2>1, IndicesAreNat, IndicesFind
  <2>3. IsSignature(LoadStoreAs(i))
    BY <1>1, <1>5, <2>2, SignaturesBuilt DEF LoadStoreOps, LoadStoreAs, StoreAs
  <2>4. ValidatedAs(i) = LoadStoreAs(i)
    BY <1>5 DEF ValidatedAs, ConstantOps, VectorOps, VariableOps, LoadStoreOps, BulkOps,
                TableOps, ReferenceOps
  <2> QED BY <2>3, <2>4
<1>6. CASE i.op \in BulkOps
  <2>1. /\ i.op \in {"memory_copy", "memory_fill"} => i.idx < Len(Memories)
        /\ i.op \in {"memory_init", "memory_copy"} => i.idx2 < Len(Memories)
    BY <1>6 DEF IndicesValid, IndirectCalls
  <2>2. /\ i.op \in {"memory_copy", "memory_fill"} => Memory(i.idx) \in Types
        /\ i.op \in {"memory_init", "memory_copy"} => Memory(i.idx2) \in Types
    BY <2>1, IndicesAreNat, IndicesFind
  <2>3. AddressOfCount(Memory(i.idx), Memory(i.idx2)) \in Types
    BY <1>1 DEF AddressOfCount
  <2>4. IsSignature(BulkAs(i))
    BY <1>1, <1>6, <2>2, <2>3, SignaturesBuilt DEF BulkOps, BulkAs
  <2>5. ValidatedAs(i) = BulkAs(i)
    BY <1>6 DEF ValidatedAs, ConstantOps, VectorOps, VariableOps, LoadStoreOps, BulkOps,
                TableOps, ReferenceOps
  <2> QED BY <2>4, <2>5
<1>7. CASE i.op \in TableOps
  <2>1. /\ i.op \in TableOps \ {"elem_drop", "table_init"} => i.idx < Len(Tables)
        /\ i.op \in {"table_init", "table_copy"} => i.idx2 < Len(Tables)
    BY <1>7 DEF TableOps, IndicesValid, IndirectCalls
  <2>2. /\ i.op \in TableOps \ {"elem_drop", "table_init"} =>
             TableAt(i.idx).type \in Types /\ TableAt(i.idx).address \in Types
        /\ i.op \in {"table_init", "table_copy"} => TableAt(i.idx2).address \in Types
    BY <2>1, IndicesAreNat, IndicesFind
  <2>3. AddressOfCount(TableAt(i.idx).address, TableAt(i.idx2).address) \in Types
    BY <1>1 DEF AddressOfCount
  <2>4. IsSignature(TableAs(i))
    BY <1>1, <1>7, <2>2, <2>3, SignaturesBuilt DEF TableOps, TableAs
  <2>5. ValidatedAs(i) = TableAs(i)
    BY <1>7 DEF ValidatedAs, ConstantOps, VectorOps, VariableOps, LoadStoreOps, BulkOps,
                TableOps, ReferenceOps
  <2> QED BY <2>4, <2>5
<1>8. CASE i.op \in ReferenceOps
  <2>1. IsSignature(ReferenceAs(i))
    BY <1>1, <1>8, SignaturesBuilt DEF ReferenceOps, ReferenceAs
  <2>2. ValidatedAs(i) = ReferenceAs(i)
    BY <1>8 DEF ValidatedAs, ConstantOps, VectorOps, VariableOps, LoadStoreOps, BulkOps,
                TableOps, ReferenceOps
  <2> QED BY <2>1, <2>2
<1>9. CASE i.op \in {"call", "call_indirect"}
  <2>1. IsSignature(CallAs(i))
    BY <1>9, CallSignature
  <2>2. ValidatedAs(i) = CallAs(i)
    BY <1>9 DEF ValidatedAs, ConstantOps, VectorOps, VariableOps, LoadStoreOps, BulkOps,
                TableOps, ReferenceOps
  <2> QED BY <2>1, <2>2
<1> QED BY <1>2, <1>3, <1>4, <1>5, <1>6, <1>7, <1>8, <1>9 DEF SimpleOps

\* The instruction that is validated next.
LEMMA NextInstruction ==
  ASSUME Validating, NEW i, i = At(instructions, position)
  PROVE  /\ i \in InstructionType /\ Op = i.op
         /\ i.type.params \in Seq(Types) /\ i.type.returns \in Seq(Types)
         /\ i.label \in Labels /\ i.idx \in Nat /\ i.depths \in Seq(Nat)
<1>1. i \in InstructionType /\ Op = i.op
  BY HasInnermost DEF Op
<1> QED BY <1>1 DEF InstructionType, Signatures

LEMMA ValidateSimpleInv ==
  ASSUME Validating, NEW i, i = At(instructions, position), ValidateSimple(i)
  PROVE  IInv'
<1>1. i \in InstructionType /\ Op = i.op
  BY NextInstruction
<1>2. NestingOf(Op) = 0
  BY <1>1 DEF ValidateSimple, SimpleOps, ConstantOps, VectorOps, VariableOps, LoadStoreOps,
              BulkOps, TableOps, ReferenceOps, NestingOf, Openers
<1>3. CASE IndicesValid(i)
  <2>1. IsSignature(ValidatedAs(i))
    BY <1>1, <1>3, ValidSignature DEF ValidateSimple
  <2>2. ExpectOf(ValidatedAs(i).params, ValidatedAs(i).returns)
    BY <1>3 DEF ValidateSimple
  <2> QED BY <1>2, <2>1, <2>2, ExpectInv DEF IsSignature
<1>4. CASE ~IndicesValid(i)
  BY <1>4, RejectInv DEF ValidateSimple, Validating
<1> QED BY <1>3, <1>4

LEMMA ValidateDropInv ==
  ASSUME Validating, NEW i, i = At(instructions, position), ValidateDrop(i)
  PROVE  IInv'
<1> DEFINE under == AfterPop(types, LastLabel, 1)
<1>1. NestingOf(Op) = 0
  BY NextInstruction DEF ValidateDrop, NestingOf, Openers
<1>2. under \in Seq(OperandTypes) /\ Len(under) >= LastLabel.stackHeight
  <2>1. Len(under) \in LastLabel.stackHeight..Len(types) /\ under \in Seq(OperandTypes)
    BY Innermost, PopBounds
  <2> QED BY <2>1, Innermost
<1>3. CASE Reject
  BY <1>3, RejectInv DEF Validating
<1>4. CASE Passes(under, labels, instructions)
  BY <1>1, <1>2, <1>4, SameCode, KeepsLabelsInv
<1> QED BY <1>3, <1>4 DEF ValidateDrop, Check, Passes

LEMMA ValidateSelectInv ==
  ASSUME Validating, NEW i, i = At(instructions, position), ValidateSelect(i)
  PROVE  IInv'
<1> DEFINE under == AfterExpect(types, LastLabel, <<"i32">>)
           a == Popped(under, LastLabel, 2, 1)
           b == Popped(under, LastLabel, 2, 2)
           kept == IF a # Unknown THEN a ELSE b
           rest == AfterPop(under, LastLabel, 2)
<1>1. NestingOf(Op) = 0
  BY NextInstruction DEF ValidateSelect, NestingOf, Openers
<1>2. <<"i32">> \in Seq(OperandTypes)
  BY DEF OperandTypes, Types
<1>3. /\ under \in Seq(OperandTypes) /\ Len(under) \in Nat
      /\ LastLabel.stackHeight <= Len(under)
  BY <1>2, Innermost, UnderOperands
<1> HIDE DEF under
<1>4. /\ rest \in Seq(OperandTypes) /\ Len(rest) \in LastLabel.stackHeight..Len(under)
      /\ \A k \in 1..2 : Popped(under, LastLabel, 2, k) \in OperandTypes
  BY <1>3, Innermost, PopBounds
<1>5. kept \in OperandTypes
  BY <1>4
<1> HIDE DEF a, b, kept, rest
<1>6. /\ Append(rest, kept) \in Seq(OperandTypes)
      /\ Len(Append(rest, kept)) >= LastLabel.stackHeight
  <2>1. Len(Append(rest, kept)) = Len(rest) + 1 /\ Append(rest, kept) \in Seq(OperandTypes)
    BY <1>4, <1>5, AppendProperties
  <2> QED BY <1>3, <1>4, <2>1, Innermost
<1>7. CASE Reject
  BY <1>7, RejectInv DEF Validating
<1>8. CASE Passes(Append(rest, kept), labels, instructions)
  BY <1>1, <1>6, <1>8, SameCode, KeepsLabelsInv
<1> QED BY <1>7, <1>8 DEF ValidateSelect, Check, Passes, under, a, b, kept, rest

LEMMA ValidateSelectTypedInv ==
  ASSUME Validating, NEW i, i = At(instructions, position), ValidateSelectTyped(i)
  PROVE  IInv'
<1> DEFINE type == i.type.returns
<1>1. NestingOf(Op) = 0 /\ type \in Seq(Types)
  BY NextInstruction DEF ValidateSelectTyped, NestingOf, Openers
<1>2. <<"i32">> \in Seq(Types)
  BY DEF Types
<1> HIDE DEF type
<1>3. type \o type \o <<"i32">> \in Seq(Types)
  BY <1>1, <1>2, ConcatProperties
<1>4. CASE Reject
  BY <1>4, RejectInv DEF Validating
<1>5. CASE ExpectOf(type \o type \o <<"i32">>, type)
  BY <1>1, <1>3, <1>5, ExpectInv
<1> QED BY <1>4, <1>5 DEF ValidateSelectTyped, type

LEMMA ValidateUnreachableInv ==
  ASSUME Validating, NEW i, i = At(instructions, position), ValidateUnreachable(i)
  PROVE  IInv'
<1>1. NestingOf(Op) = 0
  BY NextInstruction DEF ValidateUnreachable, NestingOf, Openers
<1> QED BY <1>1, SameCode, LeavesInv DEF ValidateUnreachable, CheckLeaving, Check, Passes

\* A block is entered above what is beneath its parameters.
LEMMA EntersInv ==
  ASSUME Validating, NEW i, i = At(instructions, position), i.op \in Openers,
         NEW condition \in Seq(Types), NEW label \in Labels, NEW code, SameTokens(code),
         NEW below, below = AfterExpect(types, LastLabel, condition),
         Passes(below \o i.type.params, PushLabel(i, below, label), code)
  PROVE  IInv'
<1> DEFINE params == i.type.params
           l == [stackHeight |-> Len(below), returnTypes |-> i.type.returns,
                 paramTypes |-> params, type |-> i.op, unreachable |-> FALSE,
                 label |-> label]
<1>1. NestingOf(Op) = 1 /\ params \in Seq(Types) /\ i.type.returns \in Seq(Types)
  BY NextInstruction DEF NestingOf
<1>2. /\ below \in Seq(OperandTypes) /\ Len(below) \in Nat
      /\ LastLabel.stackHeight <= Len(below)
  BY Innermost, UnderOperands, TypesAreOperands
<1>3. l \in ValidatorLabels
  BY <1>1, <1>2 DEF ValidatorLabels, Openers
<1>4. l.stackHeight = Len(below)
  OBVIOUS
<1>5. Passes(below \o params, Append(labels, l), code)
  BY DEF PushLabel
<1> HIDE DEF params, l
<1>6. params \in Seq(OperandTypes) /\ Len(params) \in Nat
  BY <1>1, TypesAreOperands
<1>7. /\ below \o params \in Seq(OperandTypes)
      /\ Len(below \o params) = Len(below) + Len(params)
  BY <1>2, <1>6, ConcatProperties
<1>8. l.stackHeight >= LastLabel.stackHeight /\ l.stackHeight <= Len(below \o params)
  BY <1>2, <1>4, <1>6, <1>7, Innermost
<1> QED BY <1>1, <1>3, <1>5, <1>7, <1>8, PushesLabelInv

LEMMA ValidateBlockOrLoopInv ==
  ASSUME Validating, NEW i, i = At(instructions, position), ValidateBlockOrLoop(i)
  PROVE  IInv'
<1> DEFINE params == i.type.params
           below == AfterExpect(types, LastLabel, params)
           height == (Len(types) - Len(params)) % U32
           label == [i.label EXCEPT !.stackHeight = height]
<1>1. params \in Seq(Types) /\ i.label \in Labels /\ Len(params) \in Nat
  BY NextInstruction, TypesAreOperands
<1>2. height \in Nat
  <2>1. Len(types) - Len(params) \in Int /\ U32 \in Nat /\ U32 > 0
    BY <1>1, Innermost, ValidatorAssumption
  <2> HIDE DEF params
  <2> QED BY <2>1
<1> HIDE DEF height
<1>3. label \in Labels /\ NoLabel \in Labels
  BY <1>1, <1>2 DEF Labels, NoLabel
<1>4. SameTokens(Lowered(NoLabel))
  BY <1>3, LoweredSame
<1>5. CASE Reject
  BY <1>5, RejectInv DEF Validating
<1>6. CASE Passes(below \o params, PushLabel(i, below, label), Lowered(NoLabel))
  <2>1. i.op \in Openers
    BY DEF ValidateBlockOrLoop, Openers
  <2> HIDE DEF label
  <2> QED BY <1>1, <1>3, <1>4, <1>6, <2>1, EntersInv
<1> QED BY <1>5, <1>6 DEF ValidateBlockOrLoop, Check, Passes, height

LEMMA ValidateIfInv ==
  ASSUME Validating, NEW i, i = At(instructions, position), ValidateIf(i)
  PROVE  IInv'
<1> DEFINE condition == Append(i.type.params, "i32")
           below == AfterExpect(types, LastLabel, condition)
<1>1. condition \in Seq(Types) /\ i.label \in Labels
  <2>1. i.type.params \in Seq(Types) /\ "i32" \in Types /\ i.label \in Labels
    BY NextInstruction DEF Types
  <2> QED BY <2>1, AppendProperties
<1>2. i.op \in Openers
  BY DEF ValidateIf, Openers
<1>3. CASE Reject
  BY <1>3, RejectInv DEF Validating
<1>4. CASE Passes(below \o i.type.params, PushLabel(i, below, i.label), instructions)
  <2> HIDE DEF condition
  <2> QED BY <1>1, <1>2, <1>4, SameCode, EntersInv
<1> QED BY <1>3, <1>4 DEF ValidateIf, Check, Passes

LEMMA ValidateElseInv ==
  ASSUME Validating, NEW i, i = At(instructions, position), ValidateElse(i)
  PROVE  IInv'
<1> DEFINE under == AfterExpect(types, LastLabel, LastLabel.returnTypes)
           ts == under \o LastLabel.paramTypes
           l == [LastLabel EXCEPT !.type = "ifAfterElse", !.unreachable = FALSE]
           ls == [labels EXCEPT ![Len(labels)].type = "ifAfterElse",
                                ![Len(labels)].unreachable = FALSE]
<1>1. NestingOf(Op) = 0
  BY NextInstruction DEF ValidateElse, NestingOf, Openers
<1>2. /\ under \in Seq(OperandTypes) /\ Len(under) \in Nat
      /\ LastLabel.stackHeight <= Len(under)
      /\ LastLabel.paramTypes \in Seq(OperandTypes) /\ Len(LastLabel.paramTypes) \in Nat
  BY Innermost, UnderOperands, TypesAreOperands
<1> HIDE DEF under
<1>3. ts \in Seq(OperandTypes) /\ Len(ts) >= LastLabel.stackHeight
  <2>1. ts \in Seq(OperandTypes) /\ Len(ts) = Len(under) + Len(LastLabel.paramTypes)
    BY <1>2, ConcatProperties
  <2> QED BY <1>2, <2>1, Innermost
<1>4. /\ LastLabel = labels[Len(labels)] /\ LastLabel \in ValidatorLabels
      /\ Len(labels) \in 1..Len(labels) /\ DOMAIN labels = 1..Len(labels)
  BY HasInnermost, InnermostLabel, LenProperties DEF Validating, IInv, ValidatorInv
<1>5. /\ l \in ValidatorLabels /\ l.stackHeight = LastLabel.stackHeight
      /\ l.returnTypes = LastLabel.returnTypes
  BY <1>4 DEF ValidatorLabels
<1>6. ls = [labels EXCEPT ![Len(labels)] = l]
  BY <1>4
<1>7. CASE Reject
  BY <1>7, RejectInv DEF Validating
<1>8. CASE Passes(ts, ls, instructions)
  <2> HIDE DEF ts, l, ls
  <2> QED BY <1>1, <1>3, <1>5, <1>6, <1>8, SameCode, KeepsHeightsInv
<1> QED BY <1>7, <1>8 DEF ValidateElse, Check, Passes, under

\* With nothing beneath them the results are the stack.
LEMMA ValidateEndInv ==
  ASSUME Validating, NEW i, i = At(instructions, position), ValidateEnd(i)
  PROVE  IInv'
<1> DEFINE returns == LastLabel.returnTypes
           under == AfterExpect(types, LastLabel, returns)
           ts == under \o returns
<1>1. Op = "end"
  BY NextInstruction DEF ValidateEnd
<1>2. /\ under \in Seq(OperandTypes) /\ Len(under) \in Nat
      /\ returns \in Seq(OperandTypes) /\ Len(returns) \in Nat
      /\ LastLabel.stackHeight \in Nat
  BY Innermost, UnderOperands, TypesAreOperands
<1> HIDE DEF under, returns
<1>3. CASE Reject
  BY <1>3, RejectInv DEF Validating
<1>4. CASE Len(under) = LastLabel.stackHeight /\ Passes(ts, Front(labels), instructions)
  <2>1. ts \in Seq(OperandTypes) /\ Len(ts) = Len(under) + Len(returns)
    BY <1>2, ConcatProperties
  <2>2. Len(ts) >= LastLabel.stackHeight
    BY <1>2, <1>4, <2>1
  <2>3. LastLabel.stackHeight = 0 => ts = LastLabel.returnTypes
    <3>1. SUFFICES ASSUME LastLabel.stackHeight = 0 PROVE ts = returns
      BY DEF returns
    <3>2. under = <<>>
      BY <1>2, <1>4, <3>1, EmptySeq
    <3> QED BY <1>2, <3>2, ConcatEmptySeq
  <2> HIDE DEF ts
  <2> QED BY <1>1, <1>4, <2>1, <2>2, <2>3, PopsLabelInv
<1> QED BY <1>3, <1>4 DEF ValidateEnd, Check, LeavesResults, Passes, under, returns

LEMMA ValidateBrInv ==
  ASSUME Validating, NEW i, i = At(instructions, position),
         NEW stray \in StrayLabels, ValidateBr(i, stray)
  PROVE  IInv'
<1>1. NestingOf(Op) = 0 /\ i.idx \in Nat
  BY NextInstruction DEF ValidateBr, NestingOf, Openers
<1>2. CASE Reject
  BY <1>2, RejectInv DEF Validating
<1>3. CASE /\ HasLabel(i.idx)
           /\ Passes(SubSeq(types, 1, LastLabel.stackHeight),
                     [labels EXCEPT ![Len(labels)].unreachable = TRUE],
                     Lowered(GetLabel(i.idx, stray).label))
  <2>1. SameTokens(Lowered(GetLabel(i.idx, stray).label))
    BY <1>1, <1>3, LabelFound, LoweredSame
  <2> QED BY <1>1, <1>3, <2>1, LeavesInv
<1> QED BY <1>2, <1>3 DEF ValidateBr, CheckLeaving, Check, Passes

LEMMA ValidateBrIfInv ==
  ASSUME Validating, NEW i, i = At(instructions, position),
         NEW stray \in StrayLabels, ValidateBrIf(i, stray)
  PROVE  IInv'
<1> DEFINE taken == BranchTypes(GetLabel(i.idx, stray))
           under == AfterExpect(types, LastLabel, <<"i32">>)
           rest == AfterExpect(under, LastLabel, taken)
           again == [k \in 1..Len(taken) |-> Popped(under, LastLabel, Len(taken), k)]
<1>1. NestingOf(Op) = 0 /\ i.idx \in Nat
  BY NextInstruction DEF ValidateBrIf, NestingOf, Openers
<1>2. CASE Reject
  BY <1>2, RejectInv DEF Validating
<1>3. CASE /\ HasLabel(i.idx)
           /\ Passes(rest \o again, labels, Lowered(GetLabel(i.idx, stray).label))
  <2>1. /\ SameTokens(Lowered(GetLabel(i.idx, stray).label))
        /\ taken \in Seq(OperandTypes) /\ Len(taken) \in Nat
    BY <1>1, <1>3, LabelFound, LoweredSame, TypesAreOperands
  <2>2. <<"i32">> \in Seq(OperandTypes)
    BY DEF OperandTypes, Types
  <2>3. under \in Seq(OperandTypes) /\ LastLabel.stackHeight <= Len(under)
    BY <2>2, Innermost, UnderOperands
  <2> HIDE DEF taken, under
  <2>4. /\ rest \in Seq(OperandTypes) /\ Len(rest) \in Nat
        /\ LastLabel.stackHeight <= Len(rest)
        /\ \A k \in 1..Len(taken) : Popped(under, LastLabel, Len(taken), k) \in OperandTypes
    BY <2>1, <2>3, UnderOperands
  <2>5. again \in [1..Len(taken) -> OperandTypes]
    BY <2>4
  <2>6. again \in Seq(OperandTypes) /\ Len(again) \in Nat
    BY <2>1, <2>5, FunctionIsSeq, LenProperties
  <2> HIDE DEF rest, again
  <2>7. rest \o again \in Seq(OperandTypes) /\ Len(rest \o again) = Len(rest) + Len(again)
    BY <2>4, <2>6, ConcatProperties
  <2>8. Len(rest \o again) >= LastLabel.stackHeight
    BY <2>4, <2>6, <2>7, Innermost
  <2> QED BY <1>1, <1>3, <2>1, <2>7, <2>8, KeepsLabelsInv
<1> QED BY <1>2, <1>3 DEF ValidateBrIf, Check, Passes

LEMMA ValidateBrTableInv ==
  ASSUME Validating, NEW i, i = At(instructions, position),
         NEW stray \in StrayLabels, ValidateBrTable(i, stray)
  PROVE  IInv'
<1> DEFINE targets == [k \in DOMAIN i.depths |-> GetLabel(i.depths[k], stray).label]
<1>1. NestingOf(Op) = 0 /\ i.depths \in Seq(Nat)
  BY NextInstruction DEF ValidateBrTable, NestingOf, Openers
<1>2. CASE Reject
  BY <1>2, RejectInv DEF Validating
<1>3. CASE /\ \A k \in DOMAIN i.depths : HasLabel(i.depths[k])
           /\ Passes(SubSeq(types, 1, LastLabel.stackHeight),
                     [labels EXCEPT ![Len(labels)].unreachable = TRUE],
                     [instructions EXCEPT ![position + 1].targets = targets])
  <2>1. /\ DOMAIN i.depths = 1..Len(i.depths) /\ Len(i.depths) \in Nat
        /\ \A k \in DOMAIN i.depths : i.depths[k] \in Nat
    BY <1>1, LenProperties, ElementOfSeq
  <2>2. \A k \in DOMAIN i.depths : GetLabel(i.depths[k], stray).label \in Labels
    BY <1>3, <2>1, LabelFound
  <2>3. targets \in [1..Len(i.depths) -> Labels]
    BY <2>1, <2>2
  <2> HIDE DEF targets
  <2>4. targets \in Seq(Labels)
    BY <2>1, <2>3, FunctionIsSeq
  <2>5. SameTokens([instructions EXCEPT ![position + 1].targets = targets])
    BY <2>4, TargetsSame
  <2> QED BY <1>1, <1>3, <2>5, LeavesInv
<1> QED BY <1>2, <1>3 DEF ValidateBrTable, CheckLeaving, Check, Passes

LEMMA EndOutsideLabelsInv ==
  ASSUME Validating, NEW i, EndOutsideLabels(i)
  PROVE  IInv'
<1>1. /\ phase' = "labelsRange"
      /\ UNCHANGED <<instructions, blockBeginStack, position, types, labels>>
  BY DEF EndOutsideLabels, validatorVars
<1>2. CodeInv' /\ ValidatorInv'
  BY <1>1 DEF Validating, IInv, CodeInv, ValidatorInv, Phases, Nested
<1> QED BY <1>1, <1>2 DEF Validating, IInv, ValidationIsBalanced

LEMMA ValidateReturnInv ==
  ASSUME Validating, NEW i, i = At(instructions, position),
         ValidateReturn(i) \/ ValidateReturnCall(i)
  PROVE  IInv'
<1>1. NestingOf(Op) = 0
  BY NextInstruction DEF ValidateReturn, ValidateReturnCall, NestingOf, Openers
<1>2. \/ Reject
      \/ Passes(SubSeq(types, 1, LastLabel.stackHeight),
                [labels EXCEPT ![Len(labels)].unreachable = TRUE], instructions)
  BY DEF ValidateReturn, ValidateReturnCall, CheckLeaving, Check, Passes
<1> QED BY <1>1, <1>2, SameCode, LeavesInv

LEMMA StartValidationInv ==
  ASSUME IInv, StartValidation
  PROVE  IInv'
<1> DEFINE entry == EntryLabel(Len(instructions))
<1>1. /\ phase = "parsed" /\ phase' = "validate"
      /\ labels' = <<entry>>
      /\ UNCHANGED <<instructions, blockBeginStack, position, types>>
      /\ position = 0 /\ types = <<>> /\ Len(instructions) \in Nat
  BY LenProperties DEF StartValidation, IInv, CodeInv, ValidatorInv
<1>2. /\ FunctionType.params \in Seq(Types) /\ FunctionType.returns \in Seq(Types)
      /\ Len(FunctionType.returns) \in Nat
  BY ValidatorAssumption, SignatureLengths
<1>3. /\ entry \in ValidatorLabels
      /\ entry.stackHeight = 0 /\ entry.returnTypes = FunctionType.returns
  BY <1>1, <1>2 DEF EntryLabel, ValidatorLabels, Labels
<1> HIDE DEF entry
<1>4. /\ labels' \in Seq(ValidatorLabels) /\ Len(labels') = 1
      /\ labels'[1] = entry /\ labels' # <<>>
  BY <1>1, <1>3
<1>5. Len(labels') = Nesting(instructions', position') + 1
  BY <1>1, <1>4, NestingAtStart
<1>6. Nested(types', labels')
  <2>1. types \in Seq(OperandTypes) /\ Len(types) = 0
    BY <1>1, EmptySeq
  <2> QED BY <1>1, <1>3, <1>4, <2>1 DEF Nested
<1>7. CodeInv'
  BY <1>1 DEF IInv, CodeInv, Phases
<1>8. ValidatorInv'
  BY <1>1, <1>3, <1>4, <1>5, <1>6 DEF IInv, ValidatorInv, Bottom, Nested
<1> QED BY <1>1, <1>7, <1>8 DEF IInv, ValidationIsBalanced

\* The last end has popped the last label.
LEMMA FinishValidationInv ==
  ASSUME IInv, FinishValidation
  PROVE  IInv'
<1>1. /\ phase = "validate" /\ phase' = "run"
      /\ UNCHANGED <<instructions, blockBeginStack, position, types, labels>>
      /\ position = Len(instructions)
  BY DEF FinishValidation, validatorVars
<1>2. Len(labels) = 0
  BY <1>1 DEF IInv, CodeInv, ValidatorInv
<1>3. labels = <<>>
  BY <1>2, EmptySeq DEF IInv, ValidatorInv
<1>4. types = FunctionType.returns
  BY <1>1, <1>3 DEF IInv, ValidatorInv, Bottom
<1>5. CodeInv' /\ ValidatorInv'
  BY <1>1 DEF IInv, CodeInv, ValidatorInv, Phases, Nested
<1> QED BY <1>1, <1>3, <1>4, <1>5 DEF IInv, ValidationIsBalanced

LEMMA ValidatorStepInv ==
  ASSUME IInv, ValidatorStep
  PROVE  IInv'
<1>1. CASE StartValidation
  BY <1>1, StartValidationInv
<1>2. CASE ValidateInstruction
  <2> DEFINE i == At(instructions, position)
  <2>1. Validating
    BY <1>2, LenProperties DEF ValidateInstruction, Validating, IInv, ValidatorInv, CodeInv
  <2>2. \/ ValidateSimple(i) \/ ValidateDrop(i) \/ ValidateSelect(i)
        \/ ValidateSelectTyped(i) \/ ValidateUnreachable(i) \/ ValidateBlockOrLoop(i)
        \/ ValidateIf(i) \/ ValidateElse(i) \/ ValidateEnd(i)
        \/ \E stray \in StrayLabels :
             ValidateBr(i, stray) \/ ValidateBrIf(i, stray) \/ ValidateBrTable(i, stray)
        \/ EndOutsideLabels(i)
        \/ (ValidateReturn(i) \/ ValidateReturnCall(i))
    BY <1>2 DEF ValidateInstruction
  <2> QED BY <2>1, <2>2, ValidateSimpleInv, ValidateDropInv, ValidateSelectInv,
             ValidateSelectTypedInv, ValidateUnreachableInv, ValidateBlockOrLoopInv,
             ValidateIfInv, ValidateElseInv, ValidateEndInv, ValidateBrInv, ValidateBrIfInv,
             ValidateBrTableInv, EndOutsideLabelsInv, ValidateReturnInv
<1>3. CASE FinishValidation
  BY <1>3, FinishValidationInv
<1> QED BY <1>1, <1>2, <1>3 DEF ValidatorStep, ValidatorNext

-----------------------------------------------------------------------------
(* The interpreter leaves code and validator alone.                        *)

Runs ==
  /\ phase' \in {"run", "returned", "trapped"} \cup Faults
  /\ UNCHANGED <<instructions, blockBeginStack, position, types, labels>>

LEMMA RunsOn ==
  /\ \A new \in {"trapped"} \cup Faults : Stop(new) => Runs
  /\ \A newIp, newStack : phase = "run" /\ Continue(newIp, newStack) => Runs
  /\ \A results : Leave(results) => Runs
BY DEF Stop, Continue, Leave, Runs, parserVars, validatorVars

LEMMA PopFaults ==
  ASSUME NEW params
  PROVE  PopFault(params) # "none" => PopFault(params) \in Faults
BY DEF PopFault, Faults

LEMMA BranchRuns ==
  ASSUME phase = "run", NEW label, NEW operands, BranchTo(label, operands)
  PROVE  Runs
BY RunsOn DEF BranchTo, Faults

LEMMA TailCallRuns ==
  ASSUME NEW callee, NEW native, NEW operands, TailCall(callee, native, operands)
  PROVE  Runs
BY RunsOn DEF TailCall, Faults

LEMMA CallRuns ==
  ASSUME phase = "run", NEW callee, NEW operands, CallOn(callee, operands)
  PROVE  Runs
BY RunsOn DEF CallOn, Faults

LEMMA InstructionRuns ==
  ASSUME RunInstruction
  PROVE  Runs
<1> DEFINE i == At(instructions, ip)
<1>1. phase = "run"
  BY DEF RunInstruction
<1>2. CASE RunSimple(i)
  BY <1>1, <1>2, RunsOn, PopFaults DEF RunSimple, Popping
<1>3. CASE RunTrap(i) \/ RunTrapIndirect(i) \/ RunUnreachable(i)
  BY <1>3, RunsOn, PopFaults DEF RunTrap, RunTrapIndirect, RunUnreachable, Popping
<1>4. CASE RunLocalSet(i) \/ RunLocalTee(i) \/ RunGlobalSet(i)
  <2>1. "popEmpty" \in Faults
    BY DEF Faults
  <2> QED BY <1>1, <1>4, <2>1, RunsOn, PopFaults
             DEF RunLocalSet, RunLocalTee, RunGlobalSet, Popping, Runs, parserVars, validatorVars
<1>5. CASE RunSelect(i) \/ RunIf(i) \/ RunElse(i)
  BY <1>1, <1>5, RunsOn, PopFaults DEF RunSelect, RunIf, RunElse, Popping
<1>6. CASE RunBr(i) \/ RunBrIf(i) \/ RunBrTable(i)
  BY <1>1, <1>6, RunsOn, PopFaults, BranchRuns DEF RunBr, RunBrIf, RunBrTable, Popping
<1>7. CASE RunReturn(i) \/ RunReturnCall(i) \/ RunReturnCallIndirect(i)
  <2>1. "popEmpty" \in Faults
    BY DEF Faults
  <2> QED BY <1>7, <2>1, RunsOn, PopFaults, TailCallRuns
             DEF RunReturn, RunReturnCall, RunReturnCallIndirect, Popping
<1>8. CASE RunCall(i) \/ RunCallIndirect(i)
  BY <1>1, <1>8, RunsOn, PopFaults, CallRuns DEF RunCall, RunCallIndirect, Popping
<1>9. CASE RunOutsideTypes(i)
  <2>1. "typesRange" \in Faults
    BY DEF Faults
  <2> QED BY <1>9, <2>1, RunsOn, PopFaults DEF RunOutsideTypes, Popping
<1> QED BY <1>2, <1>3, <1>4, <1>5, <1>6, <1>7, <1>8, <1>9 DEF RunInstruction

LEMMA InterpreterInv ==
  ASSUME IInv, InterpreterNext
  PROVE  IInv'
<1>1. phase = "run"
  BY DEF InterpreterNext, RunInstruction, RunEnd
<1>2. Runs
  <2>1. CASE RunEnd
    BY <2>1, RunsOn DEF RunEnd, Faults
  <2> QED BY <2>1, InstructionRuns DEF InterpreterNext
<1>3. phase' \in Phases \ {"parse", "parsed", "validate", "rejected", "labelsRange"}
  BY <1>2 DEF Runs, Phases, Faults
<1> QED BY <1>1, <1>2, <1>3
           DEF IInv, Runs, CodeInv, ValidatorInv, ValidationIsBalanced, Nested

-----------------------------------------------------------------------------
(* The theorems.                                                           *)

LEMMA IInvInit == Init => IInv
<1> SUFFICES ASSUME Init PROVE IInv
  OBVIOUS
<1>1. /\ phase = "parse" /\ instructions = <<>> /\ blockBeginStack = <<>>
      /\ position = 0 /\ types = <<>> /\ labels = <<>>
  BY DEF Init, ParserInit, ValidatorInit
<1>2. Len(instructions) = 0 /\ Len(blockBeginStack) = 0 /\ Len(labels) = 0
  BY <1>1, EmptySeq
<1>3. CodeInv
  BY <1>1, <1>2, NestingAtStart, EmptySeq DEF CodeInv, Phases
<1>4. ValidatorInv
  BY <1>1, <1>2, EmptySeq DEF ValidatorInv, Nested
<1> QED BY <1>1, <1>3, <1>4 DEF IInv, ValidationIsBalanced

LEMMA IInvNext == IInv /\ [Next]_vars => IInv'
<1> SUFFICES ASSUME IInv, [Next]_vars PROVE IInv'
  OBVIOUS
<1>1. CASE Next
  BY <1>1, ParserInv, ValidatorStepInv, InterpreterInv DEF Next
<1>2. CASE UNCHANGED vars
  BY <1>2 DEF vars, parserVars, validatorVars, IInv, CodeInv, ValidatorInv,
              ValidationIsBalanced, Nested, Bottom
<1> QED BY <1>1, <1>2

LEMMA IInvAlways == Spec => []IInv
BY IInvInit, IInvNext, PTL DEF Spec

\* A validator that lets code through has popped every label, that of the
\* function too, and is left with exactly the results the function declares,
\* whatever the code.  validate_function() checks neither when it is done (the
\* checks at Validator.cpp:940 are commented out), nor, but for a debug
\* assertion, that a label is left when it looks at the innermost one.
THEOREM ValidationAlwaysBalanced == Spec => []ValidationIsBalanced
<1>1. IInv => ValidationIsBalanced
  BY DEF IInv
<1> QED BY <1>1, IInvAlways, PTL

\* The operands of outer blocks stay out of reach: the height recorded in a
\* label is never above that of a label inside it, nor above the stack, so
\* erasing what is above it (Validator.cpp:343) never asks for more than there
\* is.
THEOREM HeightsAlwaysNested == Spec => []HeightsNested
<1>1. IInv => HeightsNested
  <2>1. ValidatorInv => DOMAIN labels = 1..Len(labels)
    BY LenProperties DEF ValidatorInv
  <2> QED BY <2>1 DEF IInv, ValidatorInv, Nested, HeightsNested
<1> QED BY <1>1, IInvAlways, PTL

-----------------------------------------------------------------------------
(* The types of the state that parser, validator and interpreter share,    *)
(* for any code.  The interpreter looks up locals, globals, memories,      *)
(* tables and callees by the immediates of an instruction: what it pushes  *)
(* only has a type because the validator has compared these immediates     *)
(* with what there is, and because nothing that runs changes the code.     *)

\* The instructions whose immediates the validator checks.
CheckedOps == SimpleOps \cup {"return_call", "return_call_indirect"}

IndicesChecked(code, p) ==
  \A k \in 1..p : code[k].op \in CheckedOps => IndicesValid(code[k])

BeforeRun == {"parse", "parsed", "validate", "rejected", "labelsRange"}

FrameInv ==
  /\ ip \in Nat
  /\ stack \in Seq(Types)
  /\ locals \in Seq(Types) /\ Len(locals) = Len(FunctionLocals)
  /\ globals \in Seq(Types) /\ Len(globals) = Len(Globals)

TInv ==
  /\ IInv
  /\ FrameInv
  /\ IndicesChecked(instructions, position)
  /\ phase \notin BeforeRun => position = Len(instructions)

-----------------------------------------------------------------------------
(* The validator checks every instruction it passes.                       *)

SameImmediates(i, j) == i.op = j.op /\ i.idx = j.idx /\ i.idx2 = j.idx2

LEMMA SameIndices ==
  ASSUME NEW i, NEW j, SameImmediates(i, j)
  PROVE  IndicesValid(i) = IndicesValid(j)
BY DEF SameImmediates, IndicesValid

\* A code in which the labels alone are others.
Relabelled(code) ==
  /\ Len(code) = Len(instructions)
  /\ \A k \in 1..Len(instructions) : SameImmediates(code[k], instructions[k])

\* A step that goes on to the next instruction.
ChecksOne ==
  /\ position' = position + 1
  /\ phase' = phase
  /\ Relabelled(instructions')
  /\ Op \in CheckedOps => IndicesValid(At(instructions, position))

LEMMA LoweredRelabels ==
  ASSUME Validating
  PROVE  /\ Relabelled(instructions)
         /\ \A l : Relabelled(Lowered(l))
         /\ \A targets :
              Relabelled([instructions EXCEPT ![position + 1].targets = targets])
<1>1. /\ instructions \in Seq(InstructionType) /\ Len(instructions) \in Nat
      /\ position + 1 \in 1..Len(instructions)
  BY HasInnermost DEF Validating, IInv, CodeInv
<1>2. \A k \in 1..Len(instructions) : instructions[k] \in InstructionType
  BY <1>1, ElementOfSeq
<1>3. instructions \in [1..Len(instructions) -> InstructionType]
  BY <1>1, <1>2, LenProperties
<1>4. ASSUME NEW i, SameImmediates(i, instructions[position + 1])
      PROVE  Relabelled([instructions EXCEPT ![position + 1] = i])
  <2> DEFINE code == [instructions EXCEPT ![position + 1] = i]
  <2>1. \A k \in 1..Len(instructions) :
          code[k] = IF k = position + 1 THEN i ELSE instructions[k]
    BY <1>1, <1>3
  <2>2. code \in [1..Len(instructions) -> InstructionType \cup {i}]
    BY <1>1, <1>3
  <2> HIDE DEF code
  <2>3. Len(code) = Len(instructions)
    BY <1>1, <2>2, FunctionIsSeq
  <2>4. Relabelled(code)
    BY <1>4, <2>1, <2>3 DEF Relabelled, SameImmediates
  <2> QED BY <2>4 DEF code
<1>5. ASSUME NEW l
      PROVE  Relabelled(Lowered(l))
  <2> DEFINE i == [instructions[position + 1] EXCEPT !.label = l]
  <2>1. SameImmediates(i, instructions[position + 1])
    BY <1>1, <1>2 DEF SameImmediates, InstructionType
  <2>2. Lowered(l) = [instructions EXCEPT ![position + 1] = i]
    BY DEF Lowered
  <2> HIDE DEF i
  <2> QED BY <1>4, <2>1, <2>2
<1>6. ASSUME NEW targets
      PROVE  Relabelled([instructions EXCEPT ![position + 1].targets = targets])
  <2> DEFINE i == [instructions[position + 1] EXCEPT !.targets = targets]
  <2>1. SameImmediates(i, instructions[position + 1])
    BY <1>1, <1>2 DEF SameImmediates, InstructionType
  <2>2. [instructions EXCEPT ![position + 1].targets = targets]
          = [instructions EXCEPT ![position + 1] = i]
    OBVIOUS
  <2> HIDE DEF i
  <2> QED BY <1>4, <2>1, <2>2
<1> QED BY <1>5, <1>6 DEF Relabelled, SameImmediates

LEMMA InstructionChecked ==
  ASSUME Validating, ValidateInstruction
  PROVE  Reject \/ ChecksOne \/ EndOutsideLabels(At(instructions, position))
<1> DEFINE i == At(instructions, position)
<1>1. Op = i.op
  BY DEF Op
<1> HIDE DEF i
<1>2. CASE ValidateSimple(i)
  BY <1>1, <1>2, LoweredRelabels DEF ValidateSimple, ExpectOf, Check, ChecksOne, i
<1>3. CASE ValidateSelectTyped(i)
  <2>1. Op \notin CheckedOps
    BY <1>1, <1>3 DEF ValidateSelectTyped, CheckedOps, SimpleOps, ConstantOps, VectorOps,
                      VariableOps, LoadStoreOps, BulkOps, TableOps, ReferenceOps
  <2> QED BY <1>3, <2>1, LoweredRelabels DEF ValidateSelectTyped, ExpectOf, Check, ChecksOne
<1>4. CASE ValidateReturnCall(i)
  BY <1>1, <1>4, LoweredRelabels
     DEF ValidateReturnCall, CheckLeaving, Check, ChecksOne, i
<1>5. CASE \/ ValidateDrop(i) \/ ValidateSelect(i) \/ ValidateUnreachable(i)
           \/ ValidateBlockOrLoop(i) \/ ValidateIf(i) \/ ValidateElse(i) \/ ValidateEnd(i)
           \/ ValidateReturn(i)
           \/ \E stray \in StrayLabels :
                ValidateBr(i, stray) \/ ValidateBrIf(i, stray) \/ ValidateBrTable(i, stray)
  <2>1. Op \notin CheckedOps
    BY <1>1, <1>5
       DEF ValidateDrop, ValidateSelect, ValidateUnreachable, ValidateBlockOrLoop, ValidateIf,
           ValidateElse, ValidateEnd, ValidateBr, ValidateBrIf, ValidateBrTable, ValidateReturn,
           CheckedOps, SimpleOps, ConstantOps, VectorOps, VariableOps, LoadStoreOps, BulkOps,
           TableOps, ReferenceOps
  <2>2. CASE ValidateDrop(i) \/ ValidateSelect(i) \/ ValidateIf(i) \/ ValidateElse(i)
               \/ ValidateEnd(i)
    BY <2>1, <2>2, LoweredRelabels
       DEF ValidateDrop, ValidateSelect, ValidateIf, ValidateElse, ValidateEnd, Check, ChecksOne
  <2>3. CASE ValidateUnreachable(i) \/ ValidateReturn(i)
    BY <2>1, <2>3, LoweredRelabels
       DEF ValidateUnreachable, ValidateReturn, CheckLeaving, Check, ChecksOne
  <2>4. CASE ValidateBlockOrLoop(i) \/ \E stray \in StrayLabels : ValidateBrIf(i, stray)
    BY <2>1, <2>4, LoweredRelabels DEF ValidateBlockOrLoop, ValidateBrIf, Check, ChecksOne
  <2>5. CASE \E stray \in StrayLabels : ValidateBr(i, stray) \/ ValidateBrTable(i, stray)
    BY <2>1, <2>5, LoweredRelabels
       DEF ValidateBr, ValidateBrTable, CheckLeaving, Check, ChecksOne
  <2> QED BY <1>5, <2>2, <2>3, <2>4, <2>5
<1>6. CASE EndOutsideLabels(i)
  BY <1>6 DEF i
<1> QED BY <1>2, <1>3, <1>4, <1>5, <1>6 DEF ValidateInstruction, i

LEMMA CheckedInv ==
  ASSUME TInv, ValidatorStep
  PROVE  TInv'
<1>1. IInv'
  BY ValidatorStepInv DEF TInv
<1>2. FrameInv'
  BY DEF TInv, FrameInv, ValidatorStep, frameVars
<1>3. CASE StartValidation
  BY <1>1, <1>2, <1>3 DEF StartValidation, TInv, BeforeRun
<1>4. CASE FinishValidation
  BY <1>1, <1>2, <1>4 DEF FinishValidation, TInv, BeforeRun, validatorVars
<1>5. CASE ValidateInstruction
  <2>1. Validating
    BY <1>5, LenProperties DEF ValidateInstruction, Validating, TInv, IInv, ValidatorInv, CodeInv
  <2>2. CASE Reject
    BY <1>1, <1>2, <2>2 DEF Reject, TInv, BeforeRun, validatorVars
  <2>3. CASE ChecksOne
    <3>1. position \in 0..(Len(instructions) - 1) /\ Len(instructions) \in Nat
      BY <2>1, HasInnermost
    <3>2. ASSUME NEW k \in 1..(position + 1), instructions'[k].op \in CheckedOps
          PROVE  IndicesValid(instructions[k])
      <4>1. instructions[k].op \in CheckedOps
        BY <2>3, <3>1, <3>2 DEF ChecksOne, Relabelled, SameImmediates
      <4>2. CASE k = position + 1
        BY <2>3, <4>1, <4>2 DEF ChecksOne, Op, At
      <4>3. CASE k # position + 1
        <5>1. k \in 1..position
          BY <3>1, <4>3
        <5> QED BY <4>1, <5>1 DEF TInv, IndicesChecked
      <4> QED BY <4>2, <4>3
    <3>3. ASSUME NEW k \in 1..(position + 1), instructions'[k].op \in CheckedOps
          PROVE  IndicesValid(instructions'[k])
      <4>1. SameImmediates(instructions'[k], instructions[k])
        BY <2>3, <3>1 DEF ChecksOne, Relabelled
      <4> QED BY <3>2, <3>3, <4>1, SameIndices
    <3>4. phase' = "validate" /\ position' = position + 1
      BY <2>1, <2>3 DEF ChecksOne, Validating
    <3>5. IndicesChecked(instructions', position')
      BY <3>3, <3>4 DEF IndicesChecked
    <3> QED BY <1>1, <1>2, <3>4, <3>5 DEF TInv, BeforeRun, IndicesChecked
  <2>4. CASE EndOutsideLabels(At(instructions, position))
    BY <1>1, <1>2, <2>4 DEF EndOutsideLabels, TInv, BeforeRun, IndicesChecked, validatorVars
  <2> QED BY <1>5, <2>1, <2>2, <2>3, <2>4, InstructionChecked
<1> QED BY <1>3, <1>4, <1>5 DEF ValidatorStep, ValidatorNext

-----------------------------------------------------------------------------
(* What instructions take and leave when they run.                         *)

IsRunSignature(s) == s.params \in Seq(Types \cup {AnyType}) /\ s.returns \in Seq(Types)

LEMMA RunSignaturesBuilt ==
  ASSUME NEW s, IsSignature(s)
  PROVE  IsRunSignature(s)
BY SeqMonotonic DEF IsSignature, IsRunSignature

\* What an instruction pushes has a type, because its immediates are in range.
LEMMA RunSignature ==
  ASSUME FrameInv, NEW i \in InstructionType,
         i.op \in RunnableOps \ {"local_set", "global_set"},
         i.op \in CheckedOps => IndicesValid(i)
  PROVE  IsRunSignature(RunAs(i))
<1>1. "i32" \in Types /\ "i64" \in Types /\ "v128" \in Types /\ "funcref" \in Types
  BY DEF Types
<1>2. CASE i.op \in {"block", "loop", "end"}
  <2>1. RunAs(i) = Empty
    BY <1>2 DEF RunAs, ConstantOps, VectorOps, VariableOps, LoadStoreOps, BulkOps, TableOps,
                 ReferenceOps
  <2> QED BY <2>1, SignaturesBuilt, RunSignaturesBuilt
<1>3. CASE i.op = "drop"
  <2>1. RunAs(i) = Signature(<<AnyType>>, <<>>)
    BY <1>3 DEF RunAs, ConstantOps, VectorOps, VariableOps, LoadStoreOps, BulkOps, TableOps,
                 ReferenceOps
  <2> QED BY <2>1 DEF IsRunSignature, Signature
<1>4. CASE i.op \in ConstantOps
  <2>1. IsSignature(RunConstantAs(i))
    BY <1>1, <1>4, SignaturesBuilt DEF ConstantOps, RunConstantAs
  <2>2. RunAs(i) = RunConstantAs(i)
    BY <1>4 DEF RunAs, ConstantOps, VectorOps, VariableOps, LoadStoreOps, BulkOps, TableOps,
                 ReferenceOps
  <2> QED BY <2>1, <2>2, RunSignaturesBuilt
<1>5. CASE i.op \in VectorOps
  <2>1. IsSignature(RunVectorAs(i))
    BY <1>1, <1>5, SignaturesBuilt DEF VectorOps, RunVectorAs
  <2>2. RunAs(i) = RunVectorAs(i)
    BY <1>5 DEF RunAs, ConstantOps, VectorOps, VariableOps, LoadStoreOps, BulkOps, TableOps,
                 ReferenceOps
  <2> QED BY <2>1, <2>2, RunSignaturesBuilt
<1>6. CASE i.op \in VariableOps /\ i.op # "local_tee"
  <2>1. /\ i.op = "local_get" => i.idx < Len(locals)
        /\ i.op = "global_get" => i.idx < Len(globals)
    BY <1>6 DEF CheckedOps, SimpleOps, IndicesValid, IndirectCalls, FrameInv
  <2>2. /\ i.op = "local_get" => locals[i.idx + 1] \in Types
        /\ i.op = "global_get" => globals[i.idx + 1] \in Types
    BY <2>1, IndicesAreNat, IndexedElement DEF FrameInv
  <2>3. i.op = "local_get" \/ i.op = "global_get"
    BY <1>6 DEF VariableOps
  <2>4. IsSignature(RunVariableAs(i))
    BY <2>2, <2>3, SignaturesBuilt DEF RunVariableAs
  <2>5. RunAs(i) = RunVariableAs(i)
    BY <1>6 DEF RunAs, ConstantOps, VectorOps, VariableOps, LoadStoreOps, BulkOps, TableOps,
                 ReferenceOps
  <2> QED BY <2>4, <2>5, RunSignaturesBuilt
<1>7. CASE i.op \in LoadStoreOps
  <2>1. i.idx < Len(Memories)
    BY <1>7 DEF CheckedOps, SimpleOps, LoadStoreOps, IndicesValid, IndirectCalls
  <2>2. Memory(i.idx) \in Types
    BY <2>1, IndicesAreNat, IndicesFind
  <2>3. IsSignature(RunLoadStoreAs(i))
    BY <1>1, <1>7, <2>2, SignaturesBuilt DEF LoadStoreOps, RunLoadStoreAs
  <2>4. RunAs(i) = RunLoadStoreAs(i)
    BY <1>7 DEF RunAs, ConstantOps, VectorOps, VariableOps, LoadStoreOps, BulkOps, TableOps,
                 ReferenceOps
  <2> QED BY <2>3, <2>4, RunSignaturesBuilt
<1>8. CASE i.op \in BulkOps
  <2>1. /\ i.op \in {"memory_copy", "memory_fill"} => i.idx < Len(Memories)
        /\ i.op \in {"memory_init", "memory_copy"} => i.idx2 < Len(Memories)
    BY <1>8 DEF CheckedOps, SimpleOps, IndicesValid, IndirectCalls
  <2>2. /\ i.op \in {"memory_copy", "memory_fill"} => Memory(i.idx) \in Types
        /\ i.op \in {"memory_init", "memory_copy"} => Memory(i.idx2) \in Types
    BY <2>1, IndicesAreNat, IndicesFind
  <2>3. AddressOfCount(Memory(i.idx2), Memory(i.idx)) \in Types
    BY <1>1 DEF AddressOfCount
  <2>4. IsSignature(RunBulkAs(i))
    BY <1>1, <1>8, <2>2, <2>3, SignaturesBuilt DEF BulkOps, RunBulkAs
  <2>5. RunAs(i) = RunBulkAs(i)
    BY <1>8 DEF RunAs, ConstantOps, VectorOps, VariableOps, LoadStoreOps, BulkOps, TableOps,
                 ReferenceOps
  <2> QED BY <2>4, <2>5, RunSignaturesBuilt
<1>9. CASE i.op \in TableOps
  <2>1. /\ i.op \in TableOps \ {"elem_drop", "table_init"} => i.idx < Len(Tables)
        /\ i.op \in {"table_init", "table_copy"} => i.idx2 < Len(Tables)
    BY <1>9 DEF CheckedOps, SimpleOps, TableOps, IndicesValid, IndirectCalls
  <2>2. /\ i.op \in TableOps \ {"elem_drop", "table_init"} =>
             TableAt(i.idx).type \in Types /\ TableAt(i.idx).address \in Types
        /\ i.op \in {"table_init", "table_copy"} => TableAt(i.idx2).address \in Types
    BY <2>1, IndicesAreNat, IndicesFind
  <2>3. AddressOfCount(TableAt(i.idx).address, TableAt(i.idx2).address) \in Types
    BY <1>1 DEF AddressOfCount
  <2>4. IsSignature(RunTableAs(i))
    BY <1>1, <1>9, <2>2, <2>3, SignaturesBuilt DEF TableOps, RunTableAs
  <2>5. RunAs(i) = RunTableAs(i)
    BY <1>9 DEF RunAs, ConstantOps, VectorOps, VariableOps, LoadStoreOps, BulkOps, TableOps,
                 ReferenceOps
  <2> QED BY <2>4, <2>5, RunSignaturesBuilt
<1>10. CASE i.op \in ReferenceOps
  <2>1. IsSignature(RunReferenceAs(i))
    BY <1>1, <1>10, SignaturesBuilt DEF ReferenceOps, RunReferenceAs
  <2>2. RunAs(i) = RunReferenceAs(i)
    BY <1>10 DEF RunAs, ConstantOps, VectorOps, VariableOps, LoadStoreOps, BulkOps, TableOps,
                 ReferenceOps
  <2> QED BY <2>1, <2>2, RunSignaturesBuilt
<1> QED BY <1>2, <1>3, <1>4, <1>5, <1>6, <1>7, <1>8, <1>9, <1>10
           DEF RunnableOps, SimpleOps

-----------------------------------------------------------------------------
(* The steps of the interpreter.                                           *)

LEMMA StopKeeps ==
  ASSUME FrameInv, NEW new, Stop(new)
  PROVE  FrameInv'
BY DEF Stop, frameVars, FrameInv

LEMMA ContinueKeeps ==
  ASSUME FrameInv, NEW newIp \in Nat, NEW newStack \in Seq(Types), Continue(newIp, newStack)
  PROVE  FrameInv'
BY DEF Continue, FrameInv

LEMMA LeaveKeeps ==
  ASSUME FrameInv, NEW results \in Seq(Types), Leave(results)
  PROVE  FrameInv'
BY DEF Leave, FrameInv

LEMMA PartOfStack ==
  ASSUME NEW operands \in Seq(Types), NEW n \in Nat, n <= Len(operands)
  PROVE  /\ SubSeq(operands, 1, Len(operands) - n) \in Seq(Types)
         /\ Len(SubSeq(operands, 1, Len(operands) - n)) = Len(operands) - n
         /\ SubSeq(operands, 1, n) \in Seq(Types)
         /\ LastValues(operands, n) \in Seq(Types)
<1>1. Len(operands) \in Nat /\ \A k \in 1..Len(operands) : operands[k] \in Types
  BY LenProperties, ElementOfSeq
<1>2. \A k \in 1..(Len(operands) - n) : operands[k] \in Types
  BY <1>1
<1>3. \A k \in 1..n : operands[k] \in Types
  BY <1>1
<1>4. \A k \in (Len(operands) - n + 1)..Len(operands) : operands[k] \in Types
  BY <1>1
<1>5. SubSeq(operands, 1, Len(operands) - n) \in Seq(Types)
  BY <1>1, <1>2, SubSeqProperties
<1>6. Len(SubSeq(operands, 1, Len(operands) - n)) = Len(operands) - n
  BY <1>1, <1>2, SubSeqProperties
<1>7. SubSeq(operands, 1, n) \in Seq(Types)
  BY <1>1, <1>3, SubSeqProperties
<1>8. LastValues(operands, n) \in Seq(Types)
  BY <1>1, <1>4, SubSeqProperties DEF LastValues
<1> QED BY <1>5, <1>6, <1>7, <1>8

\* Operands that were popped without a fault were there.
LEMMA PoppedOperands ==
  ASSUME FrameInv, NEW params, Len(params) \in Nat, PopFault(params) = "none"
  PROVE  /\ Len(params) <= Len(stack)
         /\ Below(Len(params)) \in Seq(Types)
         /\ Len(Below(Len(params))) = Len(stack) - Len(params)
<1>1. Len(stack) \in Nat /\ stack \in Seq(Types)
  BY LenProperties DEF FrameInv
<1>2. Len(params) <= Len(stack)
  BY <1>1 DEF PopFault
<1> QED BY <1>1, <1>2, PartOfStack DEF Below

LEMMA BranchKeeps ==
  ASSUME FrameInv, NEW label \in Labels, NEW operands \in Seq(Types), BranchTo(label, operands)
  PROVE  FrameInv'
<1> DEFINE kept == SubSeq(operands, 1, label.stackHeight)
           taken == LastValues(operands, label.arity)
<1>1. /\ label.continuation \in Nat /\ label.arity \in Nat /\ label.stackHeight \in Nat
      /\ Len(operands) \in Nat
  BY LenProperties DEF Labels
<1>2. CASE label.stackHeight + label.arity > Len(operands)
  BY <1>2, StopKeeps DEF BranchTo
<1>3. CASE ~(label.stackHeight + label.arity > Len(operands))
  <2>1. label.stackHeight <= Len(operands) /\ label.arity <= Len(operands)
    BY <1>1, <1>3
  <2>2. kept \in Seq(Types) /\ taken \in Seq(Types)
    BY <1>1, <2>1, PartOfStack
  <2>3. Continue(label.continuation, kept \o taken)
    BY <1>3 DEF BranchTo
  <2> HIDE DEF kept, taken
  <2>4. kept \o taken \in Seq(Types)
    BY <2>2, ConcatProperties
  <2> QED BY <1>1, <2>3, <2>4, ContinueKeeps
<1> QED BY <1>2, <1>3

LEMMA TailCallKeeps ==
  ASSUME FrameInv, NEW callee \in Signatures, NEW native, NEW operands,
         TailCall(callee, native, operands)
  PROVE  FrameInv'
<1>1. callee.returns \in Seq(Types)
  BY DEF Signatures
<1> QED BY <1>1, StopKeeps, LeaveKeeps DEF TailCall

\* A callee found through a table has a type of some module.
LEMMA CalleesTypedHere ==
  ASSUME NEW i \in InstructionType,
         i.op \in {"call", "call_indirect", "return_call", "return_call_indirect"},
         IndicesValid(i),
         NEW callee \in CalleeTypes(i)
  PROVE  callee \in Signatures
<1>1. CASE i.op \notin IndirectCalls
  BY <1>1, CalleeTyped DEF CalleeTypes
<1>2. CASE i.op \in IndirectCalls
  <2>1. PICK fileTypes \in {FunctionTypes} \cup ForeignTypes :
          callee \in TypesAt(fileTypes, i.idx)
    BY <1>2 DEF CalleeTypes
  <2>2. fileTypes \in Seq(Signatures)
    BY ValidatorAssumption, InterpreterAssumption
  <2>3. i.idx \in Nat
    BY DEF InstructionType
  <2>4. CASE i.idx < Len(fileTypes)
    BY <2>1, <2>2, <2>3, <2>4, IndexedElement DEF TypesAt
  <2>5. CASE ~(i.idx < Len(fileTypes))
    <3>1. PICK n \in DOMAIN fileTypes : callee = fileTypes[n]
      BY <2>1, <2>5 DEF TypesAt, ToSet
    <3> QED BY <2>2, <3>1, LenProperties, ElementOfSeq
  <2> QED BY <2>4, <2>5
<1> QED BY <1>1, <1>2

LEMMA CallKeeps ==
  ASSUME FrameInv, ip + 1 \in Nat, NEW callee \in Signatures, NEW operands \in Seq(Types),
         CallOn(callee, operands)
  PROVE  FrameInv'
<1> DEFINE n == Len(callee.params)
<1>1. callee.returns \in Seq(Types) /\ n \in Nat /\ Len(operands) \in Nat
  BY LenProperties DEF Signatures
<1> HIDE DEF n
<1>2. CASE Len(operands) < n
  BY <1>2, StopKeeps DEF CallOn, n
<1>3. CASE ~(Len(operands) < n)
  <2>1. SubSeq(operands, 1, Len(operands) - n) \in Seq(Types)
    BY <1>1, <1>3, PartOfStack
  <2>2. SubSeq(operands, 1, Len(operands) - n) \o callee.returns \in Seq(Types)
    BY <1>1, <2>1, ConcatProperties
  <2>3. \/ Continue(ip + 1, SubSeq(operands, 1, Len(operands) - n) \o callee.returns)
        \/ Stop("trapped")
    BY <1>3 DEF CallOn, n
  <2> QED BY <2>2, <2>3, StopKeeps, ContinueKeeps
<1> QED BY <1>2, <1>3

\* A variable out of range would not be one of the function's.
Assigned(s, n, value) == [s EXCEPT ![n] = value]

LEMMA AssignKeeps ==
  ASSUME NEW s \in Seq(Types), NEW n, NEW value \in Types
  PROVE  Assigned(s, n, value) \in Seq(Types) /\ Len(Assigned(s, n, value)) = Len(s)
<1>1. s \in [1..Len(s) -> Types] /\ Len(s) \in Nat
  BY LenProperties
<1>2. Assigned(s, n, value) \in [1..Len(s) -> Types]
  BY <1>1 DEF Assigned
<1> QED BY <1>1, <1>2, FunctionIsSeq

\* The instruction that runs next.
LEMMA RunningInstruction ==
  ASSUME TInv, RunInstruction, NEW i, i = At(instructions, ip)
  PROVE  /\ i \in InstructionType
         /\ i.op \in CheckedOps => IndicesValid(i)
         /\ ip \in Nat
<1>1. /\ ip + 1 \in 1..Len(instructions) /\ ip \in Nat
      /\ instructions \in Seq(InstructionType)
  BY LenProperties DEF TInv, FrameInv, RunInstruction, IInv, CodeInv
<1>2. position = Len(instructions)
  BY DEF TInv, RunInstruction, BeforeRun
<1> QED BY <1>1, <1>2, ElementOfSeq DEF At, TInv, IndicesChecked

LEMMA SimpleRuns ==
  ASSUME TInv, RunInstruction, NEW i, i = At(instructions, ip), RunSimple(i)
  PROVE  FrameInv'
<1> DEFINE params == RunAs(i).params
           returns == RunAs(i).returns
<1>1. FrameInv /\ ip + 1 \in Nat
  BY RunningInstruction DEF TInv
<1>2. IsRunSignature(RunAs(i))
  BY <1>1, RunningInstruction, RunSignature DEF RunSimple
<1>3. Len(params) \in Nat /\ returns \in Seq(Types)
  BY <1>2, LenProperties DEF IsRunSignature
<1> HIDE DEF params, returns
<1>4. CASE PopFault(params) # "none"
  BY <1>1, <1>4, StopKeeps DEF RunSimple, Popping, params
<1>5. CASE PopFault(params) = "none"
  <2>1. Below(Len(params)) \in Seq(Types)
    BY <1>1, <1>3, <1>5, PoppedOperands
  <2>2. Below(Len(params)) \o returns \in Seq(Types)
    BY <1>3, <2>1, ConcatProperties
  <2>3. Continue(ip + 1, Below(Len(params)) \o returns)
    BY <1>5 DEF RunSimple, Popping, params, returns
  <2> QED BY <1>1, <2>2, <2>3, ContinueKeeps
<1> QED BY <1>4, <1>5

\* A variable is given the operand on top.
LEMMA AssignmentRuns ==
  ASSUME TInv, RunInstruction, NEW i, i = At(instructions, ip),
         RunLocalSet(i) \/ RunLocalTee(i) \/ RunGlobalSet(i)
  PROVE  FrameInv'
<1>1. FrameInv /\ ip + 1 \in Nat
  BY RunningInstruction DEF TInv
<1>2. Len(<<AnyType>>) = 1
  OBVIOUS
<1>3. ASSUME stack # <<>>
      PROVE  Last(stack) \in Types
  BY <1>1, <1>3, FrontAndLast DEF FrameInv
<1>4. CASE RunLocalTee(i)
  <2>1. CASE stack = <<>>
    BY <1>1, <1>4, <2>1, StopKeeps DEF RunLocalTee
  <2>2. CASE stack # <<>>
    <3>1. /\ locals' = Assigned(locals, i.idx + 1, Last(stack))
          /\ ip' = ip + 1 /\ UNCHANGED <<stack, globals>>
      BY <1>4, <2>2 DEF RunLocalTee, Assigned
    <3> QED BY <1>1, <1>3, <2>2, <3>1, AssignKeeps DEF FrameInv
  <2> QED BY <2>1, <2>2
<1>5. CASE RunLocalSet(i) \/ RunGlobalSet(i)
  <2>1. RunAs(i) = Signature(<<AnyType>>, <<>>)
    <3>1. i.op = "local_set" \/ i.op = "global_set"
      BY <1>5 DEF RunLocalSet, RunGlobalSet
    <3>2. RunAs(i) = RunVariableAs(i)
      BY <3>1 DEF RunAs, ConstantOps, VectorOps, VariableOps, LoadStoreOps, BulkOps, TableOps,
                  ReferenceOps
    <3> QED BY <3>1, <3>2 DEF RunVariableAs
  <2>2. RunAs(i).params = <<AnyType>>
    BY <2>1 DEF Signature
  <2>3. CASE PopFault(<<AnyType>>) # "none"
    BY <1>1, <1>5, <2>2, <2>3, StopKeeps DEF RunLocalSet, RunGlobalSet, Popping
  <2>4. CASE PopFault(<<AnyType>>) = "none"
    <3>1. 1 <= Len(stack) /\ Below(1) \in Seq(Types)
      BY <1>1, <1>2, <2>4, PoppedOperands
    <3>2. Last(stack) \in Types
      BY <1>1, <1>3, <3>1, EmptySeq DEF FrameInv
    <3>3. CASE RunLocalSet(i)
      <4>1. /\ locals' = Assigned(locals, i.idx + 1, Last(stack))
            /\ ip' = ip + 1 /\ stack' = Below(1) /\ UNCHANGED globals
        BY <2>2, <2>4, <3>3 DEF RunLocalSet, Popping, Assigned
      <4> QED BY <1>1, <3>1, <3>2, <4>1, AssignKeeps DEF FrameInv
    <3>4. CASE RunGlobalSet(i)
      <4>1. /\ globals' = Assigned(globals, i.idx + 1, Last(stack))
            /\ ip' = ip + 1 /\ stack' = Below(1) /\ UNCHANGED locals
        BY <2>2, <2>4, <3>4 DEF RunGlobalSet, Popping, Assigned
      <4> QED BY <1>1, <3>1, <3>2, <4>1, AssignKeeps DEF FrameInv
    <3> QED BY <1>5, <3>3, <3>4
  <2> QED BY <2>3, <2>4
<1> QED BY <1>4, <1>5

LEMMA SelectRuns ==
  ASSUME TInv, RunInstruction, NEW i, i = At(instructions, ip), RunSelect(i)
  PROVE  FrameInv'
<1> DEFINE params == <<AnyType, AnyType, "i32">>
<1>1. FrameInv /\ ip + 1 \in Nat /\ Len(params) = 3 /\ Len(params) \in Nat
  BY RunningInstruction DEF TInv
<1> HIDE DEF params
<1>2. CASE PopFault(params) # "none"
  BY <1>1, <1>2, StopKeeps DEF RunSelect, Popping, params
<1>3. CASE PopFault(params) = "none"
  <2>1. 3 <= Len(stack) /\ Below(3) \in Seq(Types) /\ Len(stack) \in Nat
    <3>1. Len(params) <= Len(stack) /\ Below(Len(params)) \in Seq(Types)
      BY <1>1, <1>3, PoppedOperands
    <3> QED BY <1>1, <3>1, LenProperties DEF FrameInv
  <2>2. PICK k \in {1, 2} : Continue(ip + 1, Append(Below(3), stack[Len(stack) - k]))
    BY <1>3 DEF RunSelect, Popping, params
  <2>3. Len(stack) - k \in 1..Len(stack)
    BY <2>1
  <2>4. stack[Len(stack) - k] \in Types
    BY <1>1, <2>3, ElementOfSeq DEF FrameInv
  <2>5. Append(Below(3), stack[Len(stack) - k]) \in Seq(Types)
    BY <2>1, <2>4, AppendProperties
  <2> QED BY <1>1, <2>2, <2>5, ContinueKeeps
<1> QED BY <1>2, <1>3

LEMMA JumpRuns ==
  ASSUME TInv, RunInstruction, NEW i, i = At(instructions, ip),
         RunIf(i) \/ RunElse(i) \/ RunBr(i) \/ RunBrIf(i) \/ RunBrTable(i)
  PROVE  FrameInv'
<1> DEFINE params == <<"i32">>
<1>1. FrameInv /\ ip + 1 \in Nat /\ Len(params) = 1 /\ Len(params) \in Nat
      /\ stack \in Seq(Types)
  BY RunningInstruction DEF TInv, FrameInv
<1>2. /\ i.label \in Labels /\ i.label.continuation \in Nat /\ i.elseLocation \in Nat
      /\ i.targets \in Seq(Labels)
  BY RunningInstruction DEF InstructionType, Labels
<1> HIDE DEF params
<1>3. CASE RunElse(i)
  BY <1>1, <1>2, <1>3, ContinueKeeps DEF RunElse
<1>4. CASE RunBr(i)
  BY <1>1, <1>2, <1>4, BranchKeeps DEF RunBr
<1>5. CASE RunIf(i) \/ RunBrIf(i) \/ RunBrTable(i)
  <2>1. CASE PopFault(params) # "none"
    BY <1>1, <1>5, <2>1, StopKeeps DEF RunIf, RunBrIf, RunBrTable, Popping, params
  <2>2. CASE PopFault(params) = "none"
    <3>1. Below(1) \in Seq(Types)
      <4>1. Below(Len(params)) \in Seq(Types)
        BY <1>1, <2>2, PoppedOperands
      <4> QED BY <1>1, <4>1
    <3>2. CASE RunIf(i)
      <4>1. PICK new \in {ip + 1, i.elseLocation + 1, i.label.continuation} :
              Continue(new, Below(1))
        BY <2>2, <3>2 DEF RunIf, Popping, params
      <4> QED BY <1>1, <1>2, <3>1, <4>1, ContinueKeeps
    <3>3. CASE RunBrIf(i)
      BY <1>1, <1>2, <2>2, <3>1, <3>3, ContinueKeeps, BranchKeeps DEF RunBrIf, Popping, params
    <3>4. CASE RunBrTable(i)
      <4>1. PICK k \in DOMAIN i.targets : BranchTo(i.targets[k], Below(1))
        BY <2>2, <3>4 DEF RunBrTable, Popping, params
      <4>2. i.targets[k] \in Labels
        BY <1>2, <4>1, LenProperties, ElementOfSeq
      <4> QED BY <1>1, <3>1, <4>1, <4>2, BranchKeeps
    <3> QED BY <1>5, <3>2, <3>3, <3>4
  <2> QED BY <2>1, <2>2
<1> QED BY <1>3, <1>4, <1>5

\* The function returns, or another takes its place.
LEMMA ReturnRuns ==
  ASSUME TInv, RunInstruction, NEW i, i = At(instructions, ip),
         RunReturn(i) \/ RunReturnCall(i) \/ RunReturnCallIndirect(i)
  PROVE  FrameInv'
<1>1. FrameInv /\ stack \in Seq(Types) /\ Len(stack) \in Nat
  BY LenProperties DEF TInv, FrameInv
<1>2. CASE RunReturn(i)
  <2> DEFINE n == Len(FunctionType.returns)
  <2>1. n \in Nat
    BY ValidatorAssumption, SignatureLengths
  <2> HIDE DEF n
  <2>2. CASE Len(stack) < n
    BY <1>1, <1>2, <2>2, StopKeeps DEF RunReturn, n
  <2>3. CASE ~(Len(stack) < n)
    <3>1. LastValues(stack, n) \in Seq(Types)
      BY <1>1, <2>1, <2>3, PartOfStack
    <3> QED BY <1>1, <1>2, <2>3, <3>1, LeaveKeeps DEF RunReturn, n
  <2> QED BY <2>2, <2>3
<1>3. CASE RunReturnCall(i) \/ RunReturnCallIndirect(i)
  <2>1. /\ i \in InstructionType /\ IndicesValid(i)
        /\ i.op \in {"return_call", "return_call_indirect"}
    BY <1>3, RunningInstruction DEF CheckedOps, RunReturnCall, RunReturnCallIndirect
  <2>2. CASE RunReturnCall(i)
    <3>1. CalleeType(i) \in Signatures
      BY <2>1, CalleeTyped
    <3> QED BY <1>1, <2>2, <3>1, TailCallKeeps DEF RunReturnCall
  <2>3. CASE RunReturnCallIndirect(i)
    <3>1. CASE PopFault(CalleeIndex(i)) # "none"
      BY <1>1, <2>3, <3>1, StopKeeps DEF RunReturnCallIndirect, Popping
    <3>2. CASE PopFault(CalleeIndex(i)) = "none"
      <4>1. PICK callee \in CalleeTypes(i), native \in BOOLEAN :
              TailCall(callee, native, Below(1))
        BY <2>3, <3>2 DEF RunReturnCallIndirect, Popping
      <4>2. callee \in Signatures
        BY <2>1, <4>1, CalleesTypedHere
      <4> QED BY <1>1, <4>1, <4>2, TailCallKeeps
    <3> QED BY <3>1, <3>2
  <2> QED BY <1>3, <2>2, <2>3
<1> QED BY <1>2, <1>3

LEMMA CallsRun ==
  ASSUME TInv, RunInstruction, NEW i, i = At(instructions, ip),
         RunCall(i) \/ RunCallIndirect(i)
  PROVE  FrameInv'
<1>1. FrameInv /\ ip + 1 \in Nat /\ stack \in Seq(Types)
  BY RunningInstruction DEF TInv, FrameInv
<1>2. /\ i \in InstructionType /\ IndicesValid(i)
      /\ i.op \in {"call", "call_indirect"}
  BY RunningInstruction DEF CheckedOps, SimpleOps, RunCall, RunCallIndirect
<1>3. CASE RunCall(i)
  <2>1. PICK callee \in CalleeTypes(i) : CallOn(callee, stack)
    BY <1>3 DEF RunCall
  <2>2. callee \in Signatures
    BY <1>2, <2>1, CalleesTypedHere
  <2> QED BY <1>1, <2>1, <2>2, CallKeeps
<1>4. CASE RunCallIndirect(i)
  <2>1. CASE PopFault(CalleeIndex(i)) # "none"
    BY <1>1, <1>4, <2>1, StopKeeps DEF RunCallIndirect, Popping
  <2>2. CASE PopFault(CalleeIndex(i)) = "none"
    <3>1. PICK callee \in CalleeTypes(i) : CallOn(callee, Below(1))
      BY <1>4, <2>2 DEF RunCallIndirect, Popping
    <3>2. callee \in Signatures
      BY <1>2, <3>1, CalleesTypedHere
    <3>3. Len(CalleeIndex(i)) = 1
      BY <1>4 DEF RunCallIndirect, CalleeIndex, IndirectCalls
    <3>4. Below(Len(CalleeIndex(i))) \in Seq(Types)
      <4> DEFINE want == CalleeIndex(i)
      <4>1. FrameInv /\ Len(want) \in Nat /\ PopFault(want) = "none"
        BY <1>1, <2>2, <3>3
      <4> HIDE DEF want
      <4>2. Below(Len(want)) \in Seq(Types)
        BY <4>1, PoppedOperands
      <4> QED BY <4>2 DEF want
    <3>5. Below(1) \in Seq(Types)
      BY <3>3, <3>4
    <3> QED BY <1>1, <3>1, <3>2, <3>5, CallKeeps
  <2> QED BY <2>1, <2>2
<1> QED BY <1>3, <1>4

LEMMA InterpreterKeepsTypes ==
  ASSUME TInv, InterpreterNext
  PROVE  TInv'
<1> DEFINE i == At(instructions, ip)
<1>1. FrameInv'
  <2>1. CASE RunEnd
    BY <2>1, StopKeeps, LeaveKeeps DEF RunEnd, TInv, FrameInv
  <2>2. CASE RunInstruction
    <3>1. CASE \/ RunTrap(i) \/ RunTrapIndirect(i) \/ RunOutsideTypes(i)
               \/ RunUnreachable(i)
      BY <3>1, StopKeeps
         DEF TInv, RunTrap, RunTrapIndirect, RunOutsideTypes, RunUnreachable, Popping
    <3>2. \/ RunSimple(i)
          \/ RunTrap(i) \/ RunTrapIndirect(i) \/ RunOutsideTypes(i) \/ RunUnreachable(i)
          \/ RunCall(i) \/ RunCallIndirect(i)
          \/ RunLocalSet(i) \/ RunLocalTee(i) \/ RunGlobalSet(i)
          \/ RunSelect(i)
          \/ RunIf(i) \/ RunElse(i) \/ RunBr(i) \/ RunBrIf(i) \/ RunBrTable(i)
          \/ RunReturn(i) \/ RunReturnCall(i) \/ RunReturnCallIndirect(i)
      BY <2>2 DEF RunInstruction
    <3> HIDE DEF i
    <3>3. i = At(instructions, ip)
      BY DEF i
    <3> QED BY <2>2, <3>1, <3>2, <3>3, SimpleRuns, AssignmentRuns, SelectRuns, JumpRuns,
               ReturnRuns, CallsRun
  <2> QED BY <2>1, <2>2 DEF InterpreterNext
<1>2. Runs
  <2>1. CASE RunEnd
    BY <2>1, RunsOn DEF RunEnd, Faults
  <2> QED BY <2>1, InstructionRuns DEF InterpreterNext
<1>3. phase \notin BeforeRun
  BY DEF InterpreterNext, RunInstruction, RunEnd, BeforeRun
<1> QED BY <1>1, <1>2, <1>3, InterpreterInv DEF TInv, Runs, IndicesChecked

-----------------------------------------------------------------------------
(* The theorem.                                                            *)

LEMMA TInvInit == Init => TInv
<1> SUFFICES ASSUME Init PROVE TInv
  OBVIOUS
<1>1. FunctionLocals \in Seq(Types)
  BY ValidatorAssumption, ConcatProperties DEF FunctionLocals, Signatures
<1>2. globals \in Seq(Types) /\ Len(globals) = Len(Globals)
  <2> DEFINE GlobalTypes == [type : Types, mutable : BOOLEAN]
  <2>1. Globals \in Seq(GlobalTypes)
    BY ValidatorAssumption
  <2>2. /\ DOMAIN Globals = 1..Len(Globals) /\ Len(Globals) \in Nat
        /\ \A k \in 1..Len(Globals) : Globals[k] \in GlobalTypes
    BY <2>1, LenProperties, ElementOfSeq
  <2>3. globals = [g \in 1..Len(Globals) |-> Globals[g].type]
    BY <2>2 DEF Init
  <2>4. globals \in [1..Len(Globals) -> Types]
    BY <2>2, <2>3
  <2> QED BY <2>2, <2>4, FunctionIsSeq
<1>3. FrameInv
  BY <1>1, <1>2, EmptySeq DEF Init, FrameInv
<1>4. position = 0 /\ phase = "parse"
  BY DEF Init, ParserInit, ValidatorInit
<1> QED BY <1>3, <1>4, IInvInit DEF TInv, IndicesChecked, BeforeRun

LEMMA TInvNext == TInv /\ [Next]_vars => TInv'
<1> SUFFICES ASSUME TInv, [Next]_vars PROVE TInv'
  OBVIOUS
<1>1. CASE ParserStep
  <2>1. IInv' /\ FrameInv'
    BY <1>1, ParserInv DEF TInv, ParserStep, FrameInv, frameVars
  <2>2. position' = 0 /\ phase' \in BeforeRun
    BY <1>1 DEF ParserStep, ParserNext, ReadInstruction, EndOfStream, ReadBlockOrIf, ReadLoop,
                ReadElse, ReadEnd, ReadOther, Open, validatorVars, TInv, IInv, ValidatorInv,
                BeforeRun
  <2> QED BY <2>1, <2>2 DEF TInv, IndicesChecked
<1>2. CASE ValidatorStep
  BY <1>2, CheckedInv
<1>3. CASE InterpreterNext
  BY <1>3, InterpreterKeepsTypes
<1>4. CASE UNCHANGED vars
  <2>1. IInv'
    BY <1>4, IInvNext DEF TInv
  <2> QED BY <1>4, <2>1
             DEF vars, parserVars, validatorVars, frameVars, TInv, FrameInv, IndicesChecked
<1> QED BY <1>1, <1>2, <1>3, <1>4 DEF Next

LEMMA TInvAlways == Spec => []TInv
BY TInvInit, TInvNext, PTL DEF Spec

\* The code that runs, or has run, names nothing that is not there.
RunsCheckedCode == phase \notin BeforeRun => IndicesChecked(instructions, Len(instructions))

\* Whatever the code, what the validator lets through never makes the
\* interpreter look up a local, a global, a memory, a table, a segment, a type
\* or a callee that its own module does not have: locals are indexed with no
\* check (VM.cpp:333) and the objects of the module with one in the debug build
\* only.  (An indirect call also looks its type up in other modules.)
THEOREM IndicesAlwaysChecked == Spec => []RunsCheckedCode
<1>1. TInv => RunsCheckedCode
  BY DEF TInv, RunsCheckedCode
<1> QED BY <1>1, TInvAlways, PTL

\* The state of the three passes stays in its types, whatever the code: every
\* operand the interpreter pushes has a type, every label it follows was made
\* by the parser or by the validator, or is a stray one that it took for such.
THEOREM TypeCorrect == Spec => []TypeOK
<1>1. TInv => TypeOK
  BY DEF TInv, IInv, CodeInv, ValidatorInv, FrameInv, TypeOK, InstructionType, OperandTypes
<1> QED BY <1>1, TInvAlways, PTL

-----------------------------------------------------------------------------
(* Where branches go, for codes of any length.  Parser and validator keep  *)
(* stacks of open blocks; the properties speak of the openers and ends of  *)
(* the finished code.  The link is the nesting: a block is open from its   *)
(* opener on for as long as the nesting stays above that of the opener.    *)

-----------------------------------------------------------------------------
(* Induction over sets of numbers.                                         *)

LEMMA LeastOf ==
  ASSUME NEW T, T \subseteq Nat, T # {}
  PROVE  \E x \in T : \A y \in T : ~(y < x)
<1>1. \E x \in T : \A y \in T : <<y, x>> \notin OpToRel(<, Nat)
  BY WFMin, NatLessThanWellFounded, Zenon
<1>2. \A x, y \in Nat : <<y, x>> \in OpToRel(<, Nat) <=> y < x
  BY Zenon DEF OpToRel
<1> QED BY <1>1, <1>2, Zenon

LEMMA SetInduction ==
  ASSUME NEW S, 0 \in S, \A n \in Nat : n \in S => n + 1 \in S
  PROVE  Nat \subseteq S
<1> SUFFICES ASSUME Nat \ S # {} PROVE FALSE
  OBVIOUS
<1>1. PICK x \in Nat \ S : \A y \in Nat \ S : ~(y < x)
  BY LeastOf
<1>2. x # 0 /\ x - 1 \in Nat /\ x - 1 \in S
  BY <1>1
<1> QED BY <1>1, <1>2

-----------------------------------------------------------------------------
(* Blocks, by the nesting of a code.                                       *)

\* The block that instruction k opens is open before instruction p.
OpenAt(code, k, p) ==
  /\ k \in 0..(p - 1) /\ code[k + 1].op \in Openers
  /\ \A q \in (k + 1)..p : Nesting(code, q) > Nesting(code, k)

\* It is closed by instruction q.
EndsAt(code, k, q) ==
  /\ OpenAt(code, k, q)
  /\ code[q + 1].op = "end" /\ Nesting(code, q + 1) = Nesting(code, k)

\* It is the innermost one at p.
InnermostAt(code, k, p) ==
  OpenAt(code, k, p) /\ Nesting(code, p) = Nesting(code, k) + 1

LEMMA NestingInt ==
  ASSUME NEW code, NEW p \in Nat
  PROVE  /\ Nesting(code, p) \in Int /\ Nesting(code, p + 1) \in Int
         /\ \/ /\ code[p + 1].op \in Openers
               /\ Nesting(code, p + 1) = Nesting(code, p) + 1
            \/ /\ code[p + 1].op = "end"
               /\ Nesting(code, p + 1) = Nesting(code, p) - 1
            \/ /\ code[p + 1].op \notin Openers \cup {"end"}
               /\ Nesting(code, p + 1) = Nesting(code, p)
<1>1. Nesting(code, p) \in Int /\ Nesting(code, p + 1) \in Int
  BY NestingFinite
<1>2. Nesting(code, p + 1) = Nesting(code, p) + NestingOf(code[p + 1].op)
  BY NestingStep
<1> QED BY <1>1, <1>2 DEF NestingOf, Openers

\* For every number of blocks that are open there is the opener of that many.
LEMMA OpenerAtLevel ==
  ASSUME NEW code, NEW p \in Nat, NEW n \in Nat, n < Nesting(code, p)
  PROVE  \E k \in 0..(p - 1) : OpenAt(code, k, p) /\ Nesting(code, k) = n
<1> DEFINE N(q) == Nesting(code, q)
           T == {d \in 0..p : N(p - d) <= n}
<1>1. p \in T
  <2>1. p - p = 0 /\ p \in 0..p
    OBVIOUS
  <2> QED BY <2>1, NestingAtStart
<1>2. PICK d \in T : \A e \in T : ~(e < d)
  <2>1. p \in T /\ T \subseteq Nat
    BY <1>1
  <2> QED BY <2>1, LeastOf
<1>3. d \in 1..p
  BY <1>2, NestingFinite
<1> DEFINE k == p - d
<1>4. k \in 0..(p - 1) /\ k \in Nat /\ N(k) <= n
  BY <1>2, <1>3
<1>5. ASSUME NEW q \in (k + 1)..p PROVE N(q) > n
  <2>1. p - q \in 0..p /\ p - q < d /\ p - (p - q) = q /\ q \in Nat
    BY <1>3
  <2>2. p - q \notin T
    BY <2>1, <1>2
  <2>3. N(q) \in Int
    BY <2>1, NestingFinite
  <2> QED BY <2>1, <2>2, <2>3
<1>6. N(k + 1) > n
  BY <1>4, <1>5
<1>7. N(k) = n /\ code[k + 1].op \in Openers
  BY <1>4, <1>6, NestingInt
<1> QED BY <1>4, <1>5, <1>7 DEF OpenAt

\* Blocks that are open at one place are nested.
LEMMA OpenOrdered ==
  ASSUME NEW code, NEW p \in Nat, NEW k, NEW l, OpenAt(code, k, p), OpenAt(code, l, p)
  PROVE  /\ k < l <=> Nesting(code, k) < Nesting(code, l)
         /\ k = l <=> Nesting(code, k) = Nesting(code, l)
<1>1. k \in 0..(p - 1) /\ l \in 0..(p - 1)
  BY DEF OpenAt
<1>2. Nesting(code, k) \in Int /\ Nesting(code, l) \in Int
  BY <1>1, NestingFinite
<1>3. k < l => Nesting(code, k) < Nesting(code, l)
  BY <1>1 DEF OpenAt
<1>4. l < k => Nesting(code, l) < Nesting(code, k)
  BY <1>1 DEF OpenAt
<1> QED BY <1>1, <1>2, <1>3, <1>4

\* A block is closed when there are as few open as before it.
LEMMA BlockEnds ==
  ASSUME NEW code, NEW k \in Nat, code[k + 1].op \in Openers,
         NEW m \in Nat, m > k, Nesting(code, m) <= Nesting(code, k)
  PROVE  \E q \in (k + 1)..(m - 1) : EndsAt(code, k, q)
<1> DEFINE N(q) == Nesting(code, q)
           T == {q \in (k + 1)..m : N(q) <= N(k)}
<1>1. PICK r \in T : \A q \in T : ~(q < r)
  <2>1. m \in T /\ T \subseteq Nat
    OBVIOUS
  <2> QED BY <2>1, LeastOf
<1>2. N(k + 1) = N(k) + 1 /\ N(k) \in Int
  BY NestingInt DEF Openers
<1>3. r \in (k + 2)..m /\ N(r) <= N(k) /\ r \in Nat /\ r - 1 \in Nat /\ r - 1 + 1 = r
  BY <1>1, <1>2
<1>4. ASSUME NEW q \in (k + 1)..(r - 1) PROVE N(q) > N(k)
  <2>1. q \in Nat /\ q \in (k + 1)..m /\ q < r
    BY <1>3
  <2>2. N(q) \in Int
    BY <2>1, NestingFinite
  <2> QED BY <2>1, <2>2, <1>1, <1>2
<1>5. N(r - 1) > N(k)
  BY <1>3, <1>4
<1>6. code[r].op = "end" /\ N(r) = N(k)
  BY <1>2, <1>3, <1>5, NestingInt
<1>7. OpenAt(code, k, r - 1)
  BY <1>3, <1>4 DEF OpenAt
<1> QED BY <1>3, <1>6, <1>7 DEF EndsAt

\* It is closed once.
LEMMA EndIsUnique ==
  ASSUME NEW code, NEW k, NEW q \in Nat, NEW r \in Nat, EndsAt(code, k, q), EndsAt(code, k, r)
  PROVE  q = r
<1>1. k \in 0..(q - 1) /\ k \in 0..(r - 1) /\ Nesting(code, k) \in Int
  BY NestingFinite DEF EndsAt, OpenAt
<1>2. ~(q < r)
  BY <1>1 DEF EndsAt, OpenAt
<1>3. ~(r < q)
  BY <1>1 DEF EndsAt, OpenAt
<1> QED BY <1>2, <1>3

\* What is open behind an instruction.
LEMMA OpenStep ==
  ASSUME NEW code, NEW p \in Nat, NEW k
  PROVE  OpenAt(code, k, p + 1) <=>
           \/ k = p /\ code[p + 1].op \in Openers
           \/ OpenAt(code, k, p) /\ Nesting(code, p + 1) > Nesting(code, k)
<1>1. CASE k = p
  <2>1. ~OpenAt(code, k, p)
    BY <1>1 DEF OpenAt
  <2>2. OpenAt(code, k, p + 1) <=> code[p + 1].op \in Openers /\ Nesting(code, p + 1) > Nesting(code, p)
    BY <1>1 DEF OpenAt
  <2>3. Nesting(code, p + 1) > Nesting(code, p) <=> code[p + 1].op \in Openers
    BY NestingInt DEF Openers
  <2> QED BY <1>1, <2>1, <2>2, <2>3
<1>2. CASE k \in 0..(p - 1)
  <2>1. (k + 1)..(p + 1) = ((k + 1)..p) \cup {p + 1}
    BY <1>2
  <2> QED BY <1>2, <2>1 DEF OpenAt
<1>3. CASE k \notin 0..p
  BY <1>3 DEF OpenAt
<1> QED BY <1>1, <1>2, <1>3

\* Only the opcodes matter.
LEMMA OpenSame ==
  ASSUME NEW code, NEW other, NEW p \in Nat, NEW k, \A j \in 1..p : code[j].op = other[j].op
  PROVE  /\ OpenAt(code, k, p) <=> OpenAt(other, k, p)
         /\ InnermostAt(code, k, p) <=> InnermostAt(other, k, p)
<1>1. ASSUME NEW q \in 0..p PROVE Nesting(code, q) = Nesting(other, q)
  BY NestingSame
<1>2. OpenAt(code, k, p) <=> OpenAt(other, k, p)
  <2>1. CASE k \in 0..(p - 1)
    <3>1. k + 1 \in 1..p /\ k \in 0..p /\ (k + 1)..p \subseteq 0..p
      BY <2>1
    <3> QED BY <1>1, <3>1 DEF OpenAt
  <2> QED BY <2>1 DEF OpenAt
<1>3. OpenAt(code, k, p) => k \in 0..p
  BY DEF OpenAt
<1> QED BY <1>1, <1>2, <1>3 DEF InnermostAt

LEMMA EndSame ==
  ASSUME NEW code, NEW other, NEW q \in Nat, NEW k, \A j \in 1..(q + 1) : code[j].op = other[j].op
  PROVE  EndsAt(code, k, q) <=> EndsAt(other, k, q)
<1>1. OpenAt(code, k, q) <=> OpenAt(other, k, q)
  BY OpenSame
<1>2. Nesting(code, q + 1) = Nesting(other, q + 1)
  BY NestingSame
<1>3. OpenAt(code, k, q) => Nesting(code, k) = Nesting(other, k)
  BY NestingSame DEF OpenAt
<1> QED BY <1>1, <1>2, <1>3 DEF EndsAt

LEMMA InnermostUnique ==
  ASSUME NEW code, NEW p \in Nat, NEW k, NEW l,
         InnermostAt(code, k, p), InnermostAt(code, l, p)
  PROVE  k = l
<1>1. k \in 0..(p - 1) /\ l \in 0..(p - 1) /\ OpenAt(code, k, p) /\ OpenAt(code, l, p)
  BY DEF InnermostAt, OpenAt
<1>2. Nesting(code, k) \in Int /\ Nesting(code, l) \in Int /\ Nesting(code, p) \in Int
  BY <1>1, NestingFinite
<1> QED BY <1>1, <1>2, OpenOrdered DEF InnermostAt

\* A block that is closed before instruction p is not open there.
LEMMA ClosedBefore ==
  ASSUME NEW code, NEW k, NEW p \in Nat, OpenAt(code, k, p), NEW q \in Nat, EndsAt(code, k, q)
  PROVE  q >= p
<1>1. k \in 0..(p - 1) /\ k \in 0..(q - 1) /\ Nesting(code, k) \in Int
  BY NestingFinite DEF EndsAt, OpenAt
<1>2. ~(q + 1 <= p)
  BY <1>1 DEF EndsAt, OpenAt
<1> QED BY <1>2

\* An end closes the block that is innermost there.
LEMMA EndClosesInnermost ==
  ASSUME NEW code, NEW q \in Nat, NEW k, code[q + 1].op = "end"
  PROVE  EndsAt(code, k, q) <=> InnermostAt(code, k, q)
<1>1. Nesting(code, q + 1) = Nesting(code, q) - 1 /\ Nesting(code, q) \in Int
  BY NestingInt DEF Openers
<1>2. OpenAt(code, k, q) => Nesting(code, k) \in Int
  BY NestingFinite DEF OpenAt
<1> QED BY <1>1, <1>2 DEF EndsAt, InnermostAt

-----------------------------------------------------------------------------
(* What the labels are when the parser is done, and where they lead.       *)

Places(code) == 0..(Len(code) - 1)

\* The else at e is one of the block opened at k.
ElseIn(code, k, e) == code[e + 1].op = "else" /\ InnermostAt(code, k, e)

LeadsTo(label, continuation, arity) ==
  label.continuation = continuation /\ label.arity = arity

\* The parser's stack tells which blocks are open; that of a loop does not say
\* where the loop begins.
BeginInv(code, begins) ==
  \A k \in Places(code) : OpenAt(code, k, Len(code)) =>
    LET begin == begins[Nesting(code, k) + 1] IN
    IF code[k + 1].op = "loop" THEN begin.isFake /\ begin.begin = 0
    ELSE /\ ~begin.isFake /\ begin.begin = k
         /\ begin.arity = Len(code[k + 1].type.returns)

\* An if knows an else of its own if it has one, but an if that is instruction
\* 0 may have been given the else of a loop.
ElseInv(code) ==
  \A k \in Places(code) :
    LET else == code[k + 1].elseLocation IN
    /\ \A e \in Places(code) :
         code[k + 1].op = "if" /\ ElseIn(code, k, e) => else # 0
    /\ else # 0 =>
         /\ code[k + 1].op = "if"
         /\ else \in (k + 1)..(Len(code) - 1)
         /\ \/ ElseIn(code, k, else)
            \/ \E l \in Places(code) : ElseIn(code, l, else) /\ code[l + 1].op = "loop"

\* The labels of the blocks that are closed, and of their elses.  Those of
\* blocks and loops before instruction `from` are gone.
LoopLabels(code, from) ==
  \A k \in Places(code) : code[k + 1].op = "loop" /\ k >= from =>
    LeadsTo(code[k + 1].label, k, Len(code[k + 1].type.params))

BlockLabels(code, from) ==
  \A k, q \in Places(code) :
    /\ EndsAt(code, k, q)
    /\ (code[k + 1].op = "block" /\ k >= from) \/ code[k + 1].op = "if"
    => LeadsTo(code[k + 1].label, q + 1, Len(code[k + 1].type.returns))

ElseLabels(code) ==
  \A k, q \in Places(code) :
    LET else == code[k + 1].elseLocation IN
    EndsAt(code, k, q) /\ code[k + 1].op = "if" /\ ElseIn(code, k, else)
    => LeadsTo(code[else + 1].label, q + 1, Len(code[k + 1].type.returns))

LabelInv(code, from) ==
  LoopLabels(code, from) /\ BlockLabels(code, from) /\ ElseLabels(code)

-----------------------------------------------------------------------------
(* The parser.                                                             *)

Extends(code, other) ==
  /\ Len(code) \in Nat /\ Len(other) = Len(code) + 1
  /\ \A j \in 1..Len(code) : other[j].op = code[j].op /\ other[j].type = code[j].type

LEMMA ExtendsSame ==
  ASSUME NEW code, NEW other, Extends(code, other)
  PROVE  /\ Places(other) = Places(code) \cup {Len(code)}
         /\ \A p \in 0..Len(code) : Nesting(other, p) = Nesting(code, p)
         /\ \A p \in 0..Len(code) : \A k :
              /\ OpenAt(other, k, p) <=> OpenAt(code, k, p)
              /\ InnermostAt(other, k, p) <=> InnermostAt(code, k, p)
         /\ \A p \in Places(code) : \A k :
              /\ EndsAt(other, k, p) <=> EndsAt(code, k, p)
              /\ ElseIn(other, k, p) <=> ElseIn(code, k, p)
<1>1. Places(other) = Places(code) \cup {Len(code)}
  BY DEF Extends, Places
<1>2. ASSUME NEW p \in 0..Len(code)
      PROVE  /\ Nesting(other, p) = Nesting(code, p)
             /\ \A k : /\ OpenAt(other, k, p) <=> OpenAt(code, k, p)
                       /\ InnermostAt(other, k, p) <=> InnermostAt(code, k, p)
  <2>1. p \in Nat /\ \A j \in 1..p : code[j].op = other[j].op
    BY DEF Extends
  <2> QED BY <2>1, NestingSame, OpenSame
<1>3. ASSUME NEW p \in Places(code), NEW k
      PROVE  /\ EndsAt(other, k, p) <=> EndsAt(code, k, p)
             /\ ElseIn(other, k, p) <=> ElseIn(code, k, p)
  <2>1. p \in Nat /\ p + 1 \in 1..Len(code) /\ \A j \in 1..(p + 1) : code[j].op = other[j].op
    BY DEF Extends, Places
  <2>2. EndsAt(other, k, p) <=> EndsAt(code, k, p)
    BY <2>1, EndSame
  <2>3. InnermostAt(other, k, p) <=> InnermostAt(code, k, p)
    BY <2>1, OpenSame
  <2> QED BY <2>1, <2>2, <2>3 DEF ElseIn
<1> QED BY <1>1, <1>2, <1>3

\* What ends where, what is an else of what: no more than before, unless the
\* last instruction is an end or an else.
LEMMA ExtendsByOther ==
  ASSUME NEW code, NEW other, Extends(code, other), NEW k
  PROVE  /\ other[Len(code) + 1].op # "end" => ~EndsAt(other, k, Len(code))
         /\ other[Len(code) + 1].op # "else" => ~ElseIn(other, k, Len(code))
BY DEF EndsAt, ElseIn

LEMMA OpenPlaces ==
  ASSUME NEW code, NEW k, NEW p \in 0..Len(code), Len(code) \in Nat, OpenAt(code, k, p)
  PROVE  k \in Places(code) /\ k \in Nat /\ k \in 0..Len(code) /\ k + 1 \in 1..Len(code)
         /\ k < p
BY DEF OpenAt, Places

\* The blocks that are open behind one more instruction.
LEMMA ExtendsOpen ==
  ASSUME NEW code, NEW other, Extends(code, other), NEW k, OpenAt(other, k, Len(other))
  PROVE  \/ /\ k = Len(code) /\ other[Len(code) + 1].op \in Openers
            /\ Nesting(other, k) = Nesting(code, Len(code))
         \/ /\ OpenAt(code, k, Len(code)) /\ k \in Places(code)
            /\ Nesting(other, k) = Nesting(code, k)
            /\ Nesting(other, Len(other)) > Nesting(code, k)
            /\ other[k + 1].op = code[k + 1].op /\ other[k + 1].type = code[k + 1].type
<1>1. Len(code) \in Nat /\ Len(other) = Len(code) + 1 /\ Len(code) \in 0..Len(code)
  BY DEF Extends
<1>2. \/ k = Len(code) /\ other[Len(code) + 1].op \in Openers
      \/ OpenAt(other, k, Len(code)) /\ Nesting(other, Len(code) + 1) > Nesting(other, k)
  BY <1>1, OpenStep
<1>3. CASE k = Len(code) /\ other[Len(code) + 1].op \in Openers
  BY <1>1, <1>3, ExtendsSame
<1>4. CASE OpenAt(other, k, Len(code)) /\ Nesting(other, Len(code) + 1) > Nesting(other, k)
  <2>1. OpenAt(code, k, Len(code))
    BY <1>1, <1>4, ExtendsSame
  <2>2. k \in Places(code) /\ k \in 0..Len(code) /\ k + 1 \in 1..Len(code)
    BY <1>1, <2>1, OpenPlaces
  <2> QED BY <1>1, <1>4, <2>1, <2>2, ExtendsSame DEF Extends
<1> QED BY <1>2, <1>3, <1>4

\* What the parser's count says of its stack.
Counted(code, begins) ==
  /\ Len(code) \in Nat
  /\ begins \in Seq(BlockBegins) /\ Len(begins) = Nesting(code, Len(code))
  /\ \A p \in 0..Len(code) : Nesting(code, p) >= 0

LEMMA OpenLevels ==
  ASSUME NEW code, NEW begins, Counted(code, begins), NEW k, OpenAt(code, k, Len(code))
  PROVE  /\ k \in Places(code) /\ k + 1 \in 1..Len(code)
         /\ Nesting(code, k) \in Nat /\ Nesting(code, Len(code)) \in Nat
         /\ Nesting(code, k) + 1 \in 1..Len(begins)
<1>1. Len(code) \in Nat /\ k \in Places(code) /\ k \in 0..Len(code) /\ k + 1 \in 1..Len(code)
  BY OpenPlaces DEF Counted
<1>2. Nesting(code, k) \in Int /\ Nesting(code, Len(code)) \in Int
  BY <1>1, NestingFinite
<1>3. Nesting(code, Len(code)) > Nesting(code, k)
  BY <1>1 DEF OpenAt
<1> QED BY <1>1, <1>2, <1>3 DEF Counted

LEMMA BeginsPushed ==
  ASSUME NEW code, NEW other, Extends(code, other), NEW begins, Counted(code, begins),
         BeginInv(code, begins), other[Len(code) + 1].op \in Openers, NEW b \in BlockBegins,
         IF other[Len(code) + 1].op = "loop" THEN b.isFake /\ b.begin = 0
         ELSE /\ ~b.isFake /\ b.begin = Len(code)
              /\ b.arity = Len(other[Len(code) + 1].type.returns)
  PROVE  BeginInv(other, Append(begins, b))
<1>1. /\ Len(begins) \in Nat /\ Append(begins, b)[Len(begins) + 1] = b
      /\ \A j \in 1..Len(begins) : Append(begins, b)[j] = begins[j]
  BY LenProperties, AppendProperties DEF Counted
<1>2. Len(begins) = Nesting(code, Len(code))
  BY DEF Counted
<1> SUFFICES ASSUME NEW k \in Places(other), OpenAt(other, k, Len(other))
             PROVE  LET begin == Append(begins, b)[Nesting(other, k) + 1] IN
                    IF other[k + 1].op = "loop" THEN begin.isFake /\ begin.begin = 0
                    ELSE /\ ~begin.isFake /\ begin.begin = k
                         /\ begin.arity = Len(other[k + 1].type.returns)
  BY DEF BeginInv
<1>3. \/ /\ k = Len(code) /\ other[Len(code) + 1].op \in Openers
         /\ Nesting(other, k) = Nesting(code, Len(code))
      \/ /\ OpenAt(code, k, Len(code)) /\ k \in Places(code)
         /\ Nesting(other, k) = Nesting(code, k)
         /\ other[k + 1].op = code[k + 1].op /\ other[k + 1].type = code[k + 1].type
  BY ExtendsOpen
<1>4. CASE /\ k = Len(code) /\ other[Len(code) + 1].op \in Openers
           /\ Nesting(other, k) = Nesting(code, Len(code))
  BY <1>1, <1>2, <1>4
<1>5. CASE /\ OpenAt(code, k, Len(code)) /\ k \in Places(code)
           /\ Nesting(other, k) = Nesting(code, k)
           /\ other[k + 1].op = code[k + 1].op /\ other[k + 1].type = code[k + 1].type
  <2>1. Append(begins, b)[Nesting(other, k) + 1] = begins[Nesting(code, k) + 1]
    BY <1>1, <1>5, OpenLevels
  <2> QED BY <1>5, <2>1 DEF BeginInv
<1> QED BY <1>3, <1>4, <1>5

LEMMA BeginsKept ==
  ASSUME NEW code, NEW other, Extends(code, other), NEW begins, BeginInv(code, begins),
         other[Len(code) + 1].op \notin Openers
  PROVE  BeginInv(other, begins)
<1> SUFFICES ASSUME NEW k \in Places(other), OpenAt(other, k, Len(other))
             PROVE  LET begin == begins[Nesting(other, k) + 1] IN
                    IF other[k + 1].op = "loop" THEN begin.isFake /\ begin.begin = 0
                    ELSE /\ ~begin.isFake /\ begin.begin = k
                         /\ begin.arity = Len(other[k + 1].type.returns)
  BY DEF BeginInv
<1> QED BY ExtendsOpen DEF BeginInv

LEMMA BeginsPopped ==
  ASSUME NEW code, NEW other, Extends(code, other), NEW begins, Counted(code, begins),
         BeginInv(code, begins), other[Len(code) + 1].op = "end", begins # <<>>
  PROVE  BeginInv(other, Front(begins))
<1>1. /\ Len(begins) \in Nat
      /\ \A j \in 1..(Len(begins) - 1) : Front(begins)[j] = begins[j]
  BY FrontAndLast DEF Counted
<1>2. /\ Len(code) \in Nat /\ Len(other) = Len(code) + 1
      /\ Nesting(other, Len(code)) = Nesting(code, Len(code))
  BY ExtendsSame DEF Extends
<1>3. Nesting(other, Len(other)) = Len(begins) - 1
  BY <1>2, NestingInt DEF Openers, Counted
<1> SUFFICES ASSUME NEW k \in Places(other), OpenAt(other, k, Len(other))
             PROVE  LET begin == Front(begins)[Nesting(other, k) + 1] IN
                    IF other[k + 1].op = "loop" THEN begin.isFake /\ begin.begin = 0
                    ELSE /\ ~begin.isFake /\ begin.begin = k
                         /\ begin.arity = Len(other[k + 1].type.returns)
  BY DEF BeginInv
<1>4. /\ OpenAt(code, k, Len(code)) /\ k \in Places(code)
      /\ Nesting(other, k) = Nesting(code, k)
      /\ Nesting(other, Len(other)) > Nesting(code, k)
      /\ other[k + 1].op = code[k + 1].op /\ other[k + 1].type = code[k + 1].type
  BY ExtendsOpen DEF Openers
<1>5. Front(begins)[Nesting(other, k) + 1] = begins[Nesting(code, k) + 1]
  BY <1>1, <1>3, <1>4, OpenLevels
<1> QED BY <1>4, <1>5 DEF BeginInv

\* The innermost open block is the one on top.
LEMMA LastBegin ==
  ASSUME NEW code, NEW begins, Counted(code, begins), BeginInv(code, begins), begins # <<>>
  PROVE  \E k \in Places(code) :
           /\ InnermostAt(code, k, Len(code)) /\ k + 1 \in 1..Len(code)
           /\ IF code[k + 1].op = "loop" THEN Last(begins).isFake /\ Last(begins).begin = 0
              ELSE /\ ~Last(begins).isFake /\ Last(begins).begin = k
                   /\ Last(begins).arity = Len(code[k + 1].type.returns)
<1>1. Len(begins) \in Nat \ {0} /\ Last(begins) = begins[Len(begins)]
  BY FrontAndLast DEF Counted
<1>2. Len(code) \in Nat /\ Len(begins) = Nesting(code, Len(code))
  BY DEF Counted
<1>3. PICK k \in 0..(Len(code) - 1) :
        OpenAt(code, k, Len(code)) /\ Nesting(code, k) = Len(begins) - 1
  <2>1. Len(begins) - 1 \in Nat /\ Len(begins) - 1 < Nesting(code, Len(code))
    BY <1>1, <1>2
  <2> QED BY <1>2, <2>1, OpenerAtLevel
<1>4. k \in Places(code) /\ k + 1 \in 1..Len(code)
  BY <1>2, <1>3, OpenPlaces
<1>5. InnermostAt(code, k, Len(code)) /\ Nesting(code, k) + 1 = Len(begins)
  BY <1>1, <1>2, <1>3 DEF InnermostAt
<1> QED BY <1>1, <1>3, <1>4, <1>5 DEF BeginInv

\* No block is open at its own opener.
LEMMA OpenBehind ==
  ASSUME NEW code, NEW k, NEW p \in Int, OpenAt(code, k, p)
  PROVE  k < p /\ k \in Int /\ p # 0
BY DEF OpenAt

LEMMA ElsePlaces ==
  ASSUME NEW code, Len(code) \in Nat, ElseInv(code), NEW k \in Places(code)
  PROVE  LET else == code[k + 1].elseLocation IN
         /\ else # 0 => else \in Places(code)
         /\ ElseIn(code, k, else) => else \in Places(code)
<1> DEFINE else == code[k + 1].elseLocation
<1>1. else # 0 => else \in Places(code)
  <2>1. else # 0 => else \in (k + 1)..(Len(code) - 1)
    BY DEF ElseInv
  <2> QED BY <2>1 DEF Places
<1>2. ~ElseIn(code, k, 0)
  BY OpenBehind DEF ElseIn, InnermostAt
<1> QED BY <1>1, <1>2

\* An instruction that is no else leaves the elses alone.
LEMMA ElsesKept ==
  ASSUME NEW code, NEW other, Extends(code, other), ElseInv(code),
         \A j \in 1..Len(code) : other[j].elseLocation = code[j].elseLocation,
         other[Len(code) + 1].elseLocation = 0, other[Len(code) + 1].op # "else"
  PROVE  ElseInv(other)
<1>1. /\ Len(code) \in Nat /\ Len(other) = Len(code) + 1
      /\ Places(other) = Places(code) \cup {Len(code)}
  BY ExtendsSame DEF Extends
<1> SUFFICES ASSUME NEW k \in Places(other)
             PROVE  LET else == other[k + 1].elseLocation IN
                    /\ \A e \in Places(other) :
                         other[k + 1].op = "if" /\ ElseIn(other, k, e) => else # 0
                    /\ else # 0 =>
                         /\ other[k + 1].op = "if"
                         /\ else \in (k + 1)..(Len(other) - 1)
                         /\ \/ ElseIn(other, k, else)
                            \/ \E l \in Places(other) :
                                 ElseIn(other, l, else) /\ other[l + 1].op = "loop"
  BY DEF ElseInv
<1>2. CASE k = Len(code)
  <2>1. \A e \in Places(other) : ~ElseIn(other, k, e)
    BY <1>1, <1>2, OpenBehind DEF ElseIn, InnermostAt, Places
  <2> QED BY <1>2, <2>1
<1>3. CASE k \in Places(code)
  <2> DEFINE else == code[k + 1].elseLocation
  <2>1. other[k + 1].elseLocation = else /\ other[k + 1].op = code[k + 1].op
    BY <1>1, <1>3 DEF Places, Extends
  <2>2. ASSUME NEW e \in Places(other), other[k + 1].op = "if", ElseIn(other, k, e)
        PROVE  else # 0
    <3>1. e \in Places(code)
      BY <1>1, <2>2 DEF ElseIn
    <3> QED BY <1>3, <2>1, <2>2, <3>1, ExtendsSame DEF ElseInv
  <2>3. ASSUME else # 0
        PROVE  /\ other[k + 1].op = "if" /\ else \in (k + 1)..(Len(other) - 1)
               /\ \/ ElseIn(other, k, else)
                  \/ \E l \in Places(other) :
                       ElseIn(other, l, else) /\ other[l + 1].op = "loop"
    <3>1. /\ code[k + 1].op = "if" /\ else \in (k + 1)..(Len(code) - 1)
          /\ \/ ElseIn(code, k, else)
             \/ \E l \in Places(code) : ElseIn(code, l, else) /\ code[l + 1].op = "loop"
      BY <1>3, <2>3 DEF ElseInv
    <3>2. else \in Places(code)
      BY <1>1, <1>3, <3>1 DEF Places
    <3>3. \A l \in Places(code) : /\ l \in Places(other) /\ other[l + 1].op = code[l + 1].op
                                  /\ ElseIn(other, l, else) <=> ElseIn(code, l, else)
      <4>1. \A l \in Places(code) : l \in Places(other) /\ other[l + 1].op = code[l + 1].op
        BY <1>1 DEF Extends, Places
      <4>2. \A l : ElseIn(other, l, else) <=> ElseIn(code, l, else)
        BY <3>2, ExtendsSame
      <4> QED BY <4>1, <4>2
    <3>4. other[k + 1].op = "if" /\ else \in (k + 1)..(Len(other) - 1)
      BY <1>1, <1>3, <2>1, <3>1 DEF Places
    <3> QED BY <1>3, <3>1, <3>3, <3>4
  <2> QED BY <2>1, <2>2, <2>3
<1> QED BY <1>1, <1>2, <1>3

\* The labels of loops stay, and that of a new one is its own.
LEMMA LoopLabelsKept ==
  ASSUME NEW code, NEW other, Extends(code, other), LoopLabels(code, 0),
         \A j \in 1..Len(code) : code[j].op = "loop" => other[j].label = code[j].label,
         other[Len(code) + 1].op = "loop" =>
           LeadsTo(other[Len(code) + 1].label, Len(code), Len(other[Len(code) + 1].type.params))
  PROVE  LoopLabels(other, 0)
<1>1. Places(other) = Places(code) \cup {Len(code)} /\ Len(code) \in Nat
  BY ExtendsSame DEF Extends
<1>2. ASSUME NEW k \in Places(code)
      PROVE  /\ other[k + 1].op = code[k + 1].op /\ other[k + 1].type = code[k + 1].type
             /\ code[k + 1].op = "loop" => other[k + 1].label = code[k + 1].label
             /\ k >= 0
  <2>1. k + 1 \in 1..Len(code)
    BY <1>1 DEF Places
  <2> QED BY <1>1, <2>1 DEF Extends, Places
<1> QED BY <1>1, <1>2 DEF LoopLabels

\* Where nothing ends, the labels of what has ended stay.
LEMMA BlockLabelsKept ==
  ASSUME NEW code, NEW other, Extends(code, other), BlockLabels(code, 0),
         \A j \in 1..Len(code) : other[j].label = code[j].label,
         \A k : ~EndsAt(other, k, Len(code))
  PROVE  BlockLabels(other, 0)
<1>1. Places(other) = Places(code) \cup {Len(code)} /\ Len(code) \in Nat
  BY ExtendsSame DEF Extends
<1> SUFFICES ASSUME NEW k \in Places(other), NEW q \in Places(other), EndsAt(other, k, q),
                    (other[k + 1].op = "block" /\ k >= 0) \/ other[k + 1].op = "if"
             PROVE  LeadsTo(other[k + 1].label, q + 1, Len(other[k + 1].type.returns))
  BY DEF BlockLabels
<1>2. q \in Places(code)
  BY <1>1
<1>3. k \in Places(code) /\ k + 1 \in 1..Len(code)
  BY <1>1, <1>2, OpenBehind DEF EndsAt, Places
<1>4. EndsAt(code, k, q)
  BY <1>2, ExtendsSame
<1> QED BY <1>2, <1>3, <1>4 DEF BlockLabels, Extends

LEMMA ElseLabelsKept ==
  ASSUME NEW code, NEW other, Extends(code, other), ElseInv(code), ElseLabels(code),
         \A j \in 1..Len(code) : /\ other[j].label = code[j].label
                                 /\ other[j].elseLocation = code[j].elseLocation,
         \A k : ~EndsAt(other, k, Len(code))
  PROVE  ElseLabels(other)
<1>1. Places(other) = Places(code) \cup {Len(code)} /\ Len(code) \in Nat
  BY ExtendsSame DEF Extends
<1> SUFFICES ASSUME NEW k \in Places(other), NEW q \in Places(other), EndsAt(other, k, q),
                    other[k + 1].op = "if", ElseIn(other, k, other[k + 1].elseLocation)
             PROVE  LeadsTo(other[other[k + 1].elseLocation + 1].label, q + 1,
                            Len(other[k + 1].type.returns))
  BY DEF ElseLabels
<1>2. q \in Places(code)
  BY <1>1
<1>3. k \in Places(code) /\ k + 1 \in 1..Len(code)
  BY <1>1, <1>2, OpenBehind DEF EndsAt, Places
<1>4. EndsAt(code, k, q)
  BY <1>2, ExtendsSame
<1> DEFINE e == code[k + 1].elseLocation
<1>5. other[k + 1].elseLocation = e /\ e # 0
  BY <1>3, OpenBehind DEF ElseIn, InnermostAt
<1>6. e \in Places(code) /\ e + 1 \in 1..Len(code)
  BY <1>1, <1>3, <1>5, ElsePlaces DEF Places
<1>7. ElseIn(code, k, e)
  BY <1>5, <1>6, ExtendsSame
<1>8. other[e + 1].label = code[e + 1].label
  BY <1>6
<1>9. LeadsTo(code[e + 1].label, q + 1, Len(code[k + 1].type.returns))
  BY <1>2, <1>3, <1>4, <1>7 DEF ElseLabels, Extends
<1> QED BY <1>3, <1>5, <1>8, <1>9 DEF Extends

\* An else is read: the block opened at b, its if, is told.  When the innermost
\* block, opened at l, is a loop, b is instruction 0.
ElseRead(code, other, l, b) ==
  /\ Extends(code, other)
  /\ l \in Places(code) /\ InnermostAt(code, l, Len(code))
  /\ b \in Places(code) /\ code[b + 1].op = "if"
  /\ b = l \/ code[l + 1].op = "loop"
  /\ \A j \in 1..Len(code) :
       /\ other[j].label = code[j].label
       /\ other[j].elseLocation = IF j = b + 1 THEN Len(code) ELSE code[j].elseLocation
  /\ other[Len(code) + 1].op = "else" /\ other[Len(code) + 1].elseLocation = 0

LEMMA ElseReadIn ==
  ASSUME NEW code, NEW other, NEW l, NEW b, ElseRead(code, other, l, b), NEW k
  PROVE  ElseIn(other, k, Len(code)) <=> k = l
<1>1. Len(code) \in Nat /\ Len(code) \in 0..Len(code)
  BY DEF ElseRead, Extends
<1>2. ElseIn(other, k, Len(code)) <=> InnermostAt(code, k, Len(code))
  BY <1>1, ExtendsSame DEF ElseIn, ElseRead
<1> QED BY <1>1, <1>2, InnermostUnique DEF ElseRead

LEMMA ElsesAfterElse ==
  ASSUME NEW code, NEW other, NEW l, NEW b, ElseRead(code, other, l, b), ElseInv(code)
  PROVE  ElseInv(other)
<1>1. /\ Len(code) \in Nat /\ Len(other) = Len(code) + 1 /\ Extends(code, other)
      /\ Places(other) = Places(code) \cup {Len(code)}
      /\ \A k \in Places(code) : k + 1 \in 1..Len(code) /\ other[k + 1].op = code[k + 1].op
  BY ExtendsSame DEF Extends, ElseRead, Places
<1>2. b \in 0..(Len(code) - 1) /\ l \in Places(code) /\ l \in Places(other)
  BY <1>1 DEF ElseRead, Places
<1> SUFFICES ASSUME NEW k \in Places(other)
             PROVE  LET else == other[k + 1].elseLocation IN
                    /\ \A e \in Places(other) :
                         other[k + 1].op = "if" /\ ElseIn(other, k, e) => else # 0
                    /\ else # 0 =>
                         /\ other[k + 1].op = "if"
                         /\ else \in (k + 1)..(Len(other) - 1)
                         /\ \/ ElseIn(other, k, else)
                            \/ \E m \in Places(other) :
                                 ElseIn(other, m, else) /\ other[m + 1].op = "loop"
  BY DEF ElseInv
<1>3. CASE k = Len(code)
  <2>1. \A e \in Places(other) : ~ElseIn(other, k, e)
    BY <1>1, <1>3, OpenBehind DEF ElseIn, InnermostAt, Places
  <2>2. other[k + 1].elseLocation = 0
    BY <1>3 DEF ElseRead
  <2> QED BY <2>1, <2>2
<1>4. CASE k = b
  <2>1. other[k + 1].elseLocation = Len(code) /\ other[k + 1].op = "if"
    BY <1>1, <1>2, <1>4 DEF ElseRead
  <2>2. Len(code) # 0 /\ Len(code) \in (k + 1)..(Len(other) - 1)
    BY <1>1, <1>2, <1>4
  <2>3. ElseIn(other, l, Len(code))
    BY ElseReadIn
  <2>4. ElseIn(other, k, Len(code)) \/ other[l + 1].op = "loop"
    BY <1>1, <1>2, <1>4, <2>3 DEF ElseRead
  <2> QED BY <1>2, <2>1, <2>2, <2>3, <2>4
<1>5. CASE k \in Places(code) /\ k # b
  <2> DEFINE else == code[k + 1].elseLocation
  <2>1. other[k + 1].elseLocation = else /\ other[k + 1].op = code[k + 1].op
    <3>1. k + 1 \in 1..Len(code) /\ k + 1 # b + 1
      BY <1>1, <1>2, <1>5 DEF Places
    <3> QED BY <3>1 DEF ElseRead, Extends
  <2>2. ASSUME NEW e \in Places(other), other[k + 1].op = "if", ElseIn(other, k, e)
        PROVE  else # 0
    <3>1. CASE e = Len(code)
      <4>1. k = l
        BY <2>2, <3>1, ElseReadIn
      <4> QED BY <1>5, <2>1, <2>2, <4>1 DEF ElseRead
    <3>2. CASE e \in Places(code)
      BY <1>1, <1>5, <2>1, <2>2, <3>2, ExtendsSame DEF ElseInv
    <3> QED BY <1>1, <3>1, <3>2
  <2>3. ASSUME else # 0
        PROVE  /\ other[k + 1].op = "if" /\ else \in (k + 1)..(Len(other) - 1)
               /\ \/ ElseIn(other, k, else)
                  \/ \E m \in Places(other) :
                       ElseIn(other, m, else) /\ other[m + 1].op = "loop"
    <3>1. /\ code[k + 1].op = "if" /\ else \in (k + 1)..(Len(code) - 1)
          /\ \/ ElseIn(code, k, else)
             \/ \E m \in Places(code) : ElseIn(code, m, else) /\ code[m + 1].op = "loop"
      BY <1>5, <2>3 DEF ElseInv
    <3>2. else \in Places(code)
      BY <1>1, <1>5, <3>1 DEF Places
    <3>3. \A m : ElseIn(other, m, else) <=> ElseIn(code, m, else)
      BY <1>1, <3>2, ExtendsSame
    <3>4. other[k + 1].op = "if" /\ else \in (k + 1)..(Len(other) - 1)
      BY <1>1, <1>5, <2>1, <3>1 DEF Places
    <3> QED BY <1>1, <3>1, <3>3, <3>4
  <2> QED BY <2>1, <2>2, <2>3
<1> QED BY <1>1, <1>3, <1>4, <1>5

LEMMA LabelsAfterElse ==
  ASSUME NEW code, NEW other, NEW l, NEW b, ElseRead(code, other, l, b),
         ElseInv(code), LabelInv(code, 0)
  PROVE  LabelInv(other, 0)
<1>1. /\ Len(code) \in Nat /\ Len(other) = Len(code) + 1 /\ Extends(code, other)
      /\ Places(other) = Places(code) \cup {Len(code)}
      /\ other[Len(code) + 1].op = "else" /\ \A k : ~EndsAt(other, k, Len(code))
      /\ \A j \in 1..Len(code) : other[j].label = code[j].label
      /\ LoopLabels(code, 0) /\ BlockLabels(code, 0) /\ ElseLabels(code)
  BY ExtendsSame, ExtendsByOther DEF Extends, ElseRead, LabelInv
<1>2. LoopLabels(other, 0)
  BY <1>1, LoopLabelsKept
<1>3. BlockLabels(other, 0)
  BY <1>1, BlockLabelsKept
<1>4. ElseLabels(other)
  <2> SUFFICES ASSUME NEW k \in Places(other), NEW q \in Places(other), EndsAt(other, k, q),
                      other[k + 1].op = "if", ElseIn(other, k, other[k + 1].elseLocation)
               PROVE  LeadsTo(other[other[k + 1].elseLocation + 1].label, q + 1,
                              Len(other[k + 1].type.returns))
    BY DEF ElseLabels
  <2>1. q \in Places(code)
    BY <1>1
  <2>2. k \in Places(code) /\ k + 1 \in 1..Len(code)
    BY <1>1, <2>1, OpenBehind DEF EndsAt, Places
  <2>3. EndsAt(code, k, q)
    BY <1>1, <2>1, ExtendsSame
  <2>4. k # l
    <3>1. q \in Nat /\ q < Len(code)
      BY <1>1, <2>1 DEF Places
    <3> QED BY <1>1, <2>3, <3>1, ClosedBefore DEF ElseRead, InnermostAt
  <2>5. ~ElseIn(other, k, Len(code))
    BY <2>4, ElseReadIn
  <2> DEFINE e == code[k + 1].elseLocation
  <2>6. other[k + 1].elseLocation = e /\ ElseIn(other, k, e)
    <3>1. other[k + 1].elseLocation # Len(code)
      BY <2>5
    <3> QED BY <2>2, <3>1 DEF ElseRead
  <2>7. e # 0
    BY <2>6, OpenBehind DEF ElseIn, InnermostAt
  <2>8. e \in Places(code) /\ e + 1 \in 1..Len(code)
    BY <1>1, <2>2, <2>7, ElsePlaces DEF Places
  <2>9. ElseIn(code, k, e)
    BY <1>1, <2>6, <2>8, ExtendsSame
  <2>10. other[e + 1].label = code[e + 1].label
    BY <1>1, <2>8
  <2>11. LeadsTo(code[e + 1].label, q + 1, Len(code[k + 1].type.returns))
    BY <1>1, <2>1, <2>2, <2>3, <2>9 DEF ElseLabels, Extends
  <2> QED BY <1>1, <2>2, <2>6, <2>10, <2>11 DEF Extends
<1> QED BY <1>2, <1>3, <1>4 DEF LabelInv

\* The end of a block is read: its label, and that of its else, is known.
EndRead(code, other, k) ==
  /\ Extends(code, other)
  /\ k \in Places(code) /\ InnermostAt(code, k, Len(code))
  /\ \A j \in 1..Len(code) :
       /\ other[j].elseLocation = code[j].elseLocation
       /\ IF /\ code[k + 1].op # "loop"
             /\ \/ j = k + 1
                \/ code[k + 1].elseLocation # 0 /\ j = code[k + 1].elseLocation + 1
          THEN LeadsTo(other[j].label, Len(code) + 1, Len(code[k + 1].type.returns))
          ELSE other[j].label = code[j].label
  /\ other[Len(code) + 1].op = "end" /\ other[Len(code) + 1].elseLocation = 0

LEMMA EndReadEnds ==
  ASSUME NEW code, NEW other, NEW k, EndRead(code, other, k), NEW m
  PROVE  EndsAt(other, m, Len(code)) <=> m = k
<1>1. Len(code) \in Nat /\ Len(code) \in 0..Len(code)
  BY DEF EndRead, Extends
<1>2. EndsAt(other, m, Len(code)) <=> InnermostAt(code, m, Len(code))
  <2>1. EndsAt(other, m, Len(code)) <=> InnermostAt(other, m, Len(code))
    BY <1>1, EndClosesInnermost DEF EndRead
  <2> QED BY <1>1, <2>1, ExtendsSame DEF EndRead
<1> QED BY <1>1, <1>2, InnermostUnique DEF EndRead

\* Neither is a label of a loop or of another block, nor that of its else.
LEMMA LabelsAfterEnd ==
  ASSUME NEW code, NEW other, NEW k, EndRead(code, other, k),
         ElseInv(code), LabelInv(code, 0)
  PROVE  LabelInv(other, 0)
<1>1. /\ Len(code) \in Nat /\ Len(other) = Len(code) + 1 /\ Extends(code, other)
      /\ Places(other) = Places(code) \cup {Len(code)}
      /\ LoopLabels(code, 0) /\ BlockLabels(code, 0) /\ ElseLabels(code)
      /\ k \in Places(code) /\ k + 1 \in 1..Len(code)
  BY ExtendsSame DEF Extends, EndRead, LabelInv, Places
<1> DEFINE else == code[k + 1].elseLocation
<1>2. else # 0 => /\ code[k + 1].op = "if"
                  /\ else \in Places(code) /\ code[else + 1].op = "else"
                  /\ \/ ElseIn(code, k, else)
                     \/ \E l \in Places(code) : ElseIn(code, l, else) /\ code[l + 1].op = "loop"
  <2>1. else # 0 => else \in Places(code)
    BY <1>1, ElsePlaces
  <2> QED BY <1>1, <2>1 DEF ElseInv, ElseIn
\* An opener keeps its label unless it is that of the block.
<1>3. ASSUME NEW m \in Places(code), code[m + 1].op \in Openers,
             m # k \/ code[k + 1].op = "loop"
      PROVE  other[m + 1].label = code[m + 1].label
  <2>1. m + 1 \in 1..Len(code)
    BY <1>1 DEF Places
  <2>2. else # 0 => m + 1 # else + 1
    BY <1>2, <1>3 DEF Openers
  <2> QED BY <1>1, <1>3, <2>1, <2>2 DEF EndRead, Places
<1>4. LoopLabels(other, 0)
  <2>1. ASSUME NEW j \in 1..Len(code), code[j].op = "loop" PROVE other[j].label = code[j].label
    <3>1. j - 1 \in Places(code) /\ j - 1 + 1 = j
      BY <1>1 DEF Places
    <3>2. code[j - 1 + 1].op \in Openers
      BY <2>1, <3>1 DEF Openers
    <3>3. j - 1 # k \/ code[k + 1].op = "loop"
      BY <2>1, <3>1
    <3> QED BY <1>3, <3>1, <3>2, <3>3
  <2>2. other[Len(code) + 1].op # "loop"
    BY DEF EndRead
  <2> QED BY <1>1, <2>1, <2>2, LoopLabelsKept
<1>5. BlockLabels(other, 0)
  <2> SUFFICES ASSUME NEW m \in Places(other), NEW q \in Places(other), EndsAt(other, m, q),
                      other[m + 1].op \in {"block", "if"}
               PROVE  LeadsTo(other[m + 1].label, q + 1, Len(other[m + 1].type.returns))
    BY DEF BlockLabels
  <2>1. m \in Places(code) /\ m + 1 \in 1..Len(code)
    BY <1>1, OpenBehind DEF EndsAt, Places
  <2>2. other[m + 1].op = code[m + 1].op /\ other[m + 1].type = code[m + 1].type
    BY <1>1, <2>1 DEF Extends
  <2>3. CASE q = Len(code)
    <3>1. m = k
      BY <2>3, EndReadEnds
    <3> QED BY <2>1, <2>2, <2>3, <3>1 DEF EndRead
  <2>4. CASE q \in Places(code)
    <3>1. EndsAt(code, m, q)
      BY <1>1, <2>4, ExtendsSame
    <3>2. m # k
      <4>1. q \in Nat /\ q < Len(code)
        BY <1>1, <2>4 DEF Places
      <4> QED BY <1>1, <3>1, <4>1, ClosedBefore DEF EndRead, InnermostAt
    <3>3. other[m + 1].label = code[m + 1].label
      BY <1>3, <2>1, <2>2, <3>2 DEF Openers
    <3>4. m >= 0
      BY <2>1 DEF Places
    <3> QED BY <1>1, <2>1, <2>2, <2>4, <3>1, <3>3, <3>4 DEF BlockLabels
  <2> QED BY <1>1, <2>3, <2>4
<1>6. ElseLabels(other)
  <2> SUFFICES ASSUME NEW m \in Places(other), NEW q \in Places(other), EndsAt(other, m, q),
                      other[m + 1].op = "if", ElseIn(other, m, other[m + 1].elseLocation)
               PROVE  LeadsTo(other[other[m + 1].elseLocation + 1].label, q + 1,
                              Len(other[m + 1].type.returns))
    BY DEF ElseLabels
  <2>1. m \in Places(code) /\ m + 1 \in 1..Len(code)
    BY <1>1, OpenBehind DEF EndsAt, Places
  <2>2. other[m + 1].op = code[m + 1].op /\ other[m + 1].type = code[m + 1].type
    BY <1>1, <2>1 DEF Extends
  <2> DEFINE e == code[m + 1].elseLocation
  <2>3. other[m + 1].elseLocation = e /\ ElseIn(other, m, e)
    BY <2>1 DEF EndRead
  <2>4. e # 0
    BY <2>3, OpenBehind DEF ElseIn, InnermostAt
  <2>5. e \in Places(code) /\ e + 1 \in 1..Len(code) /\ e \in Nat
    BY <1>1, <2>1, <2>4, ElsePlaces DEF Places
  <2>6. ElseIn(code, m, e)
    BY <1>1, <2>3, <2>5, ExtendsSame
  <2>7. CASE q = Len(code)
    <3>1. m = k
      BY <2>7, EndReadEnds
    <3> QED BY <2>1, <2>2, <2>3, <2>4, <2>5, <2>7, <3>1 DEF EndRead
  <2>8. CASE q \in Places(code)
    <3>1. EndsAt(code, m, q)
      BY <1>1, <2>8, ExtendsSame
    <3>2. m # k
      <4>1. q \in Nat /\ q < Len(code)
        BY <1>1, <2>8 DEF Places
      <4> QED BY <1>1, <3>1, <4>1, ClosedBefore DEF EndRead, InnermostAt
    <3>3. e # k
      <4>1. code[k + 1].op \in Openers /\ code[e + 1].op = "else"
        BY <2>6 DEF EndRead, InnermostAt, OpenAt, ElseIn
      <4> QED BY <4>1 DEF Openers
    <3>4. e # else
      <4>1. CASE ElseIn(code, k, else) /\ e = else
        BY <2>5, <2>6, <3>2, <4>1, InnermostUnique DEF ElseIn
      <4>2. CASE e = else /\ \E l \in Places(code) :
                   ElseIn(code, l, else) /\ code[l + 1].op = "loop"
        BY <2>2, <2>5, <2>6, <4>2, InnermostUnique DEF ElseIn
      <4> QED BY <1>2, <2>4, <4>1, <4>2
    <3>5. other[e + 1].label = code[e + 1].label
      <4>1. e + 1 # k + 1 /\ (else # 0 => e + 1 # else + 1)
        <5>1. k \in Int /\ (else # 0 => else \in Int)
          BY <1>1, <1>2 DEF Places
        <5> QED BY <2>5, <3>3, <3>4, <5>1
      <4> QED BY <2>5, <4>1 DEF EndRead
    <3>6. LeadsTo(code[e + 1].label, q + 1, Len(code[m + 1].type.returns))
      BY <1>1, <2>1, <2>2, <2>6, <2>8, <3>1 DEF ElseLabels
    <3> QED BY <2>2, <2>3, <3>5, <3>6
  <2> QED BY <1>1, <2>7, <2>8
<1> QED BY <1>4, <1>5, <1>6 DEF LabelInv

-----------------------------------------------------------------------------
(* The instructions the parser reads.                                      *)

ParsedInv ==
  BeginInv(instructions, blockBeginStack) /\ ElseInv(instructions) /\ LabelInv(instructions, 0)

\* What is left to show of a step of the parser.
Parsed ==
  /\ phase' = "parse" => BeginInv(instructions', blockBeginStack')
  /\ phase' # "rejected" => ElseInv(instructions') /\ LabelInv(instructions', 0)

Parsing == CodeInv /\ ParsedInv /\ phase = "parse"

LEMMA ParsingCounts ==
  ASSUME Parsing
  PROVE  Counted(instructions, blockBeginStack)
BY LenProperties DEF Parsing, CodeInv, Counted

LEMMA AppendExtends ==
  ASSUME NEW code \in Seq(InstructionType), NEW i \in InstructionType
  PROVE  /\ Extends(code, Append(code, i))
         /\ Append(code, i)[Len(code) + 1] = i
         /\ \A j \in 1..Len(code) : Append(code, i)[j] = code[j]
BY LenProperties, AppendProperties DEF Extends

\* What a token is read to.
LEMMA TokenParts ==
  ASSUME NEW t \in Tokens
  PROVE  /\ Instruction(t) \in InstructionType
         /\ Instruction(t).op = t.op /\ Instruction(t).type = t.type
         /\ Instruction(t).elseLocation = 0
BY TokenInstruction DEF Instruction

LEMMA ReadOtherParsed ==
  ASSUME Parsing, NEW t \in Tokens, ReadOther(t)
  PROVE  Parsed
<1> DEFINE i == Instruction(t)
<1>1. i \in InstructionType /\ i.op = t.op /\ i.elseLocation = 0
  BY TokenParts
<1>2. /\ instructions \in Seq(InstructionType) /\ instructions' = Append(instructions, i)
      /\ UNCHANGED blockBeginStack
  BY DEF Parsing, CodeInv, ReadOther
<1> HIDE DEF i
<1>3. /\ Extends(instructions, instructions') /\ instructions'[Len(instructions) + 1] = i
      /\ \A j \in 1..Len(instructions) : instructions'[j] = instructions[j]
  BY <1>1, <1>2, AppendExtends
<1>4. /\ i.op \notin Openers /\ i.op # "else" /\ i.op # "loop"
      /\ \A k : ~EndsAt(instructions', k, Len(instructions))
  BY <1>1, <1>3, ExtendsByOther DEF ReadOther, Openers
<1>5. BeginInv(instructions', blockBeginStack)
  BY <1>3, <1>4, BeginsKept DEF Parsing, ParsedInv
<1>6. ElseInv(instructions')
  BY <1>1, <1>3, <1>4, ElsesKept DEF Parsing, ParsedInv
<1>7. LabelInv(instructions', 0)
  BY <1>3, <1>4, LoopLabelsKept, BlockLabelsKept, ElseLabelsKept DEF Parsing, ParsedInv, LabelInv
<1> QED BY <1>2, <1>5, <1>6, <1>7 DEF Parsed

\* A block is opened by an instruction whose label, if it is a loop, is right.
LEMMA OpenParsed ==
  ASSUME Parsing, NEW i \in InstructionType, NEW b \in BlockBegins, Open(i, b),
         i.op \in Openers, i.elseLocation = 0,
         i.op = "loop" => LeadsTo(i.label, Len(instructions), Len(i.type.params)),
         IF i.op = "loop" THEN b.isFake /\ b.begin = 0
         ELSE ~b.isFake /\ b.begin = Len(instructions) /\ b.arity = Len(i.type.returns)
  PROVE  Parsed
<1>1. /\ instructions \in Seq(InstructionType) /\ instructions' = Append(instructions, i)
      /\ blockBeginStack' = Append(blockBeginStack, b)
  BY DEF Parsing, CodeInv, Open
<1>2. /\ Extends(instructions, instructions') /\ instructions'[Len(instructions) + 1] = i
      /\ \A j \in 1..Len(instructions) : instructions'[j] = instructions[j]
  BY <1>1, AppendExtends
<1>3. i.op # "else" /\ \A k : ~EndsAt(instructions', k, Len(instructions))
  BY <1>2, ExtendsByOther DEF Openers
<1>4. BeginInv(instructions', blockBeginStack')
  BY <1>1, <1>2, ParsingCounts, BeginsPushed DEF Parsing, ParsedInv
<1>5. ElseInv(instructions')
  BY <1>2, <1>3, ElsesKept DEF Parsing, ParsedInv
<1>6. LabelInv(instructions', 0)
  BY <1>2, <1>3, LoopLabelsKept, BlockLabelsKept, ElseLabelsKept DEF Parsing, ParsedInv, LabelInv
<1> QED BY <1>4, <1>5, <1>6 DEF Parsed

LEMMA ReadBlockOrIfParsed ==
  ASSUME Parsing, NEW t \in Tokens, ReadBlockOrIf(t)
  PROVE  Parsed
<1> DEFINE b == [begin |-> Len(instructions), arity |-> Len(t.type.returns), isFake |-> FALSE]
<1>1. b \in BlockBegins
  BY LenProperties, SignatureLengths DEF Parsing, CodeInv, Tokens, BlockBegins
<1>2. /\ Instruction(t) \in InstructionType /\ Instruction(t).op \in Openers
      /\ Instruction(t).op # "loop" /\ Instruction(t).type = t.type
      /\ Instruction(t).elseLocation = 0
  BY TokenParts DEF ReadBlockOrIf, Openers
<1>3. ~b.isFake /\ b.begin = Len(instructions) /\ b.arity = Len(t.type.returns)
  OBVIOUS
<1>4. Open(Instruction(t), b)
  BY DEF ReadBlockOrIf
<1> HIDE DEF b
<1> QED BY <1>1, <1>2, <1>3, <1>4, OpenParsed

LEMMA ReadLoopParsed ==
  ASSUME Parsing, NEW t \in Tokens, ReadLoop(t)
  PROVE  Parsed
<1> DEFINE b == [begin |-> 0, arity |-> 0, isFake |-> TRUE]
           l == [continuation |-> Len(instructions), arity |-> Len(t.type.params),
                 stackHeight |-> 0]
           i == [Instruction(t) EXCEPT !.label = l]
<1>1. b \in BlockBegins /\ b.isFake /\ b.begin = 0
  BY DEF BlockBegins
<1>2. l \in Labels /\ LeadsTo(l, Len(instructions), Len(t.type.params))
  BY LenProperties, SignatureLengths DEF Parsing, CodeInv, Tokens, Labels, LeadsTo
<1>3. Open(i, b)
  BY DEF ReadLoop
<1> HIDE DEF b, l
<1>4. /\ i \in InstructionType /\ i.op = "loop" /\ i.op \in Openers
      /\ i.elseLocation = 0 /\ i.label = l /\ i.type = t.type
  <2>1. /\ Instruction(t) \in InstructionType /\ Instruction(t).op = "loop"
        /\ Instruction(t).elseLocation = 0 /\ Instruction(t).type = t.type
    BY TokenParts DEF ReadLoop
  <2> QED BY <1>2, <2>1 DEF InstructionType, Openers
<1> HIDE DEF i
<1> QED BY <1>1, <1>2, <1>3, <1>4, OpenParsed

LEMMA ReadElseParsed ==
  ASSUME Parsing, NEW t \in Tokens, ReadElse(t)
  PROVE  Parsed
<1>1. CASE phase' = "rejected"
  BY <1>1 DEF Parsed
<1> DEFINE b == Last(blockBeginStack).begin
           code == [instructions EXCEPT ![b + 1].elseLocation = Len(instructions)]
<1>2. CASE phase' # "rejected"
  <2>1. /\ blockBeginStack # <<>> /\ At(instructions, b).op = "if"
        /\ instructions' = Append(code, Instruction(t)) /\ UNCHANGED <<phase, blockBeginStack>>
    BY <1>2 DEF ReadElse
  <2>2. instructions \in Seq(InstructionType)
    BY DEF Parsing, CodeInv
  <2>3. PICK l \in Places(instructions) :
          /\ InnermostAt(instructions, l, Len(instructions)) /\ l + 1 \in 1..Len(instructions)
          /\ IF instructions[l + 1].op = "loop" THEN b = 0 ELSE b = l
    BY <2>1, ParsingCounts, LastBegin DEF Parsing, ParsedInv
  <2>4. Len(instructions) \in Nat /\ b \in Places(instructions) /\ b + 1 \in 1..Len(instructions)
    BY <2>2, <2>3, LenProperties DEF Places
  <2>5. instructions \in [1..Len(instructions) -> InstructionType]
    BY <2>2, LenProperties
  <2>6. /\ code \in [1..Len(instructions) -> InstructionType]
        /\ \A j \in 1..Len(instructions) :
             /\ code[j].op = instructions[j].op /\ code[j].type = instructions[j].type
             /\ code[j].label = instructions[j].label
             /\ code[j].elseLocation = IF j = b + 1 THEN Len(instructions)
                                                    ELSE instructions[j].elseLocation
    BY <2>4, <2>5 DEF InstructionType
  <2> HIDE DEF code
  <2>7. code \in Seq(InstructionType) /\ Len(code) = Len(instructions)
    BY <2>4, <2>6, FunctionIsSeq
  <2>8. /\ Instruction(t) \in InstructionType /\ Instruction(t).op = "else"
        /\ Instruction(t).elseLocation = 0
    BY TokenParts DEF ReadElse
  <2>9. /\ Extends(code, instructions')
        /\ instructions'[Len(instructions) + 1] = Instruction(t)
        /\ \A j \in 1..Len(instructions) : instructions'[j] = code[j]
    BY <2>1, <2>7, <2>8, AppendExtends
  <2>10. Extends(instructions, instructions')
    BY <2>6, <2>7, <2>9 DEF Extends
  <2>11. ElseRead(instructions, instructions', l, b)
    BY <2>1, <2>3, <2>4, <2>6, <2>8, <2>9, <2>10 DEF ElseRead, At
  <2>12. BeginInv(instructions', blockBeginStack)
    BY <2>8, <2>9, <2>10, BeginsKept DEF Parsing, ParsedInv, Openers
  <2> QED BY <2>1, <2>11, <2>12, ElsesAfterElse, LabelsAfterElse DEF Parsed, Parsing, ParsedInv
<1> QED BY <1>1, <1>2

\* Nothing is open when the end of the function is read.
LEMMA ReadLastParsed ==
  ASSUME Parsing, NEW t \in Tokens, ReadEnd(t), blockBeginStack = <<>>
  PROVE  Parsed
<1> DEFINE i == Instruction(t)
<1>1. i \in InstructionType /\ i.op = "end" /\ i.elseLocation = 0
  BY TokenParts DEF ReadEnd
<1>2. /\ instructions \in Seq(InstructionType) /\ instructions' = Append(instructions, i)
      /\ phase' = "parsed"
  BY DEF Parsing, CodeInv, ReadEnd
<1> HIDE DEF i
<1>3. /\ Extends(instructions, instructions') /\ instructions'[Len(instructions) + 1] = i
      /\ \A j \in 1..Len(instructions) : instructions'[j] = instructions[j]
  BY <1>1, <1>2, AppendExtends
<1>4. /\ Len(instructions) \in Nat /\ Nesting(instructions, Len(instructions)) = 0
      /\ \A p \in 0..Len(instructions) : Nesting(instructions, p) >= 0
  BY ParsingCounts, EmptySeq DEF Counted
<1>5. ASSUME NEW k PROVE ~EndsAt(instructions', k, Len(instructions))
  <2>1. Len(instructions) \in 0..Len(instructions)
    BY <1>4
  <2>2. EndsAt(instructions', k, Len(instructions)) =>
          InnermostAt(instructions, k, Len(instructions))
    BY <1>1, <1>3, <1>4, <2>1, ExtendsSame, EndClosesInnermost
  <2>3. ~InnermostAt(instructions, k, Len(instructions))
    BY <1>4, ParsingCounts, OpenLevels DEF InnermostAt
  <2> QED BY <2>2, <2>3
<1>6. ElseInv(instructions')
  BY <1>1, <1>3, ElsesKept DEF Parsing, ParsedInv
<1>7. LabelInv(instructions', 0)
  BY <1>1, <1>3, <1>5, LoopLabelsKept, BlockLabelsKept, ElseLabelsKept
     DEF Parsing, ParsedInv, LabelInv
<1> QED BY <1>2, <1>6, <1>7 DEF Parsed

LEMMA ReadEndParsed ==
  ASSUME Parsing, NEW t \in Tokens, ReadEnd(t), blockBeginStack # <<>>
  PROVE  Parsed
<1> DEFINE i == Instruction(t)
           code == Append(instructions, i)
           begin == Last(blockBeginStack)
           label == [continuation |-> Len(code), arity |-> begin.arity, stackHeight |-> 0]
<1>1. i \in InstructionType /\ i.op = "end" /\ i.elseLocation = 0
  BY TokenParts DEF ReadEnd
<1>2. /\ instructions \in Seq(InstructionType) /\ UNCHANGED phase
      /\ blockBeginStack' = Front(blockBeginStack)
      /\ instructions' = IF begin.isFake THEN code ELSE Resolve(code, begin.begin, label)
  BY DEF Parsing, CodeInv, ReadEnd
<1>3. LeadsTo(label, Len(code), begin.arity) /\ label \in Labels
  <2>1. begin \in BlockBegins
    BY FrontAndLast DEF Parsing, CodeInv
  <2>2. Len(code) \in Nat
    BY <1>1, <1>2, AppendProperties, LenProperties
  <2> QED BY <2>1, <2>2 DEF LeadsTo, BlockBegins, Labels
<1>4. PICK k \in Places(instructions) :
        /\ InnermostAt(instructions, k, Len(instructions)) /\ k + 1 \in 1..Len(instructions)
        /\ IF instructions[k + 1].op = "loop" THEN begin.isFake /\ begin.begin = 0
           ELSE /\ ~begin.isFake /\ begin.begin = k
                /\ begin.arity = Len(instructions[k + 1].type.returns)
  BY ParsingCounts, LastBegin DEF Parsing, ParsedInv
<1> HIDE DEF i
<1>5. /\ Extends(instructions, code) /\ code[Len(instructions) + 1] = i
      /\ code \in Seq(InstructionType)
      /\ \A j \in 1..Len(instructions) : code[j] = instructions[j]
  BY <1>1, <1>2, AppendExtends, AppendProperties
<1> HIDE DEF code, label
<1>6. /\ Len(code) = Len(instructions) + 1 /\ Len(instructions) \in Nat
      /\ DOMAIN code = 1..Len(code)
      /\ \A j \in 1..Len(code) : code[j] \in InstructionType
  BY <1>5, LenProperties, ElementOfSeq DEF Extends
<1>7. EndRead(instructions, instructions', k)
  <2>1. CASE instructions[k + 1].op = "loop"
    <3>1. instructions' = code
      BY <1>2, <1>4, <2>1
    <3> QED BY <1>1, <1>4, <1>5, <2>1, <3>1 DEF EndRead
  <2>2. CASE instructions[k + 1].op # "loop"
    <3> DEFINE else == instructions[k + 1].elseLocation
               isPart(j) == j = k + 1 \/ (else # 0 /\ j = else + 1)
    <3>1. instructions' = Resolve(code, k, label) /\ begin.arity = Len(instructions[k + 1].type.returns)
      BY <1>2, <1>4, <2>2
    <3>2. At(code, k) = instructions[k + 1]
      BY <1>4, <1>5 DEF At
    <3>3. ASSUME NEW j \in 1..Len(code)
          PROVE  /\ instructions'[j].op = code[j].op /\ instructions'[j].type = code[j].type
                 /\ instructions'[j].elseLocation = code[j].elseLocation
                 /\ instructions'[j].label = IF isPart(j) THEN label ELSE code[j].label
      <4>1. instructions'[j] = IF isPart(j) THEN [code[j] EXCEPT !.label = label] ELSE code[j]
        BY <1>6, <3>1, <3>2 DEF Resolve
      <4>2. code[j] \in InstructionType
        BY <1>6
      <4> QED BY <4>1, <4>2 DEF InstructionType
    <3>4. DOMAIN instructions' = 1..Len(code) /\ Len(instructions') = Len(code)
      <4>1. instructions' \in Seq(InstructionType) /\ Len(instructions') = Len(code)
        BY <1>3, <1>5, <3>1, ResolveKeepsOpcodes
      <4> QED BY <4>1, LenProperties
    <3>5. Extends(instructions, instructions')
      BY <1>5, <1>6, <3>3, <3>4 DEF Extends
    <3> HIDE DEF else
    <3>6. \A j \in 1..Len(instructions) :
            /\ instructions'[j].elseLocation = instructions[j].elseLocation
            /\ instructions'[j].label = IF isPart(j) THEN label ELSE instructions[j].label
      BY <1>5, <1>6, <3>3
    <3>7. LeadsTo(label, Len(instructions) + 1, Len(instructions[k + 1].type.returns))
      BY <1>3, <1>6, <3>1
    <3>8. /\ instructions'[Len(instructions) + 1].op = "end"
          /\ instructions'[Len(instructions) + 1].elseLocation = 0
      BY <1>1, <1>5, <1>6, <3>3
    <3> QED BY <1>4, <2>2, <3>5, <3>6, <3>7, <3>8 DEF EndRead, else
  <2> QED BY <2>1, <2>2
<1>8. LabelInv(instructions', 0)
  BY <1>7, LabelsAfterEnd DEF Parsing, ParsedInv
<1>9. ElseInv(instructions')
  BY <1>7, ElsesKept DEF EndRead, Parsing, ParsedInv
<1>10. BeginInv(instructions', blockBeginStack')
  BY <1>2, <1>7, ParsingCounts, BeginsPopped DEF EndRead, Parsing, ParsedInv
<1> QED BY <1>2, <1>8, <1>9, <1>10 DEF Parsed

LEMMA ParserParses ==
  ASSUME Parsing, ParserNext
  PROVE  Parsed
<1>1. ASSUME NEW t \in Alphabet,
             \/ ReadBlockOrIf(t)
             \/ ReadLoop(t)
             \/ ReadElse(t)
             \/ ReadEnd(t)
             \/ ReadOther(t)
      PROVE  Parsed
  <2>1. t \in Tokens
    BY ParserAssumption
  <2> QED BY <1>1, <2>1, ReadBlockOrIfParsed, ReadLoopParsed, ReadElseParsed, ReadLastParsed,
             ReadEndParsed, ReadOtherParsed
<1>2. CASE EndOfStream
  BY <1>2 DEF EndOfStream, Parsed
<1> QED BY <1>1, <1>2 DEF ParserNext, ReadInstruction

-----------------------------------------------------------------------------
(* What the validator adds: where the branches lead.                       *)

\* The label leads out of the block opened at k, or of the function, as a
\* branch to it does.
LeadsOutOf(label, code, k) ==
  IF k = -1 THEN LeadsTo(label, Len(code), Len(FunctionType.returns))
  ELSE IF code[k + 1].op = "loop" THEN LeadsTo(label, k, Len(code[k + 1].type.params))
  ELSE \E q \in Places(code) :
         EndsAt(code, k, q) /\ LeadsTo(label, q + 1, Len(code[k + 1].type.returns))

\* The label indices with which an instruction branches, and its labels; they
\* belong together but for an index that wraps.
DepthsOf(i) ==
  CASE i.op \in {"br", "br_if"} -> <<i.idx>>
    [] i.op = "br_table" -> i.depths
    [] OTHER -> <<>>

LabelsOf(i) == IF i.op = "br_table" THEN i.targets ELSE <<i.label>>

\* Index d at instruction i is that of the block opened at k.
Names(code, i, d, k) ==
  \/ k = -1 /\ d = Nesting(code, i)
  \/ OpenAt(code, k, i) /\ Nesting(code, k) = Nesting(code, i) - 1 - d

BranchesAt(code, i) ==
  /\ code[i + 1].op = "br_table" => DOMAIN code[i + 1].targets = DOMAIN code[i + 1].depths
  /\ \A n \in DOMAIN DepthsOf(code[i + 1]) : ~Wraps(DepthsOf(code[i + 1])[n]) =>
       \E k \in {-1} \cup Places(code) :
         /\ Names(code, i, DepthsOf(code[i + 1])[n], k)
         /\ LeadsOutOf(LabelsOf(code[i + 1])[n], code, k)

BranchInv(code, p) == \A i \in 0..(p - 1) : BranchesAt(code, i)

\* Every else is the first of an if.
ElseOfIf(code, e) ==
  \E k \in Places(code) :
    /\ code[k + 1].op = "if" /\ InnermostAt(code, k, e)
    /\ \A d \in 0..(e - 1) : ~ElseIn(code, k, d)

ElsesInv(code, p) == \A e \in 0..(p - 1) : code[e + 1].op = "else" => ElseOfIf(code, e)

HasElseBefore(code, k, p) == \E e \in Places(code) : e < p /\ ElseIn(code, k, e)

\* The label that the validator keeps for the block opened at k.
IsLabelFor(l, code, k, p) ==
  /\ l.type = IF HasElseBefore(code, k, p) THEN "ifAfterElse" ELSE code[k + 1].op
  /\ l.paramTypes = code[k + 1].type.params /\ l.returnTypes = code[k + 1].type.returns
  /\ LeadsOutOf(l.label, code, k)

LabelsInv(code, p, ls) ==
  /\ ls # <<>> => ls[1].type = "entry" /\ LeadsOutOf(ls[1].label, code, -1)
  /\ \A k \in Places(code) :
       OpenAt(code, k, p) => IsLabelFor(ls[Nesting(code, k) + 2], code, k, p)

\* The last instruction is the end of the function.
Balanced(code) ==
  /\ \A p \in Places(code) : Nesting(code, p) >= 0
  /\ Nesting(code, Len(code)) = -1

Structured(code, p) ==
  /\ ElseInv(code) /\ LabelInv(code, p)
  /\ BranchInv(code, p) /\ ElsesInv(code, p)

SInv ==
  /\ phase = "parse" => BeginInv(instructions, blockBeginStack)
  /\ phase # "rejected" => Structured(instructions, position)
  /\ phase = "validate" => LabelsInv(instructions, position, labels)
  /\ phase \notin {"parse", "rejected"} => Balanced(instructions)

-----------------------------------------------------------------------------
(* One step of the validator.                                              *)

\* The labels of one instruction are written, and not those of an if or else.
Relabels(code, other, p) ==
  /\ Len(code) \in Nat /\ Len(other) = Len(code)
  /\ \A j \in 1..Len(code) :
       /\ other[j].op = code[j].op /\ other[j].type = code[j].type
       /\ other[j].idx = code[j].idx /\ other[j].depths = code[j].depths
       /\ other[j].elseLocation = code[j].elseLocation
       /\ j # p + 1 \/ code[j].op \in {"if", "else"} =>
            other[j].label = code[j].label /\ other[j].targets = code[j].targets

LEMMA RelabelsSame ==
  ASSUME NEW code, NEW other, NEW p, Relabels(code, other, p)
  PROVE  /\ Places(other) = Places(code) /\ Places(code) \subseteq Nat
         /\ \A k \in Places(code) : k + 1 \in 1..Len(code)
         /\ \A q \in 0..Len(code) : Nesting(other, q) = Nesting(code, q)
         /\ \A q \in 0..Len(code) : \A k :
              /\ OpenAt(other, k, q) <=> OpenAt(code, k, q)
              /\ InnermostAt(other, k, q) <=> InnermostAt(code, k, q)
         /\ \A q \in Places(code) : \A k :
              /\ EndsAt(other, k, q) <=> EndsAt(code, k, q)
              /\ ElseIn(other, k, q) <=> ElseIn(code, k, q)
<1>1. Places(other) = Places(code) /\ Places(code) \subseteq Nat
  BY DEF Relabels, Places
<1>2. ASSUME NEW q \in 0..Len(code)
      PROVE  /\ Nesting(other, q) = Nesting(code, q)
             /\ \A k : /\ OpenAt(other, k, q) <=> OpenAt(code, k, q)
                       /\ InnermostAt(other, k, q) <=> InnermostAt(code, k, q)
  <2>1. q \in Nat /\ \A j \in 1..q : code[j].op = other[j].op
    BY DEF Relabels
  <2> QED BY <2>1, NestingSame, OpenSame
<1>3. ASSUME NEW q \in Places(code), NEW k
      PROVE  /\ EndsAt(other, k, q) <=> EndsAt(code, k, q)
             /\ ElseIn(other, k, q) <=> ElseIn(code, k, q)
  <2>1. q \in Nat /\ q + 1 \in 1..Len(code) /\ \A j \in 1..(q + 1) : code[j].op = other[j].op
    BY DEF Relabels, Places
  <2>2. EndsAt(other, k, q) <=> EndsAt(code, k, q)
    BY <2>1, EndSame
  <2>3. InnermostAt(other, k, q) <=> InnermostAt(code, k, q)
    BY <2>1, OpenSame
  <2> QED BY <2>1, <2>2, <2>3 DEF ElseIn
<1>4. \A k \in Places(code) : k + 1 \in 1..Len(code)
  BY DEF Places, Relabels
<1> QED BY <1>1, <1>2, <1>3, <1>4

LEMMA RelabelsLeads ==
  ASSUME NEW code, NEW other, NEW p, Relabels(code, other, p), NEW l,
         NEW k \in {-1} \cup Places(code)
  PROVE  LeadsOutOf(l, other, k) <=> LeadsOutOf(l, code, k)
<1>1. CASE k = -1
  BY <1>1 DEF LeadsOutOf, Relabels
<1>2. CASE k \in Places(code)
  <2>1. /\ k # -1 /\ k + 1 \in 1..Len(code) /\ Places(other) = Places(code)
        /\ \A q \in Places(code) : EndsAt(other, k, q) <=> EndsAt(code, k, q)
    BY <1>2, RelabelsSame
  <2>2. other[k + 1].op = code[k + 1].op /\ other[k + 1].type = code[k + 1].type
    BY <2>1 DEF Relabels
  <2> QED BY <2>1, <2>2 DEF LeadsOutOf
<1> QED BY <1>1, <1>2

LEMMA RelabelsLabelInv ==
  ASSUME NEW code, NEW other, NEW p \in Nat, Relabels(code, other, p),
         ElseInv(code), LabelInv(code, p)
  PROVE  ElseInv(other) /\ LabelInv(other, p + 1)
<1>1. /\ Places(other) = Places(code) /\ Places(code) \subseteq Nat /\ Len(other) = Len(code)
      /\ Len(code) \in Nat /\ LoopLabels(code, p) /\ BlockLabels(code, p) /\ ElseLabels(code)
      /\ \A k \in Places(code) : /\ k + 1 \in 1..Len(code)
                                 /\ other[k + 1].op = code[k + 1].op
                                 /\ other[k + 1].type = code[k + 1].type
                                 /\ other[k + 1].elseLocation = code[k + 1].elseLocation
      /\ \A q \in Places(code) : \A k :
           /\ EndsAt(other, k, q) <=> EndsAt(code, k, q)
           /\ ElseIn(other, k, q) <=> ElseIn(code, k, q)
  <2>1. \A k \in Places(code) : k + 1 \in 1..Len(code)
    BY RelabelsSame
  <2>2. \A k \in Places(code) : /\ other[k + 1].op = code[k + 1].op
                                 /\ other[k + 1].type = code[k + 1].type
                                 /\ other[k + 1].elseLocation = code[k + 1].elseLocation
    BY <2>1 DEF Relabels
  <2>3. /\ Places(other) = Places(code) /\ Places(code) \subseteq Nat
        /\ \A q \in Places(code) : \A k :
             /\ EndsAt(other, k, q) <=> EndsAt(code, k, q)
             /\ ElseIn(other, k, q) <=> ElseIn(code, k, q)
    BY RelabelsSame
  <2>4. /\ Len(other) = Len(code) /\ Len(code) \in Nat
        /\ LoopLabels(code, p) /\ BlockLabels(code, p) /\ ElseLabels(code)
    BY DEF Relabels, LabelInv
  <2> QED BY <2>1, <2>2, <2>3, <2>4
<1>2. \A k \in Places(code) :
        k # p \/ code[k + 1].op \in {"if", "else"} => other[k + 1].label = code[k + 1].label
  BY <1>1 DEF Relabels
<1>3. ElseInv(other)
  <2> SUFFICES ASSUME NEW k \in Places(code)
               PROVE  LET else == code[k + 1].elseLocation IN
                      /\ \A e \in Places(code) :
                           code[k + 1].op = "if" /\ ElseIn(other, k, e) => else # 0
                      /\ else # 0 =>
                           /\ code[k + 1].op = "if"
                           /\ else \in (k + 1)..(Len(code) - 1)
                           /\ \/ ElseIn(other, k, else)
                              \/ \E l \in Places(code) :
                                   ElseIn(other, l, else) /\ code[l + 1].op = "loop"
    BY <1>1 DEF ElseInv
  <2>1. code[k + 1].elseLocation # 0 => code[k + 1].elseLocation \in Places(code)
    BY <1>1, ElsePlaces
  <2> QED BY <1>1, <2>1 DEF ElseInv
<1>4. LoopLabels(other, p + 1)
  <2> SUFFICES ASSUME NEW k \in Places(code), code[k + 1].op = "loop", k >= p + 1
               PROVE  LeadsTo(other[k + 1].label, k, Len(code[k + 1].type.params))
    BY <1>1 DEF LoopLabels
  <2>1. k # p /\ k >= p
    BY <1>1
  <2> QED BY <1>1, <1>2, <2>1 DEF LoopLabels
<1>5. BlockLabels(other, p + 1)
  <2> SUFFICES ASSUME NEW k \in Places(code), NEW q \in Places(code), EndsAt(code, k, q),
                      (code[k + 1].op = "block" /\ k >= p + 1) \/ code[k + 1].op = "if"
               PROVE  LeadsTo(other[k + 1].label, q + 1, Len(code[k + 1].type.returns))
    BY <1>1 DEF BlockLabels
  <2>1. k >= p + 1 => k # p /\ k >= p
    BY <1>1
  <2> QED BY <1>1, <1>2, <2>1 DEF BlockLabels
<1>6. ElseLabels(other)
  <2> SUFFICES ASSUME NEW k \in Places(code), NEW q \in Places(code), EndsAt(code, k, q),
                      code[k + 1].op = "if", ElseIn(other, k, code[k + 1].elseLocation)
               PROVE  LeadsTo(other[code[k + 1].elseLocation + 1].label, q + 1,
                              Len(code[k + 1].type.returns))
    BY <1>1 DEF ElseLabels
  <2> DEFINE e == code[k + 1].elseLocation
  <2>1. e # 0
    BY OpenBehind DEF ElseIn, InnermostAt
  <2>2. e \in Places(code) /\ ElseIn(code, k, e)
    BY <1>1, <2>1, ElsePlaces
  <2>3. other[e + 1].label = code[e + 1].label
    BY <1>2, <2>2 DEF ElseIn
  <2> QED BY <1>1, <2>2, <2>3 DEF ElseLabels
<1> QED BY <1>3, <1>4, <1>5, <1>6 DEF LabelInv

LEMMA RelabelsBranches ==
  ASSUME NEW code, NEW other, NEW p \in Places(code), Relabels(code, other, p),
         BranchInv(code, p), BranchesAt(other, p)
  PROVE  BranchInv(other, p + 1)
<1>1. p \in Nat /\ Len(code) \in Nat /\ p < Len(code)
  BY RelabelsSame DEF Relabels, Places
<1> SUFFICES ASSUME NEW i \in 0..(p - 1) PROVE BranchesAt(other, i)
  BY <1>1 DEF BranchInv
<1>2. i \in Places(code) /\ i \in 0..Len(code) /\ i + 1 \in 1..Len(code) /\ i + 1 # p + 1
  BY <1>1 DEF Places
<1>3. /\ DepthsOf(other[i + 1]) = DepthsOf(code[i + 1])
      /\ LabelsOf(other[i + 1]) = LabelsOf(code[i + 1])
      /\ other[i + 1].op = code[i + 1].op /\ other[i + 1].depths = code[i + 1].depths
      /\ other[i + 1].targets = code[i + 1].targets
  BY <1>2 DEF Relabels, DepthsOf, LabelsOf
<1>4. ASSUME NEW d, NEW k, Names(code, i, d, k) PROVE Names(other, i, d, k)
  <2>1. OpenAt(code, k, i) => k \in 0..Len(code)
    BY <1>1 DEF OpenAt
  <2> QED BY <1>2, <1>4, <2>1, RelabelsSame DEF Names
<1>5. BranchesAt(code, i)
  BY DEF BranchInv
<1> QED BY <1>3, <1>4, <1>5, RelabelsLeads, RelabelsSame DEF BranchesAt

LEMMA RelabelsElses ==
  ASSUME NEW code, NEW other, NEW p \in Places(code), Relabels(code, other, p),
         ElsesInv(code, p), code[p + 1].op = "else" => ElseOfIf(code, p)
  PROVE  ElsesInv(other, p + 1)
<1>1. p \in Nat /\ Len(code) \in Nat /\ p < Len(code)
  BY RelabelsSame DEF Relabels, Places
<1> SUFFICES ASSUME NEW e \in 0..p, other[e + 1].op = "else" PROVE ElseOfIf(other, e)
  BY <1>1 DEF ElsesInv
<1>2. e \in Places(code) /\ e \in 0..Len(code) /\ 0..(e - 1) \subseteq Places(code)
  BY <1>1 DEF Places
<1>3. other[e + 1].op = code[e + 1].op
  BY <1>2, RelabelsSame DEF Relabels
<1>4. ElseOfIf(code, e)
  BY <1>1, <1>3 DEF ElsesInv
<1>5. \A k \in Places(code) : other[k + 1].op = code[k + 1].op
  BY RelabelsSame DEF Relabels
<1> QED BY <1>2, <1>4, <1>5, RelabelsSame DEF ElseOfIf

\* The labels before instruction p is validated.
LabelsBefore(code, p, ls) ==
  /\ p \in Places(code) /\ Len(code) \in Nat /\ Balanced(code)
  /\ ls \in Seq(ValidatorLabels) /\ Len(ls) = Nesting(code, p) + 1
  /\ LabelsInv(code, p, ls)

LEMMA LabelsBeforeTypes ==
  ASSUME NEW code, NEW p, NEW ls, LabelsBefore(code, p, ls)
  PROVE  /\ p \in Nat /\ p \in 0..Len(code) /\ p < Len(code) /\ p + 1 \in 1..Len(code)
         /\ Nesting(code, p) \in Nat /\ Len(ls) \in Nat \ {0} /\ ls # <<>>
<1>1. p \in Nat /\ p \in 0..Len(code) /\ p < Len(code) /\ p + 1 \in 1..Len(code)
  BY DEF LabelsBefore, Places
<1>2. Nesting(code, p) \in Int /\ Nesting(code, p) >= 0
  BY <1>1, NestingFinite DEF LabelsBefore, Balanced
<1> QED BY <1>1, <1>2, EmptySeq DEF LabelsBefore

\* The label of a block is in range; the last one is that of the innermost.
LEMMA OpenLabel ==
  ASSUME NEW code, NEW p, NEW ls, LabelsBefore(code, p, ls), NEW k, OpenAt(code, k, p)
  PROVE  /\ k \in Places(code) /\ k + 1 \in 1..Len(code) /\ k \in 0..Len(code)
         /\ Nesting(code, k) \in Nat /\ Nesting(code, k) < Nesting(code, p)
         /\ Nesting(code, k) + 2 \in 2..Len(ls)
         /\ Nesting(code, k) + 2 = Len(ls) <=> InnermostAt(code, k, p)
         /\ IsLabelFor(ls[Nesting(code, k) + 2], code, k, p)
<1>1. p \in Nat /\ p \in 0..Len(code) /\ Len(code) \in Nat /\ Nesting(code, p) \in Nat
  BY LabelsBeforeTypes DEF LabelsBefore
<1>2. k \in Places(code) /\ k + 1 \in 1..Len(code) /\ k \in 0..Len(code) /\ k \in Nat /\ k < p
  BY <1>1, OpenPlaces
<1>3. Nesting(code, k) \in Nat /\ Nesting(code, p) > Nesting(code, k)
  <2>1. Nesting(code, k) \in Int /\ Nesting(code, k) >= 0
    BY <1>2, NestingFinite DEF LabelsBefore, Balanced
  <2>2. Nesting(code, p) > Nesting(code, k)
    BY <1>1, <1>2 DEF OpenAt
  <2> QED BY <2>1, <2>2
<1>4. Len(ls) = Nesting(code, p) + 1
  BY DEF LabelsBefore
<1>5. IsLabelFor(ls[Nesting(code, k) + 2], code, k, p)
  BY <1>2 DEF LabelsBefore, LabelsInv
<1>6. Nesting(code, k) + 2 = Len(ls) <=> InnermostAt(code, k, p)
  BY <1>1, <1>3, <1>4 DEF InnermostAt
<1> QED BY <1>1, <1>2, <1>3, <1>4, <1>5, <1>6

LEMMA ElseBefore ==
  ASSUME NEW code, NEW other, NEW p \in Places(code), Relabels(code, other, p), NEW k
  PROVE  HasElseBefore(other, k, p + 1) <=> HasElseBefore(code, k, p) \/ ElseIn(code, k, p)
<1>1. p \in Nat /\ Places(code) \subseteq Nat /\ Places(other) = Places(code)
  BY RelabelsSame
<1>2. \A e \in Places(code) : ElseIn(other, k, e) <=> ElseIn(code, k, e)
  BY RelabelsSame
<1>3. \A e \in Places(code) : e < p + 1 <=> e < p \/ e = p
  BY <1>1
<1> QED BY <1>1, <1>2, <1>3 DEF HasElseBefore

\* Labels that differ in their unreachable flag only.
SameLabel(l, m) ==
  /\ l.type = m.type /\ l.label = m.label
  /\ l.paramTypes = m.paramTypes /\ l.returnTypes = m.returnTypes

LEMMA IsStillLabelFor ==
  ASSUME NEW code, NEW other, NEW p \in Places(code), Relabels(code, other, p),
         NEW k \in Places(code), NEW l, NEW m, SameLabel(m, l), IsLabelFor(l, code, k, p),
         ~ElseIn(code, k, p)
  PROVE  IsLabelFor(m, other, k, p + 1)
<1>1. k + 1 \in 1..Len(code)
  BY RelabelsSame
<1>2. other[k + 1].op = code[k + 1].op /\ other[k + 1].type = code[k + 1].type
  BY <1>1 DEF Relabels
<1>3. HasElseBefore(other, k, p + 1) <=> HasElseBefore(code, k, p)
  BY ElseBefore
<1>4. LeadsOutOf(m.label, other, k)
  BY RelabelsLeads DEF SameLabel, IsLabelFor
<1> QED BY <1>2, <1>3, <1>4 DEF SameLabel, IsLabelFor

LEMMA EntryStays ==
  ASSUME NEW code, NEW other, NEW p, Relabels(code, other, p), NEW ls, LabelsBefore(code, p, ls),
         NEW l, SameLabel(l, ls[1])
  PROVE  l.type = "entry" /\ LeadsOutOf(l.label, other, -1)
BY LabelsBeforeTypes, RelabelsLeads DEF LabelsBefore, LabelsInv, SameLabel

\* What is open behind an instruction, in the code with the new labels.
LEMMA RelabelsOpen ==
  ASSUME NEW code, NEW other, NEW p, Relabels(code, other, p), NEW ls, LabelsBefore(code, p, ls),
         NEW k, OpenAt(other, k, p + 1)
  PROVE  /\ Nesting(other, k) = Nesting(code, k)
         /\ \/ k = p /\ code[p + 1].op \in Openers
            \/ OpenAt(code, k, p) /\ Nesting(code, p + 1) > Nesting(code, k)
<1>1. p \in Nat /\ p < Len(code) /\ Len(code) \in Nat /\ p + 1 \in 0..Len(code)
  BY LabelsBeforeTypes DEF LabelsBefore
<1>2. OpenAt(code, k, p + 1)
  BY <1>1, RelabelsSame
<1>3. k \in 0..Len(code)
  BY <1>1, <1>2, OpenPlaces
<1> QED BY <1>1, <1>2, <1>3, OpenStep, RelabelsSame

LEMMA LabelsStay ==
  ASSUME NEW code, NEW other, NEW p, Relabels(code, other, p), NEW ls, LabelsBefore(code, p, ls),
         code[p + 1].op \notin Openers \cup {"else"},
         NEW ms, \A j \in 1..Len(ls) : SameLabel(ms[j], ls[j])
  PROVE  LabelsInv(other, p + 1, ms)
<1>1. p \in Places(code) /\ Len(ls) \in Nat \ {0}
  BY LabelsBeforeTypes DEF LabelsBefore
<1>2. ms[1].type = "entry" /\ LeadsOutOf(ms[1].label, other, -1)
  BY <1>1, EntryStays
<1>3. ASSUME NEW k \in Places(other), OpenAt(other, k, p + 1)
      PROVE  IsLabelFor(ms[Nesting(other, k) + 2], other, k, p + 1)
  <2>1. OpenAt(code, k, p) /\ Nesting(other, k) = Nesting(code, k)
    BY <1>3, RelabelsOpen
  <2>2. /\ k \in Places(code) /\ Nesting(code, k) + 2 \in 1..Len(ls)
        /\ IsLabelFor(ls[Nesting(code, k) + 2], code, k, p)
    BY <2>1, OpenLabel
  <2>3. ~ElseIn(code, k, p)
    BY DEF ElseIn
  <2> QED BY <1>1, <2>1, <2>2, <2>3, IsStillLabelFor
<1> QED BY <1>2, <1>3 DEF LabelsInv

LEMMA LabelsPushed ==
  ASSUME NEW code, NEW other, NEW p, Relabels(code, other, p), NEW ls, LabelsBefore(code, p, ls),
         code[p + 1].op \in Openers, NEW l, l.type = code[p + 1].op,
         l.paramTypes = code[p + 1].type.params, l.returnTypes = code[p + 1].type.returns,
         LeadsOutOf(l.label, code, p)
  PROVE  LabelsInv(other, p + 1, Append(ls, l))
<1> DEFINE ms == Append(ls, l)
<1>1. p \in Places(code) /\ Len(ls) \in Nat \ {0} /\ Len(ls) = Nesting(code, p) + 1 /\ p \in Nat
      /\ p + 1 \in 1..Len(code) /\ Nesting(code, p) \in Nat
  BY LabelsBeforeTypes DEF LabelsBefore
<1>2. ms[Len(ls) + 1] = l /\ \A j \in 1..Len(ls) : ms[j] = ls[j]
  <2>1. ls \in Seq(ValidatorLabels \cup {l})
    <3>1. ls \in Seq(ValidatorLabels)
      BY DEF LabelsBefore
    <3>2. \A j \in 1..Len(ls) : ls[j] \in ValidatorLabels \cup {l}
      BY <3>1, ElementOfSeq
    <3>3. ls = [j \in 1..Len(ls) |-> ls[j]] /\ Len(ls) \in Nat
      BY <3>1, LenProperties
    <3>4. ls \in [1..Len(ls) -> ValidatorLabels \cup {l}]
      BY <3>2, <3>3
    <3> QED BY <3>3, <3>4, FunctionIsSeq
  <2> QED BY <2>1, AppendProperties
<1> HIDE DEF ms
<1>3. ms[1].type = "entry" /\ LeadsOutOf(ms[1].label, other, -1)
  <2>1. SameLabel(ms[1], ls[1])
    BY <1>1, <1>2 DEF SameLabel
  <2> QED BY <2>1, EntryStays
<1>4. ASSUME NEW k \in Places(other), OpenAt(other, k, p + 1)
      PROVE  IsLabelFor(ms[Nesting(other, k) + 2], other, k, p + 1)
  <2>1. CASE k = p
    <3>1. ms[Nesting(other, k) + 2] = l
      BY <1>1, <1>2, <1>4, <2>1, RelabelsOpen
    <3>2. ~HasElseBefore(other, p, p + 1)
      <4>1. Places(other) \subseteq Nat
        BY RelabelsSame
      <4> QED BY <1>1, <4>1, OpenBehind DEF HasElseBefore, ElseIn, InnermostAt
    <3>3. LeadsOutOf(l.label, other, p)
      BY <1>1, RelabelsLeads
    <3>4. other[p + 1].op = code[p + 1].op /\ other[p + 1].type = code[p + 1].type
      BY <1>1 DEF Relabels
    <3> QED BY <2>1, <3>1, <3>2, <3>3, <3>4 DEF IsLabelFor
  <2>2. CASE k # p
    <3>1. OpenAt(code, k, p) /\ Nesting(other, k) = Nesting(code, k)
      BY <1>4, <2>2, RelabelsOpen
    <3>2. /\ k \in Places(code) /\ Nesting(code, k) + 2 \in 1..Len(ls)
          /\ IsLabelFor(ls[Nesting(code, k) + 2], code, k, p)
      BY <3>1, OpenLabel
    <3>3. ~ElseIn(code, k, p)
      BY DEF ElseIn, Openers
    <3>4. SameLabel(ms[Nesting(other, k) + 2], ls[Nesting(code, k) + 2])
      BY <1>2, <3>1, <3>2 DEF SameLabel
    <3> QED BY <1>1, <3>2, <3>3, <3>4, IsStillLabelFor
  <2> QED BY <2>1, <2>2
<1> QED BY <1>3, <1>4 DEF LabelsInv, ms

LEMMA LabelsPopped ==
  ASSUME NEW code, NEW other, NEW p, Relabels(code, other, p), NEW ls, LabelsBefore(code, p, ls),
         code[p + 1].op = "end"
  PROVE  LabelsInv(other, p + 1, Front(ls))
<1>1. /\ p \in Places(code) /\ p \in Nat /\ Len(ls) = Nesting(code, p) + 1
      /\ Len(ls) \in Nat \ {0} /\ Nesting(code, p) \in Nat /\ ls \in Seq(ValidatorLabels)
      /\ ls # <<>>
  BY LabelsBeforeTypes DEF LabelsBefore
<1>2. /\ \A j \in 1..(Len(ls) - 1) : Front(ls)[j] = ls[j]
      /\ Front(ls) \in Seq(ValidatorLabels) /\ Len(Front(ls)) = Len(ls) - 1
  BY <1>1, FrontAndLast
<1>3. Nesting(code, p + 1) = Nesting(code, p) - 1
  BY <1>1, NestingInt DEF Openers
<1>4. ASSUME Front(ls) # <<>>
      PROVE  Front(ls)[1].type = "entry" /\ LeadsOutOf(Front(ls)[1].label, other, -1)
  <2>1. Len(Front(ls)) \in Nat \ {0}
    BY <1>2, <1>4, FrontAndLast
  <2>2. SameLabel(Front(ls)[1], ls[1])
    BY <1>1, <1>2, <2>1 DEF SameLabel
  <2> QED BY <2>2, EntryStays
<1>5. ASSUME NEW k \in Places(other), OpenAt(other, k, p + 1)
      PROVE  IsLabelFor(Front(ls)[Nesting(other, k) + 2], other, k, p + 1)
  <2>1. /\ OpenAt(code, k, p) /\ Nesting(other, k) = Nesting(code, k)
        /\ Nesting(code, p + 1) > Nesting(code, k)
    BY <1>5, RelabelsOpen DEF Openers
  <2>2. /\ k \in Places(code) /\ Nesting(code, k) + 2 \in 1..(Len(ls) - 1)
        /\ IsLabelFor(ls[Nesting(code, k) + 2], code, k, p)
    BY <1>1, <1>3, <2>1, OpenLabel
  <2>3. ~ElseIn(code, k, p)
    BY DEF ElseIn
  <2>4. SameLabel(Front(ls)[Nesting(other, k) + 2], ls[Nesting(code, k) + 2])
    BY <1>2, <2>1, <2>2 DEF SameLabel
  <2> QED BY <1>1, <2>2, <2>3, <2>4, IsStillLabelFor
<1> QED BY <1>4, <1>5 DEF LabelsInv

\* An else turns the innermost label, that of an if, into one that may have no
\* more elses.
LEMMA LabelsAtElse ==
  ASSUME NEW code, NEW other, NEW p, Relabels(code, other, p), NEW ls, LabelsBefore(code, p, ls),
         code[p + 1].op = "else", ls[Len(ls)].type = "if",
         NEW ms, \A j \in 1..(Len(ls) - 1) : ms[j] = ls[j],
         ms[Len(ls)].type = "ifAfterElse", ms[Len(ls)].label = ls[Len(ls)].label,
         ms[Len(ls)].paramTypes = ls[Len(ls)].paramTypes,
         ms[Len(ls)].returnTypes = ls[Len(ls)].returnTypes
  PROVE  LabelsInv(other, p + 1, ms) /\ ElseOfIf(code, p)
<1>1. /\ p \in Places(code) /\ p \in Nat /\ Len(ls) = Nesting(code, p) + 1 /\ ls # <<>>
      /\ Len(ls) \in Nat \ {0} /\ Nesting(code, p) \in Nat /\ LabelsInv(code, p, ls)
  BY LabelsBeforeTypes DEF LabelsBefore
<1>2. Len(ls) # 1
  BY <1>1 DEF LabelsInv
<1>3. PICK k \in 0..(p - 1) : OpenAt(code, k, p) /\ Nesting(code, k) = Nesting(code, p) - 1
  <2>1. Nesting(code, p) - 1 \in Nat /\ Nesting(code, p) - 1 < Nesting(code, p)
    BY <1>1, <1>2
  <2> QED BY <1>1, <2>1, OpenerAtLevel
<1>4. InnermostAt(code, k, p) /\ Nesting(code, k) + 2 = Len(ls)
  BY <1>1, <1>3 DEF InnermostAt
<1>5. k \in Places(code) /\ k + 1 \in 1..Len(code) /\ IsLabelFor(ls[Len(ls)], code, k, p)
  BY <1>3, <1>4, OpenLabel
<1>6. code[k + 1].op = "if" /\ ~HasElseBefore(code, k, p)
  BY <1>5 DEF IsLabelFor
<1>7. ElseOfIf(code, p)
  <2>1. \A d \in 0..(p - 1) : d \in Places(code) /\ d < p
    BY <1>1 DEF Places, LabelsBefore
  <2> QED BY <1>4, <1>5, <1>6, <2>1 DEF ElseOfIf, HasElseBefore
<1>8. ms[1].type = "entry" /\ LeadsOutOf(ms[1].label, other, -1)
  <2>1. SameLabel(ms[1], ls[1])
    BY <1>1, <1>2 DEF SameLabel
  <2> QED BY <2>1, EntryStays
<1>9. ASSUME NEW m \in Places(other), OpenAt(other, m, p + 1)
      PROVE  IsLabelFor(ms[Nesting(other, m) + 2], other, m, p + 1)
  <2>1. OpenAt(code, m, p) /\ Nesting(other, m) = Nesting(code, m)
    BY <1>9, RelabelsOpen DEF Openers
  <2>2. /\ m \in Places(code) /\ Nesting(code, m) + 2 \in 2..Len(ls)
        /\ IsLabelFor(ls[Nesting(code, m) + 2], code, m, p)
        /\ Nesting(code, m) + 2 = Len(ls) <=> InnermostAt(code, m, p)
    BY <2>1, OpenLabel
  <2>3. CASE m = k
    <3>1. ElseIn(code, k, p)
      BY <1>4 DEF ElseIn
    <3>2. HasElseBefore(other, k, p + 1)
      BY <1>1, <3>1, ElseBefore
    <3>3. LeadsOutOf(ms[Len(ls)].label, other, k)
      BY <1>5, RelabelsLeads DEF IsLabelFor
    <3>4. other[k + 1].type = code[k + 1].type
      BY <1>5 DEF Relabels
    <3> QED BY <1>4, <1>5, <2>1, <2>3, <3>2, <3>3, <3>4 DEF IsLabelFor
  <2>4. CASE m # k
    <3>1. ~InnermostAt(code, m, p)
      BY <1>1, <1>4, <2>4, InnermostUnique
    <3>2. Nesting(code, m) + 2 \in 1..(Len(ls) - 1)
      BY <1>1, <2>2, <3>1
    <3>3. SameLabel(ms[Nesting(other, m) + 2], ls[Nesting(code, m) + 2])
      BY <2>1, <3>2 DEF SameLabel
    <3>4. ~ElseIn(code, m, p)
      BY <3>1 DEF ElseIn
    <3> QED BY <1>1, <2>2, <3>3, <3>4, IsStillLabelFor
  <2> QED BY <2>3, <2>4
<1> QED BY <1>7, <1>8, <1>9 DEF LabelsInv

-----------------------------------------------------------------------------
(* The instructions the validator passes.                                  *)

Lowering == Validating /\ SInv

LEMMA LoweringBefore ==
  ASSUME Lowering
  PROVE  /\ LabelsBefore(instructions, position, labels)
         /\ Structured(instructions, position)
         /\ position + 1 \in 1..Len(instructions)
         /\ instructions \in Seq(InstructionType)
         /\ instructions \in [1..Len(instructions) -> InstructionType]
         /\ position \in Places(instructions)
<1>1. /\ position \in 0..(Len(instructions) - 1) /\ Len(instructions) \in Nat
      /\ IInv /\ SInv /\ phase = "validate"
  BY HasInnermost DEF Lowering, Validating
<1>2. labels \in Seq(ValidatorLabels) /\ Len(labels) = Nesting(instructions, position) + 1
  BY <1>1 DEF IInv, ValidatorInv
<1>3. /\ LabelsInv(instructions, position, labels) /\ Balanced(instructions)
      /\ Structured(instructions, position)
  BY <1>1 DEF SInv
<1>4. instructions \in Seq(InstructionType)
  BY <1>1 DEF IInv, CodeInv
<1> QED BY <1>1, <1>2, <1>3, <1>4, LenProperties DEF LabelsBefore, Places

LEMMA RejectStructured ==
  ASSUME phase' = "rejected"
  PROVE  SInv'
BY DEF SInv

LEMMA LoweringStep ==
  ASSUME Lowering, phase' = phase, position' = position + 1,
         Relabels(instructions, instructions', position),
         LabelsInv(instructions', position + 1, labels'),
         BranchesAt(instructions', position),
         Op = "else" => ElseOfIf(instructions, position)
  PROVE  SInv'
<1>1. /\ position \in Places(instructions) /\ Structured(instructions, position)
      /\ phase = "validate" /\ position \in Nat /\ Balanced(instructions)
      /\ Len(instructions) \in Nat
  BY LoweringBefore DEF Lowering, Validating, LabelsBefore
<1>2. Structured(instructions', position + 1)
  <2>1. instructions[position + 1].op = "else" => ElseOfIf(instructions, position)
    BY DEF Op, At
  <2> QED BY <1>1, <2>1, RelabelsLabelInv, RelabelsBranches, RelabelsElses DEF Structured
<1>3. Balanced(instructions')
  <2>1. /\ Places(instructions') = Places(instructions) /\ Len(instructions') = Len(instructions)
        /\ Places(instructions) \subseteq 0..Len(instructions)
        /\ Len(instructions) \in 0..Len(instructions)
    BY <1>1, RelabelsSame DEF Relabels, Places
  <2>2. \A q \in 0..Len(instructions) : Nesting(instructions', q) = Nesting(instructions, q)
    BY RelabelsSame
  <2> QED BY <1>1, <2>1, <2>2 DEF Balanced
<1> QED BY <1>1, <1>2, <1>3 DEF SInv

LEMMA RelabelsNothing ==
  ASSUME Lowering
  PROVE  Relabels(instructions, instructions, position)
BY LenProperties DEF Relabels, Lowering, Validating, IInv, CodeInv

\* Writing the label, or the labels, of the instruction.
LEMMA LoweredOne ==
  ASSUME Lowering, Op \notin {"if", "else"}, NEW l, NEW ls
  PROVE  /\ Relabels(instructions, Lowered(l), position)
         /\ Lowered(l)[position + 1].op = Op
         /\ Lowered(l)[position + 1].label = l
         /\ Lowered(l)[position + 1].idx = instructions[position + 1].idx
         /\ LET code == [instructions EXCEPT ![position + 1].targets = ls] IN
            /\ Relabels(instructions, code, position)
            /\ code[position + 1].op = Op
            /\ code[position + 1].targets = ls
            /\ code[position + 1].depths = instructions[position + 1].depths
<1>1. /\ instructions \in [1..Len(instructions) -> InstructionType] /\ Len(instructions) \in Nat
      /\ position + 1 \in 1..Len(instructions) /\ Op = instructions[position + 1].op
  BY LoweringBefore DEF Op, At, LabelsBefore
<1>2. ASSUME NEW i, i.op = Op, i.type = instructions[position + 1].type,
             i.idx = instructions[position + 1].idx, i.depths = instructions[position + 1].depths,
             i.elseLocation = instructions[position + 1].elseLocation
      PROVE  /\ Relabels(instructions, [instructions EXCEPT ![position + 1] = i], position)
             /\ [instructions EXCEPT ![position + 1] = i][position + 1] = i
  <2> DEFINE code == [instructions EXCEPT ![position + 1] = i]
  <2>1. /\ \A j \in 1..Len(instructions) : code[j] = IF j = position + 1 THEN i ELSE instructions[j]
        /\ code \in [1..Len(instructions) -> InstructionType \cup {i}]
    BY <1>1
  <2> HIDE DEF code
  <2>2. Len(code) = Len(instructions)
    BY <1>1, <2>1, FunctionIsSeq
  <2>3. Relabels(instructions, code, position)
    BY <1>1, <1>2, <2>1, <2>2 DEF Relabels
  <2> QED BY <1>1, <2>1, <2>3 DEF code
<1>3. instructions[position + 1] \in InstructionType
  BY <1>1
<1>4. LET i == [instructions[position + 1] EXCEPT !.label = l] IN
      /\ i.op = Op /\ i.type = instructions[position + 1].type /\ i.label = l
      /\ i.idx = instructions[position + 1].idx /\ i.depths = instructions[position + 1].depths
      /\ i.elseLocation = instructions[position + 1].elseLocation
      /\ Lowered(l) = [instructions EXCEPT ![position + 1] = i]
  BY <1>1, <1>3 DEF InstructionType, Lowered
<1>5. LET i == [instructions[position + 1] EXCEPT !.targets = ls] IN
      /\ i.op = Op /\ i.type = instructions[position + 1].type /\ i.targets = ls
      /\ i.idx = instructions[position + 1].idx /\ i.depths = instructions[position + 1].depths
      /\ i.elseLocation = instructions[position + 1].elseLocation
      /\ [instructions EXCEPT ![position + 1].targets = ls]
           = [instructions EXCEPT ![position + 1] = i]
  BY <1>1, <1>3 DEF InstructionType
<1> QED BY <1>2, <1>4, <1>5

LEMMA SmallRemainder ==
  ASSUME NEW m \in Nat, NEW a \in Nat, a < m
  PROVE  a % m = a
OBVIOUS

\* The label with an index is that of the block the index names, if the check
\* of the index does not wrap.
LEMMA LabelNamed ==
  ASSUME Lowering, NEW d \in Nat, ~Wraps(d), HasLabel(d), NEW stray
  PROVE  \E k \in {-1} \cup Places(instructions) :
           /\ Names(instructions, position, d, k)
           /\ LeadsOutOf(GetLabel(d, stray).label, instructions, k)
<1>1. /\ LabelsBefore(instructions, position, labels)
      /\ position \in Nat /\ Len(labels) = Nesting(instructions, position) + 1
      /\ Nesting(instructions, position) \in Nat /\ labels # <<>>
      /\ LabelsInv(instructions, position, labels)
  BY LoweringBefore, LabelsBeforeTypes DEF LabelsBefore
<1>2. d <= Nesting(instructions, position)
  <2>1. U32 \in Nat /\ d + 1 \in Nat /\ d + 1 < U32
    BY ValidatorAssumption DEF Wraps
  <2>2. (d + 1) % U32 = d + 1
    BY <2>1, SmallRemainder
  <2> QED BY <1>1, <2>2 DEF HasLabel
<1>3. CASE d = Nesting(instructions, position)
  <2>1. GetLabel(d, stray) = labels[1]
    BY <1>1, <1>3 DEF GetLabel
  <2> QED BY <1>1, <1>3, <2>1 DEF LabelsInv, Names
<1>4. CASE d < Nesting(instructions, position)
  <2>1. PICK k \in 0..(position - 1) :
          /\ OpenAt(instructions, k, position)
          /\ Nesting(instructions, k) = Nesting(instructions, position) - 1 - d
    <3>1. /\ Nesting(instructions, position) - 1 - d \in Nat
          /\ Nesting(instructions, position) - 1 - d < Nesting(instructions, position)
      BY <1>1, <1>4
    <3> QED BY <1>1, <3>1, OpenerAtLevel
  <2>2. GetLabel(d, stray) = labels[Nesting(instructions, k) + 2]
    <3>1. d < Len(labels) /\ Len(labels) - d = Nesting(instructions, k) + 2
      BY <1>1, <1>4, <2>1
    <3> QED BY <3>1 DEF GetLabel
  <2>3. k \in Places(instructions) /\ IsLabelFor(labels[Nesting(instructions, k) + 2], instructions, k, position)
    BY <1>1, <2>1, OpenLabel
  <2> QED BY <2>1, <2>2, <2>3 DEF IsLabelFor, Names
<1> QED BY <1>1, <1>2, <1>3, <1>4

LEMMA NamesSame ==
  ASSUME Lowering, NEW code, Relabels(instructions, code, position), NEW d,
         NEW k, Names(instructions, position, d, k)
  PROVE  Names(code, position, d, k)
<1>1. position \in 0..Len(instructions) /\ Len(instructions) \in Nat
  BY LoweringBefore, LabelsBeforeTypes DEF LabelsBefore
<1>2. OpenAt(instructions, k, position) => k \in 0..Len(instructions)
  BY <1>1, OpenPlaces
<1> QED BY <1>1, <1>2, RelabelsSame DEF Names

LEMMA BranchesNowhere ==
  ASSUME Op \notin {"br", "br_if", "br_table"}, instructions'[position + 1].op = Op
  PROVE  BranchesAt(instructions', position)
BY DEF BranchesAt, DepthsOf

\* What an instruction that neither opens nor closes a block does to labels.
Flagged == labels' \in {labels, [labels EXCEPT ![Len(labels)].unreachable = TRUE]}

LEMMA FlaggedLabels ==
  ASSUME Lowering, Flagged
  PROVE  \A j \in 1..Len(labels) : SameLabel(labels'[j], labels[j])
<1>1. /\ labels \in [1..Len(labels) -> ValidatorLabels]
      /\ Len(labels) \in 1..Len(labels)
  BY LoweringBefore, LabelsBeforeTypes, LenProperties DEF LabelsBefore
<1>2. CASE labels' = labels
  BY <1>2 DEF SameLabel
<1>3. CASE labels' = [labels EXCEPT ![Len(labels)].unreachable = TRUE]
  <2> SUFFICES ASSUME NEW j \in 1..Len(labels) PROVE SameLabel(labels'[j], labels[j])
    OBVIOUS
  <2>1. labels[j] \in ValidatorLabels
    BY <1>1
  <2>2. labels'[j] = IF j = Len(labels) THEN [labels[j] EXCEPT !.unreachable = TRUE]
                     ELSE labels[j]
    BY <1>1, <1>3
  <2> QED BY <2>1, <2>2 DEF SameLabel, ValidatorLabels
<1> QED BY <1>2, <1>3 DEF Flagged

LEMMA FlagsOnly ==
  ASSUME Lowering, phase' = phase, position' = position + 1, Flagged,
         Op \notin Openers \cup {"else"},
         Relabels(instructions, instructions', position),
         BranchesAt(instructions', position)
  PROVE  SInv'
<1>1. LabelsInv(instructions', position + 1, labels')
  BY LoweringBefore, FlaggedLabels, LabelsStay DEF Op, At
<1> QED BY <1>1, LoweringStep

\* The instructions that only check operands and immediates.
OperandOps == SimpleOps \cup {"drop", "select", "select_typed", "unreachable", "return",
                              "return_call", "return_call_indirect"}

LEMMA OperandOpsStructured ==
  ASSUME Lowering, phase' = phase, position' = position + 1, Flagged, Op \in OperandOps,
         instructions' = instructions
  PROVE  SInv'
<1>1. Op \notin Openers \cup {"else", "end", "br", "br_if", "br_table"}
  BY DEF OperandOps, Openers, SimpleOps, ConstantOps, VectorOps, VariableOps, LoadStoreOps,
         BulkOps, TableOps, ReferenceOps
<1>2. instructions'[position + 1].op = Op
  BY DEF Op, At
<1> QED BY <1>1, <1>2, RelabelsNothing, BranchesNowhere, FlagsOnly

LEMMA OperandOpsPass ==
  ASSUME Lowering, NEW i, i = At(instructions, position),
         \/ ValidateSimple(i) \/ ValidateDrop(i) \/ ValidateSelect(i) \/ ValidateSelectTyped(i)
         \/ ValidateUnreachable(i) \/ ValidateReturn(i) \/ ValidateReturnCall(i)
  PROVE  SInv'
<1> DEFINE Passed == /\ phase' = phase /\ position' = position + 1 /\ Flagged
                     /\ instructions' = instructions
<1>1. CASE ValidateSimple(i)
  <2>1. (Passed \/ phase' = "rejected") /\ Op \in OperandOps
    BY <1>1 DEF ValidateSimple, ExpectOf, Check, Reject, Flagged, OperandOps, Op
  <2> QED BY <2>1, OperandOpsStructured, RejectStructured
<1>2. CASE ValidateDrop(i) \/ ValidateSelect(i)
  <2>1. (Passed \/ phase' = "rejected") /\ Op \in OperandOps
    BY <1>2 DEF ValidateDrop, ValidateSelect, Check, Reject, Flagged, OperandOps, Op
  <2> QED BY <2>1, OperandOpsStructured, RejectStructured
<1>3. CASE ValidateSelectTyped(i)
  <2>1. (Passed \/ phase' = "rejected") /\ Op \in OperandOps
    BY <1>3 DEF ValidateSelectTyped, ExpectOf, Check, Reject, Flagged, OperandOps, Op
  <2> QED BY <2>1, OperandOpsStructured, RejectStructured
<1>4. CASE ValidateUnreachable(i) \/ ValidateReturn(i) \/ ValidateReturnCall(i)
  <2>1. (Passed \/ phase' = "rejected") /\ Op \in OperandOps
    BY <1>4 DEF ValidateUnreachable, ValidateReturn, ValidateReturnCall, CheckLeaving, Check,
                Reject, Flagged, OperandOps, Op
  <2> QED BY <2>1, OperandOpsStructured, RejectStructured
<1> QED BY <1>1, <1>2, <1>3, <1>4

\* br and br_if take the label of the block that their index names.
LEMMA BrPasses ==
  ASSUME Lowering, NEW i, i = At(instructions, position), NEW stray,
         ValidateBr(i, stray) \/ ValidateBrIf(i, stray)
  PROVE  SInv'
<1> DEFINE l == GetLabel(i.idx, stray).label
<1>1. i.op \in {"br", "br_if"} /\ Op = i.op /\ i \in InstructionType /\ i.idx \in Nat
      /\ i = instructions[position + 1]
  BY HasInnermost DEF ValidateBr, ValidateBrIf, Op, Lowering, InstructionType, At
<1>2. \/ phase' = "rejected"
      \/ /\ phase' = phase /\ position' = position + 1 /\ Flagged
         /\ instructions' = Lowered(l) /\ HasLabel(i.idx)
  BY DEF ValidateBr, ValidateBrIf, CheckLeaving, Check, Reject, Flagged
<1> HIDE DEF l
<1>3. CASE instructions' = Lowered(l) /\ HasLabel(i.idx)
  <2>1. /\ Relabels(instructions, instructions', position)
        /\ instructions'[position + 1].op = Op /\ instructions'[position + 1].label = l
        /\ instructions'[position + 1].idx = i.idx
    BY <1>1, <1>3, LoweredOne
  <2>2. ASSUME ~Wraps(i.idx)
        PROVE  \E k \in {-1} \cup Places(instructions') :
                 Names(instructions', position, i.idx, k) /\ LeadsOutOf(l, instructions', k)
    <3>1. PICK k \in {-1} \cup Places(instructions) :
            Names(instructions, position, i.idx, k) /\ LeadsOutOf(l, instructions, k)
      BY <1>1, <1>3, <2>2, LabelNamed DEF l
    <3>2. Names(instructions', position, i.idx, k) /\ LeadsOutOf(l, instructions', k)
      BY <2>1, <3>1, NamesSame, RelabelsLeads
    <3>3. k \in {-1} \cup Places(instructions')
      BY <2>1, <3>1, RelabelsSame
    <3> QED BY <3>2, <3>3
  <2>3. /\ DepthsOf(instructions'[position + 1]) = <<i.idx>>
        /\ LabelsOf(instructions'[position + 1]) = <<l>>
    BY <1>1, <2>1 DEF DepthsOf, LabelsOf
  <2>4. BranchesAt(instructions', position)
    <3>1. instructions'[position + 1].op # "br_table"
      BY <1>1, <2>1
    <3> QED BY <2>2, <2>3, <3>1 DEF BranchesAt
  <2> QED BY <1>1, <1>2, <2>1, <2>4, FlagsOnly, RejectStructured DEF Openers
<1> QED BY <1>2, <1>3, RejectStructured

\* br_table does so for each of its indices.
LEMMA BrTablePasses ==
  ASSUME Lowering, NEW i, i = At(instructions, position), NEW stray,
         ValidateBrTable(i, stray)
  PROVE  SInv'
<1> DEFINE ls == [k \in DOMAIN i.depths |-> GetLabel(i.depths[k], stray).label]
<1>1. i.op = "br_table" /\ Op = i.op /\ i \in InstructionType /\ i = instructions[position + 1]
  BY HasInnermost DEF ValidateBrTable, Op, Lowering, At
<1>2. \/ phase' = "rejected"
      \/ /\ phase' = phase /\ position' = position + 1 /\ Flagged
         /\ instructions' = [instructions EXCEPT ![position + 1].targets = ls]
         /\ \A n \in DOMAIN i.depths : HasLabel(i.depths[n])
  BY DEF ValidateBrTable, CheckLeaving, Check, Reject, Flagged
<1>3. CASE /\ instructions' = [instructions EXCEPT ![position + 1].targets = ls]
           /\ \A n \in DOMAIN i.depths : HasLabel(i.depths[n])
  <2>1. /\ Relabels(instructions, instructions', position)
        /\ instructions'[position + 1].op = Op /\ instructions'[position + 1].targets = ls
        /\ instructions'[position + 1].depths = i.depths
    <3> HIDE DEF ls
    <3> QED BY <1>1, <1>3, LoweredOne
  <2>2. /\ DepthsOf(instructions'[position + 1]) = i.depths
        /\ LabelsOf(instructions'[position + 1]) = ls
    BY <1>1, <2>1 DEF DepthsOf, LabelsOf
  <2>3. ASSUME NEW n \in DOMAIN i.depths, ~Wraps(i.depths[n])
        PROVE  \E k \in {-1} \cup Places(instructions') :
                 /\ Names(instructions', position, i.depths[n], k)
                 /\ LeadsOutOf(ls[n], instructions', k)
    <3>1. i.depths[n] \in Nat
      BY <1>1, LenProperties, ElementOfSeq DEF InstructionType
    <3>2. PICK k \in {-1} \cup Places(instructions) :
            /\ Names(instructions, position, i.depths[n], k)
            /\ LeadsOutOf(GetLabel(i.depths[n], stray).label, instructions, k)
      BY <1>3, <2>3, <3>1, LabelNamed
    <3>3. /\ Names(instructions', position, i.depths[n], k)
          /\ LeadsOutOf(GetLabel(i.depths[n], stray).label, instructions', k)
      BY <2>1, <3>2, NamesSame, RelabelsLeads
    <3> QED BY <2>1, <3>2, <3>3, RelabelsSame
  <2>4. BranchesAt(instructions', position)
    BY <2>1, <2>2, <2>3 DEF BranchesAt
  <2> QED BY <1>1, <1>2, <2>1, <2>4, FlagsOnly, RejectStructured DEF Openers
<1> QED BY <1>2, <1>3, RejectStructured

\* The label of a block that has not been passed leads out of it: the parser
\* has seen its end.
LEMMA BlockLeads ==
  ASSUME Lowering, Op \in Openers
  PROVE  LET i == At(instructions, position) IN
         \A l : l.continuation = i.label.continuation /\ l.arity = i.label.arity
                => LeadsOutOf(l, instructions, position)
<1> DEFINE i == At(instructions, position)
           code == instructions
<1>1. /\ position \in Places(code) /\ position \in Nat /\ position < Len(code)
      /\ Balanced(code) /\ Len(code) \in Nat /\ LabelInv(code, position)
      /\ Op = code[position + 1].op /\ i = code[position + 1] /\ Nesting(code, position) \in Nat
  BY LoweringBefore, LabelsBeforeTypes DEF LabelsBefore, Structured, Op, At
<1> SUFFICES ASSUME NEW l, l.continuation = i.label.continuation, l.arity = i.label.arity
             PROVE  LeadsOutOf(l, code, position)
  OBVIOUS
<1>2. CASE Op = "loop"
  <2>1. LeadsTo(i.label, position, Len(i.type.params))
    <3>1. LoopLabels(code, position) /\ position >= position /\ code[position + 1].op = "loop"
      BY <1>1, <1>2 DEF LabelInv
    <3> QED BY <1>1, <3>1 DEF LoopLabels
  <2> QED BY <1>1, <1>2, <2>1 DEF LeadsOutOf, LeadsTo
<1>3. CASE Op \in {"block", "if"}
  <2>1. PICK q \in (position + 1)..(Len(code) - 1) : EndsAt(code, position, q)
    <3>1. Nesting(code, Len(code)) <= Nesting(code, position)
      BY <1>1 DEF Balanced
    <3> QED BY <1>1, <3>1, BlockEnds
  <2>2. q \in Places(code)
    BY <1>1, <2>1 DEF Places
  <2>3. LeadsTo(i.label, q + 1, Len(i.type.returns))
    BY <1>1, <1>3, <2>1, <2>2 DEF LabelInv, BlockLabels
  <2>4. code[position + 1].op # "loop" /\ position # -1
    BY <1>1, <1>3
  <2> QED BY <1>1, <2>1, <2>2, <2>3, <2>4 DEF LeadsOutOf, LeadsTo
<1> QED BY <1>2, <1>3 DEF Openers

LEMMA OpenersPass ==
  ASSUME Lowering, NEW i, i = At(instructions, position),
         ValidateBlockOrLoop(i) \/ ValidateIf(i)
  PROVE  SInv'
<1>1. Op = i.op /\ Op \in Openers /\ i = instructions[position + 1] /\ i.label \in Labels
  BY HasInnermost DEF ValidateBlockOrLoop, ValidateIf, Op, Openers, Lowering, At, InstructionType
<1>2. CASE phase' # "rejected"
  <2>1. PICK l, below :
          /\ phase' = phase /\ position' = position + 1
          /\ labels' = PushLabel(i, below, l)
          /\ l.continuation = i.label.continuation /\ l.arity = i.label.arity
          /\ \/ i.op # "if" /\ instructions' = Lowered(NoLabel)
             \/ instructions' = instructions
    <3>1. CASE ValidateIf(i)
      BY <1>2, <3>1 DEF ValidateIf, Check, Reject
    <3>2. CASE ValidateBlockOrLoop(i)
      <4> DEFINE below == AfterExpect(types, LastLabel, i.type.params)
                 height == (Len(types) - Len(i.type.params)) % U32
                 l == [i.label EXCEPT !.stackHeight = height]
      <4>1. l.continuation = i.label.continuation /\ l.arity = i.label.arity
        BY <1>1 DEF Labels
      <4>2. /\ phase' = phase /\ position' = position + 1
            /\ labels' = PushLabel(i, below, l)
            /\ i.op # "if" /\ instructions' = Lowered(NoLabel)
        BY <1>2, <3>2 DEF ValidateBlockOrLoop, Check, Reject
      <4> HIDE DEF below, l
      <4> QED BY <4>1, <4>2
    <3> QED BY <3>1, <3>2
  <2>2. /\ Relabels(instructions, instructions', position)
        /\ instructions'[position + 1].op = Op
    <3>1. CASE i.op # "if" /\ instructions' = Lowered(NoLabel)
      BY <1>1, <3>1, LoweredOne DEF Openers
    <3>2. CASE instructions' = instructions
      BY <1>1, <3>2, RelabelsNothing
    <3> QED BY <2>1, <3>1, <3>2
  <2> DEFINE new == [stackHeight |-> Len(below), returnTypes |-> i.type.returns,
                     paramTypes |-> i.type.params, type |-> i.op, unreachable |-> FALSE,
                     label |-> l]
  <2>3. /\ new.type = i.op /\ new.paramTypes = i.type.params /\ new.returnTypes = i.type.returns
        /\ new.label = l /\ labels' = Append(labels, new)
    BY <2>1 DEF PushLabel
  <2> HIDE DEF new
  <2>4. LeadsOutOf(new.label, instructions, position)
    BY <1>1, <2>1, <2>3, BlockLeads
  <2>5. LabelsInv(instructions', position + 1, labels')
    BY <1>1, <2>2, <2>3, <2>4, LoweringBefore, LabelsPushed
  <2>6. BranchesAt(instructions', position)
    BY <1>1, <2>2, BranchesNowhere DEF Openers
  <2> QED BY <1>1, <2>1, <2>2, <2>5, <2>6, LoweringStep DEF Openers
<1> QED BY <1>2, RejectStructured

LEMMA ElsePasses ==
  ASSUME Lowering, NEW i, i = At(instructions, position), ValidateElse(i)
  PROVE  SInv'
<1>1. Op = i.op /\ i = instructions[position + 1] /\ i.op = "else"
  BY DEF ValidateElse, Op, At
<1>2. CASE phase' # "rejected"
  <2>1. /\ phase' = phase /\ position' = position + 1 /\ instructions' = instructions
        /\ LastLabel.type = "if"
        /\ labels' = [labels EXCEPT ![Len(labels)].type = "ifAfterElse",
                                    ![Len(labels)].unreachable = FALSE]
    BY <1>2 DEF ValidateElse, Check, Reject
  <2>2. /\ labels \in [1..Len(labels) -> ValidatorLabels]
        /\ Len(labels) \in 1..Len(labels) /\ Len(labels) \in Nat
        /\ LastLabel = labels[Len(labels)]
    BY LoweringBefore, LabelsBeforeTypes, LenProperties DEF LabelsBefore, LastLabel, Last
  <2>3. /\ \A j \in 1..(Len(labels) - 1) : labels'[j] = labels[j]
        /\ labels'[Len(labels)] = [labels[Len(labels)] EXCEPT !.type = "ifAfterElse",
                                                              !.unreachable = FALSE]
    BY <2>1, <2>2
  <2>4. labels[Len(labels)] \in ValidatorLabels
    BY <2>2
  <2>5. /\ labels'[Len(labels)].type = "ifAfterElse"
        /\ labels'[Len(labels)].label = labels[Len(labels)].label
        /\ labels'[Len(labels)].paramTypes = labels[Len(labels)].paramTypes
        /\ labels'[Len(labels)].returnTypes = labels[Len(labels)].returnTypes
    BY <2>3, <2>4 DEF ValidatorLabels
  <2>6. LabelsInv(instructions', position + 1, labels') /\ ElseOfIf(instructions, position)
    <3>1. /\ Relabels(instructions, instructions', position)
          /\ LabelsBefore(instructions, position, labels)
      BY <2>1, RelabelsNothing, LoweringBefore
    <3>2. instructions[position + 1].op = "else" /\ labels[Len(labels)].type = "if"
      BY <1>1, <2>1, <2>2
    <3>3. ASSUME NEW ms, \A j \in 1..(Len(labels) - 1) : ms[j] = labels[j],
                 ms[Len(labels)].type = "ifAfterElse",
                 ms[Len(labels)].label = labels[Len(labels)].label,
                 ms[Len(labels)].paramTypes = labels[Len(labels)].paramTypes,
                 ms[Len(labels)].returnTypes = labels[Len(labels)].returnTypes
          PROVE  LabelsInv(instructions', position + 1, ms) /\ ElseOfIf(instructions, position)
      BY <3>1, <3>2, <3>3, LabelsAtElse
    <3> QED BY <2>3, <2>5, <3>3
  <2>7. BranchesAt(instructions', position)
    BY <1>1, <2>1, BranchesNowhere
  <2> QED BY <2>1, <2>6, <2>7, RelabelsNothing, LoweringStep
<1> QED BY <1>2, RejectStructured

LEMMA EndPasses ==
  ASSUME Lowering, NEW i, i = At(instructions, position), ValidateEnd(i)
  PROVE  SInv'
<1>1. Op = i.op /\ i = instructions[position + 1] /\ i.op = "end"
  BY DEF ValidateEnd, Op, At
<1>2. CASE phase' # "rejected"
  <2>1. /\ phase' = phase /\ position' = position + 1 /\ instructions' = instructions
        /\ labels' = Front(labels)
    BY <1>2 DEF ValidateEnd, Check, Reject
  <2>2. LabelsInv(instructions', position + 1, labels')
    BY <1>1, <2>1, LoweringBefore, RelabelsNothing, LabelsPopped
  <2>3. BranchesAt(instructions', position)
    BY <1>1, <2>1, BranchesNowhere
  <2> QED BY <1>1, <2>1, <2>2, <2>3, RelabelsNothing, LoweringStep
<1> QED BY <1>2, RejectStructured

LEMMA EndsStructured ==
  ASSUME Lowering, NEW i, EndOutsideLabels(i)
  PROVE  SInv'
<1>1. /\ phase' = "labelsRange" /\ UNCHANGED <<instructions, position>>
      /\ phase = "validate"
  BY DEF EndOutsideLabels, validatorVars, Lowering, Validating
<1> QED BY <1>1 DEF Lowering, SInv

LEMMA ValidateStructured ==
  ASSUME Lowering, ValidateInstruction
  PROVE  SInv'
BY OperandOpsPass, BrPasses, BrTablePasses, EndsStructured, OpenersPass, ElsePasses, EndPasses
   DEF ValidateInstruction

-----------------------------------------------------------------------------
(* The invariant.                                                          *)

LEMMA SInvInit == Init => SInv
<1> SUFFICES ASSUME Init PROVE SInv
  OBVIOUS
<1>1. instructions = <<>> /\ position = 0 /\ phase = "parse"
  BY DEF Init, ParserInit, ValidatorInit
<1>2. Places(instructions) = {} /\ 0..(position - 1) = {}
  BY <1>1 DEF Places
<1>3. Structured(instructions, position)
  BY <1>2 DEF Structured, ElseInv, LabelInv, LoopLabels, BlockLabels, ElseLabels, BranchInv,
              ElsesInv
<1> QED BY <1>1, <1>2, <1>3 DEF SInv, BeginInv

LEMMA ParserStructured ==
  ASSUME IInv, SInv, ParserStep
  PROVE  SInv'
<1>1. /\ phase = "parse" /\ position = 0 /\ position' = 0 /\ ParserNext
      /\ phase' \in {"parse", "parsed", "rejected"}
  BY DEF ParserStep, ParserNext, ReadInstruction, EndOfStream, ReadBlockOrIf, ReadLoop,
         ReadElse, ReadEnd, ReadOther, Open, validatorVars, IInv, ValidatorInv
<1>2. Parsing
  BY <1>1 DEF Parsing, ParsedInv, SInv, Structured, IInv
<1>3. Parsed
  BY <1>1, <1>2, ParserParses
<1>4. phase' # "rejected" => Structured(instructions', 0)
  BY <1>3 DEF Parsed, Structured, BranchInv, ElsesInv
<1>5. phase' = "parsed" => Balanced(instructions')
  <2>1. IInv'
    BY ParserInv
  <2> QED BY <2>1 DEF IInv, CodeInv, Balanced, Places
<1> QED BY <1>1, <1>3, <1>4, <1>5 DEF SInv, Parsed

LEMMA ValidatorStructured ==
  ASSUME IInv, SInv, ValidatorStep
  PROVE  SInv'
<1>1. CASE StartValidation
  <2>1. /\ phase = "parsed" /\ phase' = "validate" /\ position = 0
        /\ labels' = <<EntryLabel(Len(instructions))>>
        /\ UNCHANGED <<instructions, blockBeginStack, position>>
    BY <1>1 DEF StartValidation, IInv, ValidatorInv
  <2>2. LeadsOutOf(EntryLabel(Len(instructions)).label, instructions, -1)
    BY DEF LeadsOutOf, LeadsTo, EntryLabel
  <2>3. LabelsInv(instructions, 0, <<EntryLabel(Len(instructions))>>)
    BY <2>2, OpenBehind DEF LabelsInv, EntryLabel
  <2> QED BY <2>1, <2>3 DEF SInv
<1>2. CASE FinishValidation
  BY <1>2 DEF FinishValidation, SInv, validatorVars
<1>3. CASE ValidateInstruction
  <2>1. Validating
    BY <1>3, LenProperties DEF ValidateInstruction, Validating, IInv, ValidatorInv, CodeInv
  <2> QED BY <1>3, <2>1, ValidateStructured DEF Lowering
<1> QED BY <1>1, <1>2, <1>3 DEF ValidatorStep, ValidatorNext

\* Running changes neither the code nor the labels.
LEMMA InterpreterStructured ==
  ASSUME SInv, InterpreterNext
  PROVE  SInv'
<1>1. phase = "run" /\ phase' \notin {"parse", "rejected", "validate"}
  <2>1. CASE RunEnd
    BY <2>1, RunsOn DEF RunEnd, Runs, Faults
  <2> QED BY <2>1, InstructionRuns DEF InterpreterNext, Runs, Faults, RunInstruction
<1>2. UNCHANGED <<instructions, position>>
  <2>1. CASE RunEnd
    BY <2>1, RunsOn DEF RunEnd, Runs, Faults
  <2> QED BY <2>1, InstructionRuns DEF InterpreterNext, Runs
<1> QED BY <1>1, <1>2 DEF SInv

LEMMA SInvNext == IInv /\ SInv /\ [Next]_vars => SInv'
<1> SUFFICES ASSUME IInv, SInv, [Next]_vars PROVE SInv'
  OBVIOUS
<1>1. CASE UNCHANGED vars
  BY <1>1 DEF vars, parserVars, validatorVars, SInv
<1> QED BY <1>1, ParserStructured, ValidatorStructured, InterpreterStructured DEF Next

LEMMA SInvAlways == Spec => [](TInv /\ SInv)
<1>1. Init => SInv
  BY SInvInit
<1>2. TInv /\ SInv /\ [Next]_vars => SInv'
  BY SInvNext DEF TInv
<1> QED BY <1>1, <1>2, TInvInit, TInvNext, PTL DEF Spec

-----------------------------------------------------------------------------
(* The structure that the properties see, by the nesting.                  *)

\* How many of the blocks open at p are in at least n others.
LEMMA OpenCount ==
  ASSUME NEW code, NEW p \in Nat, \A q \in 0..p : Nesting(code, q) >= 0,
         NEW n \in Nat, n <= Nesting(code, p)
  PROVE  Cardinality({k \in 0..(p - 1) : OpenAt(code, k, p) /\ Nesting(code, k) >= n})
           = Nesting(code, p) - n
<1> DEFINE E == {k \in 0..(p - 1) : OpenAt(code, k, p) /\ Nesting(code, k) >= n}
           L == n..(Nesting(code, p) - 1)
           f == [k \in E |-> Nesting(code, k)]
<1>1. Nesting(code, p) \in Nat
  BY NestingFinite
<1>2. ASSUME NEW k \in E PROVE Nesting(code, k) \in L
  <2>1. k \in 0..p /\ Nesting(code, k) \in Int /\ Nesting(code, k) < Nesting(code, p)
    BY NestingFinite DEF OpenAt
  <2> QED BY <1>1, <2>1
<1>3. f \in [E -> L]
  BY <1>2
<1>4. \A a, b \in E : f[a] = f[b] => a = b
  BY OpenOrdered
<1>5. ASSUME NEW t \in L PROVE \E k \in E : f[k] = t
  <2>1. t \in Nat /\ t < Nesting(code, p)
    BY <1>1
  <2>2. PICK k \in 0..(p - 1) : OpenAt(code, k, p) /\ Nesting(code, k) = t
    BY <2>1, OpenerAtLevel
  <2> QED BY <2>2
<1> HIDE DEF f
<1>6. ExistsBijection(L, E)
  <2>1. f \in Bijection(E, L)
    BY <1>3, <1>4, <1>5, Fun_IsBij
  <2> QED BY <2>1, Fun_ExistsBijSymmetric DEF ExistsBijection
<1>7. IsFiniteSet(L) /\ Cardinality(L) = Nesting(code, p) - n
  <2> DEFINE last == Nesting(code, p) - 1
  <2>1. n \in Int /\ last \in Int
    BY <1>1
  <2> HIDE DEF last
  <2>2. IsFiniteSet(n..last) /\ Cardinality(n..last) = IF n > last THEN 0 ELSE last - n + 1
    BY <2>1, FS_Interval
  <2>3. (IF n > last THEN 0 ELSE last - n + 1) = Nesting(code, p) - n
    BY <1>1 DEF last
  <2> QED BY <2>2, <2>3 DEF last
<1> QED BY <1>6, <1>7, FS_Bijection

\* How many more blocks are open behind instruction j than before i.
LEMMA DepthIsNesting ==
  ASSUME NEW i \in Nat, NEW d \in Nat
  PROVE  Depth(i, i + d - 1) = Nesting(instructions, i + d) - Nesting(instructions, i)
<1> DEFINE N(q) == Nesting(instructions, q)
           O(j) == {k \in i..j : IsOp(k, Openers)}
           E(j) == {k \in i..j : IsOp(k, {"end"})}
           S == {n \in Nat : /\ IsFiniteSet(O(i + n - 1)) /\ IsFiniteSet(E(i + n - 1))
                             /\ Cardinality(O(i + n - 1)) - Cardinality(E(i + n - 1))
                                  = N(i + n) - N(i)}
<1>1. 0 \in S
  <2>1. O(i + 0 - 1) = {} /\ E(i + 0 - 1) = {} /\ i + 0 = i
    OBVIOUS
  <2>2. N(i) \in Int
    BY NestingFinite
  <2> HIDE DEF O, E
  <2> QED BY <2>1, <2>2, FS_EmptySet
<1>2. ASSUME NEW n \in Nat, n \in S PROVE n + 1 \in S
  <2> DEFINE j == i + n
  <2>1. j \in Nat /\ i + (n + 1) - 1 = j /\ i + (n + 1) = j + 1 /\ i + n - 1 = j - 1
    OBVIOUS
  <2>2. i..j = i..(j - 1) \cup {j} /\ j \notin i..(j - 1)
    BY <2>1
  <2>3. O(j) = IF IsOp(j, Openers) THEN O(j - 1) \cup {j} ELSE O(j - 1)
    BY <2>2
  <2>4. E(j) = IF IsOp(j, {"end"}) THEN E(j - 1) \cup {j} ELSE E(j - 1)
    BY <2>2
  <2>5. j \notin O(j - 1) /\ j \notin E(j - 1)
    BY <2>2
  <2>6. IsFiniteSet(O(j - 1)) /\ IsFiniteSet(E(j - 1))
    BY <1>2, <2>1
  <2>7. Cardinality(O(j - 1)) - Cardinality(E(j - 1)) = N(j) - N(i)
    BY <1>2, <2>1
  <2> HIDE DEF O, E, S
  <2>8. /\ Cardinality(O(j - 1)) \in Nat /\ Cardinality(E(j - 1)) \in Nat
        /\ IsFiniteSet(O(j)) /\ IsFiniteSet(E(j))
        /\ Cardinality(O(j)) = Cardinality(O(j - 1)) + IF IsOp(j, Openers) THEN 1 ELSE 0
        /\ Cardinality(E(j)) = Cardinality(E(j - 1)) + IF IsOp(j, {"end"}) THEN 1 ELSE 0
    <3>1. Cardinality(O(j - 1)) \in Nat /\ Cardinality(E(j - 1)) \in Nat
      BY <2>6, FS_CardinalityType
    <3>2. /\ IsFiniteSet(O(j - 1) \cup {j}) /\ IsFiniteSet(E(j - 1) \cup {j})
          /\ Cardinality(O(j - 1) \cup {j}) = Cardinality(O(j - 1)) + 1
          /\ Cardinality(E(j - 1) \cup {j}) = Cardinality(E(j - 1)) + 1
      BY <2>5, <2>6, FS_AddElement
    <3> QED BY <2>3, <2>4, <2>6, <3>1, <3>2
  <2>9. IsOp(j, Openers) => ~IsOp(j, {"end"})
    BY DEF IsOp, Openers
  <2>10. N(j + 1) = N(j) + (IF IsOp(j, Openers) THEN 1 ELSE 0) - (IF IsOp(j, {"end"}) THEN 1 ELSE 0)
    BY <2>1, <2>9, NestingInt DEF IsOp, At
  <2>11. N(i) \in Int /\ N(j) \in Int
    BY <2>1, NestingFinite
  <2>12. Cardinality(O(j)) - Cardinality(E(j)) = N(j + 1) - N(i)
    BY <2>7, <2>8, <2>10, <2>11
  <2> QED BY <2>1, <2>8, <2>12 DEF S
<1>3. d \in S
  <2> HIDE DEF S
  <2> QED BY <1>1, <1>2, SetInduction
<1> QED BY <1>3 DEF Depth

\* The code that is run.
Running == TInv /\ SInv /\ phase = "run"

LEMMA RunningCode ==
  ASSUME Running
  PROVE  /\ instructions \in Seq(InstructionType) /\ Len(instructions) \in Nat \ {0}
         /\ Indices = Places(instructions) /\ Indices = 0..(Len(instructions) - 1)
         /\ Balanced(instructions) /\ Structured(instructions, Len(instructions))
         /\ \A i \in Indices : /\ i \in Nat /\ i + 1 \in 1..Len(instructions)
                               /\ Nesting(instructions, i) \in Nat
         /\ \A i \in Indices : \A q \in 0..i : Nesting(instructions, q) >= 0
<1>1. /\ instructions \in Seq(InstructionType) /\ position = Len(instructions)
      /\ Balanced(instructions) /\ Structured(instructions, position)
  BY DEF Running, TInv, IInv, CodeInv, SInv, BeforeRun
<1>2. Len(instructions) \in Nat /\ Len(instructions) # 0
  <2>1. Nesting(instructions, Len(instructions)) # 0
    BY <1>1 DEF Balanced
  <2> QED BY <1>1, <2>1, LenProperties, NestingAtStart
<1>3. Indices = Places(instructions) /\ Indices = 0..(Len(instructions) - 1)
  BY DEF Indices, Places
<1>4. \A i \in Indices : i \in Nat /\ i + 1 \in 1..Len(instructions) /\ 0..i \subseteq Indices
  BY <1>2, <1>3
<1>5. \A i \in Indices : Nesting(instructions, i) >= 0 /\ Nesting(instructions, i) \in Int
  BY <1>1, <1>3, <1>4, NestingFinite DEF Balanced
<1> QED BY <1>1, <1>2, <1>3, <1>4, <1>5

LEMMA IsEnd ==
  ASSUME Running, NEW k \in Indices, IsOp(k, Openers), NEW j \in Indices
  PROVE  EndsAt(instructions, k, j) <=>
           j > k /\ Depth(k, j) = 0 /\ \A m \in k..(j - 1) : Depth(k, m) > 0
<1> DEFINE N(q) == Nesting(instructions, q)
<1>1. k \in Nat /\ j \in Nat /\ N(k) \in Int /\ N(j) \in Int /\ N(j + 1) \in Int
  BY RunningCode, NestingFinite
<1>2. ASSUME NEW m \in Nat, m >= k - 1 PROVE Depth(k, m) = N(m + 1) - N(k)
  <2>1. m - k + 1 \in Nat /\ k + (m - k + 1) - 1 = m /\ k + (m - k + 1) = m + 1
    BY <1>1, <1>2
  <2> QED BY <1>1, <2>1, DepthIsNesting
<1>3. ASSUME NEW m \in k..(j - 1) PROVE m \in Nat /\ m >= k - 1 /\ N(m + 1) \in Int
  BY <1>1, NestingFinite
<1>4. j > k => /\ Depth(k, j) = 0 <=> N(j + 1) = N(k)
               /\ (\A m \in k..(j - 1) : Depth(k, m) > 0)
                    <=> \A q \in (k + 1)..j : N(q) > N(k)
  <2> SUFFICES ASSUME j > k
               PROVE  /\ Depth(k, j) = 0 <=> N(j + 1) = N(k)
                      /\ (\A m \in k..(j - 1) : Depth(k, m) > 0)
                           <=> \A q \in (k + 1)..j : N(q) > N(k)
    OBVIOUS
  <2>1. Depth(k, j) = N(j + 1) - N(k)
    BY <1>1, <1>2
  <2>2. ASSUME \A m \in k..(j - 1) : Depth(k, m) > 0, NEW q \in (k + 1)..j
        PROVE  N(q) > N(k)
    <3>1. q - 1 \in k..(j - 1) /\ q - 1 \in Nat /\ q - 1 >= k - 1 /\ q - 1 + 1 = q /\ q \in Nat
      BY <1>1
    <3>2. Depth(k, q - 1) > 0 /\ Depth(k, q - 1) = N(q) - N(k)
      BY <1>2, <2>2, <3>1
    <3>3. N(q) \in Int
      BY <3>1, NestingFinite
    <3> QED BY <1>1, <3>2, <3>3
  <2>3. ASSUME \A q \in (k + 1)..j : N(q) > N(k), NEW m \in k..(j - 1)
        PROVE  Depth(k, m) > 0
    <3>1. m + 1 \in (k + 1)..j
      BY <1>1
    <3>2. Depth(k, m) = N(m + 1) - N(k)
      BY <1>2, <1>3
    <3> QED BY <1>1, <1>3, <2>3, <3>1, <3>2
  <2> QED BY <1>1, <2>1, <2>2, <2>3
<1>5. EndsAt(instructions, k, j) => j > k
  BY <1>1 DEF EndsAt, OpenAt
<1>6. ASSUME j > k, N(j + 1) = N(k), \A q \in (k + 1)..j : N(q) > N(k)
      PROVE  EndsAt(instructions, k, j)
  <2>1. N(j) > N(j + 1)
    BY <1>1, <1>6
  <2>2. instructions[j + 1].op = "end"
    BY <1>1, <2>1, NestingInt
  <2>3. instructions[k + 1].op \in Openers /\ k \in 0..(j - 1)
    BY <1>1, <1>6 DEF IsOp, At
  <2> QED BY <1>6, <2>2, <2>3 DEF EndsAt, OpenAt
<1>7. EndsAt(instructions, k, j) => N(j + 1) = N(k) /\ \A q \in (k + 1)..j : N(q) > N(k)
  BY DEF EndsAt, OpenAt
<1> QED BY <1>4, <1>5, <1>6, <1>7

\* Every block has an end.
LEMMA MatchingEndIsEnd ==
  ASSUME Running, NEW k \in Indices, IsOp(k, Openers)
  PROVE  /\ MatchingEnd(k) \in Indices /\ MatchingEnd(k) > k
         /\ EndsAt(instructions, k, MatchingEnd(k))
<1>1. k \in Nat /\ Len(instructions) \in Nat /\ k < Len(instructions)
      /\ Nesting(instructions, Len(instructions)) <= Nesting(instructions, k)
  BY RunningCode DEF Balanced
<1>2. PICK q \in (k + 1)..(Len(instructions) - 1) : EndsAt(instructions, k, q)
  BY <1>1, BlockEnds DEF IsOp, At
<1>3. q \in Indices
  BY <1>1, <1>2, RunningCode
<1>4. \E j \in Indices : j > k /\ Depth(k, j) = 0 /\ \A m \in k..(j - 1) : Depth(k, m) > 0
  BY <1>2, <1>3, IsEnd
<1>5. /\ MatchingEnd(k) \in Indices /\ MatchingEnd(k) > k /\ Depth(k, MatchingEnd(k)) = 0
      /\ \A m \in k..(MatchingEnd(k) - 1) : Depth(k, m) > 0
  BY <1>4 DEF MatchingEnd
<1> QED BY <1>5, IsEnd

LEMMA EndIsMatchingEnd ==
  ASSUME Running, NEW k \in Indices, NEW q \in Indices, EndsAt(instructions, k, q)
  PROVE  MatchingEnd(k) = q
<1>1. IsOp(k, Openers)
  BY DEF EndsAt, OpenAt, IsOp, At
<1> QED BY <1>1, MatchingEndIsEnd, RunningCode, EndIsUnique

LEMMA EnclosingIsOpen ==
  ASSUME Running, NEW i \in Indices
  PROVE  Enclosing(i) = {k \in 0..(i - 1) : OpenAt(instructions, k, i)}
<1>1. /\ i \in Nat /\ i < Len(instructions) /\ Len(instructions) \in Nat
      /\ 0..(i - 1) = {k \in Indices : k < i}
  BY RunningCode
<1> SUFFICES ASSUME NEW k \in Indices, k < i
             PROVE  IsOp(k, Openers) /\ MatchingEnd(k) >= i <=> OpenAt(instructions, k, i)
  BY <1>1 DEF Enclosing
<1>2. k \in Nat
  BY RunningCode
<1>3. OpenAt(instructions, k, i) => IsOp(k, Openers)
  BY DEF OpenAt, IsOp, At
<1>4. ASSUME IsOp(k, Openers) PROVE MatchingEnd(k) >= i <=> OpenAt(instructions, k, i)
  <2>1. MatchingEnd(k) \in Nat /\ EndsAt(instructions, k, MatchingEnd(k))
    BY <1>4, MatchingEndIsEnd, RunningCode
  <2>2. OpenAt(instructions, k, i) => MatchingEnd(k) >= i
    BY <1>1, <2>1, ClosedBefore
  <2>3. ASSUME MatchingEnd(k) >= i PROVE OpenAt(instructions, k, i)
    <3>1. (k + 1)..i \subseteq (k + 1)..MatchingEnd(k) /\ k \in 0..(i - 1)
      BY <1>1, <1>2, <2>1, <2>3
    <3> QED BY <2>1, <3>1 DEF EndsAt, OpenAt
  <2> QED BY <2>2, <2>3
<1> QED BY <1>3, <1>4

\* The index of a branch names a block by how many are open.
LEMMA TargetIsNamed ==
  ASSUME Running, NEW i \in Indices, NEW d \in Nat, NEW k, Names(instructions, i, d, k)
  PROVE  TargetOf(i, d) = k
<1> DEFINE N(q) == Nesting(instructions, q)
<1>1. /\ i \in Nat /\ N(i) \in Nat /\ \A q \in 0..i : N(q) >= 0
      /\ Enclosing(i) = {m \in 0..(i - 1) : OpenAt(instructions, m, i)}
  BY RunningCode, EnclosingIsOpen
<1>2. ASSUME NEW m \in Enclosing(i) PROVE N(m) \in Nat /\ N(m) < N(i) /\ m \in Nat /\ m < i
  <2>1. m \in Nat /\ m \in 0..i /\ m < i
    BY <1>1
  <2>2. N(m) \in Int
    BY <2>1, NestingFinite
  <2>3. N(m) < N(i)
    BY <1>1, <2>1 DEF OpenAt
  <2> QED BY <1>1, <2>1, <2>2, <2>3
<1>3. Cardinality(Enclosing(i)) = N(i)
  <2>1. Enclosing(i) = {m \in 0..(i - 1) : OpenAt(instructions, m, i) /\ N(m) >= 0}
    BY <1>1
  <2>2. 0 \in Nat /\ 0 <= N(i) /\ N(i) - 0 = N(i)
    BY <1>1
  <2> QED BY <1>1, <2>1, <2>2, OpenCount
<1>4. ASSUME NEW l \in Enclosing(i)
      PROVE  Cardinality({m \in Enclosing(i) : m > l}) = N(i) - 1 - N(l)
  <2>1. {m \in Enclosing(i) : m > l}
          = {m \in 0..(i - 1) : OpenAt(instructions, m, i) /\ N(m) >= N(l) + 1}
    <3>1. \A m \in Enclosing(i) : l < m <=> N(l) < N(m)
      BY <1>1, OpenOrdered
    <3>2. \A m \in Enclosing(i) : m > l <=> N(m) >= N(l) + 1
      BY <1>2, <3>1
    <3> QED BY <1>1, <3>2
  <2>2. N(l) + 1 \in Nat /\ N(l) + 1 <= N(i) /\ N(i) - (N(l) + 1) = N(i) - 1 - N(l)
    BY <1>1, <1>2
  <2> QED BY <1>1, <2>1, <2>2, OpenCount
<1>5. CASE k = -1 /\ d = N(i)
  BY <1>3, <1>5 DEF TargetOf
<1>6. CASE OpenAt(instructions, k, i) /\ N(k) = N(i) - 1 - d
  <2>1. k \in Enclosing(i)
    BY <1>1, <1>6 DEF OpenAt
  <2>2. d # N(i)
    BY <1>1, <1>2, <1>6, <2>1
  <2>3. ASSUME NEW l \in Enclosing(i)
        PROVE  Cardinality({m \in Enclosing(i) : m > l}) = d <=> l = k
    <3>1. N(l) = N(k) <=> l = k
      BY <1>1, <2>1, OpenOrdered
    <3> QED BY <1>1, <1>2, <1>4, <1>6, <2>1, <3>1
  <2>4. TargetOf(i, d) = CHOOSE l \in Enclosing(i) : Cardinality({m \in Enclosing(i) : m > l}) = d
    BY <1>3, <2>2 DEF TargetOf
  <2> QED BY <2>1, <2>3, <2>4
<1> QED BY <1>5, <1>6 DEF Names

LEMMA LeadsIsLabel ==
  ASSUME Running, NEW k \in {-1} \cup Places(instructions), NEW l,
         LeadsOutOf(l, instructions, k)
  PROVE  IsLabelOf(l, k)
<1>1. CASE k = -1
  BY <1>1 DEF LeadsOutOf, LeadsTo, IsLabelOf, ContinuationOf, ArityOf
<1>2. CASE k # -1 /\ instructions[k + 1].op = "loop"
  BY <1>2 DEF LeadsOutOf, LeadsTo, IsLabelOf, ContinuationOf, ArityOf, IsOp, At
<1>3. CASE k # -1 /\ instructions[k + 1].op # "loop"
  <2>1. PICK q \in Places(instructions) :
          /\ EndsAt(instructions, k, q)
          /\ LeadsTo(l, q + 1, Len(instructions[k + 1].type.returns))
    BY <1>3 DEF LeadsOutOf
  <2>2. MatchingEnd(k) = q
    BY <1>3, <2>1, RunningCode, EndIsMatchingEnd
  <2> QED BY <1>3, <2>1, <2>2 DEF LeadsTo, IsLabelOf, ContinuationOf, ArityOf, IsOp, At
<1> QED BY <1>1, <1>2, <1>3

LEMMA ElsesAreIn ==
  ASSUME Running, NEW i \in Indices, IsOp(i, {"if"})
  PROVE  ElsesOf(i) = {e \in Indices : ElseIn(instructions, i, e)}
<1> DEFINE N(q) == Nesting(instructions, q)
           end == MatchingEnd(i)
<1>1. IsOp(i, Openers)
  BY DEF IsOp, Openers
<1>2. end \in Indices /\ end > i /\ EndsAt(instructions, i, end)
  BY <1>1, MatchingEndIsEnd
<1>3. i \in Nat /\ end \in Nat /\ N(i) \in Int /\ (i + 1)..end \subseteq Indices
  BY <1>2, RunningCode
<1>4. ASSUME NEW e \in (i + 1)..end, IsOp(e, {"else"})
      PROVE  Depth(i, e) = 1 <=> ElseIn(instructions, i, e)
  <2>1. e \in Nat /\ e - i + 1 \in Nat /\ i + (e - i + 1) - 1 = e /\ i + (e - i + 1) = e + 1
    BY <1>3
  <2>2. Depth(i, e) = N(e + 1) - N(i)
    BY <1>3, <2>1, DepthIsNesting
  <2>3. N(e + 1) = N(e) /\ N(e) \in Int
    BY <1>4, <2>1, NestingInt DEF IsOp, At, Openers
  <2>4. OpenAt(instructions, i, e)
    <3>1. (i + 1)..e \subseteq (i + 1)..end /\ i \in 0..(e - 1)
      BY <1>3
    <3> QED BY <1>2, <3>1 DEF EndsAt, OpenAt
  <2> QED BY <1>3, <1>4, <2>2, <2>3, <2>4 DEF ElseIn, InnermostAt, IsOp, At
<1>5. ASSUME NEW e \in Indices, ElseIn(instructions, i, e)
      PROVE  e \in (i + 1)..end /\ IsOp(e, {"else"})
  <2>1. e \in Nat /\ OpenAt(instructions, i, e)
    BY <1>5, RunningCode DEF ElseIn, InnermostAt
  <2>2. e <= end
    BY <1>2, <1>3, <2>1, ClosedBefore
  <2>3. e > i
    BY <1>3, <2>1, OpenBehind
  <2> QED BY <1>3, <1>5, <2>1, <2>2, <2>3 DEF ElseIn, IsOp, At
<1> QED BY <1>3, <1>4, <1>5 DEF ElsesOf

\* An if has at most one else, and knows it.
LEMMA ElseIsFound ==
  ASSUME Running, NEW i \in Indices, IsOp(i, {"if"})
  PROVE  ElsesOf(i) = {At(instructions, i).elseLocation} \ {0}
<1> DEFINE loc == instructions[i + 1].elseLocation
<1>1. /\ i \in Places(instructions) /\ instructions[i + 1].op = "if"
      /\ Len(instructions) \in Nat /\ Places(instructions) \subseteq Nat
      /\ Places(instructions) = 0..(Len(instructions) - 1)
  BY RunningCode DEF IsOp, At, Places
<1>2. /\ \A e \in Places(instructions) : ElseIn(instructions, i, e) => loc # 0
      /\ loc # 0 =>
           /\ loc \in (i + 1)..(Len(instructions) - 1)
           /\ \/ ElseIn(instructions, i, loc)
              \/ \E l \in Places(instructions) :
                   ElseIn(instructions, l, loc) /\ instructions[l + 1].op = "loop"
  BY <1>1, RunningCode DEF Structured, ElseInv
<1>3. ASSUME NEW e \in Places(instructions), NEW l, ElseIn(instructions, l, e)
      PROVE  /\ instructions[l + 1].op = "if"
             /\ \A d \in 0..(e - 1) : ~ElseIn(instructions, l, d)
  <2>1. ElseOfIf(instructions, e)
    BY <1>1, <1>3, RunningCode DEF Structured, ElsesInv, ElseIn
  <2>2. PICK k \in Places(instructions) :
          /\ instructions[k + 1].op = "if" /\ InnermostAt(instructions, k, e)
          /\ \A d \in 0..(e - 1) : ~ElseIn(instructions, k, d)
    BY <2>1 DEF ElseOfIf
  <2>3. k = l
    BY <1>1, <1>3, <2>2, InnermostUnique DEF ElseIn
  <2> QED BY <2>2, <2>3
<1>4. loc # 0 => loc \in Places(instructions) /\ ElseIn(instructions, i, loc)
  BY <1>1, <1>2, <1>3
<1>5. ASSUME NEW e \in Places(instructions), ElseIn(instructions, i, e)
      PROVE  loc # 0 /\ e = loc
  <2>1. loc # 0 /\ loc \in Places(instructions) /\ ElseIn(instructions, i, loc)
    BY <1>2, <1>4, <1>5
  <2>2. ~(loc < e)
    BY <1>1, <1>3, <1>5, <2>1
  <2>3. ~(e < loc)
    BY <1>1, <1>3, <1>5, <2>1
  <2> QED BY <1>1, <2>1, <2>2, <2>3
<1>6. {e \in Places(instructions) : ElseIn(instructions, i, e)} = {loc} \ {0}
  BY <1>4, <1>5
<1> QED BY <1>6, ElsesAreIn, RunningCode DEF At

\* Where the labels of an if and of its else lead.
LEMMA IfLeads ==
  ASSUME Running, NEW k \in Indices, IsOp(k, {"if"})
  PROVE  /\ LeadsOutOf(At(instructions, k).label, instructions, k)
         /\ \A e \in ElsesOf(k) : LeadsOutOf(At(instructions, e).label, instructions, k)
<1> DEFINE end == MatchingEnd(k)
           arity == Len(instructions[k + 1].type.returns)
<1>1. k \in Places(instructions) /\ instructions[k + 1].op = "if" /\ k # -1
  BY RunningCode DEF IsOp, At
<1>2. end \in Places(instructions) /\ EndsAt(instructions, k, end)
  BY MatchingEndIsEnd, RunningCode DEF IsOp, Openers
<1>3. LeadsTo(instructions[k + 1].label, end + 1, arity)
  BY <1>1, <1>2, RunningCode DEF Structured, LabelInv, BlockLabels
<1>4. ASSUME NEW e \in ElsesOf(k) PROVE LeadsTo(instructions[e + 1].label, end + 1, arity)
  <2>1. ElseIn(instructions, k, e) /\ e = instructions[k + 1].elseLocation
    BY <1>4, ElsesAreIn, ElseIsFound DEF At
  <2> QED BY <1>1, <1>2, <2>1, RunningCode DEF Structured, LabelInv, ElseLabels
<1> QED BY <1>1, <1>2, <1>3, <1>4 DEF LeadsOutOf, At

LEMMA ResolvedWhenRun ==
  ASSUME Running
  PROVE  BranchesResolved
<1> SUFFICES ASSUME NEW i \in Indices
             PROVE  /\ \A n \in DOMAIN BranchDepths(i) : ~Wraps(BranchDepths(i)[n]) =>
                         IsLabelOf(BranchLabels(i)[n], TargetOf(i, BranchDepths(i)[n]))
                    /\ IsOp(i, {"if"}) =>
                         /\ IsLabelOf(At(instructions, i).label, i)
                         /\ ElsesOf(i) = {At(instructions, i).elseLocation} \ {0}
                         /\ \A k \in ElsesOf(i) : IsLabelOf(At(instructions, k).label, i)
  BY DEF BranchesResolved
<1>1. i \in Places(instructions) /\ i \in 0..(Len(instructions) - 1)
  BY RunningCode
<1>2. ASSUME NEW n \in DOMAIN BranchDepths(i), ~Wraps(BranchDepths(i)[n])
      PROVE  IsLabelOf(BranchLabels(i)[n], TargetOf(i, BranchDepths(i)[n]))
  <2> DEFINE in == instructions[i + 1]
             d == BranchDepths(i)[n]
  <2>1. BranchDepths(i) = DepthsOf(in) /\ BranchLabels(i) = LabelsOf(in)
    BY DEF BranchDepths, DepthsOf, BranchLabels, LabelsOf, IsOp, At
  <2>2. d \in Nat
    <3>1. in \in InstructionType
      BY RunningCode, ElementOfSeq
    <3>2. in.idx \in Nat /\ in.depths \in Seq(Nat)
      BY <3>1 DEF InstructionType
    <3>3. CASE in.op \in {"br", "br_if"}
      <4>1. BranchDepths(i) = <<in.idx>>
        BY <2>1, <3>3 DEF DepthsOf
      <4> QED BY <1>2, <3>2, <4>1
    <3>4. CASE in.op = "br_table"
      <4>1. BranchDepths(i) = in.depths
        BY <2>1, <3>4 DEF DepthsOf
      <4> QED BY <1>2, <3>2, <4>1, LenProperties, ElementOfSeq
    <3>5. CASE in.op \notin {"br", "br_if", "br_table"}
      <4>1. BranchDepths(i) = <<>>
        BY <2>1, <3>5 DEF DepthsOf
      <4> QED BY <1>2, <4>1
    <3> QED BY <3>3, <3>4, <3>5
  <2>3. BranchesAt(instructions, i)
    BY <1>1, RunningCode DEF Structured, BranchInv
  <2>4. PICK k \in {-1} \cup Places(instructions) :
          /\ Names(instructions, i, d, k)
          /\ LeadsOutOf(BranchLabels(i)[n], instructions, k)
    BY <1>2, <2>1, <2>3 DEF BranchesAt
  <2>5. TargetOf(i, d) = k
    BY <2>2, <2>4, TargetIsNamed
  <2> QED BY <2>4, <2>5, LeadsIsLabel
<1>3. ASSUME IsOp(i, {"if"})
      PROVE  /\ IsLabelOf(At(instructions, i).label, i)
             /\ ElsesOf(i) = {At(instructions, i).elseLocation} \ {0}
             /\ \A k \in ElsesOf(i) : IsLabelOf(At(instructions, k).label, i)
  <2>1. i \in {-1} \cup Places(instructions)
    BY <1>1
  <2> QED BY <1>3, <2>1, IfLeads, ElseIsFound, LeadsIsLabel
<1> QED BY <1>2, <1>3

\* Every label that runs leads where the nesting of the code says, whatever
\* the code, but for one index: the last of uint32_t passes the check of
\* get_label (Validator.cpp:124), and the validator copies what it finds there.
THEOREM BranchesAlwaysResolved == Spec => []BranchesResolved
<1>1. TInv /\ SInv => BranchesResolved
  BY ResolvedWhenRun DEF Running, BranchesResolved
<1> QED BY <1>1, SInvAlways, PTL

-----------------------------------------------------------------------------
(* How the instruction pointer moves.                                      *)

Lands(to) ==
  \/ to = ip + 1
  \/ to <= ip /\ IsOp(to, {"loop"})
  \/ to > ip /\ IsOp(to - 1, {"else", "end"})

LEMMA LabelLands ==
  ASSUME Running, ip \in Indices, NEW k \in {-1} \cup Places(instructions),
         k = -1 \/ OpenAt(instructions, k, ip),
         NEW l, LeadsOutOf(l, instructions, k)
  PROVE  Lands(l.continuation)
<1>1. /\ Len(instructions) \in Nat \ {0} /\ ip \in Nat /\ ip < Len(instructions)
      /\ Places(instructions) = 0..(Len(instructions) - 1)
  BY RunningCode DEF Places
<1>2. CASE k = -1
  <2> DEFINE last == Len(instructions) - 1
  <2>1. last \in Nat /\ last + 1 = Len(instructions) /\ last \in Places(instructions)
    BY <1>1
  <2>2. Nesting(instructions, last) >= 0 /\ Nesting(instructions, Len(instructions)) = -1
    BY <2>1, RunningCode DEF Balanced
  <2>3. instructions[last + 1].op = "end"
    <3> HIDE DEF last
    <3>1. /\ Nesting(instructions, last + 1) = -1 /\ Nesting(instructions, last) \in Int
          /\ Nesting(instructions, last) >= 0
      BY <2>1, <2>2, NestingFinite
    <3>2. Nesting(instructions, last + 1) < Nesting(instructions, last)
      BY <3>1
    <3>3. \/ Nesting(instructions, last + 1) = Nesting(instructions, last) + 1
          \/ instructions[last + 1].op = "end"
          \/ Nesting(instructions, last + 1) = Nesting(instructions, last)
      BY <2>1, NestingInt
    <3> QED BY <3>1, <3>2, <3>3
  <2>4. l.continuation = Len(instructions)
    BY <1>2 DEF LeadsOutOf, LeadsTo
  <2> QED BY <1>1, <2>1, <2>3, <2>4 DEF Lands, IsOp, At
<1>3. CASE k # -1 /\ instructions[k + 1].op = "loop"
  <2>1. l.continuation = k /\ k \in 0..(ip - 1)
    BY <1>3 DEF LeadsOutOf, LeadsTo, OpenAt
  <2> QED BY <1>1, <1>3, <2>1 DEF Lands, IsOp, At
<1>4. CASE k # -1 /\ instructions[k + 1].op # "loop"
  <2>1. PICK q \in Places(instructions) :
          EndsAt(instructions, k, q) /\ l.continuation = q + 1
    BY <1>4 DEF LeadsOutOf, LeadsTo
  <2>2. q \in Nat /\ q >= ip
    BY <1>1, <1>4, <2>1, ClosedBefore
  <2>3. instructions[q + 1].op = "end"
    BY <2>1 DEF EndsAt
  <2> QED BY <1>1, <2>1, <2>2, <2>3 DEF Lands, IsOp, At
<1> QED BY <1>2, <1>3, <1>4

\* A label of a branch lands, unless its index wraps.
LEMMA BranchLands ==
  ASSUME Running, ip \in Indices, ~BranchWraps(ip),
         NEW n \in DOMAIN DepthsOf(At(instructions, ip))
  PROVE  Lands(LabelsOf(At(instructions, ip))[n].continuation)
<1>1. BranchesAt(instructions, ip)
  BY RunningCode DEF Structured, BranchInv
<1>2. PICK k \in {-1} \cup Places(instructions) :
        /\ Names(instructions, ip, DepthsOf(At(instructions, ip))[n], k)
        /\ LeadsOutOf(LabelsOf(At(instructions, ip))[n], instructions, k)
  <2>1. BranchDepths(ip) = DepthsOf(At(instructions, ip))
    BY DEF BranchDepths, DepthsOf
  <2>2. ~Wraps(DepthsOf(At(instructions, ip))[n])
    BY <2>1 DEF BranchWraps
  <2> QED BY <1>1, <2>2 DEF BranchesAt, At
<1>3. k = -1 \/ OpenAt(instructions, k, ip)
  BY <1>2 DEF Names
<1> QED BY <1>2, <1>3, LabelLands

LEMMA IfLands ==
  ASSUME Running, ip \in Indices, NEW i, i = At(instructions, ip), i.op = "if"
  PROVE  /\ i.elseLocation # 0 => Lands(i.elseLocation + 1)
         /\ Lands(i.label.continuation)
<1>1. IsOp(ip, {"if"}) /\ IsOp(ip, Openers) /\ ip \in Nat /\ ip \in Places(instructions)
  BY RunningCode DEF IsOp, Openers
<1>2. ASSUME i.elseLocation # 0 PROVE Lands(i.elseLocation + 1)
  <2>1. i.elseLocation \in ElsesOf(ip)
    BY <1>1, <1>2, ElseIsFound
  <2>2. i.elseLocation \in (ip + 1)..MatchingEnd(ip) /\ IsOp(i.elseLocation, {"else"})
    BY <2>1 DEF ElsesOf
  <2>3. MatchingEnd(ip) \in Nat
    BY <1>1, MatchingEndIsEnd, RunningCode
  <2>4. /\ i.elseLocation \in Nat /\ i.elseLocation + 1 > ip
        /\ i.elseLocation + 1 - 1 = i.elseLocation
    BY <1>1, <2>2, <2>3
  <2> QED BY <2>2, <2>4 DEF Lands, IsOp
<1>3. Lands(i.label.continuation)
  <2>1. LeadsOutOf(i.label, instructions, ip)
    BY <1>1, IfLeads
  <2>2. PICK q \in Places(instructions) :
          EndsAt(instructions, ip, q) /\ i.label.continuation = q + 1
    BY <1>1, <2>1 DEF LeadsOutOf, LeadsTo, At
  <2>3. q \in Nat /\ q > ip /\ instructions[q + 1].op = "end"
    BY <1>1, <2>2, RunningCode DEF EndsAt, OpenAt
  <2> QED BY <1>1, <2>2, <2>3 DEF Lands, IsOp, At
<1> QED BY <1>2, <1>3

LEMMA ElseLands ==
  ASSUME Running, ip \in Indices, NEW i, i = At(instructions, ip), i.op = "else"
  PROVE  Lands(i.label.continuation)
<1>1. ElseOfIf(instructions, ip)
  BY RunningCode DEF Structured, ElsesInv, At
<1>2. PICK k \in Places(instructions) :
        instructions[k + 1].op = "if" /\ InnermostAt(instructions, k, ip)
  BY <1>1 DEF ElseOfIf
<1>3. k \in Indices /\ IsOp(k, {"if"}) /\ ElseIn(instructions, k, ip)
  BY <1>2, RunningCode DEF IsOp, At, ElseIn
<1>4. ip \in ElsesOf(k)
  BY <1>3, ElsesAreIn
<1>5. LeadsOutOf(i.label, instructions, k)
  BY <1>3, <1>4, IfLeads
<1> QED BY <1>2, <1>5, LabelLands DEF InnermostAt

LEMMA JumpLands ==
  ASSUME Running, ip \in Indices, ~BranchWraps(ip), NEW i, i = At(instructions, ip), phase' = "run",
         RunIf(i) \/ RunElse(i) \/ RunBr(i) \/ RunBrIf(i) \/ RunBrTable(i)
  PROVE  Lands(ip')
<1>1. \A new : Stop(new) => new = "run"
  BY DEF Stop
<1>2. PopFault(<<"i32">>) # "run"
  BY DEF PopFault
<1>3. ASSUME NEW label, NEW operands, BranchTo(label, operands), Lands(label.continuation)
      PROVE  Lands(ip')
  BY <1>1, <1>3 DEF BranchTo, Continue
<1>4. Lands(ip + 1)
  BY DEF Lands
<1>5. CASE RunIf(i)
  BY <1>1, <1>2, <1>4, <1>5, IfLands DEF RunIf, Popping, Continue
<1>6. CASE RunElse(i)
  BY <1>6, ElseLands DEF RunElse, Continue
<1>7. CASE RunBr(i) \/ RunBrIf(i)
  <2>1. 1 \in DOMAIN DepthsOf(i) /\ LabelsOf(i)[1] = i.label
    <3>1. i.op \in {"br", "br_if"}
      BY <1>7 DEF RunBr, RunBrIf
    <3>2. DepthsOf(i) = <<i.idx>> /\ LabelsOf(i) = <<i.label>>
      BY <3>1 DEF DepthsOf, LabelsOf
    <3> QED BY <3>2
  <2>2. Lands(i.label.continuation)
    BY <2>1, BranchLands
  <2> QED BY <1>1, <1>2, <1>3, <1>4, <1>7, <2>2 DEF RunBr, RunBrIf, Popping, Continue
<1>8. CASE RunBrTable(i)
  <2>1. PICK n \in DOMAIN i.targets : BranchTo(i.targets[n], Below(1))
    BY <1>1, <1>2, <1>8 DEF RunBrTable, Popping
  <2>2. n \in DOMAIN DepthsOf(i) /\ LabelsOf(i) = i.targets
    <3>1. i.op = "br_table"
      BY <1>8 DEF RunBrTable
    <3>2. DepthsOf(i) = i.depths /\ LabelsOf(i) = i.targets
      BY <3>1 DEF DepthsOf, LabelsOf
    <3>3. BranchesAt(instructions, ip)
      BY RunningCode DEF Structured, BranchInv
    <3> QED BY <2>1, <3>1, <3>2, <3>3 DEF BranchesAt, At
  <2> QED BY <1>3, <2>1, <2>2, BranchLands
<1> QED BY <1>5, <1>6, <1>7, <1>8

LEMMA InstructionLands ==
  ASSUME Running, RunInstruction, phase' = "run", ip' # ip, ~BranchWraps(ip)
  PROVE  Lands(ip')
<1> DEFINE i == At(instructions, ip)
<1>1. ip \in Indices /\ Lands(ip + 1)
  <2>1. ip \in Nat /\ ip < Len(instructions) /\ Len(instructions) \in Nat
    BY RunningCode DEF Running, TInv, FrameInv, RunInstruction
  <2> QED BY <2>1, RunningCode DEF Lands
<1>2. ASSUME NEW new \in {"trapped", "popEmpty", "extraElements", "eraseRange",
                          "wrongArguments", "popType", "typesRange"}, Stop(new)
      PROVE  FALSE
  BY <1>2 DEF Stop
<1>3. ASSUME NEW params, Stop(PopFault(params)) PROVE FALSE
  BY <1>3 DEF Stop, PopFault
<1>4. CASE RunSimple(i) \/ RunSelect(i)
  BY <1>1, <1>3, <1>4 DEF RunSimple, RunSelect, Popping, Continue
<1>5. CASE RunTrap(i) \/ RunTrapIndirect(i) \/ RunOutsideTypes(i) \/ RunUnreachable(i)
  BY <1>2, <1>3, <1>5
     DEF RunTrap, RunTrapIndirect, RunOutsideTypes, RunUnreachable, Popping
<1>6. CASE RunLocalSet(i) \/ RunLocalTee(i) \/ RunGlobalSet(i)
  BY <1>1, <1>2, <1>3, <1>6 DEF RunLocalSet, RunLocalTee, RunGlobalSet, Popping
<1>7. CASE RunReturn(i) \/ RunReturnCall(i) \/ RunReturnCallIndirect(i)
  <2>1. ASSUME NEW results, Leave(results) PROVE FALSE
    BY <2>1 DEF Leave
  <2> QED BY <1>2, <1>3, <1>7, <2>1
             DEF RunReturn, RunReturnCall, RunReturnCallIndirect, TailCall, Popping
<1>8. CASE RunIf(i) \/ RunElse(i) \/ RunBr(i) \/ RunBrIf(i) \/ RunBrTable(i)
  <2> HIDE DEF i
  <2>1. i = At(instructions, ip)
    BY DEF i
  <2> QED BY <1>1, <1>8, <2>1, JumpLands
<1>9. CASE RunCall(i) \/ RunCallIndirect(i)
  <2>1. ASSUME NEW callee, NEW operands, CallOn(callee, operands)
        PROVE  Lands(ip')
    BY <1>1, <1>2, <2>1 DEF CallOn, Continue
  <2> QED BY <1>3, <1>9, <2>1 DEF RunCall, RunCallIndirect, Popping
<1> QED BY <1>4, <1>5, <1>6, <1>7, <1>8, <1>9 DEF RunInstruction

\* No step lands in the middle of a block, other than on the next instruction,
\* but for a branch with a label index that wraps.
THEOREM JumpsAlwaysStructured == Spec => JumpsAreStructured
<1> DEFINE Moves == phase = "run" /\ phase' = "run" /\ ip' # ip =>
                      \/ ip' = ip + 1
                      \/ ip' <= ip /\ IsOp(ip', {"loop"})
                      \/ ip' > ip /\ IsOp(ip' - 1, {"else", "end"})
                      \/ BranchWraps(ip)
<1>1. TInv /\ SInv /\ [Next]_vars => [Moves]_vars
  <2> SUFFICES ASSUME TInv, SInv, Next, phase = "run", phase' = "run", ip' # ip,
                      ~BranchWraps(ip)
               PROVE  Lands(ip')
    BY DEF Lands
  <2>1. InterpreterNext
    BY DEF Next, ParserStep, ParserNext, ReadInstruction, ValidatorStep, ValidatorNext,
           StartValidation, ValidateInstruction, FinishValidation
  <2>2. CASE RunEnd
    BY <2>2 DEF RunEnd, Stop, Leave
  <2>3. CASE RunInstruction
    BY <2>3, InstructionLands DEF Running
  <2> QED BY <2>1, <2>2, <2>3 DEF InterpreterNext
<1> QED BY <1>1, SInvAlways, PTL DEF Spec, JumpsAreStructured
=============================================================================
