------------------------------- MODULE Parser -------------------------------
(***************************************************************************)
(* parse(): one opcode with its immediates is read from the stream at each *)
(* step and appended to the code; a stack of open blocks resolves the      *)
(* labels of block, if and else when their end is read.  The stream is     *)
(* arbitrary: any token of Alphabet may come next, and it may stop at any  *)
(* point.                                                                  *)
(***************************************************************************)
EXTENDS Instructions, SequencesExt

CONSTANTS
  Alphabet,     \* the tokens the stream may hold
  MaxLength     \* bound: tokens of a stream that is not cut short

ASSUME ParserAssumption ==
  /\ MaxLength \in Nat
  /\ Alphabet \subseteq Tokens

VARIABLES
  phase,            \* where the function is: see Phases
  instructions,     \* the code built so far
  blockBeginStack   \* the blocks that are open

parserVars == <<phase, instructions, blockBeginStack>>

\* struct BlockBeginInfo
BlockBegins == [begin : Nat, arity : Nat, isFake : BOOLEAN]

ParserInit ==
  /\ phase = "parse"
  /\ instructions = <<>>
  /\ blockBeginStack = <<>>

-----------------------------------------------------------------------------
Open(i, begin) ==
  /\ instructions' = Append(instructions, i)
  /\ blockBeginStack' = Append(blockBeginStack, begin)
  /\ UNCHANGED phase

\* block and if wait for their end, which knows where they continue.
ReadBlockOrIf(t) ==
  /\ t.op \in {"block", "if"}
  /\ Open(Instruction(t), [begin  |-> Len(instructions),
                           arity  |-> Len(t.type.returns),
                           isFake |-> FALSE])

\* Mutants: a loop that continues one instruction too early, or too late.
ReadLoopAt(t, shift) ==
  /\ t.op = "loop"
  /\ Open([Instruction(t) EXCEPT
             !.label = [continuation |-> Len(instructions) + shift,
                        arity |-> Len(t.type.params), stackHeight |-> 0]],
          [begin |-> 0, arity |-> 0, isFake |-> TRUE])

ReadLoopBefore(t) == ReadLoopAt(t, -1)

ReadLoopAfter(t) == ReadLoopAt(t, 1)

\* A loop continues at itself; its entry of the stack only matches an end.
ReadLoop(t) ==
  /\ t.op = "loop"
  /\ Open([Instruction(t) EXCEPT !.label = [continuation |-> Len(instructions),
                                            arity |-> Len(t.type.params),
                                            stackHeight |-> 0]],
          [begin |-> 0, arity |-> 0, isFake |-> TRUE])

\* The innermost open block must be an if.  For a loop the instruction looked
\* at is instruction 0, whatever that is.
ReadElse(t) ==
  /\ t.op = "else"
  /\ IF /\ blockBeginStack # <<>>
        /\ At(instructions, Last(blockBeginStack).begin).op = "if"
     THEN /\ instructions' =
               Append([instructions EXCEPT
                         ![Last(blockBeginStack).begin + 1].elseLocation =
                           Len(instructions)],
                      Instruction(t))
          /\ UNCHANGED phase
     ELSE /\ phase' = "rejected"
          /\ UNCHANGED instructions
  /\ UNCHANGED blockBeginStack

\* Mutant: the else does not learn where its if ends.
ResolveWithoutElse(code, b, label) ==
  [code EXCEPT ![b + 1].label = label]

\* The label of the block that starts at b, and of its else if it has one.
Resolve(code, b, label) ==
  LET opener == At(code, b)
      isPart(i) == \/ i = b + 1
                   \/ opener.elseLocation # 0 /\ i = opener.elseLocation + 1
  IN  [i \in DOMAIN code |->
         IF isPart(i) THEN [code[i] EXCEPT !.label = label] ELSE code[i]]

\* The end of the outermost level is the end of the function.
ReadEnd(t) ==
  /\ t.op = "end"
  /\ LET code == Append(instructions, Instruction(t)) IN
     IF blockBeginStack = <<>>
     THEN /\ instructions' = code
          /\ phase' = "parsed"
          /\ UNCHANGED blockBeginStack
     ELSE LET begin == Last(blockBeginStack) IN
          /\ blockBeginStack' = Front(blockBeginStack)
          /\ instructions' =
               IF begin.isFake
               THEN code
               ELSE Resolve(code, begin.begin,
                            [continuation |-> Len(code), arity |-> begin.arity,
                             stackHeight |-> 0])
          /\ UNCHANGED phase

ReadOther(t) ==
  /\ t.op \notin Openers \cup {"else", "end"}
  /\ instructions' = Append(instructions, Instruction(t))
  /\ UNCHANGED <<phase, blockBeginStack>>

EndOfStream ==
  /\ phase' = "rejected"
  /\ UNCHANGED <<instructions, blockBeginStack>>

\* Only streams that can still be closed within the bound are followed.
ReadInstruction ==
  /\ phase = "parse"
  /\ \E t \in Alphabet :
       \/ ReadBlockOrIf(t)
       \/ ReadLoop(t)
       \/ ReadElse(t)
       \/ ReadEnd(t)
       \/ ReadOther(t)
  /\ phase' = "parse" => Len(instructions') + Len(blockBeginStack') < MaxLength

ParserNext == ReadInstruction \/ (phase = "parse" /\ EndOfStream)
=============================================================================
