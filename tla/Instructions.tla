--------------------------- MODULE Instructions ---------------------------
(***************************************************************************)
(* The data that the parser, the validator and the interpreter share: what *)
(* is read from the code section (tokens), the instructions the parser     *)
(* builds from it, and the labels that branches are lowered to.            *)
(*                                                                         *)
(* Values are abstracted to their types.  Code indices are 0-based, as in  *)
(* the program: the instruction with index i is code[i + 1].               *)
(***************************************************************************)
EXTENDS Integers, Sequences

\* The value types the modelled instructions touch (f32 and f64 are treated
\* by the code exactly as i32 and i64 are).
Types == {"i32", "i64", "v128", "funcref"}

NumericTypes == {"i32", "i64", "v128"}

\* struct Label.  A label nobody filled in is value-initialised to zeros.
Labels == [continuation : Nat, arity : Nat, stackHeight : Nat]

NoLabel == [continuation |-> 0, arity |-> 0, stackHeight |-> 0]

\* WasmFile::FunctionType, also what a BlockType denotes: a block type is
\* empty, one result, or an index of a function type.
Signature(params, returns) == [params |-> params, returns |-> returns]

Empty == Signature(<<>>, <<>>)

Signatures == [params : Seq(Types), returns : Seq(Types)]

Tokens == [op : STRING, type : Signatures, idx : Nat, idx2 : Nat,
           depths : Seq(Nat)]

\* An opcode with its immediates, as they stand in the stream: a block type,
\* up to two indices, the label indices of br_table (the default comes last).
Token(op, type, idx, idx2, depths) ==
  [op |-> op, type |-> type, idx |-> idx, idx2 |-> idx2, depths |-> depths]

Plain(op)        == Token(op, Empty, 0, 0, <<>>)
Typed(op, type)  == Token(op, type, 0, 0, <<>>)
Indexed(op, idx) == Token(op, Empty, idx, 0, <<>>)
Pair(op, i, j)   == Token(op, Empty, i, j, <<>>)
Table(depths)    == Token("br_table", Empty, 0, 0, depths)

\* struct Instruction.  label is the Label of BlockLoopArguments, IfArguments
\* (endLabel), else, br and br_if; elseLocation is that of IfArguments, where
\* 0 stands for an empty optional (instruction 0 is never an else); targets
\* are the labels of BranchTableArguments, the default last.
Instruction(t) ==
  [op |-> t.op, type |-> t.type, idx |-> t.idx, idx2 |-> t.idx2,
   depths |-> t.depths, label |-> NoLabel, elseLocation |-> 0, targets |-> <<>>]

Openers == {"block", "loop", "if"}

At(code, i) == code[i + 1]
=============================================================================
