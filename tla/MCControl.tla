------------------------------ MODULE MCControl ------------------------------
(* Small alphabets for the pipeline of parser, validator and interpreter.   *)
EXTENDS ControlProperties

I32 == <<"i32">>

Result   == Signature(<<>>, I32)
Unary    == Signature(I32, I32)
Convert  == Signature(I32, <<"i64">>)
TwoTypes == Signature(<<>>, <<"i32", "i64">>)

\* Read outside of the labels: it looks like a block that ends at once.
Stray == {[stackHeight |-> 0, returnTypes |-> <<>>, paramTypes |-> <<>>,
           type |-> "block", unreachable |-> FALSE,
           label |-> [continuation |-> 1, arity |-> 0, stackHeight |-> 1]]}

\* Blocks and loops, left by every kind of branch, also with the last index.
LoopAlphabet ==
  {Typed("block", Empty), Typed("block", Result), Typed("loop", Empty),
   Plain("end"), Indexed("br", 0), Indexed("br", 1), Indexed("br_if", 0),
   Indexed("br_if", 1), Indexed("br_if", U32 - 1), Table(<<0, 1>>),
   Table(<<U32 - 1, 0>>), Plain("i32_const"), Plain("drop"),
   Plain("unreachable")}

\* Ifs with and without else, parameters, several results and calls.
IfAlphabet ==
  {Typed("if", Empty), Typed("if", Unary), Typed("if", Convert),
   Typed("loop", Unary), Plain("else"), Plain("end"), Indexed("br", 0),
   Indexed("br_if", 0), Plain("i32_const"), Plain("i64_eqz"),
   Indexed("call", 0), Plain("return"), Plain("unreachable")}

\* Just enough to branch out of an if and use an operand below it.
IfBranchAlphabet ==
  {Typed("if", Empty), Indexed("br", 0), Plain("i32_const"), Plain("drop"),
   Plain("end")}

IntFunction == Result
TwoFunction == TwoTypes
NoResult    == Empty

NoTypes   == <<>>
NoForeign == {}
TwoValues == <<TwoTypes>>
=============================================================================
