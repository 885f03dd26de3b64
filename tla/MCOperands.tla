------------------------------ MODULE MCOperands ------------------------------
(* Instructions of every family without blocks, on a 32-bit and a 64-bit     *)
(* memory and table, run on operands that calls supply.                      *)
EXTENDS ControlProperties

Supply(values) == Signature(<<>>, values)

\* The functions the code can call to get operands.
Suppliers ==
  <<Supply(<<"i32", "i32", "i32">>), Supply(<<"i64", "i64", "i64">>),
    Supply(<<"i64", "i32", "i32">>), Supply(<<"i32", "i64", "i32">>),
    Supply(<<"i64", "i32", "i64">>), Supply(<<"i32", "funcref", "i32">>),
    Supply(<<"i64", "funcref", "i64">>), Supply(<<"v128", "v128", "v128">>),
    Supply(<<"i64", "v128">>), Supply(<<"v128", "i32">>), Supply(<<"funcref">>),
    Signature(<<"i32">>, <<>>), Signature(<<"i32">>, <<>>), Empty>>

\* The last two are natives; so may be what an indirect call finds.
LastTwo == {Len(Suppliers) - 2, Len(Suppliers) - 1}

CallTypes == <<Empty, Signature(<<"i32">>, <<>>), Signature(<<"i32", "i32">>, <<"i64">>)>>

\* Two modules that may have put references into the tables.  For both, type 1
\* is the same as here; type 2 is another one, or there is none.
OtherModules ==
  {<<CallTypes[1], CallTypes[2], Signature(<<"i32", "i32", "i32", "i32">>, <<>>)>>,
   <<CallTypes[1], CallTypes[2]>>}

OperandAlphabet ==
  {Plain(op) : op \in {"end", "drop", "select", "i32_const", "i32_add",
                       "v128_bitselect", "extract_lane", "replace_lane",
                       "ref_null", "ref_is_null"}}
  \cup {Indexed(op, k) : op \in {"local_set", "global_set", "load", "store", "memory_fill",
                                 "table_set", "table_grow", "table_fill"},
                         k \in {0, 1}}
  \cup {Indexed(op, 0) : op \in {"local_get", "local_tee", "global_get", "data_drop",
                                 "elem_drop", "ref_func"}}
  \cup {Indexed(op, 1) : op \in {"memory_size", "memory_grow", "v128_load_lane",
                                 "v128_store_lane", "table_get", "table_size"}}
  \cup {Indexed("return_call", k) : k \in {Len(Suppliers) - 3} \cup LastTwo}
  \cup {Typed("select_typed", Supply(ts)) :
          ts \in {<<"i32">>, <<"funcref">>, <<"i64", "i64">>}}
  \cup {Indexed("call", k) : k \in (0..(Len(Suppliers) - 1)) \ LastTwo}
  \cup {Pair(op, 0, k) : op \in {"memory_init", "table_init"}, k \in {0, 1}}
  \cup {Pair(op, k, 0) : op \in {"call_indirect", "return_call_indirect"}, k \in {1, 2}}
  \cup {Pair("call_indirect", 1, 1), Pair("return_call_indirect", 0, 1)}
  \cup {Pair(op, j, k) : op \in {"memory_copy", "table_copy"},
                         j \in {0, 1}, k \in {0, 1}}

\* Just enough to run memory_init on either memory.
Memory64Alphabet ==
  {Plain("end")}
  \cup {Indexed("call", k) : k \in 0..(Len(Suppliers) - 1)}
  \cup {Pair("memory_init", 0, k) : k \in {0, 1}}

NoResult  == Empty
TwoLocals == <<"i32", "i64">>
OneOfEach == <<[type |-> "i32", mutable |-> TRUE],
               [type |-> "i64", mutable |-> FALSE]>>
BothMemories == <<"i32", "i64">>
BothTables == <<[type |-> "funcref", address |-> "i32"],
                [type |-> "funcref", address |-> "i64"]>>
OneElement == <<"funcref">>
NoStray    == {[stackHeight |-> 0, returnTypes |-> <<>>, paramTypes |-> <<>>,
                type |-> "block", unreachable |-> FALSE, label |-> NoLabel]}
=============================================================================
