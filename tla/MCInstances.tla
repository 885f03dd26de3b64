----------------------------- MODULE MCInstances -----------------------------
(***************************************************************************)
(* Files that lend a table, a memory, a global and a function to one       *)
(* another, and files that instantiation or validation turns down.         *)
(***************************************************************************)
EXTENDS Instances

Limits(min, max) == [min |-> min, max |-> max, address |-> "i32"]
WideLimits(min, max) == [min |-> min, max |-> max, address |-> "i64"]

Number(n) == [op |-> "const", type |-> "i32", n |-> n]
WideNumber(n) == [op |-> "const", type |-> "i64", n |-> n]
Func(index) == [op |-> "ref_func", idx |-> index]
GetGlobal(index) == [op |-> "global_get", idx |-> index]

FunctionImport(env) == [env |-> env, name |-> "f", kind |-> "functions", type |-> "start"]
GlobalImport(env) == [env |-> env, name |-> "g", kind |-> "globals",
                      type |-> "i32", mutable |-> FALSE]
TableImport(env, limits) == [env |-> env, name |-> "t", kind |-> "tables",
                             type |-> "funcref", limits |-> limits]
MemoryImport(env, limits) == [env |-> env, name |-> "m", kind |-> "memories",
                              limits |-> limits]
Export(name, kind, index) == [name |-> name, kind |-> kind, idx |-> index]

Elements(begin, refs) == [mode |-> "active", table |-> 0, type |-> "funcref",
                          begin |-> begin, refs |-> refs]

Empty == [imports |-> <<>>, functions |-> <<>>, globals |-> <<>>,
          memories |-> <<>>, tables |-> <<>>, exports |-> <<>>,
          elements |-> <<>>, data |-> <<>>, start |-> <<>>]

Host == [Empty EXCEPT
  !.functions = <<[type |-> "start"]>>,
  !.globals = <<[type |-> "i32", mutable |-> FALSE, init |-> Number(1)]>>,
  !.tables = <<[type |-> "funcref", limits |-> Limits(1, 2)]>>,
  !.exports = <<Export("f", "functions", 0), Export("t", "tables", 0),
                Export("g", "globals", 0)>>]

\* Lends what it defines; its memory has no max.
Lender == [Empty EXCEPT
  !.imports = <<FunctionImport("host")>>,
  !.functions = <<[type |-> "start"]>>,
  !.globals = <<[type |-> "i32", mutable |-> FALSE, init |-> Number(0)]>>,
  !.memories = <<[limits |-> Limits(1, NoMax)]>>,
  !.tables = <<[type |-> "funcref", limits |-> Limits(1, 2)]>>,
  !.exports = <<Export("f", "functions", 1), Export("t", "tables", 0),
                Export("m", "memories", 0), Export("g", "globals", 0)>>,
  !.elements = <<[Elements(Number(0), <<Func(1)>>) EXCEPT !.mode = "declarative"]>>]

\* Writes into a table it imports, at an offset it imports, and runs code.
Borrower(env) == [Empty EXCEPT
  !.imports = <<TableImport(env, Limits(1, 2)), GlobalImport(env)>>,
  !.functions = <<[type |-> "start"], [type |-> "other"], [type |-> "other"]>>,
  !.globals = <<[type |-> "funcref", mutable |-> TRUE, init |-> Func(2)],
                [type |-> "i32", mutable |-> FALSE, init |-> GetGlobal(0)]>>,
  !.exports = <<Export("t", "tables", 0), Export("g", "globals", 2)>>,
  !.elements = <<Elements(Number(0), <<Func(2)>>),
                 Elements(GetGlobal(0), <<Func(0)>>)>>,
  !.start = <<0>>]

\* Has declared a smaller memory than the lender allows.
Strict == [Empty EXCEPT !.imports = <<MemoryImport("a", Limits(1, 2))>>]

\* Takes the lender's memory as it is, and keeps a data segment.
Writer == [Empty EXCEPT
  !.imports = <<MemoryImport("a", Limits(1, NoMax))>>,
  !.data = <<[mode |-> "passive", bytes |-> <<5>>],
             [mode |-> "active", memory |-> 0, begin |-> Number(0), bytes |-> <<7>>],
             [mode |-> "active", memory |-> 0, begin |-> Number(1), bytes |-> <<8>>]>>]

\* Its table has 64-bit addresses; once as it should be, once not.
Wide(begin) == [Empty EXCEPT
  !.functions = <<[type |-> "start"]>>,
  !.tables = <<[type |-> "funcref", limits |-> WideLimits(1, NoMax)]>>,
  !.elements = <<Elements(begin, <<Func(0)>>)>>]

\* Lends a memory of 64-bit addresses, whose growth may wrap.
WideLender == [Empty EXCEPT
  !.memories = <<[limits |-> WideLimits(1, NoMax)]>>,
  !.exports = <<Export("m", "memories", 0)>>]

\* Takes it as it was made.
WideReader == [Empty EXCEPT
  !.imports = <<MemoryImport("a", WideLimits(1, NoMax))>>,
  !.exports = <<Export("m", "memories", 0)>>]

\* Its table would hold numbers.
NumberTable == [Empty EXCEPT
  !.tables = <<[type |-> "i32", limits |-> Limits(1, 1)]>>]

\* Names a table that it has not.
NoTable == [Empty EXCEPT
  !.functions = <<[type |-> "start"]>>,
  !.elements = <<Elements(Number(0), <<Func(0)>>)>>]

AllFiles == {Lender, Borrower("host"), Borrower("a"), Strict, Writer,
             Wide(WideNumber(0)), Wide(Number(0)), NoTable,
             WideLender, WideReader, NumberTable}
=============================================================================
