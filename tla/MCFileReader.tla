----------------------------- MODULE MCFileReader -----------------------------
(***************************************************************************)
(* Sections whose types, functions, code and data do or do not fit one     *)
(* another, and one item of each kind that a reader refuses.               *)
(***************************************************************************)
EXTENDS FileReader

Block(index) == [opcode |-> "block", index |-> index, results |-> 1]
Loop(index) == [opcode |-> "loop", index |-> index, results |-> 1]
Code(opened) == [ends |-> TRUE, blocks |-> opened]
Plain == Code({})

Body(locals, opened) == [locals |-> locals, code |-> Code(opened)]
Locals(count) == [count |-> count, type |-> "i32"]

OfType(params, returns) == [params |-> params, returns |-> returns]

LimitsOf(type, min, max) == [type |-> type, min |-> min, max |-> max]

\* An element with all the fields that its type may call for.
Elem(type, kind, opened) ==
  [type |-> type, table |-> 1, kind |-> kind, functions |-> <<0, 0>>,
   expressions |-> <<Code(opened)>>, code |-> Plain]

Section(tag, items) == [tag |-> tag, count |-> Len(items), items |-> items, whole |-> TRUE]

\* Files around functions: what is parsed against the types, in all orders.
CodeSections ==
  {Section("Type", <<OfType(0, 0), OfType(1, 2)>>),
   Section("Type", <<OfType(2, 1)>>),
   Section("Function", <<0>>),
   Section("Function", <<1, 0>>),
   Section("Code", <<Body(<<Locals(1), Locals(1)>>, {Block(0), Loop(1)})>>),
   Section("Code", <<Body(<<Locals(2), Locals(1)>>, {})>>),
   Section("Code", <<Body(<<>>, {Loop(NoIndex), Block(NoIndex)}), Body(<<>>, {Loop(0)})>>),
   [Section("Code", <<Body(<<>>, {})>>) EXCEPT !.items[1].code.ends = FALSE],
   Section("Global", <<[mutability |-> 1, code |-> Code({Block(0)})]>>),
   Section("Element", <<Elem(5, "funcref", {Loop(0)})>>),
   Section("Custom", <<"name", "more">>)}

\* Files around data and what is defined besides functions.
OtherSections ==
  {Section("Type", <<OfType(0, 0)>>),
   Section("Import", <<[type |-> 0, index |-> 0],
                       [type |-> 1, limits |-> LimitsOf(0, 1, 0)],
                       [type |-> 2, limits |-> LimitsOf(5, 1, 1)],
                       [type |-> 3, mutability |-> 0]>>),
   Section("Import", <<[type |-> 4]>>),
   Section("Table", <<LimitsOf(1, 1, 2)>>),
   Section("Memory", <<LimitsOf(1, 2, 1)>>),
   Section("Memory", <<LimitsOf(2, 1, 1)>>),
   Section("Global", <<[mutability |-> 2, code |-> Plain]>>),
   Section("Export", <<[name |-> "e", type |-> 3, index |-> 0]>>),
   Section("Export", <<[name |-> "e", type |-> 4, index |-> 0]>>),
   Section("Start", <<0>>),
   Section("Start", <<0, 0>>),
   Section("Element", [k \in 1..8 |-> Elem(k - 1, IF k > 5 THEN "externref" ELSE 0, {})]),
   Section("Element", <<Elem(8, 0, {})>>),
   Section("Element", <<Elem(1, 1, {})>>),
   Section("Element", <<Elem(6, "i32", {})>>),
   Section("Data", <<[type |-> 0, code |-> Plain], [type |-> 1]>>),
   Section("Data", <<[type |-> 2, memory |-> 1, code |-> Plain]>>),
   Section("Data", <<[type |-> 3]>>),
   Section("DataCount", <<1>>),
   Section("DataCount", <<>>),
   Section("Tag", <<>>),
   [Section("Function", <<0>>) EXCEPT !.count = 2],
   [Section("Function", <<0, 0>>) EXCEPT !.count = 1],
   [Section("Table", <<>>) EXCEPT !.whole = FALSE],
   Section("Custom", <<Garbled>>)}

MCSections == CodeSections \cup OtherSections
=============================================================================
