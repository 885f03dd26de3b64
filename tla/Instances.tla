------------------------------ MODULE Instances ------------------------------
(***************************************************************************)
(* VM::load_module: a module is instantiated in stages, each of which      *)
(* takes the items of its file in order and may trap.  What was done       *)
(* before a trap to the tables and memories that other instances share     *)
(* stays.  Modules are found by the names they are registered under, and   *)
(* an instance lives as long as it is registered, current or being loaded. *)
(*                                                                         *)
(* A constant expression is one instruction, a page is one cell.           *)
(***************************************************************************)
EXTENDS Integers, Sequences, FiniteSets, SequencesExt

CONSTANTS
  Files,          \* the WasmFiles there are to load
  Names,          \* names of modules
  HostName,       \* the name of a module of the host (spectest)
  HostFile,       \* what it has, as if it had been read from a file
  MaxCells,       \* the limit of a store without max (MAX_WASM_PAGES for a
                  \* memory, UINT32_MAX for a table)
  U64,            \* the values a uint64_t has (2^64)
  MaxInstances,   \* bound
  NoMax           \* Limits::max is empty

\* ImportType and ExportType.
Kinds == {"functions", "tables", "memories", "globals"}

-----------------------------------------------------------------------------
(* What read_from_stream builds: lists of records, indices and sizes.      *)

IsList(s) == s \in Seq(ToSet(s))

Lists == Kinds \cup {"imports", "exports", "elements", "data", "start"}

IsLimits(limits) == limits.min \in Nat /\ limits.max \in Nat \cup {NoMax}

IsExpr(e) ==
  /\ e.op \in {"const", "ref_null", "ref_func", "global_get"}
  /\ e.op \in {"ref_func", "global_get"} => e.idx \in Nat

IsImport(i) ==
  /\ i.kind \in Kinds /\ i.env \in Names
  /\ i.kind \in {"tables", "memories"} => IsLimits(i.limits)

IsElement(e) ==
  /\ IsList(e.refs) /\ \A k \in DOMAIN e.refs : IsExpr(e.refs[k])
  /\ e.mode = "active" => e.table \in Nat /\ IsExpr(e.begin)

IsData(d) == d.mode = "active" => d.memory \in Nat /\ IsExpr(d.begin)

IsFile(f) ==
  /\ \A list \in Lists : IsList(f[list])
  /\ \A k \in DOMAIN f.imports : IsImport(f.imports[k])
  /\ \A kind \in {"tables", "memories"} : \A k \in DOMAIN f[kind] : IsLimits(f[kind][k].limits)
  /\ \A k \in DOMAIN f.globals : IsExpr(f.globals[k].init)
  /\ \A k \in DOMAIN f.exports : f.exports[k].kind \in Kinds /\ f.exports[k].idx \in Nat
  /\ \A k \in DOMAIN f.elements : IsElement(f.elements[k])
  /\ \A k \in DOMAIN f.data : IsData(f.data[k])
  /\ \A k \in DOMAIN f.start : f.start[k] \in Nat

ASSUME InstancesAssumption ==
  /\ HostName \in Names /\ MaxCells \in Nat /\ MaxInstances \in Nat \ {0}
  /\ U64 \in Nat /\ U64 > MaxCells
  /\ \A f \in Files \cup {HostFile} : IsFile(f)

VARIABLES
  instances,    \* the RealModules made so far, dead ones included
  stores,       \* the Tables and Memories
  globals,      \* the Globals
  registered,   \* m_registered_modules; 0 is no module
  current,      \* m_current_module; 0 is no module
  load          \* the load_module that runs, or NoLoad

vars == <<instances, stores, globals, registered, current, load>>

Stages == <<"imports", "functions", "globals", "memories", "tables",
            "elements", "data", "start", "finish">>

NoLoad == [id |-> 0, stage |-> "none", item |-> 0, makeCurrent |-> FALSE]

ReferenceTypes == {"funcref", "externref"}

\* A value that names no function.
Plain(type, n) == [type |-> type, n |-> n, home |-> 0, crossed |-> FALSE]

Null(type) == Plain(type, -1)

\* A reference to a function of a module.  crossed (history): the code that made
\* it was that of another module.
Reference(index, home, crossed) ==
  [type |-> "funcref", n |-> index, home |-> home, crossed |-> crossed]

-----------------------------------------------------------------------------
(* The constructor of Validator.                                           *)

\* The imports of a kind, in order.
ImportsOf(f, kind) ==
  LET places == {k \in DOMAIN f.imports : f.imports[k].kind = kind} IN
  [n \in 1..Cardinality(places) |->
     f.imports[CHOOSE k \in places : Cardinality({j \in places : j <= k}) = n]]

\* The index space of a kind: what is imported, then what is defined.
Space(f, kind) == ImportsOf(f, kind) \o f[kind]

HasIndex(f, kind, index) == index < Len(Space(f, kind))

\* validate_constant_expression: only imported, constant globals are read.
ValidExpr(f, e, type) ==
  CASE e.op = "const"      -> e.type = type
    [] e.op = "ref_null"   -> e.type = type
    [] e.op = "ref_func"   -> HasIndex(f, "functions", e.idx) /\ type = "funcref"
    [] e.op = "global_get" ->
         /\ e.idx < Len(ImportsOf(f, "globals"))
         /\ ~Space(f, "globals")[e.idx + 1].mutable
         /\ Space(f, "globals")[e.idx + 1].type = type

\* Limits::read_from_stream.
OrderedLimits(limits) == limits.max # NoMax => limits.min <= limits.max

ValidPages(limits) ==
  limits.min <= MaxCells /\ (limits.max # NoMax => limits.max <= MaxCells)

\* Mutant: the index of the table is not checked.
ValidElementAnyTable(f, e) ==
  /\ \A k \in DOMAIN e.refs : ValidExpr(f, e.refs[k], e.type)
  /\ e.mode = "active" /\ HasIndex(f, "tables", e.table) =>
       ValidExpr(f, e.begin, Space(f, "tables")[e.table + 1].limits.address)

ValidElement(f, e) ==
  /\ \A k \in DOMAIN e.refs : ValidExpr(f, e.refs[k], e.type)
  /\ e.mode = "active" =>
       /\ HasIndex(f, "tables", e.table)
       /\ e.type = Space(f, "tables")[e.table + 1].type
       /\ ValidExpr(f, e.begin, Space(f, "tables")[e.table + 1].limits.address)

ValidData(f, d) ==
  d.mode = "active" =>
    /\ HasIndex(f, "memories", d.memory)
    /\ ValidExpr(f, d.begin, Space(f, "memories")[d.memory + 1].limits.address)

\* What read_from_stream and the constructor of Validator accept.
Valid(f) ==
  /\ \A kind \in {"tables", "memories"} : \A k \in DOMAIN Space(f, kind) :
       OrderedLimits(Space(f, kind)[k].limits)
  /\ \A k \in DOMAIN f.globals : ValidExpr(f, f.globals[k].init, f.globals[k].type)
  /\ \A k \in DOMAIN Space(f, "memories") : ValidPages(Space(f, "memories")[k].limits)
  /\ IsInjective([k \in DOMAIN f.exports |-> f.exports[k].name])
  /\ \A k \in DOMAIN f.exports : HasIndex(f, f.exports[k].kind, f.exports[k].idx)
  /\ \A k \in DOMAIN f.elements : ValidElement(f, f.elements[k])
  /\ \A k \in DOMAIN f.data : ValidData(f, f.data[k])
  /\ \A k \in DOMAIN f.start :
       /\ HasIndex(f, "functions", f.start[k])
       /\ Space(f, "functions")[f.start[k] + 1].type = "start"

-----------------------------------------------------------------------------
NewInstance(f) ==
  [file |-> f, state |-> "loading", functions |-> <<>>, tables |-> <<>>,
   memories |-> <<>>, globals |-> <<>>, dropped |-> {}]

\* A store of its initial size, filled with zeros or null references.
NewStore(type, limits, value) ==
  [type |-> type, max |-> limits.max, address |-> limits.address,
   cells |-> [k \in 1..limits.min |-> value]]

\* The module of the host has its functions, tables, memories and constants
\* from the beginning.
HostInstance ==
  [NewInstance(HostFile) EXCEPT
     !.state = "ready",
     !.functions = [k \in DOMAIN HostFile.functions |->
                      [home |-> 1, type |-> HostFile.functions[k].type]],
     !.tables = [k \in DOMAIN HostFile.tables |-> k],
     !.memories = [k \in DOMAIN HostFile.memories |-> Len(HostFile.tables) + k],
     !.globals = [k \in DOMAIN HostFile.globals |-> k]]

HostStores ==
  [k \in DOMAIN HostFile.tables |->
     LET t == HostFile.tables[k] IN NewStore(t.type, t.limits, Null(t.type))]
  \o [k \in DOMAIN HostFile.memories |->
        NewStore("byte", HostFile.memories[k].limits, 0)]

HostGlobals ==
  [k \in DOMAIN HostFile.globals |->
     LET g == HostFile.globals[k] IN
     [type |-> g.type, mutable |-> g.mutable,
      value |-> Plain(g.type, g.init.n)]]

ASSUME HostAssumption ==
  /\ Valid(HostFile) /\ HostFile.imports = <<>>
  /\ \A k \in DOMAIN HostFile.tables :
       /\ HostFile.tables[k].limits.min <= MaxCells
       /\ HostFile.tables[k].type \in ReferenceTypes

Init ==
  /\ instances = <<HostInstance>>
  /\ stores = HostStores
  /\ globals = HostGlobals
  /\ registered = [n \in Names |-> IF n = HostName THEN 1 ELSE 0]
  /\ current = 0
  /\ load = NoLoad

Live == ({registered[n] : n \in Names} \cup {current, load.id}) \ {0}

Loading == instances[load.id]

-----------------------------------------------------------------------------
(* The stages of load_module.                                              *)

\* read_from_stream has validated the file.
Begin(f, makeCurrent) ==
  /\ load = NoLoad
  /\ Len(instances) < MaxInstances
  /\ Valid(f)
  /\ instances' = Append(instances, NewInstance(f))
  /\ load' = [id |-> Len(instances) + 1, stage |-> "imports", item |-> 1,
              makeCurrent |-> makeCurrent]
  /\ UNCHANGED <<stores, globals, registered, current>>

\* A Trap leaves load_module.
Fail ==
  /\ instances' = [instances EXCEPT ![load.id].state = "failed"]
  /\ load' = NoLoad
  /\ UNCHANGED <<stores, globals, registered, current>>

\* What the code does not check has gone wrong.
Fault ==
  /\ load' = [load EXCEPT !.stage = "fault"]
  /\ UNCHANGED <<instances, stores, globals, registered, current>>

NextItem == load' = [load EXCEPT !.item = load.item + 1]

Add(kind, object) ==
  instances' = [instances EXCEPT ![load.id][kind] = Append(Loading[kind], object)]

\* Loading an item of this stage.
Item(stage, items) ==
  load.stage = stage /\ load.item <= Len(items)

\* Mutant: a limit is only compared when there is one.
FitsWithinIfAny(limits, other) ==
  /\ limits.min >= other.min
  /\ other.max # NoMax /\ limits.max # NoMax => limits.max <= other.max
  /\ limits.address = other.address

\* Limits::fits_within; the min of a store is its size.
FitsWithin(limits, other) ==
  /\ limits.min >= other.min
  /\ other.max # NoMax => limits.max # NoMax /\ limits.max <= other.max
  /\ limits.address = other.address

LimitsOf(s) == [min |-> Len(s.cells), max |-> s.max, address |-> s.address]

\* What the import declares is what is found.
ImportFits(i, object) ==
  CASE i.kind = "functions" -> object.type = i.type
    [] i.kind = "globals"   -> /\ globals[object].type = i.type
                               /\ globals[object].mutable = i.mutable
    [] i.kind = "tables"    -> /\ stores[object].type = i.type
                               /\ FitsWithin(LimitsOf(stores[object]), i.limits)
    [] i.kind = "memories"  -> FitsWithin(LimitsOf(stores[object]), i.limits)

\* The exports that find_import and try_import find: at most one.
Found(i) ==
  IF registered[i.env] = 0 THEN {}
  ELSE LET m == instances[registered[i.env]] IN
       {m[i.kind][x.idx + 1] :
          x \in {y \in ToSet(m.file.exports) : y.name = i.name /\ y.kind = i.kind}}

Import ==
  /\ Item("imports", Loading.file.imports)
  /\ LET i == Loading.file.imports[load.item] IN
       \/ \E object \in Found(i) :
            /\ ImportFits(i, object)
            /\ Add(i.kind, object)
            /\ NextItem
            /\ UNCHANGED <<stores, globals, registered, current>>
       \/ /\ \A object \in Found(i) : ~ImportFits(i, object)
          /\ Fail

MakeFunction ==
  /\ Item("functions", Loading.file.functions)
  /\ Add("functions", [home |-> load.id,
                       type |-> Loading.file.functions[load.item].type])
  /\ NextItem
  /\ UNCHANGED <<stores, globals, registered, current>>

\* Mutant: a reference is to the module that is current.
EvaluateInCurrent(e) ==
  CASE e.op = "const"      -> Plain(e.type, e.n)
    [] e.op = "ref_null"   -> Null(e.type)
    [] e.op = "ref_func"   -> Reference(e.idx, current, FALSE)
    [] e.op = "global_get" -> globals[Loading.globals[e.idx + 1]].value

\* run_bare_code, and the accesses in it that are not checked.
Evaluate(e) ==
  CASE e.op = "const"      -> Plain(e.type, e.n)
    [] e.op = "ref_null"   -> Null(e.type)
    [] e.op = "ref_func"   -> Reference(e.idx, load.id, FALSE)
    [] e.op = "global_get" -> globals[Loading.globals[e.idx + 1]].value

CanEvaluate(e, type) ==
  /\ e.op = "global_get" => e.idx < Len(Loading.globals)
  /\ Evaluate(e).type = type

MakeGlobal ==
  /\ Item("globals", Loading.file.globals)
  /\ LET g == Loading.file.globals[load.item] IN
     IF ~CanEvaluate(g.init, g.type) THEN Fault
     ELSE /\ globals' = Append(globals, [type |-> g.type, mutable |-> g.mutable,
                                         value |-> Evaluate(g.init)])
          /\ Add("globals", Len(globals) + 1)
          /\ NextItem
          /\ UNCHANGED <<stores, registered, current>>

MakeStore(kind, store) ==
  /\ stores' = Append(stores, store)
  /\ Add(kind, Len(stores) + 1)
  /\ NextItem
  /\ UNCHANGED <<globals, registered, current>>

MakeMemory ==
  /\ Item("memories", Loading.file.memories)
  /\ MakeStore("memories",
       NewStore("byte", Loading.file.memories[load.item].limits, 0))

\* A table of what is no reference (get_reference_type_from_reftype) traps.  The
\* loop that fills a table counts its cells in 32 bits: it does not come to an
\* end for a table that is larger.
MakeTable ==
  /\ Item("tables", Loading.file.tables)
  /\ LET t == Loading.file.tables[load.item] IN
     IF t.type \notin ReferenceTypes THEN Fail
     ELSE /\ t.limits.min <= MaxCells
          /\ MakeStore("tables", NewStore(t.type, t.limits, Null(t.type)))

\* The cells of a store from begin on are replaced.
Overwrite(id, begin, values) ==
  stores' = [stores EXCEPT ![id].cells =
    [k \in DOMAIN stores[id].cells |->
       IF k - begin \in DOMAIN values THEN values[k - begin]
                                      ELSE stores[id].cells[k]]]

\* An active segment is written, or nothing of it when it does not fit.
Place(kind, index, begin, values) ==
  IF ~(index < Len(Loading[kind])) THEN Fault
  ELSE LET id == Loading[kind][index + 1] IN
       IF ~CanEvaluate(begin, stores[id].address) THEN Fault
       ELSE IF Evaluate(begin).n + Len(values) > Len(stores[id].cells) THEN Fail
       ELSE /\ Overwrite(id, Evaluate(begin).n, values)
            /\ instances' = [instances EXCEPT ![load.id].dropped =
                               Loading.dropped \cup {<<kind, load.item>>}]
            /\ NextItem
            /\ UNCHANGED <<globals, registered, current>>

\* Mutant: a segment that is not active is not passed over.
LeaveStuck(kind, mode) ==
  /\ instances' = [instances EXCEPT ![load.id].dropped =
       Loading.dropped \cup
         (IF mode = "declarative" THEN {<<kind, load.item>>} ELSE {})]
  /\ UNCHANGED <<stores, globals, registered, current, load>>

\* What is not active stays for table.init and memory.init, unless it is a
\* declarative element.
Leave(kind, mode) ==
  /\ instances' = [instances EXCEPT ![load.id].dropped =
       Loading.dropped \cup
         (IF mode = "declarative" THEN {<<kind, load.item>>} ELSE {})]
  /\ NextItem
  /\ UNCHANGED <<stores, globals, registered, current>>

PlaceElement ==
  /\ Item("elements", Loading.file.elements)
  /\ LET e == Loading.file.elements[load.item] IN
     IF e.mode # "active" THEN Leave("tables", e.mode)
     ELSE IF \E k \in DOMAIN e.refs : ~CanEvaluate(e.refs[k], e.type) THEN Fault
     ELSE Place("tables", e.table, e.begin,
                [k \in DOMAIN e.refs |-> Evaluate(e.refs[k])])

PlaceData ==
  /\ Item("data", Loading.file.data)
  /\ LET d == Loading.file.data[load.item] IN
     IF d.mode # "active" THEN Leave("memories", d.mode)
     ELSE Place("memories", d.memory, d.begin, d.bytes)

\* The start function returns or traps; meanwhile it runs like any code.
Start ==
  /\ Item("start", Loading.file.start)
  /\ \/ NextItem /\ UNCHANGED <<instances, stores, globals, registered, current>>
     \/ Fail

\* What a stage goes through.
ItemsOf(stage) == IF stage = "finish" THEN <<>> ELSE Loading.file[stage]

StageIndex(stage) == CHOOSE k \in DOMAIN Stages : Stages[k] = stage

\* Mutant: the new module is current before its start function has run.
NextStageCurrent ==
  /\ load.stage \in ToSet(Stages) \ {"finish"}
  /\ load.item > Len(ItemsOf(load.stage))
  /\ load' = [load EXCEPT !.stage = Stages[StageIndex(load.stage) + 1], !.item = 1]
  /\ current' = IF load.makeCurrent THEN load.id ELSE current
  /\ UNCHANGED <<instances, stores, globals, registered>>

NextStage ==
  /\ load.stage \in ToSet(Stages) \ {"finish"}
  /\ load.item > Len(ItemsOf(load.stage))
  /\ load' = [load EXCEPT !.stage = Stages[StageIndex(load.stage) + 1], !.item = 1]
  /\ UNCHANGED <<instances, stores, globals, registered, current>>

Finish ==
  /\ load.stage = "finish"
  /\ instances' = [instances EXCEPT ![load.id].state = "ready"]
  /\ current' = IF load.makeCurrent THEN load.id ELSE current
  /\ load' = NoLoad
  /\ UNCHANGED <<stores, globals, registered>>

LoadStep ==
  \/ Import
  \/ MakeFunction
  \/ MakeGlobal
  \/ MakeMemory
  \/ MakeTable
  \/ PlaceElement
  \/ PlaceData
  \/ Start
  \/ NextStage
  \/ Finish

-----------------------------------------------------------------------------
(* Between loads, and in a start function.                                 *)

\* register_module with the current module or with one that has a name.
Register(n) ==
  /\ load = NoLoad
  /\ n # HostName
  /\ \E x \in Live : registered' = [registered EXCEPT ![n] = x]
  /\ UNCHANGED <<instances, stores, globals, current, load>>

\* The instances whose code may be running: between loads it is called from
\* outside, in the start stage by the start function.  The host has no code.
Running ==
  IF load = NoLoad \/ load.stage = "start" THEN Live \ {1} ELSE {}

MaxOf(s) == IF s.max = NoMax THEN MaxCells ELSE s.max

\* The store has size cells from now on; new ones hold null or zero.
Resize(kind, id, size) ==
  /\ stores' = [stores EXCEPT ![id].cells =
       [k \in 1..size |->
          IF k \in DOMAIN stores[id].cells THEN stores[id].cells[k]
          ELSE IF kind = "tables" THEN Null(stores[id].type) ELSE 0]]
  /\ UNCHANGED <<instances, globals, registered, current, load>>

\* The size after a growth by n is a uint64_t, and so is an n of 64 bits: the
\* sum may wrap.
GrownSize(s, n) ==
  IF s.address = "i64" THEN (Len(s.cells) + n) % U64 ELSE Len(s.cells) + n

\* Mutant: the size that is checked is the one before the growth.
GrowStorePast(kind, id, n) ==
  /\ Len(stores[id].cells) <= MaxOf(stores[id])
  /\ kind = "tables" => n <= MaxCells /\ GrownSize(stores[id], n) = Len(stores[id].cells) + n
  /\ Resize(kind, id, GrownSize(stores[id], n))

\* memory.grow and table.grow by n, as far as the limit.  The loop that grows a
\* table counts in 32 bits and does not come to an end for more, nor when the
\* sum has wrapped; a memory has the size that the sum has wrapped to.
GrowStore(kind, id, n) ==
  /\ GrownSize(stores[id], n) <= MaxOf(stores[id])
  /\ kind = "tables" => n <= MaxCells /\ GrownSize(stores[id], n) = Len(stores[id].cells) + n
  /\ Resize(kind, id, GrownSize(stores[id], n))

\* The instances whose code may run in a run_function that x has begun: x, and
\* whichever its tail calls lead to.  They find functions and tables in x, for
\* perform_tail_call sets the mod of the frame and not the one run_function
\* goes by.
CodeIn(x) ==
  LET named == {<<r.home, r.n + 1>> : r \in UNION {ToSet(stores[id].cells) :
                                               id \in ToSet(instances[x].tables)}}
      called == ToSet(instances[x].functions)
                  \cup {instances[p[1]].functions[p[2]] :
                          p \in {q \in named : /\ q[1] \in DOMAIN instances
                                              /\ q[2] \in DOMAIN instances[q[1]].functions}}
  IN  {x} \cup (({c.home : c \in called} \cap Live) \ {1})

\* table.set of a reference that ref.func makes, in code of y that goes by x:
\* the indices are those of y, the table and the module of the reference x's.
SetTable(x, y, j, k, f) ==
  /\ j \in DOMAIN Space(instances[y].file, "tables")
  /\ Space(instances[y].file, "tables")[j].type = "funcref"
  /\ stores' = [stores EXCEPT ![instances[x].tables[j]].cells[k] =
                  Reference(f - 1, x, y # x)]
  /\ UNCHANGED <<instances, globals, registered, current, load>>

RunCode ==
  \E x \in Running :
    \/ \E kind \in {"tables", "memories"}, n \in 1..(U64 - 1) :
         \E id \in ToSet(instances[x][kind]) : GrowStore(kind, id, n)
    \/ \E y \in CodeIn(x), j \in DOMAIN instances[x].tables :
         \E k \in DOMAIN stores[instances[x].tables[j]].cells,
            f \in DOMAIN instances[y].functions : SetTable(x, y, j, k, f)

Next ==
  \/ \E f \in Files, makeCurrent \in BOOLEAN : Begin(f, makeCurrent)
  \/ LoadStep
  \/ \E n \in Names : Register(n)
  \/ RunCode

\* Code that is called runs on.
Spec == Init /\ [][Next]_vars /\ WF_vars(LoadStep)

-----------------------------------------------------------------------------
(* Properties.                                                             *)

TypeOK ==
  /\ \A x \in DOMAIN instances : instances[x].state \in {"loading", "ready", "failed"}
  /\ \A x \in DOMAIN instances, kind \in {"tables", "memories"} :
       ToSet(instances[x][kind]) \subseteq DOMAIN stores
  /\ \A x \in DOMAIN instances : ToSet(instances[x].globals) \subseteq DOMAIN globals
  /\ \A s \in DOMAIN stores : Len(stores[s].cells) <= MaxOf(stores[s])
  /\ registered \in [Names -> 0..Len(instances)]
  /\ current \in 0..Len(instances)
  /\ load.id \in 0..Len(instances)

\* Of what the validator has accepted, instantiation never evaluates an
\* expression that reads a missing global or has another type than its use,
\* nor names a missing table or memory, whatever was imported in their place.
ValidatedModulesLoad == load.stage /= "fault"

\* Exception: the growth of a memory of 64-bit addresses may wrap and leave it
\* with fewer pages than it had.
MayShrink(kind, limits) == kind = "memories" /\ limits.address = "i64"

\* What an instance has imported never gets outside the limits it declared,
\* which its code was validated with, though others grow it: never above, and
\* never below unless it is a memory that may shrink.
ImportedLimitsHold ==
  \A x \in DOMAIN instances, kind \in {"tables", "memories"} :
    LET declared == ImportsOf(instances[x].file, kind) IN
    \A k \in DOMAIN declared \cap DOMAIN instances[x][kind] :
      LET size == Len(stores[instances[x][kind][k]].cells) IN
      /\ size >= declared[k].limits.min \/ MayShrink(kind, declared[k].limits)
      /\ declared[k].limits.max # NoMax => size <= declared[k].limits.max

\* Only modules that were instantiated to the end, start function included,
\* can be found by name or are current.
OnlyReadyModulesVisible ==
  \A x \in ({registered[n] : n \in Names} \cup {current}) \ {0} :
    instances[x].state = "ready"

\* A reference, wherever it has been stored, names a function that the module
\* it was made in has: an index the validator accepted in the index space of a
\* file is never used with another module's functions, nor before they are made.
\* Exception: the references that code has made in a run_function of another
\* module, which a tail call had led to it (crossed).
ReferencesNameFunctions ==
  LET Named(r) ==
        r.home # 0 /\ ~r.crossed => r.n < Len(instances[r.home].functions) IN
  /\ \A s \in DOMAIN stores : stores[s].type # "byte" =>
       \A k \in DOMAIN stores[s].cells : Named(stores[s].cells[k])
  /\ \A g \in DOMAIN globals : Named(globals[g].value)

\* Every load ends, and leaves a ready or a failed module.
LoadsEnd == load # NoLoad ~> load = NoLoad
=============================================================================
