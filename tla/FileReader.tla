------------------------------ MODULE FileReader ------------------------------
(***************************************************************************)
(* WasmFile::read_from_stream: the sections of a file in the order they    *)
(* come, each read as a vector of items by the reader of its items, and    *)
(* then handed to Validator.  Code is parsed while it is read, against     *)
(* what s_currentWasmFile has of its types by then.                        *)
(*                                                                         *)
(* The bytes of an item are a record of its fields, or Garbled when a      *)
(* value in it cannot be read (Leb128, strings).  Of code, the parser      *)
(* keeps here the instructions that open blocks, with their arities.       *)
(***************************************************************************)
EXTENDS Integers, Sequences, FiniteSets, SequencesExt

CONSTANTS
  Sections,     \* the sections that files are made of
  Garbled,
  NoIndex,      \* UINT64_MAX: a block type that is no index
  U32Max,       \* UINT32_MAX
  MaxReads,     \* bound: files read
  MaxSections   \* bound: sections of a file

ASSUME FileReaderAssumption ==
  /\ MaxReads \in Nat \ {0} /\ MaxSections \in Nat /\ U32Max \in Nat
  /\ \A s \in Sections : Len(s.items) \in Nat

\* The sections that have a field in WasmFile; the others are Custom and Tag.
Tags == {"Type", "Import", "Function", "Table", "Memory", "Global", "Export",
         "Start", "Element", "Code", "Data", "DataCount"}

Fields == Tags \ {"Type"}

VARIABLES
  reads,             \* the WasmFiles made so far; the last one is being read
  functionTypes,     \* their functionTypes
  wasm,              \* the other fields of the last one
  blocks,            \* the instructions of its code that open blocks
  currentWasmFile,   \* s_currentWasmFile; 0 is null
  runValidator,      \* the argument
  foundSections,
  section,           \* the section that is read
  vec,               \* the items read of it
  status,
  held               \* history: the items in the file's sections, by tag

vars == <<reads, functionTypes, wasm, blocks, currentWasmFile, runValidator,
          foundSections, section, vec, status, held>>

content == <<reads, functionTypes, wasm, blocks, currentWasmFile, runValidator>>

NoSection == [tag |-> "none", count |-> 0, items |-> <<>>, whole |-> TRUE]

Init ==
  /\ reads = 0 /\ currentWasmFile = 0 /\ runValidator = TRUE
  /\ functionTypes = [x \in 1..MaxReads |-> <<>>]
  /\ wasm = [t \in Fields |-> <<>>] /\ blocks = {}
  /\ foundSections = {} /\ section = NoSection /\ vec = <<>>
  /\ status = "idle"
  /\ held = [t \in Tags |-> 0]

-----------------------------------------------------------------------------
(* parse, as far as it looks at types.                                     *)

\* get_return_types, or get_param_types for a loop.
Arity(block, types) ==
  IF block.index = NoIndex THEN (IF block.opcode = "loop" THEN 0 ELSE block.results)
  ELSE LET type == types[block.index + 1] IN
       IF block.opcode = "loop" THEN type.params ELSE type.returns

Resolves(block, types) ==
  block.index # NoIndex => block.index \in 0..(Len(types) - 1)

CurrentTypes == functionTypes[currentWasmFile]

\* Code that ends early or names a type the file has not is refused.
Parses(code) ==
  code.ends /\ \A b \in code.blocks : Resolves(b, CurrentTypes)

Parsed(code) ==
  {[block |-> b, arity |-> Arity(b, CurrentTypes)] : b \in code.blocks}

-----------------------------------------------------------------------------
(* The readers of items: the set of what is read, empty when one throws.   *)

ReadLimits(l) ==
  IF l.type \in {0, 1, 4, 5} /\ (l.type % 2 = 1 => l.min <= l.max)
  THEN {[min |-> l.min,
         max |-> IF l.type % 2 = 1 THEN {l.max} ELSE {},
         address |-> IF l.type >= 4 THEN "i64" ELSE "i32"]}
  ELSE {}

ReadMutability(mutability) == {0, 1} \cap {mutability}

ReadImport(i) ==
  CASE i.type = 0 -> {[kind |-> "Function", index |-> i.index]}
    [] i.type = 1 -> {[kind |-> "Table", limits |-> l] : l \in ReadLimits(i.limits)}
    [] i.type = 2 -> {[kind |-> "Memory", limits |-> l] : l \in ReadLimits(i.limits)}
    [] i.type = 3 -> {[kind |-> "Global", mutability |-> m] :
                        m \in ReadMutability(i.mutability)}
    [] OTHER -> {}

ReadGlobal(g) ==
  IF Parses(g.code)
  THEN {[mutability |-> m, blocks |-> Parsed(g.code)] : m \in ReadMutability(g.mutability)}
  ELSE {}

\* The bits of an element's type: no table of its own to go to, a table index
\* or a declaration, expressions in place of indices.
ReadElement(e) ==
  LET passiveOrDeclarative == e.type % 2 = 1
      hasTableIndex == (e.type \div 2) % 2 = 1
      hasExpressions == (e.type \div 4) % 2 = 1
      hasKind == passiveOrDeclarative \/ hasTableIndex
      codes == (IF passiveOrDeclarative THEN {} ELSE {e.code})
                 \cup (IF hasExpressions THEN ToSet(e.expressions) ELSE {})
  IN
  IF /\ e.type <= 7
     /\ hasKind => IF hasExpressions THEN e.kind \in {"funcref", "externref"}
                                     ELSE e.kind = 0
     /\ \A c \in codes : Parses(c)
  THEN {[mode |-> IF ~passiveOrDeclarative THEN "Active"
                  ELSE IF hasTableIndex THEN "Declarative" ELSE "Passive",
         table |-> IF hasTableIndex /\ ~passiveOrDeclarative THEN e.table ELSE 0,
         valueType |-> IF hasKind /\ hasExpressions THEN e.kind ELSE "funcref",
         references |-> IF hasExpressions THEN Len(e.expressions) ELSE Len(e.functions),
         blocks |-> UNION {Parsed(c) : c \in codes}]}
  ELSE {}

\* Groups of locals of one type; they are counted before they are made.
CountOf(groups) == FoldFunction(LAMBDA local, n : local.count + n, 0, groups)

LocalsOf(groups) ==
  FlattenSeq([k \in DOMAIN groups |-> [j \in 1..groups[k].count |-> groups[k].type]])

ReadCode(c) ==
  IF CountOf(c.locals) <= U32Max /\ Parses(c.code)
  THEN {[locals |-> LocalsOf(c.locals), blocks |-> Parsed(c.code)]}
  ELSE {}

ReadData(d) ==
  CASE d.type = 1 -> {[mode |-> "Passive", blocks |-> {}]}
    [] d.type \in {0, 2} /\ Parses(d.code) ->
         {[mode |-> "Active", memory |-> IF d.type = 2 THEN d.memory ELSE 0,
           blocks |-> Parsed(d.code)]}
    [] OTHER -> {}

\* What has no code has no blocks; a number, an export, a function type and
\* the name of a custom section are taken as they are.
ReadItem(tag, i) ==
  IF i = Garbled THEN {}
  ELSE CASE tag = "Import" -> ReadImport(i)
         [] tag \in {"Table", "Memory"} -> ReadLimits(i)
         [] tag = "Global" -> ReadGlobal(i)
         [] tag = "Element" -> ReadElement(i)
         [] tag = "Code" -> ReadCode(i)
         [] tag = "Data" -> ReadData(i)
         [] OTHER -> {i}

BlocksOf(tag, item) ==
  IF tag \in {"Global", "Element", "Code", "Data"} THEN item.blocks ELSE {}

-----------------------------------------------------------------------------
(* read_from_stream.                                                       *)

Reading == status \in {"header", "sections", "items"}

\* Mutant: the file that is parsed for is only set when there is none.
ParseForIfNone == IF currentWasmFile = 0 THEN reads + 1 ELSE currentWasmFile

ParseFor == reads + 1

BeginRead(validate) ==
  /\ ~Reading /\ status # "undefined" /\ reads < MaxReads
  /\ reads' = reads + 1
  /\ currentWasmFile' = ParseFor
  /\ runValidator' = validate
  /\ wasm' = [t \in Fields |-> <<>>] /\ blocks' = {}
  /\ foundSections' = {} /\ section' = NoSection /\ vec' = <<>>
  /\ status' = "header"
  /\ held' = [t \in Tags |-> 0]
  /\ UNCHANGED functionTypes

\* An exception: s_currentWasmFile stays as it is.
Refuse ==
  /\ status' = "refused"
  /\ UNCHANGED <<content, foundSections, section, vec, held>>

\* The signature and the version are right or not.
ReadHeader ==
  /\ status = "header"
  /\ \/ status' = "sections" /\ UNCHANGED <<content, foundSections, section, vec, held>>
     \/ Refuse

\* Mutant: a section may come twice.
AllowedAgain(s) == s.whole /\ s.tag \in Tags \cup {"Custom"}

\* A section is refused that was there before, goes beyond the file or is not
\* known.
Allowed(s) ==
  /\ s.tag # "Custom" => s.tag \notin foundSections
  /\ s.whole /\ s.tag \in Tags \cup {"Custom"}

BeginSection(s) ==
  /\ status = "sections"
  /\ Cardinality(foundSections) < MaxSections
  /\ IF ~Allowed(s) THEN Refuse
     ELSE /\ foundSections' = foundSections \cup {s.tag}
          /\ section' = s /\ vec' = <<>>
          /\ status' = "items"
          /\ held' = [t \in Tags |-> IF t = s.tag THEN held[t] + Len(s.items) ELSE held[t]]
          /\ UNCHANGED content

\* Start and DataCount hold one number and Custom starts with a name; the
\* others say how many items they have.
ItemCount ==
  IF section.tag \in {"Start", "DataCount", "Custom"} THEN 1 ELSE section.count

SectionItem ==
  /\ status = "items" /\ Len(vec) < ItemCount
  /\ IF Len(vec) = Len(section.items) THEN Refuse
     ELSE LET read == ReadItem(section.tag, section.items[Len(vec) + 1]) IN
       \/ read = {} /\ Refuse
       \/ \E item \in read :
            /\ vec' = Append(vec, item)
            /\ blocks' = blocks \cup BlocksOf(section.tag, item)
            /\ UNCHANGED <<reads, functionTypes, wasm, currentWasmFile,
                           runValidator, foundSections, section, status, held>>

\* Mutant: what follows the items is passed over.
ExtraDataAnyway == FALSE

\* Behind the name of a custom section there may be anything.
ExtraData == section.tag # "Custom" /\ Len(vec) < Len(section.items)

\* The vector goes into the file when it is complete.
EndSection ==
  /\ status = "items" /\ Len(vec) = ItemCount
  /\ IF ExtraData THEN Refuse
     ELSE /\ functionTypes' = IF section.tag = "Type"
                              THEN [functionTypes EXCEPT ![reads] = vec] ELSE functionTypes
          /\ wasm' = IF section.tag \in Fields THEN [wasm EXCEPT ![section.tag] = vec] ELSE wasm
          /\ status' = "sections" /\ section' = NoSection /\ vec' = <<>>
          /\ UNCHANGED <<reads, blocks, currentWasmFile, runValidator, foundSections, held>>

DataCounted ==
  wasm["DataCount"] # <<>> => Len(wasm["Data"]) = wasm["DataCount"][1]

\* Mutant: the functions and their code are not counted.
CountsMatchData == DataCounted

CountsMatch == Len(wasm["Function"]) = Len(wasm["Code"]) /\ DataCounted

EndOfFile ==
  /\ status = "sections"
  /\ IF ~CountsMatch THEN Refuse
     ELSE /\ currentWasmFile' = 0
          /\ status' = IF runValidator THEN "validator" ELSE "accepted"
          /\ UNCHANGED <<reads, functionTypes, wasm, blocks, runValidator,
                         foundSections, section, vec, held>>

-----------------------------------------------------------------------------
(* Validator, as far as it relies on how the sections fit together.  What  *)
(* else it checks may make it refuse any file (Instances, Validator).      *)

Types == functionTypes[reads]

\* The types of imported and of defined functions are looked at first.
TypeIndicesExist ==
  /\ \A k \in DOMAIN wasm["Import"] :
       wasm["Import"][k].kind = "Function" => wasm["Import"][k].index < Len(Types)
  /\ \A k \in DOMAIN wasm["Function"] : wasm["Function"][k] < Len(Types)

\* The kinds of an export that its switch has a case for.
KnownExports == \A k \in DOMAIN wasm["Export"] : wasm["Export"][k].type \in 0..3

\* codeBlocks[i], for each i that functionTypeIndexes has.
CodeExists == \A i \in 1..Len(wasm["Function"]) : i \in 1..Len(wasm["Code"])

\* Block types are resolved once more, and may throw.
BlocksResolve == \A b \in blocks : Resolves(b.block, Types)

Validate ==
  /\ status = "validator"
  /\ \/ status' = "refused"
     \/ /\ TypeIndicesExist
        /\ KnownExports /\ CodeExists /\ BlocksResolve
        /\ status' = "accepted"
     \/ /\ TypeIndicesExist
        /\ ~KnownExports \/ ~CodeExists
        /\ status' = "undefined"
  /\ UNCHANGED <<content, foundSections, section, vec, held>>

Next ==
  \/ \E validate \in BOOLEAN : BeginRead(validate)
  \/ ReadHeader
  \/ \E s \in Sections : BeginSection(s)
  \/ SectionItem
  \/ EndSection
  \/ EndOfFile
  \/ Validate

Spec == Init /\ [][Next]_vars

-----------------------------------------------------------------------------
(* Properties.                                                             *)

\* A block was parsed with the arity that its type has in the file as it is in
\* the end: the parser sees the types that were read so far, in whatever order
\* the sections come (WasmFile.cpp:306), the validator those of the finished
\* file (Validator.cpp:350), and the labels of the code mix what both found.
AritiesStay ==
  \A b \in blocks : Resolves(b.block, Types) /\ b.arity = Arity(b.block, Types)

\* While a file is read, its code is parsed for that file, whatever became of
\* the reads before: a read that is refused leaves s_currentWasmFile set
\* (WasmFile.cpp:291, 375).
ParsedForItsFile == Reading => currentWasmFile = reads

\* A file that is accepted has what its sections held, each item of each of
\* them: none is left behind in its section (WasmFile.cpp:364) or replaced by
\* those of another section (WasmFile.cpp:309).
NothingLost ==
  status = "accepted" =>
    \A t \in Tags :
      held[t] = IF t = "Type" THEN Len(Types) ELSE Len(wasm[t])

\* The validator never gets to an access that it takes for granted, of the code
\* of a function (Validator.cpp:268), without it being there, nor to a switch
\* without a case.  Named exception: the kind of an export is a byte that was
\* cast to ImportType (WasmFile.cpp:163) and is not looked at before the switch
\* (Validator.cpp:217).
ValidatorStaysDefined == status = "undefined" => ~KnownExports
=============================================================================
