# A verification of wasvm in TLA+

wasvm (`../src`) is a WebAssembly virtual machine in C++: it reads a binary
module, validates it while it resolves its branches, instantiates it against
other modules and interprets it. It is a single-threaded program. What makes it
hard is not concurrency but state that several passes and several modules share:
labels that one pass leaves for the next to fill in, one global frame that nested
calls swap in and out, traps that leave work half done, and tables and memories
that instances lend to one another.

This directory models that state in TLA+, checks it with TLC on small instances
and proves with TLAPS, for every instance, the main facts about each of its
parts: decoding and reading a file, parsing and validating a function, calls,
the writing of memories and tables, what instances lend and keep, and what the
test runner counts.

All line numbers refer to the files under `src/src/`.

## 1. Inventory

| component | state | operations | correct when |
|---|---|---|---|
| Streams, LEB128 (`Stream/`) | offset | `read_leb`, `read_little_endian`, `move_to`, `skip` | every value in range is read back, any other refused, and the stream goes on after it |
| Module reader (`WasmFile/WasmFile.cpp`) | the `WasmFile` being built, the sections found, `s_currentWasmFile` | one reader per section, `BlockType`, `Limits` | a file has each section once and whole, and code is parsed against the types the file has in the end |
| Parser (`WasmFile/Parser.cpp`) | the code so far, `blockBeginStack` | one case per opcode; `else` and `end` fill in labels of earlier instructions | each label is that of the block that the nesting says |
| Validator (`WasmFile/Validator.cpp`) | stack of types, stack of labels | `validate_function`, `validate_constant_expression`, the checks of the constructor | validated code never makes the interpreter pop what is not there |
| Interpreter loop (`VM/VM.cpp`) | `m_frame`: `ip`, operands, locals | one case per opcode, `branch_to_label` | control moves as the blocks say, operands have the validated types |
| Calls and frames (`VM/VM.cpp`) | `m_frame`, `m_frame_stack`, the C++ activations | `run_function`, `call_function`, `perform_tail_call`, the deferred `clean_up_frame` | frames and activations stay in step through returns and traps |
| Memories and tables (`VM/Module.cpp`, `VM/VM.cpp`) | cells, size, segments left | store, set, fill, copy, init, drop, grow | a range is written as a whole or not at all, overlaps included |
| Instances and linking (`VM/VM.cpp`) | `m_registered_modules`, `m_current_module`, what instances share | `load_module`, `find_import`, `run_bare_code`, `register_module` | only complete modules are visible; imports keep what they promise |
| Natives: WASI, spectest | a table, a memory, globals | called as functions | run in their caller's frame |
| Test runner (`Tests/TestRunner.cpp`) | counters, `module_loaded`, the modules registered | commands of a test file | counts what it ran, against the right module |
| Command line (`main.cpp`) | none | load a module, run a function | |
| Values, operators, SIMD | none | arithmetic on fixed widths | pure |

How they interact:

- The **reader** calls the parser for every code body and every constant
  expression, then the validator's constructor, before a `WasmFile` reaches
  anybody. The parser finds the types of blocks through a global,
  `s_currentWasmFile`, which a file that is refused leaves behind.
- The **parser** leaves in each opener the place its `end` was found; the
  **validator** copies that place, with the height of its own stack, into each
  `br`, `br_if` and `br_table`; the **interpreter** obeys these labels without
  a look at the blocks. A mistake of one pass shows two passes later.
- `run_function` **calls itself** through `Function::run`. The frame is a global,
  saved on a stack and restored by a deferred clean-up, also when a `Trap` passes.
- **Instances share** functions, tables, memories and globals by reference.
  `load_module` works through its file in order and may trap at any item; what
  it did to imported objects by then stays.
- The **test runner** keeps no module of its own: it asks the VM for the current
  one or for one with a name, and only remembers in `module_loaded` whether the
  last one was read.

The behaviours that are hard here: stale labels and heights, unwinding, tail
calls between modules, overlapping copies, partial failure of instantiation,
growth of what others imported, sections in any order, encodings at the edge of
a width, names that stand for no module. `hazards` in `PROJECT.json` lists them at their
lines with the properties that watch them. There are no threads, no messages, no
timeouts and nothing is persisted, so there is no crash recovery to speak of.

## 2. Modules

```
Leb128 <- Leb128Proofs                                          one value of a stream
      MCLeb128 (decoding)
FileReader <- FileReaderProofs                                  the sections of a file
      MCFileReader (sections)

Instructions <- Parser <- Validator <- Interpreter <- ControlProperties    one function, read to run
                          ControlProperties <- ControlProofs <- ControlSafetyProofs
      MCControl (control_loops, control_ifs, if_branch), MCOperands (operands, memory64_init)

CallStack (abstract)  <-implements-  CallFrames <- CallFramesProofs
      MCCallFrames (call_frames, indirect_type)

Storage (abstract)    <-implements-  BulkOperations <- BulkOperationsProofs
      MCBulk (bulk)

Instances <- InstancesProofs                                    load_module
      MCInstances (instances)

TestRunner <- TestRunnerProofs                                  run_tests
      MCTestRunner (test_runner)
```

`A <- B` reads: B extends A.

### Decoding: Leb128

One behaviour reads one value: an integer of some width and sign, a type, or a
block type. The stream gives its bytes as they are read and may end at any
(`bytes`, `offset`). `Take` is one turn of the loops of `read_leb`: it puts the
group into `result`, an integer of the width of the code, with the shifts in the
type the code shifts in, so that overflow and promotion happen where they do
there. A block type that is no value type is read a second time, as a 64-bit
integer and from one byte back (`ReadIndex`), whatever its length was.

### Reading a file: FileReader

`read_from_stream`, section by section. A section is its tag, how many items it
says it has, those it has, and whether it ends within the file; an item is a
record of its fields, or `Garbled` when a value or string in it cannot be read.
`ReadItem` gives what the reader of the tag makes of an item. Code is parsed while
it is read, against the types that `functionTypes[currentWasmFile]` has by then;
`blocks` keeps each opener with the arity it was given. `Validate` has what the
validator takes for granted about the sections: an access to what is not there is
the status `undefined`. `held`, the number of items in the sections, is a history.

### The control pipeline: Instructions, Parser, Validator, Interpreter

One behaviour of these modules reads a function from an arbitrary stream of
tokens (`Alphabet`), validates it and runs it. `phase` says which pass has the
function; the passes share `instructions`, as in the code.

- **Instructions**: tokens, instructions, labels. A value is its type. An index
  into the code is 0-based as in the program.
- **Parser**: `blockBeginStack` and the code. `ReadElse` and `ReadEnd` look at
  the instruction where the innermost open block began and write its label, and
  that of its `else`; a loop leaves the fake entry whose begin is instruction 0.
- **Validator**: `types` is the `ValidatorStack`, `Unknown` its bottom type;
  `labels` its label stack. One action per control instruction, tail calls
  included; the others, typed `select` and indirect calls among them, pop and push
  a list of types (`ValidatedAs`). The three places in which the
  code does not do what a reader expects are kept as they are: the label of an
  `if` gets no stack height (Validator.cpp:388), a branch to a loop does not look
  at the loop's parameters (431), and `br_if` pushes what it popped in the order
  it popped it (447). `get_label` adds in `uint32_t` (124): `HasLabel` does too, so that the
  last index passes, and the label then is any of `StrayLabels` (`GetLabel`), or the
  process ends of the read (`EndOutsideLabels`, the phase `labelsRange`). That
  the arguments of a block are read after they were reset (350) is taken to do no harm, as it
  does in a build whose library leaves the bytes of a destroyed variant in place.
- **Interpreter**: `ip`, `stack`, `locals`, `globals`. `BranchTo` is
  `branch_to_label` with `Stack::erase`. The debug assertions of `Stack` and
  `ValueStack` are the phases `popEmpty` and `popType`, and a range that `erase`
  cannot take is one of its own: the model goes there exactly where the code
  throws or would be undefined. A call takes and gives what the callee's type says;
  what happens inside is `CallFrames`. The type a callee found through a table has is the one
  the type index stands for in the module of its reference (VM.cpp:265, 302), one of
  `ForeignTypes` or the function's own file; an index that is none there is read anyway,
  with any outcome or the end of the process (`RunOutsideTypes`, the phase `typesRange`). The
  function itself was called: after a tail call from another module its indices would
  be looked up in that module (VM.cpp:190), which `CallFrames` and `Instances` follow. A tail call of a native passes on as many
  operands as the caller has parameters; if the native has another number, the
  phase is `wrongArguments`.
- **ControlProperties**: the structure of a code, defined from the nesting of its
  openers and ends alone, against which the labels are compared.

### Calls: CallStack, CallFrames

**CallFrames** keeps `m_frame` (`frame`), `m_frame_stack` (`frameStack`) and the
C++ activations of `run_function` (`activations`) apart, because the code does.
`Enter` checks the depth before the frame exists and the arguments after;
`CleanUp` is the deferred lambda; `Unwind` takes a `Trap` through one activation.
A frame's operands are one entry per completed call, enough to see on which frame
`call_function` pushes results. Functions have types, and type indices mean
something in each module, so that the check of an indirect call can be followed.
`completed`, `calledAs` and `crossed` are histories.

**CallStack** is what a caller relies on: a stack of entries that only its
operations change. `CallFrames!CallStackSpec` maps the saved frames and the
global one to that stack.

### Memories and tables: Storage, BulkOperations

**BulkOperations** has the instructions that write memories and tables. A range
is written cell by cell by a loop (`loop`, one `Step` per iteration) that reads
the arrays while it writes them, up or down as `CopiesDown` says.
`memcpy`/`memset` are such loops as well. Growth, drops and traps are one step.

**Storage** does each of these in one atomic step that reads everything before it
writes anything. The refinement maps the cells to what they will be when the
running loop is over (`Settled`). `turn` flips at every instruction, so that an
instruction that writes nothing still is a step and its outcome is compared.

### Instances

**Instances** is `load_module`: nine stages, each of which takes the items of the
file in order; `Fail` is a `Trap` out of it. `Valid` is the constructor of
`Validator`. An access that the code makes without a check, to a table, a memory or
a global by an index the validator accepted, goes to the stage `fault` when there
is nothing at the index. Between loads, and while a start function runs, live
instances grow the stores they hold and put references into tables. A growth is by any
`uint64_t`: the sum with the size wraps for 64-bit addresses (`GrownSize`), and a memory is
then as large as the sum says; the loop of a table does not end, which is no step. (`Memory::grow`
copies the old contents into the smaller array, Module.cpp:44: undefined, taken to leave the
rest alone.) A function may run in a `run_function` that another instance has begun and a
tail call has led to it; it then uses its own indices with the other's tables and
functions (VM.cpp:190, 435; `CodeIn`, `SetTable`). The history `crossed` marks
the references that come of it. The host
(`SpecTestModule`) is instance 1; its objects are given as a file too (`HostFile`), so that
what holds of instances holds of it. `IsFile` says what the reader makes of any input.
A constant expression is one instruction, a page one cell. `MakeTable` traps for a type that is
no reference (Type.cpp:42), and does not finish for
a minimum of cells that its 32-bit counter never reaches (Module.cpp:65).

### The test runner

**TestRunner** has one action per command of a test file. A module is the number
of the command that loaded it; `registered` may hold a null module for a name that
was looked up before it was given. What a module contains is left open: a
file is invalid or not, loading traps or not, a call returns, traps or cannot be
made. Asking a null module for anything crashes. The histories `loaded`,
`definedSince`, `given`, `skippedActions`, `ran` and `asked` say what the test file
meant, and what was done instead.

## 3. Runs

| run | question | properties |
|---|---|---|
| `control_loops` | Are blocks, loops and all three branches resolved, validated and run as nested, over every code of six instructions of the alphabet? | `TypeOK`, `BranchesResolved`, `ValidationIsBalanced`, `HeightsNested`, `ValidatedCodeIsSafe`, `JumpsAreStructured` |
| `control_ifs` | The same for `if` with and without `else`, block parameters, calls and returns, up to seven instructions. | `BranchesResolved`, `ValidationIsBalanced`, `ValidatedCodeIsSafe`, `JumpsAreStructured` |
| `operands` | Do instructions of every family without blocks, calls of all kinds included, pop what the validator let them pop, with 32- and 64-bit memories and tables? | `ValidatedCodeIsSafe` |
| `call_frames` | Do frames follow activations through calls, indirect and tail calls, natives, wrong arguments, the depth limit and traps? | `TypeOK`, `OneFramePerActivation`, `FramesBelongToActivations`, `DepthBounded`, `HostHasNoFrame`, `CalleesTypedUnlessCrossed`, `CallStackSpec`, `TrapsReachHost` |
| `bulk` | Are ranges written as by one atomic step? | `TypeOK`, `LoopInBounds`, `ImplementsStorage`, `LoopsEnd` |
| `instances` | Does instantiation, in all orders and with failures, keep what imports and references rely on? | `TypeOK`, `ValidatedModulesLoad`, `ImportedLimitsHold`, `OnlyReadyModulesVisible`, `ReferencesNameFunctions`, `LoadsEnd` |
| `decoding` | Does every encoding, up to past the longest, give the value it encodes, is only what has none refused, and does the stream go on behind it? | `DecodesExactly`, `RefusesOnlyUnrepresentable`, `WholeEncodingRead`, `ShortTypesRead` |
| `sections` | Is code parsed against its own file's final types, does everything get into the file, and does the validator find what it relies on, with sections in any order and reads that fail? | `AritiesStay`, `ParsedForItsFile`, `NothingLost`, `ValidatorStaysDefined` |
| `test_runner` | Do the counters add up, do actions run in the module the test file means, and what makes the runner crash? | `CountsAddUp`, `ActionsRunWhereMeant`, `CrashesExplained` |
| `if_branch` | violation: `NeverPopsEmpty` | the debug assertion Stack.h:33 fails for validated code |
| `memory64_init` | violation: `NeverPopsOtherType` | the debug assertion ValueStack.h:15 fails for validated code |
| `indirect_type` | violation: `CalleesTyped` | an indirect call enters a function of another type than its caller was validated for |

What the three violations show:

1. **`if_branch`.** `block` and `loop` set the height of their label; `if` does
   not. A branch out of an `if` therefore erases all operands of the frame below
   those it takes. `i32.const; i32.const; if; br 0; end; drop; end` is validated,
   and its `drop` finds an empty stack.
2. **`memory64_init`.** `memory.init` is validated with two `i32` operands and
   run with addresses of the memory, which are `i64` for a 64-bit memory.
3. **`indirect_type`.** The type index of an indirect call is looked up in the
   module the reference comes from; the code was validated with the type it has
   in its own.

Some properties hold with exceptions, which they name:

- `ValidatedCodeIsSafe`: `UncheckedByValidator` lists the checks the validator does
  not make: branches to an `if` (Validator.cpp:388) or to a loop with parameters
  (431), `br_if` over results in an order that matters (447), an `if` without `else`
  of other results than parameters (413), `memory.init` and lane stores on 64-bit
  memories (720), tail calls of natives (VM.cpp:281, 312), branches with the label index that
  wraps (124), and indirect calls whose type index is another type, or none, in a module that
  references come from (VM.cpp:265, 302).
- `BranchesResolved`, `JumpsAreStructured`: a label index whose successor is 0 in
  `uint32_t` (Validator.cpp:124).
- `ImportedLimitsHold`: a memory of 64-bit addresses may become smaller than an importer
  declared, because the sum of its growth wraps (VM.cpp:391). It never grows past its max.
- `ReferencesNameFunctions`: references made by code that a tail call from another module has
  led to (VM.cpp:190, 435), which pair an index of one module with another.
- `CalleesTypedUnlessCrossed`: type indices mean the same in all modules and no tail
  call has crossed modules, after which `mod` is not the module of the code any
  more (VM.cpp:190).
- `DecodesExactly`: a `uint8_t` whose last group is too large is cut to its low bits
  instead of being refused, because it is promoted to `int` before the shift that
  is to find out (Stream.h:85).
- `ShortTypesRead`: a block type index of two bytes or more (from 64 on) is taken
  for the type its low bits name or read again from its last byte
  (WasmFile.cpp:418). `WholeEncodingRead` holds of it all the same.
- `ValidatorStaysDefined`: the kind of an export is an unchecked byte
  (WasmFile.cpp:163) over which the validator switches with `std::unreachable`.
- `CountsAddUp`: a plain action that cannot be run is among the skipped but never
  among the total (TestRunner.cpp:468, 335).
- `ActionsRunWhereMeant`, `CrashesExplained`: a module definition sets
  `module_loaded` without making a module current (TestRunner.cpp:440), so that an
  action after it runs in an older module, or crashes when there is none.

### Bounds, and why they are enough

- `control_loops`, `control_ifs`: every stream over a chosen alphabet up to
  6 or 7 instructions. Six are enough for two nested blocks with a branch through both,
  code after the branch and an operand across; seven for an `if` with `else`
  inside a loop with operands. Streams that end early are included. Labels of all
  blocks of such a code appear, and the last index, with one stray label to find. `CHECK_DEADLOCK FALSE`: a function returns.
- `operands`: four instructions: a call that supplies up to three operands, the one
  that uses them, one that uses what it left, and the end. The suppliers have the
  combinations of types that some instruction takes, and others that it must
  refuse; there is a memory and a table of each address width, and another module in which
  some type indices mean the same, some another type and some none.
- `call_frames`: depth 3 is the least at which an activation has both a caller
  and a callee and the limit is met from within; two modules, three functions,
  a native; two completed calls per activation.
- `bulk`: a memory of one or two pages of two bytes and a table of one or two
  entries, two byte values, operands below 4. Ranges of up to three cells overlap in
  both directions, touch the end, are empty, and grow past the limit. `U32 = 4` is
  the least with `Limit * Unit <= U32`.
- `decoding`: groups of three bits in integers of 4, 8 and 10 bits. Like 8, 32 and 64
  bits over 7, these widths are 1, more than 1, and 1 above a multiple of a group, so
  that the last group has one, several, or one bit to spare, and the narrow type is
  one that is promoted. Every sequence of bytes is read, up to the byte at which the
  code stops. A behaviour reads one value: `CHECK_DEADLOCK FALSE`.
- `sections`: two files, so that one comes after one that was refused, of up to four
  different sections from 36. Four are what it takes to have types, functions and
  code and one more, in every order. The sections fit one another or not, and one
  of each kind has an item its reader refuses. `U32Max = 2` is exceeded by three
  locals. The bound on the files stops the run: `CHECK_DEADLOCK FALSE`.
- `test_runner`: files of five commands, with the host's name and another. Load,
  lose, register, define and act are five; one name is given, replaced and null.
  A test file ends: `CHECK_DEADLOCK FALSE`.
- `instances`: the host and two more, from eleven files that lend, borrow, re-export,
  overwrite, start, declare smaller limits or name what they have not. With two,
  one imports from the other, or replaces it under its name, or tail calls into it.
  `U64 = 6` is well above `MaxCells`, so that sums wrap to less than the size, to just
  the size and not at all. The bound stops the
  run: `CHECK_DEADLOCK FALSE`.

### Fairness

- `WF(Unwind)` in `CallFrames!FairSpec`: a thrown exception is propagated without
  waiting for anything.
- `WF(Step)` in `BulkOperations`, `WF(LoadStep)` in `Instances`: the loops of an
  instruction and the code of `load_module` are sequential C++ that nothing
  interrupts. A start function may be given any number of steps of `RunCode`; that
  it ends is an assumption about the module loaded, made by fairness of `Start`.

No fairness is assumed for calls, instructions, the host, streams or test files.
There is no liveness property about running code: a WebAssembly loop need not end.

## 4. Proofs

Eight modules hold theorems. Each starts from the assumptions on the constants of
the module it is about (`CallFramesAssumption` and so on) and nothing else, for
any modules, functions, files, sizes and limits, and each shows an invariant `IInv`
to be inductive, with one lemma per action.

**CallFramesProofs.** The inductive invariant `IInv` is `TypeOK`,
`OneFramePerActivation`, `FramesBelongToActivations`, `DepthBounded` and
`StatusInv`, which says what the status implies of the number of activations.
None of the parts is inductive alone: `Leave` pushes results on the frame it pops
from `frameStack`, so that it is right needs the order of all frames; that the
bottom of the stack is the null pointer is needed for the last return. `Invariance` proves it step
by step, and from it follow

- `TypeCorrect`, `FramesMatchActivations`, `FramesAlwaysBelong`, `DepthIsBounded`,
  `NothingLeftAtHost`;
- `CalleesAreTyped`, under the further hypothesis that type indices agree between
  modules, which `indirect_type` shows to be needed;
- `ImplementsCallStack`: every action maps to an action of `CallStack`.

**BulkOperationsProofs.** `IInv` is `TypeOK` and `LoopRange`: what a running loop
has left lies within its stores or segment, its counters agree, and, if source and
destination are one store, the loop runs down exactly when the destination is above
the source. The last part is what makes `Settled` stable: a `Step` writes one
cell, and no cell the loop has still to read is one it has written. `LoopInBounds`
alone is not inductive, for it only speaks of the next cell.

- `TypeCorrect`, `LoopsStayInBounds`;
- `StorageImplemented`: `Step` is a stutter of `Storage`, every instruction the
  step that does it all.

**ControlProofs.** The validator never looks whether it still has a label when it
pops one, nor whether one is left at the end. That this is right hangs on the parser.
`CodeInv` counts: `Nesting(code, p)` is the number of openers less that of ends among
the first p instructions; the parser's stack is as long as that, it stays at or above
0 and is −1 after the last end. `ValidatorInv` says that the validator, at `position`,
has `Nesting + 1` labels, that the lowest is the function's, and that heights do not
decrease inwards (`Nested`).

- `ValidationAlwaysBalanced`: every label is popped and exactly the declared results
  are left, though the check of it is commented out (Validator.cpp:940);
- `HeightsAlwaysNested`: no label is higher than the one inside it, or than the stack.

The interpreter looks locals, globals, memories, tables and callees up by the
immediates of an instruction. `TInv` adds the types of the frame, and
`IndicesChecked`: the immediates of all instructions up to `position` name what
exists, and `position` is the end once code runs. Labels are rewritten on the way,
immediates never.

- `IndicesAlwaysChecked`: code that runs names only what exists;
- `TypeCorrect`: parser, validator and interpreter keep their types.

Three passes hand labels on, and none looks back at the
code. `SInv` says what each keeps of the nesting: the parser's stack is the list of the
openers still open, outermost first (`OpenAt`), and every opener that is closed has the
`else` and the `end` of its own block (`EndsAt`); the validator's labels name the
same blocks in the same order, with the place where each is left; and every branch the validator has
passed leads out of the block it names. `BranchesResolved` alone is not inductive: that
a branch is right depends on a label of the validator, which depends on a number the parser
wrote into an instruction long before. That ends found by counting are those found by
nesting is an induction over sets of numbers, which the library's theorems do not give to
the provers at hand; it is done by the well-foundedness of < instead (`LeastOf`).

- `BranchesAlwaysResolved`: each branch goes where the nesting says, for functions of any
  length and depth;
- `JumpsAlwaysStructured`: control leaves a block only over its end, its beginning or
  a return.

Both are proved for any `StrayLabels`, except for branches with the label index that wraps, of
whose label the invariants only say that it is one.

**ControlSafetyProofs.** Type soundness of validator and interpreter together. The
validator looks at each instruction once, in the order of the code, the interpreter in
the order of the branches, so what is on the stack after a branch is only known from what
the validator had at some place it left long ago. The invariant `SafeInv` has that whole
history as its witness: the types `T[i]` and the labels `L[i]` the validator had before
every instruction i (`History`). While validation goes on, each step adds a place to it
(`HistoryGoesOn`, from the effect of each handler, `Effect`). Of a complete history
the proof shows that

- what is below an open block stays as it was at its opener (`BaseKept`), so that
  behind its `end` there are just its results on top of that (`EndPlace`, `ElsePlace`);
- operands are `Unknown` only above a label that is marked unreachable
  (`TracedDead`); a place with no such label is `Live`, and its operands are known.

When code runs, `Follows` holds: control is at a live place, with `stack = T[ip]`, and
locals and globals have their declared types. Each instruction leads to such a place
again, by one lemma per kind (`SimpleFine`, `SelectFine`, `IfFine`, `BrIfFine` ...,
combined in `InterpreterFine`); for a branch `BranchLeadsOn` takes the block it leads
out of from `SInv`. Every exception of `UncheckedByValidator` is used where that lemma
would fail without it.

- `ValidatedCodeAlwaysSafe`: what was validated fails no assertion of the stack, erases
  no range that is none, runs no native on other operands than it has parameters, and
  returns what it declares, for codes of any length and any `ForeignTypes`; or it is one of the
  codes `UncheckedByValidator` lists. Once the validator has passed a branch with a stray label,
whose types may be anything, `SafeInv` only remembers that it has (`StraySeen`). Without
`FindsOtherTypes` an indirect call finds the type
  it was validated with, whichever module the reference comes from.

It has two hypotheses. `TablesHoldReferences`: the validator does not look at the type
of a table, but no instance is made of a module with a table of any other
(VM/Type.cpp:42 traps, VM.cpp:68), and an imported one has the same type
(VM.cpp:31). `HeightsFit`: the validator's stack is always lower than
2^32; the height in the label of a block is a `uint32_t`, and would be another one
otherwise.

**InstancesProofs.** `LoadInv` is the point of the first theorem: the module that is loaded has a
place of its own, in the state `loading`, until `Finish` or `Fail`.

- `OnlyReadyModulesAreVisible`: what a name or the host finds was instantiated to the
  end (VM.cpp:124), whatever failed on the way.

The others need to know what an index of a file means while `load_module` is
half through. `LInv` says it: the functions, tables, memories and globals of an
instance serve the items of its file's index spaces in order, imports first (`ServeInv`);
a ready instance has all of them, the one that is loaded as many as stage and item say
(`CompleteInv`, `ProgressInv`); stores and globals have the types they were made
with and every reference names a function some instance has (`ObjectInv`). Other instances write to the
same stores meanwhile, so each part is shown stable under what no step
undoes (`ObjectsKept`, `FunctionsKept`): stores keep their type and maximum and do not become
smaller, but for memories of 64-bit addresses (`Shrinks`), and instances lose no function. The assumptions are `InstancesAssumption`, of which `IsFile` is what the
reader guarantees of a file, and `HostAssumption`, that the host has what its file says.

- `TypesAlwaysOK`;
- `ValidatedModulesAlwaysLoad`: no access of `load_module` is to what is not there;
- `ImportedLimitsAlwaysHold`: what was imported keeps the limits it was imported with,
  whoever grows it and by how much, but for the lower one of memories of 64-bit addresses;
- `ReferencesAlwaysNameFunctions`: in tables and globals of any type, also after the load that
  wrote them has failed; except for those that are `crossed`.

**Leb128Proofs.** `ReadSoFar`: before a block type is given back every byte says that
another one follows; afterwards there is one to read again, and it says that none does.
So the second read always takes exactly one byte. `Progress`: between two bytes `result`
is the value of those read, but for a `uint8_t` of two bytes, that has lost bits of the
second and refuses a third. `ReadAgain`: a byte that is read a second time is no code of a
type. What the last byte of an integer may hold is then arithmetic: a group that survives
its shift is one that fits (`UnsignedStep`), and the bits beyond the sign are all alike
exactly when the number is in range (`SignedLastStep`). The powers of two and the value of an encoding
are recursive functions; that they exist, and what they satisfy, is proved from the
well-foundedness of < too (`Recursion`).

- `WholeEncodingAlwaysRead`, for every width and encodings of any length;
- `ValuesAlwaysDecodeExactly`: what is returned is what the bytes encode;
- `RefusesAlwaysUnrepresentable`: what is refused has no value of the type;
- `ShortTypesAlwaysRead`: a type or block type of one byte is what it means.

They are proved from `Leb128Assumption`: a byte type one bit wider than a group, and no width
a multiple of a group, as for 7 and 8, 32, 64.

**FileReaderProofs.** `UntypedUntilRead`: a file has no types before its type section is
complete, so that what the parser has resolved by then cannot become something else;
`HeldOrRead`: every complete section is in the file; `ValidatorCounts`: as many bodies
as functions when the validator is called.

- `AritiesAlwaysStay`, `AlwaysParsedForItsFile`, `NothingEverLost`,
  `ValidatorAlwaysDefined`, for any sections in any number.

**TestRunnerProofs.** `CurrentMeant`: the current module is the one last loaded, unless
`module_loaded` stems from a definition; `GivenFound`: a name that was given to a
loaded module still has one; `NoModuleYet`: `module_loaded` without a module stems
from a definition.

- `CountsAlwaysAddUp`, `ActionsAlwaysRunWhereMeant`, `CrashesAlwaysExplained`, for test
  files of any length.

**Model-checked only.**

- Liveness (`TrapsReachHost`, `LoopsEnd`, `LoadsEnd`): TLAPS does not reason about
  `ENABLED` here.

The types of `Leb128`, `FileReader` and `TestRunner` are parts of their inductive
invariants, and no run checks them separately.

## 5. What is not modelled

- **Values.** Types only; operators, conversions and SIMD are pure functions of
  fixed width whose results no other part depends on.
- **Whatever else a stale `mod` does** (VM.cpp:190): code that a tail call from another module has
  led to may find globals, memories and functions of other types, or none at all, at its
  indices. `CallFrames` has its calls, `Instances` the tables and references it writes; the
  control models have functions that were called.
- **64-bit addresses** in `BulkOperations`: the code adds addresses and counts in
  `uint64_t`, where sums may wrap. `Instances` has the sum of a growth, not that
  of a size in bytes (Module.cpp:39), which wraps at 2^48 pages. The offset of a `MemArg`, 64 bits wide for every
  memory, is taken below 2^32.
- **Lifetimes.** References hold raw and weak pointers. `ReferencesNameFunctions`
  does not claim that the module named is alive; the code does not guarantee it.
- **Unvalidated code** (`--no-wasm-validator`): branches are lowered by the
  validator, so that code without it is outside of the control models. `FileReader`
  follows the reading of it.
- **WASI**: system calls, seen only as natives that return.
- **Strings**: that a name is not UTF-8 is one way for an item to be `Garbled`.
- **Values of the test runner**: whether arguments can be parsed and results are the
  expected ones is an outcome. Missing test files, and exceptions of the stream that
  `run_tests` does not catch, end the program.
- The **command line**: it loads one module and runs one function, which is what
  the host does in `Instances` and `CallFrames`.
- Vendored libraries. `read_leb_as_bytes`, which has no caller.

## 6. Plan

Done: decoding, the reading of files, the control pipeline, calls, memories and
tables, instances, the test runner; the proofs of section 4.

Left, in order:

1. **Addresses** of 64 bits in `BulkOperations`, with sums modulo 2^64, and the
   offsets of `MemArg` (VM.cpp:543, 921).
2. **A composition** of `Instances` and `CallFrames`: a start function that traps
   through frames; lifetimes of the modules that references name.
