------------------------------ MODULE TestRunner ------------------------------
(***************************************************************************)
(* run_tests: the commands of a test file against the VM, what they count, *)
(* and the modules they find.  A module is looked up by a name or is the   *)
(* current one; a lookup of a name that is not there inserts a null module *)
(* under it (operator[] of m_registered_modules), and whoever asks a null  *)
(* module for something crashes the runner.                                *)
(*                                                                         *)
(* What a module contains is left open: a file is invalid or not, loading  *)
(* it traps or not, a call returns or traps, values are right or not.      *)
(***************************************************************************)
EXTENDS Integers

CONSTANTS
  Names,        \* names of modules
  HostName,     \* "spectest"
  MaxCommands   \* bound: commands of a test file

VARIABLES
  stats,            \* TestStats
  module_loaded,
  registered,       \* m_registered_modules
  current,          \* m_current_module
  line,             \* commands so far
  status,           \* "running", or "crashed"; "over" for a file not supported
  \* Histories:
  loaded,           \* the module that the last module command has loaded, or Null
  definedSince,     \* a module_definition came after that command
  given,            \* the names that the commands last gave to a loaded module
  skippedActions,   \* plain actions that were counted as skipped
  ran,              \* the module that the last command ran an action in, if
                    \* it was one that names none
  asked             \* who was asked when the runner crashed

histories == <<loaded, definedSince, given, skippedActions, ran, asked>>

vars == <<stats, module_loaded, registered, current, line, status, histories>>

\* A module is the number of the command that loaded it.
Absent == -2
Null == -1
HostModule == 0

Modules == 0..MaxCommands

None == "none"      \* no name: the current module
Nobody == "nobody"  \* nobody was asked

ASSUME TestRunnerAssumption ==
  HostName \in Names /\ {None, Nobody} \cap Names = {} /\ MaxCommands \in Nat

Counters == {"total", "passed", "failed", "skipped", "failed_to_load"}

Init ==
  /\ module_loaded = FALSE /\ current = Null /\ line = 0
  /\ loaded = Null /\ definedSince = FALSE
  /\ skippedActions = 0 /\ ran = Null /\ asked = Nobody
  /\ \/ \* select, linking and imports
        /\ stats = [c \in Counters |-> IF c \in {"total", "failed"} THEN 1 ELSE 0]
        /\ registered = [n \in Names |-> Absent] /\ given = {}
        /\ status = "over"
     \/ /\ stats = [c \in Counters |-> 0]
        /\ registered = [n \in Names |-> IF n = HostName THEN HostModule ELSE Absent]
        /\ given = {HostName}
        /\ status = "running"

-----------------------------------------------------------------------------
(* Commands share these parts.                                             *)

Command ==
  /\ status = "running" /\ line < MaxCommands
  /\ line' = line + 1

Count(counters) ==
  stats' = [c \in Counters |-> IF c \in counters THEN stats[c] + 1 ELSE stats[c]]

Crash(who) ==
  /\ status' = "crashed" /\ asked' = who
  /\ ran' = Null
  /\ UNCHANGED <<module_loaded, current, loaded, definedSince, given,
                 skippedActions>>

GoOn == UNCHANGED <<status, asked>>

\* m_registered_modules[name].
Inserted(name) == IF registered[name] = Absent THEN Null ELSE registered[name]

LookUp(name) ==
  registered' = IF name = None THEN registered
                ELSE [registered EXCEPT ![name] = Inserted(name)]

\* The module an action goes to.
Target(name) == IF name = None THEN current ELSE Inserted(name)

\* How read_from_stream and load_module may end for a file with an import from
\* a module (None if it has none): find_import traps for a name that is not
\* there, and asks the module that is.
LoadOutcomes(import) ==
  {"invalid"} \cup
    (IF import = None THEN {"trap", "loaded"}
     ELSE IF registered[import] = Absent THEN {"trap"}
     ELSE IF registered[import] = Null THEN {"crash"}
     ELSE {"trap", "loaded"})

\* How run_action may end: an argument that cannot be parsed or a type of
\* action it does not know comes before the lookup.
ActionOutcomes(name) ==
  {"unparsed"} \cup (IF Target(name) = Null THEN {"crash"} ELSE {"skipped", "trap", "values"})

-----------------------------------------------------------------------------
(* The commands.                                                           *)

\* Mutant: the name is registered before the module is loaded.
RegisteredEarly(name, outcome) ==
  IF name # None THEN [registered EXCEPT ![name] = current] ELSE registered

RegisteredAfter(name, outcome) ==
  IF name # None /\ outcome = "loaded" THEN [registered EXCEPT ![name] = line + 1]
                                       ELSE registered

\* Mutant: a file that is invalid leaves the flag as it was.
LoadedAfterRead(outcome) ==
  IF outcome = "invalid" THEN module_loaded ELSE outcome = "loaded"

LoadedAfter(outcome) == outcome = "loaded"

\* module: read, loaded, made current and, with a name, registered.
LoadModule(name, import, outcome) ==
  /\ Command
  /\ outcome \in LoadOutcomes(import)
  /\ registered' = RegisteredAfter(name, outcome)
  /\ \/ outcome = "crash" /\ Count({"total"}) /\ Crash(import)
     \/ /\ outcome # "crash" /\ GoOn
        /\ module_loaded' = LoadedAfter(outcome)
        /\ Count({"total", IF outcome = "loaded" THEN "passed" ELSE "failed_to_load"})
        /\ current' = IF outcome = "loaded" THEN line + 1 ELSE current
        /\ loaded' = IF outcome = "loaded" THEN line + 1 ELSE Null
        /\ given' = IF name # None /\ outcome = "loaded" THEN given \cup {name} ELSE given
        /\ definedSince' = FALSE
        /\ ran' = Null /\ UNCHANGED skippedActions

\* module_definition: read, and counted as loaded, but not instantiated.
ReadDefinition(valid) ==
  /\ Command /\ GoOn
  /\ module_loaded' = valid
  /\ Count({"total", IF valid THEN "passed" ELSE "failed_to_load"})
  /\ definedSince' = TRUE
  /\ ran' = Null
  /\ UNCHANGED <<registered, current, loaded, given, skippedActions>>

\* register: another name for a module, looked up by its own or current.
Register(as, name) ==
  /\ Command /\ GoOn
  /\ registered' = [n \in Names |-> IF n = as THEN Target(name)
                                    ELSE IF n = name THEN Inserted(n) ELSE registered[n]]
  /\ given' = IF (IF name = None THEN current # Null ELSE name \in given)
              THEN given \cup {as} ELSE given \ {as}
  /\ ran' = Null
  /\ UNCHANGED <<stats, module_loaded, current, loaded, definedSince, skippedActions>>

\* run_action where an action is to be run, with what is then counted.
Run(name, outcome, counters) ==
  /\ outcome \in ActionOutcomes(name)
  /\ IF outcome = "unparsed" THEN UNCHANGED registered ELSE LookUp(name)
  /\ Count(counters)
  /\ \/ outcome = "crash" /\ Crash(name)
     \/ /\ outcome # "crash" /\ GoOn
        /\ ran' = IF name = None /\ outcome # "unparsed" THEN current ELSE Null
        /\ UNCHANGED <<module_loaded, current, loaded, definedSince, given>>

Skipped(outcome) == outcome \in {"unparsed", "skipped"}

\* No action is run, and no module loaded that stays.
Unaffected ==
  /\ ran' = Null
  /\ UNCHANGED <<module_loaded, registered, current, loaded, definedSince, given,
                 skippedActions>>

\* Nothing is run after a module that could not be loaded.
NotLoaded(counters) == ~module_loaded /\ Count(counters) /\ GoOn /\ Unaffected

\* action: what it does is not judged; only run_action counts.
Action(name, outcome) ==
  /\ Command
  /\ \/ NotLoaded({})
     \/ /\ module_loaded
        /\ Run(name, outcome, IF Skipped(outcome) THEN {"skipped"} ELSE {})
        /\ skippedActions' = skippedActions + (IF Skipped(outcome) THEN 1 ELSE 0)

\* Mutant: an action that was skipped goes on to be judged.
ReturnCountsTwice(outcome, verdict) ==
  CASE Skipped(outcome) -> {"skipped", "failed"}
    [] outcome = "trap" -> {"failed"}
    [] outcome = "values" -> {verdict}
    [] OTHER -> {}

\* The verdict on the values is skipped when an expected one, before any that is
\* wrong, cannot be parsed.
ReturnCounts(outcome, verdict) ==
  CASE Skipped(outcome) -> {"skipped"}
    [] outcome = "trap" -> {"failed"}
    [] outcome = "values" -> {verdict}
    [] OTHER -> {}

\* assert_return.
AssertReturn(name, outcome, verdict) ==
  /\ Command
  /\ \/ NotLoaded({"total", "failed_to_load"})
     \/ /\ module_loaded
        /\ Run(name, outcome, {"total"} \cup ReturnCounts(outcome, verdict))
        /\ UNCHANGED skippedActions

\* assert_trap and assert_exhaustion: any Trap will do.
AssertTrap(name, outcome) ==
  /\ Command
  /\ \/ NotLoaded({"total", "failed_to_load"})
     \/ /\ module_loaded
        /\ Run(name, outcome, {"total"} \cup
             CASE Skipped(outcome) -> {"skipped"}
               [] outcome = "trap" -> {"passed"}
               [] outcome = "values" -> {"failed"}
               [] OTHER -> {})
        /\ UNCHANGED skippedActions

\* assert_invalid and assert_malformed; a text module is passed over.
AssertInvalid(outcome) ==
  /\ Command /\ GoOn /\ Unaffected
  /\ Count(CASE outcome = "text" -> {}
             [] outcome = "invalid" -> {"total", "passed"}
             [] OTHER -> {"total", "failed"})

\* assert_uninstantiable and assert_unlinkable: loaded, but not made current; a
\* text module is passed over as by AssertInvalid.
AssertUnlinkable(import, outcome) ==
  /\ Command
  /\ outcome \in LoadOutcomes(import)
  /\ Count({"total"} \cup CASE outcome = "trap" -> {"passed"}
                            [] outcome \in {"invalid", "loaded"} -> {"failed"}
                            [] OTHER -> {})
  /\ \/ outcome = "crash" /\ Crash(import) /\ UNCHANGED registered
     \/ outcome # "crash" /\ GoOn /\ Unaffected

Unsupported == Command /\ GoOn /\ Unaffected /\ Count({"total", "skipped"})

Outcomes == {"invalid", "unparsed", "skipped", "trap", "values", "loaded", "crash"}

Next ==
  \/ \E n, i \in Names \cup {None}, o \in Outcomes : LoadModule(n, i, o)
  \/ \E valid \in BOOLEAN : ReadDefinition(valid)
  \/ \E as \in Names, n \in Names \cup {None} : Register(as, n)
  \/ \E n \in Names \cup {None}, o \in Outcomes :
       \/ Action(n, o)
       \/ \E v \in {"passed", "failed", "skipped"} : AssertReturn(n, o, v)
       \/ AssertTrap(n, o)
       \/ AssertUnlinkable(n, o)
  \/ \E o \in {"text", "invalid", "loaded"} : AssertInvalid(o)
  \/ Unsupported

Spec == Init /\ [][Next]_vars

-----------------------------------------------------------------------------
(* Properties.                                                             *)

TypeOK ==
  /\ stats \in [Counters -> Nat]
  /\ module_loaded \in BOOLEAN /\ definedSince \in BOOLEAN
  /\ registered \in [Names -> Modules \cup {Null, Absent}]
  /\ current \in Modules \cup {Null}
  /\ line \in 0..MaxCommands
  /\ status \in {"running", "crashed", "over"}
  /\ loaded \in Modules \cup {Null} /\ ran \in Modules \cup {Null}
  /\ given \subseteq Names
  /\ skippedActions \in Nat
  /\ asked \in Names \cup {None, Nobody}

\* What is counted in the total is counted once more as passed, failed, skipped
\* or not loaded, so that passed = total is what run_tests.py:60 takes it for.
\* Named exception: a plain action is not in the total, but one that cannot be
\* run is among the skipped (TestRunner.cpp:468, 335).
CountsAddUp ==
  status # "crashed" =>
    stats["total"] + skippedActions
      = stats["passed"] + stats["failed"] + stats["skipped"] + stats["failed_to_load"]

\* An action that names no module runs in the one that the last module command
\* of the test file has loaded.  Named exception: a module definition is taken
\* for a module (TestRunner.cpp:440); an action after it runs in the module that
\* was current before, even if a module failed to load in between.
ActionsRunWhereMeant == ran # Null /\ ~definedSince => ran = loaded

\* The runner crashes at a null module only for what the test file did: it used
\* or imported from a name that no command has given to a module, once it was in
\* the map (VM.cpp:798, TestRunner.cpp:466), or ran an action after a definition
\* when there was no module yet (TestRunner.cpp:440).
CrashesExplained ==
  status = "crashed" =>
    \/ asked \in Names \ given
    \/ asked = None /\ definedSince /\ current = Null
=============================================================================
