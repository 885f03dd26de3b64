---------------------------- MODULE TestRunnerProofs ----------------------------
(***************************************************************************)
(* What the test runner counts, where it runs actions and at what it       *)
(* crashes, for test files of any length and any names.                    *)
(***************************************************************************)
EXTENDS TestRunner, TLAPS

\* The current module is the one that the last module command has loaded, if
\* module_loaded stems from a module command.
CurrentMeant == module_loaded /\ ~definedSince => current = loaded

\* A name that a command gave to a loaded module has not lost it.
GivenFound == \A n \in given : registered[n] \in Modules

\* module_loaded without a current module stems from a definition.
NoModuleYet == module_loaded /\ current = Null => definedSince

\* The inductive invariant.
IInv ==
  /\ TypeOK
  /\ CountsAddUp
  /\ CurrentMeant /\ GivenFound /\ NoModuleYet
  /\ ActionsRunWhereMeant /\ CrashesExplained

\* Counting adds one to each counter that is counted.
LEMMA CountAdds ==
  ASSUME stats \in [Counters -> Nat],
         NEW cs, Count(cs)
  PROVE  /\ stats' \in [Counters -> Nat]
         /\ \A c \in Counters : stats'[c] = IF c \in cs THEN stats[c] + 1 ELSE stats[c]
BY DEF Count

-----------------------------------------------------------------------------

LEMMA InitInv == Init => IInv
<1> SUFFICES ASSUME Init PROVE IInv
  OBVIOUS
<1>0. HostModule \in Modules /\ HostName \in Names
  BY TestRunnerAssumption DEF HostModule, Modules
<1>1. TypeOK
  <2>1. stats \in [Counters -> Nat]
    BY DEF Init
  <2>2. registered \in [Names -> Modules \cup {Null, Absent}]
    BY <1>0 DEF Init
  <2>3. /\ module_loaded \in BOOLEAN /\ definedSince \in BOOLEAN
        /\ current \in {Null} /\ loaded \in {Null} /\ ran \in {Null}
        /\ status \in {"running", "crashed", "over"}
        /\ skippedActions \in Nat /\ asked \in {Nobody}
    BY DEF Init
  <2>4. given \subseteq Names /\ line \in 0..MaxCommands
    BY <1>0, TestRunnerAssumption DEF Init
  <2> QED BY <2>1, <2>2, <2>3, <2>4 DEF TypeOK
<1>2. CountsAddUp
  BY DEF Init, CountsAddUp, Counters
<1>3. CurrentMeant /\ NoModuleYet /\ ActionsRunWhereMeant /\ CrashesExplained
  BY DEF Init, CurrentMeant, NoModuleYet, ActionsRunWhereMeant, CrashesExplained
<1>4. GivenFound
  BY <1>0 DEF Init, GivenFound
<1> QED BY <1>1, <1>2, <1>3, <1>4 DEF IInv

\* module.
LEMMA LoadModuleInv ==
  ASSUME IInv,
         NEW name \in Names \cup {None}, NEW import \in Names \cup {None},
         NEW outcome \in Outcomes,
         LoadModule(name, import, outcome)
  PROVE  IInv'
<1> USE DEF LoadModule, Command, GoOn, Crash
<1>1. outcome = "crash" => import \in Names /\ registered[import] = Null
  BY DEF LoadOutcomes
<1>2. line + 1 \in Modules /\ line' \in 0..MaxCommands
  BY TestRunnerAssumption DEF IInv, TypeOK, Modules
<1>3. registered' \in [Names -> Modules \cup {Null, Absent}]
  BY <1>2 DEF IInv, TypeOK, RegisteredAfter
<1>4. TypeOK'
  <2>1. stats' \in [Counters -> Nat]
    BY CountAdds DEF IInv, TypeOK
  <2>2. /\ module_loaded' \in BOOLEAN /\ definedSince' \in BOOLEAN
        /\ current' \in Modules \cup {Null} /\ loaded' \in Modules \cup {Null}
        /\ ran' \in Modules \cup {Null} /\ given' \subseteq Names
        /\ status' \in {"running", "crashed", "over"}
        /\ skippedActions' \in Nat /\ asked' \in Names \cup {None, Nobody}
    BY <1>2 DEF IInv, TypeOK, LoadedAfter
  <2> QED BY <1>2, <1>3, <2>1, <2>2 DEF TypeOK
<1>5. CountsAddUp'
  <2>1. CASE outcome = "crash"
    BY <2>1 DEF CountsAddUp
  <2>2. CASE outcome # "crash"
    BY <2>2, CountAdds DEF IInv, TypeOK, CountsAddUp, Counters
  <2> QED BY <2>1, <2>2
<1>6. GivenFound'
  BY <1>2 DEF IInv, TypeOK, GivenFound, RegisteredAfter
<1>7. CurrentMeant' /\ NoModuleYet'
  <2>1. CASE outcome = "crash"
    BY <2>1 DEF IInv, CurrentMeant, NoModuleYet
  <2>2. CASE outcome = "loaded"
    <3>1. line + 1 # Null
      BY DEF IInv, TypeOK, Null
    <3>2. current' = line + 1 /\ loaded' = line + 1
      BY <2>2
    <3> QED BY <3>1, <3>2 DEF CurrentMeant, NoModuleYet
  <2>3. CASE outcome \notin {"crash", "loaded"}
    <3>1. module_loaded' = FALSE
      BY <2>3 DEF LoadedAfter
    <3> QED BY <3>1 DEF CurrentMeant, NoModuleYet
  <2> QED BY <2>1, <2>2, <2>3
<1>8. ActionsRunWhereMeant'
  BY DEF ActionsRunWhereMeant
<1>9. CrashesExplained'
  <2>1. CASE outcome = "crash"
    BY <1>1, <2>1, TestRunnerAssumption
       DEF IInv, GivenFound, CrashesExplained, Modules, Null
  <2>2. CASE outcome # "crash"
    BY <2>2 DEF CrashesExplained
  <2> QED BY <2>1, <2>2
<1> QED BY <1>4, <1>5, <1>6, <1>7, <1>8, <1>9 DEF IInv

\* module_definition.
LEMMA ReadDefinitionInv ==
  ASSUME IInv, NEW valid \in BOOLEAN, ReadDefinition(valid)
  PROVE  IInv'
<1> USE DEF ReadDefinition, Command, GoOn
<1>1. TypeOK'
  BY CountAdds, TestRunnerAssumption DEF IInv, TypeOK
<1>2. CountsAddUp'
  <2>1. CASE valid
    BY <2>1 DEF IInv, TypeOK, CountsAddUp, Counters, Count
  <2>2. CASE ~valid
    BY <2>2 DEF IInv, TypeOK, CountsAddUp, Counters, Count
  <2> QED BY <2>1, <2>2
<1>3. GivenFound' /\ CurrentMeant' /\ NoModuleYet'
  BY DEF IInv, GivenFound, CurrentMeant, NoModuleYet
<1>4. ActionsRunWhereMeant' /\ CrashesExplained'
  BY DEF ActionsRunWhereMeant, CrashesExplained
<1> QED BY <1>1, <1>2, <1>3, <1>4 DEF IInv

\* register.
LEMMA RegisterInv ==
  ASSUME IInv, NEW as \in Names, NEW name \in Names \cup {None}, Register(as, name)
  PROVE  IInv'
<1> USE DEF Register, Command, GoOn
<1>1. \A n \in Names : Inserted(n) \in Modules \cup {Null, Absent}
  BY DEF IInv, TypeOK, Inserted
<1>2. Target(name) \in Modules \cup {Null, Absent}
  BY <1>1 DEF IInv, TypeOK, Target
<1>3. TypeOK'
  <2>1. registered' \in [Names -> Modules \cup {Null, Absent}]
    BY <1>1, <1>2 DEF IInv, TypeOK
  <2>2. given' \subseteq Names
    BY DEF IInv, TypeOK
  <2>3. line' \in 0..MaxCommands /\ ran' = Null
    BY TestRunnerAssumption DEF IInv, TypeOK
  <2>4. UNCHANGED <<stats, module_loaded, current, loaded, definedSince,
                    skippedActions, status, asked>>
    OBVIOUS
  <2> QED BY <2>1, <2>2, <2>3, <2>4 DEF IInv, TypeOK
<1>4. CountsAddUp' /\ CurrentMeant' /\ NoModuleYet'
  BY DEF IInv, CountsAddUp, CurrentMeant, NoModuleYet
<1>5. GivenFound'
  <2> SUFFICES ASSUME NEW n \in given' PROVE registered'[n] \in Modules
    BY DEF GivenFound
  <2>1. n \in Names
    BY DEF IInv, TypeOK
  <2>2. \A g \in given : Inserted(g) = registered[g] /\ registered[g] \in Modules
    BY TestRunnerAssumption DEF IInv, GivenFound, Inserted, Modules, Absent
  <2>3. CASE n = as
    <3>1. IF name = None THEN current # Null ELSE name \in given
      BY <2>3
    <3>2. Target(name) \in Modules
      BY <3>1, <2>2 DEF IInv, TypeOK, Target
    <3> QED BY <2>1, <2>3, <3>2
  <2>4. CASE n # as
    BY <2>1, <2>2, <2>4
  <2> QED BY <2>3, <2>4
<1>6. ActionsRunWhereMeant' /\ CrashesExplained'
  BY DEF ActionsRunWhereMeant, CrashesExplained
<1> QED BY <1>3, <1>4, <1>5, <1>6 DEF IInv

-----------------------------------------------------------------------------
(* The commands with an action.                                            *)

\* What run_action keeps, whatever is counted.
LEMMA RunKeeps ==
  ASSUME IInv, module_loaded,
         NEW name \in Names \cup {None}, NEW outcome, NEW cs,
         Command, Run(name, outcome, cs), skippedActions' \in Nat
  PROVE  /\ TypeOK'
         /\ CurrentMeant' /\ GivenFound' /\ NoModuleYet'
         /\ ActionsRunWhereMeant' /\ CrashesExplained'
         /\ status' = IF outcome = "crash" THEN "crashed" ELSE status
<1> USE DEF Run, Command, GoOn, Crash
<1>1. \A n \in Names : Inserted(n) \in Modules \cup {Null}
  BY DEF IInv, TypeOK, Inserted
<1>2. registered' \in [Names -> Modules \cup {Null, Absent}]
  BY <1>1 DEF IInv, TypeOK, LookUp
<1>3. TypeOK'
  <2>1. stats' \in [Counters -> Nat]
    BY CountAdds DEF IInv, TypeOK
  <2>2. line' \in 0..MaxCommands
    BY TestRunnerAssumption DEF IInv, TypeOK
  <2>3. /\ module_loaded' \in BOOLEAN /\ definedSince' \in BOOLEAN
        /\ current' \in Modules \cup {Null} /\ loaded' \in Modules \cup {Null}
        /\ ran' \in Modules \cup {Null} /\ given' \subseteq Names
        /\ status' \in {"running", "crashed", "over"}
        /\ asked' \in Names \cup {None, Nobody}
    BY DEF IInv, TypeOK
  <2> QED BY <1>2, <2>1, <2>2, <2>3 DEF TypeOK
<1>4. UNCHANGED <<module_loaded, current, loaded, definedSince, given>>
  OBVIOUS
<1>5. CurrentMeant' /\ NoModuleYet'
  BY <1>4 DEF IInv, CurrentMeant, NoModuleYet
<1>6. GivenFound'
  <2> SUFFICES ASSUME NEW n \in given PROVE registered'[n] \in Modules
    BY DEF GivenFound
  <2>1. n \in Names /\ registered[n] \in Modules /\ Inserted(n) = registered[n]
    BY TestRunnerAssumption DEF IInv, TypeOK, GivenFound, Inserted, Modules, Absent
  <2> QED BY <2>1 DEF LookUp, IInv, TypeOK
<1>7. ActionsRunWhereMeant'
  <2>1. ran' \in {current, Null}
    OBVIOUS
  <2>2. ~definedSince => current = loaded
    BY DEF IInv, CurrentMeant
  <2> QED BY <1>4, <2>1, <2>2 DEF ActionsRunWhereMeant
<1>8. CrashesExplained'
  <2>1. CASE outcome = "crash"
    <3>1. Target(name) = Null /\ asked' = name /\ status' = "crashed"
      BY <2>1 DEF ActionOutcomes
    <3>2. CASE name = None
      BY <2>1, <3>1, <3>2 DEF IInv, NoModuleYet, CrashesExplained, Target
    <3>3. CASE name \in Names
      <4>1. Inserted(name) = Null
        BY <3>1, <3>3, TestRunnerAssumption DEF Target
      <4>2. name \notin given
        BY <4>1, TestRunnerAssumption
           DEF IInv, GivenFound, Inserted, Modules, Null, Absent
      <4> QED BY <2>1, <3>1, <3>3, <4>2 DEF CrashesExplained
    <3> QED BY <3>2, <3>3
  <2>2. CASE outcome # "crash"
    BY <2>2 DEF CrashesExplained
  <2> QED BY <2>1, <2>2
<1>9. status' = IF outcome = "crash" THEN "crashed" ELSE status
  OBVIOUS
<1> QED BY <1>3, <1>5, <1>6, <1>7, <1>8, <1>9

\* Commands that run nothing.
LEMMA UnaffectedKeeps ==
  ASSUME IInv, NEW cs, Count(cs), GoOn, Unaffected, Command
  PROVE  /\ TypeOK'
         /\ CurrentMeant' /\ GivenFound' /\ NoModuleYet'
         /\ ActionsRunWhereMeant' /\ CrashesExplained'
<1> USE DEF GoOn, Unaffected, Command
<1>1. TypeOK'
  BY CountAdds, TestRunnerAssumption DEF IInv, TypeOK
<1>2. CurrentMeant' /\ GivenFound' /\ NoModuleYet'
  BY DEF IInv, CurrentMeant, GivenFound, NoModuleYet
<1>3. ActionsRunWhereMeant' /\ CrashesExplained'
  BY DEF ActionsRunWhereMeant, CrashesExplained
<1> QED BY <1>1, <1>2, <1>3

\* A command of the total counts once more.
LEMMA OneVerdict ==
  ASSUME IInv, status = "running", skippedActions' = skippedActions,
         NEW c \in Counters \ {"total"}, NEW cs, cs = {"total", c}, Count(cs)
  PROVE  CountsAddUp'
<1>1. stats' = [k \in Counters |-> IF k \in {"total", c} THEN stats[k] + 1 ELSE stats[k]]
  BY DEF Count
<1>2. stats["total"] + skippedActions
        = stats["passed"] + stats["failed"] + stats["skipped"] + stats["failed_to_load"]
  BY DEF IInv, CountsAddUp
<1>3. \A k \in Counters : stats[k] \in Nat
  BY DEF IInv, TypeOK
<1>4. skippedActions \in Nat
  BY DEF IInv, TypeOK
<1> QED BY <1>1, <1>2, <1>3, <1>4 DEF Counters, CountsAddUp

\* Counting nothing.
LEMMA NoVerdict ==
  ASSUME IInv, status = "running", skippedActions' = skippedActions,
         NEW cs, cs = {}, Count(cs)
  PROVE  CountsAddUp'
  BY DEF IInv, TypeOK, Count, Counters, CountsAddUp

\* A plain action counts where it is skipped.
LEMMA ActionInv ==
  ASSUME IInv, NEW name \in Names \cup {None}, NEW outcome \in Outcomes,
         Action(name, outcome)
  PROVE  IInv'
<1>1. CASE NotLoaded({})
  <2>1. skippedActions' = skippedActions /\ Count({}) /\ GoOn /\ Unaffected
    BY <1>1 DEF NotLoaded, Unaffected
  <2>2. CountsAddUp'
    BY <2>1, NoVerdict DEF Action, Command
  <2> QED BY <2>1, <2>2, UnaffectedKeeps DEF Action, IInv
<1>2. CASE module_loaded
  <2> DEFINE cs == IF Skipped(outcome) THEN {"skipped"} ELSE {}
  <2>1. Run(name, outcome, cs) /\ Command /\ status = "running"
        /\ skippedActions' = skippedActions + (IF Skipped(outcome) THEN 1 ELSE 0)
    BY <1>2 DEF Action, NotLoaded, Command
  <2>2. skippedActions' \in Nat
    BY <2>1 DEF IInv, TypeOK
  <2>3. CountsAddUp'
    <3>1. Count(cs)
      BY <2>1 DEF Run
    <3>2. CASE Skipped(outcome)
      BY <2>1, <3>1, <3>2 DEF IInv, TypeOK, Count, Counters, CountsAddUp
    <3>3. CASE ~Skipped(outcome)
      <4>1. skippedActions' = skippedActions
        BY <2>1, <3>3 DEF IInv, TypeOK
      <4>2. cs = {}
        BY <3>3
      <4> QED BY <2>1, <3>1, <4>1, <4>2, NoVerdict
    <3> QED BY <3>2, <3>3
  <2>4. /\ TypeOK' /\ CurrentMeant' /\ GivenFound' /\ NoModuleYet'
        /\ ActionsRunWhereMeant' /\ CrashesExplained'
    <3> HIDE DEF cs
    <3> QED BY <1>2, <2>1, <2>2, RunKeeps
  <2> QED BY <2>3, <2>4 DEF IInv
<1> QED BY <1>1, <1>2 DEF Action

\* What is run and counted with a verdict, as all assertions do.
LEMMA VerdictInv ==
  ASSUME IInv, module_loaded, Command,
         NEW name \in Names \cup {None}, NEW outcome, NEW verdicts,
         Run(name, outcome, {"total"} \cup verdicts),
         skippedActions' = skippedActions,
         outcome # "crash" => \E c \in Counters \ {"total"} : verdicts = {c}
  PROVE  IInv'
<1> DEFINE cs == {"total"} \cup verdicts
<1>1. Run(name, outcome, cs) /\ Count(cs) /\ status = "running"
  BY DEF Run, Command
<1>2. skippedActions' \in Nat
  BY DEF IInv, TypeOK
<1>3. /\ TypeOK' /\ CurrentMeant' /\ GivenFound' /\ NoModuleYet'
      /\ ActionsRunWhereMeant' /\ CrashesExplained'
      /\ status' = IF outcome = "crash" THEN "crashed" ELSE status
  <2> HIDE DEF cs
  <2> QED BY <1>1, <1>2, RunKeeps
<1>4. CountsAddUp'
  <2>1. CASE outcome = "crash"
    BY <1>3, <2>1 DEF CountsAddUp
  <2>2. CASE outcome # "crash"
    <3>1. PICK c \in Counters \ {"total"} : verdicts = {c}
      BY <2>2
    <3>2. cs = {"total", c}
      BY <3>1
    <3> HIDE DEF cs
    <3> QED BY <1>1, <3>2, OneVerdict
  <2> QED BY <2>1, <2>2
<1> QED BY <1>3, <1>4 DEF IInv

\* An assertion after a module that could not be loaded.
LEMMA NotLoadedInv ==
  ASSUME IInv, Command, NotLoaded({"total", "failed_to_load"})
  PROVE  IInv'
<1> DEFINE cs == {"total", "failed_to_load"}
<1>1. Count(cs) /\ GoOn /\ Unaffected /\ status = "running"
      /\ skippedActions' = skippedActions
  BY DEF NotLoaded, Unaffected, Command
<1>2. CountsAddUp'
  <2>1. cs = {"total", "failed_to_load"} /\ "failed_to_load" \in Counters \ {"total"}
    BY DEF Counters
  <2> HIDE DEF cs
  <2> QED BY <1>1, <2>1, OneVerdict
<1> QED BY <1>1, <1>2, UnaffectedKeeps DEF IInv

LEMMA AssertReturnInv ==
  ASSUME IInv, NEW name \in Names \cup {None}, NEW outcome \in Outcomes,
         NEW verdict \in {"passed", "failed", "skipped"},
         AssertReturn(name, outcome, verdict)
  PROVE  IInv'
<1>1. CASE NotLoaded({"total", "failed_to_load"})
  BY <1>1, NotLoadedInv DEF AssertReturn
<1>2. CASE module_loaded /\ ~NotLoaded({"total", "failed_to_load"})
  <2>1. outcome \in ActionOutcomes(name)
    BY <1>2 DEF AssertReturn, Run
  <2>2. outcome # "crash" =>
          \E c \in Counters \ {"total"} : ReturnCounts(outcome, verdict) = {c}
    BY <2>1 DEF ActionOutcomes, ReturnCounts, Skipped, Counters
  <2> QED BY <1>2, <2>2, VerdictInv DEF AssertReturn
<1> QED BY <1>1, <1>2 DEF AssertReturn

LEMMA AssertTrapInv ==
  ASSUME IInv, NEW name \in Names \cup {None}, NEW outcome \in Outcomes,
         AssertTrap(name, outcome)
  PROVE  IInv'
<1>1. CASE NotLoaded({"total", "failed_to_load"})
  BY <1>1, NotLoadedInv DEF AssertTrap
<1>2. CASE module_loaded /\ ~NotLoaded({"total", "failed_to_load"})
  <2> DEFINE verdicts == CASE Skipped(outcome) -> {"skipped"}
                           [] outcome = "trap" -> {"passed"}
                           [] outcome = "values" -> {"failed"}
                           [] OTHER -> {}
  <2>1. /\ Command /\ Run(name, outcome, {"total"} \cup verdicts)
        /\ skippedActions' = skippedActions
    BY <1>2 DEF AssertTrap
  <2>2. outcome # "crash" => \E c \in Counters \ {"total"} : verdicts = {c}
    BY <2>1 DEF Run, ActionOutcomes, Skipped, Counters
  <2> HIDE DEF verdicts
  <2> QED BY <1>2, <2>1, <2>2, VerdictInv
<1> QED BY <1>1, <1>2 DEF AssertTrap

-----------------------------------------------------------------------------
(* The other commands.                                                     *)

LEMMA AssertInvalidInv ==
  ASSUME IInv, NEW outcome \in {"text", "invalid", "loaded"}, AssertInvalid(outcome)
  PROVE  IInv'
<1> DEFINE cs == CASE outcome = "text" -> {}
                   [] outcome = "invalid" -> {"total", "passed"}
                   [] OTHER -> {"total", "failed"}
<1>1. /\ Command /\ Count(cs) /\ GoOn /\ Unaffected /\ status = "running"
      /\ skippedActions' = skippedActions
  BY DEF AssertInvalid, Unaffected, Command
<1>2. CountsAddUp'
  <2>1. \/ cs = {}
        \/ \E c \in Counters \ {"total"} : cs = {"total", c}
    BY DEF Counters
  <2> HIDE DEF cs
  <2> QED BY <1>1, <2>1, NoVerdict, OneVerdict
<1> HIDE DEF cs
<1> QED BY <1>1, <1>2, UnaffectedKeeps DEF IInv

LEMMA UnsupportedInv ==
  ASSUME IInv, Unsupported
  PROVE  IInv'
<1> DEFINE cs == {"total", "skipped"}
<1>1. /\ Command /\ Count(cs) /\ GoOn /\ Unaffected /\ status = "running"
      /\ skippedActions' = skippedActions
  BY DEF Unsupported, Unaffected, Command
<1>2. cs = {"total", "skipped"} /\ "skipped" \in Counters \ {"total"}
  BY DEF Counters
<1> HIDE DEF cs
<1>3. CountsAddUp'
  BY <1>1, <1>2, OneVerdict
<1> QED BY <1>1, <1>3, UnaffectedKeeps DEF IInv

LEMMA AssertUnlinkableInv ==
  ASSUME IInv, NEW import \in Names \cup {None}, NEW outcome \in Outcomes,
         AssertUnlinkable(import, outcome)
  PROVE  IInv'
<1> DEFINE verdicts == CASE outcome = "trap" -> {"passed"}
                         [] outcome \in {"invalid", "loaded"} -> {"failed"}
                         [] OTHER -> {}
           cs == {"total"} \cup verdicts
<1>1. Command /\ Count(cs) /\ status = "running" /\ outcome \in LoadOutcomes(import)
  BY DEF AssertUnlinkable, Command
<1>2. CASE outcome = "crash"
  <2>1. /\ import \in Names /\ registered[import] = Null
        /\ Crash(import) /\ UNCHANGED registered
    BY <1>1, <1>2 DEF LoadOutcomes, AssertUnlinkable
  <2>2. TypeOK'
    <3>1. stats' \in [Counters -> Nat]
      <4> HIDE DEF cs
      <4> QED BY <1>1, CountAdds DEF IInv, TypeOK
    <3>2. line' \in 0..MaxCommands
      BY <1>1, TestRunnerAssumption DEF Command, IInv, TypeOK
    <3> QED BY <2>1, <3>1, <3>2 DEF Crash, IInv, TypeOK
  <2>3. CurrentMeant' /\ GivenFound' /\ NoModuleYet'
    BY <2>1 DEF Crash, IInv, CurrentMeant, GivenFound, NoModuleYet
  <2>4. import \notin given
    BY <2>1, TestRunnerAssumption DEF IInv, GivenFound, Modules, Null
  <2>5. CountsAddUp' /\ ActionsRunWhereMeant' /\ CrashesExplained'
    BY <2>1, <2>4 DEF Crash, CountsAddUp, ActionsRunWhereMeant, CrashesExplained
  <2> QED BY <2>2, <2>3, <2>5 DEF IInv
<1>3. CASE outcome # "crash"
  <2>1. GoOn /\ Unaffected /\ skippedActions' = skippedActions
    BY <1>3 DEF AssertUnlinkable, Unaffected
  <2>2. \E c \in Counters \ {"total"} : cs = {"total", c}
    <3>1. outcome \in {"invalid", "trap", "loaded"}
      BY <1>1, <1>3 DEF LoadOutcomes
    <3> QED BY <3>1 DEF Counters
  <2> HIDE DEF cs
  <2>3. CountsAddUp'
    BY <1>1, <2>1, <2>2, OneVerdict
  <2> QED BY <1>1, <2>1, <2>3, UnaffectedKeeps DEF IInv
<1> QED BY <1>2, <1>3

-----------------------------------------------------------------------------

LEMMA NextInv == IInv /\ [Next]_vars => IInv'
<1> SUFFICES ASSUME IInv, [Next]_vars PROVE IInv'
  OBVIOUS
<1>1. ASSUME NEW n \in Names \cup {None}, NEW i \in Names \cup {None},
             NEW o \in Outcomes, LoadModule(n, i, o)
      PROVE  IInv'
  BY <1>1, LoadModuleInv
<1>2. ASSUME NEW valid \in BOOLEAN, ReadDefinition(valid) PROVE IInv'
  BY <1>2, ReadDefinitionInv
<1>3. ASSUME NEW as \in Names, NEW n \in Names \cup {None}, Register(as, n) PROVE IInv'
  BY <1>3, RegisterInv
<1>4. ASSUME NEW n \in Names \cup {None}, NEW o \in Outcomes,
             \/ Action(n, o)
             \/ \E v \in {"passed", "failed", "skipped"} : AssertReturn(n, o, v)
             \/ AssertTrap(n, o)
             \/ AssertUnlinkable(n, o)
      PROVE  IInv'
  BY <1>4, ActionInv, AssertReturnInv, AssertTrapInv, AssertUnlinkableInv
<1>5. ASSUME NEW o \in {"text", "invalid", "loaded"}, AssertInvalid(o) PROVE IInv'
  BY <1>5, AssertInvalidInv
<1>6. CASE Unsupported
  BY <1>6, UnsupportedInv
<1>7. CASE UNCHANGED vars
  BY <1>7 DEF vars, histories, IInv, TypeOK, CountsAddUp, CurrentMeant, GivenFound,
              NoModuleYet, ActionsRunWhereMeant, CrashesExplained
<1> QED BY <1>1, <1>2, <1>3, <1>4, <1>5, <1>6, <1>7 DEF Next

LEMMA Invariance == Spec => []IInv
<1>1. Init => IInv
  BY InitInv
<1>2. IInv /\ [Next]_vars => IInv'
  BY NextInv
<1> QED BY <1>1, <1>2, PTL DEF Spec

\* The counters of TestStats count, and a module is known by the number of its
\* command, null or absent, however long the test file is.
THEOREM TypeCorrect == Spec => []TypeOK
<1>1. IInv => TypeOK
  BY DEF IInv
<1> QED BY <1>1, Invariance, PTL

\* The total is what passed, failed, was skipped or not loaded, up to the plain
\* actions that were skipped, in test files of any length (TestRunner.cpp:383).
THEOREM CountsAlwaysAddUp == Spec => []CountsAddUp
<1>1. IInv => CountsAddUp
  BY DEF IInv
<1> QED BY <1>1, Invariance, PTL

\* An action without a name runs in the module that the last module command has
\* loaded, unless a definition came after it (TestRunner.cpp:410).
THEOREM ActionsAlwaysRunWhereMeant == Spec => []ActionsRunWhereMeant
<1>1. IInv => ActionsRunWhereMeant
  BY DEF IInv
<1> QED BY <1>1, Invariance, PTL

\* A crash at a null module is due to a name that no command has given, or to an
\* action after a definition without a module (VM.cpp:796).
THEOREM CrashesAlwaysExplained == Spec => []CrashesExplained
<1>1. IInv => CrashesExplained
  BY DEF IInv
<1> QED BY <1>1, Invariance, PTL
=============================================================================
