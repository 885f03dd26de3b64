--------------------------- MODULE InstancesProofs ---------------------------
(***************************************************************************)
(* Instantiation and linking, for any files, names and sizes.              *)
(*                                                                         *)
(* IInv: no name and no host ever reaches a module whose instantiation has *)
(* not come to its end.  What it takes is that the module being loaded has *)
(* a place of its own: nothing that is visible is ever the module that     *)
(* load_module works on.                                                   *)
(*                                                                         *)
(* LInv: what the validator has said of a file holds of the instance made  *)
(* from it.  What it takes is that the objects of an instance are those of *)
(* the index spaces of its file, in their order, as far as load_module has *)
(* come, and that nothing ever takes from an object what it was found to   *)
(* have when it was imported.                                              *)
(***************************************************************************)
EXTENDS Instances, SequenceTheorems, FiniteSetTheorems, TLAPS

Fields == {"file", "state", "functions", "tables", "memories", "globals", "dropped"}

LoadStages ==
  {"imports", "functions", "globals", "memories", "tables", "elements", "data",
   "start", "finish"}

IsInstance(r) == r = [f \in Fields |-> r[f]]

\* The instances are a sequence of records.
InstancesAreRecords ==
  /\ instances \in Seq({instances[x] : x \in 1..Len(instances)})
  /\ \A x \in 1..Len(instances) : IsInstance(instances[x])

\* The registry and the host name instances there are.
NamesKnown ==
  /\ registered \in [Names -> 0..Len(instances)]
  /\ current \in 0..Len(instances)

LoadRecord(l) ==
  /\ l = [id |-> l.id, stage |-> l.stage, item |-> l.item, makeCurrent |-> l.makeCurrent]
  /\ l.stage \in LoadStages \cup {"fault"}
  /\ l.item \in Nat \ {0}

\* While a module is loaded it is an instance of one of the files, in a stage
\* of load_module, and neither ready nor failed.
LoadInv ==
  load # NoLoad =>
    /\ LoadRecord(load)
    /\ load.id \in 1..Len(instances)
    /\ Loading.state = "loading"
    /\ Loading.file \in Files

IInv ==
  /\ InstancesAreRecords
  /\ NamesKnown
  /\ LoadInv
  /\ OnlyReadyModulesVisible

-----------------------------------------------------------------------------
(* What a step may do to the instances.                                    *)

LEMMA FunctionIsSeq ==
  ASSUME NEW S, NEW n \in Nat, NEW s \in [1..n -> S]
  PROVE  s \in Seq(S)
<1>1. [1..n -> S] \in {[1..m -> S] : m \in Nat}
  OBVIOUS
<1> QED BY <1>1, SeqDef

SetField(x, f, v) ==
  instances' = [instances EXCEPT ![x] = [instances[x] EXCEPT ![f] = v]]

\* One field of one instance is changed.
LEMMA FieldChanged ==
  ASSUME InstancesAreRecords,
         NEW x \in 1..Len(instances), NEW f \in Fields, NEW v,
         SetField(x, f, v)
  PROVE  /\ InstancesAreRecords'
         /\ Len(instances') = Len(instances)
         /\ \A y \in 1..Len(instances), g \in Fields :
              instances'[y][g] = IF y = x /\ g = f THEN v ELSE instances[y][g]
<1> DEFINE new == [instances[x] EXCEPT ![f] = v]
           S == {instances[y] : y \in 1..Len(instances)}
           T == S \cup {new}
<1>1. instances \in Seq(T)
  BY SeqMonotonic DEF InstancesAreRecords
<1>2. /\ instances' \in Seq(T)
      /\ Len(instances') = Len(instances)
      /\ \A y \in 1..Len(instances) : instances'[y] = IF y = x THEN new ELSE instances[y]
  BY <1>1, ExceptSeq DEF SetField
<1>3. IsInstance(instances[x])
  BY DEF InstancesAreRecords
<1>4. IsInstance(new) /\ \A g \in Fields : new[g] = IF g = f THEN v ELSE instances[x][g]
  BY <1>3 DEF IsInstance
<1>5. InstancesAreRecords'
  <2>1. instances' \in Seq({instances'[y] : y \in 1..Len(instances')})
    <3>1. instances' \in [1..Len(instances') -> T]
      BY <1>2, LenProperties
    <3>2. instances' \in [1..Len(instances') -> {instances'[y] : y \in 1..Len(instances')}]
      BY <3>1
    <3>3. Len(instances') \in Nat
      BY <1>2, LenProperties
    <3> QED BY <3>2, <3>3, FunctionIsSeq
  <2>2. \A y \in 1..Len(instances') : IsInstance(instances'[y])
    BY <1>2, <1>4 DEF InstancesAreRecords
  <2> QED BY <2>1, <2>2 DEF InstancesAreRecords
<1> QED BY <1>2, <1>4, <1>5

\* One instance is added.
LEMMA InstanceAdded ==
  ASSUME InstancesAreRecords, NEW r, IsInstance(r),
         instances' = Append(instances, r)
  PROVE  /\ InstancesAreRecords'
         /\ Len(instances') = Len(instances) + 1
         /\ \A y \in 1..Len(instances) : instances'[y] = instances[y]
         /\ instances'[Len(instances) + 1] = r
<1> DEFINE S == {instances[y] : y \in 1..Len(instances)}
           T == S \cup {r}
<1>1. instances \in Seq(T)
  BY SeqMonotonic DEF InstancesAreRecords
<1>2. /\ instances' \in Seq(T)
      /\ Len(instances') = Len(instances) + 1
      /\ \A y \in 1..Len(instances) : instances'[y] = instances[y]
      /\ instances'[Len(instances) + 1] = r
  BY <1>1, LenProperties
<1>3. Len(instances) \in Nat
  BY <1>1, LenProperties
<1>4. instances' \in Seq({instances'[y] : y \in 1..Len(instances')})
  BY <1>2, LenProperties, SeqDef
<1>5. \A y \in 1..Len(instances') : IsInstance(instances'[y])
  BY <1>2, <1>3 DEF InstancesAreRecords
<1> QED BY <1>2, <1>4, <1>5 DEF InstancesAreRecords

LEMMA InstancesCounted ==
  ASSUME InstancesAreRecords
  PROVE  Len(instances) \in Nat
BY LenProperties DEF InstancesAreRecords

-----------------------------------------------------------------------------
LEMMA InitInv == Init => IInv
<1> SUFFICES ASSUME Init PROVE IInv
  OBVIOUS
<1>1. instances = <<HostInstance>> /\ Len(instances) = 1 /\ instances[1] = HostInstance
  BY DEF Init
<1>2. IsInstance(HostInstance) /\ HostInstance.state = "ready"
  BY DEF HostInstance, NewInstance, IsInstance, Fields
<1>3. InstancesAreRecords
  BY <1>1, <1>2 DEF InstancesAreRecords
<1>4. NamesKnown /\ LoadInv /\ OnlyReadyModulesVisible
  BY <1>1, <1>2 DEF Init, NamesKnown, LoadInv, OnlyReadyModulesVisible
<1> QED BY <1>3, <1>4 DEF IInv

\* A step of the loading module that changes one of its fields other than file
\* and state, and neither names nor the host.
LEMMA LoadingGoesOn ==
  ASSUME IInv, load # NoLoad,
         NEW f \in Fields \ {"file", "state"}, NEW v,
         SetField(load.id, f, v),
         LoadRecord(load'), load'.id = load.id,
         UNCHANGED <<registered, current>>
  PROVE  IInv'
<1>1. load.id \in 1..Len(instances) /\ Loading.state = "loading" /\ Loading.file \in Files
  BY DEF IInv, LoadInv
<1>2. /\ InstancesAreRecords' /\ Len(instances') = Len(instances)
      /\ \A y \in 1..Len(instances), g \in Fields :
           instances'[y][g] = IF y = load.id /\ g = f THEN v ELSE instances[y][g]
  <2>1. InstancesAreRecords /\ f \in Fields
    BY DEF IInv
  <2> QED BY <1>1, <2>1, FieldChanged
<1>3. \A y \in 1..Len(instances) : /\ instances'[y].state = instances[y].state
                                   /\ instances'[y].file = instances[y].file
  BY <1>2 DEF Fields
<1>4. NamesKnown'
  BY <1>2 DEF IInv, NamesKnown
<1>5. LoadInv'
  BY <1>1, <1>2, <1>3 DEF LoadInv, Loading
<1>6. OnlyReadyModulesVisible'
  BY <1>3, InstancesCounted DEF IInv, NamesKnown, OnlyReadyModulesVisible
<1> QED BY <1>2, <1>4, <1>5, <1>6 DEF IInv

\* A step that leaves the instances, names and the host as they are.
LEMMA OnlyLoadChanges ==
  ASSUME IInv, UNCHANGED <<instances, registered, current>>,
         \/ load' = load
         \/ load # NoLoad /\ LoadRecord(load') /\ load'.id = load.id
  PROVE  IInv'
<1>1. InstancesAreRecords' /\ NamesKnown' /\ OnlyReadyModulesVisible'
  BY DEF IInv, InstancesAreRecords, NamesKnown, OnlyReadyModulesVisible
<1>2. LoadInv'
  BY DEF IInv, LoadInv, Loading
<1> QED BY <1>1, <1>2 DEF IInv

-----------------------------------------------------------------------------
LEMMA BeginInv ==
  ASSUME IInv, NEW f \in Files, NEW makeCurrent \in BOOLEAN, Begin(f, makeCurrent)
  PROVE  IInv'
<1>1. IsInstance(NewInstance(f))
  BY DEF NewInstance, IsInstance, Fields
<1>2. /\ InstancesAreRecords'
      /\ Len(instances') = Len(instances) + 1
      /\ \A y \in 1..Len(instances) : instances'[y] = instances[y]
      /\ instances'[Len(instances) + 1] = NewInstance(f)
  BY <1>1, InstanceAdded DEF Begin, IInv
<1>3. Len(instances) \in Nat
  BY InstancesCounted DEF IInv
<1>4. NamesKnown'
  BY <1>2, <1>3 DEF Begin, IInv, NamesKnown
<1>5. LoadInv'
  <2>1. LoadRecord(load') /\ load'.id = Len(instances) + 1
    BY DEF Begin, LoadRecord, LoadStages
  <2>2. NewInstance(f).state = "loading" /\ NewInstance(f).file = f
    BY DEF NewInstance
  <2> QED BY <1>2, <1>3, <2>1, <2>2 DEF LoadInv, Loading
<1>6. OnlyReadyModulesVisible'
  BY <1>2, <1>3 DEF Begin, IInv, NamesKnown, OnlyReadyModulesVisible
<1> QED BY <1>2, <1>4, <1>5, <1>6 DEF IInv

\* A Trap makes the module one that no name was given to.
LEMMA FailInv ==
  ASSUME IInv, load # NoLoad, Fail
  PROVE  IInv'
<1>1. load.id \in 1..Len(instances) /\ Loading.state = "loading"
  BY DEF IInv, LoadInv
<1>2. SetField(load.id, "state", "failed")
  BY DEF Fail, SetField
<1>3. /\ InstancesAreRecords' /\ Len(instances') = Len(instances)
      /\ \A y \in 1..Len(instances) : y # load.id => instances'[y].state = instances[y].state
  <2>1. InstancesAreRecords /\ "state" \in Fields
    BY DEF IInv, Fields
  <2>2. /\ InstancesAreRecords' /\ Len(instances') = Len(instances)
        /\ \A y \in 1..Len(instances), g \in Fields :
             instances'[y][g] = IF y = load.id /\ g = "state" THEN "failed"
                                                            ELSE instances[y][g]
    BY <1>1, <1>2, <2>1, FieldChanged
  <2> QED BY <2>1, <2>2
<1>4. NamesKnown' /\ LoadInv'
  BY <1>3 DEF Fail, IInv, NamesKnown, LoadInv
<1>5. OnlyReadyModulesVisible'
  BY <1>1, <1>3, InstancesCounted DEF Fail, IInv, NamesKnown, OnlyReadyModulesVisible, Loading
<1> QED BY <1>3, <1>4, <1>5 DEF IInv

LEMMA FaultInv ==
  ASSUME IInv, load # NoLoad, Fault
  PROVE  IInv'
<1>1. LoadRecord(load') /\ load'.id = load.id
  BY DEF Fault, IInv, LoadInv, LoadRecord
<1> QED BY <1>1, OnlyLoadChanges DEF Fault

LEMMA NextItemKeeps ==
  ASSUME IInv, load # NoLoad, NextItem
  PROVE  LoadRecord(load') /\ load'.id = load.id
BY DEF NextItem, IInv, LoadInv, LoadRecord

\* The item gives the module one more object of a kind.
LEMMA AddInv ==
  ASSUME IInv, load # NoLoad, NEW kind \in Kinds, NEW object,
         Add(kind, object), NextItem, UNCHANGED <<registered, current>>
  PROVE  IInv'
<1>1. kind \in Fields \ {"file", "state"}
  BY DEF Kinds, Fields
<1>2. LoadRecord(load') /\ load'.id = load.id
  BY NextItemKeeps
<1>3. SetField(load.id, kind, Append(Loading[kind], object))
  BY DEF Add, SetField
<1> QED BY <1>1, <1>2, <1>3, LoadingGoesOn

\* The item is a segment that is used up.
LEMMA DropInv ==
  ASSUME IInv, load # NoLoad, NEW v,
         instances' = [instances EXCEPT ![load.id].dropped = v],
         NextItem, UNCHANGED <<registered, current>>
  PROVE  IInv'
<1>1. "dropped" \in Fields \ {"file", "state"}
  BY DEF Fields
<1>2. LoadRecord(load') /\ load'.id = load.id
  BY NextItemKeeps
<1>3. SetField(load.id, "dropped", v)
  BY DEF SetField
<1> QED BY <1>1, <1>2, <1>3, LoadingGoesOn

LEMMA InAStage ==
  ASSUME IInv, load.stage \in LoadStages
  PROVE  load # NoLoad
BY DEF NoLoad, LoadStages

-----------------------------------------------------------------------------
LEMMA ImportInv ==
  ASSUME IInv, Import
  PROVE  IInv'
<1>1. load # NoLoad
  BY InAStage DEF Import, Item, LoadStages
<1> DEFINE i == Loading.file.imports[load.item]
<1>2. i.kind \in Kinds
  <2>1. Loading.file \in Files /\ load.item \in Nat \ {0}
    BY <1>1 DEF IInv, LoadInv, LoadRecord
  <2>2. IsFile(Loading.file)
    BY <2>1, InstancesAssumption
  <2>3. load.item \in DOMAIN Loading.file.imports
    BY <2>1, <2>2, LenProperties DEF Import, Item, IsFile, IsList, Lists
  <2> QED BY <2>2, <2>3 DEF IsFile, IsImport
<1>3. ASSUME NEW object, Add(i.kind, object), NextItem, UNCHANGED <<registered, current>>
      PROVE  IInv'
  BY <1>1, <1>2, <1>3, AddInv
<1>4. CASE Fail
  BY <1>1, <1>4, FailInv
<1> QED BY <1>3, <1>4 DEF Import

LEMMA MakeFunctionInv ==
  ASSUME IInv, MakeFunction
  PROVE  IInv'
<1>1. load # NoLoad
  BY InAStage DEF MakeFunction, Item, LoadStages
<1> QED BY <1>1, AddInv DEF MakeFunction, Kinds

LEMMA MakeGlobalInv ==
  ASSUME IInv, MakeGlobal
  PROVE  IInv'
<1>1. load # NoLoad
  BY InAStage DEF MakeGlobal, Item, LoadStages
<1>2. CASE Fault
  BY <1>1, <1>2, FaultInv
<1>3. CASE /\ Add("globals", Len(globals) + 1) /\ NextItem
           /\ UNCHANGED <<registered, current>>
  BY <1>1, <1>3, AddInv DEF Kinds
<1> QED BY <1>2, <1>3 DEF MakeGlobal

LEMMA MakeStoreInv ==
  ASSUME IInv, load # NoLoad, NEW kind \in Kinds, NEW store, MakeStore(kind, store)
  PROVE  IInv'
BY AddInv DEF MakeStore

LEMMA MakeMemoryInv ==
  ASSUME IInv, MakeMemory
  PROVE  IInv'
<1>1. load # NoLoad
  BY InAStage DEF MakeMemory, Item, LoadStages
<1> QED BY <1>1, MakeStoreInv DEF MakeMemory, Kinds

LEMMA MakeTableInv ==
  ASSUME IInv, MakeTable
  PROVE  IInv'
<1>1. load # NoLoad
  BY InAStage DEF MakeTable, Item, LoadStages
<1> QED BY <1>1, FailInv, MakeStoreInv DEF MakeTable, Kinds

LEMMA PlaceInv ==
  ASSUME IInv, load # NoLoad, NEW kind, NEW index, NEW begin, NEW values,
         Place(kind, index, begin, values)
  PROVE  IInv'
<1>1. CASE Fault
  BY <1>1, FaultInv
<1>2. CASE Fail
  BY <1>2, FailInv
<1>3. CASE /\ instances' = [instances EXCEPT ![load.id].dropped =
                              Loading.dropped \cup {<<kind, load.item>>}]
           /\ NextItem
           /\ UNCHANGED <<registered, current>>
  BY <1>3, DropInv
<1> QED BY <1>1, <1>2, <1>3 DEF Place

LEMMA LeaveInv ==
  ASSUME IInv, load # NoLoad, NEW kind, NEW mode, Leave(kind, mode)
  PROVE  IInv'
BY DropInv DEF Leave

LEMMA PlaceElementInv ==
  ASSUME IInv, PlaceElement
  PROVE  IInv'
<1>1. load # NoLoad
  BY InAStage DEF PlaceElement, Item, LoadStages
<1> DEFINE e == Loading.file.elements[load.item]
<1>2. CASE Leave("tables", e.mode)
  BY <1>1, <1>2, LeaveInv
<1>3. CASE Fault
  BY <1>1, <1>3, FaultInv
<1>4. CASE Place("tables", e.table, e.begin, [k \in DOMAIN e.refs |-> Evaluate(e.refs[k])])
  BY <1>1, <1>4, PlaceInv
<1> QED BY <1>2, <1>3, <1>4 DEF PlaceElement

LEMMA PlaceDataInv ==
  ASSUME IInv, PlaceData
  PROVE  IInv'
<1>1. load # NoLoad
  BY InAStage DEF PlaceData, Item, LoadStages
<1> DEFINE d == Loading.file.data[load.item]
<1>2. CASE Leave("memories", d.mode)
  BY <1>1, <1>2, LeaveInv
<1>3. CASE Place("memories", d.memory, d.begin, d.bytes)
  BY <1>1, <1>3, PlaceInv
<1> QED BY <1>2, <1>3 DEF PlaceData

LEMMA StartInv ==
  ASSUME IInv, Start
  PROVE  IInv'
<1>1. load # NoLoad
  BY InAStage DEF Start, Item, LoadStages
<1>2. CASE NextItem /\ UNCHANGED <<instances, registered, current>>
  BY <1>1, <1>2, NextItemKeeps, OnlyLoadChanges
<1>3. CASE Fail
  BY <1>1, <1>3, FailInv
<1> QED BY <1>2, <1>3 DEF Start

LEMMA NextStageInv ==
  ASSUME IInv, NextStage
  PROVE  IInv'
<1> DEFINE k == StageIndex(load.stage)
<1>1. ToSet(Stages) = LoadStages
  BY DEF ToSet, Stages, LoadStages
<1>2. load # NoLoad /\ load.stage \in LoadStages \ {"finish"}
  BY <1>1, InAStage DEF NextStage
<1>3. k \in 1..9 /\ Stages[k] = load.stage
  <2>1. DOMAIN Stages = 1..9 /\ \E n \in 1..9 : Stages[n] = load.stage
    BY <1>2 DEF Stages, LoadStages
  <2> QED BY <2>1 DEF StageIndex
<1>4. k # 9
  BY <1>2, <1>3 DEF Stages
<1>5. Stages[k + 1] \in LoadStages
  BY <1>3, <1>4 DEF Stages, LoadStages
<1>6. LoadRecord(load') /\ load'.id = load.id
  <2>1. LoadRecord(load)
    BY <1>2 DEF IInv, LoadInv
  <2> DEFINE next == Stages[k + 1]
  <2>2. load' = [load EXCEPT !.stage = next, !.item = 1]
    BY DEF NextStage
  <2> HIDE DEF next
  <2>3. load' = [id |-> load.id, stage |-> next, item |-> 1,
                 makeCurrent |-> load.makeCurrent]
    BY <2>1, <2>2 DEF LoadRecord
  <2> QED BY <1>5, <2>3 DEF LoadRecord, next
<1> QED BY <1>2, <1>6, OnlyLoadChanges DEF NextStage

\* Only here does a module become visible, and only here ready.
LEMMA FinishInv ==
  ASSUME IInv, Finish
  PROVE  IInv'
<1>1. load # NoLoad
  BY InAStage DEF Finish, LoadStages
<1>2. load.id \in 1..Len(instances)
  BY <1>1 DEF IInv, LoadInv
<1>3. SetField(load.id, "state", "ready")
  BY DEF Finish, SetField
<1>4. /\ InstancesAreRecords' /\ Len(instances') = Len(instances)
      /\ \A y \in 1..Len(instances) :
           instances'[y].state = IF y = load.id THEN "ready" ELSE instances[y].state
  <2>1. InstancesAreRecords /\ "state" \in Fields
    BY DEF IInv, Fields
  <2>2. /\ InstancesAreRecords' /\ Len(instances') = Len(instances)
        /\ \A y \in 1..Len(instances), g \in Fields :
             instances'[y][g] = IF y = load.id /\ g = "state" THEN "ready"
                                                            ELSE instances[y][g]
    BY <1>2, <1>3, <2>1, FieldChanged
  <2> QED BY <2>1, <2>2
<1>5. NamesKnown' /\ LoadInv'
  BY <1>2, <1>4, InstancesCounted DEF Finish, IInv, NamesKnown, LoadInv
<1>6. OnlyReadyModulesVisible'
  BY <1>2, <1>4, InstancesCounted DEF Finish, IInv, NamesKnown, OnlyReadyModulesVisible
<1> QED BY <1>4, <1>5, <1>6 DEF IInv

\* Only what is visible already can be given a name.
LEMMA RegisterInv ==
  ASSUME IInv, NEW n \in Names, Register(n)
  PROVE  IInv'
<1> PICK x \in Live : registered' = [registered EXCEPT ![n] = x]
  BY DEF Register
<1>1. x \in ({registered[m] : m \in Names} \cup {current}) \ {0}
  BY DEF Live, Register, NoLoad
<1>2. x \in 0..Len(instances) /\ instances[x].state = "ready"
  BY <1>1 DEF IInv, NamesKnown, OnlyReadyModulesVisible
<1>3. InstancesAreRecords' /\ LoadInv'
  BY DEF Register, IInv, InstancesAreRecords, LoadInv, Loading
<1>4. NamesKnown'
  BY <1>2 DEF Register, IInv, NamesKnown
<1>5. OnlyReadyModulesVisible'
  BY <1>2 DEF Register, IInv, NamesKnown, OnlyReadyModulesVisible
<1> QED BY <1>3, <1>4, <1>5 DEF IInv

LEMMA RunCodeInv ==
  ASSUME IInv, RunCode
  PROVE  IInv'
<1>1. UNCHANGED <<instances, registered, current, load>>
  BY DEF RunCode, GrowStore, Resize, SetTable
<1> QED BY <1>1, OnlyLoadChanges

LEMMA NextInv == IInv /\ [Next]_vars => IInv'
<1> SUFFICES ASSUME IInv, [Next]_vars PROVE IInv'
  OBVIOUS
<1>1. ASSUME NEW f \in Files, NEW makeCurrent \in BOOLEAN, Begin(f, makeCurrent)
      PROVE  IInv'
  BY <1>1, BeginInv
<1>2. CASE LoadStep
  BY <1>2, ImportInv, MakeFunctionInv, MakeGlobalInv, MakeMemoryInv, MakeTableInv,
     PlaceElementInv, PlaceDataInv, StartInv, NextStageInv, FinishInv DEF LoadStep
<1>3. ASSUME NEW n \in Names, Register(n) PROVE IInv'
  BY <1>3, RegisterInv
<1>4. CASE RunCode
  BY <1>4, RunCodeInv
<1>5. CASE UNCHANGED vars
  BY <1>5, OnlyLoadChanges DEF vars
<1> QED BY <1>1, <1>2, <1>3, <1>4, <1>5 DEF Next

\* A module that is found by name or is current was instantiated to the end, its
\* start function included, whatever failed on the way (VM.cpp:124).
THEOREM OnlyReadyModulesAreVisible == Spec => []OnlyReadyModulesVisible
<1>1. Init => IInv
  BY InitInv
<1>2. IInv /\ [Next]_vars => IInv'
  BY NextInv
<1>3. IInv => OnlyReadyModulesVisible
  BY DEF IInv
<1> QED BY <1>1, <1>2, <1>3, PTL DEF Spec

-----------------------------------------------------------------------------
(* What the instances refer to: objects that serve the items of their      *)
(* files.  The validator speaks of index spaces, instantiation of lists of *)
(* objects; the two agree because every stage adds as many objects, in the *)
(* same order, as its part of the file has items.                          *)

\* A store keeps to the limits of an item, whatever happens to it.
Within(kind, s, limits) ==
  /\ IsLimits(limits)
  /\ Len(s.cells) >= limits.min \/ MayShrink(kind, limits)
  /\ limits.max # NoMax => s.max # NoMax /\ s.max <= limits.max
  /\ s.address = limits.address

\* An object, of the globals and stores there are, is what an item stands for.
Serves(gs, ss, kind, object, item) ==
  /\ kind = "globals" => object \in 1..Len(gs) /\ gs[object].type = item.type
  /\ kind \in {"tables", "memories"} =>
       object \in 1..Len(ss) /\ Within(kind, ss[object], item.limits)
  /\ kind = "memories" => ss[object].type = "byte"
  /\ kind = "tables" => ss[object].type # "byte"

\* The objects of an instance serve the items of its file, in their order.
ListServes(gs, ss, r, kind) ==
  /\ IsList(r[kind]) /\ Len(r[kind]) <= Len(Space(r.file, kind))
  /\ \A k \in 1..Len(r[kind]) :
       Serves(gs, ss, kind, r[kind][k], Space(r.file, kind)[k])

KnownFiles == {f \in Files : Valid(f)} \cup {HostFile}

ServeInv ==
  \A x \in 1..Len(instances) :
    /\ instances[x].file \in KnownFiles
    /\ instances[x].state \in {"loading", "ready", "failed"}
    /\ \A kind \in Kinds : ListServes(globals, stores, instances[x], kind)

\* A ready instance has all of them.
CompleteInv ==
  \A x \in 1..Len(instances) : instances[x].state = "ready" =>
    \A kind \in Kinds : Len(instances[x][kind]) = Len(Space(instances[x].file, kind))

\* The imports of a kind among the first n.
ImportsAmong(f, kind, n) == {k \in 1..n : f.imports[k].kind = kind}

ImportCount(f, kind, n) == Cardinality(ImportsAmong(f, kind, n))

\* The kinds whose stage is over.
Done(stage) ==
  CASE stage = "functions" -> {}
    [] stage = "globals" -> {"functions"}
    [] stage = "memories" -> {"functions", "globals"}
    [] stage = "tables" -> {"functions", "globals", "memories"}
    [] stage \in {"elements", "data", "start", "finish"} -> Kinds

\* How many objects of a kind the instance that is loaded has.
MadeSoFar(f, kind, stage, item) ==
  IF stage = "imports" THEN ImportCount(f, kind, item - 1)
  ELSE Len(ImportsOf(f, kind))
         + IF stage = kind THEN item - 1 ELSE IF kind \in Done(stage) THEN Len(f[kind]) ELSE 0

\* The stage is one of load_module, so nothing unchecked has gone wrong.
ProgressInv ==
  load # NoLoad =>
    /\ load.stage \in LoadStages
    /\ load.item \in 1..(Len(ItemsOf(load.stage)) + 1)
    /\ \A kind \in Kinds :
         Len(Loading[kind]) = MadeSoFar(Loading.file, kind, load.stage, load.item)

IsStore(s) ==
  /\ s = [type |-> s.type, max |-> s.max, address |-> s.address, cells |-> s.cells]
  /\ IsList(s.cells) /\ s.max \in Nat \cup {NoMax} /\ Len(s.cells) <= MaxOf(s)

\* What a reference names is there.
Named(all, r) ==
  r.home # 0 /\ ~r.crossed => /\ r.home \in 1..Len(all) /\ r.n \in Nat
                              /\ r.n < Len(all[r.home].functions)

ObjectInv ==
  /\ IsList(stores) /\ IsList(globals)
  /\ \A s \in 1..Len(stores) :
       /\ IsStore(stores[s])
       /\ stores[s].type # "byte" =>
            \A k \in 1..Len(stores[s].cells) : Named(instances, stores[s].cells[k])
  /\ \A g \in 1..Len(globals) :
       globals[g].value.type = globals[g].type /\ Named(instances, globals[g].value)

LInv == IInv /\ ServeInv /\ CompleteInv /\ ProgressInv /\ ObjectInv

-----------------------------------------------------------------------------
(* Lists.                                                                  *)

LEMMA ListFacts ==
  ASSUME NEW s, IsList(s)
  PROVE  s \in Seq(ToSet(s)) /\ Len(s) \in Nat /\ DOMAIN s = 1..Len(s)
BY LenProperties DEF IsList

LEMMA FunctionIsList ==
  ASSUME NEW n \in Nat, NEW s, s = [k \in 1..n |-> s[k]]
  PROVE  IsList(s) /\ Len(s) = n
<1>1. s \in [1..n -> ToSet(s)]
  BY DEF ToSet
<1>2. s \in Seq(ToSet(s))
  BY <1>1, FunctionIsSeq
<1> QED BY <1>1, <1>2, LenProperties DEF IsList

LEMMA ListAppended ==
  ASSUME NEW s, IsList(s), NEW e
  PROVE  /\ IsList(Append(s, e)) /\ Len(Append(s, e)) = Len(s) + 1
         /\ Append(s, e)[Len(s) + 1] = e
         /\ \A k \in 1..Len(s) : Append(s, e)[k] = s[k]
<1> DEFINE S == ToSet(s) \cup {e}
           t == Append(s, e)
<1>1. s \in Seq(S) /\ Len(s) \in Nat
  BY ListFacts, SeqMonotonic
<1>2. /\ t \in Seq(S) /\ Len(t) = Len(s) + 1 /\ t[Len(s) + 1] = e
      /\ \A k \in 1..Len(s) : t[k] = s[k]
  BY <1>1, LenProperties
<1> HIDE DEF t
<1>3. t = [k \in 1..(Len(s) + 1) |-> t[k]]
  BY <1>2, LenProperties
<1>4. IsList(t)
  BY <1>1, <1>3, FunctionIsList
<1> QED BY <1>2, <1>4 DEF t

LEMMA ListsJoined ==
  ASSUME NEW s, IsList(s), NEW t, IsList(t)
  PROVE  /\ IsList(s \o t) /\ Len(s \o t) = Len(s) + Len(t)
         /\ \A k \in 1..(Len(s) + Len(t)) :
              (s \o t)[k] = IF k <= Len(s) THEN s[k] ELSE t[k - Len(s)]
<1> DEFINE S == ToSet(s) \cup ToSet(t)
           u == s \o t
<1>1. s \in Seq(S) /\ t \in Seq(S) /\ Len(s) \in Nat /\ Len(t) \in Nat
  BY ListFacts, SeqMonotonic
<1>2. /\ u \in Seq(S) /\ Len(u) = Len(s) + Len(t)
      /\ \A k \in 1..(Len(s) + Len(t)) : u[k] = IF k <= Len(s) THEN s[k] ELSE t[k - Len(s)]
  BY <1>1, ConcatProperties
<1> HIDE DEF u
<1>3. u = [k \in 1..(Len(s) + Len(t)) |-> u[k]]
  <2>1. u \in Seq(S) /\ Len(u) = Len(s) + Len(t)
    BY <1>2
  <2>2. u \in [1..Len(u) -> S]
    BY <2>1, LenProperties
  <2> QED BY <2>1, <2>2
<1>4. IsList(u)
  <2> DEFINE n == Len(s) + Len(t)
  <2>1. n \in Nat
    BY <1>1
  <2> HIDE DEF n
  <2>2. u = [k \in 1..n |-> u[k]]
    BY <1>3 DEF n
  <2> QED BY <2>1, <2>2, FunctionIsList
<1> QED BY <1>2, <1>4 DEF u

-----------------------------------------------------------------------------
(* The imports of a kind, and index spaces.                                *)

LEMMA FilesKnown ==
  ASSUME NEW f \in KnownFiles
  PROVE  /\ IsFile(f) /\ Valid(f)
         /\ \A list \in Lists : IsList(f[list])
BY InstancesAssumption, HostAssumption DEF KnownFiles, IsFile

LEMMA ImportsAreFinite ==
  ASSUME NEW f, NEW kind, NEW n \in Nat
  PROVE  /\ IsFiniteSet(ImportsAmong(f, kind, n))
         /\ ImportCount(f, kind, n) \in Nat
<1>1. IsFiniteSet(1..n)
  BY FS_Interval
<1>2. IsFiniteSet(ImportsAmong(f, kind, n))
  BY <1>1, FS_Subset DEF ImportsAmong
<1> QED BY <1>2, FS_CardinalityType DEF ImportCount

LEMMA NoImportCounted ==
  ASSUME NEW f, NEW kind
  PROVE  ImportCount(f, kind, 0) = 0
<1>1. ImportsAmong(f, kind, 0) = {}
  BY DEF ImportsAmong
<1> QED BY <1>1, FS_EmptySet DEF ImportCount

LEMMA ImportCounted ==
  ASSUME NEW f, NEW kind, NEW n \in Nat
  PROVE  ImportCount(f, kind, n + 1)
           = ImportCount(f, kind, n) + IF f.imports[n + 1].kind = kind THEN 1 ELSE 0
<1> DEFINE S == ImportsAmong(f, kind, n)
           T == ImportsAmong(f, kind, n + 1)
<1>1. 1..(n + 1) = 1..n \cup {n + 1} /\ n + 1 \notin 1..n
  OBVIOUS
<1>2. T = IF f.imports[n + 1].kind = kind THEN S \cup {n + 1} ELSE S
  BY <1>1 DEF ImportsAmong
<1>3. IsFiniteSet(S) /\ n + 1 \notin S /\ ImportCount(f, kind, n) \in Nat
  BY <1>1, ImportsAreFinite DEF ImportsAmong
<1> HIDE DEF S, T
<1>4. Cardinality(S \cup {n + 1}) = Cardinality(S) + 1
  BY <1>3, FS_AddElement
<1> QED BY <1>2, <1>3, <1>4 DEF ImportCount, S, T

LEMMA ImportCountGrows ==
  ASSUME NEW f, NEW kind, NEW m \in Nat, NEW n \in Nat, m <= n
  PROVE  ImportCount(f, kind, m) <= ImportCount(f, kind, n)
<1>1. ImportsAmong(f, kind, m) \subseteq ImportsAmong(f, kind, n)
  BY DEF ImportsAmong
<1> QED BY <1>1, ImportsAreFinite, FS_Subset DEF ImportCount

LEMMA ImportsOfFile ==
  ASSUME NEW f, IsList(f.imports), NEW kind
  PROVE  /\ IsList(ImportsOf(f, kind))
         /\ Len(ImportsOf(f, kind)) = ImportCount(f, kind, Len(f.imports))
         /\ Len(ImportsOf(f, kind)) \in Nat
         /\ \A n \in 1..ImportCount(f, kind, Len(f.imports)) :
              ImportsOf(f, kind)[n] =
                f.imports[CHOOSE k \in ImportsAmong(f, kind, Len(f.imports)) :
                            ImportCount(f, kind, k) = n]
<1> DEFINE len == Len(f.imports)
           count == ImportCount(f, kind, len)
           places == {k \in DOMAIN f.imports : f.imports[k].kind = kind}
           all == ImportsOf(f, kind)
           At(n) == CHOOSE k \in places : Cardinality({j \in places : j <= k}) = n
<1>1. len \in Nat /\ DOMAIN f.imports = 1..len
  BY ListFacts
<1>2. places = ImportsAmong(f, kind, len)
  BY <1>1 DEF ImportsAmong
<1>3. \A k \in places : Cardinality({j \in places : j <= k}) = ImportCount(f, kind, k)
  <2> SUFFICES ASSUME NEW k \in places
               PROVE  Cardinality({j \in places : j <= k}) = ImportCount(f, kind, k)
    OBVIOUS
  <2>1. {j \in places : j <= k} = ImportsAmong(f, kind, k)
    BY <1>1 DEF ImportsAmong
  <2> QED BY <2>1 DEF ImportCount
<1>4. Cardinality(places) = count /\ count \in Nat
  BY <1>1, <1>2, ImportsAreFinite DEF ImportCount
<1>5. all = [n \in 1..Cardinality(places) |-> f.imports[At(n)]]
  BY DEF ImportsOf
<1>6. \A n : At(n) = CHOOSE k \in ImportsAmong(f, kind, len) : ImportCount(f, kind, k) = n
  <2> HIDE DEF places
  <2> QED BY <1>2, <1>3
<1> HIDE DEF places, all, len, At, count
<1>7. all = [n \in 1..count |-> all[n]] /\ \A n \in 1..count : all[n] = f.imports[At(n)]
  BY <1>4, <1>5
<1>8. IsList(all) /\ Len(all) = count
  BY <1>4, <1>7, FunctionIsList
<1> QED BY <1>4, <1>6, <1>7, <1>8 DEF all, len, count

\* The next import is the next one of its kind.
LEMMA NthImport ==
  ASSUME NEW f, IsList(f.imports), NEW p \in 1..Len(f.imports)
  PROVE  LET kind == f.imports[p].kind
             n    == ImportCount(f, kind, p - 1) + 1
         IN  n \in 1..Len(ImportsOf(f, kind)) /\ ImportsOf(f, kind)[n] = f.imports[p]
<1> DEFINE kind == f.imports[p].kind
           len == Len(f.imports)
           places == ImportsAmong(f, kind, len)
           n == ImportCount(f, kind, p - 1) + 1
<1>1. len \in Nat /\ p \in Nat /\ p - 1 \in Nat /\ p - 1 + 1 = p /\ p <= len
  BY ListFacts
<1>2. ImportCount(f, kind, p) = n /\ n \in Nat \ {0}
  <2>1. ImportCount(f, kind, p - 1 + 1)
          = ImportCount(f, kind, p - 1) + IF f.imports[p - 1 + 1].kind = kind THEN 1 ELSE 0
    BY <1>1, ImportCounted
  <2>2. ImportCount(f, kind, p - 1) \in Nat
    BY <1>1, ImportsAreFinite
  <2> QED BY <1>1, <2>1, <2>2
<1>3. n <= ImportCount(f, kind, len)
  BY <1>1, <1>2, ImportCountGrows
<1>4. p \in places
  BY <1>1 DEF ImportsAmong
<1>5. ASSUME NEW k \in places, ImportCount(f, kind, k) = n PROVE k = p
  <2>1. k \in Nat /\ k - 1 \in Nat /\ k - 1 + 1 = k /\ f.imports[k].kind = kind
    BY <1>1 DEF ImportsAmong
  <2>2. ImportCount(f, kind, k) = ImportCount(f, kind, k - 1) + 1
        /\ ImportCount(f, kind, k - 1) \in Nat
    <3>1. ImportCount(f, kind, k - 1 + 1)
            = ImportCount(f, kind, k - 1) + IF f.imports[k - 1 + 1].kind = kind THEN 1 ELSE 0
      BY <2>1, ImportCounted
    <3>2. ImportCount(f, kind, k - 1) \in Nat
      BY <2>1, ImportsAreFinite
    <3> QED BY <2>1, <3>1, <3>2
  <2>3. ~(p < k)
    <3>1. p < k => ImportCount(f, kind, p) <= ImportCount(f, kind, k - 1)
      BY <1>1, <2>1, ImportCountGrows
    <3> QED BY <1>2, <1>5, <2>2, <3>1
  <2>4. ~(k < p)
    <3>1. k < p => ImportCount(f, kind, k) <= ImportCount(f, kind, p - 1)
      BY <1>1, <2>1, ImportCountGrows
    <3>2. ImportCount(f, kind, p - 1) \in Nat
      BY <1>1, ImportsAreFinite
    <3> QED BY <1>2, <1>5, <3>1, <3>2
  <2> QED BY <1>1, <2>1, <2>3, <2>4
<1>6. (CHOOSE k \in places : ImportCount(f, kind, k) = n) = p
  <2> HIDE DEF places, n
  <2> QED BY <1>2, <1>4, <1>5
<1>7. n \in 1..ImportCount(f, kind, len)
  BY <1>1, <1>2, <1>3, ImportsAreFinite
<1>8. /\ Len(ImportsOf(f, kind)) = ImportCount(f, kind, len)
      /\ \A m \in 1..ImportCount(f, kind, len) :
           ImportsOf(f, kind)[m] =
             f.imports[CHOOSE k \in places : ImportCount(f, kind, k) = m]
  BY ImportsOfFile
<1> HIDE DEF n, places, kind
<1> QED BY <1>6, <1>7, <1>8 DEF n, kind

LEMMA SpaceOfFile ==
  ASSUME NEW f, IsList(f.imports), NEW kind, IsList(f[kind])
  PROVE  /\ Len(ImportsOf(f, kind)) \in Nat /\ Len(f[kind]) \in Nat
         /\ Len(Space(f, kind)) = Len(ImportsOf(f, kind)) + Len(f[kind])
         /\ DOMAIN Space(f, kind) = 1..Len(Space(f, kind))
         /\ \A k \in 1..Len(Space(f, kind)) :
              Space(f, kind)[k] = IF k <= Len(ImportsOf(f, kind)) THEN ImportsOf(f, kind)[k]
                                  ELSE f[kind][k - Len(ImportsOf(f, kind))]
<1>1. IsList(ImportsOf(f, kind)) /\ Len(ImportsOf(f, kind)) \in Nat
  BY ImportsOfFile
<1>2. Len(f[kind]) \in Nat
  BY ListFacts
<1>3. /\ IsList(Space(f, kind))
      /\ Len(Space(f, kind)) = Len(ImportsOf(f, kind)) + Len(f[kind])
      /\ \A k \in 1..(Len(ImportsOf(f, kind)) + Len(f[kind])) :
           Space(f, kind)[k] = IF k <= Len(ImportsOf(f, kind)) THEN ImportsOf(f, kind)[k]
                               ELSE f[kind][k - Len(ImportsOf(f, kind))]
  BY <1>1, ListsJoined DEF Space
<1>4. DOMAIN Space(f, kind) = 1..Len(Space(f, kind))
  BY <1>3, ListFacts
<1> QED BY <1>1, <1>2, <1>3, <1>4

LEMMA ImportInSpace ==
  ASSUME NEW f, IsList(f.imports), NEW kind, IsList(f[kind]),
         NEW n \in 1..Len(ImportsOf(f, kind))
  PROVE  n \in 1..Len(Space(f, kind)) /\ Space(f, kind)[n] = ImportsOf(f, kind)[n]
<1>1. /\ Len(ImportsOf(f, kind)) \in Nat /\ Len(f[kind]) \in Nat
      /\ Len(Space(f, kind)) = Len(ImportsOf(f, kind)) + Len(f[kind])
  BY SpaceOfFile
<1>2. n \in 1..Len(Space(f, kind)) /\ n <= Len(ImportsOf(f, kind))
  BY <1>1
<1> QED BY <1>2, SpaceOfFile

\* What the validator and read_from_stream say of the items of a file.
LEMMA FileItems ==
  ASSUME NEW f \in KnownFiles
  PROVE  /\ \A k \in DOMAIN f.imports : IsImport(f.imports[k])
         /\ \A k \in DOMAIN f.globals :
              IsExpr(f.globals[k].init) /\ ValidExpr(f, f.globals[k].init, f.globals[k].type)
         /\ \A k \in DOMAIN f.exports :
              f.exports[k].idx \in Nat /\ HasIndex(f, f.exports[k].kind, f.exports[k].idx)
         /\ \A k \in DOMAIN f.elements :
              IsElement(f.elements[k]) /\ ValidElement(f, f.elements[k])
         /\ \A k \in DOMAIN f.data : IsData(f.data[k]) /\ ValidData(f, f.data[k])
<1>1. IsFile(f) /\ Valid(f)
  BY FilesKnown
<1>2. \A k \in DOMAIN f.imports : IsImport(f.imports[k])
  BY <1>1 DEF IsFile
<1>3. \A k \in DOMAIN f.globals :
        IsExpr(f.globals[k].init) /\ ValidExpr(f, f.globals[k].init, f.globals[k].type)
  BY <1>1 DEF IsFile, Valid
<1>4. \A k \in DOMAIN f.exports :
        f.exports[k].idx \in Nat /\ HasIndex(f, f.exports[k].kind, f.exports[k].idx)
  BY <1>1 DEF IsFile, Valid
<1>5. \A k \in DOMAIN f.elements :
        IsElement(f.elements[k]) /\ ValidElement(f, f.elements[k])
  BY <1>1 DEF IsFile, Valid
<1>6. \A k \in DOMAIN f.data : IsData(f.data[k]) /\ ValidData(f, f.data[k])
  BY <1>1 DEF IsFile, Valid
<1> QED BY <1>2, <1>3, <1>4, <1>5, <1>6

-----------------------------------------------------------------------------
(* What no step undoes.                                                    *)

\* The store is a memory whose growth may wrap.
Shrinks(s) == s.type = "byte" /\ s.address = "i64"

\* Stores and globals are never removed, and keep what an import compared.
ObjectsKept ==
  /\ Len(stores') \in Nat /\ Len(stores) <= Len(stores')
  /\ Len(globals') \in Nat /\ Len(globals) <= Len(globals')
  /\ \A s \in 1..Len(stores) :
       /\ stores'[s].type = stores[s].type /\ stores'[s].max = stores[s].max
       /\ stores'[s].address = stores[s].address
       /\ Len(stores'[s].cells) \in Nat
       /\ Len(stores[s].cells) <= Len(stores'[s].cells) \/ Shrinks(stores[s])
  /\ \A g \in 1..Len(globals) : globals'[g] = globals[g]

\* Instances are never removed, and keep their functions.
FunctionsKept ==
  /\ Len(instances') \in Nat /\ Len(instances) <= Len(instances')
  /\ \A x \in 1..Len(instances) :
       /\ Len(instances'[x].functions) \in Nat
       /\ Len(instances[x].functions) <= Len(instances'[x].functions)

LEMMA Counted ==
  ASSUME LInv
  PROVE  /\ Len(instances) \in Nat /\ Len(stores) \in Nat /\ Len(globals) \in Nat
         /\ DOMAIN stores = 1..Len(stores) /\ DOMAIN globals = 1..Len(globals)
         /\ \A s \in 1..Len(stores) : /\ Len(stores[s].cells) \in Nat
                                      /\ DOMAIN stores[s].cells = 1..Len(stores[s].cells)
         /\ \A x \in 1..Len(instances), kind \in Kinds :
              /\ IsList(instances[x][kind]) /\ Len(instances[x][kind]) \in Nat
              /\ DOMAIN instances[x][kind] = 1..Len(instances[x][kind])
<1>1. Len(instances) \in Nat
  BY InstancesCounted DEF LInv, IInv
<1>2. /\ Len(stores) \in Nat /\ Len(globals) \in Nat
      /\ DOMAIN stores = 1..Len(stores) /\ DOMAIN globals = 1..Len(globals)
  BY ListFacts DEF LInv, ObjectInv
<1>3. ASSUME NEW s \in 1..Len(stores)
      PROVE  Len(stores[s].cells) \in Nat /\ DOMAIN stores[s].cells = 1..Len(stores[s].cells)
  <2>1. IsList(stores[s].cells)
    BY DEF LInv, ObjectInv, IsStore
  <2> QED BY <2>1, ListFacts
<1>4. ASSUME NEW x \in 1..Len(instances), NEW kind \in Kinds
      PROVE  /\ IsList(instances[x][kind]) /\ Len(instances[x][kind]) \in Nat
             /\ DOMAIN instances[x][kind] = 1..Len(instances[x][kind])
  <2>1. IsList(instances[x][kind])
    BY DEF LInv, ServeInv, ListServes
  <2> QED BY <2>1, ListFacts
<1> QED BY <1>1, <1>2, <1>3, <1>4

LEMMA ServesStill ==
  ASSUME LInv, ObjectsKept, NEW kind, NEW object, NEW item,
         Serves(globals, stores, kind, object, item)
  PROVE  Serves(globals', stores', kind, object, item)
<1>1. kind = "globals" => object \in 1..Len(globals') /\ globals'[object].type = item.type
  BY Counted DEF ObjectsKept, Serves
<1>2. ASSUME kind \in {"tables", "memories"}
      PROVE  /\ object \in 1..Len(stores') /\ Within(kind, stores'[object], item.limits)
             /\ stores'[object].type = stores[object].type
  <2>1. /\ object \in 1..Len(stores) /\ Within(kind, stores[object], item.limits)
        /\ kind = "tables" => stores[object].type # "byte"
    BY <1>2 DEF Serves
  <2>2. /\ object \in 1..Len(stores')
        /\ stores'[object].type = stores[object].type
        /\ stores'[object].max = stores[object].max
        /\ stores'[object].address = stores[object].address
        /\ Len(stores'[object].cells) \in Nat
        /\ \/ Len(stores[object].cells) <= Len(stores'[object].cells)
           \/ Shrinks(stores[object])
    BY <2>1, Counted DEF ObjectsKept
  <2>3. Len(stores[object].cells) \in Nat
    BY <2>1, Counted
  <2>4. item.limits.min \in Nat
    BY <2>1 DEF Within, IsLimits
  <2>5. Len(stores'[object].cells) >= item.limits.min \/ MayShrink(kind, item.limits)
    <3>1. CASE Shrinks(stores[object])
      BY <1>2, <2>1, <3>1 DEF Within, Shrinks, MayShrink
    <3>2. CASE Len(stores[object].cells) <= Len(stores'[object].cells)
      BY <2>1, <2>2, <2>3, <2>4, <3>2 DEF Within
    <3> QED BY <2>2, <3>1, <3>2
  <2>6. Within(kind, stores'[object], item.limits)
    BY <2>1, <2>2, <2>5 DEF Within, IsLimits
  <2> QED BY <2>2, <2>6
<1> QED BY <1>1, <1>2 DEF Serves

LEMMA NamedStays ==
  ASSUME LInv, FunctionsKept, NEW r, Named(instances, r)
  PROVE  Named(instances', r)
<1> SUFFICES ASSUME r.home # 0, ~r.crossed
             PROVE  /\ r.home \in 1..Len(instances') /\ r.n \in Nat
                    /\ r.n < Len(instances'[r.home].functions)
  BY DEF Named
<1>1. /\ r.home \in 1..Len(instances) /\ r.n \in Nat
      /\ r.n < Len(instances[r.home].functions)
  BY DEF Named
<1>2. Len(instances) \in Nat /\ Len(instances[r.home].functions) \in Nat
  BY <1>1, Counted DEF Kinds
<1> QED BY <1>1, <1>2 DEF FunctionsKept

LEMMA ListServesStill ==
  ASSUME LInv, ObjectsKept, NEW r, NEW kind, ListServes(globals, stores, r, kind)
  PROVE  ListServes(globals', stores', r, kind)
BY ServesStill DEF ListServes

-----------------------------------------------------------------------------
(* Steps that add no object to an instance.                                *)

ListsSame ==
  /\ Len(instances') = Len(instances)
  /\ \A x \in 1..Len(instances) :
       /\ instances'[x].file = instances[x].file
       /\ \A kind \in Kinds : instances'[x][kind] = instances[x][kind]

LEMMA SameLists ==
  ASSUME LInv, ListsSame, ObjectsKept,
         \A x \in 1..Len(instances) : instances'[x].state \in {"loading", "ready", "failed"}
  PROVE  ServeInv' /\ FunctionsKept
<1>1. FunctionsKept
  BY Counted DEF ListsSame, FunctionsKept, Kinds
<1>2. ASSUME NEW x \in 1..Len(instances), NEW kind \in Kinds
      PROVE  ListServes(globals', stores', instances'[x], kind)
  <2>1. /\ instances'[x].file = instances[x].file
        /\ instances'[x][kind] = instances[x][kind]
    BY DEF ListsSame
  <2>2. ListServes(globals', stores', instances[x], kind)
    BY ListServesStill DEF LInv, ServeInv
  <2> QED BY <2>1, <2>2 DEF ListServes
<1>3. \A x \in 1..Len(instances) : instances'[x].file \in KnownFiles
  BY DEF ListsSame, LInv, ServeInv
<1>4. ServeInv'
  BY <1>2, <1>3 DEF ServeInv, ListsSame
<1> QED BY <1>1, <1>4

LEMMA SameFunctions ==
  ASSUME LInv, ListsSame
  PROVE  FunctionsKept
BY Counted DEF ListsSame, FunctionsKept, Kinds

\* No cell of a table names a function there is not.
CellsNamed(all, s) ==
  s.type # "byte" => \A k \in 1..Len(s.cells) : Named(all, s.cells[k])

GlobalNamed(all, g) == g.value.type = g.type /\ Named(all, g.value)

LEMMA ObjectFacts ==
  ASSUME LInv
  PROVE  /\ IsList(stores) /\ IsList(globals)
         /\ \A s \in 1..Len(stores) : IsStore(stores[s]) /\ CellsNamed(instances, stores[s])
         /\ \A g \in 1..Len(globals) : GlobalNamed(instances, globals[g])
BY DEF LInv, ObjectInv, CellsNamed, GlobalNamed

LEMMA ObjectsProved ==
  ASSUME IsList(stores'), IsList(globals'),
         \A s \in 1..Len(stores') : IsStore(stores'[s]) /\ CellsNamed(instances', stores'[s]),
         \A g \in 1..Len(globals') : GlobalNamed(instances', globals'[g])
  PROVE  ObjectInv'
BY DEF ObjectInv, CellsNamed, GlobalNamed

LEMMA CellsStayNamed ==
  ASSUME LInv, FunctionsKept
  PROVE  /\ \A s \in 1..Len(stores) : CellsNamed(instances', stores[s])
         /\ \A g \in 1..Len(globals) : GlobalNamed(instances', globals[g])
BY NamedStays, ObjectFacts DEF CellsNamed, GlobalNamed

LEMMA ObjectsSame ==
  ASSUME LInv, FunctionsKept, UNCHANGED <<stores, globals>>
  PROVE  ObjectsKept /\ ObjectInv'
<1>1. ObjectsKept
  BY Counted DEF ObjectsKept
<1>2. ObjectInv'
  BY ObjectFacts, CellsStayNamed, ObjectsProved
<1> QED BY <1>1, <1>2

\* A list of as many elements.
LEMMA ListRebuilt ==
  ASSUME NEW s, IsList(s), NEW t, t = [k \in 1..Len(s) |-> t[k]]
  PROVE  IsList(t) /\ Len(t) = Len(s)
BY ListFacts, FunctionIsList

LEMMA CellsChanged ==
  ASSUME LInv, FunctionsKept, NEW id \in 1..Len(stores), NEW cells, IsList(cells),
         Len(stores[id].cells) <= Len(cells) \/ Shrinks(stores[id]),
         Len(cells) <= MaxOf(stores[id]),
         stores[id].type # "byte" => \A k \in 1..Len(cells) : Named(instances', cells[k]),
         stores' = [stores EXCEPT ![id] = [stores[id] EXCEPT !.cells = cells]],
         globals' = globals
  PROVE  ObjectsKept /\ ObjectInv'
<1> DEFINE new == [stores[id] EXCEPT !.cells = cells]
<1>1. /\ IsList(stores') /\ Len(stores') = Len(stores)
      /\ \A k \in 1..Len(stores) : stores'[k] = IF k = id THEN new ELSE stores[k]
  <2>1. IsList(stores)
    BY ObjectFacts
  <2>2. DOMAIN stores = 1..Len(stores) /\ id \in 1..Len(stores)
    BY Counted
  <2> HIDE DEF new
  <2>3. /\ stores' = [k \in 1..Len(stores) |-> stores'[k]]
        /\ \A k \in 1..Len(stores) : stores'[k] = IF k = id THEN new ELSE stores[k]
    BY <2>2 DEF new
  <2>4. IsList(stores') /\ Len(stores') = Len(stores)
    BY <2>1, <2>3, ListRebuilt
  <2> QED BY <2>3, <2>4
<1>2. IsStore(stores[id])
  BY ObjectFacts
<1>3. /\ new.type = stores[id].type /\ new.max = stores[id].max
      /\ new.address = stores[id].address /\ new.cells = cells
      /\ new = [type |-> new.type, max |-> new.max, address |-> new.address,
                cells |-> new.cells]
  BY <1>2 DEF IsStore
<1> HIDE DEF new
<1>4. Len(cells) \in Nat
  BY ListFacts
<1>5. IsStore(new) /\ CellsNamed(instances', new)
  BY <1>2, <1>3 DEF IsStore, CellsNamed, MaxOf
<1>6. ObjectsKept
  BY <1>1, <1>3, <1>4, Counted DEF ObjectsKept
<1>7. ObjectInv'
  <2>1. \A s \in 1..Len(stores') : IsStore(stores'[s]) /\ CellsNamed(instances', stores'[s])
    BY <1>1, <1>5, ObjectFacts, CellsStayNamed
  <2> QED BY <1>1, <2>1, ObjectFacts, CellsStayNamed, ObjectsProved
<1> QED BY <1>6, <1>7

LEMMA StoreAdded ==
  ASSUME LInv, FunctionsKept, NEW s, IsStore(s), CellsNamed(instances', s),
         stores' = Append(stores, s), globals' = globals
  PROVE  /\ ObjectsKept /\ ObjectInv'
         /\ Len(stores') = Len(stores) + 1 /\ stores'[Len(stores) + 1] = s
<1>1. /\ IsList(stores') /\ Len(stores') = Len(stores) + 1 /\ stores'[Len(stores) + 1] = s
      /\ \A k \in 1..Len(stores) : stores'[k] = stores[k]
  <2>1. IsList(stores)
    BY ObjectFacts
  <2>2. /\ IsList(Append(stores, s)) /\ Len(Append(stores, s)) = Len(stores) + 1
        /\ Append(stores, s)[Len(stores) + 1] = s
        /\ \A k \in 1..Len(stores) : Append(stores, s)[k] = stores[k]
    BY <2>1, ListAppended
  <2> QED BY <2>2
<1>2. Len(stores) \in Nat
  BY Counted
<1>3. ObjectsKept
  BY <1>1, <1>2, Counted DEF ObjectsKept
<1>4. ObjectInv'
  <2>1. \A k \in 1..Len(stores') : k \in 1..Len(stores) \/ k = Len(stores) + 1
    BY <1>1, <1>2
  <2>2. \A k \in 1..Len(stores') : IsStore(stores'[k]) /\ CellsNamed(instances', stores'[k])
    BY <1>1, <2>1, ObjectFacts, CellsStayNamed
  <2> QED BY <1>1, <2>2, ObjectFacts, CellsStayNamed, ObjectsProved
<1> QED BY <1>1, <1>3, <1>4

LEMMA GlobalAdded ==
  ASSUME LInv, FunctionsKept, NEW g, GlobalNamed(instances', g),
         globals' = Append(globals, g), stores' = stores
  PROVE  /\ ObjectsKept /\ ObjectInv'
         /\ Len(globals') = Len(globals) + 1 /\ globals'[Len(globals) + 1] = g
<1>1. /\ IsList(globals') /\ Len(globals') = Len(globals) + 1
      /\ globals'[Len(globals) + 1] = g
      /\ \A k \in 1..Len(globals) : globals'[k] = globals[k]
  <2>1. IsList(globals)
    BY ObjectFacts
  <2>2. /\ IsList(Append(globals, g)) /\ Len(Append(globals, g)) = Len(globals) + 1
        /\ Append(globals, g)[Len(globals) + 1] = g
        /\ \A k \in 1..Len(globals) : Append(globals, g)[k] = globals[k]
    BY <2>1, ListAppended
  <2> QED BY <2>2
<1>2. Len(globals) \in Nat
  BY Counted
<1>3. ObjectsKept
  BY <1>1, <1>2, Counted DEF ObjectsKept
<1>4. ObjectInv'
  <2>1. \A k \in 1..Len(globals') : k \in 1..Len(globals) \/ k = Len(globals) + 1
    BY <1>1, <1>2
  <2>2. \A k \in 1..Len(globals') : GlobalNamed(instances', globals'[k])
    BY <1>1, <2>1, CellsStayNamed
  <2> QED BY <1>1, <2>2, ObjectFacts, CellsStayNamed, ObjectsProved
<1> QED BY <1>1, <1>3, <1>4

-----------------------------------------------------------------------------
(* The module that is loaded.                                              *)

LEMMA LoadingFacts ==
  ASSUME LInv, load # NoLoad
  PROVE  /\ load.id \in 1..Len(instances) /\ Loading.state = "loading"
         /\ Loading.file \in KnownFiles /\ Loading = instances[load.id]
         /\ load.stage \in LoadStages /\ load.item \in Nat \ {0}
         /\ load.item \in 1..(Len(ItemsOf(load.stage)) + 1)
         /\ \A kind \in Kinds :
              /\ Len(Loading[kind]) = MadeSoFar(Loading.file, kind, load.stage, load.item)
              /\ IsList(Loading[kind]) /\ Len(Loading[kind]) \in Nat
              /\ \A k \in 1..Len(Loading[kind]) :
                   Serves(globals, stores, kind, Loading[kind][k], Space(Loading.file, kind)[k])
<1>1. /\ load.id \in 1..Len(instances) /\ Loading.state = "loading"
      /\ load.stage \in LoadStages /\ load.item \in Nat \ {0}
  BY DEF LInv, IInv, LoadInv, LoadRecord, ProgressInv
<1>2. Loading.file \in KnownFiles
  BY <1>1 DEF LInv, ServeInv, Loading
<1>3. /\ load.item \in 1..(Len(ItemsOf(load.stage)) + 1)
      /\ \A kind \in Kinds :
           Len(Loading[kind]) = MadeSoFar(Loading.file, kind, load.stage, load.item)
  BY DEF LInv, ProgressInv
<1>4. \A kind \in Kinds : ListServes(globals, stores, Loading, kind)
  BY <1>1 DEF LInv, ServeInv, Loading
<1> QED BY <1>1, <1>2, <1>3, <1>4, ListFacts DEF Loading, ListServes

LEMMA NextItemLoad ==
  ASSUME LInv, load # NoLoad, NextItem
  PROVE  /\ load'.id = load.id /\ load'.stage = load.stage /\ load'.item = load.item + 1
         /\ load' # NoLoad
<1>1. LoadRecord(load) /\ load.stage \in LoadStages
  BY DEF LInv, IInv, LoadInv, ProgressInv
<1>2. load'.id = load.id /\ load'.stage = load.stage /\ load'.item = load.item + 1
  BY <1>1 DEF NextItem, LoadRecord
<1> QED BY <1>1, <1>2 DEF NoLoad, LoadStages

LEMMA StageKinds ==
  /\ Kinds = {"functions", "tables", "memories", "globals"}
  /\ LoadStages = {"imports", "elements", "data", "start", "finish"} \cup Kinds
  /\ \A kind \in Kinds : kind # "imports" /\ kind \in Lists
  /\ "imports" \in Lists
BY DEF Kinds, LoadStages, Lists

\* The next item makes one more object, of its kind.
LEMMA MadeOne ==
  ASSUME NEW f, IsList(f.imports), NEW kind \in Kinds, NEW stage, NEW item \in Nat \ {0},
         \/ stage = "imports" /\ f.imports[item].kind = kind
         \/ stage = kind,
         NEW other \in Kinds
  PROVE  MadeSoFar(f, other, stage, item + 1)
           = MadeSoFar(f, other, stage, item) + IF other = kind THEN 1 ELSE 0
<1>1. CASE stage = "imports"
  <2>1. item - 1 \in Nat /\ item - 1 + 1 = item /\ item + 1 - 1 = item
    OBVIOUS
  <2>2. ImportCount(f, other, item - 1 + 1)
          = ImportCount(f, other, item - 1)
              + IF f.imports[item - 1 + 1].kind = other THEN 1 ELSE 0
    BY <2>1, ImportCounted
  <2>3. f.imports[item].kind = kind
    BY <1>1, StageKinds
  <2> QED BY <1>1, <2>1, <2>2, <2>3 DEF MadeSoFar
<1>2. CASE stage = kind
  <2>1. stage # "imports"
    BY <1>2, StageKinds
  <2>2. Len(ImportsOf(f, other)) \in Nat
    BY ImportsOfFile
  <2>3. CASE other = kind
    BY <1>2, <2>1, <2>2, <2>3 DEF MadeSoFar
  <2>4. CASE other # kind
    <3>1. stage # other
      BY <1>2, <2>4
    <3> DEFINE done == IF other \in Done(stage) THEN Len(f[other]) ELSE 0
    <3>2. /\ MadeSoFar(f, other, stage, item + 1) = Len(ImportsOf(f, other)) + done
          /\ MadeSoFar(f, other, stage, item) = Len(ImportsOf(f, other)) + done
      BY <2>1, <3>1 DEF MadeSoFar
    <3> QED BY <2>4, <3>2
  <2> QED BY <2>3, <2>4
<1> QED BY <1>1, <1>2

-----------------------------------------------------------------------------
(* Items that give the module an object.                                   *)

LEMMA AddFields ==
  ASSUME LInv, load # NoLoad, NEW kind \in Kinds, NEW object, Add(kind, object)
  PROVE  /\ Len(instances') = Len(instances)
         /\ \A x \in 1..Len(instances) :
              /\ instances'[x].file = instances[x].file
              /\ instances'[x].state = instances[x].state
              /\ \A other \in Kinds :
                   instances'[x][other] = IF x = load.id /\ other = kind
                                          THEN Append(Loading[kind], object)
                                          ELSE instances[x][other]
<1>1. load.id \in 1..Len(instances) /\ InstancesAreRecords
  BY LoadingFacts DEF LInv, IInv
<1>2. kind \in Fields /\ kind # "file" /\ kind # "state" /\ Kinds \subseteq Fields
      /\ "file" \in Fields /\ "state" \in Fields
  BY DEF Kinds, Fields
<1>3. SetField(load.id, kind, Append(Loading[kind], object))
  BY DEF Add, SetField
<1>4. /\ Len(instances') = Len(instances)
      /\ \A y \in 1..Len(instances), g \in Fields :
           instances'[y][g] = IF y = load.id /\ g = kind THEN Append(Loading[kind], object)
                              ELSE instances[y][g]
  BY <1>1, <1>2, <1>3, FieldChanged
<1> QED BY <1>2, <1>4

LEMMA AddKeepsFunctions ==
  ASSUME LInv, load # NoLoad, NEW kind \in Kinds, NEW object, Add(kind, object)
  PROVE  FunctionsKept
<1>1. IsList(Loading[kind]) /\ Len(Loading[kind]) \in Nat /\ Loading = instances[load.id]
  BY LoadingFacts
<1>2. Len(Append(Loading[kind], object)) = Len(Loading[kind]) + 1
  BY <1>1, ListAppended
<1>3. "functions" \in Kinds
  BY DEF Kinds
<1>4. Len(instances') = Len(instances) /\ Len(instances) \in Nat
  BY AddFields, Counted
<1>5. ASSUME NEW x \in 1..Len(instances)
      PROVE  /\ Len(instances'[x].functions) \in Nat
             /\ Len(instances[x].functions) <= Len(instances'[x].functions)
  <2>1. Len(instances[x].functions) \in Nat
    BY <1>3, Counted
  <2>2. instances'[x].functions = IF x = load.id /\ "functions" = kind
                                  THEN Append(Loading[kind], object)
                                  ELSE instances[x].functions
    BY <1>3, AddFields
  <2>3. CASE x = load.id /\ "functions" = kind
    <3>1. instances[x].functions = Loading[kind]
      BY <1>1, <2>3
    <3> QED BY <1>1, <1>2, <2>2, <2>3, <3>1
  <2>4. CASE ~(x = load.id /\ "functions" = kind)
    BY <2>1, <2>2, <2>4
  <2> QED BY <2>3, <2>4
<1> QED BY <1>4, <1>5 DEF FunctionsKept

LEMMA AddServes ==
  ASSUME LInv, load # NoLoad, NEW kind \in Kinds, NEW object, Add(kind, object),
         ObjectsKept,
         Len(Loading[kind]) + 1 <= Len(Space(Loading.file, kind)),
         Serves(globals', stores', kind, object,
                Space(Loading.file, kind)[Len(Loading[kind]) + 1])
  PROVE  ServeInv' /\ CompleteInv'
<1> DEFINE new == Append(Loading[kind], object)
<1>1. IsList(Loading[kind]) /\ Len(Loading[kind]) \in Nat /\ Loading = instances[load.id]
  BY LoadingFacts
<1>2. /\ IsList(new) /\ Len(new) = Len(Loading[kind]) + 1
      /\ new[Len(Loading[kind]) + 1] = object
      /\ \A k \in 1..Len(Loading[kind]) : new[k] = Loading[kind][k]
  BY <1>1, ListAppended
<1>3. Len(instances') = Len(instances) /\ Len(instances) \in Nat
  BY AddFields, Counted
<1>4. ASSUME NEW x \in 1..Len(instances), NEW other \in Kinds
      PROVE  ListServes(globals', stores', instances'[x], other)
  <2> DEFINE space == Space(instances[x].file, other)
  <2>1. instances'[x].file = instances[x].file
    BY AddFields
  <2>2. ListServes(globals', stores', instances[x], other)
    BY ListServesStill DEF LInv, ServeInv
  <2>3. CASE x = load.id /\ other = kind
    <3>1. instances'[x][other] = new
      <4>1. instances'[x][other] = IF x = load.id /\ other = kind THEN new
                                   ELSE instances[x][other]
        BY AddFields
      <4> HIDE DEF new
      <4> QED BY <2>3, <4>1
    <3>2. instances[x] = Loading
      BY <1>1, <2>3
    <3>3. \A k \in 1..Len(Loading[kind]) :
            Serves(globals', stores', kind, Loading[kind][k], space[k])
      BY <2>2, <2>3, <3>2 DEF ListServes
    <3>4. \A k \in 1..Len(new) : k \in 1..Len(Loading[kind]) \/ k = Len(Loading[kind]) + 1
      BY <1>1, <1>2
    <3>5. Serves(globals', stores', kind, object, space[Len(Loading[kind]) + 1])
      BY <2>3, <3>2
    <3> HIDE DEF new, space
    <3>6. \A k \in 1..Len(new) : Serves(globals', stores', kind, new[k], space[k])
      BY <1>2, <3>3, <3>4, <3>5
    <3>7. Len(new) <= Len(space)
      BY <1>2, <2>3, <3>2 DEF space
    <3> QED BY <1>2, <2>1, <2>3, <3>1, <3>6, <3>7 DEF ListServes, space
  <2>4. CASE ~(x = load.id /\ other = kind)
    <3>1. instances'[x][other] = instances[x][other]
      BY <2>4, AddFields
    <3> QED BY <2>1, <2>2, <3>1 DEF ListServes
  <2> QED BY <2>3, <2>4
<1>5. \A x \in 1..Len(instances) : /\ instances'[x].file \in KnownFiles
                                   /\ instances'[x].state \in {"loading", "ready", "failed"}
  BY AddFields DEF LInv, ServeInv
<1>6. ServeInv'
  BY <1>3, <1>4, <1>5 DEF ServeInv
<1>7. CompleteInv'
  <2> SUFFICES ASSUME NEW x \in 1..Len(instances), instances'[x].state = "ready",
                      NEW other \in Kinds
               PROVE  Len(instances'[x][other]) = Len(Space(instances'[x].file, other))
    BY <1>3 DEF CompleteInv
  <2>1. instances[x].state = "ready" /\ instances'[x].file = instances[x].file
    BY AddFields
  <2>2. x # load.id
    BY <1>1, <2>1, LoadingFacts
  <2>3. instances'[x][other] = instances[x][other]
    BY <2>2, AddFields
  <2> QED BY <2>1, <2>3 DEF LInv, CompleteInv
<1> QED BY <1>6, <1>7

LEMMA AddProgress ==
  ASSUME LInv, load # NoLoad, NEW kind \in Kinds, NEW object, Add(kind, object), NextItem,
         load.item <= Len(ItemsOf(load.stage)),
         \/ load.stage = "imports" /\ Loading.file.imports[load.item].kind = kind
         \/ load.stage = kind
  PROVE  ProgressInv'
<1>1. /\ load'.id = load.id /\ load'.stage = load.stage /\ load'.item = load.item + 1
      /\ load' # NoLoad
  BY NextItemLoad
<1>2. /\ load.id \in 1..Len(instances) /\ Loading = instances[load.id]
      /\ Loading.file \in KnownFiles
      /\ load.stage \in LoadStages /\ load.item \in Nat \ {0}
      /\ load.item \in 1..(Len(ItemsOf(load.stage)) + 1)
  BY LoadingFacts
<1>3. Loading'.file = Loading.file
  BY <1>1, <1>2, AddFields DEF Loading
<1>4. load'.item \in 1..(Len(ItemsOf(load.stage)') + 1)
  <2>1. ItemsOf(load.stage)' = ItemsOf(load.stage)
    BY <1>1, <1>3 DEF ItemsOf
  <2>2. Len(ItemsOf(load.stage)) \in Nat
    <3>1. CASE load.stage = "finish"
      BY <3>1 DEF ItemsOf
    <3>2. CASE load.stage # "finish"
      <4>1. load.stage \in Lists
        BY <1>2, <3>2, StageKinds DEF Lists
      <4>2. IsList(Loading.file[load.stage])
        BY <1>2, <4>1, FilesKnown
      <4> QED BY <3>2, <4>2, ListFacts DEF ItemsOf
    <3> QED BY <3>1, <3>2
  <2> QED BY <1>1, <1>2, <2>1, <2>2
<1>5. ASSUME NEW other \in Kinds
      PROVE  Len(Loading'[other]) = MadeSoFar(Loading.file, other, load.stage, load.item + 1)
  <2>1. /\ Len(Loading[other]) = MadeSoFar(Loading.file, other, load.stage, load.item)
        /\ IsList(Loading[other]) /\ Len(Loading[other]) \in Nat
    BY LoadingFacts
  <2>2. IsList(Loading.file.imports)
    BY <1>2, FilesKnown, StageKinds
  <2>3. MadeSoFar(Loading.file, other, load.stage, load.item + 1)
          = MadeSoFar(Loading.file, other, load.stage, load.item)
              + IF other = kind THEN 1 ELSE 0
    BY <1>2, <2>2, MadeOne
  <2>4. Loading'[other] = IF other = kind THEN Append(Loading[kind], object) ELSE Loading[other]
    BY <1>1, <1>2, AddFields DEF Loading
  <2>5. CASE other = kind
    <3>1. Len(Append(Loading[other], object)) = Len(Loading[other]) + 1
      BY <2>1, ListAppended
    <3> QED BY <2>1, <2>3, <2>4, <2>5, <3>1
  <2>6. CASE other # kind
    BY <2>1, <2>3, <2>4, <2>6
  <2> QED BY <2>5, <2>6
<1> QED BY <1>1, <1>2, <1>3, <1>4, <1>5 DEF ProgressInv

-----------------------------------------------------------------------------
(* The space of the module that is loaded.                                 *)

\* The item of its stage is the next of its index space.
LEMMA NextDefined ==
  ASSUME LInv, load # NoLoad, NEW kind \in Kinds, load.stage = kind,
         load.item <= Len(Loading.file[kind])
  PROVE  /\ load.item \in DOMAIN Loading.file[kind]
         /\ Len(Loading[kind]) + 1 <= Len(Space(Loading.file, kind))
         /\ Space(Loading.file, kind)[Len(Loading[kind]) + 1]
              = Loading.file[kind][load.item]
<1> DEFINE f == Loading.file
           before == Len(ImportsOf(f, kind))
<1>1. f \in KnownFiles /\ load.item \in Nat \ {0} /\ kind # "imports" /\ kind \in Lists
  BY LoadingFacts, StageKinds
<1>2. IsList(f.imports) /\ IsList(f[kind])
  BY <1>1, FilesKnown, StageKinds
<1>3. /\ before \in Nat /\ Len(f[kind]) \in Nat /\ DOMAIN f[kind] = 1..Len(f[kind])
      /\ Len(Space(f, kind)) = before + Len(f[kind])
      /\ \A k \in 1..Len(Space(f, kind)) :
           Space(f, kind)[k] = IF k <= before THEN ImportsOf(f, kind)[k] ELSE f[kind][k - before]
  BY <1>2, SpaceOfFile, ListFacts
<1>4. Len(Loading[kind]) = before + (load.item - 1)
  <2>1. Len(Loading[kind]) = MadeSoFar(f, kind, load.stage, load.item)
    BY LoadingFacts
  <2> QED BY <1>1, <2>1 DEF MadeSoFar
<1> DEFINE n == Len(Loading[kind]) + 1
<1>5. n = before + load.item /\ n \in 1..Len(Space(f, kind)) /\ ~(n <= before)
      /\ n - before = load.item
  <2>1. load.item <= Len(f[kind]) /\ load.item \in Nat \ {0}
    BY <1>1
  <2> HIDE DEF f, before
  <2>2. /\ before \in Nat /\ Len(f[kind]) \in Nat
        /\ Len(Space(f, kind)) = before + Len(f[kind])
    BY <1>3
  <2> QED BY <1>4, <2>1, <2>2
<1> HIDE DEF f, before, n
<1>6. Space(f, kind)[n] = f[kind][load.item]
  BY <1>3, <1>5
<1> QED BY <1>1, <1>3, <1>5, <1>6 DEF f, n

\* So is an import.
LEMMA NextImported ==
  ASSUME LInv, load # NoLoad, load.stage = "imports",
         load.item <= Len(Loading.file.imports)
  PROVE  LET i == Loading.file.imports[load.item] IN
         /\ load.item \in DOMAIN Loading.file.imports /\ IsImport(i) /\ i.kind \in Kinds
         /\ Len(Loading[i.kind]) + 1 <= Len(Space(Loading.file, i.kind))
         /\ Space(Loading.file, i.kind)[Len(Loading[i.kind]) + 1] = i
<1> DEFINE f == Loading.file
           i == f.imports[load.item]
           n == ImportCount(f, i.kind, load.item - 1) + 1
<1>1. f \in KnownFiles /\ load.item \in Nat \ {0}
  BY LoadingFacts
<1>2. IsList(f.imports) /\ IsFile(f)
  BY <1>1, FilesKnown, StageKinds
<1>3. load.item \in 1..Len(f.imports) /\ load.item \in DOMAIN f.imports
  BY <1>1, <1>2, ListFacts
<1>4. IsImport(i) /\ i.kind \in Kinds
  BY <1>1, <1>3, FileItems DEF IsImport
<1>5. n \in 1..Len(ImportsOf(f, i.kind)) /\ ImportsOf(f, i.kind)[n] = i
  BY <1>2, <1>3, NthImport
<1>6. IsList(f[i.kind])
  BY <1>1, <1>4, FilesKnown, StageKinds
<1>7. Len(Loading[i.kind]) + 1 = n
  <2>1. Len(Loading[i.kind]) = MadeSoFar(f, i.kind, load.stage, load.item)
    BY <1>4, LoadingFacts
  <2> QED BY <2>1 DEF MadeSoFar
<1>8. n \in 1..Len(Space(f, i.kind)) /\ Space(f, i.kind)[n] = i
  <2> DEFINE kind == i.kind
  <2>1. n \in 1..Len(ImportsOf(f, kind)) /\ ImportsOf(f, kind)[n] = i
    BY <1>5
  <2> HIDE DEF kind, f, n, i
  <2>2. n \in 1..Len(Space(f, kind)) /\ Space(f, kind)[n] = ImportsOf(f, kind)[n]
    BY <1>2, <1>6, <2>1, ImportInSpace DEF kind
  <2> QED BY <2>1, <2>2 DEF kind
<1> HIDE DEF n
<1>9. Len(Loading[i.kind]) + 1 <= Len(Space(f, i.kind))
  <2>1. Len(Space(f, i.kind)) \in Nat
    BY <1>2, <1>6, SpaceOfFile
  <2> QED BY <1>7, <1>8, <2>1
<1> QED BY <1>3, <1>4, <1>7, <1>8, <1>9

LEMMA StagesOver ==
  ASSUME LInv, load # NoLoad, load.stage \notin {"imports", "functions"}
  PROVE  /\ Len(Loading.functions) = Len(Space(Loading.file, "functions"))
         /\ Len(Loading.globals) >= Len(ImportsOf(Loading.file, "globals"))
         /\ load.stage \in {"elements", "data", "start", "finish"} =>
              \A kind \in Kinds : Len(Loading[kind]) = Len(Space(Loading.file, kind))
<1> DEFINE f == Loading.file
<1>1. f \in KnownFiles /\ load.stage \in LoadStages /\ load.item \in Nat \ {0}
  BY LoadingFacts
<1>2. ASSUME NEW kind \in Kinds
      PROVE  /\ Len(ImportsOf(f, kind)) \in Nat /\ Len(f[kind]) \in Nat
             /\ Len(Space(f, kind)) = Len(ImportsOf(f, kind)) + Len(f[kind])
             /\ Len(Loading[kind]) = MadeSoFar(f, kind, load.stage, load.item)
  <2>1. IsList(f.imports) /\ IsList(f[kind])
    BY <1>1, FilesKnown, StageKinds
  <2>2. Len(Loading[kind]) = MadeSoFar(f, kind, load.stage, load.item)
    BY LoadingFacts
  <2> QED BY <2>1, <2>2, SpaceOfFile
<1>3. load.stage \in {"globals", "memories", "tables", "elements", "data", "start", "finish"}
  BY <1>1 DEF LoadStages
<1>4. "functions" \in Done(load.stage)
  BY <1>3 DEF Done, Kinds
<1>5. "functions" \in Kinds /\ "globals" \in Kinds
  BY DEF Kinds
<1>6. Len(Loading.functions) = Len(Space(f, "functions"))
  <2>1. MadeSoFar(f, "functions", load.stage, load.item)
          = Len(ImportsOf(f, "functions")) + Len(f["functions"])
    BY <1>3, <1>4 DEF MadeSoFar
  <2> QED BY <1>2, <1>5, <2>1
<1>7. Len(Loading.globals) >= Len(ImportsOf(f, "globals"))
  <2> DEFINE more == IF load.stage = "globals" THEN load.item - 1
                     ELSE IF "globals" \in Done(load.stage) THEN Len(f["globals"]) ELSE 0
  <2>1. MadeSoFar(f, "globals", load.stage, load.item) = Len(ImportsOf(f, "globals")) + more
    BY <1>3 DEF MadeSoFar
  <2>2. more \in Nat
    BY <1>1, <1>2, <1>5
  <2> HIDE DEF more, f
  <2>3. /\ Len(ImportsOf(f, "globals")) \in Nat
        /\ Len(Loading.globals) = MadeSoFar(f, "globals", load.stage, load.item)
    BY <1>2, <1>5
  <2> QED BY <2>1, <2>2, <2>3
<1>8. ASSUME load.stage \in {"elements", "data", "start", "finish"}, NEW kind \in Kinds
      PROVE  Len(Loading[kind]) = Len(Space(f, kind))
  <2>1. Done(load.stage) = Kinds /\ load.stage # kind /\ load.stage # "imports"
    BY <1>8 DEF Done, Kinds
  <2>2. MadeSoFar(f, kind, load.stage, load.item) = Len(ImportsOf(f, kind)) + Len(f[kind])
    BY <2>1 DEF MadeSoFar
  <2> QED BY <1>2, <2>2
<1> QED BY <1>6, <1>7, <1>8

\* What the validator accepted can be evaluated, with the type it accepted.
LEMMA EvaluateValid ==
  ASSUME LInv, load # NoLoad, load.stage \notin {"imports", "functions"},
         NEW e, IsExpr(e), NEW type, ValidExpr(Loading.file, e, type)
  PROVE  CanEvaluate(e, type) /\ Named(instances, Evaluate(e))
<1> DEFINE f == Loading.file
<1>1. load.id \in 1..Len(instances) /\ Loading = instances[load.id]
  BY LoadingFacts
<1>2. CASE e.op = "const"
  <2>1. Evaluate(e) = Plain(e.type, e.n) /\ e.type = type
    BY <1>2 DEF Evaluate, ValidExpr
  <2> QED BY <1>2, <2>1 DEF CanEvaluate, Named, Plain
<1>3. CASE e.op = "ref_null"
  <2>1. Evaluate(e) = Plain(e.type, -1) /\ e.type = type
    BY <1>3 DEF Evaluate, ValidExpr, Null
  <2> QED BY <1>3, <2>1 DEF CanEvaluate, Named, Plain
<1>4. CASE e.op = "ref_func"
  <2>1. /\ Evaluate(e) = Reference(e.idx, load.id, FALSE)
        /\ type = "funcref" /\ HasIndex(f, "functions", e.idx) /\ e.idx \in Nat
    BY <1>4 DEF Evaluate, ValidExpr, IsExpr
  <2>2. e.idx < Len(Loading.functions)
    BY <2>1, StagesOver DEF HasIndex
  <2> QED BY <1>1, <1>4, <2>1, <2>2 DEF CanEvaluate, Named, Reference
<1>5. CASE e.op = "global_get"
  <2> DEFINE object == Loading.globals[e.idx + 1]
  <2>1. /\ Evaluate(e) = globals[object].value
        /\ e.idx \in Nat /\ e.idx < Len(ImportsOf(f, "globals"))
        /\ Space(f, "globals")[e.idx + 1].type = type
    BY <1>5 DEF Evaluate, ValidExpr, IsExpr
  <2>2. "globals" \in Kinds
    BY DEF Kinds
  <2>3. /\ Len(Loading.globals) \in Nat
        /\ \A k \in 1..Len(Loading.globals) :
             Serves(globals, stores, "globals", Loading.globals[k], Space(f, "globals")[k])
    BY <2>2, LoadingFacts
  <2>4. Len(ImportsOf(f, "globals")) \in Nat
    <3>1. IsList(f.imports)
      BY LoadingFacts, FilesKnown, StageKinds
    <3> QED BY <3>1, ImportsOfFile
  <2>5. e.idx < Len(Loading.globals) /\ e.idx + 1 \in 1..Len(Loading.globals)
    BY <2>1, <2>3, <2>4, StagesOver
  <2>6. Serves(globals, stores, "globals", object, Space(f, "globals")[e.idx + 1])
    BY <2>3, <2>5
  <2>7. object \in 1..Len(globals) /\ globals[object].type = type
    BY <2>1, <2>6 DEF Serves
  <2>8. globals[object].value.type = type /\ Named(instances, globals[object].value)
    BY <2>7 DEF LInv, ObjectInv
  <2> QED BY <1>5, <2>1, <2>5, <2>8 DEF CanEvaluate
<1> QED BY <1>2, <1>3, <1>4, <1>5 DEF IsExpr

-----------------------------------------------------------------------------
(* Steps that give no instance an object.                                  *)

\* What a step has to keep besides IInv.
Rest == ServeInv /\ CompleteInv /\ ProgressInv /\ ObjectInv

LEMMA LoadingFieldChanged ==
  ASSUME LInv, load # NoLoad, NEW f \in Fields, NEW v, SetField(load.id, f, v)
  PROVE  /\ Len(instances') = Len(instances)
         /\ \A y \in 1..Len(instances), g \in Fields :
              instances'[y][g] = IF y = load.id /\ g = f THEN v ELSE instances[y][g]
<1>1. load.id \in 1..Len(instances)
  BY LoadingFacts
<1>2. InstancesAreRecords
  BY DEF LInv, IInv
<1> QED BY <1>1, <1>2, FieldChanged

LEMMA StateOrDropped ==
  ASSUME LInv, load # NoLoad, NEW f \in {"state", "dropped"}, NEW v,
         SetField(load.id, f, v)
  PROVE  /\ ListsSame
         /\ \A x \in 1..Len(instances) :
              instances'[x].state = IF x = load.id /\ f = "state" THEN v ELSE instances[x].state
<1>1. Kinds \subseteq Fields /\ f \notin Kinds /\ f # "file"
      /\ "file" \in Fields /\ "state" \in Fields
  BY DEF Kinds, Fields
<1>2. /\ Len(instances') = Len(instances)
      /\ \A y \in 1..Len(instances), g \in Fields :
           instances'[y][g] = IF y = load.id /\ g = f THEN v ELSE instances[y][g]
  <2>1. f \in Fields
    BY DEF Fields
  <2> QED BY <2>1, LoadingFieldChanged
<1>3. ListsSame
  <2> SUFFICES ASSUME NEW x \in 1..Len(instances)
               PROVE  /\ instances'[x].file = instances[x].file
                      /\ \A kind \in Kinds : instances'[x][kind] = instances[x][kind]
    BY <1>2 DEF ListsSame
  <2>1. instances'[x].file = instances[x].file
    BY <1>1, <1>2
  <2>2. \A kind \in Kinds : instances'[x][kind] = instances[x][kind]
    BY <1>1, <1>2
  <2> QED BY <2>1, <2>2
<1>4. \A x \in 1..Len(instances) :
        instances'[x].state = IF x = load.id /\ f = "state" THEN v ELSE instances[x].state
  BY <1>1, <1>2
<1> QED BY <1>3, <1>4

LEMMA CompleteStill ==
  ASSUME LInv, ListsSame,
         \A x \in 1..Len(instances) :
           instances'[x].state = "ready" => instances[x].state = "ready"
  PROVE  CompleteInv'
<1> SUFFICES ASSUME NEW x \in 1..Len(instances), instances'[x].state = "ready",
                    NEW kind \in Kinds
             PROVE  Len(instances'[x][kind]) = Len(Space(instances'[x].file, kind))
  BY DEF CompleteInv, ListsSame
<1>1. /\ instances[x].state = "ready" /\ instances'[x].file = instances[x].file
      /\ instances'[x][kind] = instances[x][kind]
  BY DEF ListsSame
<1> QED BY <1>1 DEF LInv, CompleteInv

LEMMA FailRest ==
  ASSUME LInv, load # NoLoad, Fail
  PROVE  Rest'
<1>1. SetField(load.id, "state", "failed")
  BY DEF Fail, SetField
<1>2. /\ ListsSame
      /\ \A x \in 1..Len(instances) :
           instances'[x].state = IF x = load.id THEN "failed" ELSE instances[x].state
  BY <1>1, StateOrDropped
<1>3. ObjectsKept /\ ObjectInv'
  BY <1>2, SameFunctions, ObjectsSame DEF Fail
<1>4. ServeInv'
  <2>1. \A x \in 1..Len(instances) : instances[x].state \in {"loading", "ready", "failed"}
    BY DEF LInv, ServeInv
  <2>2. \A x \in 1..Len(instances) : instances'[x].state \in {"loading", "ready", "failed"}
    BY <1>2, <2>1
  <2> QED BY <1>2, <1>3, <2>2, SameLists
<1>5. CompleteInv'
  BY <1>2, CompleteStill
<1>6. ProgressInv'
  BY DEF Fail, ProgressInv
<1> QED BY <1>3, <1>4, <1>5, <1>6 DEF Rest

\* A segment, or the start function: the module has its objects already.
LEMMA NextItemRest ==
  ASSUME LInv, load # NoLoad, load.stage \in {"elements", "data", "start"},
         load.item <= Len(ItemsOf(load.stage)), NextItem,
         ListsSame, ObjectsKept, ObjectInv',
         \A x \in 1..Len(instances) : instances'[x].state = instances[x].state
  PROVE  Rest'
<1>1. ServeInv'
  <2>1. \A x \in 1..Len(instances) : instances'[x].state \in {"loading", "ready", "failed"}
    BY DEF LInv, ServeInv
  <2> QED BY <2>1, SameLists
<1>2. CompleteInv'
  BY CompleteStill
<1>3. /\ load'.id = load.id /\ load'.stage = load.stage /\ load'.item = load.item + 1
      /\ load' # NoLoad
  BY NextItemLoad
<1>4. /\ load.id \in 1..Len(instances) /\ Loading = instances[load.id]
      /\ Loading.file \in KnownFiles
      /\ load.stage \in LoadStages /\ load.item \in Nat \ {0}
      /\ \A kind \in Kinds :
           Len(Loading[kind]) = MadeSoFar(Loading.file, kind, load.stage, load.item)
  BY LoadingFacts
<1>5. Loading'.file = Loading.file /\ \A kind \in Kinds : Loading'[kind] = Loading[kind]
  BY <1>3, <1>4 DEF ListsSame, Loading
<1>6. ItemsOf(load.stage)' = ItemsOf(load.stage)
  BY <1>3, <1>5 DEF ItemsOf
<1>7. Len(ItemsOf(load.stage)) \in Nat
  <2>1. load.stage \in Lists /\ load.stage # "finish"
    BY DEF Lists
  <2>2. IsList(Loading.file[load.stage])
    BY <1>4, <2>1, FilesKnown
  <2> QED BY <2>1, <2>2, ListFacts DEF ItemsOf
<1>8. \A kind \in Kinds : MadeSoFar(Loading.file, kind, load.stage, load.item + 1)
                            = MadeSoFar(Loading.file, kind, load.stage, load.item)
  <2>1. load.stage \notin Kinds /\ load.stage # "imports"
    BY DEF Kinds
  <2> QED BY <2>1 DEF MadeSoFar
<1>9. ProgressInv'
  <2>1. load'.item \in 1..(Len(ItemsOf(load.stage)') + 1)
    BY <1>3, <1>4, <1>6, <1>7
  <2>2. \A kind \in Kinds :
          Len(Loading'[kind]) = MadeSoFar(Loading'.file, kind, load'.stage, load'.item)
    BY <1>3, <1>4, <1>5, <1>8
  <2> QED BY <1>3, <1>4, <2>1, <2>2 DEF ProgressInv
<1> QED BY <1>1, <1>2, <1>9 DEF Rest

\* The instances and what is loaded stay as they are.
LEMMA ObjectsRest ==
  ASSUME LInv, UNCHANGED <<instances, load>>, ObjectsKept, ObjectInv'
  PROVE  Rest'
<1>1. ListsSame
  BY DEF ListsSame
<1>2. ServeInv'
  <2>1. \A x \in 1..Len(instances) : instances'[x].state \in {"loading", "ready", "failed"}
    BY DEF LInv, ServeInv
  <2> QED BY <1>1, <2>1, SameLists
<1>3. CompleteInv' /\ ProgressInv'
  BY DEF LInv, CompleteInv, ProgressInv, Loading, ItemsOf
<1> QED BY <1>2, <1>3 DEF Rest

-----------------------------------------------------------------------------
LEMMA BeginRest ==
  ASSUME LInv, NEW f \in Files, NEW makeCurrent \in BOOLEAN, Begin(f, makeCurrent)
  PROVE  Rest'
<1> DEFINE r == NewInstance(f)
           n == Len(instances) + 1
<1>1. /\ r.file = f /\ r.state = "loading" /\ IsInstance(r)
      /\ \A kind \in Kinds : r[kind] = <<>>
  <2>1. IsInstance(NewInstance(f))
    BY DEF NewInstance, IsInstance, Fields
  <2>2. r.file = f /\ r.state = "loading"
    BY DEF NewInstance
  <2>3. \A kind \in Kinds : r[kind] = <<>>
    BY DEF NewInstance, Kinds
  <2> QED BY <2>1, <2>2, <2>3
<1>2. /\ Len(instances') = n
      /\ \A y \in 1..Len(instances) : instances'[y] = instances[y]
      /\ instances'[n] = r
  BY <1>1, InstanceAdded DEF Begin, LInv, IInv
<1>3. Len(instances) \in Nat /\ \A x \in 1..n : x \in 1..Len(instances) \/ x = n
  BY Counted
<1>4. f \in KnownFiles /\ IsList(f.imports) /\ \A kind \in Kinds : IsList(f[kind])
  <2>1. f \in KnownFiles
    BY DEF Begin, KnownFiles
  <2> QED BY <2>1, FilesKnown, StageKinds
<1> HIDE DEF r
<1>5. FunctionsKept
  BY <1>2, <1>3, Counted DEF FunctionsKept, Kinds
<1>6. ObjectsKept /\ ObjectInv'
  BY <1>5, ObjectsSame DEF Begin
<1>7. ServeInv'
  <2>1. ASSUME NEW x \in 1..Len(instances), NEW kind \in Kinds
        PROVE  ListServes(globals', stores', instances'[x], kind)
    <3>1. ListServes(globals', stores', instances[x], kind)
      BY <1>6, ListServesStill DEF LInv, ServeInv
    <3> QED BY <1>2, <3>1
  <2>2. ASSUME NEW kind \in Kinds
        PROVE  ListServes(globals', stores', r, kind)
    <3>1. Len(Space(f, kind)) \in Nat
      BY <1>4, SpaceOfFile
    <3>2. r[kind] = <<>> /\ IsList(<<>>) /\ Len(<<>>) = 0
      BY <1>1 DEF IsList, ToSet
    <3>3. r.file = f
      BY <1>1
    <3> QED BY <3>1, <3>2, <3>3 DEF ListServes
  <2>3. ASSUME NEW x \in 1..n
        PROVE  /\ instances'[x].file \in KnownFiles
               /\ instances'[x].state \in {"loading", "ready", "failed"}
               /\ \A kind \in Kinds : ListServes(globals', stores', instances'[x], kind)
    <3>1. CASE x \in 1..Len(instances)
      BY <1>2, <2>1, <3>1 DEF LInv, ServeInv
    <3>2. CASE x = n
      BY <1>1, <1>2, <1>4, <2>2, <3>2
    <3> QED BY <1>3, <3>1, <3>2
  <2> QED BY <1>2, <2>3 DEF ServeInv
<1>8. CompleteInv'
  BY <1>1, <1>2, <1>3 DEF LInv, CompleteInv
<1>9. ProgressInv'
  <2>1. load'.id = n /\ load'.stage = "imports" /\ load'.item = 1
    BY DEF Begin
  <2>2. Loading' = r
    BY <1>2, <2>1 DEF Loading
  <2>3. Len(ItemsOf(load.stage)') \in Nat
    BY <1>1, <1>4, <2>1, <2>2, ListFacts DEF ItemsOf
  <2>4. ASSUME NEW kind \in Kinds
        PROVE  Len(Loading'[kind]) = MadeSoFar(Loading'.file, kind, "imports", 1)
    <3>1. MadeSoFar(f, kind, "imports", 1) = 0
      BY NoImportCounted DEF MadeSoFar
    <3>2. r[kind] = <<>> /\ r.file = f
      BY <1>1
    <3> QED BY <2>2, <3>1, <3>2
  <2> QED BY <2>1, <2>3, <2>4 DEF ProgressInv, LoadStages
<1> QED BY <1>6, <1>7, <1>8, <1>9 DEF Rest

-----------------------------------------------------------------------------
(* Segments and the start function.                                        *)

LEMMA LeaveRest ==
  ASSUME LInv, load # NoLoad, load.stage \in {"elements", "data"},
         load.item <= Len(ItemsOf(load.stage)), NEW kind, NEW mode, Leave(kind, mode)
  PROVE  Rest'
<1> DEFINE v == Loading.dropped \cup
                  (IF mode = "declarative" THEN {<<kind, load.item>>} ELSE {})
<1>1. SetField(load.id, "dropped", v)
  BY DEF Leave, SetField
<1> HIDE DEF v
<1>2. /\ ListsSame
      /\ \A x \in 1..Len(instances) : instances'[x].state = instances[x].state
  BY <1>1, StateOrDropped
<1>3. ObjectsKept /\ ObjectInv'
  BY <1>2, SameFunctions, ObjectsSame DEF Leave
<1>4. NextItem
  BY DEF Leave
<1> QED BY <1>2, <1>3, <1>4, NextItemRest

\* An active segment that was validated is written or traps.
LEMMA PlaceRest ==
  ASSUME LInv, load # NoLoad, load.stage \in {"elements", "data"},
         load.item <= Len(ItemsOf(load.stage)),
         NEW kind \in {"tables", "memories"}, NEW index \in Nat,
         HasIndex(Loading.file, kind, index),
         NEW begin, IsExpr(begin),
         ValidExpr(Loading.file, begin, Space(Loading.file, kind)[index + 1].limits.address),
         NEW values,
         kind = "tables" => \A k \in DOMAIN values : Named(instances, values[k]),
         Place(kind, index, begin, values)
  PROVE  Rest'
<1> DEFINE id == Loading[kind][index + 1]
           item == Space(Loading.file, kind)[index + 1]
           from == Evaluate(begin).n
           cells == [k \in DOMAIN stores[id].cells |->
                       IF k - from \in DOMAIN values THEN values[k - from]
                                                     ELSE stores[id].cells[k]]
<1>1. kind \in Kinds
  BY DEF Kinds
<1>2. /\ Len(Loading[kind]) = Len(Space(Loading.file, kind)) /\ Len(Loading[kind]) \in Nat
      /\ \A k \in 1..Len(Loading[kind]) :
           Serves(globals, stores, kind, Loading[kind][k], Space(Loading.file, kind)[k])
  BY <1>1, StagesOver, LoadingFacts
<1>3. index < Len(Loading[kind]) /\ index + 1 \in 1..Len(Loading[kind])
  BY <1>2 DEF HasIndex
<1>4. Serves(globals, stores, kind, id, item)
  BY <1>2, <1>3
<1>5. /\ id \in 1..Len(stores) /\ stores[id].address = item.limits.address
      /\ kind = "memories" => stores[id].type = "byte"
  BY <1>4 DEF Serves, Within
<1>6. CanEvaluate(begin, stores[id].address)
  <2>1. CanEvaluate(begin, item.limits.address)
    BY EvaluateValid
  <2> QED BY <1>5, <2>1
<1>7. CASE Fail
  BY <1>7, FailRest
<1>8. CASE /\ Overwrite(id, from, values)
           /\ instances' = [instances EXCEPT ![load.id].dropped =
                              Loading.dropped \cup {<<kind, load.item>>}]
           /\ NextItem
           /\ globals' = globals
  <2>1. SetField(load.id, "dropped", Loading.dropped \cup {<<kind, load.item>>})
    BY <1>8 DEF SetField
  <2>2. /\ ListsSame
        /\ \A x \in 1..Len(instances) : instances'[x].state = instances[x].state
    BY <2>1, StateOrDropped
  <2>3. FunctionsKept
    BY <2>2, SameFunctions
  <2>4. stores' = [stores EXCEPT ![id] = [stores[id] EXCEPT !.cells = cells]]
    BY <1>8 DEF Overwrite
  <2>5. Len(stores[id].cells) \in Nat /\ DOMAIN stores[id].cells = 1..Len(stores[id].cells)
    BY <1>5, Counted
  <2>6. IsList(cells) /\ Len(cells) = Len(stores[id].cells)
    <3>1. cells = [k \in 1..Len(stores[id].cells) |-> cells[k]]
      BY <2>5
    <3> HIDE DEF cells, id
    <3> QED BY <2>5, <3>1, FunctionIsList
  <2>7. Len(stores[id].cells) <= MaxOf(stores[id])
    BY <1>5, ObjectFacts DEF IsStore
  <2>8. ASSUME stores[id].type # "byte", NEW k \in 1..Len(cells)
        PROVE  Named(instances', cells[k])
    <3>1. kind = "tables"
      BY <1>5, <2>8
    <3>2. Named(instances, stores[id].cells[k])
      <4>1. CellsNamed(instances, stores[id])
        BY <1>5, ObjectFacts
      <4>2. k \in 1..Len(stores[id].cells)
        BY <2>6
      <4> HIDE DEF id
      <4> QED BY <2>8, <4>1, <4>2 DEF CellsNamed
    <3>3. k - from \in DOMAIN values => Named(instances, values[k - from])
      BY <3>1
    <3>4. cells[k] = IF k - from \in DOMAIN values THEN values[k - from]
                                                   ELSE stores[id].cells[k]
      <4>1. k \in DOMAIN stores[id].cells
        BY <2>5, <2>6
      <4> QED BY <4>1
    <3> HIDE DEF cells, id, from
    <3>5. Named(instances, cells[k])
      BY <3>2, <3>3, <3>4
    <3> QED BY <2>3, <3>5, NamedStays
  <2>9. ObjectsKept /\ ObjectInv'
    <3> HIDE DEF cells, id
    <3>1. Len(stores[id].cells) <= Len(cells) /\ Len(cells) <= MaxOf(stores[id])
      BY <2>5, <2>6, <2>7
    <3> QED BY <1>5, <1>8, <2>3, <2>4, <2>6, <2>8, <3>1, CellsChanged
  <2> QED BY <1>8, <2>2, <2>9, NextItemRest
<1> QED
  <2> HIDE DEF id, from
  <2>1. \/ Fail
        \/ /\ Overwrite(id, from, values)
           /\ instances' = [instances EXCEPT ![load.id].dropped =
                              Loading.dropped \cup {<<kind, load.item>>}]
           /\ NextItem
           /\ globals' = globals
    BY <1>3, <1>6 DEF Place, id, from
  <2> QED BY <1>7, <1>8, <2>1

LEMMA PlaceElementRest ==
  ASSUME LInv, PlaceElement
  PROVE  Rest'
<1> DEFINE f == Loading.file
           e == f.elements[load.item]
           refs == [k \in DOMAIN e.refs |-> Evaluate(e.refs[k])]
<1>1. load.stage = "elements" /\ load # NoLoad /\ load.item <= Len(f.elements)
  BY InAStage DEF PlaceElement, Item, LoadStages, LInv
<1>2. f \in KnownFiles /\ load.item \in Nat \ {0}
  BY <1>1, LoadingFacts
<1>3. load.item \in DOMAIN f.elements
  <2>1. IsList(f.elements)
    BY <1>2, FilesKnown DEF Lists
  <2> QED BY <1>1, <1>2, <2>1, ListFacts
<1>4. IsElement(e) /\ ValidElement(f, e)
  BY <1>2, <1>3, FileItems
<1>5. load.item <= Len(ItemsOf(load.stage))
  BY <1>1 DEF ItemsOf
<1>6. IF e.mode # "active" THEN Leave("tables", e.mode)
      ELSE IF \E k \in DOMAIN e.refs : ~CanEvaluate(e.refs[k], e.type) THEN Fault
      ELSE Place("tables", e.table, e.begin, refs)
  BY DEF PlaceElement
<1> HIDE DEF e
<1>7. \A k \in DOMAIN e.refs : /\ CanEvaluate(e.refs[k], e.type)
                               /\ Named(instances, Evaluate(e.refs[k]))
  <2> SUFFICES ASSUME NEW k \in DOMAIN e.refs
               PROVE  /\ CanEvaluate(e.refs[k], e.type)
                      /\ Named(instances, Evaluate(e.refs[k]))
    OBVIOUS
  <2>1. IsExpr(e.refs[k]) /\ ValidExpr(f, e.refs[k], e.type)
    BY <1>4 DEF IsElement, ValidElement
  <2> QED BY <1>1, <2>1, EvaluateValid
<1>8. \A k \in DOMAIN refs : Named(instances, refs[k])
  BY <1>7
<1> HIDE DEF refs
<1>9. CASE e.mode # "active"
  <2>1. Leave("tables", e.mode)
    BY <1>6, <1>9
  <2> QED BY <1>1, <1>5, <2>1, LeaveRest
<1>10. CASE e.mode = "active"
  <2>1. e.table \in Nat /\ IsExpr(e.begin)
    BY <1>4, <1>10 DEF IsElement
  <2>2. /\ HasIndex(f, "tables", e.table)
        /\ ValidExpr(f, e.begin, Space(f, "tables")[e.table + 1].limits.address)
    BY <1>4, <1>10 DEF ValidElement
  <2>3. Place("tables", e.table, e.begin, refs)
    BY <1>6, <1>7, <1>10
  <2> QED BY <1>1, <1>5, <1>8, <2>1, <2>2, <2>3, PlaceRest
<1> QED BY <1>9, <1>10

LEMMA PlaceDataRest ==
  ASSUME LInv, PlaceData
  PROVE  Rest'
<1> DEFINE f == Loading.file
           d == f.data[load.item]
<1>1. load.stage = "data" /\ load # NoLoad /\ load.item <= Len(f.data)
  BY InAStage DEF PlaceData, Item, LoadStages, LInv
<1>2. f \in KnownFiles /\ load.item \in Nat \ {0}
  BY <1>1, LoadingFacts
<1>3. load.item \in DOMAIN f.data
  <2>1. IsList(f.data)
    BY <1>2, FilesKnown DEF Lists
  <2> QED BY <1>1, <1>2, <2>1, ListFacts
<1>4. IsData(d) /\ ValidData(f, d)
  BY <1>2, <1>3, FileItems
<1>5. load.item <= Len(ItemsOf(load.stage))
  BY <1>1 DEF ItemsOf
<1>6. IF d.mode # "active" THEN Leave("memories", d.mode)
      ELSE Place("memories", d.memory, d.begin, d.bytes)
  BY DEF PlaceData
<1> HIDE DEF d
<1>7. CASE d.mode # "active"
  <2>1. Leave("memories", d.mode)
    BY <1>6, <1>7
  <2> QED BY <1>1, <1>5, <2>1, LeaveRest
<1>8. CASE d.mode = "active"
  <2>1. d.memory \in Nat /\ IsExpr(d.begin)
    BY <1>4, <1>8 DEF IsData
  <2>2. /\ HasIndex(f, "memories", d.memory)
        /\ ValidExpr(f, d.begin, Space(f, "memories")[d.memory + 1].limits.address)
    BY <1>4, <1>8 DEF ValidData
  <2>3. Place("memories", d.memory, d.begin, d.bytes)
    BY <1>6, <1>8
  <2> QED BY <1>1, <1>5, <2>1, <2>2, <2>3, PlaceRest
<1> QED BY <1>7, <1>8

LEMMA StartRest ==
  ASSUME LInv, Start
  PROVE  Rest'
<1>1. load.stage = "start" /\ load # NoLoad /\ load.item <= Len(ItemsOf(load.stage))
  BY InAStage DEF Start, Item, LoadStages, LInv, ItemsOf
<1>2. CASE Fail
  BY <1>1, <1>2, FailRest
<1>3. CASE NextItem /\ UNCHANGED <<instances, stores, globals>>
  <2>1. ListsSame
    BY <1>3 DEF ListsSame
  <2>2. ObjectsKept /\ ObjectInv'
    BY <1>3, <2>1, SameFunctions, ObjectsSame
  <2> QED BY <1>1, <1>3, <2>1, <2>2, NextItemRest
<1> QED BY <1>2, <1>3 DEF Start

-----------------------------------------------------------------------------
(* From stage to stage, and the end.                                       *)

\* A stage that is over has made all it makes.
LEMMA StageOver ==
  ASSUME NEW f, IsList(f.imports), NEW kind \in Kinds, IsList(f[kind]),
         NEW k \in 1..8, NEW item,
         item = Len(IF Stages[k] = "finish" THEN <<>> ELSE f[Stages[k]]) + 1
  PROVE  MadeSoFar(f, kind, Stages[k + 1], 1) = MadeSoFar(f, kind, Stages[k], item)
<1> DEFINE before == Len(ImportsOf(f, kind))
<1>1. before = ImportCount(f, kind, Len(f.imports)) /\ before \in Nat
      /\ Len(f.imports) \in Nat /\ Len(f[kind]) \in Nat
  BY ImportsOfFile, ListFacts
<1>2. kind \in {"functions", "tables", "memories", "globals"}
  BY DEF Kinds
<1>3. CASE k = 1
  <2>1. Stages[k] = "imports" /\ Stages[k + 1] = "functions"
    BY <1>3 DEF Stages
  <2>2. item - 1 = Len(f.imports)
    BY <1>1, <2>1
  <2>3. MadeSoFar(f, kind, "imports", item) = before
    BY <1>1, <2>2 DEF MadeSoFar
  <2>4. MadeSoFar(f, kind, "functions", 1) = before
    BY <1>1 DEF MadeSoFar, Done
  <2> QED BY <2>1, <2>3, <2>4
<1>4. CASE k = 2
  <2>1. Stages[k] = "functions" /\ Stages[k + 1] = "globals"
    BY <1>4 DEF Stages
  <2>2. kind = "functions" => item - 1 = Len(f[kind])
    BY <1>1, <2>1
  <2>3. MadeSoFar(f, kind, "functions", item)
          = before + (IF kind = "functions" THEN Len(f[kind]) ELSE 0)
    BY <1>1, <2>2 DEF MadeSoFar, Done
  <2>4. MadeSoFar(f, kind, "globals", 1)
          = before + (IF kind = "functions" THEN Len(f[kind]) ELSE 0)
    BY <1>1, <1>2 DEF MadeSoFar, Done
  <2> QED BY <2>1, <2>3, <2>4
<1>5. CASE k = 3
  <2> DEFINE made == IF kind \in {"functions", "globals"} THEN Len(f[kind]) ELSE 0
  <2>1. Stages[k] = "globals" /\ Stages[k + 1] = "memories"
    BY <1>5 DEF Stages
  <2>2. kind = "globals" => item - 1 = Len(f[kind])
    BY <1>1, <2>1
  <2>3. MadeSoFar(f, kind, "globals", item) = before + made
    BY <1>1, <1>2, <2>2 DEF MadeSoFar, Done
  <2>4. MadeSoFar(f, kind, "memories", 1) = before + made
    BY <1>1, <1>2 DEF MadeSoFar, Done
  <2> QED BY <2>1, <2>3, <2>4
<1>6. CASE k = 4
  <2> DEFINE made == IF kind \in {"functions", "globals", "memories"} THEN Len(f[kind]) ELSE 0
  <2>1. Stages[k] = "memories" /\ Stages[k + 1] = "tables"
    BY <1>6 DEF Stages
  <2>2. kind = "memories" => item - 1 = Len(f[kind])
    BY <1>1, <2>1
  <2>3. MadeSoFar(f, kind, "memories", item) = before + made
    BY <1>1, <1>2, <2>2 DEF MadeSoFar, Done
  <2>4. MadeSoFar(f, kind, "tables", 1) = before + made
    BY <1>1, <1>2 DEF MadeSoFar, Done
  <2> QED BY <2>1, <2>3, <2>4
<1>7. CASE k = 5
  <2>1. Stages[k] = "tables" /\ Stages[k + 1] = "elements"
    BY <1>7 DEF Stages
  <2>2. kind = "tables" => item - 1 = Len(f[kind])
    BY <1>1, <2>1
  <2>3. MadeSoFar(f, kind, "tables", item) = before + Len(f[kind])
    BY <1>1, <1>2, <2>2 DEF MadeSoFar, Done
  <2>4. MadeSoFar(f, kind, "elements", 1) = before + Len(f[kind])
    BY <1>1, <1>2 DEF MadeSoFar, Done
  <2> QED BY <2>1, <2>3, <2>4
<1>8. CASE k \in 6..8
  <2>1. /\ Stages[k] \in {"elements", "data", "start"}
        /\ Stages[k + 1] \in {"data", "start", "finish"}
    BY <1>8 DEF Stages
  <2>2. ASSUME NEW stage \in {"elements", "data", "start", "finish"}, NEW n
        PROVE  MadeSoFar(f, kind, stage, n) = before + Len(f[kind])
    <3>1. Done(stage) = Kinds /\ stage # kind /\ stage # "imports"
      BY <1>2 DEF Done
    <3> QED BY <3>1 DEF MadeSoFar
  <2> QED BY <2>1, <2>2
<1> QED BY <1>3, <1>4, <1>5, <1>6, <1>7, <1>8

LEMMA NextStageRest ==
  ASSUME LInv, NextStage
  PROVE  Rest'
<1> DEFINE f == Loading.file
           k == StageIndex(load.stage)
           next == Stages[k + 1]
<1>1. ToSet(Stages) = LoadStages
  BY DEF ToSet, Stages, LoadStages
<1>2. load # NoLoad /\ load.stage \in LoadStages \ {"finish"}
  BY <1>1, InAStage DEF NextStage, LInv
<1>3. k \in 1..8 /\ Stages[k] = load.stage
  <2>1. DOMAIN Stages = 1..9 /\ \E n \in 1..9 : Stages[n] = load.stage
    BY <1>2 DEF Stages, LoadStages
  <2>2. k \in 1..9 /\ Stages[k] = load.stage
    BY <2>1 DEF StageIndex
  <2>3. k # 9
    BY <1>2, <2>2 DEF Stages
  <2> QED BY <2>2, <2>3
<1>4. next \in LoadStages /\ next # "imports"
  BY <1>3 DEF Stages, LoadStages
<1>5. /\ load.id \in 1..Len(instances) /\ Loading = instances[load.id]
      /\ f \in KnownFiles /\ load.item \in 1..(Len(ItemsOf(load.stage)) + 1)
      /\ \A kind \in Kinds : Len(Loading[kind]) = MadeSoFar(f, kind, load.stage, load.item)
  BY <1>2, LoadingFacts
<1>6. IsList(f.imports) /\ \A list \in Lists : IsList(f[list])
  BY <1>5, FilesKnown DEF Lists
<1>7. load.item = Len(ItemsOf(load.stage)) + 1
  <2>1. load.item > Len(ItemsOf(load.stage))
    BY DEF NextStage
  <2>2. load.stage \in Lists /\ ItemsOf(load.stage) = f[load.stage]
    BY <1>2 DEF ItemsOf, Lists, LoadStages, Kinds
  <2>3. Len(ItemsOf(load.stage)) \in Nat
    BY <1>6, <2>2, ListFacts
  <2> QED BY <1>5, <2>1, <2>3
<1>8. load'.id = load.id /\ load'.stage = next /\ load'.item = 1
  <2>1. LoadRecord(load)
    BY <1>2 DEF LInv, IInv, LoadInv
  <2>2. load' = [load EXCEPT !.stage = next, !.item = 1]
    BY DEF NextStage
  <2> HIDE DEF next
  <2> QED BY <2>1, <2>2 DEF LoadRecord
<1>9. ObjectsKept /\ ObjectInv' /\ ServeInv' /\ CompleteInv'
  <2>1. ListsSame /\ UNCHANGED <<instances, stores, globals>>
    BY DEF NextStage, ListsSame
  <2>2. ObjectsKept /\ ObjectInv'
    BY <2>1, SameFunctions, ObjectsSame
  <2>3. \A x \in 1..Len(instances) : instances'[x].state \in {"loading", "ready", "failed"}
    BY <2>1 DEF LInv, ServeInv
  <2>4. ServeInv'
    BY <2>1, <2>2, <2>3, SameLists
  <2>5. CompleteInv'
    BY <2>1, CompleteStill
  <2> QED BY <2>2, <2>4, <2>5
<1>10. ProgressInv'
  <2> HIDE DEF next
  <2>1. Loading' = Loading
    BY <1>8 DEF NextStage, Loading
  <2>2. load'.item \in 1..(Len(ItemsOf(load.stage)') + 1)
    <3>1. Len(ItemsOf(load.stage)') \in Nat
      <4>1. CASE next = "finish"
        BY <1>8, <4>1 DEF ItemsOf
      <4>2. CASE next # "finish"
        <5>1. next \in Lists
          BY <1>4, <4>2 DEF LoadStages, Lists, Kinds
        <5>2. Len(f[next]) \in Nat
          BY <1>6, <5>1, ListFacts
        <5> QED BY <1>8, <2>1, <4>2, <5>2 DEF ItemsOf
      <4> QED BY <4>1, <4>2
    <3> QED BY <1>8, <3>1
  <2>3. ASSUME NEW kind \in Kinds
        PROVE  Len(Loading'[kind]) = MadeSoFar(Loading'.file, kind, load'.stage, load'.item)
    <3>1. IsList(f[kind])
      BY <1>6, StageKinds
    <3>2. load.item = Len(IF Stages[k] = "finish" THEN <<>> ELSE f[Stages[k]]) + 1
      BY <1>3, <1>7 DEF ItemsOf
    <3> HIDE DEF f, k
    <3>3. MadeSoFar(f, kind, Stages[k + 1], 1) = MadeSoFar(f, kind, Stages[k], load.item)
      BY <1>3, <1>6, <3>1, <3>2, StageOver
    <3> QED BY <1>3, <1>5, <1>8, <2>1, <3>3 DEF next, f
  <2> QED BY <1>4, <1>8, <2>2, <2>3 DEF ProgressInv
<1> QED BY <1>9, <1>10 DEF Rest

\* The module is complete when it becomes ready.
LEMMA FinishRest ==
  ASSUME LInv, Finish
  PROVE  Rest'
<1>1. load # NoLoad /\ load.stage = "finish"
  BY InAStage DEF Finish, LoadStages, LInv
<1>2. SetField(load.id, "state", "ready")
  BY DEF Finish, SetField
<1>3. /\ ListsSame
      /\ \A x \in 1..Len(instances) :
           instances'[x].state = IF x = load.id THEN "ready" ELSE instances[x].state
  BY <1>1, <1>2, StateOrDropped
<1>4. ObjectsKept /\ ObjectInv'
  BY <1>3, SameFunctions, ObjectsSame DEF Finish
<1>5. ServeInv'
  <2>1. \A x \in 1..Len(instances) : instances[x].state \in {"loading", "ready", "failed"}
    BY DEF LInv, ServeInv
  <2>2. \A x \in 1..Len(instances) : instances'[x].state \in {"loading", "ready", "failed"}
    BY <1>3, <2>1
  <2> QED BY <1>3, <1>4, <2>2, SameLists
<1>6. CompleteInv'
  <2> SUFFICES ASSUME NEW x \in 1..Len(instances), instances'[x].state = "ready",
                      NEW kind \in Kinds
               PROVE  Len(instances'[x][kind]) = Len(Space(instances'[x].file, kind))
    BY <1>3 DEF CompleteInv, ListsSame
  <2>1. instances'[x].file = instances[x].file /\ instances'[x][kind] = instances[x][kind]
    BY <1>3 DEF ListsSame
  <2>2. CASE x = load.id
    <3>1. Len(Loading[kind]) = Len(Space(Loading.file, kind))
      BY <1>1, StagesOver
    <3> QED BY <2>1, <2>2, <3>1 DEF Loading
  <2>3. CASE x # load.id
    BY <1>3, <2>1, <2>3 DEF LInv, CompleteInv
  <2> QED BY <2>2, <2>3
<1>7. ProgressInv'
  BY DEF Finish, ProgressInv
<1> QED BY <1>4, <1>5, <1>6, <1>7 DEF Rest

LEMMA RegisterRest ==
  ASSUME LInv, NEW n \in Names, Register(n)
  PROVE  Rest'
<1>1. UNCHANGED <<instances, stores, globals, load>>
  BY DEF Register
<1>2. ListsSame
  BY <1>1 DEF ListsSame
<1>3. ObjectsKept /\ ObjectInv'
  BY <1>1, <1>2, SameFunctions, ObjectsSame
<1> QED BY <1>1, <1>3, ObjectsRest

-----------------------------------------------------------------------------
(* Code that runs, and items that give the module an object.               *)

LEMMA RunningIsThere ==
  ASSUME LInv, NEW x \in Running
  PROVE  x \in 1..Len(instances)
<1>1. x \in ({registered[n] : n \in Names} \cup {current, load.id}) \ {0}
  BY DEF Running, Live
<1>2. \A n \in Names : registered[n] \in 0..Len(instances)
  BY DEF LInv, IInv, NamesKnown
<1>3. current \in 0..Len(instances)
  BY DEF LInv, IInv, NamesKnown
<1>4. load.id \in 0..Len(instances)
  <2>1. CASE load = NoLoad
    BY <2>1, Counted DEF NoLoad
  <2>2. CASE load # NoLoad
    BY <2>2, LoadingFacts
  <2> QED BY <2>1, <2>2
<1>5. Len(instances) \in Nat
  BY Counted
<1> QED BY <1>1, <1>2, <1>3, <1>4, <1>5

LEMMA StoreOfInstance ==
  ASSUME LInv, NEW x \in 1..Len(instances), NEW kind \in {"tables", "memories"},
         NEW id \in ToSet(instances[x][kind])
  PROVE  id \in 1..Len(stores) /\ (kind = "memories" => stores[id].type = "byte")
<1>1. kind \in Kinds
  BY DEF Kinds
<1>2. DOMAIN instances[x][kind] = 1..Len(instances[x][kind])
  BY <1>1, Counted
<1>3. PICK k \in 1..Len(instances[x][kind]) : id = instances[x][kind][k]
  BY <1>2 DEF ToSet
<1>4. Serves(globals, stores, kind, id, Space(instances[x].file, kind)[k])
  BY <1>1, <1>3 DEF LInv, ServeInv, ListServes
<1> QED BY <1>4 DEF Serves

LEMMA RunCodeRest ==
  ASSUME LInv, RunCode
  PROVE  Rest'
<1>1. UNCHANGED <<instances, globals, load>> /\ ListsSame
  BY DEF RunCode, GrowStore, Resize, SetTable, ListsSame
<1>2. FunctionsKept
  BY <1>1, SameFunctions
<1>3. ASSUME NEW x \in Running, NEW kind \in {"tables", "memories"}, NEW n \in 1..(U64 - 1),
             NEW id \in ToSet(instances[x][kind]), GrowStore(kind, id, n)
      PROVE  ObjectsKept /\ ObjectInv'
  <2> DEFINE s == stores[id]
             size == GrownSize(s, n)
             cell == IF kind = "tables" THEN Null(s.type) ELSE 0
             cells == [k \in 1..size |-> IF k \in DOMAIN s.cells THEN s.cells[k] ELSE cell]
  <2>1. /\ id \in 1..Len(stores)
        /\ kind = "memories" => s.type = "byte"
    BY RunningIsThere, StoreOfInstance
  <2>2. IsStore(s) /\ CellsNamed(instances, s)
    BY <2>1, ObjectFacts
  <2>3. Len(s.cells) \in Nat /\ DOMAIN s.cells = 1..Len(s.cells)
    BY <2>1, Counted
  <2>4. size \in Nat /\ size <= MaxOf(s) /\ (Len(s.cells) <= size \/ Shrinks(s))
    <3>1. n \in Nat /\ U64 \in Nat /\ U64 > 0
      BY InstancesAssumption
    <3>2. /\ size <= MaxOf(s)
          /\ kind = "tables" => size = Len(s.cells) + n
      BY <1>3 DEF GrowStore
    <3> HIDE DEF s
    <3>3. CASE s.address = "i64"
      <4>1. size = (Len(s.cells) + n) % U64 /\ Len(s.cells) + n \in Nat
        BY <2>3, <3>1, <3>3 DEF GrownSize
      <4>2. size \in Nat
        BY <3>1, <4>1
      <4>3. kind = "memories" => Shrinks(s)
        BY <2>1, <3>3 DEF Shrinks
      <4> HIDE DEF size
      <4> QED BY <2>3, <3>1, <3>2, <4>2, <4>3
    <3>4. CASE s.address # "i64"
      <4>1. size = Len(s.cells) + n
        BY <3>4 DEF GrownSize
      <4> HIDE DEF size
      <4> QED BY <2>3, <3>1, <3>2, <4>1
    <3> QED BY <3>3, <3>4
  <2>5. stores' = [stores EXCEPT ![id] = [stores[id] EXCEPT !.cells = cells]]
    BY <1>3 DEF GrowStore, Resize
  <2>6. IsList(cells) /\ Len(cells) = size
    <3> HIDE DEF size, s, cell
    <3>1. cells = [k \in 1..size |-> cells[k]]
      OBVIOUS
    <3> HIDE DEF cells
    <3> QED BY <2>4, <3>1, FunctionIsList
  <2>7. ASSUME s.type # "byte", NEW k \in 1..Len(cells)
        PROVE  Named(instances', cells[k])
    <3>1. kind = "tables"
      BY <2>1, <2>7
    <3>2. Named(instances', cell)
      BY <3>1 DEF Named, Null, Plain
    <3>3. \A j \in 1..Len(s.cells) : Named(instances', s.cells[j])
      <4> HIDE DEF s
      <4> QED BY <1>2, <2>2, <2>7, NamedStays DEF CellsNamed
    <3>4. cells[k] = IF k \in DOMAIN s.cells THEN s.cells[k] ELSE cell
      <4> HIDE DEF size, s, cell
      <4> QED BY <2>6, <2>7
    <3> HIDE DEF cells, cell, s
    <3> QED BY <2>3, <3>2, <3>3, <3>4
  <2>8. /\ Len(stores[id].cells) <= Len(cells) \/ Shrinks(stores[id])
        /\ Len(cells) <= MaxOf(stores[id])
    <3> HIDE DEF cells, size
    <3> QED BY <2>4, <2>6
  <2> HIDE DEF cells
  <2> QED BY <1>1, <1>2, <2>1, <2>5, <2>6, <2>7, <2>8, CellsChanged
<1>4. ASSUME NEW x \in Running, NEW y \in CodeIn(x), NEW j \in DOMAIN instances[x].tables,
             NEW c \in DOMAIN stores[instances[x].tables[j]].cells,
             NEW f \in DOMAIN instances[y].functions, SetTable(x, y, j, c, f)
      PROVE  ObjectsKept /\ ObjectInv'
  <2> DEFINE id == instances[x].tables[j]
             r == Reference(f - 1, x, y # x)
             cells == [stores[id].cells EXCEPT ![c] = r]
  <2>1. x \in 1..Len(instances) /\ id \in 1..Len(stores)
    <3>1. id \in ToSet(instances[x].tables)
      BY DEF ToSet
    <3> HIDE DEF id
    <3> QED BY <3>1, RunningIsThere, StoreOfInstance
  <2>2. IsStore(stores[id]) /\ CellsNamed(instances, stores[id])
    BY <2>1, ObjectFacts
  <2>3. Len(stores[id].cells) \in Nat /\ DOMAIN stores[id].cells = 1..Len(stores[id].cells)
    BY <2>1, Counted
  <2>4. IsList(cells) /\ Len(cells) = Len(stores[id].cells)
    <3>1. cells = [k \in 1..Len(stores[id].cells) |-> cells[k]]
      BY <2>3
    <3> HIDE DEF cells
    <3> QED BY <2>3, <3>1, FunctionIsList
  <2>5. \A k \in 1..Len(stores[id].cells) :
          cells[k] = IF k = c THEN r ELSE stores[id].cells[k]
    BY <2>3
  <2>6. stores' = [stores EXCEPT ![id] = [stores[id] EXCEPT !.cells = cells]]
    BY <1>4 DEF SetTable
  <2>7. Named(instances', r)
    <3>1. CASE y # x
      BY <3>1 DEF Named, Reference
    <3>2. CASE y = x
      <4>1. "functions" \in Kinds
        BY DEF Kinds
      <4>2. /\ Len(instances[x].functions) \in Nat
            /\ DOMAIN instances[x].functions = 1..Len(instances[x].functions)
        BY <2>1, <4>1, Counted
      <4> QED BY <1>1, <2>1, <3>2, <4>2 DEF Named, Reference
    <3> QED BY <3>1, <3>2
  <2>8. ASSUME stores[id].type # "byte", NEW k \in 1..Len(cells)
        PROVE  Named(instances', cells[k])
    <3> HIDE DEF cells, r, id
    <3>1. \A i \in 1..Len(stores[id].cells) : Named(instances', stores[id].cells[i])
      BY <1>2, <2>2, <2>8, NamedStays DEF CellsNamed
    <3> QED BY <2>4, <2>5, <2>7, <2>8, <3>1
  <2>9. Len(stores[id].cells) <= Len(cells) /\ Len(cells) <= MaxOf(stores[id])
    <3> HIDE DEF cells, id
    <3> QED BY <2>2, <2>3, <2>4 DEF IsStore
  <2> HIDE DEF cells, id
  <2> QED BY <1>1, <1>2, <2>1, <2>4, <2>6, <2>8, <2>9, CellsChanged
<1>5. ObjectsKept /\ ObjectInv'
  BY <1>3, <1>4 DEF RunCode
<1> QED BY <1>1, <1>5, ObjectsRest

LEMMA FoundServes ==
  ASSUME LInv, NEW i, IsImport(i), NEW object \in Found(i), ImportFits(i, object)
  PROVE  Serves(globals, stores, i.kind, object, i)
<1> DEFINE kind == i.kind
           x == registered[i.env]
           m == instances[x]
<1>1. kind \in Kinds /\ i.env \in Names
  BY DEF IsImport
<1>2. x # 0
  BY DEF Found
<1>3. PICK y \in {y \in ToSet(m.file.exports) : y.name = i.name /\ y.kind = kind} :
        object = m[kind][y.idx + 1]
  BY <1>2 DEF Found
<1>4. x \in 1..Len(instances) /\ m.state = "ready"
  <2>1. x \in 0..Len(instances)
    BY <1>1 DEF LInv, IInv, NamesKnown
  <2>2. Len(instances) \in Nat
    BY Counted
  <2>3. m.state = "ready"
    BY <1>1, <1>2 DEF LInv, IInv, OnlyReadyModulesVisible
  <2> QED BY <1>2, <2>1, <2>2, <2>3
<1>5. m.file \in KnownFiles /\ ListServes(globals, stores, m, kind)
      /\ Len(m[kind]) = Len(Space(m.file, kind))
  BY <1>1, <1>4 DEF LInv, ServeInv, CompleteInv
<1>6. y.kind = kind /\ y.idx \in Nat /\ HasIndex(m.file, kind, y.idx)
  <2> HIDE DEF m, kind
  <2>1. y.kind = kind /\ y \in ToSet(m.file.exports)
    OBVIOUS
  <2>2. PICK k \in DOMAIN m.file.exports : y = m.file.exports[k]
    BY <2>1 DEF ToSet
  <2> QED BY <1>5, <2>1, <2>2, FileItems
<1>7. y.idx + 1 \in 1..Len(m[kind])
  <2> HIDE DEF m, kind
  <2>1. IsList(m[kind])
    BY <1>5 DEF ListServes
  <2> DEFINE list == m[kind]
  <2>2. Len(list) \in Nat
    <3> HIDE DEF list
    <3>1. IsList(list)
      BY <2>1 DEF list
    <3> QED BY <3>1, ListFacts
  <2> QED BY <1>5, <1>6, <2>2 DEF HasIndex
<1>8. PICK item : Serves(globals, stores, kind, object, item)
  <2> DEFINE n == y.idx + 1
  <2>1. object = m[kind][n] /\ n \in 1..Len(m[kind])
    BY <1>3, <1>7
  <2> HIDE DEF m, kind, n
  <2>2. Serves(globals, stores, kind, m[kind][n], Space(m.file, kind)[n])
    BY <1>5, <2>1 DEF ListServes
  <2> QED BY <2>1, <2>2
<1>9. CASE kind = "functions"
  BY <1>9 DEF Serves
<1>10. CASE kind = "globals"
  BY <1>8, <1>10 DEF Serves, ImportFits
<1>11. CASE kind \in {"tables", "memories"}
  <2> DEFINE s == stores[object]
  <2>1. /\ object \in 1..Len(stores)
        /\ kind = "memories" => s.type = "byte"
        /\ kind = "tables" => s.type # "byte"
    BY <1>8, <1>11 DEF Serves
  <2>2. FitsWithin(LimitsOf(s), i.limits)
    BY <1>11 DEF ImportFits
  <2>3. Within(kind, s, i.limits)
    <3>1. IsLimits(i.limits)
      BY <1>11 DEF IsImport
    <3>2. LimitsOf(s).min = Len(s.cells) /\ LimitsOf(s).max = s.max
          /\ LimitsOf(s).address = s.address
      BY DEF LimitsOf
    <3> QED BY <2>2, <3>1, <3>2 DEF FitsWithin, Within
  <2> QED BY <1>11, <2>1, <2>3 DEF Serves
<1> QED BY <1>1, <1>9, <1>10, <1>11 DEF Kinds

LEMMA ImportRest ==
  ASSUME LInv, Import
  PROVE  Rest'
<1> DEFINE i == Loading.file.imports[load.item]
           kind == i.kind
<1>1. load.stage = "imports" /\ load # NoLoad /\ load.item <= Len(Loading.file.imports)
  BY InAStage DEF Import, Item, LoadStages, LInv
<1>2. /\ IsImport(i) /\ kind \in Kinds
      /\ Len(Loading[kind]) + 1 <= Len(Space(Loading.file, kind))
      /\ Space(Loading.file, kind)[Len(Loading[kind]) + 1] = i
  BY <1>1, NextImported
<1>3. load.item <= Len(ItemsOf(load.stage))
  BY <1>1 DEF ItemsOf
<1>4. CASE Fail
  BY <1>1, <1>4, FailRest
<1>5. ASSUME NEW object \in Found(i), ImportFits(i, object), Add(kind, object), NextItem,
             UNCHANGED <<stores, globals>>
      PROVE  Rest'
  <2>1. Serves(globals, stores, kind, object, i)
    BY <1>2, <1>5, FoundServes
  <2>2. FunctionsKept
    BY <1>1, <1>2, <1>5, AddKeepsFunctions
  <2>3. ObjectsKept /\ ObjectInv'
    BY <1>5, <2>2, ObjectsSame
  <2>4. Serves(globals', stores', kind, object, i)
    BY <2>1, <2>3, ServesStill
  <2>5. ServeInv' /\ CompleteInv'
    <3>1. Serves(globals', stores', kind, object,
                 Space(Loading.file, kind)[Len(Loading[kind]) + 1])
      BY <1>2, <2>4
    <3> HIDE DEF i, kind
    <3> QED BY <1>1, <1>2, <1>5, <2>3, <3>1, AddServes
  <2>6. ProgressInv'
    <3>1. Loading.file.imports[load.item].kind = kind
      OBVIOUS
    <3> HIDE DEF i, kind
    <3> QED BY <1>1, <1>2, <1>3, <1>5, <3>1, AddProgress
  <2> QED BY <2>3, <2>5, <2>6 DEF Rest
<1> QED BY <1>4, <1>5 DEF Import

\* An item of its stage is made into an object that serves it.
LEMMA MadeRest ==
  ASSUME LInv, load # NoLoad, NEW kind \in Kinds, load.stage = kind,
         load.item <= Len(Loading.file[kind]),
         NEW object, Add(kind, object), NextItem, ObjectsKept, ObjectInv',
         Serves(globals', stores', kind, object, Loading.file[kind][load.item])
  PROVE  Rest'
<1>1. /\ Len(Loading[kind]) + 1 <= Len(Space(Loading.file, kind))
      /\ Space(Loading.file, kind)[Len(Loading[kind]) + 1] = Loading.file[kind][load.item]
  BY NextDefined
<1>2. ServeInv' /\ CompleteInv'
  BY <1>1, AddServes
<1>3. load.item <= Len(ItemsOf(load.stage))
  BY DEF ItemsOf, Kinds
<1>4. ProgressInv'
  BY <1>3, AddProgress
<1> QED BY <1>2, <1>4 DEF Rest

LEMMA MakeFunctionRest ==
  ASSUME LInv, MakeFunction
  PROVE  Rest'
<1> DEFINE kind == "functions"
           object == [home |-> load.id, type |-> Loading.file.functions[load.item].type]
<1>1. load.stage = kind /\ load # NoLoad /\ load.item <= Len(Loading.file[kind])
  BY InAStage DEF MakeFunction, Item, LoadStages, LInv
<1>2. kind \in Kinds /\ kind \notin {"globals", "tables", "memories"}
  BY DEF Kinds
<1>3. Add(kind, object) /\ NextItem /\ UNCHANGED <<stores, globals>>
  BY DEF MakeFunction
<1> HIDE DEF kind, object
<1>4. FunctionsKept
  BY <1>1, <1>2, <1>3, AddKeepsFunctions
<1>5. ObjectsKept /\ ObjectInv'
  BY <1>3, <1>4, ObjectsSame
<1>6. Serves(globals', stores', kind, object, Loading.file[kind][load.item])
  BY <1>2 DEF Serves
<1> QED BY <1>1, <1>2, <1>3, <1>5, <1>6, MadeRest

LEMMA MakeGlobalRest ==
  ASSUME LInv, MakeGlobal
  PROVE  Rest'
<1> DEFINE kind == "globals"
           g == Loading.file.globals[load.item]
           object == Len(globals) + 1
           new == [type |-> g.type, mutable |-> g.mutable, value |-> Evaluate(g.init)]
<1>1. load.stage = kind /\ load # NoLoad /\ load.item <= Len(Loading.file[kind])
  BY InAStage DEF MakeGlobal, Item, LoadStages, LInv
<1>2. kind \in Kinds
  BY DEF Kinds
<1>3. load.item \in DOMAIN Loading.file.globals
  BY <1>1, <1>2, NextDefined
<1>4. IsExpr(g.init) /\ ValidExpr(Loading.file, g.init, g.type)
  <2>1. IsFile(Loading.file) /\ Valid(Loading.file)
    BY <1>1, LoadingFacts, FilesKnown
  <2> QED BY <1>3, <2>1 DEF IsFile, Valid
<1>5. CanEvaluate(g.init, g.type) /\ Named(instances, Evaluate(g.init))
  BY <1>1, <1>4, EvaluateValid
<1>6. /\ globals' = Append(globals, new) /\ Add(kind, object) /\ NextItem
      /\ stores' = stores
  BY <1>5 DEF MakeGlobal
<1>7. FunctionsKept
  <2> HIDE DEF kind, object
  <2> QED BY <1>1, <1>2, <1>6, AddKeepsFunctions
<1>8. GlobalNamed(instances', new)
  <2>1. Named(instances', Evaluate(g.init))
    BY <1>5, <1>7, NamedStays
  <2>2. Evaluate(g.init).type = g.type
    BY <1>5 DEF CanEvaluate
  <2> QED BY <2>1, <2>2 DEF GlobalNamed
<1>9. /\ ObjectsKept /\ ObjectInv'
      /\ Len(globals') = Len(globals) + 1 /\ globals'[Len(globals) + 1] = new
  <2> HIDE DEF new
  <2> QED BY <1>6, <1>7, <1>8, GlobalAdded
<1>10. Serves(globals', stores', kind, object, Loading.file[kind][load.item])
  <2>1. Len(globals) \in Nat
    BY Counted
  <2> QED BY <1>9, <2>1 DEF Serves
<1> HIDE DEF kind, object, g, new
<1> QED BY <1>1, <1>2, <1>6, <1>9, <1>10, MadeRest

\* A store of its initial size keeps to the limits it was made from.
LEMMA NewStoreServes ==
  ASSUME NEW type, NEW limits, IsLimits(limits), OrderedLimits(limits),
         limits.min <= MaxCells, NEW value, NEW all,
         type # "byte" => Named(all, value)
  PROVE  LET s == NewStore(type, limits, value) IN
         /\ IsStore(s) /\ CellsNamed(all, s) /\ s.type = type
         /\ \A kind : Within(kind, s, limits)
<1> DEFINE s == NewStore(type, limits, value)
           cells == [k \in 1..limits.min |-> value]
<1>1. limits.min \in Nat /\ limits.max \in Nat \cup {NoMax} /\ MaxCells \in Nat
  BY InstancesAssumption DEF IsLimits
<1>2. /\ s.type = type /\ s.max = limits.max /\ s.address = limits.address
      /\ s.cells = cells
      /\ s = [type |-> s.type, max |-> s.max, address |-> s.address, cells |-> s.cells]
  BY DEF NewStore
<1>3. cells = [k \in 1..limits.min |-> cells[k]] /\ \A k \in 1..limits.min : cells[k] = value
  OBVIOUS
<1> HIDE DEF s, cells
<1>4. IsList(cells) /\ Len(cells) = limits.min
  BY <1>1, <1>3, FunctionIsList
<1>5. IsStore(s)
  BY <1>1, <1>2, <1>4 DEF IsStore, MaxOf, OrderedLimits
<1>6. CellsNamed(all, s)
  BY <1>2, <1>3, <1>4 DEF CellsNamed
<1>7. \A kind : Within(kind, s, limits)
  BY <1>1, <1>2, <1>4 DEF Within
<1> QED BY <1>2, <1>5, <1>6, <1>7 DEF s

LEMMA MakeStoreRest ==
  ASSUME LInv, load # NoLoad, NEW kind \in {"tables", "memories"}, load.stage = kind,
         load.item <= Len(Loading.file[kind]),
         NEW s, IsStore(s), CellsNamed(instances, s),
         Within(kind, s, Loading.file[kind][load.item].limits),
         (kind = "memories") <=> (s.type = "byte"),
         MakeStore(kind, s)
  PROVE  Rest'
<1> DEFINE object == Len(stores) + 1
<1>1. kind \in Kinds
  BY DEF Kinds
<1>2. /\ stores' = Append(stores, s) /\ Add(kind, object) /\ NextItem
      /\ globals' = globals
  BY DEF MakeStore
<1>3. FunctionsKept
  <2> HIDE DEF object
  <2> QED BY <1>1, <1>2, AddKeepsFunctions
<1>4. CellsNamed(instances', s)
  BY <1>3, NamedStays DEF CellsNamed
<1>5. /\ ObjectsKept /\ ObjectInv'
      /\ Len(stores') = Len(stores) + 1 /\ stores'[Len(stores) + 1] = s
  BY <1>2, <1>3, <1>4, StoreAdded
<1>6. Serves(globals', stores', kind, object, Loading.file[kind][load.item])
  <2>1. Len(stores) \in Nat
    BY Counted
  <2> QED BY <1>5, <2>1 DEF Serves
<1> HIDE DEF object
<1> QED BY <1>1, <1>2, <1>5, <1>6, MadeRest

LEMMA MakeMemoryRest ==
  ASSUME LInv, MakeMemory
  PROVE  Rest'
<1> DEFINE kind == "memories"
           f == Loading.file
           limits == f.memories[load.item].limits
           s == NewStore("byte", limits, 0)
           n == Len(Loading[kind]) + 1
<1>1. load.stage = kind /\ load # NoLoad /\ load.item <= Len(f[kind])
  BY InAStage DEF MakeMemory, Item, LoadStages, LInv
<1>2. kind \in Kinds
  BY DEF Kinds
<1>3. /\ load.item \in DOMAIN f.memories
      /\ n <= Len(Space(f, kind)) /\ Space(f, kind)[n] = f.memories[load.item]
  BY <1>1, <1>2, NextDefined
<1>4. f \in KnownFiles /\ IsFile(f) /\ Valid(f)
  BY <1>1, LoadingFacts, FilesKnown
<1>5. n \in DOMAIN Space(f, kind)
  <2>1. IsList(f.imports) /\ IsList(f[kind])
    BY <1>4, FilesKnown, StageKinds DEF Lists, Kinds
  <2>2. Len(Loading[kind]) \in Nat
    BY <1>1, <1>2, LoadingFacts
  <2>3. DOMAIN Space(f, kind) = 1..Len(Space(f, kind)) /\ Len(Space(f, kind)) \in Nat
    BY <2>1, SpaceOfFile
  <2> QED BY <1>3, <2>2, <2>3
<1>6. IsLimits(limits) /\ OrderedLimits(limits) /\ limits.min <= MaxCells
  <2>1. IsLimits(limits)
    BY <1>3, <1>4 DEF IsFile
  <2>2. OrderedLimits(Space(f, kind)[n].limits) /\ ValidPages(Space(f, kind)[n].limits)
    <3> HIDE DEF n
    <3> QED BY <1>4, <1>5 DEF Valid
  <2> QED BY <1>3, <2>1, <2>2 DEF ValidPages
<1>7. IsStore(s) /\ CellsNamed(instances, s) /\ Within(kind, s, limits) /\ s.type = "byte"
  BY <1>6, NewStoreServes
<1>8. MakeStore(kind, s)
  BY DEF MakeMemory
<1> HIDE DEF s
<1> QED BY <1>1, <1>7, <1>8, MakeStoreRest

LEMMA MakeTableRest ==
  ASSUME LInv, MakeTable
  PROVE  Rest'
<1> DEFINE kind == "tables"
           f == Loading.file
           t == f.tables[load.item]
           s == NewStore(t.type, t.limits, Null(t.type))
           n == Len(Loading[kind]) + 1
<1>1. load.stage = kind /\ load # NoLoad /\ load.item <= Len(f[kind])
  BY InAStage DEF MakeTable, Item, LoadStages, LInv
<1> SUFFICES ASSUME ~Fail PROVE Rest'
  BY <1>1, FailRest
<1>0. t.type \in ReferenceTypes /\ t.limits.min <= MaxCells /\ MakeStore(kind, s)
  BY DEF MakeTable
<1>2. kind \in Kinds
  BY DEF Kinds
<1>3. /\ load.item \in DOMAIN f.tables
      /\ n <= Len(Space(f, kind)) /\ Space(f, kind)[n] = t
  BY <1>1, <1>2, NextDefined
<1>4. f \in KnownFiles /\ IsFile(f) /\ Valid(f)
  BY <1>1, LoadingFacts, FilesKnown
<1>5. n \in DOMAIN Space(f, kind)
  <2>1. IsList(f.imports) /\ IsList(f[kind])
    BY <1>4, FilesKnown, StageKinds DEF Lists, Kinds
  <2>2. Len(Loading[kind]) \in Nat
    BY <1>1, <1>2, LoadingFacts
  <2>3. DOMAIN Space(f, kind) = 1..Len(Space(f, kind)) /\ Len(Space(f, kind)) \in Nat
    BY <2>1, SpaceOfFile
  <2> QED BY <1>3, <2>2, <2>3
<1>6. IsLimits(t.limits) /\ OrderedLimits(t.limits) /\ t.limits.min <= MaxCells
  <2>1. IsLimits(t.limits)
    BY <1>3, <1>4 DEF IsFile
  <2>2. OrderedLimits(Space(f, kind)[n].limits)
    <3> HIDE DEF n
    <3> QED BY <1>4, <1>5 DEF Valid
  <2> QED BY <1>0, <1>3, <2>1, <2>2
<1>7. IsStore(s) /\ CellsNamed(instances, s) /\ Within(kind, s, t.limits) /\ s.type # "byte"
  <2>1. Named(instances, Null(t.type))
    BY DEF Named, Null, Plain
  <2>2. /\ IsStore(s) /\ CellsNamed(instances, s) /\ s.type = t.type
        /\ Within(kind, s, t.limits)
    BY <1>6, <2>1, NewStoreServes
  <2> QED BY <1>0, <2>2 DEF ReferenceTypes
<1> HIDE DEF s
<1> QED BY <1>0, <1>1, <1>7, MakeStoreRest

-----------------------------------------------------------------------------
(* The beginning.                                                          *)

\* The module of the host imports nothing.
LEMMA HostSpace ==
  ASSUME NEW kind \in Kinds
  PROVE  /\ IsList(HostFile[kind]) /\ Len(HostFile[kind]) \in Nat
         /\ DOMAIN HostFile[kind] = 1..Len(HostFile[kind])
         /\ Len(Space(HostFile, kind)) = Len(HostFile[kind])
         /\ DOMAIN Space(HostFile, kind) = 1..Len(HostFile[kind])
         /\ \A k \in 1..Len(HostFile[kind]) : Space(HostFile, kind)[k] = HostFile[kind][k]
<1>1. HostFile \in KnownFiles /\ HostFile.imports = <<>>
  BY HostAssumption DEF KnownFiles
<1>2. IsList(HostFile.imports) /\ IsList(HostFile[kind])
  BY <1>1, FilesKnown, StageKinds
<1>3. Len(HostFile[kind]) \in Nat /\ DOMAIN HostFile[kind] = 1..Len(HostFile[kind])
  BY <1>2, ListFacts
<1> DEFINE before == Len(ImportsOf(HostFile, kind))
<1>4. before = 0
  <2>1. before = ImportCount(HostFile, kind, Len(HostFile.imports))
    BY <1>2, ImportsOfFile
  <2>2. Len(HostFile.imports) = 0
    BY <1>1
  <2> QED BY <2>1, <2>2, NoImportCounted
<1>5. /\ Len(Space(HostFile, kind)) = before + Len(HostFile[kind])
      /\ DOMAIN Space(HostFile, kind) = 1..Len(Space(HostFile, kind))
      /\ \A k \in 1..Len(Space(HostFile, kind)) :
           Space(HostFile, kind)[k] = IF k <= before THEN ImportsOf(HostFile, kind)[k]
                                      ELSE HostFile[kind][k - before]
  BY <1>2, SpaceOfFile
<1> HIDE DEF before
<1>6. ASSUME NEW k \in 1..Len(HostFile[kind])
      PROVE  Space(HostFile, kind)[k] = HostFile[kind][k]
  <2>1. k \in 1..Len(Space(HostFile, kind)) /\ ~(k <= before) /\ k - before = k
    BY <1>3, <1>4, <1>5
  <2> QED BY <1>5, <2>1
<1>7. Len(Space(HostFile, kind)) = Len(HostFile[kind])
  BY <1>3, <1>4, <1>5
<1> QED BY <1>2, <1>3, <1>5, <1>6, <1>7

LEMMA HostItems ==
  /\ \A k \in 1..Len(HostFile.tables) :
       LET limits == HostFile.tables[k].limits IN
       /\ IsLimits(limits) /\ OrderedLimits(limits) /\ limits.min <= MaxCells
       /\ HostFile.tables[k].type # "byte"
  /\ \A k \in 1..Len(HostFile.memories) :
       LET limits == HostFile.memories[k].limits IN
       IsLimits(limits) /\ OrderedLimits(limits) /\ limits.min <= MaxCells
<1>1. IsFile(HostFile) /\ Valid(HostFile)
  BY InstancesAssumption, HostAssumption
<1>2. "tables" \in Kinds /\ "memories" \in Kinds
  BY DEF Kinds
<1>3. ASSUME NEW k \in 1..Len(HostFile.tables)
      PROVE  LET limits == HostFile.tables[k].limits IN
             /\ IsLimits(limits) /\ OrderedLimits(limits) /\ limits.min <= MaxCells
             /\ HostFile.tables[k].type # "byte"
  <2>1. k \in DOMAIN HostFile.tables /\ k \in DOMAIN Space(HostFile, "tables")
        /\ Space(HostFile, "tables")[k] = HostFile.tables[k]
    BY <1>2, HostSpace
  <2> QED BY <1>1, <2>1, HostAssumption DEF IsFile, Valid, ReferenceTypes
<1>4. ASSUME NEW k \in 1..Len(HostFile.memories)
      PROVE  LET limits == HostFile.memories[k].limits IN
             IsLimits(limits) /\ OrderedLimits(limits) /\ limits.min <= MaxCells
  <2>1. k \in DOMAIN HostFile.memories /\ k \in DOMAIN Space(HostFile, "memories")
        /\ Space(HostFile, "memories")[k] = HostFile.memories[k]
    BY <1>2, HostSpace
  <2> QED BY <1>1, <2>1 DEF IsFile, Valid, ValidPages
<1> QED BY <1>3, <1>4

LEMMA InitStores ==
  /\ IsList(HostStores)
  /\ Len(HostStores) = Len(HostFile.tables) + Len(HostFile.memories)
  /\ \A k \in 1..Len(HostStores) : \A all :
       IsStore(HostStores[k]) /\ CellsNamed(all, HostStores[k])
  /\ \A k \in 1..Len(HostFile.tables) :
       /\ Within("tables", HostStores[k], HostFile.tables[k].limits)
       /\ HostStores[k].type # "byte"
  /\ \A k \in 1..Len(HostFile.memories) :
       /\ Within("memories", HostStores[Len(HostFile.tables) + k],
                 HostFile.memories[k].limits)
       /\ HostStores[Len(HostFile.tables) + k].type = "byte"
<1> DEFINE table(k) == LET t == HostFile.tables[k] IN
                       NewStore(t.type, t.limits, Null(t.type))
           memory(k) == NewStore("byte", HostFile.memories[k].limits, 0)
           tables == [k \in DOMAIN HostFile.tables |-> table(k)]
           memories == [k \in DOMAIN HostFile.memories |-> memory(k)]
           m == Len(HostFile.tables)
           n == Len(HostFile.memories)
<1>1. /\ m \in Nat /\ DOMAIN HostFile.tables = 1..m
      /\ n \in Nat /\ DOMAIN HostFile.memories = 1..n
  BY HostSpace DEF Kinds
<1>2. ASSUME NEW k \in 1..m, NEW all
      PROVE  /\ IsStore(table(k)) /\ CellsNamed(all, table(k))
             /\ Within("tables", table(k), HostFile.tables[k].limits)
             /\ table(k).type # "byte"
  <2> DEFINE t == HostFile.tables[k]
  <2>1. /\ IsLimits(t.limits) /\ OrderedLimits(t.limits) /\ t.limits.min <= MaxCells
        /\ t.type # "byte"
    BY HostItems
  <2>2. Named(all, Null(t.type))
    BY DEF Named, Null, Plain
  <2> HIDE DEF t
  <2>3. LET s == NewStore(t.type, t.limits, Null(t.type)) IN
        /\ IsStore(s) /\ CellsNamed(all, s) /\ Within("tables", s, t.limits)
        /\ s.type # "byte"
    BY <2>1, <2>2, NewStoreServes
  <2> QED BY <2>3 DEF t
<1>3. ASSUME NEW k \in 1..n, NEW all
      PROVE  /\ IsStore(memory(k)) /\ CellsNamed(all, memory(k))
             /\ Within("memories", memory(k), HostFile.memories[k].limits)
             /\ memory(k).type = "byte"
  <2>1. LET limits == HostFile.memories[k].limits IN
        IsLimits(limits) /\ OrderedLimits(limits) /\ limits.min <= MaxCells
    BY HostItems
  <2> QED BY <2>1, NewStoreServes
<1> HIDE DEF table, memory
<1>4. /\ IsList(tables) /\ Len(tables) = m /\ \A k \in 1..m : tables[k] = table(k)
      /\ IsList(memories) /\ Len(memories) = n /\ \A k \in 1..n : memories[k] = memory(k)
  <2>1. tables = [k \in 1..m |-> tables[k]] /\ \A k \in 1..m : tables[k] = table(k)
    BY <1>1
  <2>2. memories = [k \in 1..n |-> memories[k]] /\ \A k \in 1..n : memories[k] = memory(k)
    BY <1>1
  <2> HIDE DEF tables, memories, m, n
  <2> QED BY <1>1, <2>1, <2>2, FunctionIsList
<1>5. HostStores = tables \o memories
  BY DEF HostStores, table, memory
<1> HIDE DEF tables, memories, m, n
<1>6. /\ IsList(HostStores) /\ Len(HostStores) = m + n
      /\ \A k \in 1..(m + n) :
           HostStores[k] = IF k <= m THEN tables[k] ELSE memories[k - m]
  <2>1. /\ IsList(tables \o memories)
        /\ Len(tables \o memories) = Len(tables) + Len(memories)
        /\ \A k \in 1..(Len(tables) + Len(memories)) :
             (tables \o memories)[k] = IF k <= Len(tables) THEN tables[k]
                                       ELSE memories[k - Len(tables)]
    BY <1>4, ListsJoined
  <2> QED BY <1>4, <1>5, <2>1
<1>7. \A k \in 1..m : HostStores[k] = table(k)
  <2> SUFFICES ASSUME NEW k \in 1..m PROVE HostStores[k] = table(k)
    OBVIOUS
  <2>1. k \in 1..(m + n) /\ k <= m
    <3>1. m \in Nat /\ n \in Nat
      BY <1>1 DEF m, n
    <3> QED BY <3>1
  <2> QED BY <1>4, <1>6, <2>1
<1>8. \A k \in 1..n : HostStores[m + k] = memory(k)
  <2> SUFFICES ASSUME NEW k \in 1..n PROVE HostStores[m + k] = memory(k)
    OBVIOUS
  <2>1. m \in Nat /\ n \in Nat
    BY <1>1 DEF m, n
  <2>2. m + k \in 1..(m + n) /\ ~(m + k <= m) /\ m + k - m = k
    BY <2>1
  <2> QED BY <1>4, <1>6, <2>2
<1>9. ASSUME NEW k \in 1..(m + n), NEW all
      PROVE  IsStore(HostStores[k]) /\ CellsNamed(all, HostStores[k])
  <2>1. m \in Nat /\ n \in Nat
    BY <1>1 DEF m, n
  <2>2. CASE k <= m
    <3>1. k \in 1..m
      BY <2>1, <2>2
    <3> QED BY <1>2, <1>7, <3>1 DEF m
  <2>3. CASE ~(k <= m)
    <3>1. k - m \in 1..n /\ m + (k - m) = k
      BY <2>1, <2>3
    <3>2. HostStores[k] = memory(k - m)
      BY <1>8, <3>1
    <3> QED BY <1>3, <3>1, <3>2 DEF n
  <2> QED BY <2>2, <2>3
<1> QED BY <1>2, <1>3, <1>6, <1>7, <1>8, <1>9 DEF m, n

LEMMA InitGlobals ==
  /\ IsList(HostGlobals) /\ Len(HostGlobals) = Len(HostFile.globals)
  /\ \A k \in 1..Len(HostGlobals) : \A all :
       /\ GlobalNamed(all, HostGlobals[k])
       /\ HostGlobals[k].type = HostFile.globals[k].type
<1> DEFINE global(k) == LET g == HostFile.globals[k] IN
                        [type |-> g.type, mutable |-> g.mutable,
                         value |-> Plain(g.type, g.init.n)]
           n == Len(HostFile.globals)
<1>1. n \in Nat /\ DOMAIN HostFile.globals = 1..n
  BY HostSpace DEF Kinds
<1>2. \A k : \A all : GlobalNamed(all, global(k)) /\ global(k).type = HostFile.globals[k].type
  BY DEF GlobalNamed, Named, Plain
<1>3. HostGlobals = [k \in DOMAIN HostFile.globals |-> global(k)]
  BY DEF HostGlobals
<1> HIDE DEF global
<1>4. HostGlobals = [k \in 1..n |-> HostGlobals[k]]
      /\ \A k \in 1..n : HostGlobals[k] = global(k)
  BY <1>1, <1>3
<1>5. IsList(HostGlobals) /\ Len(HostGlobals) = n
  <2> HIDE DEF n
  <2> QED BY <1>1, <1>4, FunctionIsList DEF n
<1> QED BY <1>2, <1>4, <1>5

LEMMA InitRest == Init => Rest
<1> SUFFICES ASSUME Init PROVE Rest
  OBVIOUS
<1> DEFINE f == HostFile
           m == Len(f.tables)
<1>1. /\ instances = <<HostInstance>> /\ stores = HostStores /\ globals = HostGlobals
      /\ load = NoLoad
  BY DEF Init
<1>2. Len(instances) = 1 /\ instances[1] = HostInstance /\ 1..1 = {1}
  BY <1>1
<1>3. /\ HostInstance.file = f /\ HostInstance.state = "ready"
      /\ HostInstance.functions = [k \in DOMAIN f.functions |->
                                     [home |-> 1, type |-> f.functions[k].type]]
      /\ HostInstance.tables = [k \in DOMAIN f.tables |-> k]
      /\ HostInstance.memories = [k \in DOMAIN f.memories |-> m + k]
      /\ HostInstance.globals = [k \in DOMAIN f.globals |-> k]
  BY DEF HostInstance, NewInstance
<1>4. ASSUME NEW kind \in Kinds
      PROVE  /\ IsList(HostInstance[kind]) /\ Len(HostInstance[kind]) = Len(f[kind])
             /\ Len(f[kind]) \in Nat
  <2>1. Len(f[kind]) \in Nat /\ DOMAIN f[kind] = 1..Len(f[kind])
    BY HostSpace
  <2> DEFINE list == HostInstance[kind]
  <2>2. kind \in {"functions", "tables", "memories", "globals"}
    BY DEF Kinds
  <2>3. list = [k \in 1..Len(f[kind]) |-> list[k]]
    BY <1>3, <2>1, <2>2
  <2> HIDE DEF list
  <2>4. IsList(list) /\ Len(list) = Len(f[kind])
    BY <2>1, <2>3, FunctionIsList
  <2> QED BY <2>1, <2>4 DEF list
<1>5. ASSUME NEW kind \in Kinds, NEW k \in 1..Len(f[kind])
      PROVE  Serves(globals, stores, kind, HostInstance[kind][k], f[kind][k])
  <2>1. DOMAIN f[kind] = 1..Len(f[kind]) /\ Len(f[kind]) \in Nat
    BY HostSpace
  <2>2. m \in Nat /\ Len(f.memories) \in Nat
    BY HostSpace DEF Kinds
  <2>3. CASE kind = "functions"
    BY <2>3 DEF Serves
  <2>4. CASE kind = "globals"
    <3>1. HostInstance[kind][k] = k
      BY <1>3, <2>1, <2>4
    <3>2. k \in 1..Len(HostGlobals) /\ HostGlobals[k].type = f[kind][k].type
      BY <2>1, <2>4, InitGlobals
    <3> QED BY <1>1, <2>4, <3>1, <3>2 DEF Serves
  <2>5. CASE kind = "tables"
    <3>1. HostInstance[kind][k] = k
      BY <1>3, <2>1, <2>5
    <3>2. k \in 1..m /\ k \in 1..Len(HostStores)
      <4>1. k \in 1..m /\ Len(HostStores) = m + Len(f.memories)
        BY <2>5, InitStores
      <4> HIDE DEF m
      <4> QED BY <2>2, <4>1
    <3>3. Within(kind, HostStores[k], f[kind][k].limits) /\ HostStores[k].type # "byte"
      BY <2>5, <3>2, InitStores
    <3> QED BY <1>1, <2>5, <3>1, <3>2, <3>3 DEF Serves
  <2>6. CASE kind = "memories"
    <3>1. HostInstance[kind][k] = m + k
      BY <1>3, <2>1, <2>6
    <3>2. k \in 1..Len(f.memories) /\ m + k \in 1..Len(HostStores)
      <4>1. k \in 1..Len(f.memories) /\ Len(HostStores) = m + Len(f.memories)
        BY <2>6, InitStores
      <4> HIDE DEF m
      <4> QED BY <2>2, <4>1
    <3>3. /\ Within(kind, HostStores[m + k], f[kind][k].limits)
          /\ HostStores[m + k].type = "byte"
      BY <2>6, <3>2, InitStores
    <3> QED BY <1>1, <2>6, <3>1, <3>2, <3>3 DEF Serves
  <2> QED BY <2>3, <2>4, <2>5, <2>6 DEF Kinds
<1>6. ASSUME NEW kind \in Kinds
      PROVE  /\ ListServes(globals, stores, HostInstance, kind)
             /\ Len(HostInstance[kind]) = Len(Space(HostInstance.file, kind))
  <2>1. /\ Len(Space(f, kind)) = Len(f[kind])
        /\ \A k \in 1..Len(f[kind]) : Space(f, kind)[k] = f[kind][k]
    BY HostSpace
  <2>2. HostInstance.file = f /\ IsList(HostInstance[kind])
        /\ Len(HostInstance[kind]) = Len(f[kind]) /\ Len(f[kind]) \in Nat
    BY <1>3, <1>4
  <2>3. \A k \in 1..Len(f[kind]) :
          Serves(globals, stores, kind, HostInstance[kind][k], f[kind][k])
    BY <1>5
  <2> HIDE DEF f
  <2> QED BY <2>1, <2>2, <2>3 DEF ListServes
<1>7. ServeInv /\ CompleteInv
  BY <1>2, <1>3, <1>6 DEF ServeInv, CompleteInv, KnownFiles
<1>8. ProgressInv
  BY <1>1 DEF ProgressInv
<1>9. ObjectInv
  BY <1>1, InitStores, InitGlobals DEF ObjectInv, CellsNamed, GlobalNamed
<1> QED BY <1>7, <1>8, <1>9 DEF Rest

LEMMA LInvInit == Init => LInv
BY InitInv, InitRest DEF LInv, Rest

LEMMA LInvNext == LInv /\ [Next]_vars => LInv'
<1> SUFFICES ASSUME LInv, [Next]_vars PROVE LInv'
  OBVIOUS
<1>1. IInv'
  BY NextInv DEF LInv
<1> SUFFICES Rest'
  BY <1>1 DEF LInv, Rest
<1>2. ASSUME NEW f \in Files, NEW makeCurrent \in BOOLEAN, Begin(f, makeCurrent)
      PROVE  Rest'
  BY <1>2, BeginRest
<1>3. CASE LoadStep
  BY <1>3, ImportRest, MakeFunctionRest, MakeGlobalRest, MakeMemoryRest, MakeTableRest,
     PlaceElementRest, PlaceDataRest, StartRest, NextStageRest, FinishRest DEF LoadStep
<1>4. ASSUME NEW n \in Names, Register(n) PROVE Rest'
  BY <1>4, RegisterRest
<1>5. CASE RunCode
  BY <1>5, RunCodeRest
<1>6. CASE UNCHANGED vars
  <2>1. UNCHANGED <<instances, stores, globals, load>> /\ ListsSame
    BY <1>6 DEF vars, ListsSame
  <2> QED BY <2>1, SameFunctions, ObjectsSame, ObjectsRest
<1> QED BY <1>2, <1>3, <1>4, <1>5, <1>6 DEF Next

LEMMA LInvAlways == Spec => []LInv
BY LInvInit, LInvNext, PTL DEF Spec

-----------------------------------------------------------------------------
\* The instances, stores and names always refer to what there is, and no store is
\* larger than its limit (Module.h, Memory.h, Table.h).
THEOREM TypesAlwaysOK == Spec => []TypeOK
<1>1. LInv => TypeOK
  <2> SUFFICES ASSUME LInv PROVE TypeOK
    OBVIOUS
  <2>1. /\ registered \in [Names -> 0..Len(instances)] /\ current \in 0..Len(instances)
    BY DEF LInv, IInv, NamesKnown
  <2>2. load.id \in 0..Len(instances)
    <3>1. CASE load = NoLoad
      BY <3>1, Counted DEF NoLoad
    <3>2. CASE load # NoLoad
      BY <3>2, LoadingFacts
    <3> QED BY <3>1, <3>2
  <2>3. DOMAIN instances = 1..Len(instances)
    BY LenProperties DEF LInv, IInv, InstancesAreRecords
  <2>4. \A x \in DOMAIN instances : instances[x].state \in {"loading", "ready", "failed"}
    BY <2>3 DEF LInv, ServeInv
  <2>5. \A x \in DOMAIN instances, kind \in {"tables", "memories"} :
          ToSet(instances[x][kind]) \subseteq DOMAIN stores
    BY <2>3, StoreOfInstance, Counted
  <2>6. ASSUME NEW x \in DOMAIN instances, NEW g \in ToSet(instances[x].globals)
        PROVE  g \in DOMAIN globals
    <3>1. "globals" \in Kinds
      BY DEF Kinds
    <3>2. PICK k \in 1..Len(instances[x].globals) : g = instances[x].globals[k]
      BY <2>3, <3>1, Counted DEF ToSet
    <3>3. Serves(globals, stores, "globals", g, Space(instances[x].file, "globals")[k])
      BY <2>3, <3>1, <3>2 DEF LInv, ServeInv, ListServes
    <3> QED BY <3>3, Counted DEF Serves
  <2>7. \A s \in DOMAIN stores : Len(stores[s].cells) <= MaxOf(stores[s])
    BY ObjectFacts, Counted DEF IsStore
  <2> QED BY <2>1, <2>2, <2>4, <2>5, <2>6, <2>7 DEF TypeOK
<1> QED BY <1>1, LInvAlways, PTL

\* Loading a validated module never evaluates an expression that reads a global
\* there is not or has another type than its use, nor names a table or memory
\* there is not (Validator.cpp:40, VM.cpp:124).
THEOREM ValidatedModulesAlwaysLoad == Spec => []ValidatedModulesLoad
<1>1. LInv => ValidatedModulesLoad
  <2>1. ASSUME LInv, load = NoLoad PROVE load.stage # "fault"
    BY <2>1 DEF NoLoad
  <2>2. ASSUME LInv, load # NoLoad PROVE load.stage # "fault"
    BY <2>2, LoadingFacts DEF LoadStages
  <2> QED BY <2>1, <2>2 DEF ValidatedModulesLoad
<1> QED BY <1>1, LInvAlways, PTL

\* What an instance has imported stays within the limits it declared, whoever
\* grows it, except that the growth of a memory of 64-bit addresses may wrap and
\* leave less than the min (Limits::fits_within, Memory::grow, Table::grow).
THEOREM ImportedLimitsAlwaysHold == Spec => []ImportedLimitsHold
<1>1. LInv => ImportedLimitsHold
  <2> SUFFICES ASSUME LInv, NEW x \in DOMAIN instances, NEW kind \in {"tables", "memories"},
                      NEW k \in DOMAIN ImportsOf(instances[x].file, kind)
                                  \cap DOMAIN instances[x][kind]
               PROVE  LET declared == ImportsOf(instances[x].file, kind)
                          size == Len(stores[instances[x][kind][k]].cells)
                      IN  /\ \/ size >= declared[k].limits.min
                             \/ MayShrink(kind, declared[k].limits)
                          /\ declared[k].limits.max # NoMax => size <= declared[k].limits.max
    BY DEF ImportedLimitsHold
  <2> DEFINE f == instances[x].file
             item == Space(f, kind)[k]
             s == stores[instances[x][kind][k]]
  <2>1. x \in 1..Len(instances) /\ kind \in Kinds
    BY LenProperties DEF LInv, IInv, InstancesAreRecords, Kinds
  <2>2. f \in KnownFiles /\ ListServes(globals, stores, instances[x], kind)
    BY <2>1 DEF LInv, ServeInv
  <2>3. IsList(f.imports) /\ IsList(f[kind])
    BY <2>1, <2>2, FilesKnown, StageKinds
  <2>4. k \in 1..Len(ImportsOf(f, kind)) /\ k \in 1..Len(instances[x][kind])
    <3>1. DOMAIN ImportsOf(f, kind) = 1..Len(ImportsOf(f, kind))
      BY <2>3, ImportsOfFile, ListFacts
    <3>2. DOMAIN instances[x][kind] = 1..Len(instances[x][kind])
      BY <2>1, Counted
    <3> QED BY <3>1, <3>2
  <2>5. item = ImportsOf(f, kind)[k]
    <3>1. k \in 1..Len(ImportsOf(f, kind))
      BY <2>4
    <3> HIDE DEF f
    <3>2. Space(f, kind)[k] = ImportsOf(f, kind)[k]
      BY <2>3, <3>1, ImportInSpace
    <3> QED BY <3>2
  <2>6. Serves(globals, stores, kind, instances[x][kind][k], item)
    BY <2>2, <2>4 DEF ListServes
  <2>7. instances[x][kind][k] \in 1..Len(stores) /\ Within(kind, s, item.limits)
    BY <2>6 DEF Serves
  <2>8. IsStore(s) /\ Len(s.cells) \in Nat
    BY <2>7, ObjectFacts, Counted
  <2> DEFINE limits == ImportsOf(f, kind)[k].limits
  <2>9. Within(kind, s, limits)
    BY <2>5, <2>7
  <2> HIDE DEF s, limits
  <2>10. /\ Len(s.cells) >= limits.min \/ MayShrink(kind, limits)
         /\ limits.max # NoMax => Len(s.cells) <= limits.max
    BY <2>8, <2>9, InstancesAssumption DEF Within, IsLimits, IsStore, MaxOf
  <2> QED BY <2>10 DEF s, limits
<1> QED BY <1>1, LInvAlways, PTL

\* A reference names a function of the module it was made in, wherever it was
\* stored and whatever failed meanwhile, unless a tail call from one module into
\* another came before it was made (Value.h, VM::run_bare_code, VM.cpp:436).
THEOREM ReferencesAlwaysNameFunctions == Spec => []ReferencesNameFunctions
<1>1. LInv => ReferencesNameFunctions
  <2> SUFFICES ASSUME LInv PROVE ReferencesNameFunctions
    OBVIOUS
  <2>1. ASSUME NEW s \in DOMAIN stores, stores[s].type # "byte",
               NEW k \in DOMAIN stores[s].cells
        PROVE  Named(instances, stores[s].cells[k])
    <3>1. s \in 1..Len(stores) /\ k \in 1..Len(stores[s].cells)
      BY Counted
    <3> QED BY <2>1, <3>1, ObjectFacts DEF CellsNamed
  <2>2. ASSUME NEW g \in DOMAIN globals
        PROVE  Named(instances, globals[g].value)
    BY Counted, ObjectFacts DEF GlobalNamed
  <2> QED BY <2>1, <2>2 DEF ReferencesNameFunctions, Named
<1> QED BY <1>1, LInvAlways, PTL
=============================================================================
