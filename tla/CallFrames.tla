------------------------------ MODULE CallFrames ------------------------------
(***************************************************************************)
(* VM::run_function and the calls it makes.  Each call of a WASM function  *)
(* is one C++ activation of run_function; it saves the global m_frame on   *)
(* the global m_frame_stack, makes a frame of its own, and a deferred      *)
(* clean-up restores the saved one however the activation ends: a return,  *)
(* or a trap that unwinds every activation to the host.                    *)
(*                                                                         *)
(* What an activation does between calls only matters here through its     *)
(* frame's operands: each call leaves one entry there, its results.        *)
(***************************************************************************)
EXTENDS Integers, Sequences, SequencesExt

CONSTANTS
  Modules,         \* module instances
  Functions,       \* RealFunctions
  Natives,         \* functions of the host (WASI, spectest)
  Home,            \* RealFunction::parent
  FunctionTypes,   \* function types
  Type,            \* Function::type
  ParamCount,      \* the number of parameters of a type
  FunctionIndices,
  FunctionTable,   \* RealModule::m_functions, imports included
  TypeIndices,
  TypeTable,       \* WasmFile::functionTypes of each module
  MaxFrames,       \* MAX_FRAME_STACK_SIZE
  MaxArgs,         \* bound: arguments the host passes
  MaxOperands,     \* bound: calls an activation completes
  None             \* nullptr

Callable == Functions \cup Natives

ASSUME CallFramesAssumption ==
  /\ Functions \cap Natives = {}
  /\ Home \in [Functions -> Modules]
  /\ Type \in [Callable -> FunctionTypes]
  /\ ParamCount \in [FunctionTypes -> Nat]
  /\ FunctionTable \in [Modules -> [FunctionIndices -> Callable]]
  /\ TypeTable \in [Modules -> [TypeIndices -> FunctionTypes]]
  /\ MaxFrames \in Nat \ {0}
  /\ MaxArgs \in Nat /\ MaxOperands \in Nat
  /\ None \notin [mod : Modules, operands : Nat]

VARIABLES
  frame,        \* m_frame
  frameStack,   \* m_frame_stack
  activations,  \* the activations of run_function, the innermost last
  status        \* "host", "running", or "unwinding" while a Trap is thrown

vars == <<frame, frameStack, activations, status>>

\* VM::Frame: the module, and an entry per call whose results were pushed.
Frames == [mod : Modules, operands : Nat]

\* The locals of run_function: function and mod.  Histories: completed counts
\* the calls made since the function was entered; calledAs is the type its
\* caller was validated to call; crossed tells that a tail call from another
\* module took place in this activation.
Activations == [function : Functions, mod : Modules, completed : Nat,
                calledAs : FunctionTypes, crossed : BOOLEAN]

Init ==
  /\ frame = None
  /\ frameStack = <<>>
  /\ activations = <<>>
  /\ status = "host"

-----------------------------------------------------------------------------
Current == Last(activations)

\* The module whose types and functions the running code was validated with.
CodeModule == Home[Current.function]

\* Mutant: the bound is checked as if the new frame were already there.
EnterOneTooMany(f, args, calledAs) ==
  IF Len(frameStack) > MaxFrames
  THEN /\ status' = "unwinding"
       /\ UNCHANGED <<frame, frameStack, activations>>
  ELSE /\ frameStack' = Append(frameStack, frame)
       /\ frame' = [mod |-> Home[f], operands |-> 0]
       /\ activations' = Append(activations,
                           [function |-> f, mod |-> Home[f], completed |-> 0,
                            calledAs |-> calledAs, crossed |-> FALSE])
       /\ status' = IF args = ParamCount[Type[f]] THEN "running" ELSE "unwinding"

\* Mutant: the clean-up is deferred, then the arguments are checked, and only
\* then the frame is saved.
EnterCheckingFirst(f, args, calledAs) ==
  /\ activations' = Append(activations,
                      [function |-> f, mod |-> Home[f], completed |-> 0,
                       calledAs |-> calledAs, crossed |-> FALSE])
  /\ IF Len(frameStack) < MaxFrames /\ args = ParamCount[Type[f]]
     THEN /\ frameStack' = Append(frameStack, frame)
          /\ frame' = [mod |-> Home[f], operands |-> 0]
          /\ status' = "running"
     ELSE /\ status' = "unwinding"
          /\ UNCHANGED <<frame, frameStack>>

\* run_function from its first line to its loop.  The check of the depth comes
\* before the frame exists, the check of the arguments after.
Enter(f, args, calledAs) ==
  IF Len(frameStack) >= MaxFrames
  THEN /\ status' = "unwinding"
       /\ UNCHANGED <<frame, frameStack, activations>>
  ELSE /\ frameStack' = Append(frameStack, frame)
       /\ frame' = [mod |-> Home[f], operands |-> 0]
       /\ activations' = Append(activations,
                           [function |-> f, mod |-> Home[f], completed |-> 0,
                            calledAs |-> calledAs, crossed |-> FALSE])
       /\ status' = IF args = ParamCount[Type[f]] THEN "running" ELSE "unwinding"

\* The deferred clean-up, and the end of the activation.
CleanUp ==
  /\ frame' = Last(frameStack)
  /\ frameStack' = Front(frameStack)
  /\ activations' = Front(activations)

\* The caller pushes the results on what is m_frame by then.
CallCompleted(a) == [a EXCEPT !.completed = @ + 1]

Completed(as) == [as EXCEPT ![Len(as)] = CallCompleted(@)]

\* Mutant: the results are taken from the frame.
ResultsPopped(f) == [f EXCEPT !.operands = @ - 1]

ResultsPushed(f) == [f EXCEPT !.operands = @ + 1]

\* The host invokes an exported function with any arguments, or the start
\* function of a module.
HostInvoke(f, args) ==
  /\ status = "host"
  /\ Enter(f, args, Type[f])

\* call_function of a native, which runs in the frame of its caller.
CallNative ==
  /\ frame' = ResultsPushed(frame)
  /\ activations' = Completed(activations)
  /\ UNCHANGED <<frameStack, status>>

CallFunction(f, calledAs) ==
  /\ frame.operands < MaxOperands
  /\ \/ f \in Natives /\ CallNative
     \/ f \in Functions /\ Enter(f, ParamCount[Type[f]], calledAs)

\* The function index is looked up in mod.
Call(i) ==
  /\ status = "running"
  /\ CallFunction(FunctionTable[Current.mod][i], Type[FunctionTable[CodeModule][i]])

\* Mutant: the type is not compared.
IndirectTypeUnchecked(t, m, i) == TRUE

\* The reference in the table is to function i of module m.  Its type is
\* compared with the type the index t has in m.
IndirectTypeValid(t, m, i) == Type[FunctionTable[m][i]] = TypeTable[m][t]

CallIndirect(t, m, i) ==
  /\ status = "running"
  /\ IndirectTypeValid(t, m, i)
  /\ CallFunction(FunctionTable[m][i], TypeTable[CodeModule][t])

\* perform_tail_call: the frame is emptied and given to the new function; mod
\* remains what it was.
Replaced(f, calledAs) ==
  [function |-> f, mod |-> Current.mod, completed |-> 0, calledAs |-> calledAs,
   crossed |-> Current.crossed \/ Home[f] # CodeModule]

\* Mutant: the frame keeps its module.
TailCallInModule(f, calledAs) ==
  /\ frame' = [frame EXCEPT !.operands = 0]
  /\ activations' = [activations EXCEPT ![Len(activations)] = Replaced(f, calledAs)]
  /\ UNCHANGED <<frameStack, status>>

TailCallReal(f, calledAs) ==
  /\ frame' = [mod |-> Home[f], operands |-> 0]
  /\ activations' = [activations EXCEPT ![Len(activations)] = Replaced(f, calledAs)]
  /\ UNCHANGED <<frameStack, status>>

\* Mutant: the results are pushed before the caller's frame is back.
LeaveTooLate ==
  IF Len(activations) = 1
  THEN CleanUp /\ status' = "host"
  ELSE /\ frame' = Last(frameStack)
       /\ frameStack' = Front(frameStack)
       /\ activations' = Completed(Front(activations))
       /\ UNCHANGED status

\* The end of run_function without a Trap: clean up and go on in the caller.
Leave ==
  IF Len(activations) = 1
  THEN CleanUp /\ status' = "host"
  ELSE /\ frame' = ResultsPushed(Last(frameStack))
       /\ frameStack' = Front(frameStack)
       /\ activations' = Completed(Front(activations))
       /\ UNCHANGED status

\* A tail call of a native returns what the native returns.
TailCall(f, calledAs) ==
  \/ f \in Natives /\ Leave
  \/ f \in Functions /\ TailCallReal(f, calledAs)

ReturnCall(i) ==
  /\ status = "running"
  /\ TailCall(FunctionTable[Current.mod][i], Type[FunctionTable[CodeModule][i]])

ReturnCallIndirect(t, m, i) ==
  /\ status = "running"
  /\ IndirectTypeValid(t, m, i)
  /\ TailCall(FunctionTable[m][i], TypeTable[CodeModule][t])

Return ==
  /\ status = "running"
  /\ Leave

\* Any instruction may throw a Trap, a failed indirect call among them.
RaiseTrap ==
  /\ status = "running"
  /\ status' = "unwinding"
  /\ UNCHANGED <<frame, frameStack, activations>>

\* Mutants: the trap goes straight to the host, or no further than the caller.
UnwindToHost ==
  /\ status = "unwinding"
  /\ status' = "host"
  /\ UNCHANGED <<frame, frameStack, activations>>

UnwindToCaller ==
  /\ status = "unwinding"
  /\ \/ /\ activations # <<>>
        /\ CleanUp
        /\ status' = IF Len(activations) = 1 THEN "host" ELSE "running"
     \/ /\ activations = <<>>
        /\ status' = "host"
        /\ UNCHANGED <<frame, frameStack, activations>>

\* The Trap leaves the innermost activation, or reaches the host.
Unwind ==
  /\ status = "unwinding"
  /\ \/ /\ activations # <<>>
        /\ CleanUp
        /\ UNCHANGED status
     \/ /\ activations = <<>>
        /\ status' = "host"
        /\ UNCHANGED <<frame, frameStack, activations>>

Next ==
  \/ \E f \in Functions, args \in 0..MaxArgs : HostInvoke(f, args)
  \/ \E i \in FunctionIndices : Call(i) \/ ReturnCall(i)
  \/ \E t \in TypeIndices, m \in Modules, i \in FunctionIndices :
       CallIndirect(t, m, i) \/ ReturnCallIndirect(t, m, i)
  \/ Return
  \/ RaiseTrap
  \/ Unwind

Spec == Init /\ [][Next]_vars

\* A thrown exception is propagated without waiting for anything.
FairSpec == Spec /\ WF_vars(Unwind)

-----------------------------------------------------------------------------
(* Properties.                                                             *)

TypeOK ==
  /\ frame \in Frames \cup {None}
  /\ frameStack \in Seq(Frames \cup {None})
  /\ activations \in Seq(Activations)
  /\ status \in {"host", "running", "unwinding"}

\* The frame of the k-th activation, wherever it is kept.
FrameOf(k) == IF k = Len(frameStack) THEN frame ELSE frameStack[k + 1]

\* The global frame and the saved ones are those of the activations, one each
\* and in their order, however calls, tail calls, returns and traps mix; the
\* bottom of the stack is the null pointer the host left.
OneFramePerActivation ==
  /\ Len(frameStack) = Len(activations)
  /\ frameStack # <<>> => frameStack[1] = None
  /\ frameStack = <<>> => frame = None
  /\ \A k \in DOMAIN activations : FrameOf(k) \in Frames

\* The results of every call were pushed on the frame of the activation that
\* made the call, and every frame is in the module of its function.
FramesBelongToActivations ==
  \A k \in DOMAIN activations :
    /\ FrameOf(k).mod = Home[activations[k].function]
    /\ FrameOf(k).operands = activations[k].completed

\* No more than MAX_FRAME_STACK_SIZE activations are nested.
DepthBounded == Len(activations) <= MaxFrames

\* Between invocations there is no frame left, in particular after a trap.
HostHasNoFrame ==
  status = "host" => frame = None /\ frameStack = <<>> /\ activations = <<>>

\* A function is entered with the type its caller was validated to call, as
\* long as no tail call has gone from one module to another: after that mod is
\* not the module of the code any more.
CalleesTypedUnlessCrossed ==
  \A k \in DOMAIN activations :
    \/ activations[k].calledAs = Type[activations[k].function]
    \/ \E j \in 1..k : activations[j].crossed

\* The same with no exception.
CalleesTyped ==
  \A k \in DOMAIN activations :
    activations[k].calledAs = Type[activations[k].function]

\* The frames, the saved ones and the global one, are a call stack.
FramesInOrder == [k \in 1..Len(frameStack) |-> FrameOf(k)]

Abstract == INSTANCE CallStack WITH MaxDepth <- MaxFrames, calls <- FramesInOrder

CallStackSpec == Abstract!Spec

\* A trap always comes out at the host.
TrapsReachHost == status = "unwinding" ~> status = "host"
=============================================================================
