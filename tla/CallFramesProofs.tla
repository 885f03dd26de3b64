--------------------------- MODULE CallFramesProofs ---------------------------
(***************************************************************************)
(* Proofs about CallFrames for any modules, functions, tables and bounds:  *)
(* the global frame and the saved ones are those of the activations of     *)
(* run_function, the depth is bounded, nothing is left over at the host,   *)
(* and together they implement a call stack.                               *)
(***************************************************************************)
EXTENDS CallFrames, SequenceTheorems, TLAPS

\* Code runs in an activation, and none is left when the host has control.
StatusInv ==
  /\ status = "running" => activations # <<>>
  /\ status = "host" => activations = <<>>

\* The inductive invariant.  OneFramePerActivation and StatusInv are what make
\* Last(frameStack) and Last(activations) exist when a step uses them.
IInv ==
  /\ TypeOK
  /\ OneFramePerActivation
  /\ FramesBelongToActivations
  /\ DepthBounded
  /\ StatusInv

-----------------------------------------------------------------------------
(* Sequences.                                                              *)

\* The last element of a sequence and what is before it.
LEMMA FrontAndLast ==
  ASSUME NEW S, NEW s \in Seq(S), s # <<>>
  PROVE  /\ Len(s) \in Nat \ {0}
         /\ Last(s) = s[Len(s)]
         /\ Last(s) \in S
         /\ Front(s) \in Seq(S)
         /\ Len(Front(s)) = Len(s) - 1
         /\ \A k \in 1..(Len(s) - 1) : Front(s)[k] = s[k]
<1>1. Len(s) \in Nat \ {0} /\ s[Len(s)] \in S
  BY EmptySeq, LenProperties, ElementOfSeq
<1>2. /\ Front(s) \in Seq(S)
      /\ Len(Front(s)) = Len(s) - 1
      /\ \A k \in 1..(Len(s) - 1) : Front(s)[k] = s[k]
  BY <1>1, SubSeqProperties DEF Front
<1> QED
  BY <1>1, <1>2 DEF Last

\* The empty sequence.
LEMMA LenEmpty == Len(<<>>) = 0
  BY EmptySeq

\* An element added at the end.
LEMMA Appended ==
  ASSUME NEW S, NEW s \in Seq(S), NEW e \in S
  PROVE  /\ Append(s, e) \in Seq(S)
         /\ Append(s, e) # <<>>
         /\ Len(Append(s, e)) = Len(s) + 1
         /\ Append(s, e)[Len(s) + 1] = e
         /\ \A k \in 1..Len(s) : Append(s, e)[k] = s[k]
  BY AppendProperties, LenProperties

\* The last element replaced.
WithLast(s, e) == [s EXCEPT ![Len(s)] = e]

LEMMA LastReplaced ==
  ASSUME NEW S, NEW s \in Seq(S), s # <<>>, NEW e \in S
  PROVE  /\ WithLast(s, e) \in Seq(S)
         /\ Len(s) = Len(WithLast(s, e))
         /\ WithLast(s, e) # <<>>
<1>1. Len(s) \in Nat \ {0} /\ Len(s) \in 1..Len(s)
  BY EmptySeq, LenProperties
<1> QED
  BY <1>1, ExceptSeq, EmptySeq DEF WithLast

LEMMA LastReplacedElements ==
  ASSUME NEW S, NEW s \in Seq(S), s # <<>>, NEW e \in S
  PROVE  \A k \in 1..Len(s) :
           WithLast(s, e)[k] = IF k = Len(s) THEN e ELSE s[k]
<1>1. Len(s) \in Nat \ {0} /\ Len(s) \in 1..Len(s)
  BY EmptySeq, LenProperties
<1> QED
  BY <1>1, ExceptSeq, EmptySeq DEF WithLast

-----------------------------------------------------------------------------
(* Where the frame of an activation is kept, before and after a step.      *)

\* A new global frame, the old one saved: run_function is entered.
LEMMA FramesAfterSave ==
  ASSUME TypeOK, TypeOK', frameStack' = Append(frameStack, frame)
  PROVE  /\ Len(frameStack') = Len(frameStack) + 1
         /\ \A k : k = Len(frameStack) + 1 => FrameOf(k)' = frame'
         /\ \A k \in 1..Len(frameStack) : FrameOf(k)' = FrameOf(k)
         /\ frameStack # <<>> => frameStack'[1] = frameStack[1]
         /\ frameStack = <<>> => frameStack'[1] = frame
<1>1. /\ Len(frameStack') = Len(frameStack) + 1
      /\ frameStack'[Len(frameStack) + 1] = frame
      /\ \A k \in 1..Len(frameStack) : frameStack'[k] = frameStack[k]
      /\ Len(frameStack) \in Nat
  BY Appended, LenProperties DEF TypeOK
<1>2. ASSUME NEW k, k = Len(frameStack) + 1 PROVE FrameOf(k)' = frame'
  BY <1>1, <1>2 DEF FrameOf
<1>3. ASSUME NEW k \in 1..Len(frameStack) PROVE FrameOf(k)' = FrameOf(k)
  <2>1. CASE k = Len(frameStack)
    BY <1>1, <2>1 DEF FrameOf
  <2>2. CASE k # Len(frameStack)
    <3>1. k + 1 \in 1..Len(frameStack) /\ k # Len(frameStack')
      BY <1>1, <2>2
    <3> QED
      BY <1>1, <2>2, <3>1 DEF FrameOf
  <2> QED
    BY <2>1, <2>2
<1>4. frameStack # <<>> => frameStack'[1] = frameStack[1]
  <2>1. frameStack # <<>> => Len(frameStack) \in Nat \ {0}
    BY EmptySeq DEF TypeOK
  <2> QED
    BY <1>1, <2>1
<1>5. frameStack = <<>> => frameStack'[1] = frame
  <2>1. frameStack = <<>> => Len(frameStack) = 0
    BY EmptySeq
  <2> QED
    BY <1>1, <2>1
<1> QED
  BY <1>1, <1>2, <1>3, <1>4, <1>5

\* The saved frame restored: an activation ends.  The frames below the one
\* that ended are the same, but for the changes made to the restored one.
LEMMA FramesAfterRestore ==
  ASSUME TypeOK, TypeOK', frameStack # <<>>, frameStack' = Front(frameStack)
  PROVE  /\ Len(frameStack) \in Nat \ {0}
         /\ Len(frameStack') = Len(frameStack) - 1
         /\ Last(frameStack) = frameStack[Len(frameStack)]
         /\ \A k \in 1..(Len(frameStack) - 2) : FrameOf(k)' = FrameOf(k)
         /\ \A k \in 1..(Len(frameStack) - 1) :
              k = Len(frameStack) - 1 =>
                FrameOf(k) = Last(frameStack) /\ FrameOf(k)' = frame'
         /\ frameStack' # <<>> => frameStack'[1] = frameStack[1]
<1>1. /\ Len(frameStack) \in Nat \ {0}
      /\ Len(frameStack') = Len(frameStack) - 1
      /\ Last(frameStack) = frameStack[Len(frameStack)]
      /\ \A k \in 1..(Len(frameStack) - 1) : frameStack'[k] = frameStack[k]
  BY FrontAndLast DEF TypeOK
<1>2. ASSUME NEW k \in 1..(Len(frameStack) - 2) PROVE FrameOf(k)' = FrameOf(k)
  <2>1. /\ k + 1 \in 1..(Len(frameStack) - 1)
        /\ k # Len(frameStack) /\ k # Len(frameStack')
    BY <1>1
  <2> QED
    BY <1>1, <2>1 DEF FrameOf
<1>3. ASSUME NEW k \in 1..(Len(frameStack) - 1), k = Len(frameStack) - 1
      PROVE  FrameOf(k) = Last(frameStack) /\ FrameOf(k)' = frame'
  BY <1>1, <1>3 DEF FrameOf
<1>4. frameStack' # <<>> => frameStack'[1] = frameStack[1]
  <2>1. frameStack' # <<>> => Len(frameStack') \in Nat \ {0}
    BY EmptySeq DEF TypeOK
  <2> QED
    BY <1>1, <2>1
<1> QED
  BY <1>1, <1>2, <1>3, <1>4

\* The global frame changed and none saved or restored.
LEMMA FramesAfterChange ==
  ASSUME TypeOK, UNCHANGED frameStack
  PROVE  /\ \A k : k = Len(frameStack) => FrameOf(k)' = frame'
         /\ \A k \in 1..(Len(frameStack) - 1) : FrameOf(k)' = FrameOf(k)
  BY LenProperties DEF FrameOf, TypeOK

-----------------------------------------------------------------------------
(* The invariant.                                                          *)

LEMMA InitInv == Init => IInv
<1> SUFFICES ASSUME Init PROVE IInv
  OBVIOUS
<1>1. /\ frame = None /\ frameStack = <<>> /\ activations = <<>>
      /\ status = "host"
      /\ Len(frameStack) = 0 /\ Len(activations) = 0
      /\ DOMAIN activations = {}
  BY EmptySeq, LenProperties DEF Init
<1>2. TypeOK
  BY <1>1, EmptySeq DEF TypeOK
<1>3. DepthBounded
  BY <1>1, CallFramesAssumption DEF DepthBounded
<1> QED
  BY <1>1, <1>2, <1>3
     DEF IInv, OneFramePerActivation, FramesBelongToActivations, StatusInv

\* What the invariant says of the innermost activation.
LEMMA InnermostExists ==
  ASSUME IInv, activations # <<>>
  PROVE  /\ Len(activations) \in Nat \ {0}
         /\ Len(frameStack) = Len(activations)
         /\ Len(activations) \in DOMAIN activations
         /\ DOMAIN activations = 1..Len(activations)
         /\ frameStack # <<>>
         /\ Current = activations[Len(activations)]
         /\ Current \in Activations
         /\ frame \in Frames
         /\ frame.mod = Home[Current.function]
         /\ frame.operands = Current.completed
<1>1. /\ Len(activations) \in Nat \ {0}
      /\ Current = activations[Len(activations)]
      /\ Current \in Activations
      /\ DOMAIN activations = 1..Len(activations)
  BY FrontAndLast, LenProperties DEF IInv, TypeOK, Current
<1>2. Len(frameStack) = Len(activations) /\ frameStack # <<>>
  BY <1>1, EmptySeq DEF IInv, OneFramePerActivation
<1>3. Len(activations) \in DOMAIN activations
  BY <1>1
<1>4. FrameOf(Len(activations)) = frame
  BY <1>2 DEF FrameOf
<1>5. /\ frame \in Frames
      /\ frame.mod = Home[Current.function]
      /\ frame.operands = Current.completed
  BY <1>1, <1>3, <1>4 DEF IInv, OneFramePerActivation, FramesBelongToActivations
<1> QED
  BY <1>1, <1>2, <1>3, <1>5

\* Entering run_function.
LEMMA EnterPreserves ==
  ASSUME IInv, NEW f \in Functions, NEW args, NEW calledAs \in FunctionTypes,
         Enter(f, args, calledAs)
  PROVE  IInv'
<1>1. CASE Len(frameStack) >= MaxFrames
  <2>1. /\ UNCHANGED <<frame, frameStack, activations>>
        /\ status' = "unwinding"
    BY <1>1 DEF Enter
  <2> QED
    BY <2>1 DEF IInv, TypeOK, OneFramePerActivation, FramesBelongToActivations,
                DepthBounded, StatusInv, FrameOf
<1>2. CASE ~(Len(frameStack) >= MaxFrames)
  <2> DEFINE a == [function |-> f, mod |-> Home[f], completed |-> 0,
                   calledAs |-> calledAs, crossed |-> FALSE]
  <2>1. /\ frameStack' = Append(frameStack, frame)
        /\ frame' = [mod |-> Home[f], operands |-> 0]
        /\ activations' = Append(activations, a)
        /\ status' \in {"running", "unwinding"}
    BY <1>2 DEF Enter
  <2>2. /\ Home[f] \in Modules
        /\ frame' \in Frames
        /\ a \in Activations
    BY <2>1, CallFramesAssumption DEF Frames, Activations
  <2>3. /\ activations' \in Seq(Activations)
        /\ activations' # <<>>
        /\ Len(activations') = Len(activations) + 1
        /\ activations'[Len(activations) + 1] = a
        /\ \A k \in 1..Len(activations) : activations'[k] = activations[k]
    BY <2>1, <2>2, Appended DEF IInv, TypeOK
  <2>4. TypeOK'
    BY <2>1, <2>2, <2>3, Appended DEF IInv, TypeOK
  <2>5. /\ Len(frameStack) = Len(activations)
        /\ Len(activations) \in Nat
        /\ DOMAIN activations = 1..Len(activations)
        /\ DOMAIN activations' = 1..(Len(activations) + 1)
    BY <2>3, LenProperties DEF IInv, TypeOK, OneFramePerActivation
  <2>6. /\ Len(frameStack') = Len(frameStack) + 1
        /\ \A k : k = Len(frameStack) + 1 => FrameOf(k)' = frame'
        /\ \A k \in 1..Len(frameStack) : FrameOf(k)' = FrameOf(k)
        /\ frameStack # <<>> => frameStack'[1] = frameStack[1]
        /\ frameStack = <<>> => frameStack'[1] = frame
    BY <2>1, <2>4, FramesAfterSave DEF IInv
  <2>7. ASSUME NEW k \in DOMAIN activations'
        PROVE  /\ FrameOf(k)' \in Frames
               /\ FrameOf(k)'.mod = Home[activations'[k].function]
               /\ FrameOf(k)'.operands = activations'[k].completed
    <3>1. CASE k = Len(activations) + 1
      <4>1. FrameOf(k)' = frame' /\ activations'[k] = a
        BY <3>1, <2>3, <2>5, <2>6
      <4> QED
        BY <4>1, <2>1, <2>2
    <3>2. CASE k # Len(activations) + 1
      <4>1. k \in DOMAIN activations
        BY <3>2, <2>5
      <4>2. FrameOf(k)' = FrameOf(k) /\ activations'[k] = activations[k]
        BY <4>1, <2>3, <2>5, <2>6
      <4> QED
        BY <4>1, <4>2 DEF IInv, OneFramePerActivation, FramesBelongToActivations
    <3> QED
      BY <3>1, <3>2
  <2>8. frameStack'[1] = None /\ frameStack' # <<>>
    <3>1. frameStack' # <<>>
      BY <2>5, <2>6, EmptySeq
    <3> QED
      BY <3>1, <2>6 DEF IInv, OneFramePerActivation
  <2>9. OneFramePerActivation'
    BY <2>3, <2>5, <2>6, <2>7, <2>8 DEF OneFramePerActivation
  <2>10. FramesBelongToActivations'
    BY <2>7 DEF FramesBelongToActivations
  <2>11. DepthBounded'
    BY <1>2, <2>3, <2>5, CallFramesAssumption DEF DepthBounded
  <2>12. StatusInv'
    BY <2>1, <2>3 DEF StatusInv
  <2> QED
    BY <2>4, <2>9, <2>10, <2>11, <2>12 DEF IInv
<1> QED
  BY <1>1, <1>2

\* The innermost activation and its frame changed together: a native called,
\* a tail call.
LEMMA ChangePreserves ==
  ASSUME IInv, activations # <<>>, UNCHANGED <<frameStack, status>>,
         NEW a \in Activations,
         activations' = WithLast(activations, a),
         frame' \in Frames,
         frame'.mod = Home[a.function],
         frame'.operands = a.completed
  PROVE  IInv'
<1>1. /\ activations' \in Seq(Activations)
      /\ Len(activations) = Len(activations')
      /\ activations' # <<>>
      /\ \A k \in 1..Len(activations) :
           activations'[k] = IF k = Len(activations) THEN a ELSE activations[k]
  <2>1. activations \in Seq(Activations)
    BY DEF IInv, TypeOK
  <2>2. \A k \in 1..Len(activations) :
          activations'[k] = IF k = Len(activations) THEN a ELSE activations[k]
    BY <2>1, LastReplacedElements
  <2>3. /\ activations' \in Seq(Activations)
        /\ Len(activations) = Len(activations')
        /\ activations' # <<>>
    BY <2>1, LastReplaced
  <2> QED
    BY <2>2, <2>3
<1>2. TypeOK'
  BY <1>1 DEF IInv, TypeOK
<1>3. /\ Len(frameStack) = Len(activations)
      /\ Len(activations) \in Nat \ {0}
      /\ frameStack # <<>>
      /\ DOMAIN activations = 1..Len(activations)
      /\ DOMAIN activations' = 1..Len(activations)
  BY <1>1, InnermostExists, LenProperties
<1>4. /\ \A k : k = Len(frameStack) => FrameOf(k)' = frame'
      /\ \A k \in 1..(Len(frameStack) - 1) : FrameOf(k)' = FrameOf(k)
  BY FramesAfterChange DEF IInv
<1>5. ASSUME NEW k \in DOMAIN activations'
      PROVE  /\ FrameOf(k)' \in Frames
             /\ FrameOf(k)'.mod = Home[activations'[k].function]
             /\ FrameOf(k)'.operands = activations'[k].completed
  <2>1. CASE k = Len(activations)
    BY <2>1, <1>1, <1>3, <1>4
  <2>2. CASE k # Len(activations)
    <3>1. k \in 1..(Len(activations) - 1) /\ k \in DOMAIN activations
      BY <2>2, <1>3
    <3>2. FrameOf(k)' = FrameOf(k)
      BY <3>1, <1>3, <1>4
    <3>3. activations'[k] = activations[k]
      BY <2>2, <1>1, <1>3
    <3> QED
      BY <3>1, <3>2, <3>3
         DEF IInv, OneFramePerActivation, FramesBelongToActivations
  <2> QED
    BY <2>1, <2>2
<1>6. OneFramePerActivation'
  BY <1>1, <1>3, <1>5 DEF IInv, OneFramePerActivation
<1>7. FramesBelongToActivations'
  BY <1>5 DEF FramesBelongToActivations
<1>8. DepthBounded' /\ StatusInv'
  BY <1>1 DEF IInv, DepthBounded, StatusInv
<1> QED
  BY <1>2, <1>6, <1>7, <1>8 DEF IInv

\* The innermost activation ended and the one below, if there is one, has the
\* frame that is now the global one.
LEMMA RestorePreserves ==
  ASSUME IInv, activations # <<>>,
         frameStack' = Front(frameStack),
         activations' \in Seq(Activations),
         Len(activations') = Len(activations) - 1,
         \A k \in 1..(Len(activations) - 2) : activations'[k] = activations[k],
         frame' \in Frames \cup {None},
         Len(activations) = 1 => frame' = None,
         \A k \in 1..(Len(activations) - 1) :
           k = Len(activations) - 1 =>
             /\ frame' \in Frames
             /\ frame'.mod = Home[activations'[k].function]
             /\ frame'.operands = activations'[k].completed,
         status' \in {"running", "host", "unwinding"},
         status' = "running" => Len(activations) > 1,
         status' = "host" => Len(activations) = 1
  PROVE  IInv'
<1>1. /\ Len(activations) \in Nat \ {0}
      /\ Len(frameStack) = Len(activations)
      /\ frameStack # <<>>
      /\ DOMAIN activations = 1..Len(activations)
      /\ DOMAIN activations' = 1..(Len(activations) - 1)
  BY InnermostExists, LenProperties
<1>2. TypeOK'
  BY <1>1, FrontAndLast DEF IInv, TypeOK
<1>3. /\ Len(frameStack') = Len(frameStack) - 1
      /\ \A k \in 1..(Len(frameStack) - 2) : FrameOf(k)' = FrameOf(k)
      /\ \A k \in 1..(Len(frameStack) - 1) :
           k = Len(frameStack) - 1 => FrameOf(k)' = frame'
      /\ frameStack' # <<>> => frameStack'[1] = frameStack[1]
  BY <1>1, <1>2, FramesAfterRestore DEF IInv
<1>4. ASSUME NEW k \in DOMAIN activations'
      PROVE  /\ FrameOf(k)' \in Frames
             /\ FrameOf(k)'.mod = Home[activations'[k].function]
             /\ FrameOf(k)'.operands = activations'[k].completed
  <2>1. CASE k = Len(activations) - 1
    BY <2>1, <1>1, <1>3
  <2>2. CASE k # Len(activations) - 1
    <3>1. k \in 1..(Len(activations) - 2) /\ k \in DOMAIN activations
      BY <2>2, <1>1
    <3>2. FrameOf(k)' = FrameOf(k) /\ activations'[k] = activations[k]
      BY <3>1, <1>1, <1>3
    <3> QED
      BY <3>1, <3>2 DEF IInv, OneFramePerActivation, FramesBelongToActivations
  <2> QED
    BY <2>1, <2>2
<1>5. frameStack' # <<>> => frameStack'[1] = None
  BY <1>1, <1>3 DEF IInv, OneFramePerActivation
<1>6. frameStack' = <<>> => frame' = None
  <2>1. frameStack' = <<>> => Len(frameStack') = 0
    BY LenEmpty
  <2> QED
    BY <2>1, <1>1, <1>3
<1>7. OneFramePerActivation'
  BY <1>1, <1>3, <1>4, <1>5, <1>6 DEF OneFramePerActivation
<1>8. FramesBelongToActivations'
  BY <1>4 DEF FramesBelongToActivations
<1>9. DepthBounded'
  BY <1>1, CallFramesAssumption DEF IInv, DepthBounded
<1>10. activations' = <<>> <=> Len(activations) = 1
  BY <1>1, EmptySeq
<1>11. StatusInv'
  BY <1>1, <1>10 DEF StatusInv
<1> QED
  BY <1>2, <1>7, <1>8, <1>9, <1>11 DEF IInv

\* The frame and the activation below the innermost ones.
LEMMA BelowInnermost ==
  ASSUME IInv, activations # <<>>
  PROVE  /\ Front(activations) \in Seq(Activations)
         /\ Len(Front(activations)) = Len(activations) - 1
         /\ \A k \in 1..(Len(activations) - 1) :
              Front(activations)[k] = activations[k]
         /\ Last(frameStack) \in Frames \cup {None}
         /\ Len(activations) = 1 => Last(frameStack) = None
         /\ \A k \in 1..(Len(activations) - 1) :
              k = Len(activations) - 1 =>
                /\ Last(frameStack) \in Frames
                /\ Last(frameStack).mod = Home[activations[k].function]
                /\ Last(frameStack).operands = activations[k].completed
<1>1. /\ Len(activations) \in Nat \ {0}
      /\ Len(frameStack) = Len(activations)
      /\ frameStack # <<>>
      /\ DOMAIN activations = 1..Len(activations)
      /\ Last(frameStack) = frameStack[Len(frameStack)]
  BY InnermostExists, FrontAndLast DEF IInv, TypeOK
<1>2. Last(frameStack) \in Frames \cup {None}
  BY <1>1, FrontAndLast DEF IInv, TypeOK
<1>3. Len(activations) = 1 => Last(frameStack) = None
  BY <1>1 DEF IInv, OneFramePerActivation
<1>4. ASSUME NEW k \in 1..(Len(activations) - 1), k = Len(activations) - 1
      PROVE  /\ Last(frameStack) \in Frames
             /\ Last(frameStack).mod = Home[activations[k].function]
             /\ Last(frameStack).operands = activations[k].completed
  <2>1. FrameOf(k) = Last(frameStack) /\ k \in DOMAIN activations
    BY <1>1, <1>4 DEF FrameOf
  <2> QED
    BY <2>1 DEF IInv, OneFramePerActivation, FramesBelongToActivations
<1> QED
  BY <1>2, <1>3, <1>4, FrontAndLast DEF IInv, TypeOK

\* The innermost activation ended, by a return to the host or a trap.
LEMMA CleanUpPreserves ==
  ASSUME IInv, activations # <<>>, CleanUp,
         status' \in {"host", "unwinding"},
         status' = "host" => Len(activations) = 1
  PROVE  IInv'
<1>1. /\ frame' = Last(frameStack)
      /\ frameStack' = Front(frameStack)
      /\ activations' = Front(activations)
  BY DEF CleanUp
<1>2. Len(activations) \in Nat \ {0}
  BY InnermostExists
<1> QED
  BY <1>1, <1>2, BelowInnermost, RestorePreserves

\* A call completed.
LEMMA CompletedType ==
  ASSUME NEW a \in Activations
  PROVE  /\ CallCompleted(a) \in Activations
         /\ CallCompleted(a).function = a.function
         /\ CallCompleted(a).completed = a.completed + 1
  BY DEF Activations, CallCompleted

\* A call completed in the innermost of some activations.
LEMMA CompletedLast ==
  ASSUME NEW as \in Seq(Activations), as # <<>>
  PROVE  /\ Completed(as) \in Seq(Activations)
         /\ Len(as) = Len(Completed(as))
         /\ Len(as) \in Nat \ {0}
         /\ \A k \in 1..Len(as) :
              Completed(as)[k] =
                IF k = Len(as) THEN CallCompleted(as[k]) ELSE as[k]
<1> DEFINE a == CallCompleted(as[Len(as)])
<1>1. as[Len(as)] \in Activations /\ Len(as) \in Nat \ {0}
  BY FrontAndLast
<1>2. a \in Activations
  BY <1>1, CompletedType
<1>3. Completed(as) = WithLast(as, a)
  BY DEF Completed, WithLast
<1>4. /\ WithLast(as, a) \in Seq(Activations)
      /\ Len(as) = Len(WithLast(as, a))
      /\ \A k \in 1..Len(as) :
           WithLast(as, a)[k] = IF k = Len(as) THEN a ELSE as[k]
  <2> HIDE DEF a
  <2>1. \A k \in 1..Len(as) :
          WithLast(as, a)[k] = IF k = Len(as) THEN a ELSE as[k]
    BY <1>2, LastReplacedElements
  <2>2. /\ WithLast(as, a) \in Seq(Activations)
        /\ Len(as) = Len(WithLast(as, a))
    BY <1>2, LastReplaced
  <2> QED
    BY <2>1, <2>2
<1> QED
  BY <1>1, <1>2, <1>3, <1>4

\* run_function ended without a trap.
LEMMA LeavePreserves ==
  ASSUME IInv, activations # <<>>, status = "running", Leave
  PROVE  IInv'
<1>1. CASE Len(activations) = 1
  BY <1>1, CleanUpPreserves DEF Leave
<1>2. CASE Len(activations) # 1
  <2> DEFINE below == Front(activations)
  <2>1. /\ frame' = ResultsPushed(Last(frameStack))
        /\ frameStack' = Front(frameStack)
        /\ activations' = Completed(below)
        /\ status' = "running"
    BY <1>2 DEF Leave
  <2>2. /\ Len(activations) \in Nat \ {0} /\ Len(activations) > 1
        /\ below \in Seq(Activations)
        /\ Len(below) = Len(activations) - 1
        /\ below # <<>>
        /\ \A k \in 1..(Len(activations) - 1) : below[k] = activations[k]
    BY <1>2, InnermostExists, BelowInnermost, EmptySeq
  <2>3. /\ activations' \in Seq(Activations)
        /\ Len(activations') = Len(activations) - 1
        /\ \A k \in 1..(Len(activations) - 2) : activations'[k] = activations[k]
    <3> HIDE DEF below
    <3>1. /\ Completed(below) \in Seq(Activations)
          /\ Len(Completed(below)) = Len(below)
          /\ \A k \in 1..(Len(below) - 1) : Completed(below)[k] = below[k]
      BY <2>2, CompletedLast
    <3> QED
      BY <2>1, <2>2, <3>1
  <2>4. ASSUME NEW k \in 1..(Len(activations) - 1), k = Len(activations) - 1
        PROVE  /\ frame' \in Frames
               /\ frame'.mod = Home[activations'[k].function]
               /\ frame'.operands = activations'[k].completed
    <3>1. /\ Last(frameStack) \in Frames
          /\ Last(frameStack).mod = Home[activations[k].function]
          /\ Last(frameStack).operands = activations[k].completed
      BY <2>4, BelowInnermost
    <3>2. /\ activations'[k] = CallCompleted(activations[k])
          /\ activations[k] \in Activations
      <4>1. /\ activations'[k] = CallCompleted(below[k])
            /\ below[k] \in Activations
        <5> HIDE DEF below
        <5> QED
          BY <2>1, <2>2, <2>4, CompletedLast, FrontAndLast
      <4> QED
        BY <2>2, <4>1
    <3> QED
      BY <2>1, <3>1, <3>2, CompletedType DEF ResultsPushed, Frames
  <2>5. frame' \in Frames \cup {None}
    BY <2>2, <2>4
  <2> QED
    BY <1>2, <2>1, <2>2, <2>3, <2>4, <2>5, RestorePreserves
<1> QED
  BY <1>1, <1>2

\* The call of a native.
LEMMA CallNativePreserves ==
  ASSUME IInv, activations # <<>>, CallNative
  PROVE  IInv'
<1> DEFINE a == CallCompleted(Current)
<1>1. /\ Current \in Activations
      /\ Current = activations[Len(activations)]
      /\ frame \in Frames
      /\ frame.mod = Home[Current.function]
      /\ frame.operands = Current.completed
  BY InnermostExists
<1>2. /\ a \in Activations
      /\ a.function = Current.function
      /\ a.completed = Current.completed + 1
  BY <1>1, CompletedType
<1>3. activations' = WithLast(activations, a)
  BY <1>1 DEF CallNative, Completed, WithLast
<1>4. /\ frame' \in Frames
      /\ frame'.mod = Home[a.function]
      /\ frame'.operands = a.completed
  BY <1>1, <1>2 DEF CallNative, ResultsPushed, Frames
<1>5. UNCHANGED <<frameStack, status>>
  BY DEF CallNative
<1> QED
  BY <1>2, <1>3, <1>4, <1>5, ChangePreserves

\* The tail call of a WASM function.
LEMMA TailCallRealPreserves ==
  ASSUME IInv, activations # <<>>, NEW f \in Functions,
         NEW calledAs \in FunctionTypes, TailCallReal(f, calledAs)
  PROVE  IInv'
<1> DEFINE a == Replaced(f, calledAs)
<1>1. /\ Current \in Activations
      /\ Current = activations[Len(activations)]
  BY InnermostExists
<1>2. /\ a \in Activations
      /\ a.function = f
      /\ a.completed = 0
  BY <1>1 DEF Activations, Replaced
<1>3. activations' = WithLast(activations, a)
  BY <1>1 DEF TailCallReal, WithLast
<1>4. /\ frame' \in Frames
      /\ frame'.mod = Home[a.function]
      /\ frame'.operands = a.completed
  BY <1>2, CallFramesAssumption DEF TailCallReal, Frames
<1>5. UNCHANGED <<frameStack, status>>
  BY DEF TailCallReal
<1> QED
  BY <1>2, <1>3, <1>4, <1>5, ChangePreserves

\* The functions and types a call reaches.
LEMMA CalleeType ==
  ASSUME IInv, activations # <<>>
  PROVE  /\ CodeModule \in Modules /\ Current.mod \in Modules
         /\ \A m \in Modules, i \in FunctionIndices :
              /\ FunctionTable[m][i] \in Callable
              /\ Type[FunctionTable[m][i]] \in FunctionTypes
         /\ \A m \in Modules, t \in TypeIndices : TypeTable[m][t] \in FunctionTypes
<1>1. Current \in Activations
  BY InnermostExists
<1> QED
  BY <1>1, CallFramesAssumption DEF CodeModule, Activations

LEMMA CallFunctionPreserves ==
  ASSUME IInv, activations # <<>>, NEW f, NEW calledAs \in FunctionTypes,
         CallFunction(f, calledAs)
  PROVE  IInv'
  BY CallNativePreserves, EnterPreserves DEF CallFunction

LEMMA TailCallPreserves ==
  ASSUME IInv, activations # <<>>, status = "running",
         NEW f, NEW calledAs \in FunctionTypes, TailCall(f, calledAs)
  PROVE  IInv'
  BY LeavePreserves, TailCallRealPreserves DEF TailCall

LEMMA NextPreserves == IInv /\ [Next]_vars => IInv'
<1> SUFFICES ASSUME IInv, [Next]_vars PROVE IInv'
  OBVIOUS
<1>1. status = "running" => activations # <<>>
  BY DEF IInv, StatusInv
<1>2. ASSUME NEW f \in Functions, NEW args \in 0..MaxArgs, HostInvoke(f, args)
      PROVE  IInv'
  <2>1. Type[f] \in FunctionTypes
    BY CallFramesAssumption DEF Callable
  <2> QED
    BY <1>2, <2>1, EnterPreserves DEF HostInvoke
<1>3. ASSUME NEW i \in FunctionIndices, Call(i) PROVE IInv'
  <2>1. status = "running" /\ activations # <<>>
    BY <1>1, <1>3 DEF Call
  <2> QED
    BY <1>3, <2>1, CalleeType, CallFunctionPreserves DEF Call
<1>4. ASSUME NEW i \in FunctionIndices, ReturnCall(i) PROVE IInv'
  <2>1. status = "running" /\ activations # <<>>
    BY <1>1, <1>4 DEF ReturnCall
  <2> QED
    BY <1>4, <2>1, CalleeType, TailCallPreserves DEF ReturnCall
<1>5. ASSUME NEW t \in TypeIndices, NEW m \in Modules, NEW i \in FunctionIndices,
             CallIndirect(t, m, i)
      PROVE  IInv'
  <2>1. status = "running" /\ activations # <<>>
    BY <1>1, <1>5 DEF CallIndirect
  <2> QED
    BY <1>5, <2>1, CalleeType, CallFunctionPreserves DEF CallIndirect
<1>6. ASSUME NEW t \in TypeIndices, NEW m \in Modules, NEW i \in FunctionIndices,
             ReturnCallIndirect(t, m, i)
      PROVE  IInv'
  <2>1. status = "running" /\ activations # <<>>
    BY <1>1, <1>6 DEF ReturnCallIndirect
  <2> QED
    BY <1>6, <2>1, CalleeType, TailCallPreserves DEF ReturnCallIndirect
<1>7. CASE Return
  BY <1>1, <1>7, LeavePreserves DEF Return
<1>8. CASE RaiseTrap
  BY <1>8 DEF RaiseTrap, IInv, TypeOK, OneFramePerActivation, FrameOf,
              FramesBelongToActivations, DepthBounded, StatusInv
<1>9. CASE Unwind
  <2>1. CASE activations # <<>> /\ CleanUp /\ UNCHANGED status
    BY <1>9, <2>1, CleanUpPreserves DEF Unwind
  <2>2. CASE /\ activations = <<>> /\ status' = "host"
             /\ UNCHANGED <<frame, frameStack, activations>>
    BY <2>2 DEF IInv, TypeOK, OneFramePerActivation, FrameOf,
                FramesBelongToActivations, DepthBounded, StatusInv
  <2> QED
    BY <1>9, <2>1, <2>2 DEF Unwind
<1>10. CASE UNCHANGED vars
  BY <1>10 DEF vars, IInv, TypeOK, OneFramePerActivation, FrameOf,
               FramesBelongToActivations, DepthBounded, StatusInv
<1> QED
  BY <1>2, <1>3, <1>4, <1>5, <1>6, <1>7, <1>8, <1>9, <1>10 DEF Next

\* The inductive invariant holds in every state of run_function's calls.
THEOREM Invariance == Spec => []IInv
  BY InitInv, NextPreserves, PTL DEF Spec

\* Every variable has its type, whatever functions call one another.
THEOREM TypeCorrect == Spec => []TypeOK
<1>1. IInv => TypeOK
  BY DEF IInv
<1> QED
  BY <1>1, Invariance, PTL

\* The global frame and the saved ones are as many as the activations, over any
\* mix of calls, tail calls, returns and traps.
THEOREM FramesMatchActivations == Spec => []OneFramePerActivation
<1>1. IInv => OneFramePerActivation
  BY DEF IInv
<1> QED
  BY <1>1, Invariance, PTL

\* They are the frames of these activations, in order, each with its module and
\* the results of the calls it made.
THEOREM FramesAlwaysBelong == Spec => []FramesBelongToActivations
<1>1. IInv => FramesBelongToActivations
  BY DEF IInv
<1> QED
  BY <1>1, Invariance, PTL

\* The nesting never exceeds MAX_FRAME_STACK_SIZE.
THEOREM DepthIsBounded == Spec => []DepthBounded
<1>1. IInv => DepthBounded
  BY DEF IInv
<1> QED
  BY <1>1, Invariance, PTL

\* Whenever the host has control again, after a result or a trap, no frame is
\* left and m_frame is the null pointer.
THEOREM NothingLeftAtHost == Spec => []HostHasNoFrame
<1>1. ASSUME IInv, status = "host"
      PROVE  frame = None /\ frameStack = <<>> /\ activations = <<>>
  <2>1. activations = <<>>
    BY <1>1 DEF IInv, StatusInv
  <2>2. Len(frameStack) = 0
    BY <1>1, <2>1, LenEmpty DEF IInv, OneFramePerActivation
  <2>3. frameStack = <<>>
    BY <1>1, <2>2, EmptySeq DEF IInv, TypeOK
  <2> QED
    BY <1>1, <2>1, <2>3 DEF IInv, OneFramePerActivation
<1>2. IInv => HostHasNoFrame
  BY <1>1 DEF HostHasNoFrame
<1> QED
  BY <1>2, Invariance, PTL

-----------------------------------------------------------------------------
(* The refinement: the frames in order are the calls of CallStack.         *)

InOrder ==
  /\ FramesInOrder \in Seq(Frames)
  /\ Len(FramesInOrder) = Len(frameStack)
  /\ Len(frameStack) \in Nat
  /\ \A k \in 1..Len(frameStack) : FramesInOrder[k] = FrameOf(k)

\* A function on an initial interval is a sequence of that length.
LEMMA IntervalIsSeq ==
  ASSUME NEW S, NEW n \in Nat, NEW g \in [1..n -> S]
  PROVE  g \in Seq(S) /\ Len(g) = n
<1>1. g \in Seq(S)
  BY SeqDef
<1>2. 1..Len(g) = 1..n /\ Len(g) \in Nat
  BY <1>1, LenProperties
<1>3. ~(Len(g) < n) /\ ~(n < Len(g))
  <2>1. CASE Len(g) < n
    <3>1. n \in 1..n /\ n \notin 1..Len(g)
      BY <1>2, <2>1
    <3> QED
      BY <1>2, <3>1
  <2>2. CASE n < Len(g)
    <3>1. Len(g) \in 1..Len(g) /\ Len(g) \notin 1..n
      BY <1>2, <2>2
    <3> QED
      BY <1>2, <3>1
  <2> QED
    BY <2>1, <2>2
<1> QED
  BY <1>1, <1>2, <1>3

LEMMA FramesAreInOrder == IInv => InOrder
<1> SUFFICES ASSUME IInv PROVE InOrder
  OBVIOUS
<1>1. Len(frameStack) \in Nat
  BY LenProperties DEF IInv, TypeOK
<1>2. \A k \in 1..Len(frameStack) : FrameOf(k) \in Frames
  <2>1. DOMAIN activations = 1..Len(frameStack)
    BY LenProperties DEF IInv, TypeOK, OneFramePerActivation
  <2> QED
    BY <2>1 DEF IInv, OneFramePerActivation
<1>3. FramesInOrder \in [1..Len(frameStack) -> Frames]
  BY <1>2 DEF FramesInOrder
<1>4. FramesInOrder \in Seq(Frames) /\ Len(FramesInOrder) = Len(frameStack)
  BY <1>1, <1>3, IntervalIsSeq
<1> QED
  BY <1>1, <1>4 DEF InOrder, FramesInOrder

LEMMA FramesStayInOrder == IInv' => InOrder'
  BY FramesAreInOrder, PTL

LEMMA EnterRefines ==
  ASSUME IInv, IInv', status # "unwinding",
         NEW f \in Functions, NEW args, NEW calledAs, Enter(f, args, calledAs)
  PROVE  [Abstract!Next]_(Abstract!callVars)
<1> USE FramesAreInOrder, FramesStayInOrder
<1>1. CASE Len(frameStack) >= MaxFrames
  <2>1. UNCHANGED FramesInOrder /\ status' = "unwinding"
    BY <1>1 DEF Enter, FramesInOrder, FrameOf
  <2> QED
    BY <2>1 DEF Abstract!Next, Abstract!Trap
<1>2. CASE ~(Len(frameStack) >= MaxFrames)
  <2> DEFINE new == [mod |-> Home[f], operands |-> 0]
  <2>1. /\ frameStack' = Append(frameStack, frame)
        /\ frame' = new
        /\ status' \in {"running", "unwinding"}
    BY <1>2 DEF Enter
  <2>2. Home[f] \in Modules /\ new \in Frames
    BY CallFramesAssumption DEF Frames
  <2>3. /\ Len(frameStack') = Len(frameStack) + 1
        /\ \A k : k = Len(frameStack) + 1 => FrameOf(k)' = new
        /\ \A k \in 1..Len(frameStack) : FrameOf(k)' = FrameOf(k)
    BY <2>1, FramesAfterSave DEF IInv
  <2>4. FramesInOrder' = Append(FramesInOrder, new)
    <3>1. /\ Append(FramesInOrder, new) \in Seq(Frames)
          /\ Len(Append(FramesInOrder, new)) = Len(frameStack) + 1
          /\ Append(FramesInOrder, new)[Len(frameStack) + 1] = new
          /\ \A k \in 1..Len(frameStack) :
               Append(FramesInOrder, new)[k] = FrameOf(k)
      BY <2>2, Appended DEF InOrder
    <3>2. ASSUME NEW k \in 1..(Len(frameStack) + 1)
          PROVE  FramesInOrder'[k] = Append(FramesInOrder, new)[k]
      <4>1. FramesInOrder'[k] = FrameOf(k)'
        BY <2>3 DEF InOrder
      <4>2. CASE k = Len(frameStack) + 1
        BY <4>1, <4>2, <2>3, <3>1
      <4>3. CASE k # Len(frameStack) + 1
        <5>1. k \in 1..Len(frameStack)
          BY <4>3 DEF InOrder
        <5> QED
          BY <4>1, <5>1, <2>3, <3>1
      <4> QED
        BY <4>2, <4>3
    <3>3. /\ FramesInOrder' \in Seq(Frames)
          /\ Len(FramesInOrder') = Len(frameStack) + 1
      BY <2>3 DEF InOrder
    <3> HIDE DEF new
    <3> QED
      BY <3>1, <3>2, <3>3, SeqEqual
  <2>5. Len(FramesInOrder) < MaxFrames
    BY <1>2, CallFramesAssumption DEF InOrder
  <2> QED
    BY <2>1, <2>2, <2>4, <2>5 DEF Abstract!Next, Abstract!Enter
<1> QED
  BY <1>1, <1>2

\* The frames when only the global one changes.
LEMMA LastFrameChanged ==
  ASSUME IInv, IInv', activations # <<>>, UNCHANGED frameStack
  PROVE  /\ FramesInOrder # <<>>
         /\ FramesInOrder[Len(FramesInOrder)] = frame
         /\ FramesInOrder' = [FramesInOrder EXCEPT ![Len(FramesInOrder)] = frame']
<1>1. /\ Len(frameStack) \in Nat \ {0}
      /\ Len(FramesInOrder) = Len(frameStack)
      /\ FramesInOrder \in Seq(Frames)
  BY InnermostExists, FramesAreInOrder DEF InOrder
<1>2. FramesInOrder # <<>>
  BY <1>1, EmptySeq
<1>3. FramesInOrder[Len(FramesInOrder)] = frame
  BY <1>1, FramesAreInOrder DEF InOrder, FrameOf
<1>4. /\ \A k : k = Len(frameStack) => FrameOf(k)' = frame'
      /\ \A k \in 1..(Len(frameStack) - 1) : FrameOf(k)' = FrameOf(k)
  BY FramesAfterChange DEF IInv
<1>5. FramesInOrder' =
        [k \in 1..Len(frameStack) |->
           IF k = Len(frameStack) THEN frame' ELSE FrameOf(k)]
  <2>1. ASSUME NEW k \in 1..Len(frameStack)
        PROVE  FrameOf(k)' = IF k = Len(frameStack) THEN frame' ELSE FrameOf(k)
    <3>1. CASE k = Len(frameStack)
      BY <3>1, <1>4
    <3>2. CASE k # Len(frameStack)
      <4>1. k \in 1..(Len(frameStack) - 1)
        BY <3>2, <1>1
      <4> QED
        BY <4>1, <3>2, <1>4
    <3> QED
      BY <3>1, <3>2
  <2>2. FramesInOrder' = [k \in 1..Len(frameStack) |-> FrameOf(k)']
    BY DEF FramesInOrder
  <2> QED
    BY <2>1, <2>2
<1>6. [FramesInOrder EXCEPT ![Len(FramesInOrder)] = frame'] =
        [k \in 1..Len(frameStack) |->
           IF k = Len(frameStack) THEN frame' ELSE FrameOf(k)]
  BY <1>1 DEF FramesInOrder
<1> QED
  BY <1>2, <1>3, <1>5, <1>6

LEMMA CallNativeRefines ==
  ASSUME IInv, IInv', status = "running", activations # <<>>, CallNative
  PROVE  [Abstract!Next]_(Abstract!callVars)
<1>1. /\ frame' = [frame EXCEPT !.operands = @ + 1]
      /\ UNCHANGED <<frameStack, status>>
  BY DEF CallNative, ResultsPushed
<1>2. /\ FramesInOrder # <<>>
      /\ FramesInOrder[Len(FramesInOrder)] = frame
      /\ FramesInOrder' = [FramesInOrder EXCEPT ![Len(FramesInOrder)] = frame']
  BY <1>1, LastFrameChanged
<1>3. Abstract!GetResults
  BY <1>1, <1>2 DEF Abstract!GetResults, Abstract!WithResults
<1> QED
  BY <1>3 DEF Abstract!Next

LEMMA TailCallRealRefines ==
  ASSUME IInv, IInv', status = "running", activations # <<>>,
         NEW f \in Functions, NEW calledAs,
         TailCallReal(f, calledAs)
  PROVE  [Abstract!Next]_(Abstract!callVars)
<1>1. /\ frame' = [mod |-> Home[f], operands |-> 0]
      /\ UNCHANGED <<frameStack, status>>
  BY DEF TailCallReal
<1>2. /\ FramesInOrder # <<>>
      /\ FramesInOrder' = [FramesInOrder EXCEPT ![Len(FramesInOrder)] = frame']
  BY <1>1, LastFrameChanged
<1>3. Abstract!Replace(Home[f])
  BY <1>1, <1>2 DEF Abstract!Replace
<1>4. Home[f] \in Modules
  BY CallFramesAssumption
<1> QED
  BY <1>3, <1>4 DEF Abstract!Next

\* The frames below the last, after the last is gone.
LEMMA LastFrameGone ==
  ASSUME IInv, IInv', activations # <<>>, frameStack' = Front(frameStack)
  PROVE  /\ Len(FramesInOrder) \in Nat \ {0}
         /\ Len(FramesInOrder) = Len(activations)
         /\ FramesInOrder # <<>>
         /\ \A k \in 1..(Len(FramesInOrder) - 1) :
              k = Len(FramesInOrder) - 1 => FramesInOrder[k] = Last(frameStack)
         /\ FramesInOrder' =
              [k \in 1..(Len(FramesInOrder) - 1) |->
                 IF k = Len(FramesInOrder) - 1 THEN frame' ELSE FramesInOrder[k]]
<1>1. /\ Len(frameStack) \in Nat \ {0}
      /\ Len(frameStack) = Len(activations)
      /\ frameStack # <<>>
  BY InnermostExists
<1>2. /\ Len(FramesInOrder) = Len(frameStack)
      /\ FramesInOrder \in Seq(Frames)
      /\ \A k \in 1..Len(frameStack) : FramesInOrder[k] = FrameOf(k)
  BY FramesAreInOrder DEF InOrder
<1>3. FramesInOrder # <<>>
  BY <1>1, <1>2, EmptySeq
<1>4. /\ Len(frameStack') = Len(frameStack) - 1
      /\ \A k \in 1..(Len(frameStack) - 2) : FrameOf(k)' = FrameOf(k)
      /\ \A k \in 1..(Len(frameStack) - 1) :
           k = Len(frameStack) - 1 =>
             FrameOf(k) = Last(frameStack) /\ FrameOf(k)' = frame'
  BY <1>1, FramesAfterRestore DEF IInv
<1>5. ASSUME NEW k \in 1..(Len(frameStack) - 1)
      PROVE  FrameOf(k)' = IF k = Len(frameStack) - 1 THEN frame'
                           ELSE FramesInOrder[k]
  <2>1. CASE k = Len(frameStack) - 1
    BY <2>1, <1>4
  <2>2. CASE k # Len(frameStack) - 1
    <3>1. k \in 1..(Len(frameStack) - 2) /\ k \in 1..Len(frameStack)
      BY <2>2, <1>1
    <3> QED
      BY <2>2, <3>1, <1>2, <1>4
  <2> QED
    BY <2>1, <2>2
<1>6. FramesInOrder' = [k \in 1..(Len(frameStack) - 1) |-> FrameOf(k)']
  BY <1>4 DEF FramesInOrder
<1>7. ASSUME NEW k \in 1..(Len(frameStack) - 1), k = Len(frameStack) - 1
      PROVE  FramesInOrder[k] = Last(frameStack)
  <2>1. k \in 1..Len(frameStack)
    BY <1>1
  <2> QED
    BY <2>1, <1>7, <1>2, <1>4
<1> QED
  BY <1>1, <1>2, <1>3, <1>5, <1>6, <1>7

LEMMA CleanUpPops ==
  ASSUME IInv, IInv', activations # <<>>, CleanUp
  PROVE  /\ FramesInOrder # <<>>
         /\ Len(FramesInOrder) = Len(activations)
         /\ FramesInOrder' = Abstract!Popped
<1> DEFINE n == Len(FramesInOrder)
<1>1. frame' = Last(frameStack) /\ frameStack' = Front(frameStack)
  BY DEF CleanUp
<1>2. /\ n \in Nat \ {0}
      /\ FramesInOrder # <<>>
      /\ n = Len(activations)
      /\ \A k \in 1..(n - 1) : k = n - 1 => FramesInOrder[k] = Last(frameStack)
      /\ FramesInOrder' = [k \in 1..(n - 1) |->
                             IF k = n - 1 THEN frame' ELSE FramesInOrder[k]]
  BY <1>1, LastFrameGone
<1>3. FramesInOrder' = [k \in 1..(n - 1) |-> FramesInOrder[k]]
  BY <1>1, <1>2
<1>4. /\ FramesInOrder \in Seq(Frames) /\ FramesInOrder' \in Seq(Frames)
      /\ Len(FramesInOrder') = n - 1
      /\ \A k \in 1..(n - 1) : FramesInOrder'[k] = FramesInOrder[k]
  <2>1. FramesInOrder \in Seq(Frames) /\ FramesInOrder' \in Seq(Frames)
    BY FramesAreInOrder, FramesStayInOrder DEF InOrder
  <2>2. \A k \in 1..(n - 1) : FramesInOrder[k] \in Frames
    BY <1>2, <2>1, ElementOfSeq
  <2>3. [k \in 1..(n - 1) |-> FramesInOrder[k]] \in [1..(n - 1) -> Frames]
    BY <2>2
  <2> QED
    BY <1>2, <1>3, <2>1, <2>3, IntervalIsSeq
<1>5. /\ SubSeq(FramesInOrder, 1, n - 1) \in Seq(Frames)
      /\ Len(SubSeq(FramesInOrder, 1, n - 1)) = n - 1
      /\ \A k \in 1..(n - 1) :
           SubSeq(FramesInOrder, 1, n - 1)[k] = FramesInOrder[k]
  BY <1>2, <1>4, FrontAndLast DEF Front
<1>6. FramesInOrder' = SubSeq(FramesInOrder, 1, n - 1)
  <2> HIDE DEF n
  <2> QED
    BY <1>4, <1>5, SeqEqual
<1> QED
  BY <1>2, <1>6 DEF Abstract!Popped

LEMMA LeaveRefines ==
  ASSUME IInv, IInv', status = "running", activations # <<>>, Leave
  PROVE  [Abstract!Next]_(Abstract!callVars)
<1>1. CASE Len(activations) = 1
  <2>1. CleanUp /\ status' = "host"
    BY <1>1 DEF Leave
  <2>2. Abstract!Finish
    BY <1>1, <2>1, CleanUpPops DEF Abstract!Finish
  <2> QED
    BY <2>2 DEF Abstract!Next
<1>2. CASE Len(activations) # 1
  <2> DEFINE n == Len(FramesInOrder)
  <2>1. /\ frame' = ResultsPushed(Last(frameStack))
        /\ frameStack' = Front(frameStack)
        /\ UNCHANGED status
    BY <1>2 DEF Leave
  <2>2. /\ n \in Nat \ {0}
        /\ n = Len(activations)
        /\ \A k \in 1..(n - 1) : k = n - 1 => FramesInOrder[k] = Last(frameStack)
        /\ FramesInOrder' = [k \in 1..(n - 1) |->
                               IF k = n - 1 THEN frame' ELSE FramesInOrder[k]]
    BY <2>1, LastFrameGone
  <2>3. n > 1
    BY <1>2, <2>2
  <2>4. FramesInOrder' = [k \in 1..(n - 1) |->
                            IF k = n - 1 THEN ResultsPushed(FramesInOrder[k])
                            ELSE FramesInOrder[k]]
    BY <2>1, <2>2
  <2>5. Abstract!Leave
    BY <2>1, <2>3, <2>4 DEF Abstract!Leave, Abstract!WithResults, ResultsPushed
  <2> QED
    BY <2>5 DEF Abstract!Next
<1> QED
  BY <1>1, <1>2

LEMMA CallFunctionRefines ==
  ASSUME IInv, IInv', status = "running", activations # <<>>,
         NEW f, NEW calledAs, CallFunction(f, calledAs)
  PROVE  [Abstract!Next]_(Abstract!callVars)
<1>1. CASE f \in Natives /\ CallNative
  BY <1>1, CallNativeRefines
<1>2. CASE f \in Functions /\ Enter(f, ParamCount[Type[f]], calledAs)
  BY <1>2, EnterRefines
<1> QED
  BY <1>1, <1>2 DEF CallFunction

LEMMA TailCallRefines ==
  ASSUME IInv, IInv', status = "running", activations # <<>>,
         NEW f, NEW calledAs, TailCall(f, calledAs)
  PROVE  [Abstract!Next]_(Abstract!callVars)
<1>1. CASE f \in Natives /\ Leave
  BY <1>1, LeaveRefines
<1>2. CASE f \in Functions /\ TailCallReal(f, calledAs)
  BY <1>2, TailCallRealRefines
<1> QED
  BY <1>1, <1>2 DEF TailCall

LEMMA NextRefines ==
  IInv /\ IInv' /\ [Next]_vars => [Abstract!Next]_(Abstract!callVars)
<1> SUFFICES ASSUME IInv, IInv', [Next]_vars
             PROVE  [Abstract!Next]_(Abstract!callVars)
  OBVIOUS
<1>1. status = "running" => activations # <<>>
  BY DEF IInv, StatusInv
<1>2. ASSUME NEW f \in Functions, NEW args \in 0..MaxArgs, HostInvoke(f, args)
      PROVE  [Abstract!Next]_(Abstract!callVars)
  BY <1>2, EnterRefines DEF HostInvoke
<1>3. ASSUME NEW i \in FunctionIndices, Call(i) \/ ReturnCall(i)
      PROVE  [Abstract!Next]_(Abstract!callVars)
  <2>1. CASE Call(i)
    BY <1>1, <2>1, CallFunctionRefines DEF Call
  <2>2. CASE ReturnCall(i)
    BY <1>1, <2>2, TailCallRefines DEF ReturnCall
  <2> QED
    BY <1>3, <2>1, <2>2
<1>4. ASSUME NEW t \in TypeIndices, NEW m \in Modules, NEW i \in FunctionIndices,
             CallIndirect(t, m, i) \/ ReturnCallIndirect(t, m, i)
      PROVE  [Abstract!Next]_(Abstract!callVars)
  <2>1. CASE CallIndirect(t, m, i)
    BY <1>1, <2>1, CallFunctionRefines DEF CallIndirect
  <2>2. CASE ReturnCallIndirect(t, m, i)
    BY <1>1, <2>2, TailCallRefines DEF ReturnCallIndirect
  <2> QED
    BY <1>4, <2>1, <2>2
<1>5. CASE Return
  BY <1>1, <1>5, LeaveRefines DEF Return
<1>6. CASE UNCHANGED vars
  BY <1>6 DEF vars, FramesInOrder, FrameOf, Abstract!callVars
<1>8. CASE RaiseTrap
  <2>1. UNCHANGED FramesInOrder
    BY <1>8 DEF RaiseTrap, FramesInOrder, FrameOf
  <2> QED
    BY <1>8, <2>1 DEF RaiseTrap, Abstract!Next, Abstract!Trap
<1>7. CASE Unwind
  <2>1. CASE activations # <<>> /\ CleanUp /\ UNCHANGED status
    <3>1. Abstract!Unwind
      BY <1>7, <2>1, CleanUpPops DEF Unwind, Abstract!Unwind
    <3> QED
      BY <3>1 DEF Abstract!Next
  <2>2. CASE activations = <<>> /\ status' = "host"
             /\ UNCHANGED <<frame, frameStack, activations>>
    <3>1. FramesInOrder = <<>> /\ UNCHANGED FramesInOrder
      <4>1. Len(FramesInOrder) = 0 /\ FramesInOrder \in Seq(Frames)
        BY <2>2, FramesAreInOrder, LenEmpty DEF IInv, OneFramePerActivation, InOrder
      <4> QED
        BY <2>2, <4>1, EmptySeq DEF FramesInOrder, FrameOf
    <3>2. Abstract!Report
      BY <1>7, <2>2, <3>1 DEF Unwind, Abstract!Report
    <3> QED
      BY <3>2 DEF Abstract!Next
  <2> QED
    BY <1>7, <2>1, <2>2 DEF Unwind
<1> QED
  BY <1>2, <1>3, <1>4, <1>5, <1>6, <1>7, <1>8 DEF Next

\* run_function implements a call stack: entering pushes, leaving pops and
\* gives its results to the entry below, nothing else is touched, and a trap
\* takes the entries one by one up to the host.
THEOREM ImplementsCallStack == Spec => CallStackSpec
<1>1. Init => Abstract!Init
  <2> SUFFICES ASSUME Init PROVE FramesInOrder = <<>>
    BY DEF Init, Abstract!Init
  <2>1. InOrder /\ Len(frameStack) = 0
    BY InitInv, FramesAreInOrder, LenEmpty DEF Init
  <2> QED
    BY <2>1, EmptySeq DEF InOrder
<1> QED
  BY <1>1, Invariance, NextRefines, PTL DEF Spec, CallStackSpec, Abstract!Spec

-----------------------------------------------------------------------------
(* The types of the callees.                                               *)

\* An index names the same type in every module: what lets call_indirect look
\* the expected type up in the module of the reference.
TypesShared ==
  \A m, n \in Modules : \A t \in TypeIndices : TypeTable[m][t] = TypeTable[n][t]

\* What makes the types agree inductively: as long as an activation has not
\* crossed to another module, its mod is the module of its code.
ModOfCode ==
  \A k \in DOMAIN activations :
    \/ activations[k].crossed
    \/ activations[k].mod = Home[activations[k].function]

TypedInv == ModOfCode /\ CalleesTypedUnlessCrossed

\* Activations that ended, or whose calls completed.
LEMMA TypedBelow ==
  ASSUME TypedInv, activations \in Seq(Activations),
         activations' \in Seq(Activations),
         \A k \in DOMAIN activations' :
           /\ k \in DOMAIN activations
           /\ activations'[k].function = activations[k].function
           /\ activations'[k].mod = activations[k].mod
           /\ activations'[k].calledAs = activations[k].calledAs
           /\ activations'[k].crossed = activations[k].crossed
  PROVE  TypedInv'
<1>1. ModOfCode'
  BY DEF TypedInv, ModOfCode
<1>2. ASSUME NEW k \in DOMAIN activations'
      PROVE  \/ activations'[k].calledAs = Type[activations'[k].function]
             \/ \E j \in 1..k : activations'[j].crossed
  <2>1. CASE activations[k].calledAs = Type[activations[k].function]
    BY <2>1
  <2>2. CASE \E j \in 1..k : activations[j].crossed
    <3>1. PICK j \in 1..k : activations[j].crossed
      BY <2>2
    <3>2. j \in DOMAIN activations'
      BY LenProperties
    <3> QED
      BY <3>1, <3>2
  <2> QED
    BY <2>1, <2>2 DEF TypedInv, CalleesTypedUnlessCrossed
<1> QED
  BY <1>1, <1>2 DEF TypedInv, CalleesTypedUnlessCrossed

\* An activation above n others, new or in the place of the innermost one.
LEMMA TypedAbove ==
  ASSUME TypedInv, activations \in Seq(Activations),
         activations' \in Seq(Activations),
         NEW n \in Nat, n <= Len(activations), Len(activations') = n + 1,
         \A k \in 1..n : activations'[k] = activations[k],
         NEW a, activations'[n + 1] = a,
         a.crossed \/ a.mod = Home[a.function],
         \/ a.calledAs = Type[a.function]
         \/ a.crossed
         \/ \E j \in 1..n : activations[j].crossed
  PROVE  TypedInv'
<1>1. DOMAIN activations' = 1..(n + 1) /\ 1..n \subseteq DOMAIN activations
  BY LenProperties
<1>2. ASSUME NEW k \in DOMAIN activations'
      PROVE  \/ k = n + 1
             \/ k \in 1..n /\ k \in DOMAIN activations
  BY <1>1
<1>3. ModOfCode'
  BY <1>2 DEF TypedInv, ModOfCode
<1>4. ASSUME NEW k \in DOMAIN activations'
      PROVE  \/ activations'[k].calledAs = Type[activations'[k].function]
             \/ \E j \in 1..k : activations'[j].crossed
  <2>1. CASE k = n + 1
    <3>1. CASE a.calledAs = Type[a.function]
      BY <2>1, <3>1
    <3>2. CASE a.crossed
      BY <2>1, <3>2
    <3>3. CASE \E j \in 1..n : activations[j].crossed
      <4>1. PICK j \in 1..n : activations[j].crossed
        BY <3>3
      <4>2. j \in 1..k /\ activations'[j].crossed
        BY <2>1, <4>1
      <4> QED
        BY <4>2
    <3> QED
      BY <3>1, <3>2, <3>3
  <2>2. CASE k \in 1..n /\ k \in DOMAIN activations
    <3>1. CASE activations[k].calledAs = Type[activations[k].function]
      BY <2>2, <3>1
    <3>2. CASE \E j \in 1..k : activations[j].crossed
      <4>1. PICK j \in 1..k : activations[j].crossed
        BY <3>2
      <4>2. j \in 1..n
        BY <2>2
      <4> QED
        BY <4>1, <4>2
    <3> QED
      BY <2>2, <3>1, <3>2 DEF TypedInv, CalleesTypedUnlessCrossed
  <2> QED
    BY <1>2, <2>1, <2>2
<1> QED
  BY <1>3, <1>4 DEF TypedInv, CalleesTypedUnlessCrossed

LEMMA EnterTyped ==
  ASSUME IInv, IInv', TypedInv, NEW f \in Functions, NEW args,
         NEW calledAs \in FunctionTypes, Enter(f, args, calledAs),
         \/ calledAs = Type[f]
         \/ \E j \in 1..Len(activations) : activations[j].crossed
  PROVE  TypedInv'
<1>1. activations \in Seq(Activations) /\ activations' \in Seq(Activations)
  BY DEF IInv, TypeOK
<1>2. CASE UNCHANGED activations
  BY <1>1, <1>2, TypedBelow
<1>3. CASE ~UNCHANGED activations
  <2> DEFINE a == [function |-> f, mod |-> Home[f], completed |-> 0,
                   calledAs |-> calledAs, crossed |-> FALSE]
  <2>1. activations' = Append(activations, a)
    BY <1>3 DEF Enter
  <2>2. a \in Activations
    BY CallFramesAssumption DEF Activations
  <2>3. /\ Len(activations) \in Nat
        /\ Len(activations') = Len(activations) + 1
        /\ activations'[Len(activations) + 1] = a
        /\ \A k \in 1..Len(activations) : activations'[k] = activations[k]
    <3> HIDE DEF a
    <3> QED
      BY <1>1, <2>1, <2>2, Appended, LenProperties
  <2>4. a.mod = Home[a.function] /\ a.function = f /\ a.calledAs = calledAs
    OBVIOUS
  <2> HIDE DEF a
  <2> QED
    BY <1>1, <2>3, <2>4, TypedAbove
<1> QED
  BY <1>2, <1>3

LEMMA CleanUpTyped ==
  ASSUME IInv, IInv', TypedInv, activations # <<>>, CleanUp
  PROVE  TypedInv'
<1>1. /\ activations \in Seq(Activations) /\ activations' \in Seq(Activations)
      /\ Len(activations) \in Nat \ {0}
      /\ Len(activations') = Len(activations) - 1
      /\ \A k \in 1..(Len(activations) - 1) : activations'[k] = activations[k]
  BY InnermostExists, BelowInnermost DEF IInv, TypeOK, CleanUp
<1>2. ASSUME NEW k \in DOMAIN activations'
      PROVE  k \in DOMAIN activations /\ activations'[k] = activations[k]
  <2>1. k \in 1..(Len(activations) - 1)
    BY <1>1, LenProperties
  <2>2. k \in 1..Len(activations)
    BY <1>1, <2>1
  <2> QED
    BY <1>1, <2>1, <2>2, LenProperties
<1> QED
  BY <1>1, <1>2, TypedBelow

\* What a completed call leaves as it was.
LEMMA CompletedEssentials ==
  ASSUME NEW as \in Seq(Activations), as # <<>>, NEW k \in 1..Len(as)
  PROVE  /\ Completed(as)[k].function = as[k].function
         /\ Completed(as)[k].mod = as[k].mod
         /\ Completed(as)[k].calledAs = as[k].calledAs
         /\ Completed(as)[k].crossed = as[k].crossed
<1>1. as[k] \in Activations
  BY ElementOfSeq
<1>2. Completed(as)[k] = CallCompleted(as[k]) \/ Completed(as)[k] = as[k]
  BY CompletedLast
<1>3. /\ CallCompleted(as[k]).function = as[k].function
      /\ CallCompleted(as[k]).mod = as[k].mod
      /\ CallCompleted(as[k]).calledAs = as[k].calledAs
      /\ CallCompleted(as[k]).crossed = as[k].crossed
  BY <1>1 DEF CallCompleted, Activations
<1> QED
  BY <1>2, <1>3

LEMMA CallNativeTyped ==
  ASSUME IInv, IInv', TypedInv, activations # <<>>, CallNative
  PROVE  TypedInv'
<1>1. /\ activations \in Seq(Activations) /\ activations' \in Seq(Activations)
      /\ activations' = Completed(activations)
  BY DEF IInv, TypeOK, CallNative
<1>2. DOMAIN activations = DOMAIN activations'
  BY <1>1, CompletedLast, LenProperties
<1> QED
  BY <1>1, <1>2, CompletedEssentials, LenProperties, TypedBelow

LEMMA LeaveTyped ==
  ASSUME IInv, IInv', TypedInv, activations # <<>>, Leave
  PROVE  TypedInv'
<1>1. CASE Len(activations) = 1
  BY <1>1, CleanUpTyped DEF Leave
<1>2. CASE Len(activations) # 1
  <2> DEFINE below == Front(activations)
  <2>1. /\ activations' = Completed(below)
        /\ activations \in Seq(Activations) /\ activations' \in Seq(Activations)
    BY <1>2 DEF Leave, IInv, TypeOK
  <2>2. /\ Len(activations) \in Nat \ {0}
        /\ below \in Seq(Activations)
        /\ Len(below) = Len(activations) - 1
        /\ below # <<>>
        /\ \A k \in 1..(Len(activations) - 1) : below[k] = activations[k]
    BY <1>2, InnermostExists, BelowInnermost, EmptySeq
  <2>3. ASSUME NEW k \in DOMAIN activations'
        PROVE  /\ k \in DOMAIN activations
               /\ k \in 1..Len(below)
               /\ below[k] = activations[k]
    <3>1. k \in 1..Len(below)
      <4> HIDE DEF below
      <4> QED
        BY <2>1, <2>2, CompletedLast, LenProperties
    <3>2. k \in 1..(Len(activations) - 1)
      BY <2>2, <3>1
    <3>3. k \in 1..Len(activations)
      BY <2>2, <3>2
    <3> QED
      BY <2>1, <2>2, <3>1, <3>2, <3>3, LenProperties
  <2> HIDE DEF below
  <2> QED
    BY <2>1, <2>2, <2>3, CompletedEssentials, TypedBelow
<1> QED
  BY <1>1, <1>2

\* What the caller's validator knew of the callee, when the code runs with the
\* module it was validated with.
KnownType(f, calledAs) == calledAs = Type[f] \/ Current.crossed

LEMMA CallFunctionTyped ==
  ASSUME IInv, IInv', TypedInv, activations # <<>>, NEW f,
         NEW calledAs \in FunctionTypes, CallFunction(f, calledAs),
         KnownType(f, calledAs)
  PROVE  TypedInv'
<1>1. CASE f \in Natives /\ CallNative
  BY <1>1, CallNativeTyped
<1>2. CASE f \in Functions /\ Enter(f, ParamCount[Type[f]], calledAs)
  <2>1. CASE calledAs = Type[f]
    BY <1>2, <2>1, EnterTyped
  <2>2. CASE Current.crossed
    <3>1. /\ Len(activations) \in 1..Len(activations)
          /\ Current = activations[Len(activations)]
      BY InnermostExists
    <3>2. activations[Len(activations)].crossed
      BY <2>2, <3>1
    <3> QED
      BY <1>2, <3>1, <3>2, EnterTyped
  <2> QED
    BY <2>1, <2>2 DEF KnownType
<1> QED
  BY <1>1, <1>2 DEF CallFunction

LEMMA TailCallTyped ==
  ASSUME IInv, IInv', TypedInv, activations # <<>>, NEW f,
         NEW calledAs \in FunctionTypes, TailCall(f, calledAs),
         KnownType(f, calledAs)
  PROVE  TypedInv'
<1>1. CASE f \in Natives /\ Leave
  BY <1>1, LeaveTyped
<1>2. CASE f \in Functions /\ TailCallReal(f, calledAs)
  <2> DEFINE a == Replaced(f, calledAs)
             n == Len(activations) - 1
  <2>1. /\ activations \in Seq(Activations) /\ activations' \in Seq(Activations)
        /\ Len(activations) \in Nat \ {0}
        /\ Len(activations) \in DOMAIN activations
        /\ Current = activations[Len(activations)]
        /\ Current \in Activations
    BY InnermostExists DEF IInv, TypeOK
  <2>2. activations' = WithLast(activations, a)
    BY <1>2 DEF TailCallReal, WithLast
  <2>3. a \in Activations
    BY <1>2, <2>1 DEF Replaced, Activations
  <2>4. Current.crossed \/ Current.mod = CodeModule
    BY <2>1 DEF TypedInv, ModOfCode, CodeModule
  <2>5. a.crossed \/ a.mod = Home[a.function]
    BY <2>4 DEF Replaced
  <2>6. a.calledAs = Type[a.function] \/ a.crossed
    BY DEF Replaced, KnownType
  <2>7. \A k \in 1..Len(activations) :
          activations'[k] = IF k = Len(activations) THEN a ELSE activations[k]
    <3> HIDE DEF a
    <3> QED
      BY <2>1, <2>2, <2>3, LastReplacedElements
  <2>8. Len(activations) = Len(activations')
    <3> HIDE DEF a
    <3> QED
      BY <2>1, <2>2, <2>3, LastReplaced
  <2>9. /\ n \in Nat /\ n <= Len(activations) /\ Len(activations') = n + 1
        /\ activations'[n + 1] = a
    BY <2>1, <2>7, <2>8
  <2>10. ASSUME NEW k \in 1..n PROVE activations'[k] = activations[k]
    <3>1. k \in 1..Len(activations) /\ k # Len(activations)
      BY <2>1
    <3> QED
      BY <3>1, <2>7
  <2> HIDE DEF a, n
  <2> QED
    BY <2>1, <2>5, <2>6, <2>9, <2>10, TypedAbove
<1> QED
  BY <1>1, <1>2 DEF TailCall

\* The function an index names in mod, and the type it has where it was
\* validated.
LEMMA IndexKnown ==
  ASSUME TypedInv, IInv, activations # <<>>, NEW i \in FunctionIndices
  PROVE  KnownType(FunctionTable[Current.mod][i], Type[FunctionTable[CodeModule][i]])
<1>1. Current.crossed \/ Current.mod = CodeModule
  BY InnermostExists DEF TypedInv, ModOfCode, CodeModule
<1> QED
  BY <1>1 DEF KnownType

\* The check of call_indirect, when the modules share their types.
LEMMA IndirectKnown ==
  ASSUME TypesShared, IInv, activations # <<>>, NEW t \in TypeIndices,
         NEW m \in Modules, NEW i \in FunctionIndices, IndirectTypeValid(t, m, i)
  PROVE  KnownType(FunctionTable[m][i], TypeTable[CodeModule][t])
<1>1. CodeModule \in Modules
  BY CalleeType
<1> QED
  BY <1>1 DEF TypesShared, IndirectTypeValid, KnownType

LEMMA NextTyped ==
  ASSUME TypesShared
  PROVE  IInv /\ IInv' /\ TypedInv /\ [Next]_vars => TypedInv'
<1> SUFFICES ASSUME IInv, IInv', TypedInv, [Next]_vars PROVE TypedInv'
  OBVIOUS
<1>1. status = "running" => activations # <<>>
  BY DEF IInv, StatusInv
<1>2. activations \in Seq(Activations) /\ activations' \in Seq(Activations)
  BY DEF IInv, TypeOK
<1>3. ASSUME NEW f \in Functions, NEW args \in 0..MaxArgs, HostInvoke(f, args)
      PROVE  TypedInv'
  <2>1. Type[f] \in FunctionTypes
    BY CallFramesAssumption DEF Callable
  <2> QED
    BY <1>3, <2>1, EnterTyped DEF HostInvoke
<1>4. ASSUME NEW i \in FunctionIndices, Call(i) PROVE TypedInv'
  <2>1. status = "running" /\ activations # <<>>
    BY <1>1, <1>4 DEF Call
  <2> QED
    BY <1>4, <2>1, CalleeType, IndexKnown, CallFunctionTyped DEF Call
<1>5. ASSUME NEW i \in FunctionIndices, ReturnCall(i) PROVE TypedInv'
  <2>1. status = "running" /\ activations # <<>>
    BY <1>1, <1>5 DEF ReturnCall
  <2> QED
    BY <1>5, <2>1, CalleeType, IndexKnown, TailCallTyped DEF ReturnCall
<1>6. ASSUME NEW t \in TypeIndices, NEW m \in Modules, NEW i \in FunctionIndices,
             CallIndirect(t, m, i)
      PROVE  TypedInv'
  <2>1. /\ status = "running" /\ activations # <<>>
        /\ IndirectTypeValid(t, m, i)
    BY <1>1, <1>6 DEF CallIndirect
  <2> QED
    BY <1>6, <2>1, CalleeType, IndirectKnown, CallFunctionTyped DEF CallIndirect
<1>7. ASSUME NEW t \in TypeIndices, NEW m \in Modules, NEW i \in FunctionIndices,
             ReturnCallIndirect(t, m, i)
      PROVE  TypedInv'
  <2>1. /\ status = "running" /\ activations # <<>>
        /\ IndirectTypeValid(t, m, i)
    BY <1>1, <1>7 DEF ReturnCallIndirect
  <2> QED
    BY <1>7, <2>1, CalleeType, IndirectKnown, TailCallTyped DEF ReturnCallIndirect
<1>8. CASE Return
  BY <1>1, <1>8, LeaveTyped DEF Return
<1>9. CASE RaiseTrap \/ UNCHANGED vars
  <2>1. UNCHANGED activations
    BY <1>9 DEF RaiseTrap, vars
  <2> QED
    BY <1>2, <2>1, TypedBelow
<1>10. CASE Unwind
  <2>1. CASE activations # <<>> /\ CleanUp
    BY <2>1, CleanUpTyped
  <2>2. CASE UNCHANGED activations
    BY <2>2, <1>2, TypedBelow
  <2> QED
    BY <1>10, <2>1, <2>2 DEF Unwind
<1> QED
  BY <1>3, <1>4, <1>5, <1>6, <1>7, <1>8, <1>9, <1>10 DEF Next

\* When the modules number their types alike, every function is entered with
\* the type its caller was validated to call, until a tail call crosses modules.
THEOREM CalleesAreTyped ==
  ASSUME TypesShared
  PROVE  Spec => []CalleesTypedUnlessCrossed
<1>1. Init => TypedInv
  <2> SUFFICES ASSUME Init PROVE TypedInv
    OBVIOUS
  <2>1. DOMAIN activations = {}
    BY LenEmpty, LenProperties, EmptySeq DEF Init
  <2> QED
    BY <2>1 DEF TypedInv, ModOfCode, CalleesTypedUnlessCrossed
<1>2. IInv /\ IInv' /\ TypedInv /\ [Next]_vars => TypedInv'
  BY NextTyped
<1>3. TypedInv => CalleesTypedUnlessCrossed
  BY DEF TypedInv
<1> QED
  BY <1>1, <1>2, <1>3, Invariance, PTL DEF Spec

=============================================================================
