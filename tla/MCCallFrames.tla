----------------------------- MODULE MCCallFrames -----------------------------
(* Two modules that call and tail call each other, import each other's       *)
(* functions and one native, and keep references to them in tables.          *)
EXTENDS CallFrames

CONSTANTS m1, m2, f1, f2, f3, native

MCHome == f1 :> m1 @@ f2 :> m2 @@ f3 :> m2

MCFunctionTypes == {"none", "one"}

MCParamCount == "none" :> 0 @@ "one" :> 1

MCType == f1 :> "none" @@ f2 :> "none" @@ f3 :> "one" @@ native :> "one"

MCFunctionTable ==
  m1 :> (0 :> native @@ 1 :> f1 @@ 2 :> f2) @@
  m2 :> (0 :> f2 @@ 1 :> f3 @@ 2 :> f1)

SameTypes == [m \in {m1, m2} |-> 0 :> "none" @@ 1 :> "one"]

OtherTypes == m1 :> (0 :> "none" @@ 1 :> "one") @@ m2 :> (0 :> "one" @@ 1 :> "none")
=============================================================================
