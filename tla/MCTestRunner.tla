----------------------------- MODULE MCTestRunner -----------------------------
(***************************************************************************)
(* Test files of five commands, with one module name besides spectest.     *)
(***************************************************************************)
EXTENDS TestRunner
=============================================================================
