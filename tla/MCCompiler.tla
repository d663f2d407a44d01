----------------------------- MODULE MCCompiler ------------------------------
(***************************************************************************)
(* Compiler for TLC: two modules that may import each other, and few       *)
(* statements around a statement.                                          *)
(***************************************************************************)
EXTENDS Compiler
=============================================================================
