----------------------------- MODULE MCVMControl -----------------------------
(***************************************************************************)
(* VMControl for TLC: one function without and one with a parameter, and   *)
(* limits small enough that programs reach them.                           *)
(***************************************************************************)
EXTENDS VMControl

MCArity == [f \in Function |-> IF f = "g" THEN 1 ELSE 0]
=============================================================================
