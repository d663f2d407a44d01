---------------------------- MODULE MCAllocator ----------------------------
(***************************************************************************)
(* Allocator for TLC: two objects at a time, and sizes of which no sum     *)
(* of few is another.                                                      *)
(***************************************************************************)
EXTENDS Allocator, TLC

MCLength == [t \in Text |-> IF t = "a" THEN 1 ELSE 3]

MCSizeOf == [string |-> 5, array |-> 7, function |-> 11, native |-> 3, chunk |-> 13,
             Value |-> 2, Entry |-> 6, pointer |-> 1, int |-> 4]

Symmetry == Permutations(Obj)
=============================================================================
