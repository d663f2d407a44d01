------------------------------- MODULE MCHeap --------------------------------
(***************************************************************************)
(* Instances of Heap: three or four addresses, and two texts whose hashes  *)
(* collide in a table of the first capacity and still do when it has grown. *)
(***************************************************************************)
EXTENDS Heap

CONSTANT MaxObj    \* bound on the objects in the heap at one time

Addresses == 1 .. MaxObj

Hash == [x \in Text |-> IF x = "a" THEN 1 ELSE 5]
=============================================================================
