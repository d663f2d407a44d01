------------------------------ MODULE MCGlobals ------------------------------
(***************************************************************************)
(* Globals for TLC.  The array starts with two slots instead of eight, so  *)
(* that four names make it grow twice.  The hashes collide before and      *)
(* after growing, and the probe sequences wrap around the end of the array.*)
(***************************************************************************)
EXTENDS Globals

MCHash == [k \in Key |->
  CASE k = "a" -> 7 [] k = "b" -> 15 [] k = "c" -> 23 [] k = "d" -> 0]
=============================================================================
