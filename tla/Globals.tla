------------------------------- MODULE Globals -------------------------------
(***************************************************************************)
(* The global variables of a VM: the table vm->globals under the           *)
(* instructions OP_DEFINE_GLOBAL, OP_SET_GLOBAL and OP_GET_GLOBAL of       *)
(* src/src/vm.c.  Registering a native and nq_set_global_* in              *)
(* src/src/nq_embed.cpp do to the table what OP_DEFINE_GLOBAL does.        *)
(*                                                                         *)
(* No instruction undeclares a name: tableDelete runs only to take back    *)
(* the entry that OP_SET_GLOBAL has just added for an undeclared name.     *)
(***************************************************************************)
EXTENDS Table

CONSTANTS Unbound, Ok, NameError

ASSUME AnswerAssumption == {Unbound, Ok, NameError} \cap Value = {}

VARIABLES
  globals,   \* vm->globals
  answer,    \* what the last instruction pushed, or the error it threw
  used       \* history: the names written to so far

vars == <<globals, answer, used>>

-----------------------------------------------------------------------------

Init ==
  /\ globals = InitTable
  /\ answer = Ok
  /\ used = {}

(* OP_DEFINE_GLOBAL: tableSet, whatever it returns. *)
DefineGlobal(k, v) ==
  /\ globals' = TableSet(globals, k, v)
  /\ answer' = Ok
  /\ used' = used \union {k}

(* OP_SET_GLOBAL: tableSet first; when that added the name, tableDelete
   takes it back and the instruction throws. *)
SetGlobal(k, v) ==
  LET set == TableSet(globals, k, v)
  IN  /\ IF TableSetIsNew(globals, k)
         THEN globals' = TableDelete(set, k) /\ answer' = NameError
         ELSE globals' = set /\ answer' = Ok
      /\ used' = used \union {k}

(* The result of tableGet is not looked at: an undeclared name has a value. *)
SlipGetGlobal(k) ==
  /\ answer' = IF TableHas(globals, k) THEN TableGet(globals, k) ELSE Unbound
  /\ UNCHANGED <<globals, used>>

(* OP_GET_GLOBAL *)
GetGlobal(k) ==
  /\ answer' = IF TableHas(globals, k) THEN TableGet(globals, k) ELSE NameError
  /\ UNCHANGED <<globals, used>>

Next ==
  \E k \in Key :
    \/ \E v \in Value : DefineGlobal(k, v) \/ SetGlobal(k, v)
    \/ GetGlobal(k)

Spec == Init /\ [][Next]_vars

-----------------------------------------------------------------------------

(* The variables hold a well-formed table of src/src/table.h, an answer and
   a set of names. *)
TypeOK ==
  /\ TableType(globals)
  /\ answer \in Value \union {Ok, NameError}
  /\ used \in SUBSET Key

(* The unbounded probe loop of findEntry ends for every name, bound or not:
   once there is an array, every probe sequence reaches an empty slot or the
   name itself, however many tombstones failed assignments have left. *)
ProbesEnd ==
  globals.capacity > 0 =>
    \A k \in Key : \E d \in Slots(globals.capacity) : StopsAt(globals, k, d)

(* The load that tableSet tests is the number of slots no probe can stop at:
   a tombstone keeps counting until the array is rebuilt, and the array is
   never filled beyond TABLE_MAX_LOAD. *)
CountIsOccupied ==
  /\ globals.count = Cardinality(Occupied(globals))
  /\ globals.count <= MaxLoad(globals.capacity)

(* A search for the key of a live entry arrives at that entry, so no key has
   two entries and no tombstone, collision or rebuild hides one. *)
Findable ==
  \A s \in LiveSlots(globals) :
    FindEntry(globals, globals.entries[s].key) = s

(* Tombstones cannot pile up: however often assignments to undeclared names
   fail, the slots in use never outnumber the names that were written to. *)
NoTombstonePileUp ==
  Cardinality(Occupied(globals)) <= Cardinality(used)

(* What the live entries of a table say of a name. *)
Bound(t, k) == {s \in LiveSlots(t) : t.entries[s].key = k}

Look(t, k) ==
  IF Bound(t, k) = {} THEN Unbound
  ELSE t.entries[CHOOSE s \in Bound(t, k) : TRUE].value

(* A table growing over failed assignments and collisions is still, to the
   program, a partial map in which a failed assignment changes nothing. *)
Map == INSTANCE GlobalMap WITH
         binding <- [k \in Key |-> Look(globals, k)]

ImplementsGlobalMap == Map!Spec
=============================================================================
