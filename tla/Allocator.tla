----------------------------- MODULE Allocator ------------------------------
(***************************************************************************)
(* The tracked allocator of src/src/memory.c and all that allocates        *)
(* through it while one machine lives: objects and what they own, the      *)
(* intern table and the table of globals.                                  *)
(*                                                                         *)
(* nq_realloc does not ask the system how large a block is: it believes    *)
(* the size its caller gives back.  A block here has the size it really    *)
(* was allocated with, the counter moves by what the code says, and the    *)
(* two are compared.  Contents are left out; a text is a name with a       *)
(* length.  Sizes are constants.                                           *)
(*                                                                         *)
(* Slip... operators: see module Table.                                    *)
(***************************************************************************)
EXTENDS Integers, FiniteSetsExt

CONSTANTS
  Obj,             \* the objects there may be at one time
  Text, Length,    \* the texts, and their lengths
  SizeOf,          \* sizeof of the types of blocks
  MinCapacity,     \* GROW_CAPACITY's first capacity, 8
  MinThreshold,    \* 1 MB
  CountMax,        \* bound on items, code and constants of one object
  GlobalsMax,      \* bound on the table of globals
  Spare,           \* the bytes join() sets aside for a number, 32
  MiscountMax      \* bound on the bytes that are miscounted

NoObj == [type |-> "none"]

ASSUME AllocatorAssumption ==
  /\ IsFiniteSet(Obj)
  /\ Length \in [Text -> Nat]
  /\ {MinCapacity, MinThreshold, CountMax, GlobalsMax} \subseteq Nat \ {0}
  /\ SizeOf \in [{"string", "array", "function", "native", "chunk",
                  "Value", "Entry", "pointer", "int"} -> Nat \ {0}]
  /\ {Spare, MiscountMax} \subseteq Nat

VARIABLES
  m,          \* the counter, the objects and the tables
  nq_gc_vm,   \* has a run set it?
  unseen,     \* bytes of buffers that were allocated but not counted
  unreturned  \* bytes of buffers that were counted but will not be given back

rest == <<nq_gc_vm, unseen, unreturned>>

vars == <<m, rest>>

-----------------------------------------------------------------------------
(* Sizes. *)

GROW_CAPACITY(cap) == IF cap < MinCapacity THEN MinCapacity ELSE cap * 2

\* The capacity does not grow before the item that does not fit.
SlipRoom(count, capacity) == IF count > capacity THEN GROW_CAPACITY(capacity) ELSE capacity

\* The capacity of an array before one more item is stored.
Room(count, capacity) == IF count >= capacity THEN GROW_CAPACITY(capacity) ELSE capacity

\* A byte of code has a line.
CodeBytes(capacity) == capacity * (1 + SizeOf["int"])

ValueBytes(capacity) == capacity * SizeOf["Value"]

(***************************************************************************)
(* What freeObject gives back for the buffers of an object.                *)
(***************************************************************************)
Owned(o) ==
  CASE o.type = "string"   -> Length[o.text] + 1
    [] o.type = "array"    -> ValueBytes(o.capacity)
    [] o.type = "function" -> SizeOf["chunk"] + CodeBytes(o.capacity) + ValueBytes(o.constants)
    [] o.type = "native"   -> 0

-----------------------------------------------------------------------------
(* The allocator and the collector. *)

Live(n) == {o \in Obj : n.heap[o] # NoObj}
Strings(n) == {o \in Live(n) : n.heap[o].type = "string"}
Interned(n, t) == \E o \in Strings(n) : n.heap[o].text = t

nq_realloc(n, old_size, new_size) ==
  [n EXCEPT !.nq_bytes_allocated = (IF old_size <= @ THEN @ - old_size ELSE 0) + new_size]

\* A block of a table.
TableRealloc(n, old_size, new_size) ==
  [nq_realloc(n, old_size, new_size) EXCEPT !.tables = @ - old_size + new_size]

\* A block of the object o.
ObjectRealloc(n, o, old_size, new_size) ==
  [nq_realloc(n, old_size, new_size) EXCEPT !.heap[o].bytes = @ - old_size + new_size]

FreeObjects(n, dead) ==
  [nq_realloc(n, SumFunction([o \in dead |-> Owned(n.heap[o]) + SizeOf[n.heap[o].type]]), 0)
     EXCEPT !.heap = [o \in Obj |-> IF o \in dead THEN NoObj ELSE @[o]]]

\* The intern table is rebuilt in a new block before the old one is freed.
RemoveWhiteStrings(n) ==
  LET block == SizeOf["pointer"] * n.strings
  IN  TableRealloc(TableRealloc(n, 0, block), block, 0)

\* A collection that finds dead, and the next threshold.
Collected(n, dead) ==
  LET left == FreeObjects(RemoveWhiteStrings(n), dead)
  IN  [left EXCEPT !.nq_gc_threshold = Max({2 * left.nq_bytes_allocated, MinThreshold})]

(***************************************************************************)
(* allocObject: nq_gc_maybe first, and which objects it finds dead is any  *)
(* choice.                                                                 *)
(***************************************************************************)
MaybeCollected(n) ==
  IF nq_gc_vm /\ n.nq_bytes_allocated > n.nq_gc_threshold
  THEN {Collected(n, dead) : dead \in SUBSET Live(n)}
  ELSE {n}

\* In a free place; buffers that were allocated before it may become its own.
AllocObject(n, object) ==
  UNION {{[nq_realloc(c, 0, SizeOf[object.type]) EXCEPT !.heap[o] = object] :
            o \in Obj \ Live(c)} :
           c \in MaybeCollected(n)}

-----------------------------------------------------------------------------
(* Strings. *)

StringOf(t, buffer) == [type |-> "string", text |-> t, bytes |-> SizeOf["string"] + buffer]

\* tableAddString, of a string that is in the heap already.
AddString(n) ==
  IF Cardinality(Strings(n)) > (n.strings * 3) \div 4
  THEN LET new_cap == GROW_CAPACITY(n.strings)
       IN  [TableRealloc(TableRealloc(n, 0, SizeOf["pointer"] * new_cap), SizeOf["pointer"] * n.strings, 0)
              EXCEPT !.strings = new_cap]
  ELSE n

\* The buffer is given back to free() and not to nq_realloc.
SlipAllocString(n, t, buffer) ==
  IF Interned(n, t) THEN {n}
  ELSE {AddString(c) : c \in AllocObject(n, StringOf(t, buffer))}

(***************************************************************************)
(* allocString takes over a buffer of that many bytes, already counted, or *)
(* frees it when there is a string of the text.                            *)
(***************************************************************************)
AllocString(n, t, buffer) ==
  IF Interned(n, t) THEN {nq_realloc(n, Length[t] + 1, 0)}
  ELSE {AddString(c) : c \in AllocObject(n, StringOf(t, buffer))}

\* copyString, of a name, a constant or a piece of a string.
CopyString(t) ==
  /\ ~ Interned(m, t)
  /\ m' \in AllocString(nq_realloc(m, 0, Length[t] + 1), t, Length[t] + 1)
  /\ UNCHANGED rest

\* concatStrings, upper(), lower(), replace(), repeat(), file_read(): the
\* buffer has room for the text and its zero.
TakeString(t) ==
  /\ m' \in AllocString(nq_realloc(m, 0, Length[t] + 1), t, Length[t] + 1)
  /\ UNCHANGED rest

\* OP_MUL of a string and a number makes its buffer with malloc.
OpMul(t) ==
  /\ unseen' = unseen + Length[t] + 1 /\ unseen' + unreturned <= MiscountMax
  /\ m' \in AllocString(m, t, Length[t] + 1)
  /\ UNCHANGED <<nq_gc_vm, unreturned>>

\* join() sets bytes aside for a number, and later returns those of the text.
Join(t) ==
  /\ unreturned' = unreturned + Spare /\ unseen + unreturned' <= MiscountMax
  /\ m' \in AllocString(nq_realloc(m, 0, Length[t] + 1 + Spare), t, Length[t] + 1 + Spare)
  /\ UNCHANGED <<nq_gc_vm, unseen>>

-----------------------------------------------------------------------------
(* Arrays, functions and natives. *)

NewArray ==
  /\ m' \in AllocObject(m, [type |-> "array", count |-> 0, capacity |-> 0,
                            bytes |-> SizeOf["array"]])
  /\ UNCHANGED rest

\* arrayPush, of push(), array literals, slices and split().
ArrayPush(o) ==
  /\ m.heap[o].type = "array" /\ m.heap[o].count < CountMax
  /\ LET array == m.heap[o]
         new_cap == Room(array.count, array.capacity)
     IN  m' = [ObjectRealloc(m, o, ValueBytes(array.capacity), ValueBytes(new_cap))
                 EXCEPT !.heap[o].count = @ + 1, !.heap[o].capacity = new_cap]
  /\ UNCHANGED rest

\* arrayPop and nativeRemove leave the capacity as it is.
ArrayPop(o) ==
  /\ m.heap[o].type = "array" /\ m.heap[o].count > 0
  /\ m' = [m EXCEPT !.heap[o].count = @ - 1]
  /\ UNCHANGED rest

\* The object and then its chunk, which is empty.
NewFunction ==
  /\ \E n \in AllocObject(m, [type |-> "function", count |-> 0, capacity |-> 0, values |-> 0,
                              constants |-> 0, bytes |-> SizeOf["function"]]), o \in Obj :
       /\ m.heap[o] # n.heap[o] /\ n.heap[o].type = "function"
       /\ m' = ObjectRealloc(n, o, 0, SizeOf["chunk"])
  /\ UNCHANGED rest

\* Code and lines grow together.
WriteChunk(o) ==
  /\ m.heap[o].type = "function" /\ m.heap[o].count < CountMax
  /\ LET chunk == m.heap[o]
         new_cap == Room(chunk.count, chunk.capacity)
     IN  m' = [ObjectRealloc(m, o, CodeBytes(chunk.capacity), CodeBytes(new_cap))
                 EXCEPT !.heap[o].count = @ + 1, !.heap[o].capacity = new_cap]
  /\ UNCHANGED rest

AddConstant(o) ==
  /\ m.heap[o].type = "function" /\ m.heap[o].values < CountMax
  /\ LET chunk == m.heap[o]
         new_cap == Room(chunk.values, chunk.constants)
     IN  m' = [ObjectRealloc(m, o, ValueBytes(chunk.constants), ValueBytes(new_cap))
                 EXCEPT !.heap[o].values = @ + 1, !.heap[o].constants = new_cap]
  /\ UNCHANGED rest

NewNative ==
  /\ m' \in AllocObject(m, [type |-> "native", bytes |-> SizeOf["native"]])
  /\ UNCHANGED rest

-----------------------------------------------------------------------------
(* The machine. *)

\* adjustCapacity: the new array is there before the old one is freed.
TableGrown(n) ==
  LET new_cap == GROW_CAPACITY(n.globals.capacity)
  IN  [TableRealloc(TableRealloc(n, 0, SizeOf["Entry"] * new_cap), SizeOf["Entry"] * n.globals.capacity, 0)
         EXCEPT !.globals.capacity = new_cap]

\* tableSet, of a key that takes a slot of its own; growth forgets tombstones.
TableSet ==
  /\ IF m.globals.count + 1 > (m.globals.capacity * 3) \div 4
     THEN /\ GROW_CAPACITY(m.globals.capacity) <= GlobalsMax
          /\ \E live \in 0 .. m.globals.count :
               m' = [TableGrown(m) EXCEPT !.globals.count = live + 1]
     ELSE m' = [m EXCEPT !.globals.count = @ + 1]
  /\ UNCHANGED rest

RunVM == ~ nq_gc_vm /\ nq_gc_vm' = TRUE /\ UNCHANGED <<m, unseen, unreturned>>

\* gc_collect() and nq_gc.
Collect ==
  /\ nq_gc_vm
  /\ m' \in {Collected(m, dead) : dead \in SUBSET Live(m)}
  /\ UNCHANGED rest

\* freeVM; the threshold stays for the next machine.
FreeVM ==
  /\ LET tables == TableRealloc(TableRealloc(m, SizeOf["Entry"] * m.globals.capacity, 0),
                                SizeOf["pointer"] * m.strings, 0)
     IN  m' = [FreeObjects(tables, Live(m))
                 EXCEPT !.globals = [count |-> 0, capacity |-> 0], !.strings = 0]
  /\ UNCHANGED rest

-----------------------------------------------------------------------------
Init ==
  /\ m = [heap               |-> [o \in Obj |-> NoObj],
          strings            |-> 0,                              \* capacity of nq_string_table
          globals            |-> [count |-> 0, capacity |-> 0],
          tables             |-> 0,                              \* bytes of the two
          nq_bytes_allocated |-> 0,
          nq_gc_threshold    |-> MinThreshold]
  /\ nq_gc_vm = FALSE
  /\ unseen = 0 /\ unreturned = 0

Next ==
  \/ \E t \in Text : CopyString(t) \/ TakeString(t) \/ OpMul(t) \/ Join(t)
  \/ NewArray \/ NewFunction \/ NewNative
  \/ \E o \in Obj : ArrayPush(o) \/ ArrayPop(o) \/ WriteChunk(o) \/ AddConstant(o)
  \/ TableSet \/ RunVM \/ Collect \/ FreeVM

Spec == Init /\ [][Next]_vars

-----------------------------------------------------------------------------
(***************************************************************************)
(* Buffers and tables have room for what is in them, and a string is there *)
(* once.                                                                   *)
(***************************************************************************)
TypeOK ==
  /\ \A o \in Live(m) : LET x == m.heap[o] IN
       /\ x.type \in {"array", "function"} => x.count <= x.capacity
       /\ x.type = "function" => x.values <= x.constants
  /\ \A o1, o2 \in Strings(m) : m.heap[o1].text = m.heap[o2].text => o1 = o2
  /\ Cardinality(Strings(m)) <= m.strings
  /\ m.globals.count <= m.globals.capacity
  /\ {m.nq_bytes_allocated, m.tables, m.nq_gc_threshold} \subseteq Nat

(***************************************************************************)
(* vm_design.md:74 and memory.c:4: nq_bytes_allocated tracks every byte.   *)
(* After any sequence of allocations, growth, collections and closed       *)
(* machines the counter, from which the collector is started, is the size  *)
(* of all blocks there are, although nq_realloc only knows what its        *)
(* callers say; but it may have lost, for good, as many bytes as OP_MUL    *)
(* has not counted and gained as many as join() has not returned.          *)
(***************************************************************************)
BytesCounted ==
  LET allocated == m.tables + SumFunction([o \in Live(m) |-> m.heap[o].bytes])
  IN  m.nq_bytes_allocated \in allocated - unseen .. allocated + unreturned
=============================================================================
