-------------------------------- MODULE Table --------------------------------
(***************************************************************************)
(* The open-addressing hash table of src/src/table.c, as a record          *)
(*     [count, capacity, entries]                                          *)
(* and one operator per function of the C interface.  Probing is linear,   *)
(* deletion leaves a tombstone (no key, a non-nil value) and growing       *)
(* rebuilds the array from the live entries.                               *)
(*                                                                         *)
(* A key is an interned string, so two keys are equal exactly when they    *)
(* are the same element of Key; Hash gives the hash stored in the string.  *)
(*                                                                         *)
(* The operators called Slip... are slips a change to the code could make; *)
(* nothing uses them but the mutation of the definition they precede, which *)
(* shows that a property would notice.                                     *)
(***************************************************************************)
EXTENDS Integers, FiniteSets

CONSTANTS
  Key,          \* interned strings that may name an entry
  Value,        \* values an entry may hold
  Nil,          \* NIL_VAL
  True,         \* BOOL_VAL(true), the value of a tombstone
  NoKey,        \* the NULL key pointer
  Hash,         \* Hash[k] is k->hash
  MinCapacity   \* the first capacity of GROW_CAPACITY (8 in the code)

ASSUME TableAssumption ==
  /\ Nil \in Value /\ True \in Value /\ Nil # True
  /\ NoKey \notin Key
  /\ Hash \in [Key -> Nat]
  /\ MinCapacity \in Nat /\ MinCapacity >= 2

-----------------------------------------------------------------------------
(* Entries and tables. *)

Entry == [key : Key \union {NoKey}, value : Value]

EmptyEntry == [key |-> NoKey, value |-> Nil]
Tombstone  == [key |-> NoKey, value |-> True]

IsLive(e)      == e.key # NoKey
IsEmpty(e)     == e.key = NoKey /\ e.value = Nil
IsTombstone(e) == e.key = NoKey /\ e.value # Nil

Slots(capacity) == 0 .. capacity - 1

(* NQ_ALLOC followed by the loop that blanks every entry. *)
BlankTable(capacity) ==
  [count    |-> 0,
   capacity |-> capacity,
   entries  |-> [s \in Slots(capacity) |-> EmptyEntry]]

(* initTable *)
InitTable == BlankTable(0)

(* The array may be filled to the last slot. *)
SlipMaxLoad(capacity) == capacity

(* (int)(capacity * TABLE_MAX_LOAD) *)
MaxLoad(capacity) == (3 * capacity) \div 4

GrowCapacity(capacity) ==
  IF capacity < MinCapacity THEN MinCapacity ELSE 2 * capacity

-----------------------------------------------------------------------------
(* findEntry. *)

(* The slot looked at in turn d of the probe loop: d steps of
   idx = (idx + 1) % capacity after idx = key->hash % capacity. *)
Home(k, capacity) == Hash[k] % capacity

ProbeSlot(k, d, capacity) ==
  LET i == Home(k, capacity) + d IN IF i < capacity THEN i ELSE i - capacity

ProbeEntry(t, k, d) == t.entries[ProbeSlot(k, d, t.capacity)]

(* Whether the loop returns in turn d: it has met an empty slot, or the key.
   When no turn does the loop of findEntry never ends. *)
StopsAt(t, k, d) ==
  LET e == ProbeEntry(t, k, d) IN IsEmpty(e) \/ e.key = k

LastTurn(t, k) ==
  CHOOSE d \in Slots(t.capacity) :
    StopsAt(t, k, d) /\ \A x \in 0 .. d - 1 : ~ StopsAt(t, k, x)

TombstoneTurns(t, k, last) ==
  {d \in 0 .. last : IsTombstone(ProbeEntry(t, k, d))}

First(S) == CHOOSE d \in S : \A x \in S : d <= x

(* Tombstones are not used again. *)
SlipFindEntry(t, k) == ProbeSlot(k, LastTurn(t, k), t.capacity)

(* The slot findEntry returns: that of the key; or, when the search ends at
   an empty slot, the first tombstone passed on the way, if there was one. *)
FindEntry(t, k) ==
  LET last  == LastTurn(t, k)
      tombs == TombstoneTurns(t, k, last)
  IN  IF ProbeEntry(t, k, last).key # k /\ tombs # {}
      THEN ProbeSlot(k, First(tombs), t.capacity)
      ELSE ProbeSlot(k, last, t.capacity)

-----------------------------------------------------------------------------
(* adjustCapacity, tableGet, tableSet, tableDelete. *)

(* One turn of the copying loop, and the new table after i turns: a live
   entry goes where findEntry puts it in the new array, an empty slot or a
   tombstone is left behind. *)
CopyEntry(new, e) ==
  IF IsLive(e)
  THEN [new EXCEPT !.count = @ + 1,
                   !.entries = [@ EXCEPT ![FindEntry(new, e.key)] = e]]
  ELSE new

Copied(t, capacity) ==
  LET copied[i \in 0 .. t.capacity] ==
        IF i = 0 THEN BlankTable(capacity)
                 ELSE CopyEntry(copied[i - 1], t.entries[i - 1])
  IN  copied

AdjustCapacity(t, capacity) == Copied(t, capacity)[t.capacity]

(* The array grows with every entry in the slot it had. *)
SlipReserve(t) ==
  IF t.count + 1 > MaxLoad(t.capacity)
  THEN LET grown == BlankTable(GrowCapacity(t.capacity))
       IN  [grown EXCEPT !.count = t.count,
                         !.entries = [s \in DOMAIN @ |->
                            IF s \in Slots(t.capacity) THEN t.entries[s] ELSE @[s]]]
  ELSE t

(* The test for load at the head of tableSet. *)
Reserve(t) ==
  IF t.count + 1 > MaxLoad(t.capacity)
  THEN AdjustCapacity(t, GrowCapacity(t.capacity))
  ELSE t

(* tableSet: the new table, and the value returned (is_new). *)
TableSet(t, k, v) ==
  LET r == Reserve(t)
      s == FindEntry(r, k)
  IN  [r EXCEPT !.count   = IF IsEmpty(r.entries[s]) THEN @ + 1 ELSE @,
                !.entries = [@ EXCEPT ![s] = [key |-> k, value |-> v]]]

TableSetIsNew(t, k) ==
  LET r == Reserve(t) IN ~ IsLive(r.entries[FindEntry(r, k)])

(* tableGet: whether the key is there, and the value stored through out. *)
TableHas(t, k) ==
  t.count # 0 /\ IsLive(t.entries[FindEntry(t, k)])

TableGet(t, k) == t.entries[FindEntry(t, k)].value

(* A deleted entry no longer counts. *)
SlipTableDelete(t, k) ==
  IF TableHas(t, k)
  THEN [t EXCEPT !.count = @ - 1,
                 !.entries = [@ EXCEPT ![FindEntry(t, k)] = Tombstone]]
  ELSE t

(* tableDelete *)
TableDelete(t, k) ==
  IF TableHas(t, k)
  THEN [t EXCEPT !.entries = [@ EXCEPT ![FindEntry(t, k)] = Tombstone]]
  ELSE t

-----------------------------------------------------------------------------
(* What the functions above rely on. *)

Occupied(t) == {s \in Slots(t.capacity) : ~ IsEmpty(t.entries[s])}
LiveSlots(t) == {s \in Slots(t.capacity) : IsLive(t.entries[s])}

TableType(t) ==
  t \in [count    : Nat,
         capacity : Nat,
         entries  : [Slots(t.capacity) -> Entry]]
=============================================================================
