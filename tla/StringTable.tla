----------------------------- MODULE StringTable -----------------------------
(***************************************************************************)
(* The table of interned strings of src/src/object.c, as a record          *)
(*     [count, capacity, entries]                                          *)
(* whose entries are objects or NoObj, the NULL pointer.  Probing is       *)
(* linear; nothing is ever deleted from the table, but the collector of    *)
(* src/src/gc.c rebuilds it from the strings it has marked.                *)
(*                                                                         *)
(* The table holds pointers: what text an object has is in the heap, and   *)
(* the operators take the function text from objects to their text.        *)
(*                                                                         *)
(* Slip... operators: see module Table.                                    *)
(***************************************************************************)
EXTENDS Integers, FiniteSets

CONSTANTS
  Obj,          \* addresses of heap objects
  NoObj,        \* the NULL pointer
  Text,         \* contents of strings
  TextHash,     \* TextHash[x] is hashString of the content x
  MinCapacity   \* the first capacity of GROW_CAPACITY (8 in the code)

ASSUME StringTableAssumption ==
  /\ NoObj \notin Obj
  /\ TextHash \in [Text -> Nat]
  /\ MinCapacity \in Nat /\ MinCapacity >= 2

-----------------------------------------------------------------------------

Slots(capacity) == 0 .. capacity - 1

Blank(capacity) == [s \in Slots(capacity) |-> NoObj]

(* initStringTable *)
InitStringTable == [count |-> 0, capacity |-> 0, entries |-> Blank(0)]

GrowCapacity(capacity) ==
  IF capacity < MinCapacity THEN MinCapacity ELSE 2 * capacity

(* The slot a probe for hash looks at in turn d. *)
ProbeSlot(hash, d, capacity) == ((hash % capacity) + d) % capacity

(* The turns in which a probe meets an entry it can stop at; the loops that
   probe have no other end. *)
Turns(entries, capacity, hash, wanted) ==
  {d \in Slots(capacity) : entries[ProbeSlot(hash, d, capacity)] \in wanted}

FirstSlot(entries, capacity, hash, wanted) ==
  LET turns == Turns(entries, capacity, hash, wanted)
      first == CHOOSE d \in turns : \A x \in turns : d <= x
  IN  ProbeSlot(hash, first, capacity)

(* tableFindString *)
FindString(t, x, text) ==
  IF t.capacity = 0 THEN NoObj
  ELSE LET same == {o \in Obj : text[o] = x}
       IN  t.entries[FirstSlot(t.entries, t.capacity, TextHash[x],
                               same \union {NoObj})]

(* The loop that moves the strings of keep, in the order of the old array,
   into an empty one: the new array after i turns. *)
Moved(t, keep, capacity, text) ==
  LET moved[i \in 0 .. t.capacity] ==
        IF i = 0 THEN Blank(capacity)
        ELSE LET s == t.entries[i - 1]
                 to == FirstSlot(moved[i - 1], capacity, TextHash[text[s]], {NoObj})
             IN  IF s \in keep THEN [moved[i - 1] EXCEPT ![to] = s]
                                ELSE moved[i - 1]
  IN  moved[t.capacity]

(* The head of tableAddString: grow at 75% load. *)
Grown(t, text) ==
  IF t.count + 1 > (t.capacity * 3) \div 4
  THEN LET capacity == GrowCapacity(t.capacity)
       IN  [t EXCEPT !.capacity = capacity,
                     !.entries = Moved(t, Obj, capacity, text)]
  ELSE t

(* tableAddString *)
AddString(t, s, text) ==
  LET g == Grown(t, text)
      slot == FirstSlot(g.entries, g.capacity, TextHash[text[s]], {NoObj, s})
  IN  [g EXCEPT !.entries[slot] = s,
                !.count = IF g.entries[slot] = NoObj THEN @ + 1 ELSE @]

Strings(t) == {t.entries[s] : s \in Slots(t.capacity)} \ {NoObj}

(* Dead strings are taken out where they are. *)
SlipRemoveWhiteStrings(t, marked, text) ==
  [t EXCEPT !.count = Cardinality(Strings(t) \intersect marked),
            !.entries = [s \in DOMAIN @ |-> IF @[s] \in marked THEN @[s] ELSE NoObj]]

(* removeWhiteStrings: an array of the same size with the marked strings. *)
RemoveWhiteStrings(t, marked, text) ==
  IF t.capacity = 0 THEN t
  ELSE [t EXCEPT !.count = Cardinality({s \in Slots(t.capacity) :
                                          t.entries[s] \in marked}),
                 !.entries = Moved(t, marked, t.capacity, text)]
=============================================================================
