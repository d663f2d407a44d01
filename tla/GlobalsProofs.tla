---------------------------- MODULE GlobalsProofs ----------------------------
(***************************************************************************)
(* The theorems about the global variables, for every set of names and     *)
(* values, every hash function and every first capacity.  First come the   *)
(* facts about the operators of Table: each keeps a table WellFormed,      *)
(* which is the inductive invariant.                                       *)
(***************************************************************************)
EXTENDS Globals, SequencesExt, WellFoundedInduction, SequenceTheorems, FiniteSetTheorems, TLAPS

-----------------------------------------------------------------------------
(* Facts about naturals and sequences. *)

(* Every non-empty set of natural numbers has a least element: what makes
   the first empty slot of a probe sequence, or the innermost of several
   handlers, well defined. *)
LEMMA LeastElement ==
  ASSUME NEW S \in SUBSET Nat, S # {}
  PROVE  \E k \in S : \A n \in S : k <= n
<1>. DEFINE R == {p \in Nat \X Nat : p[1] < p[2]}
<1>1. IsWellFoundedOn(R, Nat)
  BY NatLessThanWellFounded DEF OpToRel
<1>2. PICK k \in S : \A n \in S : ~ (<<n, k>> \in R)
  <2>. HIDE DEF R
  <2>. QED  BY <1>1, WFMin
<1>3. ASSUME NEW n \in S PROVE k <= n
  <2>1. <<n, k>> \notin R
    BY <1>2
  <2>2. k \in Nat /\ n \in Nat
    OBVIOUS
  <2>3. ~ (n < k)
    BY <2>1, <2>2
  <2>. QED  BY <2>2, <2>3
<1>. QED  BY <1>3

(* A set of natural numbers that holds 0 and is closed under successor holds
   them all. *)
LEMMA SetInduction ==
  ASSUME NEW S \in SUBSET Nat, 0 \in S, \A n \in S : n + 1 \in S
  PROVE  S = Nat
<1>. SUFFICES ASSUME Nat \ S # {} PROVE FALSE
  OBVIOUS
<1>1. PICK k \in Nat \ S : \A n \in Nat \ S : k <= n
  <2>1. Nat \ S \in SUBSET Nat
    OBVIOUS
  <2>. QED  BY <2>1, LeastElement
<1>2. k # 0 /\ k - 1 \in Nat
  OBVIOUS
<1>3. k - 1 \in S
  BY <1>1, <1>2
<1>. QED  BY <1>2, <1>3

(* The same up to a bound. *)
LEMMA BoundedInduction ==
  ASSUME NEW N \in Nat, NEW S \in SUBSET (0 .. N), 0 \in S,
         \A n \in S : n < N => n + 1 \in S
  PROVE  S = 0 .. N
<1>. DEFINE T == S \union {n \in Nat : n > N}
<1>1. \A n \in S : n \in Nat /\ n <= N
  OBVIOUS
<1>2. 0 \in T
  OBVIOUS
<1>3. \A n \in T : n + 1 \in T
  BY <1>1
<1>4. T = Nat
  <2>1. T \in SUBSET Nat
    BY <1>1
  <2>. HIDE DEF T
  <2>. QED  BY <1>2, <1>3, <2>1, SetInduction
<1>5. \A n \in 0 .. N : n \in S
  <2>. TAKE n \in 0 .. N
  <2>1. n \in T
    <3>. HIDE DEF T
    <3>. QED  BY <1>4
  <2>. QED  BY <2>1
<1>. QED  BY <1>5

-----------------------------------------------------------------------------
(* The probe sequence. *)

(* The turns 0 .. capacity - 1 of a search visit every slot of the array. *)
LEMMA ProbeSlots ==
  ASSUME NEW k \in Key, NEW c \in Nat, c > 0
  PROVE  /\ \A d \in Slots(c) : ProbeSlot(k, d, c) \in Slots(c)
         /\ \A s \in Slots(c) : \E d \in Slots(c) : ProbeSlot(k, d, c) = s
<1>1. Home(k, c) \in 0 .. c - 1
  BY TableAssumption DEF Home
<1>2. \A d \in Slots(c) : ProbeSlot(k, d, c) \in Slots(c)
  BY <1>1 DEF ProbeSlot, Slots
<1>3. ASSUME NEW s \in Slots(c)
      PROVE  \E d \in Slots(c) : ProbeSlot(k, d, c) = s
  <2>. DEFINE d == IF s < Home(k, c) THEN s - Home(k, c) + c ELSE s - Home(k, c)
  <2>1. d \in Slots(c) /\ ProbeSlot(k, d, c) = s
    BY <1>1 DEF ProbeSlot, Slots
  <2>. QED  BY <2>1
<1>. QED  BY <1>2, <1>3

(* A table with an empty slot: every search in it ends. *)
HasEmptySlot(t) == \E s \in Slots(t.capacity) : IsEmpty(t.entries[s])

(* findEntry's loop stops at some turn when the array has an empty slot. *)
LEMMA SearchEnds ==
  ASSUME NEW t, TableType(t), HasEmptySlot(t), NEW k \in Key
  PROVE  \E d \in Slots(t.capacity) : StopsAt(t, k, d)
<1>1. PICK s \in Slots(t.capacity) : IsEmpty(t.entries[s])
  BY DEF HasEmptySlot
<1>2. t.capacity \in Nat /\ t.capacity > 0
  BY <1>1 DEF TableType, Slots
<1>3. PICK d \in Slots(t.capacity) : ProbeSlot(k, d, t.capacity) = s
  BY <1>2, ProbeSlots
<1>. QED  BY <1>1, <1>3 DEF StopsAt, ProbeEntry

(* The first turn in which it ends exists. *)
LEMMA LastTurnFact ==
  ASSUME NEW t, TableType(t), HasEmptySlot(t), NEW k \in Key
  PROVE  /\ LastTurn(t, k) \in Slots(t.capacity)
         /\ StopsAt(t, k, LastTurn(t, k))
         /\ \A x \in 0 .. LastTurn(t, k) - 1 : ~ StopsAt(t, k, x)
<1>. DEFINE S == {d \in Slots(t.capacity) : StopsAt(t, k, d)}
<1>1. S \in SUBSET Nat /\ S # {}
  BY SearchEnds DEF Slots
<1>2. PICK m \in S : \A n \in S : m <= n
  <2>. HIDE DEF S
  <2>. QED  BY <1>1, LeastElement
<1>3. \A x \in 0 .. m - 1 : x \in Slots(t.capacity) /\ ~ (m <= x)
  BY DEF Slots, TableType
<1>4. /\ m \in Slots(t.capacity)
      /\ StopsAt(t, k, m)
      /\ \A x \in 0 .. m - 1 : ~ StopsAt(t, k, x)
  BY <1>2, <1>3
<1>. QED  BY <1>4 DEF LastTurn

(* findEntry returns a slot of the array; it holds the key or nothing live. *)
LEMMA FindEntryFact ==
  ASSUME NEW t, TableType(t), HasEmptySlot(t), NEW k \in Key
  PROVE  /\ FindEntry(t, k) \in Slots(t.capacity)
         /\ \/ t.entries[FindEntry(t, k)].key = k
            \/ ~ IsLive(t.entries[FindEntry(t, k)])
<1>. DEFINE last  == LastTurn(t, k)
            tombs == TombstoneTurns(t, k, last)
<1>1. last \in Slots(t.capacity) /\ StopsAt(t, k, last)
  BY LastTurnFact
<1>2. t.capacity \in Nat /\ t.capacity > 0
  BY <1>1 DEF TableType, Slots
<1>3. \A d \in Slots(t.capacity) : ProbeSlot(k, d, t.capacity) \in Slots(t.capacity)
  BY <1>2, ProbeSlots
<1>4. CASE ProbeEntry(t, k, last).key # k /\ tombs # {}
  <2>1. tombs \in SUBSET Nat
    BY <1>1 DEF TombstoneTurns, Slots
  <2>2. PICK m \in tombs : \A n \in tombs : m <= n
    <3>. HIDE DEF tombs
    <3>. QED  BY <1>4, <2>1, LeastElement
  <2>3. First(tombs) \in tombs
    <3>. HIDE DEF tombs
    <3>. QED  BY <2>2 DEF First
  <2>4. First(tombs) \in Slots(t.capacity) /\ IsTombstone(ProbeEntry(t, k, First(tombs)))
    BY <1>1, <1>2, <2>3 DEF TombstoneTurns, Slots
  <2>5. FindEntry(t, k) = ProbeSlot(k, First(tombs), t.capacity)
    BY <1>4 DEF FindEntry
  <2>. QED  BY <1>3, <2>4, <2>5 DEF ProbeEntry, IsTombstone, IsLive
<1>5. CASE ~ (ProbeEntry(t, k, last).key # k /\ tombs # {})
  <2>1. FindEntry(t, k) = ProbeSlot(k, last, t.capacity)
    BY <1>5 DEF FindEntry
  <2>. QED  BY <1>1, <1>3, <2>1 DEF StopsAt, ProbeEntry, IsEmpty, IsLive
<1>. QED  BY <1>4, <1>5

-----------------------------------------------------------------------------
(* Chains: nothing that would end a search for the key of a live entry comes
   before that entry in its probe sequence. *)

Chain(t) ==
  \A s \in LiveSlots(t) : \A d \in Slots(t.capacity) :
    ProbeSlot(t.entries[s].key, d, t.capacity) = s
      => \A x \in 0 .. d - 1 : ~ StopsAt(t, t.entries[s].key, x)

(* findEntry finds what is there ... *)
LEMMA FoundLive ==
  ASSUME NEW t, TableType(t), HasEmptySlot(t), Chain(t), NEW s \in LiveSlots(t)
  PROVE  FindEntry(t, t.entries[s].key) = s
<1>. DEFINE k == t.entries[s].key
            last == LastTurn(t, k)
<1>1. k \in Key /\ s \in Slots(t.capacity) /\ t.capacity \in Nat /\ t.capacity > 0
  BY DEF LiveSlots, TableType, Entry, IsLive, Slots
<1>2. PICK d \in Slots(t.capacity) : ProbeSlot(k, d, t.capacity) = s
  BY <1>1, ProbeSlots
<1>3. StopsAt(t, k, d)
  BY <1>2 DEF StopsAt, ProbeEntry
<1>4. /\ last \in Slots(t.capacity)
      /\ StopsAt(t, k, last)
      /\ \A x \in 0 .. last - 1 : ~ StopsAt(t, k, x)
  BY <1>1, LastTurnFact
<1>5. \A x \in 0 .. d - 1 : ~ StopsAt(t, k, x)
  BY <1>2 DEF Chain
<1>6. last = d
  <2>1. ~ (d < last) /\ ~ (last < d)
    BY <1>3, <1>4, <1>5 DEF Slots
  <2>. QED  BY <2>1, <1>4 DEF Slots
<1>7. ProbeEntry(t, k, last).key = k
  BY <1>2, <1>6 DEF ProbeEntry
<1>. QED  BY <1>2, <1>6, <1>7 DEF FindEntry

(* ... and the key of a live entry belongs to that entry alone. *)
LEMMA KeysUnique ==
  ASSUME NEW t, TableType(t), HasEmptySlot(t), Chain(t),
         NEW s1 \in LiveSlots(t), NEW s2 \in LiveSlots(t),
         t.entries[s1].key = t.entries[s2].key
  PROVE  s1 = s2
<1>1. FindEntry(t, t.entries[s1].key) = s1 /\ FindEntry(t, t.entries[s2].key) = s2
  BY FoundLive
<1>. QED  BY <1>1

(* When findEntry answers a slot that is not live, the key is in no slot, and
   no search for it ends before the turn of that slot. *)
LEMMA NotFound ==
  ASSUME NEW t, TableType(t), HasEmptySlot(t), Chain(t), NEW k \in Key,
         ~ IsLive(t.entries[FindEntry(t, k)])
  PROVE  /\ \A s \in LiveSlots(t) : t.entries[s].key # k
         /\ \A d \in Slots(t.capacity) :
              ProbeSlot(k, d, t.capacity) = FindEntry(t, k)
                => \A x \in 0 .. d - 1 : ~ StopsAt(t, k, x)
<1>1. \A s \in LiveSlots(t) : t.entries[s].key # k
  BY FoundLive DEF LiveSlots
<1>. DEFINE last  == LastTurn(t, k)
            tombs == TombstoneTurns(t, k, last)
<1>2. /\ last \in Slots(t.capacity)
      /\ \A x \in 0 .. last - 1 : ~ StopsAt(t, k, x)
  BY LastTurnFact
<1>3. t.capacity \in Nat /\ t.capacity > 0
  BY <1>2 DEF TableType, Slots
<1>4. PICK m \in 0 .. last : FindEntry(t, k) = ProbeSlot(k, m, t.capacity)
  <2>1. CASE ProbeEntry(t, k, last).key # k /\ tombs # {}
    <3>1. tombs \in SUBSET Nat
      BY DEF TombstoneTurns
    <3>2. PICK m \in tombs : \A n \in tombs : m <= n
      <4>. HIDE DEF tombs
      <4>. QED  BY <2>1, <3>1, LeastElement
    <3>3. First(tombs) \in tombs
      <4>. HIDE DEF tombs
      <4>. QED  BY <3>2 DEF First
    <3>4. First(tombs) \in 0 .. last
      BY <3>3 DEF TombstoneTurns
    <3>5. FindEntry(t, k) = ProbeSlot(k, First(tombs), t.capacity)
      BY <2>1 DEF FindEntry
    <3>. QED  BY <3>4, <3>5
  <2>2. CASE ~ (ProbeEntry(t, k, last).key # k /\ tombs # {})
    <3>1. FindEntry(t, k) = ProbeSlot(k, last, t.capacity)
      BY <2>2 DEF FindEntry
    <3>. QED  BY <3>1, <1>2 DEF Slots
  <2>. QED  BY <2>1, <2>2
<1>5. ASSUME NEW d \in Slots(t.capacity), ProbeSlot(k, d, t.capacity) = FindEntry(t, k)
      PROVE  d = m
  <2>1. Home(k, t.capacity) \in 0 .. t.capacity - 1
    BY <1>3, TableAssumption DEF Home
  <2>. QED  BY <1>2, <1>3, <1>4, <1>5, <2>1 DEF ProbeSlot, Slots
<1>6. ASSUME NEW d \in Slots(t.capacity), ProbeSlot(k, d, t.capacity) = FindEntry(t, k),
             NEW x \in 0 .. d - 1
      PROVE  ~ StopsAt(t, k, x)
  <2>1. x \in 0 .. last - 1
    BY <1>2, <1>5, <1>6 DEF Slots
  <2>. QED  BY <1>2, <2>1
<1>. QED  BY <1>1, <1>6

-----------------------------------------------------------------------------
(* Storing an entry. *)

WithEntry(t, n, s, e) ==
  [count |-> n, capacity |-> t.capacity, entries |-> [t.entries EXCEPT ![s] = e]]

(* An entry stored where findEntry says keeps every chain whole. *)
LEMMA StoreFact ==
  ASSUME NEW t, TableType(t), HasEmptySlot(t), Chain(t),
         NEW k \in Key, NEW v \in Value, NEW n \in Nat
  PROVE  LET s == FindEntry(t, k)
             u == WithEntry(t, n, s, [key |-> k, value |-> v])
         IN  /\ TableType(u)
             /\ Chain(u)
             /\ Occupied(u) = Occupied(t) \union {s}
<1>. DEFINE s == FindEntry(t, k)
            e == [key |-> k, value |-> v]
            u == WithEntry(t, n, s, e)
<1>1. /\ s \in Slots(t.capacity)
      /\ t.entries[s].key = k \/ ~ IsLive(t.entries[s])
  BY FindEntryFact
<1>2. k # NoKey
  BY TableAssumption
<1>3. /\ u.capacity = t.capacity
      /\ u.entries = [t.entries EXCEPT ![s] = e]
      /\ t.entries \in [Slots(t.capacity) -> Entry]
      /\ t.capacity \in Nat
      /\ e \in Entry
  BY DEF WithEntry, TableType, Entry
<1>4. TableType(u)
  BY <1>1, <1>3 DEF WithEntry, TableType
<1>5. Occupied(u) = Occupied(t) \union {s}
  BY <1>1, <1>2, <1>3 DEF Occupied, IsEmpty
<1>6. ASSUME NEW r \in LiveSlots(u), NEW d \in Slots(u.capacity),
             ProbeSlot(u.entries[r].key, d, u.capacity) = r,
             NEW x \in 0 .. d - 1
      PROVE  ~ StopsAt(u, u.entries[r].key, x)
  <2>. DEFINE j == u.entries[r].key
              p == ProbeSlot(j, x, t.capacity)
  <2>1. j \in Key /\ r \in Slots(t.capacity) /\ t.capacity > 0 /\ x \in Slots(t.capacity)
    BY <1>3, <1>4 DEF LiveSlots, TableType, Entry, IsLive, Slots
  <2>2. p \in Slots(t.capacity)
    BY <1>3, <2>1, ProbeSlots
  <2>3. ~ StopsAt(t, j, x)
    <3>1. CASE r = s /\ IsLive(t.entries[s])
      <4>1. r \in LiveSlots(t) /\ t.entries[r].key = j
        BY <1>1, <1>3, <3>1 DEF LiveSlots
      <4>. QED  BY <1>3, <1>6, <4>1 DEF Chain
    <3>2. CASE r = s /\ ~ IsLive(t.entries[s])
      <4>1. j = k
        BY <1>1, <1>3, <3>2
      <4>. QED  BY <1>3, <1>6, <3>2, <4>1, NotFound
    <3>3. CASE r # s
      <4>1. r \in LiveSlots(t) /\ t.entries[r].key = j
        BY <1>3, <3>3 DEF LiveSlots
      <4>. QED  BY <1>3, <1>6, <4>1 DEF Chain
    <3>. QED  BY <3>1, <3>2, <3>3
  <2>4. CASE p # s
    BY <1>3, <2>2, <2>3, <2>4 DEF StopsAt, ProbeEntry
  <2>5. CASE p = s
    <3>1. j # k
      <4>1. CASE r = s
        (* x < d, and both turns look at s *)
        <5>1. Home(j, t.capacity) \in 0 .. t.capacity - 1
          BY <1>3, <2>1, TableAssumption DEF Home
        <5>2. x = d
          BY <1>3, <1>6, <2>1, <2>5, <4>1, <5>1 DEF ProbeSlot, Slots
        <5>. QED  BY <5>2
      <4>2. CASE r # s
        <5>1. r \in LiveSlots(t) /\ t.entries[r].key = j
          BY <1>3, <4>2 DEF LiveSlots
        <5>2. ASSUME j = k PROVE FALSE
          <6>1. FindEntry(t, k) = r
            BY <5>1, <5>2, FoundLive
          <6>. QED  BY <6>1, <4>2
        <5>. QED  BY <5>2
      <4>. QED  BY <4>1, <4>2
    <3>2. u.entries[s] = e
      BY <1>1, <1>3
    <3>. QED  BY <1>2, <1>3, <2>5, <3>1, <3>2 DEF StopsAt, ProbeEntry, IsEmpty
  <2>. QED  BY <2>4, <2>5
<1>7. Chain(u)
  BY <1>6 DEF Chain
<1>. QED  BY <1>4, <1>5, <1>7

-----------------------------------------------------------------------------
(* Well-formed tables: what every function of the interface preserves. *)

WellFormed(t) ==
  /\ TableType(t)
  /\ Chain(t)
  /\ t.count = Cardinality(Occupied(t))
  /\ t.count <= MaxLoad(t.capacity)
  /\ t.capacity = 0 \/ t.capacity >= MinCapacity

(* Some entry of t gives k the value v. *)
Binds(t, k, v) ==
  \E s \in Slots(t.capacity) : t.entries[s] = [key |-> k, value |-> v]

(* The slots in use are finitely many, so they can be counted. *)
LEMMA OccupiedFinite ==
  ASSUME NEW t, TableType(t)
  PROVE  IsFiniteSet(Occupied(t)) /\ Cardinality(Occupied(t)) \in Nat
<1>1. IsFiniteSet(Slots(t.capacity))
  BY FS_Interval DEF Slots, TableType
<1>2. Occupied(t) \subseteq Slots(t.capacity)
  BY DEF Occupied
<1>. QED  BY <1>1, <1>2, FS_Subset, FS_CardinalityType

(* Fewer occupied slots than slots: one of them is empty. *)
LEMMA RoomLeft ==
  ASSUME NEW t, TableType(t), Cardinality(Occupied(t)) < t.capacity
  PROVE  HasEmptySlot(t)
<1>. SUFFICES ASSUME ~ HasEmptySlot(t) PROVE FALSE
  OBVIOUS
<1>1. Occupied(t) = 0 .. t.capacity - 1
  BY DEF HasEmptySlot, Occupied, Slots
<1>2. t.capacity \in Nat
  BY DEF TableType
<1>3. Cardinality(0 .. t.capacity - 1) = t.capacity
  BY <1>2, FS_Interval
<1>. QED  BY <1>1, <1>2, <1>3

(* The load limit of a well-formed table leaves an empty slot. *)
LEMMA WellFormedRoom ==
  ASSUME NEW t, WellFormed(t), t.capacity > 0
  PROVE  HasEmptySlot(t)
<1>1. t.capacity \in Nat /\ t.count \in Nat
  BY DEF WellFormed, TableType
<1>2. MaxLoad(t.capacity) < t.capacity
  BY <1>1 DEF MaxLoad
<1>3. t.count < t.capacity
  BY <1>1, <1>2 DEF WellFormed, MaxLoad
<1>. QED  BY <1>3, RoomLeft DEF WellFormed

(* The array adjustCapacity starts from is well-formed and binds nothing. *)
LEMMA BlankFact ==
  ASSUME NEW c \in Nat
  PROVE  LET t == BlankTable(c)
         IN  /\ TableType(t) /\ Chain(t)
             /\ t.capacity = c
             /\ t.count = 0
             /\ Occupied(t) = {}
             /\ Cardinality(Occupied(t)) = 0
             /\ \A k \in Key, v \in Value : ~ Binds(t, k, v)
<1>. DEFINE t == BlankTable(c)
<1>1. \A s \in Slots(c) : t.entries[s] = EmptyEntry
  BY DEF BlankTable
<1>2. t.capacity = c /\ t.count = 0
  BY DEF BlankTable
<1>3. TableType(t)
  BY TableAssumption DEF BlankTable, TableType, Entry, EmptyEntry
<1>4. Occupied(t) = {} /\ LiveSlots(t) = {}
  BY <1>1, <1>2 DEF Occupied, LiveSlots, EmptyEntry, IsEmpty, IsLive
<1>5. Chain(t)
  BY <1>4 DEF Chain
<1>6. \A k \in Key, v \in Value : ~ Binds(t, k, v)
  BY <1>1, <1>2, TableAssumption DEF Binds, EmptyEntry
<1>. QED  BY <1>2, <1>3, <1>4, <1>5, <1>6, FS_EmptySet

(* tableSet and the copying loop store an entry for k: the table binds k to
   its value, and every other name as before. *)
LEMMA StoreBinds ==
  ASSUME NEW t, TableType(t), HasEmptySlot(t), Chain(t),
         NEW k \in Key, NEW v \in Value, NEW n \in Nat,
         NEW j \in Key, NEW w \in Value
  PROVE  LET s == FindEntry(t, k)
         IN  Binds(WithEntry(t, n, s, [key |-> k, value |-> v]), j, w)
               <=> IF j = k THEN w = v ELSE Binds(t, j, w)
<1>. DEFINE s == FindEntry(t, k)
            e == [key |-> k, value |-> v]
            u == WithEntry(t, n, s, e)
<1>1. /\ s \in Slots(t.capacity)
      /\ t.entries[s].key = k \/ ~ IsLive(t.entries[s])
  BY FindEntryFact
<1>2. /\ u.capacity = t.capacity
      /\ u.entries = [t.entries EXCEPT ![s] = e]
      /\ t.entries \in [Slots(t.capacity) -> Entry]
      /\ k # NoKey /\ j # NoKey
  BY TableAssumption DEF WithEntry, TableType
<1>3. u.entries[s] = e /\ \A r \in Slots(t.capacity) \ {s} : u.entries[r] = t.entries[r]
  BY <1>1, <1>2
<1>4. CASE j = k
  <2>1. \A r \in Slots(t.capacity) \ {s} : t.entries[r].key # k
    <3>1. SUFFICES ASSUME NEW r \in Slots(t.capacity) \ {s}, t.entries[r].key = k
                   PROVE  FALSE
      OBVIOUS
    <3>2. r \in LiveSlots(t)
      BY <1>2, <1>4, <3>1 DEF LiveSlots, IsLive
    <3>3. FindEntry(t, k) = r
      BY <3>1, <3>2, FoundLive
    <3>. QED  BY <3>3
  <2>2. Binds(u, j, w) <=> e = [key |-> j, value |-> w]
    BY <1>1, <1>2, <1>3, <1>4, <2>1 DEF Binds
  <2>. QED  BY <1>4, <2>2
<1>5. CASE j # k
  <2>1. t.entries[s].key # j
    BY <1>1, <1>2, <1>5 DEF IsLive
  <2>2. Binds(u, j, w) <=> Binds(t, j, w)
    BY <1>1, <1>2, <1>3, <1>5, <2>1 DEF Binds
  <2>. QED  BY <1>5, <2>2
<1>. QED  BY <1>4, <1>5

-----------------------------------------------------------------------------
(* adjustCapacity. *)

(* The copying loop is well defined: Copied(t, c) satisfies its recursion. *)
LEMMA CopiedDef ==
  ASSUME NEW t, t.capacity \in Nat, NEW c
  PROVE  Copied(t, c) =
           [i \in 0 .. t.capacity |->
              IF i = 0 THEN BlankTable(c)
                       ELSE CopyEntry(Copied(t, c)[i - 1], t.entries[i - 1])]
<1>. DEFINE Rec(g, n) ==
              g = [i \in 0 .. n |->
                     IF i = 0 THEN BlankTable(c)
                              ELSE CopyEntry(g[i - 1], t.entries[i - 1])]
            S == {n \in 0 .. t.capacity : \E g : Rec(g, n)}
<1>1. 0 \in S
  <2>1. Rec([i \in 0 .. 0 |-> BlankTable(c)], 0)
    OBVIOUS
  <2>2. \E g : Rec(g, 0)
    <3>. HIDE DEF Rec
    <3>. QED  BY <2>1
  <2>3. 0 \in 0 .. t.capacity
    OBVIOUS
  <2>. HIDE DEF Rec
  <2>. QED  BY <2>2, <2>3
<1>2. ASSUME NEW n \in S, n < t.capacity
      PROVE  n + 1 \in S
  <2>1. PICK g : Rec(g, n)
    OBVIOUS
  <2>. DEFINE h == [i \in 0 .. n + 1 |->
                      IF i <= n THEN g[i] ELSE CopyEntry(g[n], t.entries[n])]
  <2>2. \A i \in 0 .. n : h[i] = g[i]
    OBVIOUS
  <2>3. h[n + 1] = CopyEntry(h[n], t.entries[n])
    BY <2>2
  <2>4. \A i \in 0 .. n : h[i] = IF i = 0 THEN BlankTable(c)
                                ELSE CopyEntry(h[i - 1], t.entries[i - 1])
    BY <2>1, <2>2
  <2>5. \A i \in 0 .. n + 1 : h[i] = IF i = 0 THEN BlankTable(c)
                                    ELSE CopyEntry(h[i - 1], t.entries[i - 1])
    <3>. HIDE DEF h
    <3>1. n \in Nat /\ (n + 1) - 1 = n /\ n + 1 # 0
      OBVIOUS
    <3>2. \A i \in 0 .. n + 1 : i \in 0 .. n \/ i = n + 1
      BY <3>1
    <3>. QED  BY <2>3, <2>4, <3>1, <3>2
  <2>6. Rec(h, n + 1)
    <3>. HIDE DEF h
    <3>1. h = [i \in 0 .. n + 1 |-> h[i]]
      BY DEF h
    <3>. QED  BY <2>5, <3>1
  <2>7. \E f : Rec(f, n + 1)
    <3>. HIDE DEF Rec, h
    <3>. QED  BY <2>6
  <2>8. n + 1 \in 0 .. t.capacity
    BY <1>2
  <2>. HIDE DEF Rec
  <2>. QED  BY <2>7, <2>8
<1>3. t.capacity \in S
  <2>1. S \in SUBSET (0 .. t.capacity)
    OBVIOUS
  <2>2. S = 0 .. t.capacity
    <3>. HIDE DEF S
    <3>. QED  BY <1>1, <1>2, <2>1, BoundedInduction
  <2>. QED  BY <2>2
<1>4. \E g : Rec(g, t.capacity)
  BY <1>3
<1>5. Copied(t, c) = CHOOSE g : Rec(g, t.capacity)
  BY DEF Copied
<1>6. Rec(Copied(t, c), t.capacity)
  <2>. HIDE DEF Rec
  <2>. QED  BY <1>4, <1>5
<1>. QED  BY <1>6

(* What holds of the new table after i turns: it is well formed, has at most
   i occupied slots, none of them a tombstone, and binds the names that the
   first i slots of the old table bind. *)
CopiedInv(t, c, i, u) ==
  /\ TableType(u) /\ Chain(u)
  /\ u.capacity = c
  /\ u.count = Cardinality(Occupied(u))
  /\ u.count <= i
  /\ Occupied(u) = LiveSlots(u)
  /\ \A k \in Key, v \in Value :
       Binds(u, k, v) <=> \E s \in 0 .. i - 1 : t.entries[s] = [key |-> k, value |-> v]

(* One turn of adjustCapacity's loop keeps the new array right: it binds
   what the entries copied so far bind. *)
LEMMA CopyEntryFact ==
  ASSUME NEW t, TableType(t), Chain(t), HasEmptySlot(t),
         NEW c \in Nat, NEW i \in Slots(t.capacity), i < c,
         NEW u, CopiedInv(t, c, i, u)
  PROVE  CopiedInv(t, c, i + 1, CopyEntry(u, t.entries[i]))
<1>. DEFINE e == t.entries[i]
            w == CopyEntry(u, e)
<1>1. e \in Entry /\ i \in Nat /\ t.capacity \in Nat
  BY DEF TableType, Slots
<1>2. CASE ~ IsLive(e)
  <2>1. w = u
    BY <1>2 DEF CopyEntry
  <2>2. \A k \in Key, v \in Value : e # [key |-> k, value |-> v]
    BY <1>2, TableAssumption DEF IsLive
  <2>3. u.count <= i + 1
    BY <1>1 DEF CopiedInv, TableType
  <2>4. ASSUME NEW k \in Key, NEW v \in Value
        PROVE  (\E s \in 0 .. i - 1 : t.entries[s] = [key |-> k, value |-> v])
                 <=> \E s \in 0 .. (i + 1) - 1 : t.entries[s] = [key |-> k, value |-> v]
    BY <1>1, <2>2
  <2>. QED  BY <2>1, <2>3, <2>4 DEF CopiedInv
<1>3. CASE IsLive(e)
  <2>. DEFINE k == e.key
              s == FindEntry(u, k)
  <2>1. k \in Key /\ e.value \in Value /\ e = [key |-> k, value |-> e.value]
    BY <1>1, <1>3 DEF Entry, IsLive
  <2>2. /\ TableType(u) /\ Chain(u) /\ u.capacity = c
        /\ u.count \in Nat
        /\ u.count = Cardinality(Occupied(u)) /\ u.count <= i
        /\ Occupied(u) = LiveSlots(u)
    BY DEF CopiedInv, TableType
  <2>3. HasEmptySlot(u)
    BY <1>1, <2>2, RoomLeft
  <2>4. w = WithEntry(u, u.count + 1, s, e)
    BY <1>3, <2>2 DEF CopyEntry, WithEntry, TableType
  <2>5. /\ TableType(w) /\ Chain(w)
        /\ Occupied(w) = Occupied(u) \union {s}
    BY <2>1, <2>2, <2>3, <2>4, StoreFact
  <2>6. s \in Slots(c) /\ (u.entries[s].key = k \/ ~ IsLive(u.entries[s]))
    BY <2>1, <2>2, <2>3, FindEntryFact
  <2>7. u.entries[s].key # k
    (* no other slot of the old table holds k *)
    <3>1. SUFFICES ASSUME u.entries[s].key = k PROVE FALSE
      OBVIOUS
    <3>2. u.entries[s] = [key |-> k, value |-> u.entries[s].value] /\ u.entries[s].value \in Value
      BY <2>2, <2>6, <3>1 DEF TableType, Entry
    <3>3. Binds(u, k, u.entries[s].value)
      BY <2>2, <2>6, <3>2 DEF Binds
    <3>4. PICK r \in 0 .. i - 1 : t.entries[r] = [key |-> k, value |-> u.entries[s].value]
      BY <2>1, <3>2, <3>3 DEF CopiedInv
    <3>5. r \in LiveSlots(t) /\ i \in LiveSlots(t) /\ t.entries[r].key = t.entries[i].key
      BY <1>1, <1>3, <2>1, <3>4 DEF LiveSlots, IsLive, Slots
    <3>6. r = i
      BY <3>5, KeysUnique
    <3>. QED  BY <1>1, <3>4, <3>6
  <2>8. s \notin Occupied(u)
    BY <2>2, <2>6, <2>7 DEF LiveSlots
  <2>9. Cardinality(Occupied(w)) = u.count + 1
    <3>1. IsFiniteSet(Occupied(u))
      BY <2>2, OccupiedFinite
    <3>2. Cardinality(Occupied(u) \union {s}) = Cardinality(Occupied(u)) + 1
      <4>. HIDE DEF s
      <4>. QED  BY <2>8, <3>1, FS_AddElement
    <3>. HIDE DEF s, w
    <3>. QED  BY <2>2, <2>5, <3>2
  <2>10. w.capacity = c /\ w.count = u.count + 1 /\ w.entries = [u.entries EXCEPT ![s] = e]
    BY <2>2, <2>4 DEF WithEntry
  <2>11. Occupied(w) = LiveSlots(w)
    <3>1. w.entries[s] = e /\ \A r \in Slots(c) \ {s} : w.entries[r] = u.entries[r]
      BY <2>2, <2>6, <2>10 DEF TableType
    <3>2. LiveSlots(w) = LiveSlots(u) \union {s}
      BY <1>3, <2>2, <2>6, <2>10, <3>1 DEF LiveSlots
    <3>. QED  BY <2>2, <2>5, <3>2
  <2>12. ASSUME NEW j \in Key, NEW v \in Value
         PROVE  Binds(w, j, v)
                  <=> \E r \in 0 .. (i + 1) - 1 : t.entries[r] = [key |-> j, value |-> v]
    <3>1. Binds(w, j, v) <=> IF j = k THEN v = e.value ELSE Binds(u, j, v)
      BY <2>1, <2>2, <2>3, <2>4, StoreBinds
    <3>2. Binds(u, j, v) <=> \E r \in 0 .. i - 1 : t.entries[r] = [key |-> j, value |-> v]
      BY DEF CopiedInv
    <3>3. \A r \in 0 .. (i + 1) - 1 : r = i \/ r \in 0 .. i - 1
      BY <1>1
    <3>4. i \in 0 .. (i + 1) - 1 /\ \A r \in 0 .. i - 1 : r \in 0 .. (i + 1) - 1
      BY <1>1
    <3>5. CASE j = k
      <4>1. ASSUME NEW r \in 0 .. i - 1, t.entries[r] = [key |-> j, value |-> v]
            PROVE  FALSE
        <5>1. r \in LiveSlots(t) /\ i \in LiveSlots(t) /\ t.entries[r].key = t.entries[i].key
          BY <1>1, <1>3, <2>1, <3>5, <4>1 DEF LiveSlots, IsLive, Slots
        <5>2. r = i
          BY <5>1, KeysUnique
        <5>. QED  BY <1>1, <5>2
      <4>2. v = e.value <=> t.entries[i] = [key |-> j, value |-> v]
        BY <2>1, <3>5
      <4>. QED  BY <3>1, <3>3, <3>4, <3>5, <4>1, <4>2
    <3>6. CASE j # k
      <4>1. t.entries[i] # [key |-> j, value |-> v]
        BY <2>1, <3>6
      <4>. QED  BY <3>1, <3>2, <3>3, <3>4, <3>6, <4>1
    <3>. QED  BY <3>5, <3>6
  <2>. QED  BY <1>1, <2>2, <2>5, <2>9, <2>10, <2>11, <2>12 DEF CopiedInv
<1>. QED  BY <1>2, <1>3

(* Growing keeps every binding, drops the tombstones and leaves room for one
   more entry. *)
LEMMA AdjustFact ==
  ASSUME NEW t, WellFormed(t)
  PROVE  LET u == AdjustCapacity(t, GrowCapacity(t.capacity))
         IN  /\ WellFormed(u)
             /\ u.capacity > 0
             /\ u.count + 1 <= MaxLoad(u.capacity)
             /\ Occupied(u) = LiveSlots(u)
             /\ \A k \in Key, v \in Value : Binds(u, k, v) <=> Binds(t, k, v)
<1>. DEFINE c == GrowCapacity(t.capacity)
            f == Copied(t, c)
            S == {i \in 0 .. t.capacity : CopiedInv(t, c, i, f[i])}
<1>1. /\ TableType(t) /\ Chain(t)
      /\ t.capacity \in Nat
      /\ t.capacity = 0 \/ t.capacity >= MinCapacity
      /\ MinCapacity \in Nat /\ MinCapacity >= 2
  BY TableAssumption DEF WellFormed, TableType
<1>2. /\ c \in Nat /\ c >= MinCapacity
      /\ t.capacity < c
      /\ t.capacity + 1 <= MaxLoad(c)
  BY <1>1 DEF GrowCapacity, MaxLoad
<1>3. /\ f[0] = BlankTable(c)
      /\ \A i \in 0 .. t.capacity :
           i < t.capacity => f[i + 1] = CopyEntry(f[i], t.entries[i])
  <2>1. f = [i \in 0 .. t.capacity |->
               IF i = 0 THEN BlankTable(c) ELSE CopyEntry(f[i - 1], t.entries[i - 1])]
    BY <1>1, CopiedDef
  <2>. HIDE DEF f, c
  <2>2. f[0] = BlankTable(c)
    BY <1>1, <2>1
  <2>3. ASSUME NEW i \in 0 .. t.capacity, i < t.capacity
        PROVE  f[i + 1] = CopyEntry(f[i], t.entries[i])
    <3>1. i + 1 \in 0 .. t.capacity /\ i + 1 # 0 /\ (i + 1) - 1 = i
      BY <1>1, <2>3
    <3>. QED  BY <2>1, <3>1
  <2>. QED  BY <2>2, <2>3
<1>4. 0 \in S
  <2>. HIDE DEF f, c
  <2>1. CopiedInv(t, c, 0, f[0])
    <3>1. TableType(f[0]) /\ Chain(f[0]) /\ f[0].capacity = c /\ f[0].count = 0
      BY <1>2, <1>3, BlankFact
    <3>2. Occupied(f[0]) = {} /\ Cardinality(Occupied(f[0])) = 0
      BY <1>2, <1>3, BlankFact
    <3>3. LiveSlots(f[0]) = {}
      BY <3>2 DEF Occupied, LiveSlots, IsLive, IsEmpty
    <3>4. \A k \in Key, v \in Value : ~ Binds(f[0], k, v)
      BY <1>2, <1>3, BlankFact
    <3>. QED  BY <3>1, <3>2, <3>3, <3>4 DEF CopiedInv
  <2>. QED  BY <1>1, <2>1
<1>5. ASSUME NEW i \in S, i < t.capacity
      PROVE  i + 1 \in S
  <2>. HIDE DEF f, c
  <2>1. i \in 0 .. t.capacity /\ CopiedInv(t, c, i, f[i])
    OBVIOUS
  <2>2. i \in Slots(t.capacity) /\ i < c /\ i + 1 \in 0 .. t.capacity
    BY <1>1, <1>2, <1>5, <2>1 DEF Slots
  <2>3. HasEmptySlot(t)
    BY <1>1, <1>5, <2>1, WellFormedRoom
  <2>4. CopiedInv(t, c, i + 1, CopyEntry(f[i], t.entries[i]))
    BY <1>1, <1>2, <2>1, <2>2, <2>3, CopyEntryFact
  <2>5. f[i + 1] = CopyEntry(f[i], t.entries[i])
    BY <1>3, <1>5, <2>1
  <2>. QED  BY <2>2, <2>4, <2>5
<1>6. CopiedInv(t, c, t.capacity, f[t.capacity])
  <2>1. S \in SUBSET (0 .. t.capacity)
    OBVIOUS
  <2>2. S = 0 .. t.capacity
    <3>. HIDE DEF S
    <3>. QED  BY <1>1, <1>4, <1>5, <2>1, BoundedInduction
  <2>3. t.capacity \in S
    <3>. HIDE DEF S
    <3>. QED  BY <1>1, <2>2
  <2>. HIDE DEF f, c
  <2>. QED  BY <2>3
<1>. DEFINE u == AdjustCapacity(t, c)
<1>7. u = f[t.capacity]
  BY DEF AdjustCapacity
<1>8. /\ TableType(u) /\ Chain(u) /\ u.capacity = c
      /\ u.count = Cardinality(Occupied(u))
      /\ u.count <= t.capacity
      /\ u.count \in Nat
      /\ Occupied(u) = LiveSlots(u)
  <2>. HIDE DEF f, c, u
  <2>. QED  BY <1>6, <1>7 DEF CopiedInv, TableType
<1>9. ASSUME NEW k \in Key, NEW v \in Value
      PROVE  Binds(u, k, v) <=> Binds(t, k, v)
  <2>. HIDE DEF f, c, u
  <2>. QED  BY <1>6, <1>7 DEF CopiedInv, Binds, Slots
<1>10. MaxLoad(c) \in Nat
  BY <1>2 DEF MaxLoad
<1>11. /\ u.count <= MaxLoad(u.capacity)
       /\ u.capacity > 0
       /\ u.count + 1 <= MaxLoad(u.capacity)
  <2>. HIDE DEF f, c, u
  <2>. QED  BY <1>1, <1>2, <1>8, <1>10
<1>12. WellFormed(u)
  <2>. HIDE DEF f, c, u
  <2>. QED  BY <1>2, <1>8, <1>11 DEF WellFormed
<1>. QED  BY <1>8, <1>9, <1>11, <1>12

(* After the growth at the head of tableSet there is room for one more entry,
   and the table binds what it bound. *)
LEMMA ReserveFact ==
  ASSUME NEW t, WellFormed(t)
  PROVE  LET u == Reserve(t)
         IN  /\ WellFormed(u)
             /\ HasEmptySlot(u)
             /\ u.count + 1 <= MaxLoad(u.capacity)
             /\ u = t \/ Occupied(u) = LiveSlots(u)
             /\ \A k \in Key, v \in Value : Binds(u, k, v) <=> Binds(t, k, v)
<1>1. t.count \in Nat /\ t.capacity \in Nat /\ MaxLoad(t.capacity) \in Nat
  BY DEF WellFormed, TableType, MaxLoad
<1>2. CASE t.count + 1 > MaxLoad(t.capacity)
  <2>1. Reserve(t) = AdjustCapacity(t, GrowCapacity(t.capacity))
    BY <1>2 DEF Reserve
  <2>. QED  BY <2>1, AdjustFact, WellFormedRoom
<1>3. CASE ~ (t.count + 1 > MaxLoad(t.capacity))
  <2>1. Reserve(t) = t
    BY <1>3 DEF Reserve
  <2>2. t.capacity > 0
    BY <1>1, <1>3 DEF MaxLoad
  <2>. QED  BY <1>1, <1>3, <2>1, <2>2, WellFormedRoom
<1>. QED  BY <1>2, <1>3

-----------------------------------------------------------------------------
(* The interface. *)

(* The count after an entry is stored in slot s. *)
StoreCount(t, s) == IF IsEmpty(t.entries[s]) THEN t.count + 1 ELSE t.count

(* tableSet stores the entry where findEntry says in what the test for load
   left ... *)
LEMMA TableSetStores ==
  ASSUME NEW t, TableType(Reserve(t)), NEW k, NEW v
  PROVE  LET r == Reserve(t)
             s == FindEntry(r, k)
         IN  /\ TableSet(t, k, v)
                   = WithEntry(r, StoreCount(r, s), s, [key |-> k, value |-> v])
             /\ StoreCount(r, s) \in Nat
<1>. DEFINE r == Reserve(t)
            s == FindEntry(r, k)
            e == [key |-> k, value |-> v]
            n == StoreCount(r, s)
            u == TableSet(t, k, v)
<1>1. u = [r EXCEPT !.count = n, !.entries = [r.entries EXCEPT ![s] = e]]
  BY DEF TableSet, StoreCount
<1>2. r \in [count : Nat, capacity : Nat, entries : [Slots(r.capacity) -> Entry]]
  BY DEF TableType
<1>. HIDE DEF r
<1>3. n \in Nat
  BY <1>2 DEF StoreCount
<1>4. u = WithEntry(r, n, s, e)
  <2>. HIDE DEF s, n, e, u
  <2>. QED  BY <1>1, <1>2, <1>3 DEF WithEntry
<1>. QED  BY <1>3, <1>4 DEF r

(* ... and tableDelete a tombstone where it finds the key. *)
LEMMA TableDeleteStores ==
  ASSUME NEW t, TableType(t), NEW k, TableHas(t, k)
  PROVE  TableDelete(t, k) = WithEntry(t, t.count, FindEntry(t, k), Tombstone)
<1>. DEFINE s == FindEntry(t, k)
            u == TableDelete(t, k)
<1>1. u = [t EXCEPT !.entries = [t.entries EXCEPT ![s] = Tombstone]]
  BY DEF TableDelete
<1>2. t \in [count : Nat, capacity : Nat, entries : [Slots(t.capacity) -> Entry]]
  BY DEF TableType
<1>3. u = WithEntry(t, t.count, s, Tombstone)
  <2>. HIDE DEF s, u
  <2>. QED  BY <1>1, <1>2 DEF WithEntry
<1>. QED  BY <1>3

(* tableSet binds the key to the value and leaves the other bindings alone. *)
LEMMA TableSetFact ==
  ASSUME NEW t, WellFormed(t), NEW k \in Key, NEW v \in Value
  PROVE  LET u == TableSet(t, k, v)
         IN  /\ WellFormed(u)
             /\ u.capacity > 0
             /\ u.count > 0
             /\ TableSetIsNew(t, k) <=> \A w \in Value : ~ Binds(t, k, w)
             /\ \A j \in Key, w \in Value :
                  Binds(u, j, w) <=> IF j = k THEN w = v ELSE Binds(t, j, w)
<1>. DEFINE r == Reserve(t)
            s == FindEntry(r, k)
            e == [key |-> k, value |-> v]
            n == StoreCount(r, s)
            u == TableSet(t, k, v)
<1>1. /\ WellFormed(r) /\ HasEmptySlot(r)
      /\ r.count + 1 <= MaxLoad(r.capacity)
      /\ \A j \in Key, w \in Value : Binds(r, j, w) <=> Binds(t, j, w)
  BY ReserveFact
<1>2. /\ TableType(r) /\ Chain(r) /\ r.count \in Nat /\ r.capacity \in Nat
      /\ r.count = Cardinality(Occupied(r))
      /\ r.entries \in [Slots(r.capacity) -> Entry]
  BY <1>1 DEF WellFormed, TableType
<1>3. s \in Slots(r.capacity) /\ (r.entries[s].key = k \/ ~ IsLive(r.entries[s]))
  BY <1>1, <1>2, FindEntryFact
<1>4. u = WithEntry(r, n, s, e) /\ n \in Nat
  BY <1>2, TableSetStores
<1>. HIDE DEF r
<1>5. /\ TableType(u) /\ Chain(u) /\ Occupied(u) = Occupied(r) \union {s}
  BY <1>1, <1>2, <1>4, StoreFact
<1>6. u.capacity = r.capacity /\ u.count = n
  BY <1>4 DEF WithEntry
<1>7. u.count = Cardinality(Occupied(u))
  <2>1. IsFiniteSet(Occupied(r))
    BY <1>2, OccupiedFinite
  <2>2. Cardinality(Occupied(r) \union {s})
          = IF s \in Occupied(r) THEN Cardinality(Occupied(r)) ELSE Cardinality(Occupied(r)) + 1
    <3>. HIDE DEF s
    <3>. QED  BY <2>1, FS_AddElement
  <2>3. s \in Occupied(r) <=> ~ IsEmpty(r.entries[s])
    BY <1>3 DEF Occupied
  <2>. HIDE DEF s, u
  <2>. QED  BY <1>2, <1>5, <1>6, <2>2, <2>3 DEF StoreCount
<1>8. u.count <= MaxLoad(u.capacity) /\ (u.capacity = 0 \/ u.capacity >= MinCapacity)
  <2>1. MaxLoad(r.capacity) \in Nat
    BY <1>2 DEF MaxLoad
  <2>. HIDE DEF u, s
  <2>. QED  BY <1>1, <1>2, <1>6, <2>1 DEF WellFormed, StoreCount
<1>9. WellFormed(u)
  <2>. HIDE DEF u
  <2>. QED  BY <1>5, <1>7, <1>8 DEF WellFormed
<1>10. u.capacity > 0 /\ u.count > 0
  <2>1. u.capacity > 0
    <3>. HIDE DEF u, s
    <3>. QED  BY <1>2, <1>3, <1>6 DEF Slots
  <2>2. n > 0
    <3>1. CASE IsEmpty(r.entries[s])
      <4>. HIDE DEF s
      <4>. QED  BY <1>2, <3>1 DEF StoreCount
    <3>2. CASE ~ IsEmpty(r.entries[s])
      <4>1. s \in Occupied(r)
        BY <1>3, <3>2 DEF Occupied
      <4>2. Cardinality(Occupied(r)) # 0
        <5>. HIDE DEF s
        <5>. QED  BY <1>2, <4>1, OccupiedFinite, FS_EmptySet
      <4>. HIDE DEF s
      <4>. QED  BY <1>2, <3>2, <4>2 DEF StoreCount
    <3>. QED  BY <3>1, <3>2
  <2>. HIDE DEF u, n
  <2>. QED  BY <1>6, <2>1, <2>2
<1>11. ASSUME NEW j \in Key, NEW w \in Value
       PROVE  Binds(u, j, w) <=> IF j = k THEN w = v ELSE Binds(t, j, w)
  <2>1. Binds(u, j, w) <=> IF j = k THEN w = v ELSE Binds(r, j, w)
    BY <1>1, <1>2, <1>4, StoreBinds
  <2>. HIDE DEF u
  <2>. QED  BY <1>1, <2>1
<1>12. TableSetIsNew(t, k) <=> ~ IsLive(r.entries[s])
  BY DEF TableSetIsNew, r
<1>13. IsLive(r.entries[s]) => \E w \in Value : Binds(r, k, w)
  <2>1. SUFFICES ASSUME IsLive(r.entries[s]) PROVE \E w \in Value : Binds(r, k, w)
    OBVIOUS
  <2>2. r.entries[s] = [key |-> k, value |-> r.entries[s].value] /\ r.entries[s].value \in Value
    BY <1>2, <1>3, <2>1 DEF Entry
  <2>. HIDE DEF s
  <2>. QED  BY <1>3, <2>2 DEF Binds
<1>14. ASSUME NEW w \in Value, Binds(r, k, w)
       PROVE  IsLive(r.entries[s])
  <2>1. PICK p \in Slots(r.capacity) : r.entries[p] = [key |-> k, value |-> w]
    BY <1>14 DEF Binds
  <2>2. p \in LiveSlots(r) /\ r.entries[p].key = k
    BY <2>1, TableAssumption DEF LiveSlots, IsLive
  <2>3. s = p
    BY <1>1, <1>2, <2>2, FoundLive
  <2>. QED  BY <2>2, <2>3 DEF LiveSlots
<1>15. TableSetIsNew(t, k) <=> \A w \in Value : ~ Binds(t, k, w)
  <2>. HIDE DEF s
  <2>. QED  BY <1>1, <1>12, <1>13, <1>14
<1>. QED  BY <1>9, <1>10, <1>11, <1>15

(* tableGet finds a key exactly when the table binds it, and then its value. *)
LEMMA TableHasFact ==
  ASSUME NEW t, WellFormed(t), NEW k \in Key
  PROVE  /\ TableHas(t, k) <=> \E v \in Value : Binds(t, k, v)
         /\ TableHas(t, k) => /\ TableGet(t, k) \in Value
                              /\ \A v \in Value : Binds(t, k, v) <=> v = TableGet(t, k)
<1>. DEFINE s == FindEntry(t, k)
<1>1. /\ TableType(t) /\ Chain(t) /\ t.count \in Nat /\ t.capacity \in Nat
      /\ t.count = Cardinality(Occupied(t)) /\ t.count <= MaxLoad(t.capacity)
      /\ t.entries \in [Slots(t.capacity) -> Entry]
  BY DEF WellFormed, TableType
<1>2. ASSUME NEW v \in Value, Binds(t, k, v)
      PROVE  TableHas(t, k) /\ TableGet(t, k) = v
  <2>1. PICK p \in Slots(t.capacity) : t.entries[p] = [key |-> k, value |-> v]
    BY <1>2 DEF Binds
  <2>2. p \in LiveSlots(t) /\ t.entries[p].key = k
    BY <2>1, TableAssumption DEF LiveSlots, IsLive
  <2>3. HasEmptySlot(t)
    BY <1>1, <2>1, WellFormedRoom DEF Slots
  <2>4. s = p
    BY <1>1, <2>2, <2>3, FoundLive
  <2>5. t.count # 0
    <3>1. p \in Occupied(t)
      BY <2>2 DEF Occupied, LiveSlots, IsEmpty, IsLive
    <3>. QED  BY <1>1, <3>1, OccupiedFinite, FS_EmptySet
  <2>. QED  BY <2>1, <2>2, <2>4, <2>5 DEF TableHas, TableGet, LiveSlots
<1>3. ASSUME TableHas(t, k)
      PROVE  TableGet(t, k) \in Value /\ Binds(t, k, TableGet(t, k))
  <2>1. t.count # 0 /\ IsLive(t.entries[s])
    BY <1>3 DEF TableHas
  <2>2. t.capacity > 0
    BY <1>1, <2>1 DEF MaxLoad
  <2>3. HasEmptySlot(t)
    BY <2>2, WellFormedRoom
  <2>4. s \in Slots(t.capacity) /\ t.entries[s].key = k
    BY <1>1, <2>1, <2>3, FindEntryFact
  <2>5. t.entries[s] = [key |-> k, value |-> t.entries[s].value] /\ t.entries[s].value \in Value
    BY <1>1, <2>4 DEF Entry
  <2>. QED  BY <2>4, <2>5 DEF TableGet, Binds
<1>. QED  BY <1>2, <1>3

(* tableDelete removes the binding of the key and no other. *)
LEMMA TableDeleteFact ==
  ASSUME NEW t, WellFormed(t), NEW k \in Key
  PROVE  LET u == TableDelete(t, k)
         IN  /\ WellFormed(u)
             /\ \A j \in Key, w \in Value :
                  Binds(u, j, w) <=> j # k /\ Binds(t, j, w)
<1>. DEFINE u == TableDelete(t, k)
            s == FindEntry(t, k)
<1>1. /\ TableType(t) /\ Chain(t) /\ t.count \in Nat /\ t.capacity \in Nat
      /\ t.entries \in [Slots(t.capacity) -> Entry]
  BY DEF WellFormed, TableType
<1>2. CASE ~ TableHas(t, k)
  <2>1. u = t
    BY <1>2 DEF TableDelete
  <2>2. \A w \in Value : ~ Binds(t, k, w)
    BY <1>2, TableHasFact
  <2>3. WellFormed(u) /\ \A j \in Key, w \in Value :
                           Binds(u, j, w) <=> j # k /\ Binds(t, j, w)
    <3>. HIDE DEF u
    <3>. QED  BY <2>1, <2>2
  <2>. QED  BY <2>3
<1>3. CASE TableHas(t, k)
  <2>1. t.count # 0 /\ IsLive(t.entries[s])
    BY <1>3 DEF TableHas
  <2>2. t.capacity > 0
    BY <1>1, <2>1 DEF MaxLoad, WellFormed
  <2>3. HasEmptySlot(t)
    BY <2>2, WellFormedRoom
  <2>4. s \in Slots(t.capacity) /\ t.entries[s].key = k
    BY <1>1, <2>1, <2>3, FindEntryFact
  <2>5. u = WithEntry(t, t.count, s, Tombstone)
    BY <1>1, <1>3, TableDeleteStores
  <2>. HIDE DEF u
  <2>6. /\ u.count = t.count /\ u.capacity = t.capacity
        /\ u.entries = [t.entries EXCEPT ![s] = Tombstone]
    BY <2>5 DEF WithEntry
  <2>7. Tombstone \in Entry /\ IsTombstone(Tombstone) /\ ~ IsLive(Tombstone) /\ ~ IsEmpty(Tombstone)
    BY TableAssumption DEF Tombstone, Entry, IsTombstone, IsLive, IsEmpty
  <2>8. TableType(u)
    BY <1>1, <2>4, <2>5, <2>7 DEF TableType, WithEntry
  <2>9. /\ u.entries[s] = Tombstone
        /\ \A r \in Slots(t.capacity) \ {s} : u.entries[r] = t.entries[r]
    BY <1>1, <2>4, <2>6
  <2>. HIDE DEF s
  <2>10. Occupied(u) = Occupied(t)
    <3>1. s \in Occupied(t)
      BY <2>1, <2>4 DEF Occupied, IsLive, IsEmpty
    <3>. QED  BY <2>4, <2>6, <2>7, <2>9, <3>1 DEF Occupied
  <2>11. LiveSlots(u) = LiveSlots(t) \ {s}
    BY <2>4, <2>6, <2>7, <2>9 DEF LiveSlots
  <2>12. Chain(u)
    <3>1. SUFFICES ASSUME NEW r \in LiveSlots(u), NEW d \in Slots(u.capacity),
                          ProbeSlot(u.entries[r].key, d, u.capacity) = r,
                          NEW x \in 0 .. d - 1
                   PROVE  ~ StopsAt(u, u.entries[r].key, x)
      BY DEF Chain
    <3>. DEFINE j == t.entries[r].key
                p == ProbeSlot(j, x, t.capacity)
    <3>2. r \in LiveSlots(t) /\ r \in Slots(t.capacity) /\ u.entries[r] = t.entries[r]
      BY <2>9, <2>11 DEF LiveSlots
    <3>3. ~ StopsAt(t, j, x)
      <4>1. d \in Slots(t.capacity) /\ ProbeSlot(j, d, t.capacity) = r
        BY <2>6, <3>1, <3>2
      <4>2. \A y \in 0 .. d - 1 : ~ StopsAt(t, j, y)
        BY <1>1, <3>2, <4>1 DEF Chain
      <4>. HIDE DEF j
      <4>. QED  BY <3>1, <4>2
    <3>4. j \in Key
      BY <1>1, <3>2 DEF LiveSlots, Entry, IsLive
    <3>5. p \in Slots(t.capacity)
      <4>1. x \in Slots(t.capacity)
        BY <1>1, <2>6, <3>1 DEF Slots
      <4>. QED  BY <1>1, <2>2, <3>4, <4>1, ProbeSlots
    <3>6. CASE p = s
      BY <2>6, <2>7, <2>9, <3>2, <3>4, <3>6, TableAssumption
         DEF StopsAt, ProbeEntry, IsLive
    <3>7. CASE p # s
      BY <2>6, <2>9, <3>2, <3>3, <3>5, <3>7 DEF StopsAt, ProbeEntry
    <3>. QED  BY <3>6, <3>7
  <2>13. WellFormed(u)
    BY <2>6, <2>8, <2>10, <2>12 DEF WellFormed
  <2>14. ASSUME NEW j \in Key, NEW w \in Value
         PROVE  Binds(u, j, w) <=> j # k /\ Binds(t, j, w)
    <3>1. Tombstone # [key |-> j, value |-> w]
      BY <2>7 , TableAssumption DEF IsLive
    <3>2. CASE j = k
      <4>1. ASSUME NEW r \in Slots(t.capacity) \ {s}, t.entries[r].key = k
            PROVE  FALSE
        <5>1. r \in LiveSlots(t) /\ s \in LiveSlots(t)
          BY <2>1, <2>4, <4>1, TableAssumption DEF LiveSlots, IsLive
        <5>2. r = s
          BY <1>1, <2>3, <2>4, <4>1, <5>1, KeysUnique
        <5>. QED  BY <5>2
      <4>. QED  BY <2>6, <2>9, <3>1, <3>2, <4>1 DEF Binds
    <3>3. CASE j # k
      BY <2>4, <2>6, <2>9, <3>1, <3>3 DEF Binds
    <3>. QED  BY <3>2, <3>3
  <2>. QED  BY <2>13, <2>14 DEF u
<1>. QED  BY <1>2, <1>3

-----------------------------------------------------------------------------
(* The invariant, and the three instructions. *)


IInv ==
  /\ WellFormed(globals)
  /\ answer \in Value \union {Ok, NameError}
  /\ used \in SUBSET Key

(* A well-formed table has every property the runs check. *)
LEMMA InvariantImplies ==
  ASSUME IInv
  PROVE  TypeOK /\ ProbesEnd /\ CountIsOccupied /\ Findable
<1>1. TableType(globals) /\ Chain(globals)
  BY DEF IInv, WellFormed
<1>2. TypeOK
  BY DEF IInv, WellFormed, TypeOK
<1>3. ProbesEnd
  BY <1>1, WellFormedRoom, SearchEnds DEF IInv, ProbesEnd
<1>4. CountIsOccupied
  BY DEF IInv, WellFormed, CountIsOccupied
<1>5. Findable
  <2>1. SUFFICES ASSUME NEW s \in LiveSlots(globals)
                 PROVE  FindEntry(globals, globals.entries[s].key) = s
    BY DEF Findable
  <2>2. globals.capacity > 0
    BY <1>1, <2>1 DEF LiveSlots, Slots, TableType
  <2>. QED  BY <1>1, <2>2, FoundLive, WellFormedRoom DEF IInv
<1>. QED  BY <1>2, <1>3, <1>4, <1>5

(* initTable establishes the invariant. *)
LEMMA InitInvariant == Init => IInv
<1>. SUFFICES ASSUME Init PROVE IInv
  OBVIOUS
<1>1. /\ TableType(globals) /\ Chain(globals)
      /\ globals.capacity = 0 /\ globals.count = 0
      /\ Cardinality(Occupied(globals)) = 0
  BY BlankFact DEF Init, InitTable
<1>2. 0 <= MaxLoad(0)
  BY DEF MaxLoad
<1>. QED  BY <1>1, <1>2 DEF Init, IInv, WellFormed

(* Each of the three instructions keeps the invariant. *)
LEMMA StepInvariant == IInv /\ [Next]_vars => IInv'
<1>. SUFFICES ASSUME IInv, [Next]_vars PROVE IInv'
  OBVIOUS
<1>. USE DEF IInv
<1>1. ASSUME NEW k \in Key, NEW v \in Value, DefineGlobal(k, v)
      PROVE  IInv'
  BY <1>1, TableSetFact DEF DefineGlobal
<1>2. ASSUME NEW k \in Key, NEW v \in Value, SetGlobal(k, v)
      PROVE  IInv'
  <2>1. WellFormed(TableSet(globals, k, v))
    BY TableSetFact
  <2>2. WellFormed(TableDelete(TableSet(globals, k, v), k))
    BY <2>1, TableDeleteFact
  <2>. QED  BY <1>2, <2>1, <2>2 DEF SetGlobal
<1>3. ASSUME NEW k \in Key, GetGlobal(k)
      PROVE  IInv'
  BY <1>3, TableHasFact DEF GetGlobal
<1>4. CASE UNCHANGED vars
  BY <1>4 DEF vars
<1>. QED  BY <1>1, <1>2, <1>3, <1>4 DEF Next

(* The inductive invariant holds in every reachable state. *)
THEOREM Invariance == Spec => []IInv
BY InitInvariant, StepInvariant, PTL DEF Spec

(* TypeOK: the table is a well-formed array of entries at every instruction,
   across growth, tombstones and failed assignments. *)
THEOREM TypeCorrect == Spec => []TypeOK
BY Invariance, InvariantImplies, PTL

(* ProbesEnd: the probe loop of findEntry, which has no bound in the code,
   ends for every name in every reachable table. *)
THEOREM SearchesTerminate == Spec => []ProbesEnd
BY Invariance, InvariantImplies, PTL

(* CountIsOccupied: the field count is the number of slots no probe can stop
   at, tombstones included, and never passes the load limit. *)
THEOREM LoadCorrect == Spec => []CountIsOccupied
BY Invariance, InvariantImplies, PTL

(* Findable: a search for the key of a live entry arrives at that entry. *)
THEOREM NothingHidden == Spec => []Findable
BY Invariance, InvariantImplies, PTL

-----------------------------------------------------------------------------
(* The table implements the partial map. *)

(* The abstract map has a key exactly as the table binds it. *)
LEMMA LookBinds ==
  ASSUME NEW t, WellFormed(t), NEW k \in Key
  PROVE  /\ Look(t, k) \in Value \union {Unbound}
         /\ \A v \in Value : Look(t, k) = v <=> Binds(t, k, v)
         /\ Look(t, k) = Unbound <=> \A v \in Value : ~ Binds(t, k, v)
         /\ Look(t, k) = Unbound <=> ~ TableHas(t, k)
<1>1. Unbound \notin Value
  BY AnswerAssumption
<1>2. /\ TableHas(t, k) <=> \E v \in Value : Binds(t, k, v)
      /\ TableHas(t, k) => /\ TableGet(t, k) \in Value
                           /\ \A v \in Value : Binds(t, k, v) <=> v = TableGet(t, k)
  BY TableHasFact
<1>3. ASSUME NEW s \in Bound(t, k)
      PROVE  t.entries[s].value \in Value /\ Binds(t, k, t.entries[s].value)
  <2>1. s \in Slots(t.capacity) /\ t.entries[s].key = k /\ t.entries[s] \in Entry
    BY DEF Bound, LiveSlots, WellFormed, TableType
  <2>2. t.entries[s].value \in Value
    BY <2>1 DEF Entry
  <2>3. t.entries[s] = [key |-> k, value |-> t.entries[s].value]
    BY <2>1 DEF Entry
  <2>. QED  BY <2>1, <2>2, <2>3 DEF Binds
<1>4. ASSUME NEW v \in Value, Binds(t, k, v) PROVE Bound(t, k) # {}
  BY <1>4, TableAssumption DEF Binds, Bound, LiveSlots, IsLive
<1>5. CASE Bound(t, k) = {}
  BY <1>1, <1>2, <1>4, <1>5 DEF Look
<1>6. CASE Bound(t, k) # {}
  <2>. DEFINE v == t.entries[CHOOSE s \in Bound(t, k) : TRUE].value
  <2>1. v \in Value /\ Binds(t, k, v) /\ Look(t, k) = v
    BY <1>3, <1>6 DEF Look
  <2>. HIDE DEF v
  <2>. QED  BY <1>1, <1>2, <2>1
<1>. QED  BY <1>5, <1>6

(* Two tables that bind a name alike look alike there. *)
LEMMA LookSame ==
  ASSUME NEW t, WellFormed(t), NEW u, WellFormed(u), NEW k \in Key,
         \A v \in Value : Binds(u, k, v) <=> Binds(t, k, v)
  PROVE  Look(u, k) = Look(t, k)
BY LookBinds

(* tableSet of a key is an update of the abstract map at that key. *)
LEMMA LookSet ==
  ASSUME NEW t, WellFormed(t), NEW k \in Key, NEW v \in Value
  PROVE  /\ WellFormed(TableSet(t, k, v))
         /\ Look(TableSet(t, k, v), k) = v
         /\ \A j \in Key \ {k} : Look(TableSet(t, k, v), j) = Look(t, j)
         /\ TableSetIsNew(t, k) <=> Look(t, k) = Unbound
<1>. DEFINE u == TableSet(t, k, v)
<1>1. /\ WellFormed(u)
      /\ TableSetIsNew(t, k) <=> \A w \in Value : ~ Binds(t, k, w)
      /\ \A j \in Key, w \in Value :
           Binds(u, j, w) <=> IF j = k THEN w = v ELSE Binds(t, j, w)
  BY TableSetFact
<1>. HIDE DEF u
<1>2. Look(u, k) = v
  BY <1>1, LookBinds
<1>3. ASSUME NEW j \in Key \ {k} PROVE Look(u, j) = Look(t, j)
  BY <1>1, LookSame
<1>4. TableSetIsNew(t, k) <=> Look(t, k) = Unbound
  BY <1>1, LookBinds
<1>. QED  BY <1>1, <1>2, <1>3, <1>4 DEF u

(* tableDelete of a key leaves the abstract map without that key. *)
LEMMA LookDelete ==
  ASSUME NEW t, WellFormed(t), NEW k \in Key
  PROVE  /\ Look(TableDelete(t, k), k) = Unbound
         /\ \A j \in Key \ {k} : Look(TableDelete(t, k), j) = Look(t, j)
<1>. DEFINE u == TableDelete(t, k)
<1>1. /\ WellFormed(u)
      /\ \A j \in Key, w \in Value : Binds(u, j, w) <=> j # k /\ Binds(t, j, w)
  BY TableDeleteFact
<1>. HIDE DEF u
<1>2. Look(u, k) = Unbound
  BY <1>1, LookBinds
<1>3. ASSUME NEW j \in Key \ {k} PROVE Look(u, j) = Look(t, j)
  BY <1>1, LookSame
<1>. QED  BY <1>2, <1>3 DEF u

mapped == [k \in Key |-> Look(globals, k)]

(* The initial table is the empty map. *)
LEMMA InitRefines == Init => Map!Init
<1>. SUFFICES ASSUME Init PROVE Map!Init
  OBVIOUS
<1>1. \A k \in Key : Bound(globals, k) = {}
  BY DEF Init, InitTable, BlankTable, Bound, LiveSlots, Slots
<1>. QED  BY <1>1 DEF Init, Map!Init, Look

(* Every instruction on the table is a step of the abstract map. *)
LEMMA StepRefines == IInv /\ [Next]_vars => [Map!Next]_(Map!vars)
<1>. SUFFICES ASSUME IInv, [Next]_vars PROVE [Map!Next]_(Map!vars)
  OBVIOUS
<1>1. WellFormed(globals)
  BY DEF IInv
<1>2. ASSUME NEW k \in Key, NEW v \in Value, DefineGlobal(k, v)
      PROVE  Map!Define(k, v)
  <2>1. /\ globals' = TableSet(globals, k, v) /\ answer' = Ok
    BY <1>2 DEF DefineGlobal
  <2>2. /\ Look(globals', k) = v
        /\ \A j \in Key \ {k} : Look(globals', j) = Look(globals, j)
    BY <1>1, <2>1, LookSet
  <2>3. mapped' = [mapped EXCEPT ![k] = v]
    BY <2>2 DEF mapped
  <2>. QED  BY <2>1, <2>3 DEF mapped, Map!Define
<1>3. ASSUME NEW k \in Key, NEW v \in Value, SetGlobal(k, v)
      PROVE  Map!Assign(k, v)
  <2>. DEFINE set == TableSet(globals, k, v)
  <2>1. /\ WellFormed(set)
        /\ Look(set, k) = v
        /\ \A j \in Key \ {k} : Look(set, j) = Look(globals, j)
        /\ TableSetIsNew(globals, k) <=> Look(globals, k) = Unbound
    BY <1>1, LookSet
  <2>2. CASE TableSetIsNew(globals, k)
    <3>1. globals' = TableDelete(set, k) /\ answer' = NameError
      BY <1>3, <2>2 DEF SetGlobal
    <3>. HIDE DEF set
    <3>2. \A j \in Key : Look(globals', j) = Look(globals, j)
      BY <2>1, <2>2, <3>1, LookDelete
    <3>3. mapped' = mapped
      BY <3>2 DEF mapped
    <3>4. mapped[k] = Unbound
      BY <2>1, <2>2 DEF mapped
    <3>. QED  BY <3>1, <3>3, <3>4 DEF mapped, Map!Assign
  <2>3. CASE ~ TableSetIsNew(globals, k)
    <3>1. globals' = set /\ answer' = Ok
      BY <1>3, <2>3 DEF SetGlobal
    <3>. HIDE DEF set
    <3>2. mapped' = [mapped EXCEPT ![k] = v]
      BY <2>1, <3>1 DEF mapped
    <3>3. mapped[k] # Unbound
      BY <2>1, <2>3 DEF mapped
    <3>. QED  BY <3>1, <3>2, <3>3 DEF mapped, Map!Assign
  <2>. QED  BY <2>2, <2>3
<1>4. ASSUME NEW k \in Key, GetGlobal(k)
      PROVE  Map!Read(k)
  <2>1. /\ answer' = IF TableHas(globals, k) THEN TableGet(globals, k) ELSE NameError
        /\ globals' = globals
    BY <1>4 DEF GetGlobal
  <2>2. mapped[k] = Unbound <=> ~ TableHas(globals, k)
    BY <1>1, LookBinds DEF mapped
  <2>3. mapped[k] = Look(globals, k) /\ mapped' = mapped
    BY <2>1 DEF mapped
  <2>4. answer' = IF mapped[k] = Unbound THEN NameError ELSE mapped[k]
    BY <1>1, <2>1, <2>2, <2>3, LookBinds, TableHasFact
  <2>. QED  BY <2>3, <2>4 DEF mapped, Map!Read
<1>5. CASE UNCHANGED vars
  BY <1>5 DEF vars, Map!vars
<1>6. CASE Next
  BY <1>2, <1>3, <1>4, <1>6 DEF Next, Map!Next
<1>. QED  BY <1>5, <1>6

(* ImplementsGlobalMap: to the program the table is a partial map; growing,
   tombstones and the entry an assignment adds and takes back never show. *)
THEOREM Refinement == Spec => ImplementsGlobalMap
<1>1. Spec => Map!Init /\ [][Map!Next]_(Map!vars)
  BY InitRefines, StepRefines, Invariance, PTL DEF Spec
<1>. QED  BY <1>1 DEF ImplementsGlobalMap, Map!Spec

-----------------------------------------------------------------------------
(* Tombstones.  That they do not pile up is not inductive by itself: a store
   that finds no tombstone on its way takes an empty slot, and nothing then
   says that the name had no slot yet.  What is inductive is that each slot
   in use can be given a name of its own that a search for that name comes
   by: the search for a name that has a slot cannot end without reusing one. *)

(* The slots that a search for k comes to, over slots that are not empty. *)
Succ(s, c) == IF s + 1 < c THEN s + 1 ELSE 0

Reached(t, k, s) ==
  \A S \in SUBSET Slots(t.capacity) :
    /\ Home(k, t.capacity) \in S
    /\ \A u \in S : ~ IsEmpty(t.entries[u]) => Succ(u, t.capacity) \in S
    => s \in S

(* Each occupied slot has a name of its own: a live one its key, and a tombstone
   one for which a search comes by. *)
Owns(t, f) ==
  /\ \A s, u \in Occupied(t) : f[s] = f[u] => s = u
  /\ \A s \in Occupied(t) : IF IsLive(t.entries[s]) THEN f[s] = t.entries[s].key
                                                    ELSE Reached(t, f[s], s)

Owned(t, names) == \E f \in [Occupied(t) -> names] : Owns(t, f)

(* Owners are distinct, so the slots in use do not outnumber them. *)
LEMMA OwnedCount ==
  ASSUME NEW t, NEW names, IsFiniteSet(names), Owned(t, names)
  PROVE  Cardinality(Occupied(t)) <= Cardinality(names)
<1>1. PICK f \in [Occupied(t) -> names] : Owns(t, f)
  BY DEF Owned
<1>2. f \in Injection(Occupied(t), names)
  BY <1>1 DEF Owns, Injection, IsInjective
<1>. QED  BY <1>2, FS_Injection

(* The turns of a search, one after the other. *)
LEMMA ProbeTurns ==
  ASSUME NEW k \in Key, NEW c \in Nat, c > 0
  PROVE  /\ ProbeSlot(k, 0, c) = Home(k, c)
         /\ \A d \in Nat : d + 1 < c => ProbeSlot(k, d + 1, c) = Succ(ProbeSlot(k, d, c), c)
<1>1. Home(k, c) \in 0 .. c - 1
  BY TableAssumption DEF Home
<1>. QED  BY <1>1 DEF ProbeSlot, Succ

(* A search that comes by a slot comes to what follows on it, whoever searches. *)
LEMMA OnwardReached ==
  ASSUME NEW t, TableType(t), NEW k \in Key, NEW j, NEW d \in Slots(t.capacity), NEW a \in 0 .. d,
         Reached(t, j, ProbeSlot(k, a, t.capacity)),
         \A x \in a .. d - 1 : ~ IsEmpty(ProbeEntry(t, k, x))
  PROVE  Reached(t, j, ProbeSlot(k, d, t.capacity))
<1>. DEFINE c == t.capacity
            P(x) == ProbeSlot(k, x, c)
<1>1. c \in Nat /\ c > 0 /\ d \in Nat /\ d < c /\ a \in Nat /\ a <= d
  BY DEF TableType, Slots
<1>. SUFFICES ASSUME NEW S \in SUBSET Slots(c), Home(j, c) \in S,
                     \A u \in S : ~ IsEmpty(t.entries[u]) => Succ(u, c) \in S
              PROVE  P(d) \in S
  BY DEF Reached
<1>2. P(a) \in S
  BY DEF Reached
<1>3. \A x \in Nat : x + 1 < c => P(x + 1) = Succ(P(x), c)
  BY <1>1, ProbeTurns
<1>4. \A x \in a .. d - 1 : ~ IsEmpty(t.entries[P(x)])
  BY DEF ProbeEntry
<1>. DEFINE n == d - a
            T == {x \in 0 .. n : P(a + x) \in S}
<1>. HIDE DEF P, c
<1>5. n \in Nat /\ 0 \in T
  BY <1>1, <1>2
<1>6. ASSUME NEW x \in T, x < n
      PROVE  x + 1 \in T
  <2>. DEFINE y == a + x
  <2>1. y \in Nat /\ y \in a .. d - 1 /\ y + 1 < c /\ P(y) \in S /\ x \in Nat /\ a + (x + 1) = y + 1
    BY <1>1, <1>6
  <2>. HIDE DEF y
  <2>2. P(y + 1) \in S
    BY <1>3, <1>4, <2>1
  <2>. QED  BY <1>5, <1>6, <2>1, <2>2
<1>7. T = 0 .. n
  <2>1. T \in SUBSET (0 .. n)
    OBVIOUS
  <2>. HIDE DEF T, n
  <2>. QED  BY <1>5, <1>6, <2>1, BoundedInduction
<1>8. n \in T /\ a + n = d
  <2>1. a + n = d
    BY <1>1
  <2>. HIDE DEF T, n
  <2>. QED  BY <1>5, <1>7, <2>1
<1>. QED  BY <1>8 DEF P, c

(* A search comes to the slot of a turn no empty slot lies before. *)
LEMMA TurnReached ==
  ASSUME NEW t, TableType(t), NEW k \in Key, NEW d \in Slots(t.capacity),
         \A x \in 0 .. d - 1 : ~ IsEmpty(ProbeEntry(t, k, x))
  PROVE  Reached(t, k, ProbeSlot(k, d, t.capacity))
<1>1. t.capacity \in Nat /\ t.capacity > 0 /\ 0 \in 0 .. d
  BY DEF TableType, Slots
<1>2. Reached(t, k, ProbeSlot(k, 0, t.capacity))
  BY <1>1, ProbeTurns DEF Reached
<1>. DEFINE zero == 0
<1>3. /\ zero \in 0 .. d /\ Reached(t, k, ProbeSlot(k, zero, t.capacity))
      /\ \A x \in zero .. d - 1 : ~ IsEmpty(ProbeEntry(t, k, x))
  BY <1>1, <1>2
<1>. HIDE DEF zero
<1>. QED  BY <1>3, OnwardReached

(* A search that ends at an empty slot came to all it can reach before. *)
LEMMA ReachedTurn ==
  ASSUME NEW t, TableType(t), HasEmptySlot(t), NEW k \in Key,
         IsEmpty(ProbeEntry(t, k, LastTurn(t, k))), NEW s, Reached(t, k, s)
  PROVE  \E x \in 0 .. LastTurn(t, k) : s = ProbeSlot(k, x, t.capacity)
<1>. DEFINE c == t.capacity
            l == LastTurn(t, k)
            P(x) == ProbeSlot(k, x, c)
            S == {P(x) : x \in 0 .. l}
<1>1. l \in Slots(c)
  BY LastTurnFact
<1>2. c \in Nat /\ c > 0 /\ l \in Nat /\ l < c
  BY <1>1 DEF TableType, Slots
<1>3. S \in SUBSET Slots(c)
  <2>1. \A x \in 0 .. l : x \in Slots(c)
    BY <1>2 DEF Slots
  <2>. QED  BY <1>2, <2>1, ProbeSlots
<1>4. Home(k, c) \in S
  <2>1. P(0) = Home(k, c) /\ 0 \in 0 .. l
    BY <1>2, ProbeTurns
  <2>. QED  BY <2>1
<1>5. ASSUME NEW u \in S, ~ IsEmpty(t.entries[u])
      PROVE  Succ(u, c) \in S
  <2>1. PICK x \in 0 .. l : u = P(x)
    OBVIOUS
  <2>2. x # l
    BY <1>5, <2>1 DEF ProbeEntry
  <2>3. x \in Nat /\ x + 1 \in 0 .. l /\ x + 1 < c
    BY <1>2, <2>1, <2>2
  <2>4. P(x + 1) = Succ(u, c)
    BY <1>2, <2>1, <2>3, ProbeTurns
  <2>. QED  BY <2>3, <2>4
<1>6. s \in S
  <2>. HIDE DEF S
  <2>. QED  BY <1>3, <1>4, <1>5 DEF Reached
<1>. QED  BY <1>6

(* The more slots are occupied the further a search comes. *)
LEMMA ReachedMore ==
  ASSUME NEW t, NEW u, u.capacity = t.capacity, Occupied(t) \subseteq Occupied(u),
         NEW k, NEW s, Reached(t, k, s)
  PROVE  Reached(u, k, s)
<1>1. \A r \in Slots(t.capacity) : ~ IsEmpty(t.entries[r]) => ~ IsEmpty(u.entries[r])
  BY DEF Occupied
<1>. SUFFICES ASSUME NEW S \in SUBSET Slots(t.capacity), Home(k, t.capacity) \in S,
                     \A r \in S : ~ IsEmpty(u.entries[r]) => Succ(r, t.capacity) \in S
              PROVE  s \in S
  BY DEF Reached
<1>2. \A r \in S : ~ IsEmpty(t.entries[r]) => Succ(r, t.capacity) \in S
  BY <1>1
<1>. QED  BY <1>2 DEF Reached

(* When findEntry answers a slot that is not live, a tombstone that a search
   for k comes to is that slot or lies further on the way. *)
LEMMA FirstTombstone ==
  ASSUME NEW t, TableType(t), HasEmptySlot(t), Chain(t), NEW k \in Key,
         ~ IsLive(t.entries[FindEntry(t, k)]),
         NEW r, IsTombstone(t.entries[r]), Reached(t, k, r)
  PROVE  /\ FindEntry(t, k) \in Slots(t.capacity)
         /\ IsTombstone(t.entries[FindEntry(t, k)])
         /\ \A j : Reached(t, j, FindEntry(t, k)) => Reached(t, j, r)
<1>. DEFINE last  == LastTurn(t, k)
            tombs == TombstoneTurns(t, k, last)
<1>1. /\ last \in Slots(t.capacity)
      /\ StopsAt(t, k, last)
      /\ \A x \in 0 .. last - 1 : ~ StopsAt(t, k, x)
  BY LastTurnFact
<1>2. t.capacity \in Nat /\ t.capacity > 0 /\ last \in Nat /\ last < t.capacity
  BY <1>1 DEF TableType, Slots
<1>3. ProbeSlot(k, last, t.capacity) \in Slots(t.capacity)
  BY <1>1, <1>2, ProbeSlots
<1>4. ProbeEntry(t, k, last).key # k
  <2>1. \A s \in LiveSlots(t) : t.entries[s].key # k
    BY NotFound
  <2>. QED  BY <1>3, <2>1, TableAssumption DEF LiveSlots, ProbeEntry, IsLive
<1>5. IsEmpty(ProbeEntry(t, k, last))
  BY <1>1, <1>4 DEF StopsAt
<1>6. PICK x \in 0 .. last : r = ProbeSlot(k, x, t.capacity)
  BY <1>5, ReachedTurn
<1>7. x \in tombs
  BY <1>6 DEF TombstoneTurns, ProbeEntry
<1>8. tombs \in SUBSET Nat
  BY DEF TombstoneTurns
<1>9. PICK m \in tombs : \A n \in tombs : m <= n
  <2>. HIDE DEF tombs
  <2>. QED  BY <1>7, <1>8, LeastElement
<1>10. First(tombs) \in tombs /\ First(tombs) <= x
  <2>. HIDE DEF tombs
  <2>. QED  BY <1>7, <1>9 DEF First
<1>11. FindEntry(t, k) = ProbeSlot(k, First(tombs), t.capacity)
  BY <1>4, <1>7 DEF FindEntry
<1>. DEFINE a == First(tombs)
<1>12. a \in 0 .. x /\ x \in Slots(t.capacity) /\ a \in Slots(t.capacity)
       /\ IsTombstone(ProbeEntry(t, k, a))
  <2>1. a \in 0 .. last /\ IsTombstone(ProbeEntry(t, k, a))
    BY <1>10 DEF TombstoneTurns
  <2>2. a <= x
    BY <1>10
  <2>3. x \in 0 .. last
    OBVIOUS
  <2>. HIDE DEF a, last
  <2>. QED  BY <2>1, <2>2, <2>3, <1>2 DEF Slots
<1>13. \A y \in a .. x - 1 : ~ IsEmpty(ProbeEntry(t, k, y))
  <2>1. \A y \in a .. x - 1 : y \in 0 .. last - 1
    <3>. HIDE DEF a, last
    <3>. QED  BY <1>2, <1>12 DEF Slots
  <2>. QED  BY <1>1, <2>1 DEF StopsAt
<1>. HIDE DEF a, last, tombs
<1>14. ASSUME NEW j, Reached(t, j, FindEntry(t, k)) PROVE Reached(t, j, r)
  <2>1. Reached(t, j, ProbeSlot(k, a, t.capacity))
    BY <1>11, <1>14 DEF a
  <2>2. Reached(t, j, ProbeSlot(k, x, t.capacity))
    BY <2>1, <1>12, <1>13, OnwardReached
  <2>. QED  BY <2>2, <1>6
<1>15. FindEntry(t, k) = ProbeSlot(k, a, t.capacity)
  BY <1>11 DEF a
<1>16. FindEntry(t, k) \in Slots(t.capacity)
  BY <1>2, <1>12, <1>15, ProbeSlots
<1>. QED  BY <1>12, <1>14, <1>15, <1>16 DEF ProbeEntry

(* Storing the value of a name: the name owns the slot; when it owned a
   tombstone, what owned the slot takes that one over. *)
LEMMA StoreOwned ==
  ASSUME NEW t, TableType(t), HasEmptySlot(t), Chain(t),
         NEW names \in SUBSET Key, Owned(t, names),
         NEW k \in Key, NEW v \in Value, NEW n \in Nat
  PROVE  Owned(WithEntry(t, n, FindEntry(t, k), [key |-> k, value |-> v]), names \union {k})
<1>. DEFINE s == FindEntry(t, k)
            e == [key |-> k, value |-> v]
            u == WithEntry(t, n, s, e)
<1>1. PICK f \in [Occupied(t) -> names] : Owns(t, f)
  BY DEF Owned
<1>2. s \in Slots(t.capacity) /\ (t.entries[s].key = k \/ ~ IsLive(t.entries[s]))
  BY FindEntryFact
<1>3. k # NoKey /\ IsLive(e)
  BY TableAssumption DEF IsLive
<1>4. /\ u.capacity = t.capacity
      /\ u.entries[s] = e
      /\ \A r \in Slots(t.capacity) : r # s => u.entries[r] = t.entries[r]
  BY <1>2 DEF WithEntry, TableType
<1>5. Occupied(u) = Occupied(t) \union {s}
  BY StoreFact
<1>6. \A r \in Occupied(t) : r \in Slots(t.capacity)
  BY DEF Occupied
<1>7. \A j, r : Reached(t, j, r) => Reached(u, j, r)
  <2>1. Occupied(t) \subseteq Occupied(u)
    BY <1>5
  <2>. HIDE DEF u
  <2>. QED  BY <1>4, <2>1, ReachedMore
<1>. DEFINE g == [r \in Occupied(u) |->
                    IF r = s THEN k ELSE IF f[r] = k THEN f[s] ELSE f[r]]
<1>8. ASSUME NEW r \in Occupied(t), f[r] = k
      PROVE  /\ s \in Occupied(t)
             /\ r # s => /\ ~ IsLive(t.entries[r])
                         /\ Reached(t, f[s], r)
  <2>1. CASE ~ IsLive(t.entries[s])
    <3>1. \A x \in LiveSlots(t) : t.entries[x].key # k
      BY <2>1, NotFound
    <3>2. ~ IsLive(t.entries[r])
      BY <1>1, <1>6, <1>8, <3>1 DEF Owns, LiveSlots
    <3>3. IsTombstone(t.entries[r]) /\ Reached(t, k, r)
      BY <1>1, <1>8, <3>2 DEF Owns, Occupied, IsLive, IsEmpty, IsTombstone
    <3>4. IsTombstone(t.entries[s]) /\ (\A j : Reached(t, j, s) => Reached(t, j, r))
      <4>. HIDE DEF e, u
      <4>. QED  BY <2>1, <3>3, FirstTombstone
    <3>5. s \in Occupied(t)
      BY <1>2, <3>4 DEF Occupied, IsEmpty, IsTombstone
    <3>6. Reached(t, f[s], s)
      BY <1>1, <2>1, <3>5 DEF Owns
    <3>. QED  BY <3>2, <3>4, <3>5, <3>6
  <2>2. CASE IsLive(t.entries[s])
    <3>1. t.entries[s].key = k
      BY <1>2, <2>2
    <3>2. s \in Occupied(t)
      BY <1>2, <2>2 DEF Occupied, IsLive, IsEmpty
    <3>3. f[s] = k
      BY <1>1, <2>2, <3>1, <3>2 DEF Owns
    <3>. QED  BY <1>1, <1>8, <3>2, <3>3 DEF Owns
  <2>. QED  BY <2>1, <2>2
<1>9. ASSUME NEW r \in Occupied(u)
      PROVE  /\ r = s => g[r] = k
             /\ r # s => /\ r \in Occupied(t)
                         /\ f[r] = k => g[r] = f[s] /\ s \in Occupied(t)
                         /\ f[r] # k => g[r] = f[r]
  <2>. HIDE DEF s, u
  <2>. QED  BY <1>5, <1>8
<1>10. g \in [Occupied(u) -> names \union {k}]
  <2>1. \A r \in Occupied(u) : g[r] \in names \union {k}
    <3>. HIDE DEF g, s, u
    <3>. QED  BY <1>1, <1>9
  <2>. HIDE DEF s, u
  <2>. QED  BY <2>1
<1>11. ASSUME NEW x \in Occupied(u), NEW y \in Occupied(u), g[x] = g[y]
       PROVE  x = y
  <2>1. \A p, q \in Occupied(t) : f[p] = f[q] => p = q
    BY <1>1 DEF Owns
  <2>. HIDE DEF g, s, u
  <2>. QED  BY <1>9, <1>11, <2>1
<1>12. ASSUME NEW r \in Occupied(u)
       PROVE  IF IsLive(u.entries[r]) THEN g[r] = u.entries[r].key ELSE Reached(u, g[r], r)
  <2>1. CASE r = s
    <3>1. g[r] = k
      BY <1>9, <2>1
    <3>. QED  BY <1>3, <1>4, <2>1, <3>1
  <2>2. CASE r # s
    <3>1. r \in Occupied(t) /\ u.entries[r] = t.entries[r]
      BY <1>4, <1>6, <1>9, <2>2
    <3>2. IF IsLive(t.entries[r]) THEN f[r] = t.entries[r].key ELSE Reached(t, f[r], r)
      BY <1>1, <3>1 DEF Owns
    <3>3. CASE f[r] = k
      <4>1. ~ IsLive(t.entries[r]) /\ Reached(t, f[s], r) /\ g[r] = f[s]
        <5>. HIDE DEF g, s, u
        <5>. QED  BY <1>8, <1>9, <2>2, <3>1, <3>3
      <4>. HIDE DEF g, s, u
      <4>. QED  BY <1>7, <3>1, <4>1
    <3>4. CASE f[r] # k
      <4>1. g[r] = f[r]
        <5>. HIDE DEF g, s, u
        <5>. QED  BY <1>9, <2>2, <3>4
      <4>. HIDE DEF g, s, u
      <4>. QED  BY <1>7, <3>1, <3>2, <4>1
    <3>. QED  BY <3>3, <3>4
  <2>. QED  BY <2>1, <2>2
<1>13. Owns(u, g)
  <2>. HIDE DEF g, u
  <2>. QED  BY <1>11, <1>12 DEF Owns
<1>. HIDE DEF g
<1>14. Owned(u, names \union {k})
  <2>. HIDE DEF u
  <2>. QED  BY <1>10, <1>13 DEF Owned
<1>. QED  BY <1>14

(* An array without tombstones: each key owns its slot. *)
LEMMA LiveOwned ==
  ASSUME NEW t, TableType(t), HasEmptySlot(t), Chain(t), NEW names,
         Occupied(t) = LiveSlots(t),
         \A s \in LiveSlots(t) : t.entries[s].key \in names
  PROVE  Owned(t, names)
<1>. DEFINE f == [s \in Occupied(t) |-> t.entries[s].key]
<1>1. f \in [Occupied(t) -> names]
  OBVIOUS
<1>2. \A s, u \in Occupied(t) : f[s] = f[u] => s = u
  BY KeysUnique
<1>3. \A s \in Occupied(t) : IsLive(t.entries[s]) /\ f[s] = t.entries[s].key
  BY DEF LiveSlots
<1>4. Owns(t, f)
  <2>. HIDE DEF f
  <2>. QED  BY <1>2, <1>3 DEF Owns
<1>. HIDE DEF f
<1>. QED  BY <1>1, <1>4 DEF Owned

(* The growth at the head of tableSet leaves every slot owned. *)
LEMMA ReserveOwned ==
  ASSUME NEW t, WellFormed(t), NEW names \in SUBSET Key, Owned(t, names)
  PROVE  Owned(Reserve(t), names)
<1>. DEFINE u == Reserve(t)
<1>1. /\ WellFormed(u) /\ HasEmptySlot(u)
      /\ u = t \/ Occupied(u) = LiveSlots(u)
      /\ \A k \in Key, v \in Value : Binds(u, k, v) <=> Binds(t, k, v)
  BY ReserveFact
<1>. HIDE DEF u
<1>2. CASE u = t
  BY <1>2 DEF u
<1>3. CASE Occupied(u) = LiveSlots(u)
  <2>1. TableType(u) /\ Chain(u)
    BY <1>1 DEF WellFormed
  <2>2. ASSUME NEW s \in LiveSlots(u)
        PROVE  u.entries[s].key \in names
    <3>. DEFINE k == u.entries[s].key
                v == u.entries[s].value
    <3>1. s \in Slots(u.capacity) /\ k \in Key /\ v \in Value
          /\ u.entries[s] = [key |-> k, value |-> v]
      BY <2>1 DEF LiveSlots, TableType, Entry, IsLive
    <3>2. Binds(u, k, v)
      BY <3>1 DEF Binds
    <3>3. Binds(t, k, v)
      BY <1>1, <3>1, <3>2
    <3>. HIDE DEF k, v
    <3>4. PICK r \in Slots(t.capacity) : t.entries[r] = [key |-> k, value |-> v]
      BY <3>3 DEF Binds
    <3>5. IsLive(t.entries[r]) /\ t.entries[r].key = k
      BY <3>1, <3>4, TableAssumption DEF IsLive
    <3>6. r \in Occupied(t)
      BY <3>5 DEF Occupied, IsLive, IsEmpty
    <3>7. k \in names
      BY <3>5, <3>6 DEF Owned, Owns
    <3>. QED  BY <3>7 DEF k
  <2>. QED  BY <1>1, <1>3, <2>1, <2>2, LiveOwned DEF u
<1>. QED  BY <1>1, <1>2, <1>3 DEF u

(* tableSet keeps every slot owned, with the name it stores. *)
LEMMA TableSetOwned ==
  ASSUME NEW t, WellFormed(t), NEW names \in SUBSET Key, Owned(t, names),
         NEW k \in Key, NEW v \in Value
  PROVE  Owned(TableSet(t, k, v), names \union {k})
<1>. DEFINE r == Reserve(t)
            n == StoreCount(r, FindEntry(r, k))
<1>1. WellFormed(r) /\ HasEmptySlot(r)
  BY ReserveFact
<1>2. TableType(r) /\ Chain(r)
  BY <1>1 DEF WellFormed
<1>3. /\ TableSet(t, k, v) = WithEntry(r, n, FindEntry(r, k), [key |-> k, value |-> v])
      /\ n \in Nat
  BY <1>2, TableSetStores
<1>4. Owned(r, names)
  BY ReserveOwned
<1>. HIDE DEF r, n
<1>. QED  BY <1>1, <1>2, <1>3, <1>4, StoreOwned

(* A search for the key of a live entry comes to that entry. *)
LEMMA LiveReached ==
  ASSUME NEW t, TableType(t), Chain(t), NEW s \in LiveSlots(t)
  PROVE  Reached(t, t.entries[s].key, s)
<1>. DEFINE k == t.entries[s].key
<1>1. k \in Key /\ s \in Slots(t.capacity) /\ t.capacity \in Nat /\ t.capacity > 0
  BY DEF LiveSlots, TableType, Entry, IsLive, Slots
<1>2. PICK d \in Slots(t.capacity) : ProbeSlot(k, d, t.capacity) = s
  BY <1>1, ProbeSlots
<1>3. \A x \in 0 .. d - 1 : ~ IsEmpty(ProbeEntry(t, k, x))
  BY <1>2 DEF Chain, StopsAt
<1>. HIDE DEF k
<1>4. Reached(t, k, s)
  BY <1>1, <1>2, <1>3, TurnReached
<1>. QED  BY <1>4 DEF k

(* The tombstone that deleting a name leaves stays with that name. *)
LEMMA TableDeleteOwned ==
  ASSUME NEW t, WellFormed(t), NEW names, Owned(t, names), NEW k \in Key
  PROVE  Owned(TableDelete(t, k), names)
<1>1. CASE ~ TableHas(t, k)
  <2>1. TableDelete(t, k) = t
    BY <1>1 DEF TableDelete
  <2>. QED  BY <2>1
<1>2. CASE TableHas(t, k)
  <2>. DEFINE s == FindEntry(t, k)
              u == TableDelete(t, k)
  <2>1. PICK f \in [Occupied(t) -> names] : Owns(t, f)
    BY DEF Owned
  <2>2. TableType(t) /\ Chain(t) /\ t.count # 0 /\ t.capacity > 0
    BY <1>2 DEF TableHas, WellFormed, TableType, MaxLoad
  <2>3. HasEmptySlot(t)
    BY <2>2, WellFormedRoom
  <2>4. s \in LiveSlots(t)
    BY <1>2, <2>2, <2>3, FindEntryFact DEF TableHas, LiveSlots
  <2>5. u = WithEntry(t, t.count, s, Tombstone)
    BY <1>2, <2>2, TableDeleteStores
  <2>. HIDE DEF s, u
  <2>6. ~ IsLive(Tombstone) /\ ~ IsEmpty(Tombstone)
    BY TableAssumption DEF Tombstone, IsLive, IsEmpty
  <2>7. /\ u.capacity = t.capacity
        /\ u.entries[s] = Tombstone
        /\ \A r \in Slots(t.capacity) : r # s => u.entries[r] = t.entries[r]
    BY <2>2, <2>4, <2>5 DEF WithEntry, TableType, LiveSlots
  <2>8. s \in Occupied(t) /\ Occupied(u) = Occupied(t)
    BY <2>4, <2>6, <2>7 DEF Occupied, LiveSlots, IsLive, IsEmpty
  <2>9. \A j, r : Reached(t, j, r) => Reached(u, j, r)
    BY <2>7, <2>8, ReachedMore
  <2>10. ASSUME NEW r \in Occupied(u)
         PROVE  IF IsLive(u.entries[r]) THEN f[r] = u.entries[r].key ELSE Reached(u, f[r], r)
    <3>1. r \in Slots(t.capacity) /\ r \in Occupied(t)
      BY <2>8 DEF Occupied
    <3>2. IF IsLive(t.entries[r]) THEN f[r] = t.entries[r].key ELSE Reached(t, f[r], r)
      BY <2>1, <3>1 DEF Owns
    <3>3. CASE r = s
      <4>1. f[s] = t.entries[s].key
        BY <2>4, <3>2, <3>3 DEF LiveSlots
      <4>2. Reached(t, f[s], s)
        BY <2>2, <2>4, <4>1, LiveReached
      <4>. QED  BY <2>6, <2>7, <2>9, <3>3, <4>2
    <3>4. CASE r # s
      BY <2>7, <2>9, <3>1, <3>2, <3>4
    <3>. QED  BY <3>3, <3>4
  <2>11. Owns(u, f)
    BY <2>1, <2>8, <2>10 DEF Owns
  <2>12. Owned(u, names)
    BY <2>1, <2>8, <2>11 DEF Owned
  <2>. QED  BY <2>12 DEF u
<1>. QED  BY <1>1, <1>2

(* The names written to own the slots in use, at every instruction. *)
PileInv ==
  /\ Owned(globals, used)
  /\ IsFiniteSet(used)

(* The empty table has nothing to own ... *)
LEMMA InitPile == Init => PileInv
<1>. SUFFICES ASSUME Init PROVE PileInv
  OBVIOUS
<1>1. globals = BlankTable(0) /\ used = {}
  BY DEF Init, InitTable
<1>2. Occupied(globals) = {}
  BY <1>1, BlankFact
<1>3. Owned(globals, used)
  <2>. DEFINE f == [s \in {} |-> s]
  <2>1. f \in [Occupied(globals) -> used] /\ Owns(globals, f)
    BY <1>2 DEF Owns
  <2>. QED  BY <2>1 DEF Owned
<1>. QED  BY <1>1, <1>3, FS_EmptySet DEF PileInv

(* ... and each instruction keeps every slot in use owned. *)
LEMMA StepPile == IInv /\ PileInv /\ [Next]_vars => PileInv'
<1>. SUFFICES ASSUME IInv, PileInv, [Next]_vars PROVE PileInv'
  OBVIOUS
<1>1. /\ WellFormed(globals) /\ used \in SUBSET Key
      /\ Owned(globals, used) /\ IsFiniteSet(used)
  BY DEF IInv, PileInv
<1>2. \A k \in Key : IsFiniteSet(used \union {k})
  BY <1>1, FS_AddElement
<1>3. ASSUME NEW k \in Key, NEW v \in Value
      PROVE  /\ WellFormed(TableSet(globals, k, v))
             /\ Owned(TableSet(globals, k, v), used \union {k})
             /\ Owned(TableDelete(TableSet(globals, k, v), k), used \union {k})
  <2>1. WellFormed(TableSet(globals, k, v))
    BY <1>1, TableSetFact
  <2>2. Owned(TableSet(globals, k, v), used \union {k})
    BY <1>1, TableSetOwned
  <2>. QED  BY <2>1, <2>2, TableDeleteOwned
<1>4. ASSUME NEW k \in Key, NEW v \in Value, DefineGlobal(k, v)
      PROVE  PileInv'
  BY <1>2, <1>3, <1>4 DEF DefineGlobal, PileInv
<1>5. ASSUME NEW k \in Key, NEW v \in Value, SetGlobal(k, v)
      PROVE  PileInv'
  BY <1>2, <1>3, <1>5 DEF SetGlobal, PileInv
<1>6. ASSUME NEW k \in Key, GetGlobal(k)
      PROVE  PileInv'
  BY <1>1, <1>6 DEF GetGlobal, PileInv
<1>7. CASE UNCHANGED vars
  BY <1>1, <1>7 DEF vars, PileInv
<1>. QED  BY <1>4, <1>5, <1>6, <1>7 DEF Next

(* NoTombstonePileUp: failed assignments leave tombstones, but never more
   slots in use than there are names that were written to, whatever order
   the names, their hashes and the growth of the array come in. *)
THEOREM TombstonesBounded == Spec => []NoTombstonePileUp
<1>1. PileInv => NoTombstonePileUp
  BY OwnedCount DEF PileInv, NoTombstonePileUp
<1>2. Spec => []PileInv
  BY Invariance, InitPile, StepPile, PTL DEF Spec
<1>. QED  BY <1>1, <1>2, PTL
=============================================================================
