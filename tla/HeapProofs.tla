------------------------------ MODULE HeapProofs ------------------------------
(***************************************************************************)
(* The heap of a process with one machine, whose collector may run at any  *)
(* allocation.  Whatever the objects, texts, hashes and bounds: nothing is *)
(* freed that the program can reach but what only C variables held; equal  *)
(* strings are one object; and a collection that is asked for leaves       *)
(* exactly what the machine can reach.                                     *)
(*                                                                         *)
(* First the string table as an array that is searched by probing, then    *)
(* marking, then heap and table together; then the invariant, and each     *)
(* action in turn.                                                         *)
(***************************************************************************)
EXTENDS Heap, SequencesExt, WellFoundedInduction, SequenceTheorems, FiniteSetTheorems, TLAPS

-----------------------------------------------------------------------------
(* Facts about naturals and sequences. *)

(* Every non-empty set of natural numbers has a least element: what makes
   the first empty slot of a probe sequence, or the innermost of several
   handlers, well defined. *)
LEMMA LeastElement ==
  ASSUME NEW S \in SUBSET Nat, S # {}
  PROVE  \E k \in S : \A n \in S : k <= n
<1>. DEFINE R == {p \in Nat \X Nat : p[1] < p[2]}
<1>1. IsWellFoundedOn(R, Nat)
  BY NatLessThanWellFounded DEF OpToRel
<1>2. PICK k \in S : \A n \in S : ~ (<<n, k>> \in R)
  <2>. HIDE DEF R
  <2>. QED  BY <1>1, WFMin
<1>3. ASSUME NEW n \in S PROVE k <= n
  <2>1. <<n, k>> \notin R
    BY <1>2
  <2>2. k \in Nat /\ n \in Nat
    OBVIOUS
  <2>3. ~ (n < k)
    BY <2>1, <2>2
  <2>. QED  BY <2>2, <2>3
<1>. QED  BY <1>3

(* A set of natural numbers that holds 0 and is closed under successor holds
   them all. *)
LEMMA SetInduction ==
  ASSUME NEW S \in SUBSET Nat, 0 \in S, \A n \in S : n + 1 \in S
  PROVE  S = Nat
<1>. SUFFICES ASSUME Nat \ S # {} PROVE FALSE
  OBVIOUS
<1>1. PICK k \in Nat \ S : \A n \in Nat \ S : k <= n
  <2>1. Nat \ S \in SUBSET Nat
    OBVIOUS
  <2>. QED  BY <2>1, LeastElement
<1>2. k # 0 /\ k - 1 \in Nat
  OBVIOUS
<1>3. k - 1 \in S
  BY <1>1, <1>2
<1>. QED  BY <1>2, <1>3

(* The same up to a bound. *)
LEMMA BoundedInduction ==
  ASSUME NEW N \in Nat, NEW S \in SUBSET (0 .. N), 0 \in S,
         \A n \in S : n < N => n + 1 \in S
  PROVE  S = 0 .. N
<1>. DEFINE T == S \union {n \in Nat : n > N}
<1>1. \A n \in S : n \in Nat /\ n <= N
  OBVIOUS
<1>2. 0 \in T
  OBVIOUS
<1>3. \A n \in T : n + 1 \in T
  BY <1>1
<1>4. T = Nat
  <2>1. T \in SUBSET Nat
    BY <1>1
  <2>. HIDE DEF T
  <2>. QED  BY <1>2, <1>3, <2>1, SetInduction
<1>5. \A n \in 0 .. N : n \in S
  <2>. TAKE n \in 0 .. N
  <2>1. n \in T
    <3>. HIDE DEF T
    <3>. QED  BY <1>4
  <2>. QED  BY <2>1
<1>. QED  BY <1>5

LEMMA AppendFacts ==
  ASSUME NEW S, NEW s \in Seq(S), NEW e \in S
  PROVE  /\ Append(s, e) \in Seq(S) /\ Len(Append(s, e)) = Len(s) + 1 /\ Len(s) \in Nat
         /\ \A i \in 1..Len(s) : Append(s, e)[i] = s[i]
         /\ Append(s, e)[Len(s) + 1] = e
  BY AppendProperties, LenProperties

LEMMA FirstPart ==
  ASSUME NEW S, NEW s \in Seq(S), NEW l \in 0..Len(s)
  PROVE  /\ SubSeq(s, 1, l) \in Seq(S) /\ Len(SubSeq(s, 1, l)) = l
         /\ \A i \in 1..l : SubSeq(s, 1, l)[i] = s[i]
<1>1. \A i \in 1..l : s[i] \in S
  BY LenProperties, ElementOfSeq
<1>2. 1 \in Int /\ l \in Int /\ l \in Nat
  BY LenProperties
<1>3. /\ SubSeq(s, 1, l) \in Seq(S)
      /\ Len(SubSeq(s, 1, l)) = IF 1 <= l THEN l - 1 + 1 ELSE 0
      /\ \A i \in 1..l - 1 + 1 : SubSeq(s, 1, l)[i] = s[1 + i - 1]
  BY <1>1, <1>2, SubSeqProperties
<1>. QED  BY <1>2, <1>3

-----------------------------------------------------------------------------
(* Arrays of strings that are searched by probing. *)

Entries(c) == [Slots(c) -> Obj \union {NoObj}]

In(e, c) == {e[s] : s \in Slots(c)} \ {NoObj}

HasRoom(e, c) == \E s \in Slots(c) : e[s] = NoObj

(* From the home slot of o to where it is no slot is empty. *)
Near(e, c, o, hash) ==
  \E d \in Slots(c) : /\ e[ProbeSlot(hash, d, c)] = o
                      /\ \A x \in 0 .. d - 1 : e[ProbeSlot(hash, x, c)] # NoObj

Probed(e, c, text) ==
  /\ c \in Nat /\ e \in Entries(c)
  /\ \A s, u \in Slots(c) : e[s] = e[u] /\ e[s] # NoObj => s = u
  /\ \A o \in In(e, c) : text[o] \in Text /\ Near(e, c, o, TextHash[text[o]])

(* The turns of a search visit every slot. *)
LEMMA ProbeSlots ==
  ASSUME NEW hash \in Nat, NEW c \in Nat, c > 0
  PROVE  /\ \A d \in Slots(c) : ProbeSlot(hash, d, c) \in Slots(c)
         /\ \A s \in Slots(c) : \E d \in Slots(c) : ProbeSlot(hash, d, c) = s
<1>. DEFINE home == hash % c
<1>1. home \in 0 .. c - 1
  OBVIOUS
<1>2. \A d \in Slots(c) : ProbeSlot(hash, d, c) = (home + d) % c
  BY DEF ProbeSlot, Slots
<1>. HIDE DEF home
<1>3. \A d \in Slots(c) : ProbeSlot(hash, d, c) \in Slots(c)
  BY <1>1, <1>2 DEF Slots
<1>4. ASSUME NEW s \in Slots(c)
      PROVE  \E d \in Slots(c) : ProbeSlot(hash, d, c) = s
  <2>. DEFINE d == IF s < home THEN s - home + c ELSE s - home
  <2>1. d \in Slots(c) /\ (home + d) % c = s
    BY <1>1 DEF Slots
  <2>. QED  BY <1>2, <2>1
<1>. QED  BY <1>3, <1>4

(* Where a search for something or an empty slot ends: at the first of them. *)
LEMMA SearchEnds ==
  ASSUME NEW c \in Nat, NEW e \in Entries(c), HasRoom(e, c), NEW hash \in Nat,
         NEW W, NoObj \in W
  PROVE  LET s == FirstSlot(e, c, hash, W)
         IN  /\ s \in Slots(c) /\ e[s] \in W
             /\ \E d \in Slots(c) : /\ s = ProbeSlot(hash, d, c)
                                    /\ \A x \in 0 .. d - 1 : ~ (e[ProbeSlot(hash, x, c)] \in W)
<1>. DEFINE S == Turns(e, c, hash, W)
            first == CHOOSE d \in S : \A x \in S : d <= x
<1>1. c > 0
  BY DEF HasRoom, Slots
<1>2. PICK u \in Slots(c) : e[u] = NoObj
  BY DEF HasRoom
<1>3. PICK d \in Slots(c) : ProbeSlot(hash, d, c) = u
  BY <1>1, <1>2, ProbeSlots
<1>4. d \in S
  BY <1>2, <1>3 DEF Turns
<1>5. S \in SUBSET Nat /\ S # {}
  BY <1>4 DEF Turns, Slots
<1>6. \E m \in S : \A n \in S : m <= n
  <2>. HIDE DEF S
  <2>. QED  BY <1>5, LeastElement
<1>7. first \in S /\ \A n \in S : first <= n
  <2>. HIDE DEF S
  <2>. QED  BY <1>6
<1>8. FirstSlot(e, c, hash, W) = ProbeSlot(hash, first, c)
  BY DEF FirstSlot
<1>. HIDE DEF first
<1>9. first \in Slots(c) /\ e[ProbeSlot(hash, first, c)] \in W
  BY <1>7 DEF Turns
<1>10. ProbeSlot(hash, first, c) \in Slots(c)
  BY <1>1, <1>9, ProbeSlots
<1>11. ASSUME NEW x \in 0 .. first - 1, e[ProbeSlot(hash, x, c)] \in W
       PROVE  FALSE
  <2>1. x \in Slots(c) /\ ~ (first <= x)
    BY <1>9 DEF Slots
  <2>2. x \in S
    BY <1>11, <2>1 DEF Turns
  <2>. QED  BY <1>7, <2>1, <2>2
<1>. QED  BY <1>8, <1>9, <1>10, <1>11

(* Fewer strings than slots: one slot is empty. *)
LEMMA RoomLeft ==
  ASSUME NEW c, NEW e, NEW text, Probed(e, c, text),
         NEW S, IsFiniteSet(S), In(e, c) \subseteq S, Cardinality(S) < c
  PROVE  HasRoom(e, c)
<1>. SUFFICES ASSUME ~ HasRoom(e, c) PROVE FALSE
  OBVIOUS
<1>1. c \in Nat /\ e \in [Slots(c) -> Obj \union {NoObj}]
  BY DEF Probed, Entries
<1>2. \A s \in Slots(c) : e[s] # NoObj /\ e[s] \in S
  BY DEF HasRoom, In
<1>3. e \in [Slots(c) -> S]
  BY <1>1, <1>2
<1>4. e \in Injection(Slots(c), S)
  BY <1>2, <1>3 DEF Injection, IsInjective, Probed
<1>5. Cardinality(Slots(c)) <= Cardinality(S)
  <2>. DEFINE D == Slots(c)
  <2>. HIDE DEF D
  <2>1. e \in Injection(D, S)
    BY <1>4 DEF D
  <2>2. Cardinality(D) <= Cardinality(S)
    BY <2>1, FS_Injection
  <2>. QED  BY <2>2 DEF D
<1>6. Cardinality(Slots(c)) = c
  <2>. DEFINE z == 0
              l == c - 1
  <2>1. z \in Int /\ l \in Int /\ (IF z > l THEN 0 ELSE l - z + 1) = c
    BY <1>1
  <2>2. Slots(c) = z .. l
    BY DEF Slots
  <2>. HIDE DEF z, l
  <2>3. Cardinality(z .. l) = IF z > l THEN 0 ELSE l - z + 1
    BY <2>1, FS_Interval
  <2>. QED  BY <2>1, <2>2, <2>3
<1>7. Cardinality(S) \in Nat
  BY FS_CardinalityType
<1>. QED  BY <1>1, <1>5, <1>6, <1>7

\* A search for o ends where it is.
LEMMA NearFound ==
  ASSUME NEW c \in Nat, NEW e \in Entries(c), HasRoom(e, c), NEW hash \in Nat,
         NEW o, Near(e, c, o, hash), NEW W, NoObj \in W, o \in W,
         \A p \in W \intersect In(e, c) : p = o
  PROVE  e[FirstSlot(e, c, hash, W)] \in {o}
<1>. DEFINE s == FirstSlot(e, c, hash, W)
<1>1. /\ s \in Slots(c) /\ e[s] \in W
      /\ \E d \in Slots(c) : /\ s = ProbeSlot(hash, d, c)
                             /\ \A x \in 0 .. d - 1 : ~ (e[ProbeSlot(hash, x, c)] \in W)
  BY SearchEnds
<1>. HIDE DEF s
<1>2. PICK d \in Slots(c) : /\ s = ProbeSlot(hash, d, c)
                            /\ \A x \in 0 .. d - 1 : ~ (e[ProbeSlot(hash, x, c)] \in W)
  BY <1>1
<1>3. PICK n \in Slots(c) : /\ e[ProbeSlot(hash, n, c)] = o
                            /\ \A x \in 0 .. n - 1 : e[ProbeSlot(hash, x, c)] # NoObj
  BY DEF Near
<1>4. ~ (n \in 0 .. d - 1)
  BY <1>2, <1>3
<1>5. d <= n
  BY <1>4 DEF Slots
<1>6. CASE e[s] = NoObj
  <2>1. ~ (d \in 0 .. n - 1)
    BY <1>2, <1>3, <1>6
  <2>2. d = n
    BY <1>5, <2>1 DEF Slots
  <2>. QED  BY <1>2, <1>3, <2>2 DEF s
<1>7. CASE e[s] # NoObj
  <2>1. e[s] \in In(e, c)
    BY <1>1, <1>7 DEF In
  <2>. QED  BY <1>1, <2>1 DEF s
<1>. QED  BY <1>6, <1>7

(* A string is put into the first empty slot. *)
Home(e, c, o, text) == FirstSlot(e, c, TextHash[text[o]], {NoObj})

Put(e, c, o, text) == [e EXCEPT ![Home(e, c, o, text)] = o]

LEMMA PutProbed ==
  ASSUME NEW c, NEW e, NEW text, Probed(e, c, text), HasRoom(e, c),
         NEW o \in Obj, ~ (o \in In(e, c)), text[o] \in Text
  PROVE  /\ Home(e, c, o, text) \in Slots(c) /\ e[Home(e, c, o, text)] = NoObj
         /\ Probed(Put(e, c, o, text), c, text)
         /\ In(Put(e, c, o, text), c) = In(e, c) \union {o}
<1>. DEFINE hash == TextHash[text[o]]
            to == FirstSlot(e, c, hash, {NoObj})
            f == [e EXCEPT ![to] = o]
<1>1. c \in Nat /\ e \in Entries(c) /\ hash \in Nat
  BY StringTableAssumption DEF Probed
<1>2. /\ to \in Slots(c) /\ e[to] \in {NoObj}
      /\ \E d \in Slots(c) : /\ to = ProbeSlot(hash, d, c)
                             /\ \A x \in 0 .. d - 1 : ~ (e[ProbeSlot(hash, x, c)] \in {NoObj})
  <2>. HIDE DEF hash
  <2>. QED  BY <1>1, SearchEnds
<1>. HIDE DEF to
<1>3. f \in Entries(c) /\ \A s \in Slots(c) : f[s] = IF s = to THEN o ELSE e[s]
  BY <1>1, <1>2 DEF Entries
<1>. HIDE DEF f
<1>4. o # NoObj
  BY StringTableAssumption
<1>5. In(f, c) = In(e, c) \union {o}
  BY <1>2, <1>3, <1>4 DEF In
<1>6. \A s, u \in Slots(c) : f[s] = f[u] /\ f[s] # NoObj => s = u
  <2>1. \A s \in Slots(c) : e[s] # o
    BY <1>4 DEF In
  <2>. QED  BY <1>3, <2>1 DEF Probed
<1>7. \A s \in Slots(c) : e[s] # NoObj => f[s] # NoObj
  BY <1>3, <1>4
<1>8. ASSUME NEW p \in In(f, c)
      PROVE  text[p] \in Text /\ Near(f, c, p, TextHash[text[p]])
  <2>0. \A h \in Nat : \A d \in Slots(c) : \A x \in 0 .. d - 1 : ProbeSlot(h, x, c) \in Slots(c)
    <3>1. SUFFICES ASSUME NEW h \in Nat, NEW d \in Slots(c), NEW x \in 0 .. d - 1
                   PROVE  ProbeSlot(h, x, c) \in Slots(c)
      OBVIOUS
    <3>2. c > 0 /\ x \in Slots(c)
      BY <1>1 DEF Slots
    <3>. QED  BY <1>1, <3>2, ProbeSlots
  <2>1. CASE p = o
    <3>1. PICK d \in Slots(c) : /\ to = ProbeSlot(hash, d, c)
                                /\ \A x \in 0 .. d - 1 : ~ (e[ProbeSlot(hash, x, c)] \in {NoObj})
      BY <1>2
    <3>2. \A x \in 0 .. d - 1 : f[ProbeSlot(hash, x, c)] # NoObj
      BY <1>1, <1>7, <2>0, <3>1
    <3>. QED  BY <1>2, <1>3, <2>1, <3>1, <3>2 DEF Near
  <2>2. CASE p # o
    <3>. DEFINE g == TextHash[text[p]]
    <3>1. p \in In(e, c)
      BY <1>5, <2>2
    <3>2. text[p] \in Text /\ Near(e, c, p, g)
      BY <3>1 DEF Probed
    <3>3. g \in Nat
      BY <3>2, StringTableAssumption
    <3>4. PICK d \in Slots(c) : /\ e[ProbeSlot(g, d, c)] = p
                                /\ \A x \in 0 .. d - 1 : e[ProbeSlot(g, x, c)] # NoObj
      BY <3>2 DEF Near
    <3>5. c > 0 /\ ProbeSlot(g, d, c) \in Slots(c)
      <4>1. c > 0
        BY <1>1 DEF Slots
      <4>. QED  BY <1>1, <3>3, <4>1, ProbeSlots
    <3>6. f[ProbeSlot(g, d, c)] = p
      <4>1. p # NoObj
        BY <3>1 DEF In
      <4>. QED  BY <1>2, <1>3, <3>4, <3>5, <4>1
    <3>7. \A x \in 0 .. d - 1 : f[ProbeSlot(g, x, c)] # NoObj
      BY <1>7, <2>0, <3>3, <3>4
    <3>. QED  BY <3>2, <3>6, <3>7 DEF Near
  <2>. QED  BY <2>1, <2>2
<1>9. Probed(f, c, text)
  BY <1>1, <1>3, <1>6, <1>8 DEF Probed
<1>. QED  BY <1>2, <1>5, <1>9 DEF f, to, Put, Home

LEMMA NoneProbed ==
  ASSUME NEW c \in Nat, NEW text
  PROVE  Probed(Blank(c), c, text) /\ In(Blank(c), c) = {}
  BY DEF Probed, Blank, In, Entries

\* The arrays after the turns of the loop that moves strings.
Moving(f, t, keep, c, text) ==
  /\ f[0] = Blank(c)
  /\ \A i \in 1 .. t.capacity :
       LET s == t.entries[i - 1]
           to == FirstSlot(f[i - 1], c, TextHash[text[s]], {NoObj})
       IN  f[i] = IF s \in keep THEN [f[i - 1] EXCEPT ![to] = s] ELSE f[i - 1]

\* The loop is well defined: its recursion has a solution.
LEMMA MovedLoop ==
  ASSUME NEW t, t.capacity \in Nat, NEW keep, NEW c, NEW text
  PROVE  \E f : Moved(t, keep, c, text) = f[t.capacity] /\ Moving(f, t, keep, c, text)
<1>. DEFINE N == t.capacity
            Turn(a, i) ==
              LET s == t.entries[i - 1]
                  to == FirstSlot(a, c, TextHash[text[s]], {NoObj})
              IN  IF s \in keep THEN [a EXCEPT ![to] = s] ELSE a
            Rec(g, n) == g = [i \in 0 .. n |-> IF i = 0 THEN Blank(c) ELSE Turn(g[i - 1], i)]
            S == {n \in 0 .. N : \E g : Rec(g, n)}
<1>1. Moved(t, keep, c, text) = (CHOOSE g : Rec(g, N))[N]
  BY DEF Moved
<1>. HIDE DEF Turn
<1>2. 0 \in S
  <2>1. Rec([i \in 0 .. 0 |-> Blank(c)], 0)
    OBVIOUS
  <2>. HIDE DEF Rec
  <2>. QED  BY <2>1
<1>3. ASSUME NEW n \in S, n < N
      PROVE  n + 1 \in S
  <2>1. PICK g : Rec(g, n)
    OBVIOUS
  <2>. DEFINE h == [i \in 0 .. n + 1 |-> IF i <= n THEN g[i] ELSE Turn(g[n], i)]
  <2>2. \A i \in 0 .. n : h[i] = g[i]
    OBVIOUS
  <2>3. h[n + 1] = Turn(h[n], n + 1)
    BY <2>2
  <2>4. \A i \in 0 .. n : h[i] = IF i = 0 THEN Blank(c) ELSE Turn(h[i - 1], i)
    BY <2>1, <2>2
  <2>5. \A i \in 0 .. n + 1 : h[i] = IF i = 0 THEN Blank(c) ELSE Turn(h[i - 1], i)
    <3>. HIDE DEF h
    <3>1. n \in Nat /\ (n + 1) - 1 = n /\ n + 1 # 0
      OBVIOUS
    <3>2. \A i \in 0 .. n + 1 : i \in 0 .. n \/ i = n + 1
      BY <3>1
    <3>. QED  BY <2>3, <2>4, <3>1, <3>2
  <2>6. Rec(h, n + 1)
    <3>. HIDE DEF h
    <3>1. h = [i \in 0 .. n + 1 |-> h[i]]
      BY DEF h
    <3>. QED  BY <2>5, <3>1
  <2>7. n + 1 \in 0 .. N
    BY <1>3
  <2>. HIDE DEF Rec, h
  <2>. QED  BY <2>6, <2>7
<1>4. N \in S
  <2>1. S \in SUBSET (0 .. N)
    OBVIOUS
  <2>. HIDE DEF S
  <2>2. S = 0 .. N
    BY <1>2, <1>3, <2>1, BoundedInduction
  <2>. QED  BY <2>2
<1>. DEFINE f == CHOOSE g : Rec(g, N)
<1>5. Rec(f, N)
  <2>1. \E g : Rec(g, N)
    BY <1>4
  <2>. HIDE DEF Rec
  <2>. QED  BY <2>1
<1>. HIDE DEF f
<1>6. f[0] = Blank(c) /\ \A i \in 1 .. N : f[i] = Turn(f[i - 1], i)
  BY <1>5
<1>7. Moving(f, t, keep, c, text)
  BY <1>6 DEF Moving, Turn
<1>. QED  BY <1>1, <1>7 DEF f

\* It moves the strings that are kept, and no others.
LEMMA MovedFacts ==
  ASSUME NEW t, NEW text, Probed(t.entries, t.capacity, text),
         NEW keep \in SUBSET Obj, NEW c \in Nat,
         IsFiniteSet(In(t.entries, t.capacity)), Cardinality(In(t.entries, t.capacity)) < c
  PROVE  /\ Probed(Moved(t, keep, c, text), c, text)
         /\ In(Moved(t, keep, c, text), c) = In(t.entries, t.capacity) \intersect keep
<1>. DEFINE N == t.capacity
            e == t.entries
            L == In(e, N)
            Upto(i) == {e[j] : j \in 0 .. i - 1} \intersect keep
<1>1. N \in Nat /\ NoObj \notin keep /\ \A s \in Slots(N) : e[s] = NoObj \/ e[s] \in L
  BY StringTableAssumption DEF Probed, In
<1>2. PICK f : Moved(t, keep, c, text) = f[t.capacity] /\ Moving(f, t, keep, c, text)
  BY <1>1, MovedLoop
<1>. DEFINE S == {i \in 0 .. N : Probed(f[i], c, text) /\ In(f[i], c) = Upto(i)}
<1>3. 0 \in S
  <2>1. Upto(0) = {}
    OBVIOUS
  <2>2. Probed(f[0], c, text) /\ In(f[0], c) = {}
    BY <1>2, NoneProbed DEF Moving
  <2>3. 0 \in 0 .. N
    BY <1>1
  <2>. HIDE DEF Upto
  <2>. QED  BY <2>1, <2>2, <2>3
<1>4. ASSUME NEW i \in S, i < N
      PROVE  i + 1 \in S
  <2>. DEFINE s == e[i]
              a == f[i]
              b == f[i + 1]
              to == FirstSlot(a, c, TextHash[text[s]], {NoObj})
  <2>1. i \in Slots(N) /\ i + 1 \in 1 .. N /\ (i + 1) - 1 = i /\ i + 1 \in 0 .. N
    BY <1>1, <1>4 DEF Slots
  <2>2. b = IF s \in keep THEN [a EXCEPT ![to] = s] ELSE a
    BY <1>2, <2>1 DEF Moving
  <2>3. Probed(a, c, text) /\ In(a, c) = Upto(i)
    OBVIOUS
  <2>4. Upto(i + 1) = Upto(i) \union ({s} \intersect keep)
    <3>1. \A j \in 0 .. (i + 1) - 1 : j \in 0 .. i - 1 \/ j = i
      BY <2>1
    <3>2. \A j \in 0 .. i - 1 : j \in 0 .. (i + 1) - 1
      BY <2>1
    <3>3. i \in 0 .. (i + 1) - 1
      BY <2>1
    <3>. QED  BY <3>1, <3>2, <3>3
  <2>5. CASE s \notin keep
    <3>1. Probed(b, c, text) /\ In(b, c) = Upto(i + 1)
      <4>. HIDE DEF a, b, s, Upto
      <4>. QED  BY <2>2, <2>3, <2>4, <2>5
    <3>. QED  BY <2>1, <3>1
  <2>6. CASE s \in keep
    <3>1. s \in L /\ s \in Obj /\ text[s] \in Text
      BY <1>1, <2>1, <2>6 DEF Probed
    <3>2. Upto(i) \subseteq L
      <4>1. \A j \in 0 .. i - 1 : j \in Slots(N)
        BY <1>1, <2>1 DEF Slots
      <4>. QED  BY <1>1, <4>1
    <3>3. ~ (s \in Upto(i))
      <4>1. \A j \in 0 .. i - 1 : j \in Slots(N) /\ j # i
        BY <1>1, <2>1 DEF Slots
      <4>2. s # NoObj
        BY <1>1, <2>6
      <4>. QED  BY <2>1, <4>1, <4>2 DEF Probed
    <3>. HIDE DEF Upto, L, e, a, b, s, to
    <3>4. HasRoom(a, c)
      BY <2>3, <3>2, RoomLeft DEF L, e
    <3>5. /\ Probed(Put(a, c, s, text), c, text)
          /\ In(Put(a, c, s, text), c) = In(a, c) \union {s}
      <4>1. Probed(a, c, text) /\ HasRoom(a, c) /\ s \in Obj /\ ~ (s \in In(a, c)) /\ text[s] \in Text
        BY <2>3, <3>1, <3>3, <3>4
      <4>. QED  BY <4>1, PutProbed
    <3>6. Probed(b, c, text) /\ In(b, c) = Upto(i + 1)
      <4>1. b = Put(a, c, s, text)
        BY <2>2, <2>6 DEF Put, Home, to
      <4>. QED  BY <2>3, <2>4, <3>5, <2>6, <4>1
    <3>. QED  BY <2>1, <3>6 DEF b, Upto
  <2>. QED  BY <2>5, <2>6
<1>5. N \in S
  <2>1. S \in SUBSET (0 .. N)
    OBVIOUS
  <2>. HIDE DEF S
  <2>2. S = 0 .. N
    BY <1>1, <1>3, <1>4, <2>1, BoundedInduction
  <2>. QED  BY <1>1, <2>2
<1>6. Upto(N) = L \intersect keep
  BY <1>1 DEF Slots, In
<1>. QED  BY <1>2, <1>5, <1>6

-----------------------------------------------------------------------------
(* The table of strings: it holds the objects L, no two with the same text. *)

TableOK(t, text, L) ==
  /\ t = [count |-> t.count, capacity |-> t.capacity, entries |-> t.entries]
  /\ Probed(t.entries, t.capacity, text)
  /\ L = In(t.entries, t.capacity) /\ IsFiniteSet(L)
  /\ t.count = Cardinality(L) /\ t.count <= (t.capacity * 3) \div 4
  /\ t.capacity = 0 \/ t.capacity >= MinCapacity
  /\ \A o, p \in L : text[o] = text[p] => o = p

LEMMA TableFacts ==
  ASSUME NEW t, NEW text, NEW L, TableOK(t, text, L)
  PROVE  /\ t.capacity \in Nat /\ t.count \in Nat /\ L \in SUBSET Obj
         /\ \A o \in L : text[o] \in Text
         /\ t.capacity = 0 => L = {}
         /\ t.capacity > 0 => t.count < t.capacity /\ HasRoom(t.entries, t.capacity)
<1>1. t.capacity \in Nat /\ t.count \in Nat
  BY FS_CardinalityType DEF TableOK, Probed
<1>2. L \in SUBSET Obj
  BY DEF TableOK, Probed, In, Entries
<1>3. \A o \in L : text[o] \in Text
  BY DEF TableOK, Probed
<1>4. t.capacity = 0 => L = {}
  BY DEF TableOK, In, Slots
<1>5. t.capacity > 0 => t.count < t.capacity
  BY <1>1 DEF TableOK
<1>6. ASSUME t.capacity > 0
      PROVE  HasRoom(t.entries, t.capacity)
  <2>1. Probed(t.entries, t.capacity, text) /\ IsFiniteSet(L) /\ In(t.entries, t.capacity) \subseteq L
    BY DEF TableOK
  <2>2. Cardinality(L) < t.capacity
    BY <1>5, <1>6 DEF TableOK
  <2>. QED  BY <2>1, <2>2, RoomLeft
<1>. QED  BY <1>1, <1>2, <1>3, <1>4, <1>5, <1>6

\* Only the texts of the strings in the table matter.
LEMMA TableText ==
  ASSUME NEW t, NEW text, NEW L, TableOK(t, text, L), NEW text2, \A o \in L : text2[o] = text[o]
  PROVE  TableOK(t, text2, L)
  BY DEF TableOK, Probed

\* tableFindString finds a text if it is there.
LEMMA TableFind ==
  ASSUME NEW t, NEW text, NEW L, TableOK(t, text, L), NEW x \in Text
  PROVE  \/ FindString(t, x, text) \in L /\ text[FindString(t, x, text)] = x
         \/ FindString(t, x, text) = NoObj /\ \A o \in L : text[o] # x
<1>. DEFINE c == t.capacity
            e == t.entries
            hash == TextHash[x]
            W == {o \in Obj : text[o] = x} \union {NoObj}
            s == FirstSlot(e, c, hash, W)
<1>1. /\ c \in Nat /\ e \in Entries(c) /\ hash \in Nat
      /\ L \in SUBSET Obj /\ (c = 0 => L = {}) /\ (c > 0 => HasRoom(e, c))
  BY TableFacts, StringTableAssumption DEF TableOK, Probed
<1>2. CASE c = 0
  BY <1>1, <1>2 DEF FindString
<1>3. CASE c > 0
  <2>1. FindString(t, x, text) = e[s]
    BY <1>1, <1>3 DEF FindString
  <2>2. NoObj \in W
    OBVIOUS
  <2>3. s \in Slots(c) /\ e[s] \in W
    <3>. HIDE DEF W, e, c, hash
    <3>. QED  BY <1>1, <1>3, <2>2, SearchEnds DEF s
  <2>4. CASE e[s] # NoObj
    <3>1. e[s] \in L /\ text[e[s]] = x
      <4>. HIDE DEF s
      <4>. QED  BY <2>3, <2>4 DEF TableOK, In
    <3>. QED  BY <2>1, <3>1
  <2>5. CASE e[s] = NoObj
    <3>1. SUFFICES ASSUME NEW o \in L, text[o] = x PROVE FALSE
      BY <2>1, <2>5
    <3>2. Near(e, c, o, hash) /\ o \in W /\ L = In(e, c)
      BY <1>1, <3>1 DEF TableOK, Probed
    <3>3. \A p \in W \intersect In(e, c) : p = o
      BY <1>1, <3>1, StringTableAssumption DEF TableOK, In
    <3>4. e[s] \in {o}
      <4>. HIDE DEF W, e, c, hash
      <4>. QED  BY <1>1, <1>3, <2>2, <3>2, <3>3, NearFound DEF s
    <3>5. o # NoObj
      BY <1>1, StringTableAssumption
    <3>. QED  BY <2>5, <3>4, <3>5
  <2>. QED  BY <2>4, <2>5
<1>. QED  BY <1>1, <1>2, <1>3

\* Growth: room for one more string.
LEMMA TableGrown ==
  ASSUME NEW t, NEW text, NEW L, TableOK(t, text, L)
  PROVE  LET g == Grown(t, text)
         IN  TableOK(g, text, L) /\ g.count + 1 <= (g.capacity * 3) \div 4 /\ g.capacity > 0
<1>. DEFINE c == GrowCapacity(t.capacity)
            a == Moved(t, Obj, c, text)
            g == Grown(t, text)
<1>1. /\ t.capacity \in Nat /\ t.count \in Nat /\ L \in SUBSET Obj
      /\ (t.capacity > 0 => t.count < t.capacity)
      /\ (t.capacity = 0 => L = {})
      /\ t.count <= (t.capacity * 3) \div 4
      /\ t.capacity = 0 \/ t.capacity >= MinCapacity
      /\ t.count = Cardinality(L)
  <2>1. /\ t.capacity \in Nat /\ t.count \in Nat /\ L \in SUBSET Obj
        /\ (t.capacity > 0 => t.count < t.capacity)
        /\ (t.capacity = 0 => L = {})
    BY TableFacts
  <2>2. /\ t.count <= (t.capacity * 3) \div 4
        /\ t.capacity = 0 \/ t.capacity >= MinCapacity
        /\ t.count = Cardinality(L)
    BY DEF TableOK
  <2>. QED  BY <2>1, <2>2
<1>2. MinCapacity \in Nat /\ MinCapacity >= 2
  BY StringTableAssumption
<1>3. CASE ~ (t.count + 1 > (t.capacity * 3) \div 4)
  <2>1. g = t
    BY <1>3 DEF Grown
  <2>2. t.count + 1 <= (t.capacity * 3) \div 4 /\ t.capacity > 0
    BY <1>1, <1>3
  <2>. QED  BY <2>1, <2>2
<1>4. CASE t.count + 1 > (t.capacity * 3) \div 4
  <2>0. t.capacity = 0 => t.count = 0
    BY <1>1, FS_EmptySet
  <2>1. c \in Nat /\ c >= MinCapacity /\ t.count < c /\ t.count + 1 <= (c * 3) \div 4
    BY <1>1, <1>2, <2>0 DEF GrowCapacity
  <2>. HIDE DEF c
  <2>2. Probed(a, c, text) /\ In(a, c) = L \intersect Obj
    <3>1. Probed(t.entries, t.capacity, text) /\ IsFiniteSet(L) /\ L = In(t.entries, t.capacity)
      BY DEF TableOK
    <3>2. Obj \in SUBSET Obj
      OBVIOUS
    <3>3. /\ IsFiniteSet(In(t.entries, t.capacity))
          /\ Cardinality(In(t.entries, t.capacity)) < c
      BY <1>1, <2>1, <3>1
    <3>4. /\ Probed(Moved(t, Obj, c, text), c, text)
          /\ In(Moved(t, Obj, c, text), c) = In(t.entries, t.capacity) \intersect Obj
      BY <2>1, <3>1, <3>2, <3>3, MovedFacts
    <3>. QED  BY <3>1, <3>4
  <2>. HIDE DEF a
  <2>3. g = [count |-> t.count, capacity |-> c, entries |-> a]
    <3>1. t = [count |-> t.count, capacity |-> t.capacity, entries |-> t.entries]
      BY DEF TableOK
    <3>2. g = [t EXCEPT !.capacity = c, !.entries = a]
      BY <1>4 DEF Grown, c, a
    <3>. QED  BY <3>1, <3>2
  <2>4. g.count = t.count /\ g.capacity = c /\ g.entries = a
    BY <2>3
  <2>5. L \intersect Obj = L
    BY <1>1
  <2>. HIDE DEF g
  <2>6. TableOK(g, text, L)
    BY <1>1, <2>1, <2>2, <2>3, <2>4, <2>5 DEF TableOK
  <2>. QED  BY <1>2, <2>1, <2>4, <2>6 DEF g
<1>. QED  BY <1>3, <1>4

\* tableAddString interns a string with a text that no other has.
LEMMA TableAdd ==
  ASSUME NEW t, NEW text, NEW L, TableOK(t, text, L),
         NEW o \in Obj, ~ (o \in L), text[o] \in Text, \A p \in L : text[p] # text[o]
  PROVE  TableOK(AddString(t, o, text), text, L \union {o})
<1>. DEFINE g == Grown(t, text)
            c == g.capacity
            e == g.entries
            hash == TextHash[text[o]]
            slot == FirstSlot(e, c, hash, {NoObj, o})
            r == AddString(t, o, text)
<1>1. TableOK(g, text, L) /\ g.count + 1 <= (c * 3) \div 4 /\ c > 0
  BY TableGrown
<1>2. r = [g EXCEPT !.entries[slot] = o, !.count = IF e[slot] = NoObj THEN @ + 1 ELSE @]
  BY DEF AddString
<1>. HIDE DEF g
<1>3. /\ c \in Nat /\ g.count \in Nat /\ L \in SUBSET Obj /\ HasRoom(e, c)
      /\ Probed(e, c, text) /\ L = In(e, c) /\ IsFiniteSet(L) /\ g.count = Cardinality(L)
      /\ c >= MinCapacity
      /\ g = [count |-> g.count, capacity |-> c, entries |-> e]
      /\ \A p, q \in L : text[p] = text[q] => p = q
  <2>1. /\ c \in Nat /\ g.count \in Nat /\ L \in SUBSET Obj /\ HasRoom(e, c)
    BY <1>1, TableFacts
  <2>. QED  BY <1>1, <2>1 DEF TableOK
<1>4. hash \in Nat
  BY StringTableAssumption
<1>5. slot = Home(e, c, o, text)
  <2>1. \A d \in Slots(c) : ProbeSlot(hash, d, c) \in Slots(c)
    BY <1>1, <1>3, <1>4, ProbeSlots
  <2>2. \A d \in Slots(c) : e[ProbeSlot(hash, d, c)] # o
    BY <1>3, <2>1, StringTableAssumption DEF In
  <2>3. Turns(e, c, hash, {NoObj, o}) = Turns(e, c, hash, {NoObj})
    BY <2>2 DEF Turns
  <2>. QED  BY <2>3 DEF Home, FirstSlot
<1>. DEFINE a == Put(e, c, o, text)
<1>6. /\ slot \in Slots(c) /\ e[slot] = NoObj
      /\ Probed(a, c, text) /\ In(a, c) = L \union {o}
  <2>. HIDE DEF slot
  <2>. QED  BY <1>3, <1>5, PutProbed
<1>7. [e EXCEPT ![slot] = o] = a
  <2>. HIDE DEF slot
  <2>. QED  BY <1>5 DEF Put
<1>. HIDE DEF slot, a
<1>8. r = [count |-> g.count + 1, capacity |-> c, entries |-> a]
  <2>. DEFINE b == [e EXCEPT ![slot] = o]
              n == g.count
  <2>1. r = [[g EXCEPT !.entries[slot] = o] EXCEPT !.count = n + 1]
    BY <1>2, <1>6
  <2>2. [g EXCEPT !.entries[slot] = o] = [g EXCEPT !.entries = b]
    OBVIOUS
  <2>3. b = a
    BY <1>7
  <2>. HIDE DEF b, e, c, n, r
  <2>4. [g EXCEPT !.entries = b] = [count |-> n, capacity |-> c, entries |-> b]
    BY <1>3 DEF n
  <2>5. r = [[count |-> n, capacity |-> c, entries |-> b] EXCEPT !.count = n + 1]
    BY <2>1, <2>2, <2>4
  <2>. QED  BY <2>3, <2>5 DEF n
<1>. HIDE DEF r
<1>9. r.count = g.count + 1 /\ r.capacity = c /\ r.entries = a
  BY <1>8
<1>10. /\ IsFiniteSet(L \union {o}) /\ Cardinality(L \union {o}) = Cardinality(L) + 1
  BY <1>3, FS_AddElement
<1>11. \A p, q \in L \union {o} : text[p] = text[q] => p = q
  BY <1>3
<1>. QED  BY <1>1, <1>3, <1>6, <1>8, <1>9, <1>10, <1>11 DEF TableOK, r

\* removeWhiteStrings keeps the marked strings.
LEMMA TableKeep ==
  ASSUME NEW t, NEW text, NEW L, TableOK(t, text, L), NEW marked \in SUBSET Obj
  PROVE  TableOK(RemoveWhiteStrings(t, marked, text), text, L \intersect marked)
<1>. DEFINE c == t.capacity
            e == t.entries
            r == RemoveWhiteStrings(t, marked, text)
            K == L \intersect marked
            D == {s \in Slots(c) : e[s] \in marked}
            a == Moved(t, marked, c, text)
<1>1. /\ c \in Nat /\ t.count \in Nat /\ L \in SUBSET Obj
      /\ (c = 0 => L = {}) /\ (c > 0 => t.count < c)
  BY TableFacts
<1>2. /\ t = [count |-> t.count, capacity |-> c, entries |-> e]
      /\ Probed(e, c, text) /\ L = In(e, c) /\ IsFiniteSet(L)
      /\ t.count = Cardinality(L) /\ t.count <= (c * 3) \div 4
      /\ c = 0 \/ c >= MinCapacity
      /\ \A p, q \in L : text[p] = text[q] => p = q
  BY DEF TableOK
<1>3. CASE c = 0
  <2>1. r = t /\ K = L
    BY <1>1, <1>3 DEF RemoveWhiteStrings
  <2>. QED  BY <2>1
<1>4. CASE c # 0
  <2>1. r = [t EXCEPT !.count = Cardinality(D), !.entries = a]
    BY <1>4 DEF RemoveWhiteStrings
  <2>2. IsFiniteSet(K) /\ Cardinality(K) \in Nat /\ Cardinality(K) <= Cardinality(L)
    <3>1. K \in SUBSET L
      OBVIOUS
    <3>. HIDE DEF K
    <3>. QED  BY <1>2, <3>1, FS_Subset, FS_CardinalityType
  <2>3. Cardinality(D) = Cardinality(K)
    <3>. DEFINE f == [s \in D |-> e[s]]
    <3>1. \A s \in D : e[s] \in K
      BY <1>2, StringTableAssumption DEF In
    <3>2. \A o \in K : \E s \in D : e[s] = o
      BY <1>2 DEF In
    <3>3. \A s, u \in D : e[s] = e[u] => s = u
      BY <1>2, StringTableAssumption DEF Probed
    <3>. HIDE DEF D, K
    <3>4. f \in Injection(D, K)
      BY <3>1, <3>3 DEF Injection, IsInjective
    <3>5. f \in Surjection(D, K)
      BY <3>1, <3>2 DEF Surjection
    <3>. HIDE DEF f
    <3>. QED  BY <2>2, <3>4, <3>5, FS_Injection
  <2>4. Probed(a, c, text) /\ In(a, c) = K
    <3>1. /\ IsFiniteSet(In(t.entries, t.capacity))
          /\ Cardinality(In(t.entries, t.capacity)) < c
          /\ Probed(t.entries, t.capacity, text)
      BY <1>1, <1>2, <1>4
    <3>2. /\ Probed(Moved(t, marked, c, text), c, text)
          /\ In(Moved(t, marked, c, text), c) = In(t.entries, t.capacity) \intersect marked
      BY <1>1, <3>1, MovedFacts
    <3>. QED  BY <1>2, <3>2
  <2>5. r = [count |-> Cardinality(K), capacity |-> c, entries |-> a]
    <3>. DEFINE n == t.count
                k == Cardinality(K)
    <3>1. r = [t EXCEPT !.count = k, !.entries = a]
      BY <2>1, <2>3
    <3>. HIDE DEF a, k, r
    <3>2. t = [count |-> n, capacity |-> c, entries |-> e]
      BY <1>2
    <3>. HIDE DEF n, c, e
    <3>. QED  BY <3>1, <3>2 DEF k
  <2>. HIDE DEF r, K, a
  <2>6. r.count = Cardinality(K) /\ r.capacity = c /\ r.entries = a
    BY <2>5
  <2>7. Cardinality(K) <= (c * 3) \div 4
    BY <1>1, <1>2, <2>2
  <2>8. \A p, q \in K : text[p] = text[q] => p = q
    BY <1>2 DEF K
  <2>. QED  BY <1>2, <2>2, <2>4, <2>5, <2>6, <2>7, <2>8 DEF TableOK, r, K
<1>. QED  BY <1>3, <1>4

LEMMA TableNew ==
  ASSUME NEW text
  PROVE  TableOK(InitStringTable, text, {})
<1>. DEFINE t == InitStringTable
<1>1. t = [count |-> 0, capacity |-> 0, entries |-> Blank(0)]
  BY DEF InitStringTable
<1>2. t.count = 0 /\ t.capacity = 0 /\ t.entries = Blank(0)
  BY <1>1
<1>. DEFINE zero == 0
<1>3. zero \in Nat
  OBVIOUS
<1>. HIDE DEF zero
<1>4. Probed(Blank(zero), zero, text) /\ In(Blank(zero), zero) = {}
  BY <1>3, NoneProbed
<1>5. IsFiniteSet({}) /\ Cardinality({}) = 0
  BY FS_EmptySet
<1>. HIDE DEF t
<1>6. t.count <= (t.capacity * 3) \div 4
  BY <1>2
<1>. QED  BY <1>1, <1>2, <1>4, <1>5, <1>6 DEF TableOK, t, zero

-----------------------------------------------------------------------------
(* Marking. *)

More(S) == S \union UNION {Refs(heap, o) : o \in S}

LEMMA MarkLoop ==
  ASSUME NEW v, Cardinality(Obj) \in Nat
  PROVE  \E f : /\ Marked(v) = f[Cardinality(Obj)]
                /\ f[0] = Roots(v)
                /\ \A i \in 1 .. Cardinality(Obj) : f[i] = More(f[i - 1])
<1>. DEFINE N == Cardinality(Obj)
            Rec(g, n) == g = [i \in 0 .. n |-> IF i = 0 THEN Roots(v) ELSE More(g[i - 1])]
            S == {n \in 0 .. N : \E g : Rec(g, n)}
<1>1. Marked(v) = (CHOOSE g : Rec(g, N))[N]
  BY DEF Marked, More
<1>. HIDE DEF N
<1>2. N \in Nat
  BY DEF N
<1>3. 0 \in S
  <2>1. Rec([i \in 0 .. 0 |-> Roots(v)], 0)
    OBVIOUS
  <2>2. 0 \in 0 .. N
    BY <1>2
  <2>. HIDE DEF Rec
  <2>. QED  BY <2>1, <2>2
<1>4. ASSUME NEW n \in S, n < N
      PROVE  n + 1 \in S
  <2>1. PICK g : Rec(g, n)
    OBVIOUS
  <2>. DEFINE h == [i \in 0 .. n + 1 |-> IF i <= n THEN g[i] ELSE More(g[n])]
  <2>2. \A i \in 0 .. n : h[i] = g[i]
    OBVIOUS
  <2>3. h[n + 1] = More(h[n])
    BY <2>2
  <2>4. \A i \in 0 .. n : h[i] = IF i = 0 THEN Roots(v) ELSE More(h[i - 1])
    BY <2>1, <2>2
  <2>5. \A i \in 0 .. n + 1 : h[i] = IF i = 0 THEN Roots(v) ELSE More(h[i - 1])
    <3>. HIDE DEF h
    <3>1. n \in Nat /\ (n + 1) - 1 = n /\ n + 1 # 0
      OBVIOUS
    <3>2. \A i \in 0 .. n + 1 : i \in 0 .. n \/ i = n + 1
      BY <3>1
    <3>. QED  BY <2>3, <2>4, <3>1, <3>2
  <2>6. Rec(h, n + 1)
    <3>. HIDE DEF h
    <3>1. h = [i \in 0 .. n + 1 |-> h[i]]
      BY DEF h
    <3>. QED  BY <2>5, <3>1
  <2>7. n + 1 \in 0 .. N
    BY <1>2, <1>4
  <2>. HIDE DEF Rec, h
  <2>. QED  BY <2>6, <2>7
<1>5. N \in S
  <2>1. S \in SUBSET (0 .. N)
    OBVIOUS
  <2>. HIDE DEF S
  <2>2. S = 0 .. N
    BY <1>2, <1>3, <1>4, <2>1, BoundedInduction
  <2>. QED  BY <1>2, <2>2
<1>. DEFINE f == CHOOSE g : Rec(g, N)
<1>6. Rec(f, N)
  <2>1. \E g : Rec(g, N)
    BY <1>5
  <2>. HIDE DEF Rec
  <2>. QED  BY <2>1
<1>. HIDE DEF f
<1>7. f[0] = Roots(v) /\ \A i \in 1 .. N : f[i] = More(f[i - 1])
  BY <1>2, <1>6
<1>. QED  BY <1>1, <1>7 DEF f, N

(* What is marked is what can be reached from the roots: marking has closed
   after as many steps as there are objects, since each step but the last
   marks an object more. *)
LEMMA MarkedFacts ==
  ASSUME NEW v, IsFiniteSet(Obj), \A o \in Obj : Refs(heap, o) \subseteq Obj
  PROVE  /\ Marked(v) \in SUBSET Obj
         /\ Roots(v) \subseteq Marked(v) /\ ClosedUnderRefs(Marked(v))
         /\ \A S : Roots(v) \subseteq S /\ ClosedUnderRefs(S) => Marked(v) \subseteq S
<1>. DEFINE N == Cardinality(Obj)
            R == Roots(v)
<1>1. N \in Nat
  BY FS_CardinalityType
<1>2. PICK f : Marked(v) = f[N] /\ f[0] = R /\ \A i \in 1 .. N : f[i] = More(f[i - 1])
  BY <1>1, MarkLoop
<1>3. R \in SUBSET Obj
  BY DEF Roots
<1>. HIDE DEF R
<1>. DEFINE Part(i) == /\ f[i] \in SUBSET Obj /\ R \subseteq f[i]
                       /\ \A S : R \subseteq S /\ ClosedUnderRefs(S) => f[i] \subseteq S
                       /\ Cardinality(f[i]) >= i \/ ClosedUnderRefs(f[i])
            T == {i \in 0 .. N : Part(i)}
<1>4. \A S : S \in SUBSET Obj => IsFiniteSet(S) /\ Cardinality(S) \in Nat
  BY FS_Subset, FS_CardinalityType
<1>5. Part(0)
  <2>1. Cardinality(f[0]) >= 0
    BY <1>2, <1>3, <1>4
  <2>. QED  BY <1>2, <1>3, <2>1
<1>6. ASSUME NEW i \in 0 .. N, i < N, Part(i)
      PROVE  Part(i + 1)
  <2>. DEFINE a == f[i]
              b == f[i + 1]
  <2>1. i + 1 \in 1 .. N /\ (i + 1) - 1 = i
    BY <1>1, <1>6
  <2>2. b = More(a)
    BY <1>2, <2>1
  <2>3. /\ a \in SUBSET Obj /\ R \subseteq a
        /\ \A S : R \subseteq S /\ ClosedUnderRefs(S) => a \subseteq S
        /\ Cardinality(a) >= i \/ ClosedUnderRefs(a)
    BY <1>6
  <2>. HIDE DEF a, b
  <2>4. b \in SUBSET Obj /\ a \subseteq b
    BY <2>2, <2>3 DEF More
  <2>5. \A S : R \subseteq S /\ ClosedUnderRefs(S) => b \subseteq S
    <3>1. SUFFICES ASSUME NEW S, R \subseteq S, ClosedUnderRefs(S) PROVE b \subseteq S
      OBVIOUS
    <3>2. a \subseteq S
      BY <2>3, <3>1
    <3>. QED  BY <2>2, <3>1, <3>2 DEF More, ClosedUnderRefs
  <2>6. Cardinality(b) >= i + 1 \/ ClosedUnderRefs(b)
    <3>1. CASE ClosedUnderRefs(a)
      <4>1. b = a
        BY <2>2, <3>1 DEF More, ClosedUnderRefs
      <4>. QED  BY <3>1, <4>1
    <3>2. CASE ~ ClosedUnderRefs(a)
      <4>1. a # b
        BY <2>2, <3>2 DEF More, ClosedUnderRefs
      <4>2. IsFiniteSet(b) /\ Cardinality(b) \in Nat /\ Cardinality(a) \in Nat
        BY <1>4, <2>3, <2>4
      <4>3. Cardinality(a) <= Cardinality(b) /\ Cardinality(a) # Cardinality(b)
        BY <2>4, <4>1, <4>2, FS_Subset
      <4>. QED  BY <2>1, <2>3, <3>2, <4>2, <4>3
    <3>. QED  BY <3>1, <3>2
  <2>. QED  BY <2>3, <2>4, <2>5, <2>6 DEF a, b
<1>7. Part(N)
  <2>1. T \in SUBSET (0 .. N) /\ 0 \in T
    BY <1>1, <1>5
  <2>2. ASSUME NEW i \in T, i < N
        PROVE  i + 1 \in T
    <3>1. i \in 0 .. N /\ i + 1 \in 0 .. N /\ Part(i)
      BY <1>1, <2>2
    <3>. HIDE DEF Part
    <3>2. Part(i + 1)
      BY <1>6, <2>2, <3>1
    <3>. QED  BY <3>1, <3>2
  <2>. HIDE DEF T, N
  <2>3. T = 0 .. N
    BY <1>1, <2>1, <2>2, BoundedInduction
  <2>4. N \in T
    BY <1>1, <2>3
  <2>. HIDE DEF Part
  <2>. QED  BY <2>4 DEF T
<1>8. ClosedUnderRefs(f[N])
  <2>1. SUFFICES ASSUME Cardinality(f[N]) >= N PROVE ClosedUnderRefs(f[N])
    BY <1>7
  <2>2. Cardinality(f[N]) <= N /\ (Cardinality(f[N]) = N => f[N] = Obj)
    BY <1>7, FS_Subset
  <2>3. Cardinality(f[N]) \in Nat
    BY <1>4, <1>7
  <2>4. f[N] = Obj
    BY <1>1, <2>1, <2>2, <2>3
  <2>. QED  BY <2>4 DEF ClosedUnderRefs
<1>. QED  BY <1>2, <1>7, <1>8 DEF R

-----------------------------------------------------------------------------
(* Heaps and their string table. *)

Cell == {Free} \union {String(x) : x \in Text}
          \union {Array(S) : S \in SUBSET Obj} \union {Function(S) : S \in SUBSET Obj}

StringObjs(h) == {o \in Obj : h[o].type = "string"}

\* Objects refer to objects that were not freed, and the strings are in the table.
HeapOK(h, t) ==
  /\ h \in [Obj -> Cell]
  /\ \A o \in Obj : Refs(h, o) \subseteq Live(h)
  /\ TableOK(t, Texts(h), StringObjs(h))

LEMMA CellFacts ==
  ASSUME NEW c \in Cell
  PROVE  /\ c.type \in {"free", "string", "array", "function"}
         /\ c.type = "free" <=> c = Free
         /\ c.type = "string" => c.text \in Text
         /\ c.type \in {"array", "function"} => /\ c.refs \in SUBSET Obj
                                                /\ c = [type |-> c.type, refs |-> c.refs]
         /\ ~ (c.type \in {"array", "function"} /\ c.type \in {"free", "string"})
  BY DEF Cell, Free, String, Array, Function

LEMMA HeapFacts ==
  ASSUME NEW h \in [Obj -> Cell], NEW o \in Obj
  PROVE  /\ o \in Live(h) <=> h[o].type # "free"
         /\ h[o].type \in {"free", "string", "array", "function"}
         /\ Refs(h, o) \in SUBSET Obj
         /\ h[o].type \in {"free", "string"} => Refs(h, o) = {}
         /\ h[o].type = "string" => Texts(h)[o] = h[o].text /\ h[o].text \in Text
         /\ h[o].type # "string" => Texts(h)[o] = Nil
<1>1. h[o] \in Cell
  OBVIOUS
<1>2. o \in Live(h) <=> h[o].type # "free"
  BY <1>1, CellFacts DEF Live
<1>3. Refs(h, o) \in SUBSET Obj /\ (h[o].type \in {"free", "string"} => Refs(h, o) = {})
  BY <1>1, CellFacts DEF Refs
<1>4. Texts(h)[o] = IF h[o].type = "string" THEN h[o].text ELSE Nil
  BY DEF Texts
<1>. QED  BY <1>1, <1>2, <1>3, <1>4, CellFacts

\* A collection frees what is not marked, which no marked object refers to.
LEMMA CollectedFacts ==
  ASSUME HeapOK(heap, strings), NEW v, Roots(v) \subseteq Live(heap)
  PROVE  /\ HeapOK(Collected(v).heap, Collected(v).strings)
         /\ \A o \in Obj : Collected(v).heap[o] = IF o \in Marked(v) THEN heap[o] ELSE Free
         /\ Live(Collected(v).heap) = Marked(v)
<1>. DEFINE h == Collected(v).heap
            t == Collected(v).strings
            M == Marked(v)
<1>1. /\ h = [o \in Obj |-> IF o \in M THEN heap[o] ELSE Free]
      /\ t = RemoveWhiteStrings(strings, M, Texts(heap))
  BY DEF Collected
<1>2. heap \in [Obj -> Cell] /\ \A o \in Obj : Refs(heap, o) \subseteq Live(heap)
  BY DEF HeapOK
<1>3. Live(heap) \in SUBSET Obj
  BY DEF Live
<1>4. /\ M \in SUBSET Obj /\ Roots(v) \subseteq M /\ ClosedUnderRefs(M)
      /\ \A S : Roots(v) \subseteq S /\ ClosedUnderRefs(S) => M \subseteq S
  BY <1>2, <1>3, HeapAssumption, MarkedFacts
<1>5. M \subseteq Live(heap)
  BY <1>2, <1>3, <1>4 DEF ClosedUnderRefs
<1>. HIDE DEF h, t, M
<1>6. Free \in Cell /\ Free.type = "free"
  BY DEF Cell, Free
<1>7. h \in [Obj -> Cell] /\ \A o \in Obj : h[o] = IF o \in M THEN heap[o] ELSE Free
  BY <1>1, <1>2, <1>6
<1>8. Live(h) = M
  <2>1. \A o \in Obj : o \in Live(h) <=> o \in M
    BY <1>2, <1>5, <1>6, <1>7, HeapFacts
  <2>. QED  BY <1>4, <2>1 DEF Live
<1>9. \A o \in Obj : Refs(h, o) \subseteq Live(h)
  <2>1. SUFFICES ASSUME NEW o \in Obj PROVE Refs(h, o) \subseteq Live(h)
    OBVIOUS
  <2>2. CASE o \in M
    <3>1. Refs(h, o) = Refs(heap, o)
      BY <1>7, <2>2 DEF Refs
    <3>. QED  BY <1>4, <1>8, <2>2, <3>1 DEF ClosedUnderRefs
  <2>3. CASE o \notin M
    BY <1>6, <1>7, <2>3 DEF Refs
  <2>. QED  BY <2>2, <2>3
<1>10. StringObjs(h) = StringObjs(heap) \intersect M
  BY <1>4, <1>6, <1>7 DEF StringObjs
<1>11. \A o \in StringObjs(h) : Texts(h)[o] = Texts(heap)[o]
  BY <1>7, <1>10 DEF Texts, StringObjs
<1>12. TableOK(t, Texts(h), StringObjs(h))
  <2>1. TableOK(t, Texts(heap), StringObjs(h))
    BY <1>1, <1>4, <1>10, TableKeep DEF HeapOK
  <2>. QED  BY <1>11, <2>1, TableText
<1>. QED  BY <1>7, <1>8, <1>9, <1>12 DEF HeapOK, h, t, M

\* Putting an object at a free address.
LEMMA PlaceFacts ==
  ASSUME NEW h, NEW t, HeapOK(h, t), NEW o \in Obj, h[o] = Free,
         NEW S \in SUBSET Live(h), NEW cell \in {Array(S), Function(S)}
  PROVE  HeapOK([h EXCEPT ![o] = cell], t)
<1>. DEFINE g == [h EXCEPT ![o] = cell]
<1>1. h \in [Obj -> Cell] /\ \A p \in Obj : Refs(h, p) \subseteq Live(h)
  BY DEF HeapOK
<1>2. S \in SUBSET Obj
  BY DEF Live
<1>3. cell \in Cell /\ cell.type \in {"array", "function"} /\ cell.refs = S /\ cell # Free
  BY <1>2 DEF Cell, Array, Function, Free
<1>4. g \in [Obj -> Cell] /\ \A p \in Obj : g[p] = IF p = o THEN cell ELSE h[p]
  BY <1>1, <1>3
<1>. HIDE DEF g
<1>5. Live(h) \subseteq Live(g)
  BY <1>3, <1>4 DEF Live
<1>6. \A p \in Obj : Refs(g, p) \subseteq Live(g)
  <2>1. SUFFICES ASSUME NEW p \in Obj PROVE Refs(g, p) \subseteq Live(g)
    OBVIOUS
  <2>2. CASE p = o
    BY <1>3, <1>4, <1>5, <2>2 DEF Refs
  <2>3. CASE p # o
    BY <1>1, <1>4, <1>5, <2>3 DEF Refs
  <2>. QED  BY <2>2, <2>3
<1>7. Free.type = "free"
  BY DEF Free
<1>8. StringObjs(g) = StringObjs(h)
  BY <1>3, <1>4, <1>7 DEF StringObjs
<1>9. \A p \in StringObjs(h) : Texts(g)[p] = Texts(h)[p]
  BY <1>4, <1>7 DEF Texts, StringObjs
<1>10. TableOK(t, Texts(g), StringObjs(g))
  BY <1>8, <1>9, TableText DEF HeapOK
<1>. QED  BY <1>4, <1>6, <1>10 DEF HeapOK, g

LEMMA PlaceString ==
  ASSUME NEW h, NEW t, HeapOK(h, t), NEW o \in Obj, h[o] = Free,
         NEW x \in Text, \A p \in StringObjs(h) : h[p].text # x,
         NEW g, g = [h EXCEPT ![o] = String(x)]
  PROVE  HeapOK(g, AddString(t, o, Texts(g)))
<1>1. h \in [Obj -> Cell] /\ \A p \in Obj : Refs(h, p) \subseteq Live(h)
  BY DEF HeapOK
<1>2. String(x) \in Cell /\ String(x).type = "string" /\ String(x).text = x /\ String(x) # Free
  BY DEF Cell, String, Free
<1>3. g \in [Obj -> Cell] /\ \A p \in Obj : g[p] = IF p = o THEN String(x) ELSE h[p]
  BY <1>1, <1>2
<1>4. Live(h) \subseteq Live(g)
  BY <1>2, <1>3 DEF Live
<1>5. \A p \in Obj : Refs(g, p) \subseteq Live(g)
  <2>1. SUFFICES ASSUME NEW p \in Obj PROVE Refs(g, p) \subseteq Live(g)
    OBVIOUS
  <2>2. CASE p = o
    BY <1>2, <1>3, <2>2 DEF Refs
  <2>3. CASE p # o
    BY <1>1, <1>3, <1>4, <2>3 DEF Refs
  <2>. QED  BY <2>2, <2>3
<1>6. Free.type = "free"
  BY DEF Free
<1>7. StringObjs(g) = StringObjs(h) \union {o} /\ ~ (o \in StringObjs(h))
  BY <1>2, <1>3, <1>6 DEF StringObjs
<1>8. \A p \in StringObjs(h) : Texts(g)[p] = Texts(h)[p] /\ Texts(g)[p] = h[p].text
  BY <1>3, <1>7 DEF Texts, StringObjs
<1>9. Texts(g)[o] = x
  BY <1>2, <1>3 DEF Texts
<1>10. TableOK(t, Texts(g), StringObjs(h))
  BY <1>8, TableText DEF HeapOK
<1>11. TableOK(AddString(t, o, Texts(g)), Texts(g), StringObjs(g))
  <2>. DEFINE text == Texts(g)
              L == StringObjs(h)
  <2>1. /\ TableOK(t, text, L) /\ ~ (o \in L) /\ text[o] \in Text
        /\ \A p \in L : text[p] # text[o]
    BY <1>7, <1>8, <1>9, <1>10
  <2>. HIDE DEF text, L
  <2>2. TableOK(AddString(t, o, text), text, L \union {o})
    BY <2>1, TableAdd
  <2>. QED  BY <1>7, <2>2 DEF text, L
<1>. QED  BY <1>3, <1>5, <1>11 DEF HeapOK

WithRefs(h, o, S) == [h EXCEPT ![o].refs = S]

\* An array or a function gets other references, to live objects.
LEMMA RefsFacts ==
  ASSUME NEW h, NEW t, HeapOK(h, t), NEW o \in Obj, h[o].type \in {"array", "function"},
         NEW S \in SUBSET Live(h)
  PROVE  HeapOK(WithRefs(h, o, S), t) /\ \A p \in Obj : WithRefs(h, o, S)[p].type = h[p].type
<1>. DEFINE g == WithRefs(h, o, S)
<1>. DEFINE cell == [type |-> h[o].type, refs |-> S]
<1>1. h \in [Obj -> Cell] /\ \A p \in Obj : Refs(h, p) \subseteq Live(h)
  BY DEF HeapOK
<1>2. h[o] = [type |-> h[o].type, refs |-> h[o].refs]
  BY <1>1, CellFacts
<1>3. [h[o] EXCEPT !.refs = S] = cell
  BY <1>2
<1>4. cell \in Cell /\ cell.type = h[o].type /\ cell.refs = S
  BY DEF Cell, Array, Function, Live
<1>. HIDE DEF cell
<1>5. g = [h EXCEPT ![o] = cell]
  BY <1>3 DEF WithRefs
<1>. HIDE DEF g
<1>6. g \in [Obj -> Cell] /\ \A p \in Obj : g[p] = IF p = o THEN cell ELSE h[p]
  BY <1>1, <1>4, <1>5
<1>7. \A p \in Obj : g[p].type = h[p].type
  BY <1>4, <1>6
<1>8. Live(g) = Live(h)
  <2>1. \A p \in Obj : p \in Live(g) <=> p \in Live(h)
    BY <1>1, <1>6, <1>7, HeapFacts
  <2>. QED  BY <2>1 DEF Live
<1>9. \A p \in Obj : Refs(g, p) \subseteq Live(g)
  <2>1. SUFFICES ASSUME NEW p \in Obj PROVE Refs(g, p) \subseteq Live(h)
    BY <1>8
  <2>2. CASE p = o
    BY <1>4, <1>6, <2>2 DEF Refs
  <2>3. CASE p # o
    BY <1>1, <1>6, <2>3 DEF Refs
  <2>. QED  BY <2>2, <2>3
<1>10. StringObjs(g) = StringObjs(h)
  BY <1>7 DEF StringObjs
<1>11. \A p \in StringObjs(h) : Texts(g)[p] = Texts(h)[p]
  BY <1>6 DEF Texts, StringObjs
<1>12. TableOK(t, Texts(g), StringObjs(g))
  BY <1>10, <1>11, TableText DEF HeapOK
<1>. QED  BY <1>6, <1>7, <1>9, <1>12 DEF HeapOK, g

\* An object comes to refer to one more that is live.
LEMMA ReferFacts ==
  ASSUME NEW h, NEW t, HeapOK(h, t), NEW o \in Obj, NEW x \in Live(h) \union {Nil}
  PROVE  HeapOK(Refer(h, o, x), t) /\ \A p \in Obj : Refer(h, o, x)[p].type = h[p].type
<1>1. CASE ~ (h[o].type \in {"array", "function"})
  <2>1. Refer(h, o, x) = h
    BY <1>1 DEF Refer
  <2>. QED  BY <2>1
<1>2. CASE h[o].type \in {"array", "function"}
  <2>. DEFINE S == h[o].refs \union ({x} \intersect Obj)
              g == Refer(h, o, x)
  <2>1. g = [h EXCEPT ![o].refs = S]
    BY <1>2 DEF Refer
  <2>2. h[o].refs \subseteq Live(h)
    BY <1>2 DEF HeapOK, Refs
  <2>3. S \in SUBSET Live(h)
    BY <2>2, HeapAssumption
  <2>. HIDE DEF S, g
  <2>4. /\ HeapOK(h, t) /\ o \in Obj /\ h[o].type \in {"array", "function"}
        /\ S \in SUBSET Live(h)
    BY <1>2, <2>3
  <2>5. HeapOK(WithRefs(h, o, S), t) /\ \A p \in Obj : WithRefs(h, o, S)[p].type = h[p].type
    BY <2>4, RefsFacts
  <2>. QED  BY <2>1, <2>5 DEF g, WithRefs
<1>. QED  BY <1>1, <1>2

-----------------------------------------------------------------------------
(* The invariant. *)

Val(h) == Live(h) \union {Nil}

(* What a machine refers to was not freed. *)
MachineOK(m, h) ==
  /\ m = [open |-> m.open, stack |-> m.stack, frames |-> m.frames, globals |-> m.globals,
          thrown |-> m.thrown]
  /\ m.open \in BOOLEAN /\ (~ m.open => m = Closed)
  /\ m.stack \in Seq(Val(h)) /\ Len(m.stack) <= StackMax
  /\ m.frames \in Seq(Live(h))
  /\ \A k \in DOMAIN m.globals : k \in StringObjs(h) /\ m.globals[k] \in Val(h)
  /\ m.thrown \in Val(h)

(* What can still be used of a machine after objects in T were freed: a
   global may have been set to one of them. *)
KeptOK(m, h, T) ==
  /\ m.stack \in Seq(Val(h)) /\ Len(m.stack) <= StackMax
  /\ m.frames \in Seq(Live(h))
  /\ \A k \in DOMAIN m.globals : k \in StringObjs(h) /\ m.globals[k] \in Val(h) \union T

(* What is held, and by which code. *)
HeldOK(what, s, h) ==
  /\ s \in Seq(Val(h))
  /\ \/ what = "none" /\ s = <<>>
     \/ what = "compile" /\ s \in Seq(Live(h)) /\ s # <<>>
     \/ what = "setglobal" /\ Len(s) = 1
     \/ what = "concat" /\ Len(s) = 2
     \/ what = "split" /\ Len(s) = 1 /\ s[1] \in Live(h)
     \/ what = "slice" /\ Len(s) = 1 /\ s[1] \in Live(h)
     \/ what = "slice" /\ Len(s) = 2 /\ s[1] \in Live(h) /\ Is(h, s[2], "array")

(* The same when the objects in T were freed. *)
HeldAfter(what, s, h, T) ==
  /\ T \in SUBSET Obj
  /\ s \in Seq(Val(h) \union T)
  /\ \/ what = "none" /\ s = <<>>
     \/ what = "compile" /\ s \in Seq(Live(h) \union T) /\ s # <<>>
     \/ what = "setglobal" /\ Len(s) = 1
     \/ what = "concat" /\ Len(s) = 2
     \/ what = "split" /\ Len(s) = 1 /\ s[1] \in Live(h) \union T
     \/ what = "slice" /\ Len(s) = 1 /\ s[1] \in Live(h) \union T
     \/ what = "slice" /\ Len(s) = 2 /\ s[1] \in Live(h) \union T
                       /\ (Is(h, s[2], "array") \/ s[2] \in T)

(* Where the code that holds it is. *)
ControlOK ==
  /\ running \in VMs \union {NoVM} /\ nq_gc_vm \in VMs \union {NoVM}
  /\ op \in {"concat", "slice", "split"} => running # NoVM
  /\ op \in {"compile", "setglobal"} => running = NoVM /\ \E v \in VMs : vms[v].open
  /\ running # NoVM => vms[running].open /\ vms[running].frames # <<>>
  /\ op = "concat" => Len(vms[running].stack) < StackMax
  /\ op = "slice" /\ Len(held) = 1 => Len(vms[running].stack) < StackMax
  /\ op = "split" => Len(vms[running].stack) > 1

(* One machine in the process. *)
OneMachine == \A v, w \in VMs : v = w

(* Where a step begins, nothing in use was freed. *)
Inv ==
  /\ HeapOK(heap, strings)
  /\ vms = [v \in VMs |-> vms[v]] /\ \A v \in VMs : MachineOK(vms[v], heap)
  /\ HeldOK(op, held, heap)
  /\ ControlOK
  /\ (\A v \in VMs : ~ vms[v].open) => Live(heap) = {}
  /\ taken = {}

(* Where it ends, what was freed in it may still be held, or be in a global. *)
Sound ==
  /\ HeapOK(heap, strings)
  /\ vms = [v \in VMs |-> vms[v]] /\ \A v \in VMs : KeptOK(vms[v], heap, taken)
  /\ taken = {} => \A v \in VMs : MachineOK(vms[v], heap)
  /\ HeldAfter(op, held, heap, taken)
  /\ ControlOK
  /\ (\A v \in VMs : ~ vms[v].open) => Live(heap) = {}

LEMMA SoundInv ==
  ASSUME Sound, taken = {}
  PROVE  Inv
<1>1. Val(heap) \union taken = Val(heap) /\ Live(heap) \union taken = Live(heap)
  OBVIOUS
<1>2. HeldOK(op, held, heap)
  BY <1>1 DEF Sound, HeldAfter, HeldOK
<1>. QED  BY <1>2 DEF Sound, Inv

LEMMA HeldSame ==
  ASSUME NEW what, NEW s, NEW h, HeldOK(what, s, h), NEW T \in SUBSET Obj
  PROVE  HeldAfter(what, s, h, T)
<1>1. s \in Seq(Val(h) \union T)
  <2>1. Val(h) \subseteq Val(h) \union T /\ s \in Seq(Val(h))
    BY DEF HeldOK
  <2>. QED  BY <2>1, SeqMonotonic
<1>2. s \in Seq(Live(h)) => s \in Seq(Live(h) \union T)
  <2>1. Live(h) \subseteq Live(h) \union T
    OBVIOUS
  <2>. QED  BY <2>1, SeqMonotonic
<1>. QED  BY <1>1, <1>2 DEF HeldOK, HeldAfter

LEMMA MachineKept ==
  ASSUME NEW m, NEW h, NEW T, MachineOK(m, h)
  PROVE  KeptOK(m, h, T)
  BY DEF MachineOK, KeptOK

LEMMA SeqIn ==
  ASSUME NEW S, NEW T, NEW s \in Seq(S), \A i \in 1 .. Len(s) : s[i] \in T
  PROVE  s \in Seq(T)
<1>. DEFINE n == Len(s)
<1>1. n \in Nat /\ s \in [1 .. n -> S]
  BY LenProperties
<1>2. s \in [1 .. n -> T]
  BY <1>1
<1>. QED  BY <1>1, <1>2, SeqDef

LEMMA RootsLive ==
  ASSUME Inv, NEW v \in VMs
  PROVE  Roots(v) \subseteq Live(heap)
<1>. DEFINE m == vms[v]
            H == Live(heap)
<1>1. /\ m.stack \in Seq(Val(heap)) /\ m.frames \in Seq(H) /\ m.thrown \in Val(heap)
      /\ \A k \in DOMAIN m.globals : k \in StringObjs(heap) /\ m.globals[k] \in Val(heap)
      /\ heap \in [Obj -> Cell]
  BY DEF Inv, MachineOK, HeapOK
<1>2. StringObjs(heap) \subseteq H
  BY <1>1, HeapFacts DEF StringObjs
<1>3. \A o \in Val(heap) : o \in Obj => o \in H
  BY HeapAssumption DEF Val
<1>. HIDE DEF H
<1>4. Range(m.stack) \subseteq Val(heap) /\ Range(m.frames) \subseteq H
  <2>1. \A s \in Seq(Val(heap)) : Range(s) \subseteq Val(heap)
    BY LenProperties, ElementOfSeq DEF Range
  <2>2. \A s \in Seq(H) : Range(s) \subseteq H
    BY LenProperties, ElementOfSeq DEF Range
  <2>. QED  BY <1>1, <2>1, <2>2
<1>5. DOMAIN m.globals \subseteq H /\ Range(m.globals) \subseteq Val(heap)
  BY <1>1, <1>2 DEF Range
<1>. HIDE DEF m
<1>6. Roots(v) = (Range(m.stack) \union Range(m.frames) \union DOMAIN m.globals
                   \union Range(m.globals) \union {m.thrown}) \intersect Obj
  BY DEF Roots, m
<1>. QED  BY <1>1, <1>3, <1>4, <1>5, <1>6 DEF H

\* What the code uses has stayed what it was.
Keeps(h) ==
  /\ h \in [Obj -> Cell]
  /\ \A v \in VMs : \A o \in Roots(v) : h[o].type = heap[o].type

\* And what it holds, but for the objects in T.
KeepsHeld(h, T) ==
  /\ T \in SUBSET Obj
  /\ \A o \in Range(held) \intersect Obj : o \in T \/ h[o].type = heap[o].type

LEMMA HeldLive ==
  ASSUME Inv, NEW o \in Range(held) \intersect Obj
  PROVE  o \in Live(heap)
<1>1. held \in Seq(Val(heap))
  BY DEF Inv, HeldOK
<1>2. o \in Val(heap)
  BY <1>1, ElementOfSeq, LenProperties DEF Range
<1>. QED  BY <1>2, HeapAssumption DEF Val

\* What is outside of the roots is kept or recorded.
LEMMA TakenFacts ==
  ASSUME NEW v
  PROVE  /\ Collected(v).taken \in SUBSET Obj
         /\ \A o \in Range(held) \intersect Obj : o \in Marked(v) \/ o \in Collected(v).taken
<1>. DEFINE R == Reachable(Outside(v))
<1>1. Collected(v).taken = R \ Marked(v)
  BY DEF Collected
<1>2. R \in SUBSET Obj /\ Range(held) \intersect Obj \subseteq R
  BY DEF Reachable, Outside
<1>. QED  BY <1>1, <1>2

LEMMA BeforeFacts ==
  ASSUME Inv, OneMachine, NEW m \in Before
  PROVE  /\ HeapOK(m.heap, m.strings)
         /\ m = [heap |-> m.heap, strings |-> m.strings, taken |-> m.taken]
         /\ \A o \in Obj : m.heap[o] = heap[o] \/ m.heap[o] = Free
         /\ \A v \in VMs : \A o \in Roots(v) : m.heap[o] = heap[o]
         /\ m.taken \in SUBSET Obj
         /\ \A o \in Range(held) \intersect Obj : o \in m.taken \/ m.heap[o] = heap[o]
<1>1. HeapOK(heap, strings)
  BY DEF Inv
<1>2. CASE m = [heap |-> heap, strings |-> strings, taken |-> {}]
  <2>1. m.heap = heap /\ m.strings = strings /\ m.taken = {}
    BY <1>2
  <2>. QED  BY <1>1, <1>2, <2>1
<1>3. CASE MayCollect /\ m = Collected(nq_gc_vm)
  <2>. DEFINE g == nq_gc_vm
  <2>1. g \in VMs
    BY <1>3 DEF MayCollect, Inv, ControlOK
  <2>2. Roots(g) \subseteq Live(heap)
    BY <2>1, RootsLive
  <2>3. /\ HeapOK(m.heap, m.strings)
        /\ \A o \in Obj : m.heap[o] = IF o \in Marked(g) THEN heap[o] ELSE Free
    BY <1>1, <1>3, <2>2, CollectedFacts
  <2>4. Roots(g) \subseteq Marked(g)
    <3>1. \A o \in Obj : Refs(heap, o) \subseteq Obj
      BY <1>1 DEF HeapOK, Live
    <3>. QED  BY <3>1, HeapAssumption, MarkedFacts
  <2>5. \A v \in VMs : v = g
    BY <2>1 DEF OneMachine
  <2>6. \A v \in VMs : \A o \in Roots(v) : o \in Obj /\ m.heap[o] = heap[o]
    BY <2>3, <2>4, <2>5 DEF Roots
  <2>7. m = [heap |-> m.heap, strings |-> m.strings, taken |-> m.taken]
    BY <1>3 DEF Collected
  <2>8. /\ m.taken \in SUBSET Obj
        /\ \A o \in Range(held) \intersect Obj : o \in m.taken \/ m.heap[o] = heap[o]
    BY <1>3, <2>3, TakenFacts
  <2>. QED  BY <2>3, <2>6, <2>7, <2>8
<1>. QED  BY <1>2, <1>3 DEF Before

LEMMA FreshFacts ==
  ASSUME Inv, Live(heap) # Obj
  PROVE  Fresh \in Obj /\ heap[Fresh] = Free /\ ~ (Fresh \in Live(heap))
<1>. DEFINE S == Obj \ Live(heap)
<1>1. S \in SUBSET Nat /\ S # {}
  BY HeapAssumption DEF Live
<1>2. \E o \in S : \A x \in S : o <= x
  <2>. HIDE DEF S
  <2>. QED  BY <1>1, LeastElement
<1>3. Fresh \in S
  BY <1>2 DEF Fresh
<1>. QED  BY <1>3 DEF Live

LEMMA AllocFacts ==
  ASSUME Inv, OneMachine,
         NEW S \in SUBSET Obj, \A o \in S : \E v \in VMs : o \in Roots(v),
         NEW cell \in {Array(S), Function(S)}, NEW m \in Allocated(cell)
  PROVE  /\ HeapOK(m.heap, m.strings) /\ Keeps(m.heap) /\ KeepsHeld(m.heap, m.taken)
         /\ Fresh \in Obj /\ m.heap[Fresh] = cell /\ Fresh \in Live(m.heap)
<1>1. Live(heap) # Obj /\ \E b \in Before : m = [b EXCEPT !.heap[Fresh] = cell]
  BY DEF Allocated
<1>2. PICK b \in Before : m = [b EXCEPT !.heap[Fresh] = cell]
  BY <1>1
<1>. DEFINE h == b.heap
            g == [h EXCEPT ![Fresh] = cell]
<1>3. /\ HeapOK(h, b.strings) /\ b = [heap |-> h, strings |-> b.strings, taken |-> b.taken]
      /\ \A o \in Obj : h[o] = heap[o] \/ h[o] = Free
      /\ \A v \in VMs : \A o \in Roots(v) : h[o] = heap[o]
      /\ b.taken \in SUBSET Obj
      /\ \A o \in Range(held) \intersect Obj : o \in b.taken \/ h[o] = heap[o]
  BY BeforeFacts
<1>4. Fresh \in Obj /\ heap[Fresh] = Free /\ ~ (Fresh \in Live(heap))
  BY <1>1, FreshFacts
<1>5. m.heap = g /\ m.strings = b.strings /\ m.taken = b.taken
  <2>1. m = [b EXCEPT !.heap = g]
    BY <1>2
  <2>. HIDE DEF g, h
  <2>. QED  BY <1>3, <2>1
<1>. HIDE DEF h, g
<1>6. h[Fresh] = Free
  BY <1>3, <1>4
<1>7. h \in [Obj -> Cell] /\ g = [h EXCEPT ![Fresh] = cell]
  BY <1>3 DEF HeapOK, g
<1>8. \A v \in VMs : \A o \in Roots(v) : o \in Live(heap) /\ o # Fresh /\ o \in Obj
  BY <1>4, RootsLive DEF Live
<1>9. S \in SUBSET Live(h)
  <2>1. \A o \in S : o \in Obj /\ o \in Live(heap) /\ h[o] = heap[o]
    BY <1>3, <1>8
  <2>. QED  BY <2>1 DEF Live
<1>10. HeapOK(g, b.strings)
  <2>1. HeapOK([h EXCEPT ![Fresh] = cell], b.strings)
    BY <1>3, <1>4, <1>6, <1>9, PlaceFacts
  <2>. QED  BY <1>7, <2>1
<1>11. \A o \in Obj : g[o] = IF o = Fresh THEN cell ELSE h[o]
  BY <1>4, <1>7
<1>12. Keeps(g) /\ KeepsHeld(g, b.taken)
  <2>1. g \in [Obj -> Cell]
    BY <1>10 DEF HeapOK
  <2>2. \A v \in VMs : \A o \in Roots(v) : g[o].type = heap[o].type
    BY <1>3, <1>8, <1>11
  <2>3. \A o \in Range(held) \intersect Obj : o \in b.taken \/ g[o].type = heap[o].type
    BY <1>3, <1>4, <1>11, HeldLive
  <2>. QED  BY <1>3, <2>1, <2>2, <2>3 DEF Keeps, KeepsHeld
<1>13. Fresh \in Live(g)
  <2>1. cell # Free
    BY DEF Array, Function, Free
  <2>. QED  BY <1>4, <1>11, <2>1 DEF Live
<1>. QED  BY <1>4, <1>5, <1>10, <1>11, <1>12, <1>13

LEMMA InternFacts ==
  ASSUME Inv, OneMachine, NEW x \in Text, NEW m \in Interned(x)
  PROVE  /\ HeapOK(m.heap, m.strings) /\ Keeps(m.heap) /\ KeepsHeld(m.heap, m.taken)
         /\ m.obj \in Obj /\ Is(m.heap, m.obj, "string") /\ m.obj \in Live(m.heap)
<1>. DEFINE found == FindString(strings, x, Texts(heap))
            L == StringObjs(heap)
<1>1. HeapOK(heap, strings) /\ heap \in [Obj -> Cell] /\ TableOK(strings, Texts(heap), L)
  BY DEF Inv, HeapOK
<1>2. \/ found \in L /\ Texts(heap)[found] = x
      \/ found = NoObj /\ \A o \in L : Texts(heap)[o] # x
  BY <1>1, TableFind
<1>3. L \in SUBSET Obj
  BY DEF StringObjs
<1>4. CASE found \in L
  <2>0. found # NoObj
    BY <1>3, <1>4, StringTableAssumption
  <2>1. m = [heap |-> heap, strings |-> strings, taken |-> {}, obj |-> found]
    BY <2>0 DEF Interned
  <2>2. m.heap = heap /\ m.strings = strings /\ m.taken = {} /\ m.obj = found
    BY <2>1
  <2>3. found \in Obj /\ heap[found].type = "string"
    BY <1>4 DEF StringObjs
  <2>4. found \in Live(heap)
    BY <1>1, <2>3, HeapFacts
  <2>. HIDE DEF found
  <2>. QED  BY <1>1, <2>2, <2>3, <2>4 DEF Keeps, KeepsHeld, Is
<1>5. CASE found = NoObj /\ \A o \in L : Texts(heap)[o] # x
  <2>1. PICK a \in Allocated(String(x)) :
          m = [heap |-> a.heap, strings |-> AddString(a.strings, Fresh, Texts(a.heap)),
               taken |-> a.taken, obj |-> Fresh]
    BY <1>5 DEF Interned
  <2>2. Live(heap) # Obj /\ \E b \in Before : a = [b EXCEPT !.heap[Fresh] = String(x)]
    BY DEF Allocated
  <2>3. PICK b \in Before : a = [b EXCEPT !.heap[Fresh] = String(x)]
    BY <2>2
  <2>. DEFINE h == b.heap
              g == [h EXCEPT ![Fresh] = String(x)]
  <2>4. /\ HeapOK(h, b.strings) /\ b = [heap |-> h, strings |-> b.strings, taken |-> b.taken]
        /\ \A o \in Obj : h[o] = heap[o] \/ h[o] = Free
        /\ \A v \in VMs : \A o \in Roots(v) : h[o] = heap[o]
        /\ b.taken \in SUBSET Obj
        /\ \A o \in Range(held) \intersect Obj : o \in b.taken \/ h[o] = heap[o]
    BY BeforeFacts
  <2>5. Fresh \in Obj /\ heap[Fresh] = Free /\ ~ (Fresh \in Live(heap))
    BY <2>2, FreshFacts
  <2>6. a.heap = g /\ a.strings = b.strings /\ a.taken = b.taken
    <3>1. a = [b EXCEPT !.heap = g]
      BY <2>3
    <3>. HIDE DEF g, h
    <3>. QED  BY <2>4, <3>1
  <2>. HIDE DEF h, g
  <2>7. /\ m.heap = g /\ m.strings = AddString(b.strings, Fresh, Texts(g))
        /\ m.taken = b.taken /\ m.obj = Fresh
    BY <2>1, <2>6
  <2>8. h[Fresh] = Free
    BY <2>4, <2>5
  <2>9. h \in [Obj -> Cell] /\ g = [h EXCEPT ![Fresh] = String(x)]
    BY <2>4 DEF HeapOK, g
  <2>10. \A p \in StringObjs(h) : h[p].text # x
    <3>1. SUFFICES ASSUME NEW p \in StringObjs(h) PROVE h[p].text # x
      OBVIOUS
    <3>2. p \in Obj /\ h[p].type = "string" /\ Free.type = "free"
      BY DEF StringObjs, Free
    <3>3. h[p] = heap[p]
      BY <2>4, <3>2
    <3>4. p \in L
      BY <3>2, <3>3 DEF StringObjs
    <3>5. Texts(heap)[p] = heap[p].text
      BY <1>1, <3>2, <3>3, HeapFacts
    <3>. QED  BY <1>5, <3>3, <3>4, <3>5
  <2>11. HeapOK(g, AddString(b.strings, Fresh, Texts(g)))
    BY <2>4, <2>5, <2>8, <2>9, <2>10, PlaceString
  <2>12. \A o \in Obj : g[o] = IF o = Fresh THEN String(x) ELSE h[o]
    BY <2>5, <2>9
  <2>13. \A v \in VMs : \A o \in Roots(v) : o \in Live(heap) /\ o # Fresh /\ o \in Obj
    BY <2>5, RootsLive DEF Live
  <2>14. Keeps(g) /\ KeepsHeld(g, b.taken)
    <3>1. g \in [Obj -> Cell]
      BY <2>11 DEF HeapOK
    <3>2. \A v \in VMs : \A o \in Roots(v) : g[o].type = heap[o].type
      BY <2>4, <2>12, <2>13
    <3>3. \A o \in Range(held) \intersect Obj : o \in b.taken \/ g[o].type = heap[o].type
      BY <2>4, <2>5, <2>12, HeldLive
    <3>. QED  BY <2>4, <3>1, <3>2, <3>3 DEF Keeps, KeepsHeld
  <2>15. g[Fresh].type = "string" /\ Fresh \in Live(g)
    <3>1. String(x).type = "string" /\ String(x) # Free
      BY DEF String, Free
    <3>. QED  BY <2>5, <2>12, <3>1 DEF Live
  <2>. QED  BY <2>5, <2>7, <2>11, <2>14, <2>15 DEF Is
<1>. QED  BY <1>2, <1>4, <1>5

LEMMA CollectKeeps ==
  ASSUME Inv, OneMachine, NEW v \in VMs, held = <<>>
  PROVE  /\ HeapOK(Collected(v).heap, Collected(v).strings) /\ Keeps(Collected(v).heap)
         /\ Live(Collected(v).heap) = Marked(v)
         /\ Collected(v).taken \in SUBSET Obj
<1>. DEFINE h == Collected(v).heap
<1>1. Roots(v) \subseteq Live(heap) /\ HeapOK(heap, strings)
  BY RootsLive DEF Inv
<1>2. /\ HeapOK(h, Collected(v).strings)
      /\ \A o \in Obj : h[o] = IF o \in Marked(v) THEN heap[o] ELSE Free
      /\ Live(h) = Marked(v)
  BY <1>1, CollectedFacts
<1>3. Roots(v) \subseteq Marked(v)
  <2>1. \A o \in Obj : Refs(heap, o) \subseteq Obj
    BY <1>1 DEF HeapOK, Live
  <2>. QED  BY <2>1, HeapAssumption, MarkedFacts
<1>. HIDE DEF h
<1>4. \A w \in VMs : \A o \in Roots(w) : o \in Obj /\ h[o].type = heap[o].type
  BY <1>2, <1>3 DEF OneMachine, Roots
<1>5. Keeps(h)
  BY <1>2, <1>4 DEF HeapOK, Keeps
<1>. QED  BY <1>2, <1>5, TakenFacts DEF h

LEMMA SameKeeps ==
  ASSUME Inv
  PROVE  Keeps(heap) /\ KeepsHeld(heap, {})
  BY DEF Inv, HeapOK, Keeps, KeepsHeld

LEMMA TypesKeep ==
  ASSUME NEW h, Keeps(h), NEW g \in [Obj -> Cell], \A p \in Obj : g[p].type = h[p].type
  PROVE  Keeps(g) /\ \A T : KeepsHeld(h, T) => KeepsHeld(g, T)
  BY DEF Keeps, KeepsHeld, Roots

LEMMA TypesVal ==
  ASSUME NEW h \in [Obj -> Cell], NEW g \in [Obj -> Cell], \A p \in Obj : g[p].type = h[p].type
  PROVE  Live(g) = Live(h) /\ Val(g) = Val(h) /\ StringObjs(g) = StringObjs(h)
<1>1. \A p \in Obj : p \in Live(g) <=> p \in Live(h)
  BY HeapFacts
<1>2. Live(g) = Live(h)
  BY <1>1 DEF Live
<1>. QED  BY <1>2 DEF Val, StringObjs

LEMMA KeepMachine ==
  ASSUME Inv, NEW h, Keeps(h), NEW v \in VMs
  PROVE  MachineOK(vms[v], h)
<1>. DEFINE m == vms[v]
            U == Roots(v) \union {Nil}
<1>1. MachineOK(m, heap) /\ heap \in [Obj -> Cell] /\ h \in [Obj -> Cell]
  BY DEF Inv, HeapOK, Keeps
<1>2. \A o \in Roots(v) : o \in Obj /\ o \in Live(heap) /\ h[o].type = heap[o].type
  BY RootsLive DEF Keeps, Roots
<1>3. \A o \in Roots(v) : o \in Live(h) /\ (heap[o].type = "string" => o \in StringObjs(h))
  BY <1>1, <1>2, HeapFacts DEF StringObjs
<1>4. U \subseteq Val(h)
  BY <1>3 DEF Val
<1>5. \A o \in Val(heap) : o \in Obj \/ o = Nil
  BY DEF Val, Live
<1>6. Roots(v) = (Range(m.stack) \union Range(m.frames) \union DOMAIN m.globals
                   \union Range(m.globals) \union {m.thrown}) \intersect Obj
  BY DEF Roots
<1>. HIDE DEF U, m
<1>7. m.stack \in Seq(Val(h))
  <2>1. m.stack \in Seq(Val(heap))
    BY <1>1 DEF MachineOK
  <2>2. \A i \in 1 .. Len(m.stack) : m.stack[i] \in Val(heap) /\ m.stack[i] \in Range(m.stack)
    BY <2>1, ElementOfSeq, LenProperties DEF Range
  <2>3. \A i \in 1 .. Len(m.stack) : m.stack[i] \in Val(h)
    BY <1>4, <1>5, <1>6, <2>2 DEF U
  <2>. QED  BY <2>1, <2>3, SeqIn
<1>8. m.frames \in Seq(Live(h))
  <2>1. m.frames \in Seq(Live(heap))
    BY <1>1 DEF MachineOK
  <2>2. \A i \in 1 .. Len(m.frames) : m.frames[i] \in Live(heap) /\ m.frames[i] \in Range(m.frames)
    BY <2>1, ElementOfSeq, LenProperties DEF Range
  <2>3. \A i \in 1 .. Len(m.frames) : m.frames[i] \in Live(h)
    BY <1>3, <1>6, <2>2 DEF Live
  <2>. QED  BY <2>1, <2>3, SeqIn
<1>9. ASSUME NEW k \in DOMAIN m.globals
      PROVE  k \in StringObjs(h) /\ m.globals[k] \in Val(h)
  <2>1. k \in StringObjs(heap) /\ m.globals[k] \in Val(heap) /\ m.globals[k] \in Range(m.globals)
    BY <1>1 DEF MachineOK, Range
  <2>2. k \in Roots(v) /\ heap[k].type = "string"
    BY <1>6, <2>1 DEF StringObjs
  <2>. QED  BY <1>3, <1>4, <1>5, <1>6, <2>1, <2>2 DEF U
<1>10. m.thrown \in Val(h)
  <2>1. m.thrown \in Val(heap)
    BY <1>1 DEF MachineOK
  <2>. QED  BY <1>4, <1>5, <1>6, <2>1 DEF U
<1>. QED  BY <1>1, <1>7, <1>8, <1>9, <1>10 DEF MachineOK, m

LEMMA KeepHeld ==
  ASSUME Inv, NEW h, Keeps(h), NEW T, KeepsHeld(h, T)
  PROVE  HeldAfter(op, held, h, T)
<1>1. HeldOK(op, held, heap) /\ heap \in [Obj -> Cell] /\ h \in [Obj -> Cell] /\ T \in SUBSET Obj
  BY DEF Inv, HeapOK, Keeps, KeepsHeld
<1>2. held \in Seq(Val(heap)) /\ Len(held) \in Nat
  BY <1>1, LenProperties DEF HeldOK
<1>3. ASSUME NEW i \in 1 .. Len(held)
      PROVE  /\ held[i] \in Val(h) \union T
             /\ held[i] \in Live(heap) => held[i] \in Live(h) \union T
             /\ Is(heap, held[i], "array") => Is(h, held[i], "array") \/ held[i] \in T
  <2>. DEFINE o == held[i]
  <2>1. o \in Val(heap) /\ o \in Range(held)
    BY <1>2, ElementOfSeq, LenProperties DEF Range
  <2>. HIDE DEF o
  <2>2. CASE o \in Obj
    <3>1. o \in Live(heap)
      BY <2>1, <2>2, HeapAssumption DEF Val
    <3>2. o \in T \/ h[o].type = heap[o].type
      BY <2>1, <2>2 DEF KeepsHeld
    <3>3. o \in T \/ o \in Live(h)
      BY <1>1, <2>2, <3>1, <3>2, HeapFacts
    <3>. QED  BY <2>2, <3>2, <3>3 DEF Val, Is, o
  <2>3. CASE o \notin Obj
    BY <2>1, <2>3 DEF Val, Live, Is, o
  <2>. QED  BY <2>2, <2>3
<1>4. held \in Seq(Val(h) \union T)
  BY <1>2, <1>3, SeqIn
<1>5. held \in Seq(Live(heap)) => held \in Seq(Live(h) \union T)
  <2>. SUFFICES ASSUME held \in Seq(Live(heap)) PROVE held \in Seq(Live(h) \union T)
    OBVIOUS
  <2>1. \A i \in 1 .. Len(held) : held[i] \in Live(heap)
    BY ElementOfSeq
  <2>2. \A i \in 1 .. Len(held) : held[i] \in Live(h) \union T
    BY <1>3, <2>1
  <2>. QED  BY <2>2, SeqIn
<1>6. /\ Len(held) = 1 => 1 \in 1 .. Len(held)
      /\ Len(held) = 2 => 1 \in 1 .. Len(held) /\ 2 \in 1 .. Len(held)
  OBVIOUS
<1>. QED  BY <1>1, <1>3, <1>4, <1>5, <1>6 DEF HeldOK, HeldAfter

-----------------------------------------------------------------------------
(* What a step may do to the machines. *)

LEMMA KeepStep ==
  ASSUME Inv, HeapOK(heap', strings'), Keeps(heap'), vms' = vms,
         HeldAfter(op', held', heap', taken'), ControlOK', \E v \in VMs : vms[v].open
  PROVE  Sound'
<1>1. \A v \in VMs : MachineOK(vms[v], heap')
  BY KeepMachine
<1>2. vms' = [v \in VMs |-> vms'[v]] /\ \A v \in VMs : MachineOK(vms'[v], heap')
  BY <1>1 DEF Inv
<1>3. ~ \A v \in VMs : ~ vms'[v].open
  OBVIOUS
<1>4. \A v \in VMs : KeptOK(vms'[v], heap', taken')
  BY <1>2, MachineKept
<1>. QED  BY <1>2, <1>3, <1>4 DEF Sound

\* A machine changes, and what was freed may be in its globals.
LEMMA GlobalStep ==
  ASSUME Inv, HeapOK(heap', strings'), Keeps(heap'), NEW v \in VMs, NEW m,
         KeptOK(m, heap', taken'), taken' = {} => MachineOK(m, heap'),
         m.open, vms' = [vms EXCEPT ![v] = m],
         HeldAfter(op', held', heap', taken'), ControlOK'
  PROVE  Sound'
<1>1. \A w \in VMs : MachineOK(vms[w], heap') /\ KeptOK(vms[w], heap', taken')
  BY KeepMachine, MachineKept
<1>2. vms = [w \in VMs |-> vms[w]]
  BY DEF Inv
<1>3. vms' = [w \in VMs |-> IF w = v THEN m ELSE vms[w]]
  BY <1>2
<1>4. /\ vms' = [w \in VMs |-> vms'[w]] /\ \A w \in VMs : KeptOK(vms'[w], heap', taken')
      /\ taken' = {} => \A w \in VMs : MachineOK(vms'[w], heap')
  BY <1>1, <1>3
<1>5. vms'[v].open
  BY <1>3
<1>. QED  BY <1>4, <1>5 DEF Sound

LEMMA MachineStep ==
  ASSUME Inv, HeapOK(heap', strings'), Keeps(heap'), NEW v \in VMs, NEW m, MachineOK(m, heap'),
         m.open, vms' = [vms EXCEPT ![v] = m],
         HeldAfter(op', held', heap', taken'), ControlOK'
  PROVE  Sound'
<1>1. KeptOK(m, heap', taken')
  BY MachineKept
<1>. QED  BY <1>1, GlobalStep

Restacked(m, s) == [m EXCEPT !.stack = s]

LEMMA RestackedFacts ==
  ASSUME NEW m, NEW h, MachineOK(m, h), m.open, NEW s \in Seq(Val(h)), Len(s) <= StackMax
  PROVE  /\ MachineOK(Restacked(m, s), h)
         /\ Restacked(m, s).open = m.open /\ Restacked(m, s).stack = s
         /\ Restacked(m, s).frames = m.frames
<1>1. m = [open |-> m.open, stack |-> m.stack, frames |-> m.frames, globals |-> m.globals,
           thrown |-> m.thrown]
  BY DEF MachineOK
<1>2. Restacked(m, s) = [open |-> m.open, stack |-> s, frames |-> m.frames, globals |-> m.globals,
                         thrown |-> m.thrown]
  <2>. DEFINE a == m.open
              b == m.frames
              c == m.globals
              d == m.thrown
              e == m.stack
  <2>1. m = [open |-> a, stack |-> e, frames |-> b, globals |-> c, thrown |-> d]
    BY <1>1
  <2>. HIDE DEF a, b, c, d, e
  <2>2. [m EXCEPT !.stack = s] = [open |-> a, stack |-> s, frames |-> b, globals |-> c, thrown |-> d]
    BY ONLY <2>1
  <2>. QED  BY <2>2 DEF Restacked, a, b, c, d
<1>. DEFINE r == Restacked(m, s)
<1>. HIDE DEF r
<1>3. /\ r = [open |-> r.open, stack |-> r.stack, frames |-> r.frames, globals |-> r.globals,
              thrown |-> r.thrown]
      /\ r.open = m.open /\ r.stack = s /\ r.frames = m.frames
      /\ r.globals = m.globals /\ r.thrown = m.thrown
  BY <1>2 DEF r
<1>4. MachineOK(r, h)
  BY <1>3 DEF MachineOK
<1>. QED  BY <1>3, <1>4 DEF r

\* An instruction of the running machine leaves s as its stack.
LEMMA StackStep ==
  ASSUME Inv, running # NoVM, HeapOK(heap', strings'), Keeps(heap'),
         NEW s \in Seq(Val(heap')), Len(s) <= StackMax, WithStack(s),
         running' = running, nq_gc_vm' = nq_gc_vm,
         HeldAfter(op', held', heap', taken'), op' \in {"none", "concat", "slice", "split"},
         op' = "concat" => Len(s) < StackMax,
         op' = "slice" /\ Len(held') = 1 => Len(s) < StackMax,
         op' = "split" => Len(s) > 1
  PROVE  Sound'
<1>. DEFINE v == running
            m == vms[v]
            r == Restacked(m, s)
<1>1. v \in VMs /\ m.open /\ m.frames # <<>> /\ nq_gc_vm \in VMs \union {NoVM}
  BY DEF Inv, ControlOK
<1>2. MachineOK(m, heap')
  BY <1>1, KeepMachine
<1>. HIDE DEF m
<1>3. MachineOK(r, heap') /\ r.open = m.open /\ r.stack = s /\ r.frames = m.frames
  BY <1>1, <1>2, RestackedFacts
<1>. HIDE DEF r
<1>4. vms' = [vms EXCEPT ![v] = r]
  BY DEF WithStack, r, m, Restacked
<1>5. vms'[v] = r
  <2>1. vms = [w \in VMs |-> vms[w]]
    BY DEF Inv
  <2>. QED  BY <1>1, <1>4, <2>1
<1>6. ControlOK'
  BY <1>1, <1>3, <1>5 DEF ControlOK
<1>. HIDE DEF v
<1>. QED  BY <1>1, <1>3, <1>4, <1>6, MachineStep

\* The same when the stack stays.
LEMMA QuietStep ==
  ASSUME Inv, running # NoVM, HeapOK(heap', strings'), Keeps(heap'), vms' = vms,
         running' = running, nq_gc_vm' = nq_gc_vm,
         HeldAfter(op', held', heap', taken'), op' \in {"none", "concat", "slice", "split"},
         op' = "concat" => Len(Stack) < StackMax,
         op' = "slice" /\ Len(held') = 1 => Len(Stack) < StackMax,
         op' = "split" => Len(Stack) > 1
  PROVE  Sound'
<1>1. running \in VMs /\ vms[running].open /\ vms[running].frames # <<>> /\ nq_gc_vm \in VMs \union {NoVM}
  BY DEF Inv, ControlOK
<1>2. ControlOK'
  BY <1>1 DEF ControlOK, Stack
<1>3. \E v \in VMs : vms[v].open
  BY <1>1
<1>. QED  BY <1>2, <1>3, KeepStep

\* The running machine's stack, before and after the heap has changed.
LEMMA StackFacts ==
  ASSUME Inv, running # NoVM, NEW h, Keeps(h)
  PROVE  /\ running \in VMs /\ vms[running].open
         /\ Stack \in Seq(Val(h)) /\ Size \in Nat /\ Size <= StackMax
         /\ \A i \in 1 .. Size : Stack[i] \in Val(h)
         /\ \A n \in 0 .. Size : Below(n) \in Seq(Val(h)) /\ Len(Below(n)) = Size - n
<1>1. running \in VMs /\ vms[running].open
  BY DEF Inv, ControlOK
<1>2. MachineOK(vms[running], h)
  BY <1>1, KeepMachine
<1>3. Stack \in Seq(Val(h)) /\ Len(Stack) <= StackMax
  BY <1>2 DEF MachineOK, Stack
<1>4. Len(Stack) \in Nat /\ \A i \in 1 .. Len(Stack) : Stack[i] \in Val(h)
  BY <1>3, LenProperties, ElementOfSeq
<1>5. ASSUME NEW n \in 0 .. Size
      PROVE  Below(n) \in Seq(Val(h)) /\ Len(Below(n)) = Size - n
  <2>. DEFINE l == Size - n
  <2>1. l \in 0 .. Len(Stack)
    BY <1>4 DEF Size
  <2>. HIDE DEF l
  <2>2. SubSeq(Stack, 1, l) \in Seq(Val(h)) /\ Len(SubSeq(Stack, 1, l)) = l
    BY <1>3, <2>1, FirstPart
  <2>. QED  BY <2>2 DEF l, Below
<1>. QED  BY <1>1, <1>3, <1>4, <1>5 DEF Size

LEMMA PushFacts ==
  ASSUME NEW h, NEW s \in Seq(Val(h)), NEW x \in Val(h)
  PROVE  Append(s, x) \in Seq(Val(h)) /\ Len(Append(s, x)) = Len(s) + 1 /\ Len(s) \in Nat
  BY AppendFacts

LEMMA NothingHeld ==
  ASSUME NEW h, NEW T \in SUBSET Obj
  PROVE  HeldAfter("none", <<>>, h, T)
<1>1. <<>> \in Seq(Val(h) \union T)
  BY EmptySeq
<1>. QED  BY <1>1 DEF HeldAfter

LEMMA NoneHeld ==
  ASSUME Inv, op = "none", op' = op, held' = held, taken' \in SUBSET Obj
  PROVE  HeldAfter(op', held', heap', taken')
<1>1. held' = <<>>
  BY DEF Inv, HeldOK
<1>. QED  BY <1>1, NothingHeld

-----------------------------------------------------------------------------
(* Instructions. *)

LEMMA ExecStep ==
  ASSUME Inv, Executes, HeapOK(heap', strings'), Keeps(heap'), KeepsHeld(heap', taken'),
         NEW s \in Seq(Val(heap')), Len(s) <= StackMax, WithStack(s)
  PROVE  Sound'
<1>1. running # NoVM /\ op' = "none" /\ op' = op /\ held' = held /\ running' = running /\ nq_gc_vm' = nq_gc_vm
  BY DEF Executes
<1>2. HeldAfter(op', held', heap', taken')
  BY <1>1, NoneHeld DEF Executes, KeepsHeld
<1>. QED  BY <1>1, <1>2, StackStep

\* The same when nothing happens to the heap.
LEMMA StackOnly ==
  ASSUME Inv, Executes, heap' = heap, strings' = strings, taken' = taken,
         NEW s \in Seq(Val(heap)), Len(s) <= StackMax, WithStack(s)
  PROVE  Sound'
<1>1. HeapOK(heap', strings') /\ Keeps(heap') /\ s \in Seq(Val(heap')) /\ KeepsHeld(heap', taken')
  BY SameKeeps DEF Inv
<1>. QED  BY <1>1, ExecStep

LEMMA ConstantsLive ==
  ASSUME Inv, running # NoVM
  PROVE  Constants \subseteq Live(heap)
<1>. DEFINE f == vms[running].frames
<1>1. f \in Seq(Live(heap)) /\ f # <<>>
  BY DEF Inv, ControlOK, MachineOK
<1>2. f[Len(f)] \in Live(heap)
  <2>. HIDE DEF f
  <2>1. Len(f) \in 1 .. Len(f)
    BY <1>1, EmptySeq
  <2>. QED  BY <1>1, <2>1, ElementOfSeq
<1>. QED  BY <1>2 DEF Constants, Inv, HeapOK, Live

LEMMA OpConstInv ==
  ASSUME Inv, OpConst
  PROVE  Sound'
<1>1. running # NoVM /\ Executes /\ Size < StackMax /\ heap' = heap /\ strings' = strings /\ taken' = taken
  BY DEF OpConst, Executes
<1>2. PICK o \in Constants \union {Nil} : WithStack(Append(Stack, o))
  BY DEF OpConst
<1>3. Stack \in Seq(Val(heap)) /\ Size \in Nat
  BY <1>1, SameKeeps, StackFacts
<1>4. o \in Val(heap)
  BY <1>1, <1>2, ConstantsLive DEF Val
<1>5. Append(Stack, o) \in Seq(Val(heap)) /\ Len(Append(Stack, o)) <= StackMax
  BY <1>1, <1>3, <1>4, PushFacts, HeapAssumption DEF Size
<1>. QED  BY <1>1, <1>2, <1>5, StackOnly

LEMMA OpPopInv ==
  ASSUME Inv, OpPop
  PROVE  Sound'
<1>1. running # NoVM /\ Executes /\ Size > 1 /\ heap' = heap /\ strings' = strings /\ taken' = taken /\ WithStack(Below(1))
  BY DEF OpPop, Executes
<1>2. Size \in Nat /\ Size <= StackMax /\ \A n \in 0 .. Size : Below(n) \in Seq(Val(heap)) /\ Len(Below(n)) = Size - n
  BY <1>1, SameKeeps, StackFacts
<1>3. 1 \in 0 .. Size
  BY <1>1, <1>2
<1>4. Below(1) \in Seq(Val(heap)) /\ Len(Below(1)) <= StackMax
  BY <1>2, <1>3, HeapAssumption
<1>. QED  BY <1>1, <1>4, StackOnly

LEMMA WithKeyFacts ==
  ASSUME NEW h, NEW globals,
         \A k \in DOMAIN globals : k \in StringObjs(h) /\ globals[k] \in Val(h),
         NEW key \in StringObjs(h), NEW x \in Val(h)
  PROVE  \A k \in DOMAIN WithKey(globals, key, x) :
           k \in StringObjs(h) /\ WithKey(globals, key, x)[k] \in Val(h)
  BY DEF WithKey

\* A machine gets a global, and perhaps another stack.
LEMMA GlobalFacts ==
  ASSUME NEW m, NEW h, MachineOK(m, h), m.open, NEW s \in Seq(Val(h)), Len(s) <= StackMax,
         NEW key \in StringObjs(h), NEW x \in Val(h),
         NEW r, r = [open |-> m.open, stack |-> s, frames |-> m.frames,
                     globals |-> WithKey(m.globals, key, x), thrown |-> m.thrown]
  PROVE  MachineOK(r, h) /\ r.open = m.open /\ r.frames = m.frames /\ r.stack = s
<1>1. /\ r = [open |-> r.open, stack |-> r.stack, frames |-> r.frames, globals |-> r.globals,
              thrown |-> r.thrown]
      /\ r.open = m.open /\ r.stack = s /\ r.frames = m.frames
      /\ r.globals = WithKey(m.globals, key, x) /\ r.thrown = m.thrown
  OBVIOUS
<1>2. \A k \in DOMAIN m.globals : k \in StringObjs(h) /\ m.globals[k] \in Val(h)
  BY DEF MachineOK
<1>3. \A k \in DOMAIN r.globals : k \in StringObjs(h) /\ r.globals[k] \in Val(h)
  BY <1>1, <1>2, WithKeyFacts
<1>. QED  BY <1>1, <1>3 DEF MachineOK

\* A record with the fields of a machine can be updated field by field.
LEMMA MachineRecord ==
  ASSUME NEW m, NEW h, MachineOK(m, h), NEW s, NEW g
  PROVE  [m EXCEPT !.stack = s, !.globals = g] =
           [open |-> m.open, stack |-> s, frames |-> m.frames, globals |-> g, thrown |-> m.thrown]
<1>. DEFINE a == m.open
            b == m.frames
            c == m.globals
            d == m.thrown
            e == m.stack
<1>1. m = [open |-> a, stack |-> e, frames |-> b, globals |-> c, thrown |-> d]
  BY DEF MachineOK
<1>. HIDE DEF a, b, c, d, e
<1>. DEFINE n == [m EXCEPT !.stack = s]
<1>2. n = [open |-> a, stack |-> s, frames |-> b, globals |-> c, thrown |-> d]
  BY ONLY <1>1
<1>3. [m EXCEPT !.stack = s, !.globals = g] = [n EXCEPT !.globals = g]
  OBVIOUS
<1>. HIDE DEF n
<1>4. [n EXCEPT !.globals = g] =
        [open |-> a, stack |-> s, frames |-> b, globals |-> g, thrown |-> d]
  BY ONLY <1>2
<1>. QED  BY <1>3, <1>4 DEF a, b, d

LEMMA OpDefineGlobalInv ==
  ASSUME Inv, OpDefineGlobal
  PROVE  Sound'
<1>. DEFINE v == running
            m == vms[v]
            s == Below(1)
<1>1. /\ v # NoVM /\ op = "none" /\ op' = op /\ held' = held /\ v' = v /\ nq_gc_vm' = nq_gc_vm
      /\ Size > 1 /\ heap' = heap /\ strings' = strings /\ taken' = taken
  BY DEF OpDefineGlobal, Executes
<1>2. PICK k \in {o \in Constants : Is(heap, o, "string")} :
        vms' = [vms EXCEPT ![v].stack = s, ![v].globals = WithKey(@, k, Top)]
  BY DEF OpDefineGlobal
<1>3. /\ v \in VMs /\ m.open /\ Size \in Nat /\ Size <= StackMax
      /\ \A i \in 1 .. Size : Stack[i] \in Val(heap)
      /\ \A n \in 0 .. Size : Below(n) \in Seq(Val(heap)) /\ Len(Below(n)) = Size - n
  BY <1>1, SameKeeps, StackFacts
<1>4. s \in Seq(Val(heap)) /\ Len(s) <= StackMax
  <2>1. 1 \in 0 .. Size
    BY <1>1, <1>3
  <2>. QED  BY <1>3, <2>1, HeapAssumption
<1>5. Top \in Val(heap)
  <2>1. Size \in 1 .. Size
    BY <1>1, <1>3
  <2>. QED  BY <1>3, <2>1 DEF Top
<1>6. k \in StringObjs(heap)
  BY <1>2 DEF Is, StringObjs
<1>. DEFINE g == WithKey(m.globals, k, Top)
            r == [m EXCEPT !.stack = s, !.globals = g]
<1>7. MachineOK(m, heap)
  BY <1>3 DEF Inv
<1>8. vms' = [vms EXCEPT ![v] = r]
  <2>. DEFINE w == [vms EXCEPT ![v].stack = s]
              mr == [m EXCEPT !.stack = s]
  <2>1. vms = [x \in VMs |-> vms[x]]
    BY DEF Inv
  <2>2. w[v] = mr
    BY <1>3, <2>1
  <2>3. mr.globals = m.globals
    OBVIOUS
  <2>. DEFINE gg == WithKey(w[v].globals, k, Top)
  <2>4. gg = g
    BY <2>2, <2>3
  <2>5. vms' = [w EXCEPT ![v].globals = gg]
    BY <1>2
  <2>6. vms' = [w EXCEPT ![v] = [mr EXCEPT !.globals = g]]
    <3>. HIDE DEF gg, g, w, mr
    <3>. QED  BY <2>2, <2>4, <2>5
  <2>7. w = [vms EXCEPT ![v] = mr]
    OBVIOUS
  <2>8. [mr EXCEPT !.globals = g] = r
    OBVIOUS
  <2>. HIDE DEF w, mr, r, g, v
  <2>. QED  BY <1>3, <2>1, <2>6, <2>7, <2>8
<1>. HIDE DEF m, s, g
<1>9. r = [open |-> m.open, stack |-> s, frames |-> m.frames, globals |-> g, thrown |-> m.thrown]
  BY <1>7, MachineRecord
<1>. HIDE DEF r
<1>10. MachineOK(r, heap) /\ r.open = m.open /\ r.frames = m.frames /\ r.stack = s
  BY <1>3, <1>4, <1>5, <1>6, <1>7, <1>9, GlobalFacts DEF g
<1>11. HeapOK(heap', strings') /\ Keeps(heap') /\ KeepsHeld(heap', taken') /\ HeldAfter(op', held', heap', taken') /\ MachineOK(r, heap')
  BY <1>1, <1>10, SameKeeps, NoneHeld DEF Inv
<1>12. ControlOK'
  <2>1. vms'[v] = r
    BY <1>3, <1>8 DEF Inv
  <2>2. m.frames # <<>> /\ nq_gc_vm \in VMs \union {NoVM}
    BY <1>1 DEF Inv, ControlOK, m
  <2>. QED  BY <1>1, <1>3, <1>10, <2>1, <2>2 DEF ControlOK
<1>. HIDE DEF v
<1>. QED  BY <1>3, <1>8, <1>10, <1>11, <1>12, MachineStep

LEMMA OpGetGlobalInv ==
  ASSUME Inv, OpGetGlobal
  PROVE  Sound'
<1>1. running # NoVM /\ Executes /\ Size < StackMax /\ heap' = heap /\ strings' = strings /\ taken' = taken
  BY DEF OpGetGlobal, Executes
<1>2. PICK k \in DOMAIN vms[running].globals : WithStack(Append(Stack, vms[running].globals[k]))
  BY DEF OpGetGlobal
<1>. DEFINE x == vms[running].globals[k]
<1>3. running \in VMs /\ Stack \in Seq(Val(heap)) /\ Size \in Nat
  BY <1>1, SameKeeps, StackFacts
<1>4. x \in Val(heap)
  BY <1>3 DEF Inv, MachineOK
<1>. HIDE DEF x
<1>5. Append(Stack, x) \in Seq(Val(heap)) /\ Len(Append(Stack, x)) <= StackMax
  BY <1>1, <1>3, <1>4, PushFacts, HeapAssumption DEF Size
<1>. QED  BY <1>1, <1>2, <1>5, StackOnly DEF x

\* A machine gets an error to report, and another stack.
Struck(m, x, s) == [m EXCEPT !.thrown = x, !.stack = s]

LEMMA ThrownRecord ==
  ASSUME NEW m, NEW h, MachineOK(m, h), m.open, NEW s \in Seq(Val(h)), Len(s) <= StackMax,
         NEW x \in Val(h)
  PROVE  /\ MachineOK(Struck(m, x, s), h) /\ Struck(m, x, s).open = m.open
         /\ Struck(m, x, s).frames = m.frames /\ Struck(m, x, s).stack = s
<1>. DEFINE a == m.open
            b == m.frames
            c == m.globals
            d == m.thrown
            e == m.stack
            n == [m EXCEPT !.thrown = x]
            r == Struck(m, x, s)
<1>1. m = [open |-> a, stack |-> e, frames |-> b, globals |-> c, thrown |-> d]
  BY DEF MachineOK
<1>. HIDE DEF a, b, c, d, e
<1>2. n = [open |-> a, stack |-> e, frames |-> b, globals |-> c, thrown |-> x]
  BY ONLY <1>1
<1>3. r = [n EXCEPT !.stack = s]
  BY DEF Struck
<1>. HIDE DEF n, r
<1>4. r = [open |-> a, stack |-> s, frames |-> b, globals |-> c, thrown |-> x]
  <2>1. [n EXCEPT !.stack = s] = [open |-> a, stack |-> s, frames |-> b, globals |-> c, thrown |-> x]
    BY ONLY <1>2
  <2>. QED  BY <1>3, <2>1
<1>5. /\ r = [open |-> r.open, stack |-> r.stack, frames |-> r.frames, globals |-> r.globals,
              thrown |-> r.thrown]
      /\ r.open = m.open /\ r.stack = s /\ r.frames = m.frames
      /\ r.globals = m.globals /\ r.thrown = x
  BY <1>4 DEF a, b, c
<1>6. MachineOK(r, h)
  BY <1>5 DEF MachineOK
<1>. QED  BY <1>5, <1>6 DEF r

LEMMA OpThrowInv ==
  ASSUME Inv, OneMachine, OpThrow
  PROVE  Sound'
<1>. DEFINE v == running
            m == vms[v]
<1>1. v # NoVM /\ op = "none" /\ op' = op /\ held' = held /\ v' = v /\ nq_gc_vm' = nq_gc_vm
  BY DEF OpThrow, Executes
<1>2. PICK x \in Text : \E i \in Interned(x) : \E n \in 0 .. Size - 1 :
        /\ Size - n < StackMax
        /\ Set(i)
        /\ vms' = [vms EXCEPT ![v].thrown = i.obj, ![v].stack = Append(Below(n), i.obj)]
  BY DEF OpThrow
<1>3. PICK i \in Interned(x) : \E n \in 0 .. Size - 1 :
        /\ Size - n < StackMax
        /\ Set(i)
        /\ vms' = [vms EXCEPT ![v].thrown = i.obj, ![v].stack = Append(Below(n), i.obj)]
  BY <1>2
<1>4. PICK n \in 0 .. Size - 1 :
        /\ Size - n < StackMax
        /\ Set(i)
        /\ vms' = [vms EXCEPT ![v].thrown = i.obj, ![v].stack = Append(Below(n), i.obj)]
  BY <1>3
<1>5. HeapOK(i.heap, i.strings) /\ Keeps(i.heap) /\ KeepsHeld(i.heap, i.taken) /\ i.obj \in Live(i.heap)
  BY InternFacts
<1>6. heap' = i.heap /\ strings' = i.strings /\ taken' = i.taken
  BY <1>4 DEF Set
<1>7. HeapOK(heap', strings') /\ Keeps(heap') /\ KeepsHeld(heap', taken') /\ i.obj \in Live(heap') /\ i.obj \in Val(heap')
  BY <1>5, <1>6 DEF Val
<1>8. /\ v \in VMs /\ m.open /\ Size \in Nat
      /\ \A k \in 0 .. Size : Below(k) \in Seq(Val(heap')) /\ Len(Below(k)) = Size - k
  BY <1>1, <1>7, StackFacts
<1>9. Below(n) \in Seq(Val(heap')) /\ Len(Below(n)) = Size - n
  BY <1>8
<1>. DEFINE s == Append(Below(n), i.obj)
            r == Struck(m, i.obj, s)
<1>10. s \in Seq(Val(heap')) /\ Len(s) <= StackMax
  <2>1. s \in Seq(Val(heap')) /\ Len(s) = Len(Below(n)) + 1
    BY <1>7, <1>9, PushFacts
  <2>. QED  BY <1>4, <1>8, <1>9, <2>1, HeapAssumption
<1>11. MachineOK(m, heap')
  BY <1>7, <1>8, KeepMachine
<1>12. vms' = [vms EXCEPT ![v] = r]
  <2>. DEFINE w == [vms EXCEPT ![v].thrown = i.obj]
              mr == [m EXCEPT !.thrown = i.obj]
  <2>1. vms = [y \in VMs |-> vms[y]]
    BY DEF Inv
  <2>2. w[v] = mr
    BY <1>8, <2>1
  <2>3. vms' = [w EXCEPT ![v].stack = s]
    BY <1>4
  <2>4. vms' = [w EXCEPT ![v] = [mr EXCEPT !.stack = s]]
    <3>. HIDE DEF s, w, mr
    <3>. QED  BY <2>2, <2>3
  <2>5. w = [vms EXCEPT ![v] = mr]
    OBVIOUS
  <2>6. [mr EXCEPT !.stack = s] = r
    BY DEF Struck
  <2>. HIDE DEF w, mr, r, s, v
  <2>. QED  BY <1>8, <2>1, <2>4, <2>5, <2>6
<1>. HIDE DEF m, s
<1>13. MachineOK(r, heap') /\ r.open = m.open /\ r.frames = m.frames /\ r.stack = s
  BY <1>7, <1>8, <1>10, <1>11, ThrownRecord
<1>. HIDE DEF r
<1>14. HeldAfter(op', held', heap', taken')
  BY <1>1, <1>7, NoneHeld DEF KeepsHeld
<1>15. ControlOK'
  <2>1. vms'[v] = r
    BY <1>8, <1>12 DEF Inv
  <2>2. m.frames # <<>> /\ nq_gc_vm \in VMs \union {NoVM}
    BY <1>1 DEF Inv, ControlOK, m
  <2>. QED  BY <1>1, <1>8, <1>13, <2>1, <2>2 DEF ControlOK
<1>. HIDE DEF v
<1>. QED  BY <1>7, <1>8, <1>12, <1>13, <1>14, <1>15, MachineStep

LEMMA OpBuildArrayInv ==
  ASSUME Inv, OneMachine, OpBuildArray
  PROVE  Sound'
<1>1. running # NoVM /\ Executes
  BY DEF OpBuildArray, Executes
<1>. DEFINE Items(n) == {Stack[i] : i \in Size - n + 1 .. Size} \intersect Obj
<1>2. PICK n \in 0 .. 1 :
        /\ 1 < Size - n + 1 /\ Size - n < StackMax
        /\ \E m \in Allocated(Array(Items(n))) : Set(m)
        /\ WithStack(Append(Below(n), Fresh))
  BY DEF OpBuildArray
<1>3. PICK m \in Allocated(Array(Items(n))) : Set(m)
  BY <1>2
<1>4. /\ running \in VMs /\ Stack \in Seq(Val(heap)) /\ Size \in Nat
  BY <1>1, SameKeeps, StackFacts
<1>5. Items(n) \in SUBSET Obj /\ \A o \in Items(n) : \E v \in VMs : o \in Roots(v)
  <2>1. \A i \in Size - n + 1 .. Size : Stack[i] \in Range(Stack)
    BY <1>2, <1>4, LenProperties DEF Range, Size
  <2>. QED  BY <1>4, <2>1 DEF Roots, Stack
<1>. DEFINE S == Items(n)
<1>. HIDE DEF S
<1>6. /\ HeapOK(m.heap, m.strings) /\ Keeps(m.heap) /\ KeepsHeld(m.heap, m.taken)
      /\ Fresh \in Obj /\ Fresh \in Live(m.heap)
  <2>1. S \in SUBSET Obj /\ (\A o \in S : \E v \in VMs : o \in Roots(v)) /\ m \in Allocated(Array(S))
    BY <1>3, <1>5 DEF S
  <2>. QED  BY <2>1, AllocFacts
<1>7. heap' = m.heap /\ strings' = m.strings /\ taken' = m.taken
  BY <1>3 DEF Set
<1>8. HeapOK(heap', strings') /\ Keeps(heap') /\ KeepsHeld(heap', taken') /\ Fresh \in Val(heap')
  BY <1>6, <1>7 DEF Val
<1>9. Below(n) \in Seq(Val(heap')) /\ Len(Below(n)) = Size - n
  <2>1. n \in 0 .. Size
    BY <1>2, <1>4
  <2>. QED  BY <1>1, <1>8, <2>1, StackFacts
<1>10. Append(Below(n), Fresh) \in Seq(Val(heap')) /\ Len(Append(Below(n), Fresh)) <= StackMax
  <2>1. Append(Below(n), Fresh) \in Seq(Val(heap')) /\ Len(Append(Below(n), Fresh)) = Len(Below(n)) + 1
    BY <1>8, <1>9, PushFacts
  <2>. QED  BY <1>2, <1>4, <1>9, <2>1, HeapAssumption
<1>. QED  BY <1>1, <1>2, <1>8, <1>10, ExecStep

LEMMA StringResultInv ==
  ASSUME Inv, OneMachine, StringResult
  PROVE  Sound'
<1>1. running # NoVM /\ Executes
  BY DEF StringResult, Executes
<1>2. PICK n \in 1 .. 2, x \in Text : \E m \in Interned(x) :
        Size > n /\ Set(m) /\ WithStack(Append(Below(n), m.obj))
  BY DEF StringResult
<1>3. PICK m \in Interned(x) : Size > n /\ Set(m) /\ WithStack(Append(Below(n), m.obj))
  BY <1>2
<1>4. HeapOK(m.heap, m.strings) /\ Keeps(m.heap) /\ KeepsHeld(m.heap, m.taken) /\ m.obj \in Live(m.heap)
  BY InternFacts
<1>5. HeapOK(heap', strings') /\ Keeps(heap') /\ KeepsHeld(heap', taken') /\ m.obj \in Val(heap')
  BY <1>3, <1>4 DEF Val, Set
<1>6. /\ Size \in Nat /\ Size <= StackMax
      /\ \A k \in 0 .. Size : Below(k) \in Seq(Val(heap')) /\ Len(Below(k)) = Size - k
  BY <1>1, <1>5, StackFacts
<1>7. n \in 0 .. Size /\ Below(n) \in Seq(Val(heap')) /\ Len(Below(n)) = Size - n
  <2>1. n \in 0 .. Size
    BY <1>3, <1>6
  <2>. QED  BY <1>6, <2>1
<1>8. Append(Below(n), m.obj) \in Seq(Val(heap')) /\ Len(Append(Below(n), m.obj)) <= StackMax
  <2>1. Append(Below(n), m.obj) \in Seq(Val(heap')) /\ Len(Append(Below(n), m.obj)) = Len(Below(n)) + 1
    BY <1>5, <1>7, PushFacts
  <2>. QED  BY <1>3, <1>6, <1>7, <2>1, HeapAssumption
<1>. QED  BY <1>1, <1>3, <1>5, <1>8, ExecStep

LEMMA GcCollectInv ==
  ASSUME Inv, OneMachine, GcCollect
  PROVE  Sound'
<1>1. /\ running # NoVM /\ op = "none" /\ op' = op /\ held' = held /\ running' = running
      /\ nq_gc_vm' = nq_gc_vm /\ vms' = vms /\ Set(Collected(running))
  BY DEF GcCollect, Executes
<1>2. running \in VMs /\ held = <<>>
  BY <1>1 DEF Inv, ControlOK, HeldOK
<1>. DEFINE m == Collected(running)
<1>3. HeapOK(m.heap, m.strings) /\ Keeps(m.heap) /\ m.taken \in SUBSET Obj
  BY <1>2, CollectKeeps
<1>4. HeapOK(heap', strings') /\ Keeps(heap') /\ taken' \in SUBSET Obj
  BY <1>1, <1>3 DEF Set
<1>5. HeldAfter(op', held', heap', taken')
  BY <1>1, <1>4, NoneHeld
<1>. QED  BY <1>1, <1>4, <1>5, QuietStep

LEMMA OpHaltInv ==
  ASSUME Inv, OpHalt
  PROVE  Sound'
<1>1. /\ running # NoVM /\ op = "none" /\ op' = op /\ held' = held /\ running' = NoVM
      /\ nq_gc_vm' = nq_gc_vm /\ vms' = vms /\ heap' = heap /\ strings' = strings /\ taken' = taken
  BY DEF OpHalt
<1>2. HeapOK(heap', strings') /\ Keeps(heap') /\ KeepsHeld(heap', taken') /\ HeldAfter(op', held', heap', taken')
  BY <1>1, SameKeeps, NoneHeld DEF Inv
<1>3. ControlOK' /\ \E v \in VMs : vms[v].open
  BY <1>1 DEF Inv, ControlOK
<1>. QED  BY <1>1, <1>2, <1>3, KeepStep

\* A reference is added to an object of a heap in which nothing is lost.
LEMMA ReferKeeps ==
  ASSUME NEW h, NEW t, HeapOK(h, t), Keeps(h), NEW o \in Obj, NEW x \in Val(h)
  PROVE  /\ HeapOK(Refer(h, o, x), t) /\ Keeps(Refer(h, o, x))
         /\ \A T : KeepsHeld(h, T) => KeepsHeld(Refer(h, o, x), T)
         /\ Val(Refer(h, o, x)) = Val(h) /\ Live(Refer(h, o, x)) = Live(h)
<1>. DEFINE g == Refer(h, o, x)
<1>1. HeapOK(g, t) /\ \A p \in Obj : g[p].type = h[p].type
  BY ReferFacts DEF Val
<1>. HIDE DEF g
<1>2. h \in [Obj -> Cell] /\ g \in [Obj -> Cell]
  BY <1>1 DEF HeapOK
<1>3. Keeps(g) /\ \A T : KeepsHeld(h, T) => KeepsHeld(g, T)
  BY <1>1, <1>2, TypesKeep
<1>4. Live(g) = Live(h) /\ Val(g) = Val(h)
  BY <1>1, <1>2, TypesVal
<1>. QED  BY <1>1, <1>3, <1>4 DEF g

LEMMA ArrayPushInv ==
  ASSUME Inv, ArrayPush
  PROVE  Sound'
<1>1. running # NoVM /\ Executes /\ Size > 2 /\ strings' = strings /\ taken' = taken /\ WithStack(Below(1))
  BY DEF ArrayPush, Executes
<1>. DEFINE arr == Stack[Size - 1]
<1>2. arr \in Obj /\ heap' = Refer(heap, arr, Top)
  BY DEF ArrayPush, Is
<1>3. Size \in Nat /\ Size <= StackMax /\ \A i \in 1 .. Size : Stack[i] \in Val(heap)
  BY <1>1, SameKeeps, StackFacts
<1>4. Top \in Val(heap)
  <2>1. Size \in 1 .. Size
    BY <1>1, <1>3
  <2>. QED  BY <1>3, <2>1 DEF Top
<1>. HIDE DEF arr
<1>5. HeapOK(heap', strings') /\ Keeps(heap') /\ KeepsHeld(heap', taken')
  <2>1. HeapOK(heap, strings) /\ Keeps(heap) /\ KeepsHeld(heap, taken)
    BY SameKeeps DEF Inv
  <2>. DEFINE x == Top
  <2>. HIDE DEF x
  <2>2. x \in Val(heap)
    BY <1>4 DEF x
  <2>3. HeapOK(Refer(heap, arr, x), strings) /\ Keeps(Refer(heap, arr, x)) /\ KeepsHeld(Refer(heap, arr, x), taken)
    BY <1>2, <2>1, <2>2, ReferKeeps
  <2>. QED  BY <1>1, <1>2, <2>3 DEF x
<1>6. Below(1) \in Seq(Val(heap')) /\ Len(Below(1)) <= StackMax
  <2>1. 1 \in 0 .. Size
    BY <1>1, <1>3
  <2>2. Below(1) \in Seq(Val(heap')) /\ Len(Below(1)) = Size - 1
    BY <1>1, <1>5, <2>1, StackFacts
  <2>. QED  BY <1>3, <2>2, HeapAssumption
<1>. QED  BY <1>1, <1>5, <1>6, ExecStep

LEMMA ArrayRemoveInv ==
  ASSUME Inv, ArrayRemove
  PROVE  Sound'
<1>. DEFINE a == Top
<1>1. /\ running # NoVM /\ Executes /\ Size > 1 /\ strings' = strings /\ taken' = taken
      /\ a \in Obj /\ heap[a].type = "array"
  BY DEF ArrayRemove, Executes, Is
<1>2. PICK o \in heap[a].refs : /\ heap' = [heap EXCEPT ![a].refs = @ \ {o}]
                                /\ WithStack(Append(Below(1), o))
  BY DEF ArrayRemove
<1>. DEFINE S == heap[a].refs \ {o}
<1>3. HeapOK(heap, strings) /\ Keeps(heap) /\ KeepsHeld(heap, taken) /\ heap \in [Obj -> Cell]
  BY SameKeeps DEF Inv, HeapOK
<1>. HIDE DEF a
<1>4. heap[a].refs \subseteq Live(heap)
  BY <1>1, <1>3 DEF HeapOK, Refs
<1>5. heap' = WithRefs(heap, a, S)
  BY <1>2 DEF WithRefs
<1>6. S \in SUBSET Live(heap) /\ o \in Val(heap) /\ heap[a].type \in {"array", "function"}
  BY <1>1, <1>2, <1>4 DEF Val
<1>. HIDE DEF S
<1>7. HeapOK(heap', strings') /\ \A p \in Obj : heap'[p].type = heap[p].type
  <2>1. /\ HeapOK(WithRefs(heap, a, S), strings)
        /\ \A p \in Obj : WithRefs(heap, a, S)[p].type = heap[p].type
    BY <1>1, <1>3, <1>6, RefsFacts
  <2>. QED  BY <1>1, <1>5, <2>1
<1>8. heap' \in [Obj -> Cell]
  BY <1>7 DEF HeapOK
<1>9. Keeps(heap') /\ KeepsHeld(heap', taken') /\ Val(heap') = Val(heap)
  BY <1>1, <1>3, <1>7, <1>8, TypesKeep, TypesVal
<1>10. Size \in Nat /\ Size <= StackMax
  BY <1>1, <1>3, StackFacts
<1>11. Below(1) \in Seq(Val(heap')) /\ Len(Below(1)) = Size - 1
  <2>1. 1 \in 0 .. Size
    BY <1>1, <1>10
  <2>. QED  BY <1>1, <1>9, <2>1, StackFacts
<1>12. Append(Below(1), o) \in Seq(Val(heap')) /\ Len(Append(Below(1), o)) <= StackMax
  <2>1. Append(Below(1), o) \in Seq(Val(heap')) /\ Len(Append(Below(1), o)) = Len(Below(1)) + 1
    BY <1>6, <1>9, <1>11, PushFacts
  <2>. QED  BY <1>10, <1>11, <2>1, HeapAssumption
<1>. QED  BY <1>1, <1>2, <1>7, <1>9, <1>12, ExecStep

-----------------------------------------------------------------------------
(* Holders. *)

LEMMA OpConcatInv ==
  ASSUME Inv, OpConcat
  PROVE  Sound'
<1>. DEFINE x == Stack[Size - 1]
            y == Stack[Size]
<1>1. /\ running # NoVM /\ Size > 2 /\ running' = running /\ nq_gc_vm' = nq_gc_vm
      /\ op' = "concat" /\ held' = <<x, y>>
      /\ WithStack(Below(2)) /\ heap' = heap /\ strings' = strings /\ taken' = taken
  BY DEF OpConcat, Holding, Hold, Top
<1>2. HeapOK(heap', strings') /\ Keeps(heap') /\ KeepsHeld(heap', taken')
  BY <1>1, SameKeeps DEF Inv
<1>3. /\ Size \in Nat /\ Size <= StackMax
      /\ \A i \in 1 .. Size : Stack[i] \in Val(heap')
      /\ \A n \in 0 .. Size : Below(n) \in Seq(Val(heap')) /\ Len(Below(n)) = Size - n
  BY <1>1, <1>2, StackFacts
<1>4. x \in Val(heap') /\ y \in Val(heap')
  <2>1. Size - 1 \in 1 .. Size /\ Size \in 1 .. Size
    BY <1>1, <1>3
  <2>. QED  BY <1>3, <2>1
<1>5. Below(2) \in Seq(Val(heap')) /\ Len(Below(2)) = Size - 2
  <2>1. 2 \in 0 .. Size
    BY <1>1, <1>3
  <2>. QED  BY <1>3, <2>1
<1>6. Len(Below(2)) <= StackMax /\ Len(Below(2)) < StackMax
  <2>. DEFINE l == Len(Below(2))
  <2>1. l = Size - 2 /\ Size \in Nat /\ Size <= StackMax /\ StackMax \in Nat
    BY <1>3, <1>5, HeapAssumption
  <2>. HIDE DEF l
  <2>2. l <= StackMax /\ l < StackMax
    BY ONLY <2>1
  <2>. QED  BY <2>2 DEF l
<1>. HIDE DEF x, y
<1>7. HeldAfter(op', held', heap', taken')
  <2>1. <<x, y>> \in Seq(Val(heap')) /\ Len(<<x, y>>) = 2
    BY <1>4
  <2>. QED  BY <1>1, <1>2, <2>1, HeldSame DEF HeldOK, KeepsHeld
<1>8. op' \in {"none", "concat", "slice", "split"} /\ op' # "slice" /\ op' # "split"
  BY <1>1
<1>. QED  BY <1>1, <1>2, <1>5, <1>6, <1>7, <1>8, StackStep

LEMMA PutFacts ==
  ASSUME NEW S, NEW s \in Seq(S), NEW i \in 1 .. Len(s), NEW e \in S
  PROVE  [s EXCEPT ![i] = e] \in Seq(S) /\ Len([s EXCEPT ![i] = e]) = Len(s)
<1>. DEFINE n == Len(s)
            f == [s EXCEPT ![i] = e]
<1>1. n \in Nat /\ s \in [1 .. n -> S]
  BY LenProperties
<1>2. f \in [1 .. n -> S]
  BY <1>1
<1>. HIDE DEF f, n
<1>3. f \in Seq(S) /\ Len(f) = n
  BY <1>1, <1>2, LenProperties
<1>. QED  BY <1>3 DEF f, n

LEMMA ValueToStringInv ==
  ASSUME Inv, OneMachine, ValueToString
  PROVE  Sound'
<1>1. op = "concat" /\ running' = running /\ nq_gc_vm' = nq_gc_vm /\ vms' = vms
  BY DEF ValueToString, Continues
<1>2. PICK i \in 1 .. 2, x \in Text : \E m \in Interned(x) :
        Set(m) /\ Hold("concat", [held EXCEPT ![i] = m.obj])
  BY DEF ValueToString
<1>3. PICK m \in Interned(x) : Set(m) /\ Hold("concat", [held EXCEPT ![i] = m.obj])
  BY <1>2
<1>4. HeapOK(m.heap, m.strings) /\ Keeps(m.heap) /\ KeepsHeld(m.heap, m.taken) /\ m.obj \in Live(m.heap)
  BY InternFacts
<1>5. HeapOK(heap', strings') /\ Keeps(heap') /\ KeepsHeld(heap', taken') /\ m.obj \in Val(heap')
  BY <1>3, <1>4 DEF Set, Val
<1>6. running # NoVM /\ Len(Stack) < StackMax
  BY <1>1 DEF Inv, ControlOK, Stack
<1>. DEFINE s == [held EXCEPT ![i] = m.obj]
<1>7. held \in Seq(Val(heap') \union taken') /\ Len(held) = 2
  BY <1>1, <1>5, KeepHeld DEF HeldAfter
<1>8. s \in Seq(Val(heap') \union taken') /\ Len(s) = 2
  <2>. DEFINE y == m.obj
              S == Val(heap') \union taken'
  <2>1. held \in Seq(S) /\ Len(held) = 2 /\ y \in S /\ i \in 1 .. Len(held)
    BY <1>5, <1>7
  <2>. HIDE DEF y, S
  <2>2. [held EXCEPT ![i] = y] \in Seq(S) /\ Len([held EXCEPT ![i] = y]) = Len(held)
    BY ONLY <2>1, PutFacts, SMTT(30)
  <2>. QED  BY <2>1, <2>2 DEF y, S
<1>. HIDE DEF s
<1>9. op' = "concat" /\ held' = s
  BY <1>3 DEF Hold, s
<1>10. HeldAfter(op', held', heap', taken')
  BY <1>5, <1>8, <1>9 DEF HeldAfter, KeepsHeld
<1>11. op' \in {"none", "concat", "slice", "split"} /\ op' # "slice" /\ op' # "split"
  BY <1>9
<1>. QED  BY <1>1, <1>5, <1>6, <1>10, <1>11, QuietStep

LEMMA ConcatStringsInv ==
  ASSUME Inv, OneMachine, ConcatStrings
  PROVE  Sound'
<1>1. /\ op = "concat" /\ running' = running /\ nq_gc_vm' = nq_gc_vm
      /\ op' = "none" /\ held' = <<>>
  BY DEF ConcatStrings, Continues, LetGo, Hold
<1>2. PICK x \in Text : \E m \in Interned(x) : Set(m) /\ WithStack(Append(Stack, m.obj))
  BY DEF ConcatStrings
<1>3. PICK m \in Interned(x) : Set(m) /\ WithStack(Append(Stack, m.obj))
  BY <1>2
<1>4. HeapOK(m.heap, m.strings) /\ Keeps(m.heap) /\ KeepsHeld(m.heap, m.taken) /\ m.obj \in Live(m.heap)
  BY InternFacts
<1>5. HeapOK(heap', strings') /\ Keeps(heap') /\ KeepsHeld(heap', taken') /\ m.obj \in Val(heap')
  BY <1>3, <1>4 DEF Set, Val
<1>6. running # NoVM /\ Len(Stack) < StackMax
  BY <1>1 DEF Inv, ControlOK, Stack
<1>7. Stack \in Seq(Val(heap'))
  BY <1>5, <1>6, StackFacts
<1>8. Append(Stack, m.obj) \in Seq(Val(heap')) /\ Len(Append(Stack, m.obj)) <= StackMax
  <2>1. /\ Append(Stack, m.obj) \in Seq(Val(heap')) /\ Len(Append(Stack, m.obj)) = Len(Stack) + 1
        /\ Len(Stack) \in Nat
    BY <1>5, <1>7, PushFacts
  <2>. QED  BY <1>6, <2>1, HeapAssumption
<1>9. HeldAfter(op', held', heap', taken')
  BY <1>1, <1>5, NothingHeld DEF KeepsHeld
<1>10. op' \in {"none", "concat", "slice", "split"} /\ op' # "concat" /\ op' # "slice" /\ op' # "split"
  BY <1>1
<1>. QED  BY <1>1, <1>3, <1>5, <1>6, <1>8, <1>9, <1>10, StackStep

LEMMA OpSliceInv ==
  ASSUME Inv, OpSlice
  PROVE  Sound'
<1>. DEFINE x == Stack[Size]
<1>1. /\ running # NoVM /\ Size > 1 /\ running' = running /\ nq_gc_vm' = nq_gc_vm
      /\ op' = "slice" /\ held' = <<x>> /\ Is(heap, x, "array")
      /\ WithStack(Below(1)) /\ heap' = heap /\ strings' = strings /\ taken' = taken
  BY DEF OpSlice, Holding, Hold, Top
<1>2. HeapOK(heap', strings') /\ Keeps(heap') /\ KeepsHeld(heap', taken') /\ heap \in [Obj -> Cell]
  BY <1>1, SameKeeps DEF Inv, HeapOK
<1>3. /\ Size \in Nat /\ Size <= StackMax
      /\ \A n \in 0 .. Size : Below(n) \in Seq(Val(heap')) /\ Len(Below(n)) = Size - n
  BY <1>1, <1>2, StackFacts
<1>4. Below(1) \in Seq(Val(heap')) /\ Len(Below(1)) = Size - 1
  <2>1. 1 \in 0 .. Size
    BY <1>1, <1>3
  <2>. QED  BY <1>3, <2>1
<1>5. Len(Below(1)) <= StackMax /\ Len(Below(1)) < StackMax
  <2>. DEFINE l == Len(Below(1))
  <2>1. l = Size - 1 /\ Size \in Nat /\ Size <= StackMax /\ StackMax \in Nat
    BY <1>3, <1>4, HeapAssumption
  <2>. HIDE DEF l
  <2>2. l <= StackMax /\ l < StackMax
    BY ONLY <2>1
  <2>. QED  BY <2>2 DEF l
<1>. HIDE DEF x
<1>6. x \in Live(heap') /\ x \in Val(heap')
  BY <1>1, <1>2, HeapFacts DEF Is, Val
<1>7. HeldAfter(op', held', heap', taken')
  <2>1. <<x>> \in Seq(Val(heap')) /\ Len(<<x>>) = 1 /\ <<x>>[1] = x
    BY <1>6
  <2>. QED  BY <1>1, <1>2, <1>6, <2>1, HeldSame DEF HeldOK, KeepsHeld
<1>8. op' \in {"none", "concat", "slice", "split"} /\ op' # "concat" /\ op' # "split"
  BY <1>1
<1>. QED  BY <1>1, <1>2, <1>4, <1>5, <1>7, <1>8, StackStep

LEMMA SliceResultInv ==
  ASSUME Inv, OneMachine, SliceResult
  PROVE  Sound'
<1>1. /\ op = "slice" /\ running' = running /\ nq_gc_vm' = nq_gc_vm
      /\ Len(held) = 1 /\ op' = "slice" /\ held' = Append(held, Fresh)
      /\ WithStack(Append(Stack, Fresh))
  BY DEF SliceResult, Continues, Hold
<1>2. PICK m \in Allocated(Array({})) : Set(m)
  BY DEF SliceResult
<1>3. /\ HeapOK(m.heap, m.strings) /\ Keeps(m.heap) /\ KeepsHeld(m.heap, m.taken)
      /\ Fresh \in Obj /\ m.heap[Fresh] = Array({}) /\ Fresh \in Live(m.heap)
  <2>. DEFINE S == {}
  <2>1. S \in SUBSET Obj /\ (\A o \in S : \E v \in VMs : o \in Roots(v)) /\ m \in Allocated(Array(S))
    BY <1>2
  <2>. HIDE DEF S
  <2>2. /\ HeapOK(m.heap, m.strings) /\ Keeps(m.heap) /\ KeepsHeld(m.heap, m.taken)
        /\ Fresh \in Obj /\ m.heap[Fresh] = Array(S) /\ Fresh \in Live(m.heap)
    BY <2>1, AllocFacts
  <2>. QED  BY <2>2 DEF S
<1>4. /\ HeapOK(heap', strings') /\ Keeps(heap') /\ KeepsHeld(heap', taken') /\ Fresh \in Val(heap') /\ Is(heap', Fresh, "array")
  BY <1>2, <1>3 DEF Set, Val, Is, Array
<1>5. running # NoVM /\ Len(Stack) < StackMax
  BY <1>1 DEF Inv, ControlOK, Stack
<1>6. Stack \in Seq(Val(heap'))
  BY <1>4, <1>5, StackFacts
<1>7. Append(Stack, Fresh) \in Seq(Val(heap')) /\ Len(Append(Stack, Fresh)) <= StackMax
  <2>1. /\ Append(Stack, Fresh) \in Seq(Val(heap')) /\ Len(Append(Stack, Fresh)) = Len(Stack) + 1
        /\ Len(Stack) \in Nat
    BY <1>4, <1>6, PushFacts
  <2>. QED  BY <1>5, <2>1, HeapAssumption
<1>8. HeldAfter(op, held, heap', taken')
  BY <1>4, KeepHeld
<1>9. held \in Seq(Val(heap') \union taken') /\ held[1] \in Live(heap') \union taken'
  BY <1>1, <1>8 DEF HeldAfter
<1>10. /\ held' \in Seq(Val(heap') \union taken') /\ Len(held') = 2
       /\ held'[1] = held[1] /\ held'[2] = Fresh
  <2>. DEFINE y == Fresh
              S == Val(heap') \union taken'
  <2>1. held \in Seq(S) /\ Len(held) = 1 /\ y \in S /\ held' = Append(held, y)
    BY <1>1, <1>4, <1>9
  <2>. HIDE DEF y, S
  <2>2. Append(held, y) \in Seq(S) /\ Len(Append(held, y)) = 2
    <3>1. Append(held, y) \in Seq(S) /\ Len(Append(held, y)) = Len(held) + 1
      BY ONLY <2>1, AppendFacts
    <3>. QED  BY ONLY <2>1, <3>1
  <2>3. Append(held, y)[1] = held[1] /\ Append(held, y)[2] = y
    <3>1. Len(held) + 1 = 2 /\ 1 \in 1 .. Len(held)
      BY ONLY <2>1
    <3>2. Append(held, y)[Len(held) + 1] = y
      BY ONLY <2>1, AppendProperties
    <3>3. \A j \in 1 .. Len(held) : Append(held, y)[j] = held[j]
      BY ONLY <2>1, AppendProperties
    <3>. QED  BY <3>1, <3>2, <3>3
  <2>. QED  BY <2>1, <2>2, <2>3 DEF y, S
<1>11. HeldAfter(op', held', heap', taken')
  BY <1>1, <1>4, <1>9, <1>10 DEF HeldAfter, KeepsHeld
<1>12. op' \in {"none", "concat", "slice", "split"} /\ op' # "concat" /\ op' # "split" /\ Len(held') # 1
  BY <1>1, <1>10
<1>. QED  BY <1>1, <1>4, <1>5, <1>7, <1>11, <1>12, StackStep

LEMMA SliceCopyInv ==
  ASSUME Inv, SliceCopy
  PROVE  Sound'
<1>. DEFINE o == held[2]
<1>1. /\ op = "slice" /\ running' = running /\ nq_gc_vm' = nq_gc_vm /\ Len(held) = 2
      /\ op' = "none" /\ held' = <<>> /\ strings' = strings /\ taken' = taken /\ vms' = vms
  BY DEF SliceCopy, Continues, LetGo, Hold
<1>2. PICK S \in SUBSET Refs(heap, held[1]) : heap' = [heap EXCEPT ![o].refs = S]
  BY DEF SliceCopy
<1>3. held[1] \in Live(heap) /\ Is(heap, o, "array")
  BY <1>1 DEF Inv, HeldOK
<1>4. HeapOK(heap, strings) /\ Keeps(heap) /\ KeepsHeld(heap, taken) /\ heap \in [Obj -> Cell]
  BY SameKeeps DEF Inv, HeapOK
<1>5. S \in SUBSET Live(heap)
  BY <1>2, <1>3, <1>4 DEF HeapOK, Live
<1>6. o \in Obj /\ heap[o].type \in {"array", "function"}
  BY <1>3 DEF Is
<1>. HIDE DEF o
<1>7. HeapOK(heap', strings') /\ \A p \in Obj : heap'[p].type = heap[p].type
  <2>1. /\ HeapOK(WithRefs(heap, o, S), strings)
        /\ \A p \in Obj : WithRefs(heap, o, S)[p].type = heap[p].type
    BY <1>4, <1>5, <1>6, RefsFacts
  <2>. QED  BY <1>1, <1>2, <2>1 DEF WithRefs
<1>8. Keeps(heap') /\ KeepsHeld(heap', taken')
  BY <1>1, <1>4, <1>7, TypesKeep DEF HeapOK
<1>9. running # NoVM
  BY <1>1 DEF Inv, ControlOK
<1>10. HeldAfter(op', held', heap', taken')
  BY <1>1, <1>8, NothingHeld DEF KeepsHeld
<1>11. op' \in {"none", "concat", "slice", "split"} /\ op' # "concat" /\ op' # "slice" /\ op' # "split"
  BY <1>1
<1>. QED  BY <1>1, <1>7, <1>8, <1>9, <1>10, <1>11, QuietStep

LEMMA SplitInv ==
  ASSUME Inv, OneMachine, Split
  PROVE  Sound'
<1>1. /\ running # NoVM /\ running' = running /\ nq_gc_vm' = nq_gc_vm /\ Size > 1
      /\ op' = "split" /\ held' = <<Fresh>> /\ vms' = vms
  BY DEF Split, Holding, Hold
<1>2. PICK m \in Allocated(Array({})) : Set(m)
  BY DEF Split
<1>3. HeapOK(m.heap, m.strings) /\ Keeps(m.heap) /\ KeepsHeld(m.heap, m.taken) /\ Fresh \in Live(m.heap)
  <2>. DEFINE S == {}
  <2>1. S \in SUBSET Obj /\ (\A o \in S : \E v \in VMs : o \in Roots(v)) /\ m \in Allocated(Array(S))
    BY <1>2
  <2>. HIDE DEF S
  <2>. QED  BY <2>1, AllocFacts
<1>4. HeapOK(heap', strings') /\ Keeps(heap') /\ KeepsHeld(heap', taken') /\ Fresh \in Live(heap')
  BY <1>2, <1>3 DEF Set
<1>5. HeldAfter(op', held', heap', taken')
  <2>. DEFINE x == Fresh
  <2>1. x \in Live(heap') /\ x \in Val(heap')
    BY <1>4 DEF Val
  <2>. HIDE DEF x
  <2>2. <<x>> \in Seq(Val(heap')) /\ Len(<<x>>) = 1 /\ <<x>>[1] = x
    BY <2>1
  <2>3. op' = "split" /\ held' = <<x>>
    BY <1>1 DEF x
  <2>. QED  BY <1>4, <2>1, <2>2, <2>3, HeldSame DEF HeldOK, KeepsHeld
<1>6. op' \in {"none", "concat", "slice", "split"} /\ op' # "concat" /\ op' # "slice" /\ Len(Stack) > 1
  BY <1>1 DEF Size
<1>. QED  BY <1>1, <1>4, <1>5, <1>6, QuietStep

LEMMA SplitPieceInv ==
  ASSUME Inv, OneMachine, SplitPiece
  PROVE  Sound'
<1>. DEFINE o == held[1]
<1>1. op = "split" /\ op' = op /\ held' = held /\ running' = running /\ nq_gc_vm' = nq_gc_vm /\ vms' = vms
  BY DEF SplitPiece, Continues
<1>2. PICK x \in Text : \E m \in Interned(x) : heap' = Refer(m.heap, o, m.obj) /\ strings' = m.strings /\ taken' = m.taken
  BY DEF SplitPiece
<1>3. PICK m \in Interned(x) : heap' = Refer(m.heap, o, m.obj) /\ strings' = m.strings /\ taken' = m.taken
  BY <1>2
<1>4. HeapOK(m.heap, m.strings) /\ Keeps(m.heap) /\ KeepsHeld(m.heap, m.taken) /\ m.obj \in Val(m.heap)
  BY InternFacts DEF Val
<1>5. o \in Obj
  BY <1>1 DEF Inv, HeldOK, Live
<1>. HIDE DEF o
<1>6. HeapOK(heap', strings') /\ Keeps(heap') /\ KeepsHeld(heap', taken')
  <2>. DEFINE h == m.heap
              t == m.strings
              x1 == m.obj
  <2>1. HeapOK(h, t) /\ Keeps(h) /\ KeepsHeld(h, m.taken) /\ o \in Obj /\ x1 \in Val(h)
    BY <1>4, <1>5
  <2>. HIDE DEF h, t, x1
  <2>2. HeapOK(Refer(h, o, x1), t) /\ Keeps(Refer(h, o, x1)) /\ KeepsHeld(Refer(h, o, x1), m.taken)
    BY <2>1, ReferKeeps
  <2>. QED  BY <1>3, <2>2 DEF h, t, x1
<1>7. running # NoVM /\ Len(Stack) > 1
  BY <1>1 DEF Inv, ControlOK, Stack
<1>8. HeldAfter(op', held', heap', taken')
  BY <1>1, <1>6, KeepHeld
<1>9. op' \in {"none", "concat", "slice", "split"} /\ op' # "concat" /\ op' # "slice"
  BY <1>1
<1>. QED  BY <1>1, <1>6, <1>7, <1>8, <1>9, QuietStep

LEMMA SplitReturnInv ==
  ASSUME Inv, SplitReturn
  PROVE  Sound'
<1>1. /\ op = "split" /\ running' = running /\ nq_gc_vm' = nq_gc_vm
      /\ WithStack(Append(Below(1), held[1]))
      /\ op' = "none" /\ held' = <<>> /\ heap' = heap /\ strings' = strings /\ taken' = taken
  BY DEF SplitReturn, Continues, LetGo, Hold
<1>2. running # NoVM /\ Len(Stack) > 1
  BY <1>1 DEF Inv, ControlOK, Stack
<1>3. HeapOK(heap', strings') /\ Keeps(heap') /\ KeepsHeld(heap', taken')
  BY <1>1, SameKeeps DEF Inv
<1>4. held[1] \in Val(heap')
  BY <1>1 DEF Inv, HeldOK, Val
<1>5. /\ Size \in Nat /\ Size <= StackMax
      /\ \A n \in 0 .. Size : Below(n) \in Seq(Val(heap')) /\ Len(Below(n)) = Size - n
  BY <1>2, <1>3, StackFacts
<1>6. Below(1) \in Seq(Val(heap')) /\ Len(Below(1)) = Size - 1
  <2>1. 1 \in 0 .. Size
    BY <1>2, <1>5 DEF Size
  <2>. QED  BY <1>5, <2>1
<1>. DEFINE s == Append(Below(1), held[1])
<1>7. s \in Seq(Val(heap')) /\ Len(s) <= StackMax
  <2>1. s \in Seq(Val(heap')) /\ Len(s) = Len(Below(1)) + 1
    BY <1>4, <1>6, PushFacts
  <2>. QED  BY <1>5, <1>6, <2>1, HeapAssumption
<1>. HIDE DEF s
<1>8. HeldAfter(op', held', heap', taken')
  BY <1>1, <1>3, NothingHeld DEF KeepsHeld
<1>9. op' \in {"none", "concat", "slice", "split"} /\ op' # "concat" /\ op' # "slice" /\ op' # "split"
  BY <1>1
<1>10. WithStack(s)
  BY <1>1 DEF s
<1>. QED  BY <1>1, <1>2, <1>3, <1>7, <1>8, <1>9, <1>10, StackStep

-----------------------------------------------------------------------------
(* What the host does. *)

\* A heap without objects, with a string table that was just made.
LEMMA NewHeap ==
  ASSUME NEW h \in [Obj -> Cell], Live(h) = {}
  PROVE  HeapOK(h, InitStringTable)
<1>1. \A o \in Obj : h[o] = Free
  BY DEF Live
<1>2. Free.type = "free"
  BY DEF Free
<1>3. StringObjs(h) = {}
  BY <1>1, <1>2 DEF StringObjs
<1>4. \A o \in Obj : Refs(h, o) \subseteq Live(h)
  BY <1>1, <1>2 DEF Refs
<1>. QED  BY <1>3, <1>4, TableNew DEF HeapOK

\* A machine with the fields of one that was just made or closed.
LEMMA NewMachine ==
  ASSUME NEW h, NEW m, NEW b \in BOOLEAN, ~ b => m = Closed,
         NEW e, e = <<>>,
         m = [open |-> b, stack |-> e, frames |-> e, globals |-> e, thrown |-> Nil]
  PROVE  MachineOK(m, h)
<1>1. e \in Seq(Val(h)) /\ e \in Seq(Live(h)) /\ Len(e) = 0 /\ StackMax \in Nat
  BY EmptySeq, HeapAssumption
<1>2. Nil \in Val(h) /\ DOMAIN e = {}
  BY DEF Val
<1>3. /\ m.open = b /\ m.stack = e /\ m.frames = e /\ m.globals = e /\ m.thrown = Nil
      /\ m = [open |-> m.open, stack |-> m.stack, frames |-> m.frames, globals |-> m.globals,
              thrown |-> m.thrown]
  OBVIOUS
<1>4. Len(m.stack) <= StackMax
  BY <1>1, <1>3
<1>5. \A k \in DOMAIN m.globals : k \in StringObjs(h) /\ m.globals[k] \in Val(h)
  BY <1>2, <1>3
<1>. QED  BY <1>1, <1>2, <1>3, <1>4, <1>5 DEF MachineOK

LEMMA FreshMachine ==
  ASSUME NEW h
  PROVE  /\ MachineOK(Closed, h) /\ ~ Closed.open
         /\ MachineOK([Closed EXCEPT !.open = TRUE], h)
         /\ [Closed EXCEPT !.open = TRUE].open
<1>. DEFINE e == <<>>
            c == Closed
            no == FALSE
            yes == TRUE
            m == [Closed EXCEPT !.open = TRUE]
<1>1. c = [open |-> no, stack |-> e, frames |-> e, globals |-> e, thrown |-> Nil]
  BY DEF Closed
<1>2. m = [c EXCEPT !.open = yes]
  OBVIOUS
<1>3. e = <<>> /\ c = Closed /\ ~ no /\ yes /\ no \in BOOLEAN /\ yes \in BOOLEAN
  OBVIOUS
<1>. HIDE DEF e, c, m, no, yes
<1>4. m = [open |-> yes, stack |-> e, frames |-> e, globals |-> e, thrown |-> Nil]
  <2>1. [c EXCEPT !.open = yes] = [open |-> yes, stack |-> e, frames |-> e, globals |-> e,
                                   thrown |-> Nil]
    BY ONLY <1>1
  <2>. QED  BY <1>2, <2>1
<1>5. MachineOK(c, h) /\ MachineOK(m, h)
  BY <1>1, <1>3, <1>4, NewMachine
<1>6. c.open = no /\ m.open = yes
  BY <1>1, <1>4
<1>. QED  BY <1>3, <1>5, <1>6 DEF c, m

LEMMA OpenVMInv ==
  ASSUME Inv, OneMachine, NEW v \in VMs, OpenVM(v)
  PROVE  Sound'
<1>. DEFINE m == [Closed EXCEPT !.open = TRUE]
<1>1. /\ running = NoVM /\ op = "none" /\ ~ vms[v].open /\ vms' = [vms EXCEPT ![v] = m]
      /\ strings' = InitStringTable /\ heap' = heap /\ taken' = taken /\ running' = running
      /\ nq_gc_vm' = nq_gc_vm /\ op' = op /\ held' = held
  BY DEF OpenVM
<1>2. \A w \in VMs : ~ vms[w].open
  BY <1>1 DEF OneMachine
<1>3. Live(heap) = {} /\ heap \in [Obj -> Cell]
  BY <1>2 DEF Inv, HeapOK
<1>4. HeapOK(heap', strings') /\ Keeps(heap') /\ KeepsHeld(heap', taken')
  BY <1>1, <1>3, NewHeap, SameKeeps DEF Inv
<1>5. MachineOK(m, heap') /\ m.open
  BY FreshMachine
<1>. HIDE DEF m
<1>6. HeldAfter(op', held', heap', taken')
  BY <1>1, <1>4, NoneHeld DEF KeepsHeld
<1>7. ControlOK'
  BY <1>1 DEF Inv, ControlOK
<1>. QED  BY <1>1, <1>4, <1>5, <1>6, <1>7, MachineStep

LEMMA CloseVMInv ==
  ASSUME Inv, OneMachine, NEW v \in VMs, CloseVM(v)
  PROVE  Sound'
<1>1. /\ running = NoVM /\ op = "none" /\ vms' = [vms EXCEPT ![v] = Closed]
      /\ strings' = InitStringTable /\ heap' = [o \in Obj |-> Free] /\ running' = running
      /\ nq_gc_vm' = nq_gc_vm /\ op' = op /\ held' = held /\ taken' \in SUBSET Obj
  BY DEF CloseVM, Reachable
<1>2. heap' \in [Obj -> Cell] /\ Live(heap') = {}
  BY <1>1 DEF Cell, Live
<1>3. HeapOK(heap', strings')
  BY <1>1, <1>2, NewHeap
<1>4. MachineOK(Closed, heap') /\ ~ Closed.open
  BY FreshMachine
<1>5. vms' = [w \in VMs |-> Closed]
  <2>1. vms = [w \in VMs |-> vms[w]] /\ \A w \in VMs : w = v
    BY DEF Inv, OneMachine
  <2>. QED  BY <1>1, <2>1
<1>6. /\ vms' = [w \in VMs |-> vms'[w]]
      /\ \A w \in VMs : MachineOK(vms'[w], heap') /\ KeptOK(vms'[w], heap', taken')
  BY <1>4, <1>5, MachineKept
<1>7. HeldAfter(op', held', heap', taken')
  BY <1>1, NoneHeld
<1>8. ControlOK'
  BY <1>1 DEF Inv, ControlOK
<1>. QED  BY <1>2, <1>3, <1>6, <1>7, <1>8 DEF Sound

LEMMA HostCollectInv ==
  ASSUME Inv, OneMachine, NEW v \in VMs, HostCollect(v)
  PROVE  Sound'
<1>1. /\ running = NoVM /\ op = "none" /\ op' = op /\ held' = held /\ running' = running
      /\ nq_gc_vm' = nq_gc_vm /\ vms' = vms /\ Set(Collected(v)) /\ vms[v].open
  BY DEF HostCollect
<1>2. held = <<>>
  BY <1>1 DEF Inv, HeldOK
<1>. DEFINE m == Collected(v)
<1>3. HeapOK(m.heap, m.strings) /\ Keeps(m.heap) /\ m.taken \in SUBSET Obj
  BY <1>2, CollectKeeps
<1>4. HeapOK(heap', strings') /\ Keeps(heap') /\ taken' \in SUBSET Obj
  BY <1>1, <1>3 DEF Set
<1>5. HeldAfter(op', held', heap', taken')
  BY <1>1, <1>4, NoneHeld
<1>6. ControlOK' /\ \E w \in VMs : vms[w].open
  BY <1>1 DEF Inv, ControlOK
<1>. QED  BY <1>1, <1>4, <1>5, <1>6, KeepStep

LEMMA SetGlobalStringInv ==
  ASSUME Inv, OneMachine, SetGlobalString
  PROVE  Sound'
<1>1. /\ running = NoVM /\ op = "none" /\ running' = running /\ nq_gc_vm' = nq_gc_vm
      /\ vms' = vms /\ \E v \in VMs : vms[v].open
  BY DEF SetGlobalString
<1>2. PICK x \in Text : \E m \in Interned(x) : Set(m) /\ Hold("setglobal", <<m.obj>>)
  BY DEF SetGlobalString
<1>3. PICK m \in Interned(x) : Set(m) /\ Hold("setglobal", <<m.obj>>)
  BY <1>2
<1>4. HeapOK(m.heap, m.strings) /\ Keeps(m.heap) /\ KeepsHeld(m.heap, m.taken) /\ m.obj \in Live(m.heap)
  BY InternFacts
<1>5. HeapOK(heap', strings') /\ Keeps(heap') /\ KeepsHeld(heap', taken') /\ m.obj \in Val(heap')
  BY <1>3, <1>4 DEF Set, Val
<1>. DEFINE y == m.obj
<1>6. op' = "setglobal" /\ held' = <<y>> /\ y \in Val(heap')
  BY <1>3, <1>5 DEF Hold
<1>. HIDE DEF y
<1>7. HeldAfter(op', held', heap', taken')
  <2>1. <<y>> \in Seq(Val(heap')) /\ Len(<<y>>) = 1
    BY <1>6
  <2>. QED  BY <1>5, <1>6, <2>1, HeldSame DEF HeldOK, KeepsHeld
<1>8. ControlOK'
  BY <1>1, <1>6 DEF Inv, ControlOK
<1>. QED  BY <1>1, <1>5, <1>7, <1>8, KeepStep

LEMMA CompileFunctionInv ==
  ASSUME Inv, OneMachine, CompileFunction
  PROVE  Sound'
<1>1. /\ running = NoVM /\ running' = running /\ nq_gc_vm' = nq_gc_vm /\ vms' = vms
      /\ op' = "compile" /\ held' = Append(held, Fresh)
      /\ op = "compile" \/ (op = "none" /\ \E v \in VMs : vms[v].open)
  BY DEF CompileFunction, Hold
<1>2. PICK m \in Allocated(Function({})) : Set(m)
  BY DEF CompileFunction
<1>3. HeapOK(m.heap, m.strings) /\ Keeps(m.heap) /\ KeepsHeld(m.heap, m.taken) /\ Fresh \in Live(m.heap)
  <2>. DEFINE S == {}
  <2>1. S \in SUBSET Obj /\ (\A o \in S : \E v \in VMs : o \in Roots(v)) /\ m \in Allocated(Function(S))
    BY <1>2
  <2>. HIDE DEF S
  <2>. QED  BY <2>1, AllocFacts
<1>4. HeapOK(heap', strings') /\ Keeps(heap') /\ KeepsHeld(heap', taken') /\ Fresh \in Live(heap')
  BY <1>2, <1>3 DEF Set
<1>5. HeldAfter(op, held, heap', taken')
  BY <1>4, KeepHeld
<1>6. held \in Seq(Live(heap') \union taken')
  BY <1>1, <1>5, EmptySeq DEF HeldAfter
<1>7. HeldAfter(op', held', heap', taken')
  <2>. DEFINE y == Fresh
              S == Live(heap') \union taken'
              s == Append(held, y)
  <2>1. held \in Seq(S) /\ y \in S
    BY <1>4, <1>6
  <2>2. held' = s
    BY <1>1
  <2>. HIDE DEF y, S
  <2>3. s \in Seq(S) /\ s # <<>>
    BY ONLY <2>1, AppendProperties
  <2>. HIDE DEF s
  <2>4. s \in Seq(Val(heap') \union taken')
    <3>1. S \subseteq Val(heap') \union taken'
      BY DEF S, Val
    <3>. QED  BY <2>3, <3>1, SeqMonotonic
  <2>. QED  BY <1>1, <1>4, <2>2, <2>3, <2>4 DEF HeldAfter, KeepsHeld, S
<1>8. \E v \in VMs : vms[v].open
  BY <1>1 DEF Inv, ControlOK
<1>9. ControlOK'
  BY <1>1, <1>8 DEF Inv, ControlOK
<1>. QED  BY <1>1, <1>4, <1>7, <1>8, <1>9, KeepStep

LEMMA CompileConstantInv ==
  ASSUME Inv, OneMachine, CompileConstant
  PROVE  Sound'
<1>. DEFINE o == held[Len(held)]
<1>1. op = "compile" /\ op' = op /\ held' = held /\ running' = running /\ nq_gc_vm' = nq_gc_vm /\ vms' = vms
  BY DEF CompileConstant
<1>2. PICK x \in Text : \E m \in Interned(x) : heap' = Refer(m.heap, o, m.obj) /\ strings' = m.strings /\ taken' = m.taken
  BY DEF CompileConstant
<1>3. PICK m \in Interned(x) : heap' = Refer(m.heap, o, m.obj) /\ strings' = m.strings /\ taken' = m.taken
  BY <1>2
<1>4. HeapOK(m.heap, m.strings) /\ Keeps(m.heap) /\ KeepsHeld(m.heap, m.taken) /\ m.obj \in Val(m.heap)
  BY InternFacts DEF Val
<1>5. o \in Obj
  <2>1. held \in Seq(Live(heap)) /\ held # <<>>
    BY <1>1 DEF Inv, HeldOK
  <2>2. Len(held) \in 1 .. Len(held)
    BY <2>1, EmptySeq
  <2>3. o \in Live(heap)
    BY <2>1, <2>2, ElementOfSeq
  <2>. QED  BY <2>3 DEF Live
<1>. HIDE DEF o
<1>6. HeapOK(heap', strings') /\ Keeps(heap') /\ KeepsHeld(heap', taken')
  <2>. DEFINE h == m.heap
              t == m.strings
              y == m.obj
  <2>1. HeapOK(h, t) /\ Keeps(h) /\ KeepsHeld(h, m.taken) /\ o \in Obj /\ y \in Val(h)
    BY <1>4, <1>5
  <2>. HIDE DEF h, t, y
  <2>2. HeapOK(Refer(h, o, y), t) /\ Keeps(Refer(h, o, y)) /\ KeepsHeld(Refer(h, o, y), m.taken)
    BY <2>1, ReferKeeps
  <2>. QED  BY <1>3, <2>2 DEF h, t, y
<1>7. HeldAfter(op', held', heap', taken')
  BY <1>1, <1>6, KeepHeld
<1>8. ControlOK' /\ \E v \in VMs : vms[v].open
  BY <1>1 DEF Inv, ControlOK
<1>. QED  BY <1>1, <1>6, <1>7, <1>8, KeepStep

LEMMA EndCompilerCtxInv ==
  ASSUME Inv, EndCompilerCtx
  PROVE  Sound'
<1>. DEFINE n == Len(held)
            o == held[n - 1]
            x == held[n]
            s == SubSeq(held, 1, n - 1)
<1>1. /\ op = "compile" /\ op' = "compile" /\ held' = s /\ running' = running
      /\ nq_gc_vm' = nq_gc_vm /\ vms' = vms /\ n > 1
      /\ heap' = Refer(heap, o, x) /\ strings' = strings /\ taken' = taken
  BY DEF EndCompilerCtx, Hold
<1>2. held \in Seq(Live(heap)) /\ n \in Nat
  BY <1>1, LenProperties DEF Inv, HeldOK
<1>3. o \in Live(heap) /\ x \in Live(heap)
  <2>1. n - 1 \in 1 .. Len(held) /\ n \in 1 .. Len(held)
    BY <1>1, <1>2
  <2>. QED  BY <1>2, <2>1, ElementOfSeq
<1>4. s \in Seq(Live(heap)) /\ Len(s) = n - 1
  <2>. DEFINE l == n - 1
              S == Live(heap)
  <2>1. l \in 0 .. Len(held) /\ held \in Seq(S)
    BY <1>1, <1>2
  <2>. HIDE DEF l, S
  <2>2. SubSeq(held, 1, l) \in Seq(S) /\ Len(SubSeq(held, 1, l)) = l
    BY <2>1, FirstPart
  <2>. QED  BY <2>2 DEF l, S
<1>5. /\ o \in Obj /\ x \in Val(heap) /\ HeapOK(heap, strings) /\ Keeps(heap)
      /\ KeepsHeld(heap, taken)
  BY <1>3, SameKeeps DEF Inv, Live, Val
<1>6. HeapOK(heap', strings') /\ Keeps(heap') /\ KeepsHeld(heap', taken') /\ Live(heap') = Live(heap)
  <2>. HIDE DEF o, x
  <2>1. /\ HeapOK(Refer(heap, o, x), strings) /\ Keeps(Refer(heap, o, x))
        /\ KeepsHeld(Refer(heap, o, x), taken)
        /\ Live(Refer(heap, o, x)) = Live(heap)
    BY <1>5, ReferKeeps
  <2>. QED  BY <1>1, <2>1
<1>. HIDE DEF s, o, x
<1>7. HeldAfter(op', held', heap', taken')
  <2>1. s # <<>>
    BY <1>1, <1>2, <1>4, EmptySeq
  <2>2. s \in Seq(Live(heap'))
    BY <1>4, <1>6
  <2>3. s \in Seq(Val(heap'))
    <3>1. Live(heap') \subseteq Val(heap')
      BY DEF Val
    <3>. QED  BY <2>2, <3>1, SeqMonotonic
  <2>. QED  BY <1>1, <1>6, <2>1, <2>2, <2>3, HeldSame DEF HeldOK, KeepsHeld
<1>8. ControlOK' /\ \E v \in VMs : vms[v].open
  BY <1>1 DEF Inv, ControlOK
<1>. QED  BY <1>1, <1>6, <1>7, <1>8, KeepStep

LEMMA CompileErrorInv ==
  ASSUME Inv, CompileError
  PROVE  Sound'
<1>1. /\ op = "compile" /\ op' = "none" /\ held' = <<>> /\ running' = running
      /\ nq_gc_vm' = nq_gc_vm /\ vms' = vms /\ heap' = heap /\ strings' = strings /\ taken' = taken
  BY DEF CompileError, LetGo, Hold
<1>2. HeapOK(heap', strings') /\ Keeps(heap') /\ KeepsHeld(heap', taken')
  BY <1>1, SameKeeps DEF Inv
<1>3. HeldAfter(op', held', heap', taken')
  BY <1>1, <1>2, NothingHeld DEF KeepsHeld
<1>4. ControlOK' /\ \E v \in VMs : vms[v].open
  BY <1>1 DEF Inv, ControlOK
<1>. QED  BY <1>1, <1>2, <1>3, <1>4, KeepStep

\* A machine starts to run the script f.
Started(m, f) == [m EXCEPT !.stack = Append(@, f), !.frames = Append(@, f)]

LEMMA StartedFacts ==
  ASSUME NEW m, NEW h, MachineOK(m, h), m.open, Len(m.stack) < StackMax, NEW f \in Live(h)
  PROVE  /\ MachineOK(Started(m, f), h) /\ Started(m, f).open = m.open
         /\ Started(m, f).frames # <<>>
<1>. DEFINE a == m.open
            b == m.frames
            c == m.globals
            d == m.thrown
            e == m.stack
            e1 == Append(e, f)
            b1 == Append(b, f)
            m1 == [m EXCEPT !.stack = e1]
            r == Started(m, f)
<1>1. m = [open |-> a, stack |-> e, frames |-> b, globals |-> c, thrown |-> d]
  BY DEF MachineOK
<1>2. e1 \in Seq(Val(h)) /\ Len(e1) <= StackMax
  <2>1. e \in Seq(Val(h)) /\ f \in Val(h) /\ Len(e) < StackMax
    BY DEF MachineOK, Val
  <2>. HIDE DEF e
  <2>2. e1 \in Seq(Val(h)) /\ Len(e1) = Len(e) + 1 /\ Len(e) \in Nat
    BY <2>1, PushFacts
  <2>. QED  BY <2>1, <2>2, HeapAssumption
<1>3. b1 \in Seq(Live(h)) /\ b1 # <<>>
  <2>1. b \in Seq(Live(h))
    BY DEF MachineOK
  <2>. HIDE DEF b
  <2>. QED  BY <2>1, AppendProperties
<1>4. r = [m1 EXCEPT !.frames = b1]
  <2>1. m.stack = e /\ m1.frames = b
    OBVIOUS
  <2>2. r = [[m EXCEPT !.stack = Append(m.stack, f)] EXCEPT !.frames = Append(m1.frames, f)]
    BY DEF Started
  <2>. QED  BY <2>1, <2>2
<1>. HIDE DEF a, b, c, d, e, e1, b1
<1>5. m1 = [open |-> a, stack |-> e1, frames |-> b, globals |-> c, thrown |-> d]
  BY ONLY <1>1
<1>. HIDE DEF m1, r
<1>6. r = [open |-> a, stack |-> e1, frames |-> b1, globals |-> c, thrown |-> d]
  <2>1. [m1 EXCEPT !.frames = b1]
          = [open |-> a, stack |-> e1, frames |-> b1, globals |-> c, thrown |-> d]
    BY ONLY <1>5
  <2>. QED  BY <1>4, <2>1
<1>7. /\ r = [open |-> r.open, stack |-> r.stack, frames |-> r.frames, globals |-> r.globals,
              thrown |-> r.thrown]
      /\ r.open = m.open /\ r.stack = e1 /\ r.frames = b1
      /\ r.globals = m.globals /\ r.thrown = m.thrown
  BY <1>6 DEF a, c, d
<1>8. MachineOK(r, h)
  BY <1>2, <1>3, <1>7 DEF MachineOK, Val
<1>. QED  BY <1>3, <1>7, <1>8 DEF r

LEMMA RunVMInv ==
  ASSUME Inv, NEW v \in VMs, RunVM(v)
  PROVE  Sound'
<1>. DEFINE m == vms[v]
            f == held[1]
            r == Started(m, f)
<1>1. /\ op = "compile" /\ Len(held) = 1 /\ m.open /\ Len(m.stack) < StackMax
      /\ vms' = [vms EXCEPT ![v].stack = Append(@, f), ![v].frames = Append(@, f)]
      /\ running' = v /\ nq_gc_vm' = v /\ op' = "none" /\ held' = <<>>
      /\ heap' = heap /\ strings' = strings /\ taken' = taken
  BY DEF RunVM, LetGo, Hold
<1>2. HeapOK(heap', strings') /\ Keeps(heap') /\ KeepsHeld(heap', taken')
  BY <1>1, SameKeeps DEF Inv
<1>3. f \in Live(heap')
  <2>1. held \in Seq(Live(heap)) /\ Len(held) = 1
    BY <1>1 DEF Inv, HeldOK
  <2>2. 1 \in 1 .. Len(held)
    BY ONLY <2>1
  <2>. HIDE DEF f
  <2>3. held[1] \in Live(heap)
    BY <2>1, <2>2, ElementOfSeq
  <2>. QED  BY <1>1, <2>3 DEF f
<1>4. MachineOK(m, heap')
  BY <1>2, KeepMachine
<1>5. vms' = [vms EXCEPT ![v] = r]
  <2>. DEFINE w1 == [vms EXCEPT ![v].stack = Append(@, f)]
              m1 == [m EXCEPT !.stack = Append(@, f)]
              m2 == [m1 EXCEPT !.frames = Append(@, f)]
  <2>1. vms = [y \in VMs |-> vms[y]]
    BY DEF Inv
  <2>2. vms' = [w1 EXCEPT ![v] = [w1[v] EXCEPT !.frames = Append(@, f)]]
    BY <1>1
  <2>3. r = m2
    BY DEF Started
  <2>4. w1 = [vms EXCEPT ![v] = m1]
    OBVIOUS
  <2>5. w1[v] = m1
    <3>. HIDE DEF w1, m1
    <3>. QED  BY <2>1, <2>4
  <2>6. vms' = [w1 EXCEPT ![v] = m2]
    BY <2>2, <2>5
  <2>. HIDE DEF w1, m1, m2, r
  <2>. QED  BY <2>1, <2>3, <2>4, <2>6
<1>. HIDE DEF m, f
<1>6. MachineOK(r, heap') /\ r.open = m.open /\ r.frames # <<>>
  BY <1>1, <1>3, <1>4, StartedFacts
<1>. HIDE DEF r
<1>7. HeldAfter(op', held', heap', taken')
  BY <1>1, <1>2, NothingHeld DEF KeepsHeld
<1>8. ControlOK'
  <2>1. vms'[v] = r
    BY <1>5 DEF Inv
  <2>2. v # NoVM
    BY HeapAssumption
  <2>. QED  BY <1>1, <1>6, <2>1, <2>2 DEF ControlOK
<1>9. r.open
  BY <1>1, <1>6
<1>. QED  BY <1>2, <1>5, <1>6, <1>7, <1>8, <1>9, MachineStep

LEMMA SetGlobalRawInv ==
  ASSUME Inv, OneMachine, NEW v \in VMs, SetGlobalRaw(v)
  PROVE  Sound'
<1>. DEFINE m == vms[v]
            x == IF op = "none" THEN Nil ELSE held[1]
<1>1. /\ running = NoVM /\ op \in {"none", "setglobal"} /\ m.open /\ running' = running
      /\ nq_gc_vm' = nq_gc_vm /\ op' = "none" /\ held' = <<>>
  BY DEF SetGlobalRaw, LetGo, Hold
<1>2. PICK txt \in Text : \E i \in Interned(txt) :
        Set(i) /\ vms' = [vms EXCEPT ![v].globals = WithKey(@, i.obj, x)]
  BY DEF SetGlobalRaw
<1>3. PICK i \in Interned(txt) :
        Set(i) /\ vms' = [vms EXCEPT ![v].globals = WithKey(@, i.obj, x)]
  BY <1>2
<1>4. HeapOK(i.heap, i.strings) /\ Keeps(i.heap) /\ KeepsHeld(i.heap, i.taken) /\ i.obj \in Obj /\ Is(i.heap, i.obj, "string")
  BY InternFacts
<1>. DEFINE k == i.obj
<1>5. HeapOK(heap', strings') /\ Keeps(heap') /\ KeepsHeld(heap', taken') /\ k \in StringObjs(heap')
  BY <1>3, <1>4 DEF Set, Is, StringObjs
<1>6. x \in Val(heap') \union taken'
  <2>1. CASE op = "none"
    BY <2>1 DEF Val
  <2>2. CASE op = "setglobal"
    <3>1. HeldAfter(op, held, heap', taken')
      BY <1>5, KeepHeld
    <3>2. held \in Seq(Val(heap') \union taken') /\ Len(held) = 1
      BY <2>2, <3>1 DEF HeldAfter
    <3>3. held[1] \in Val(heap') \union taken'
      <4>1. 1 \in 1 .. Len(held)
        BY ONLY <3>2
      <4>. QED  BY <3>2, <4>1, ElementOfSeq
    <3>. QED  BY <2>2, <3>3
  <2>. QED  BY <1>1, <2>1, <2>2
<1>7. MachineOK(m, heap')
  BY <1>5, KeepMachine
<1>. DEFINE g == WithKey(m.globals, k, x)
            r == [m EXCEPT !.globals = g]
<1>8. vms' = [vms EXCEPT ![v] = r]
  BY <1>3
<1>. DEFINE a == m.open
            b == m.frames
            c == m.globals
            d == m.thrown
            e == m.stack
<1>9. m = [open |-> a, stack |-> e, frames |-> b, globals |-> c, thrown |-> d]
  BY <1>7 DEF MachineOK
<1>. HIDE DEF m, x, k, g, a, b, c, d, e
<1>10. r = [open |-> a, stack |-> e, frames |-> b, globals |-> g, thrown |-> d]
  BY ONLY <1>9
<1>. HIDE DEF r
<1>11. KeptOK(r, heap', taken') /\ (taken' = {} => MachineOK(r, heap')) /\ r.open = m.open
  <2>1. e \in Seq(Val(heap')) /\ Len(e) <= StackMax
    BY <1>7 DEF MachineOK, e
  <2>2. r = [open |-> m.open, stack |-> e, frames |-> m.frames,
             globals |-> WithKey(m.globals, k, x), thrown |-> m.thrown]
    BY <1>10 DEF a, b, d, g
  <2>3. taken' = {} => MachineOK(r, heap')
    <3>. SUFFICES ASSUME taken' = {} PROVE MachineOK(r, heap')
      OBVIOUS
    <3>1. x \in Val(heap')
      BY <1>6
    <3>. QED  BY <1>1, <1>5, <1>7, <2>1, <2>2, <3>1, GlobalFacts
  <2>4. KeptOK(r, heap', taken')
    <3>1. /\ r.stack = e /\ r.frames = m.frames /\ r.open = m.open
          /\ r.globals = WithKey(m.globals, k, x)
      BY <2>2
    <3>2. /\ m.frames \in Seq(Live(heap'))
          /\ \A j \in DOMAIN m.globals : j \in StringObjs(heap') /\ m.globals[j] \in Val(heap')
      BY <1>7 DEF MachineOK
    <3>3. \A j \in DOMAIN r.globals :
            j \in StringObjs(heap') /\ r.globals[j] \in Val(heap') \union taken'
      BY <1>5, <1>6, <3>1, <3>2 DEF WithKey
    <3>. QED  BY <2>1, <3>1, <3>2, <3>3 DEF KeptOK
  <2>5. r.open = m.open
    BY <2>2
  <2>. QED  BY <2>3, <2>4, <2>5
<1>12. HeldAfter(op', held', heap', taken')
  BY <1>1, <1>5, NothingHeld DEF KeepsHeld
<1>13. ControlOK'
  BY <1>1 DEF Inv, ControlOK
<1>14. r.open
  BY <1>1, <1>11
<1>. QED  BY <1>5, <1>8, <1>11, <1>12, <1>13, <1>14, GlobalStep

-----------------------------------------------------------------------------
(* The invariant holds. *)

LEMMA SoundInit ==
  ASSUME Init
  PROVE  Sound
<1>1. /\ heap = [o \in Obj |-> Free] /\ strings = InitStringTable
      /\ vms = [v \in VMs |-> Closed] /\ running = NoVM /\ nq_gc_vm = NoVM
      /\ op = "none" /\ held = <<>> /\ taken = {}
  BY DEF Init
<1>2. heap \in [Obj -> Cell] /\ Live(heap) = {}
  BY <1>1 DEF Cell, Live
<1>3. HeapOK(heap, strings)
  BY <1>1, <1>2, NewHeap
<1>4. /\ vms = [v \in VMs |-> vms[v]]
      /\ \A v \in VMs : MachineOK(vms[v], heap) /\ KeptOK(vms[v], heap, taken)
  BY <1>1, FreshMachine, MachineKept
<1>5. HeldAfter(op, held, heap, taken)
  BY <1>1, NothingHeld
<1>6. ControlOK
  BY <1>1 DEF ControlOK
<1>. QED  BY <1>2, <1>3, <1>4, <1>5, <1>6 DEF Sound

LEMMA InvMachine ==
  ASSUME Inv, OneMachine, Machine
  PROVE  Sound'
<1>1. CASE OpConst \/ OpPop \/ OpDefineGlobal \/ OpGetGlobal
  BY <1>1, OpConstInv, OpPopInv, OpDefineGlobalInv, OpGetGlobalInv
<1>2. CASE OpThrow \/ OpBuildArray \/ ArrayPush \/ ArrayRemove
  BY <1>2, OpThrowInv, OpBuildArrayInv, ArrayPushInv, ArrayRemoveInv
<1>3. CASE StringResult \/ GcCollect \/ OpHalt
  BY <1>3, StringResultInv, GcCollectInv, OpHaltInv
<1>4. CASE OpConcat \/ ValueToString \/ ConcatStrings
  BY <1>4, OpConcatInv, ValueToStringInv, ConcatStringsInv
<1>5. CASE OpSlice \/ SliceResult \/ SliceCopy
  BY <1>5, OpSliceInv, SliceResultInv, SliceCopyInv
<1>6. CASE Split \/ SplitPiece \/ SplitReturn
  BY <1>6, SplitInv, SplitPieceInv, SplitReturnInv
<1>. QED  BY <1>1, <1>2, <1>3, <1>4, <1>5, <1>6 DEF Machine

LEMMA InvProcess ==
  ASSUME Inv, OneMachine, Process
  PROVE  Sound'
<1>1. CASE CompileFunction \/ CompileConstant \/ EndCompilerCtx \/ CompileError
  BY <1>1, CompileFunctionInv, CompileConstantInv, EndCompilerCtxInv, CompileErrorInv
<1>2. CASE SetGlobalString
  BY <1>2, SetGlobalStringInv
<1>3. ASSUME NEW v \in VMs,
             OpenVM(v) \/ CloseVM(v) \/ HostCollect(v) \/ RunVM(v) \/ SetGlobalRaw(v)
      PROVE  Sound'
  <2>1. CASE OpenVM(v) \/ CloseVM(v) \/ HostCollect(v)
    BY <2>1, OpenVMInv, CloseVMInv, HostCollectInv
  <2>2. CASE RunVM(v) \/ SetGlobalRaw(v)
    BY <2>2, RunVMInv, SetGlobalRawInv
  <2>. QED  BY <1>3, <2>1, <2>2
<1>. QED  BY <1>1, <1>2, <1>3 DEF Process

LEMMA SoundStays ==
  ASSUME Sound, UNCHANGED vars
  PROVE  Sound'
<1>1. /\ heap' = heap /\ strings' = strings /\ vms' = vms /\ running' = running
      /\ nq_gc_vm' = nq_gc_vm /\ op' = op /\ held' = held /\ taken' = taken
  BY DEF vars
<1>. QED  BY <1>1 DEF Sound, ControlOK

LEMMA SoundNext ==
  ASSUME OneMachine, Sound, [Next]_vars
  PROVE  Sound'
<1>1. CASE Next
  BY <1>1, SoundInv, InvMachine, InvProcess DEF Next
<1>. QED  BY <1>1, SoundStays

-----------------------------------------------------------------------------
(* What the invariant means for the program. *)

LEMMA SoundType ==
  ASSUME Sound
  PROVE  TypeOK
<1>1. /\ HeapOK(heap, strings) /\ HeldAfter(op, held, heap, taken) /\ ControlOK
      /\ \A v \in VMs : KeptOK(vms[v], heap, taken)
  BY DEF Sound
<1>2. heap \in [Obj -> {Free} \union {String(x) : x \in Text}
                        \union {Array(S) : S \in SUBSET Obj}
                        \union {Function(S) : S \in SUBSET Obj}]
  BY <1>1 DEF HeapOK, Cell
<1>3. TableOK(strings, Texts(heap), StringObjs(heap))
  BY <1>1 DEF HeapOK
<1>4. strings.entries \in [Slots(strings.capacity) -> Obj \union {NoObj}]
  BY <1>3 DEF TableOK, Probed, Entries
<1>5. strings.count \in 0 .. (strings.capacity * 3) \div 4
  <2>1. strings.count \in Nat /\ strings.capacity \in Nat
    BY <1>3, TableFacts
  <2>2. strings.count <= (strings.capacity * 3) \div 4
    BY <1>3 DEF TableOK
  <2>. QED  BY <2>1, <2>2
<1>6. running \in VMs \union {NoVM} /\ nq_gc_vm \in VMs \union {NoVM}
  BY <1>1 DEF ControlOK
<1>7. op \in Holders \union {"none"} /\ taken \subseteq Obj
  BY <1>1 DEF HeldAfter, Holders
<1>8. held \in Seq(Obj \union {Nil})
  <2>1. held \in Seq(Val(heap) \union taken)
    BY <1>1 DEF HeldAfter
  <2>2. Val(heap) \union taken \subseteq Obj \union {Nil}
    BY <1>7 DEF Val, Live
  <2>. QED  BY <2>1, <2>2, SeqMonotonic
<1>9. \A v \in VMs : /\ Len(vms[v].stack) <= StackMax
                     /\ \A k \in DOMAIN vms[v].globals : Is(heap, k, "string")
  BY <1>1 DEF KeptOK, StringObjs, Is
<1>. QED  BY <1>2, <1>4, <1>5, <1>6, <1>7, <1>8, <1>9 DEF TypeOK

LEMMA SoundNothingLost ==
  ASSUME Sound
  PROVE  NothingLost
<1>. DEFINE S == Live(heap) \union taken
            Uses(v) == Range(vms[v].stack) \union Range(vms[v].frames) \union
                       DOMAIN vms[v].globals \union Range(vms[v].globals)
<1>1. \A o \in Val(heap) \union taken : o \in Obj => o \in S
  BY HeapAssumption DEF Val
<1>2. \A o \in Range(held) : o \in Obj => o \in S
  <2>1. held \in Seq(Val(heap) \union taken)
    BY DEF Sound, HeldAfter
  <2>2. \A i \in DOMAIN held : held[i] \in Val(heap) \union taken
    BY <2>1, ElementOfSeq, LenProperties
  <2>. QED  BY <1>1, <2>2 DEF Range
<1>3. ASSUME NEW v \in VMs, NEW o \in Uses(v), o \in Obj
      PROVE  o \in S
  <2>. DEFINE m == vms[v]
  <2>1. /\ m.stack \in Seq(Val(heap)) /\ m.frames \in Seq(Live(heap))
        /\ \A k \in DOMAIN m.globals : k \in StringObjs(heap) /\ m.globals[k] \in Val(heap) \union taken
    BY DEF Sound, KeptOK
  <2>2. heap \in [Obj -> Cell]
    BY DEF Sound, HeapOK
  <2>. HIDE DEF m
  <2>3. Range(m.stack) \subseteq Val(heap) /\ Range(m.frames) \subseteq Live(heap)
    <3>1. \A i \in DOMAIN m.stack : m.stack[i] \in Val(heap)
      BY <2>1, ElementOfSeq, LenProperties
    <3>2. \A i \in DOMAIN m.frames : m.frames[i] \in Live(heap)
      BY <2>1, ElementOfSeq, LenProperties
    <3>. QED  BY <3>1, <3>2 DEF Range
  <2>4. DOMAIN m.globals \subseteq Live(heap)
    BY <2>1, <2>2, HeapFacts DEF StringObjs
  <2>5. Range(m.globals) \subseteq Val(heap) \union taken
    BY <2>1 DEF Range
  <2>6. o \in Range(m.stack) \union Range(m.frames) \union DOMAIN m.globals \union Range(m.globals)
    BY <1>3 DEF m
  <2>. HIDE DEF S
  <2>7. o \in Val(heap) \union taken
    BY <2>3, <2>4, <2>5, <2>6 DEF Val
  <2>. QED  BY <1>1, <1>3, <2>7
<1>4. InUse = (Range(held) \union UNION {Uses(v) : v \in VMs}) \intersect Obj
  BY DEF InUse
<1>. HIDE DEF Uses
<1>5. InUse \subseteq S
  BY <1>2, <1>3, <1>4
<1>6. ClosedUnderRefs(S)
  <2>1. \A o \in Obj : Refs(heap, o) \subseteq Live(heap)
    BY DEF Sound, HeapOK
  <2>2. S \subseteq Obj
    BY DEF Sound, HeldAfter, Live
  <2>. QED  BY <2>1, <2>2 DEF ClosedUnderRefs
<1>7. S \in SUBSET (Live(heap) \union taken)
  OBVIOUS
<1>. QED  BY <1>5, <1>6, <1>7 DEF NothingLost

LEMMA SoundInterning ==
  ASSUME Sound
  PROVE  Interning
<1>. DEFINE t == strings
            text == Texts(heap)
            L == StringObjs(heap)
<1>1. TableOK(t, text, L)
  BY DEF Sound, HeapOK
<1>2. \A o \in L : text[o] \in Text
  BY <1>1, TableFacts
<1>3. t.capacity > 0 => NoObj \in Range(t.entries)
  <2>1. t.capacity > 0 => HasRoom(t.entries, t.capacity)
    BY <1>1, TableFacts
  <2>2. t.entries \in [Slots(t.capacity) -> Obj \union {NoObj}]
    BY <1>1 DEF TableOK, Probed, Entries
  <2>. QED  BY <2>1, <2>2 DEF HasRoom, Range
<1>4. ASSUME NEW o \in L
      PROVE  FindString(t, text[o], text) = o
  <2>. DEFINE x == text[o]
              f == FindString(t, x, text)
  <2>1. x \in Text
    BY <1>2
  <2>. HIDE DEF x
  <2>2. (f \in L /\ text[f] = x) \/ (f = NoObj /\ \A p \in L : text[p] # x)
    BY <1>1, <2>1, TableFind
  <2>3. text[o] = x
    BY DEF x
  <2>. HIDE DEF f
  <2>4. f \in L /\ text[f] = x
    BY <2>2, <2>3
  <2>5. f = o
    BY <1>1, <2>3, <2>4 DEF TableOK
  <2>. QED  BY <2>5 DEF f, x
<1>5. Strings(t) = L /\ t.count = Cardinality(L)
  BY <1>1 DEF TableOK, In, Strings
<1>6. {o \in Obj : Is(heap, o, "string")} = L
  BY DEF Is, StringObjs
<1>. HIDE DEF t, L
<1>. QED  BY <1>3, <1>4, <1>5, <1>6 DEF Interning, t

\* What a collection for a machine keeps, when no code holds objects.
LEMMA CollectedExactly ==
  ASSUME Inv, OneMachine, NEW v \in VMs, op = "none", Set(Collected(v))
  PROVE  Live(heap') = Reachable(Roots(v))
<1>1. held = <<>>
  BY DEF Inv, HeldOK
<1>2. Live(heap') = Marked(v)
  BY <1>1, CollectKeeps DEF Set
<1>3. \A o \in Obj : Refs(heap, o) \subseteq Obj
  BY DEF Inv, HeapOK, Live
<1>4. /\ Marked(v) \in SUBSET Obj
      /\ Roots(v) \subseteq Marked(v) /\ ClosedUnderRefs(Marked(v))
      /\ \A S : Roots(v) \subseteq S /\ ClosedUnderRefs(S) => Marked(v) \subseteq S
  BY <1>3, HeapAssumption, MarkedFacts
<1>. QED  BY <1>2, <1>4 DEF Reachable

(* A process with one machine, whose collector runs at any allocation: every
   address keeps an object of one of the types, and the string table stays
   loaded to at most three quarters. *)
THEOREM HeapType == OneMachine => (Spec => []TypeOK)
<1>. SUFFICES ASSUME OneMachine PROVE Spec => []TypeOK
  OBVIOUS
<1>1. Init => Sound
  BY SoundInit
<1>2. Sound /\ [Next]_vars => Sound'
  BY SoundNext
<1>3. Sound => TypeOK
  BY SoundType
<1>. QED  BY <1>1, <1>2, <1>3, PTL DEF Spec

(* Nothing is freed that the program can still reach but what a collection
   in the middle of an operation took from the C variables of that operation:
   all else that C variables, stacks, frames and globals refer to is live,
   and so is all that these objects refer to. *)
THEOREM NothingIsLost == OneMachine => (Spec => []NothingLost)
<1>. SUFFICES ASSUME OneMachine PROVE Spec => []NothingLost
  OBVIOUS
<1>1. Init => Sound
  BY SoundInit
<1>2. Sound /\ [Next]_vars => Sound'
  BY SoundNext
<1>3. Sound => NothingLost
  BY SoundNothingLost
<1>. QED  BY <1>1, <1>2, <1>3, PTL DEF Spec

(* Equal strings are one object, also after a collection that took what C
   variables held: the search of the table for the text of a live string
   ends, at that string, and the table holds the live strings and no other. *)
THEOREM StringsAreInterned == OneMachine => (Spec => []Interning)
<1>. SUFFICES ASSUME OneMachine PROVE Spec => []Interning
  OBVIOUS
<1>1. Init => Sound
  BY SoundInit
<1>2. Sound /\ [Next]_vars => Sound'
  BY SoundNext
<1>3. Sound => Interning
  BY SoundInterning
<1>. QED  BY <1>1, <1>2, <1>3, PTL DEF Spec

(* A collection that the script or the host asks for leaves what can be
   reached from the machine's roots, no less and no more. *)
THEOREM CollectionIsExact == OneMachine => (Spec => CollectsGarbage)
<1>. SUFFICES ASSUME OneMachine PROVE Spec => CollectsGarbage
  OBVIOUS
<1>1. Init => Sound
  BY SoundInit
<1>2. Sound /\ [Next]_vars => Sound'
  BY SoundNext
<1>3. ASSUME Sound, Next
      PROVE  \A v \in VMs :
               (GcCollect /\ v = running) \/ HostCollect(v) => Live(heap') = Reachable(Roots(v))
  <2>1. SUFFICES ASSUME NEW v \in VMs, (GcCollect /\ v = running) \/ HostCollect(v)
                 PROVE  Live(heap') = Reachable(Roots(v))
    OBVIOUS
  <2>2. Inv
    BY <1>3, SoundInv DEF Next
  <2>3. op = "none" /\ Set(Collected(v))
    BY <2>1 DEF GcCollect, Executes, HostCollect
  <2>. QED  BY <2>2, <2>3, CollectedExactly
<1>4. Sound /\ [Next]_vars =>
        [\A v \in VMs :
           (GcCollect /\ v = running) \/ HostCollect(v) => Live(heap') = Reachable(Roots(v))]_vars
  BY <1>3
<1>. QED  BY <1>1, <1>2, <1>4, PTL DEF Spec, CollectsGarbage
=============================================================================
