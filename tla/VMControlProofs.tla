--------------------------- MODULE VMControlProofs ---------------------------
(***************************************************************************)
(* Theorems about VMControl, for any limits, functions and hosts: one of   *)
(* every program, LimitsKept, the others of programs that leave no try     *)
(* body by a jump or a return.                                             *)
(***************************************************************************)
EXTENDS VMControl, SequencesExt, WellFoundedInduction, SequenceTheorems, FiniteSetTheorems, TLAPS

-----------------------------------------------------------------------------
(* Facts about naturals and sequences. *)

(* Every non-empty set of natural numbers has a least element: what makes
   the first empty slot of a probe sequence, or the innermost of several
   handlers, well defined. *)
LEMMA LeastElement ==
  ASSUME NEW S \in SUBSET Nat, S # {}
  PROVE  \E k \in S : \A n \in S : k <= n
<1>. DEFINE R == {p \in Nat \X Nat : p[1] < p[2]}
<1>1. IsWellFoundedOn(R, Nat)
  BY NatLessThanWellFounded DEF OpToRel
<1>2. PICK k \in S : \A n \in S : ~ (<<n, k>> \in R)
  <2>. HIDE DEF R
  <2>. QED  BY <1>1, WFMin
<1>3. ASSUME NEW n \in S PROVE k <= n
  <2>1. <<n, k>> \notin R
    BY <1>2
  <2>2. k \in Nat /\ n \in Nat
    OBVIOUS
  <2>3. ~ (n < k)
    BY <2>1, <2>2
  <2>. QED  BY <2>2, <2>3
<1>. QED  BY <1>3

(* A set of natural numbers that holds 0 and is closed under successor holds
   them all. *)
LEMMA SetInduction ==
  ASSUME NEW S \in SUBSET Nat, 0 \in S, \A n \in S : n + 1 \in S
  PROVE  S = Nat
<1>. SUFFICES ASSUME Nat \ S # {} PROVE FALSE
  OBVIOUS
<1>1. PICK k \in Nat \ S : \A n \in Nat \ S : k <= n
  <2>1. Nat \ S \in SUBSET Nat
    OBVIOUS
  <2>. QED  BY <2>1, LeastElement
<1>2. k # 0 /\ k - 1 \in Nat
  OBVIOUS
<1>3. k - 1 \in S
  BY <1>1, <1>2
<1>. QED  BY <1>2, <1>3

(* The same up to a bound. *)
LEMMA BoundedInduction ==
  ASSUME NEW N \in Nat, NEW S \in SUBSET (0 .. N), 0 \in S,
         \A n \in S : n < N => n + 1 \in S
  PROVE  S = 0 .. N
<1>. DEFINE T == S \union {n \in Nat : n > N}
<1>1. \A n \in S : n \in Nat /\ n <= N
  OBVIOUS
<1>2. 0 \in T
  OBVIOUS
<1>3. \A n \in T : n + 1 \in T
  BY <1>1
<1>4. T = Nat
  <2>1. T \in SUBSET Nat
    BY <1>1
  <2>. HIDE DEF T
  <2>. QED  BY <1>2, <1>3, <2>1, SetInduction
<1>5. \A n \in 0 .. N : n \in S
  <2>. TAKE n \in 0 .. N
  <2>1. n \in T
    <3>. HIDE DEF T
    <3>. QED  BY <1>4
  <2>. QED  BY <2>1
<1>. QED  BY <1>5

LEMMA FrontFacts ==
  ASSUME NEW S, NEW s \in Seq(S), s # <<>>
  PROVE  /\ Len(s) \in Nat \ {0}
         /\ Front(s) \in Seq(S) /\ Len(Front(s)) = Len(s) - 1
         /\ \A i \in 1..Len(s) - 1 : Front(s)[i] = s[i]
         /\ Last(s) = s[Len(s)] /\ Last(s) \in S
<1>1. Len(s) \in Nat \ {0} /\ \A i \in 1..Len(s) : s[i] \in S
  BY EmptySeq, LenProperties, ElementOfSeq
<1>2. \A i \in 1..Len(s) - 1 : s[i] \in S
  BY <1>1
<1>3. /\ SubSeq(s, 1, Len(s) - 1) \in Seq(S)
      /\ Len(SubSeq(s, 1, Len(s) - 1)) = Len(s) - 1
      /\ \A i \in 1..Len(s) - 1 : SubSeq(s, 1, Len(s) - 1)[i] = s[i]
  <2>. DEFINE n == Len(s) - 1
  <2>1. n \in Nat /\ 1 \in Int /\ \A i \in 1..n : s[i] \in S
    BY <1>1, <1>2
  <2>. HIDE DEF n
  <2>2. /\ SubSeq(s, 1, n) \in Seq(S)
        /\ Len(SubSeq(s, 1, n)) = IF 1 <= n THEN n - 1 + 1 ELSE 0
        /\ \A i \in 1..n - 1 + 1 : SubSeq(s, 1, n)[i] = s[1 + i - 1]
    BY <2>1, SubSeqProperties
  <2>3. Len(SubSeq(s, 1, n)) = n /\ \A i \in 1..n : SubSeq(s, 1, n)[i] = s[i]
    BY <2>1, <2>2
  <2>. QED  BY <2>2, <2>3 DEF n
<1>. QED  BY <1>1, <1>3 DEF Front, Last

LEMMA AppendFacts ==
  ASSUME NEW S, NEW s \in Seq(S), NEW e \in S
  PROVE  /\ Append(s, e) \in Seq(S) /\ Len(Append(s, e)) = Len(s) + 1 /\ Len(s) \in Nat
         /\ \A i \in 1..Len(s) : Append(s, e)[i] = s[i]
         /\ Append(s, e)[Len(s) + 1] = e
  BY AppendProperties, LenProperties

LEMMA FirstPart ==
  ASSUME NEW S, NEW s \in Seq(S), NEW l \in 0..Len(s)
  PROVE  /\ SubSeq(s, 1, l) \in Seq(S) /\ Len(SubSeq(s, 1, l)) = l
         /\ \A i \in 1..l : SubSeq(s, 1, l)[i] = s[i]
<1>1. \A i \in 1..l : s[i] \in S
  BY LenProperties, ElementOfSeq
<1>2. 1 \in Int /\ l \in Int /\ l \in Nat
  BY LenProperties
<1>3. /\ SubSeq(s, 1, l) \in Seq(S)
      /\ Len(SubSeq(s, 1, l)) = IF 1 <= l THEN l - 1 + 1 ELSE 0
      /\ \A i \in 1..l - 1 + 1 : SubSeq(s, 1, l)[i] = s[1 + i - 1]
  BY <1>1, <1>2, SubSeqProperties
<1>. QED  BY <1>2, <1>3

-----------------------------------------------------------------------------
(* The inductive invariant. *)

Place == [code : Function, open : Seq(1..HeightMax), height : 1..HeightMax,
          stage : {"code", "halted", "failed"}]

FrameType == [function : Function, slots : 0..StackMax, ip : Place]

HandlerType == [catch_ip : Place, stack_top : 0..StackMax + HeightMax, frame_count : 1..FramesMax]

Machine == [frames      : [1..FramesMax -> FrameType],
            frame_count : 0..FramesMax,
            stack_top   : Int,
            try_stack   : Seq(HandlerType),
            thrown      : BOOLEAN]

HandlerIn(m, i, k) ==
  LET f == m.frames[i]
  IN  [catch_ip    |-> At(f.function, SubSeq(f.ip.open, 1, k - 1), f.ip.open[k] + 1),
       stack_top   |-> f.slots + f.ip.open[k],
       frame_count |-> i]

\* below[i] handlers are of frames below frame i.
MirrorBy(m, below) ==
  /\ below \in [1..m.frame_count + 1 -> 0..Len(m.try_stack)]
  /\ below[1] = 0
  /\ below[m.frame_count + 1] = Len(m.try_stack)
  /\ \A i \in 1..m.frame_count :
       /\ below[i + 1] = below[i] + Len(m.frames[i].ip.open)
       /\ \A k \in 1..Len(m.frames[i].ip.open) :
            m.try_stack[below[i] + k] = HandlerIn(m, i, k)

Mirror(m) == \E below : MirrorBy(m, below)

\* A frame's slots start at the callee, which its caller has counted.
Callers(m) ==
  \A i \in 1..m.frame_count - 1 :
    m.frames[i].ip.stage = "code" =>
      m.frames[i + 1].slots = m.frames[i].slots + m.frames[i].ip.height - 1

Scripts(m) ==
  /\ m.frame_count > 0 => m.frames[1].function = Script
  /\ \A i \in 1..m.frame_count : m.frames[i].ip.stage = "halted" => m.frames[i].ip.open = <<>>

Good(m) == /\ m \in Machine
           /\ Len(m.try_stack) <= TryMax
           /\ Mirror(m) /\ Callers(m) /\ Scripts(m)

\* The stack is as the compiler counted.
Fits(m) ==
  /\ m.frame_count > 0
  /\ m.stack_top >= 1
  /\ m.frames[m.frame_count].ip.stage = "code" =>
       m.stack_top = m.frames[m.frame_count].slots + m.frames[m.frame_count].ip.height

\* No code is in progress.
AtRest(m) == m.frame_count > 0 => m.frames[m.frame_count].ip.stage # "code"

Inv ==
  /\ Good(vm)
  /\ vm.stack_top \in 0..StackMax + HeightMax
  /\ result \in {"ok", "running", "uncaught", "refused", "exit"}
  /\ result = "running" => Fits(vm)
  /\ result \in {"ok", "uncaught", "refused"} => AtRest(vm)

-----------------------------------------------------------------------------
(* Sequences and machines. *)

LEMMA Limits ==
  /\ FramesMax \in Nat \ {0} /\ StackMax \in Nat \ {0}
  /\ TryMax \in Nat \ {0} /\ HeightMax \in Nat \ {0}
  BY ControlAssumption

LEMMA PlaceFacts ==
  ASSUME NEW ip \in Place
  PROVE  /\ \A h \in 1..HeightMax : [ip EXCEPT !.height = h] \in Place
         /\ \A h : /\ [ip EXCEPT !.height = h].open = ip.open
                   /\ [ip EXCEPT !.height = h].height = h
                   /\ [ip EXCEPT !.height = h].stage = ip.stage
                   /\ [ip EXCEPT !.height = h].code = ip.code
         /\ \A t \in {"code", "halted", "failed"} : [ip EXCEPT !.stage = t] \in Place
         /\ \A t : /\ [ip EXCEPT !.stage = t].open = ip.open
                   /\ [ip EXCEPT !.stage = t].height = ip.height
                   /\ [ip EXCEPT !.stage = t].stage = t
                   /\ [ip EXCEPT !.stage = t].code = ip.code
         /\ \A o \in Seq(1..HeightMax) : [ip EXCEPT !.open = o] \in Place
         /\ \A o : /\ [ip EXCEPT !.open = o].open = o
                   /\ [ip EXCEPT !.open = o].height = ip.height
                   /\ [ip EXCEPT !.open = o].stage = ip.stage
                   /\ [ip EXCEPT !.open = o].code = ip.code
  BY DEF Place

LEMMA WithIpFacts ==
  ASSUME NEW m \in Machine, m.frame_count > 0, NEW ip \in Place
  PROVE  LET n == WithIp(m, ip) IN
         /\ n \in Machine
         /\ n.frame_count = m.frame_count /\ n.stack_top = m.stack_top
         /\ n.try_stack = m.try_stack /\ n.thrown = m.thrown
         /\ \A i \in 1..FramesMax : i # m.frame_count => n.frames[i] = m.frames[i]
         /\ n.frames[m.frame_count] = [m.frames[m.frame_count] EXCEPT !.ip = ip]
         /\ n.frames[m.frame_count].ip = ip
         /\ n.frames[m.frame_count].slots = m.frames[m.frame_count].slots
         /\ n.frames[m.frame_count].function = m.frames[m.frame_count].function
<1>. DEFINE n == WithIp(m, ip)
            f == m.frames[m.frame_count]
<1>1. m.frame_count \in 1..FramesMax /\ f \in FrameType
  BY ControlAssumption DEF Machine
<1>2. [f EXCEPT !.ip = ip] \in FrameType
  BY <1>1 DEF FrameType
<1>3. n = [m EXCEPT !.frames = [@ EXCEPT ![m.frame_count] = [f EXCEPT !.ip = ip]]]
  BY <1>1 DEF WithIp
<1>4. n.frames = [m.frames EXCEPT ![m.frame_count] = [f EXCEPT !.ip = ip]]
  BY <1>3 DEF Machine
<1>5. n.frames \in [1..FramesMax -> FrameType]
  BY <1>1, <1>2, <1>4 DEF Machine
<1>6. /\ n.frame_count = m.frame_count /\ n.stack_top = m.stack_top
      /\ n.try_stack = m.try_stack /\ n.thrown = m.thrown
  BY <1>3 DEF Machine
<1>7. n \in Machine
  BY <1>3, <1>5 DEF Machine
<1>8. /\ n.frames[m.frame_count] = [f EXCEPT !.ip = ip]
      /\ \A i \in 1..FramesMax : i # m.frame_count => n.frames[i] = m.frames[i]
  BY <1>1, <1>4 DEF Machine
<1>9. /\ [f EXCEPT !.ip = ip].ip = ip /\ [f EXCEPT !.ip = ip].slots = f.slots
      /\ [f EXCEPT !.ip = ip].function = f.function
  BY <1>1 DEF FrameType
<1>. QED  BY <1>6, <1>7, <1>8, <1>9

(***************************************************************************)
(* The top frame goes on in the same try bodies.                           *)
(***************************************************************************)
SameTrys(m, n) ==
  /\ n.frame_count = m.frame_count
  /\ n.try_stack = m.try_stack
  /\ \A i \in 1..m.frame_count :
       /\ n.frames[i].function = m.frames[i].function
       /\ n.frames[i].slots = m.frames[i].slots
       /\ n.frames[i].ip.open = m.frames[i].ip.open
       /\ i < m.frame_count => n.frames[i].ip = m.frames[i].ip

LEMMA GoodSame ==
  ASSUME NEW m, NEW n \in Machine, Good(m), SameTrys(m, n),
         n.frame_count > 0 /\ n.frames[n.frame_count].ip.stage = "halted" =>
           n.frames[n.frame_count].ip.open = <<>>
  PROVE  Good(n)
<1>1. m \in Machine /\ m.frame_count \in 0..FramesMax
  BY DEF Good, Machine
<1>2. Mirror(n)
  <2>1. PICK below : MirrorBy(m, below)
    BY DEF Good, Mirror
  <2>2. \A i \in 1..m.frame_count : \A k : HandlerIn(n, i, k) = HandlerIn(m, i, k)
    BY DEF SameTrys, HandlerIn
  <2>3. /\ n.frame_count = m.frame_count /\ n.try_stack = m.try_stack
        /\ \A i \in 1..m.frame_count : n.frames[i].ip.open = m.frames[i].ip.open
    BY DEF SameTrys
  <2>4. \A i \in 1..n.frame_count :
          /\ below[i + 1] = below[i] + Len(n.frames[i].ip.open)
          /\ \A k \in 1..Len(n.frames[i].ip.open) : n.try_stack[below[i] + k] = HandlerIn(n, i, k)
    <3>1. TAKE i \in 1..n.frame_count
    <3>2. n.frames[i].ip.open = m.frames[i].ip.open
      BY <2>3
    <3>. QED  BY <2>1, <2>2, <2>3, <3>2 DEF MirrorBy
  <2>5. MirrorBy(n, below)
    BY <2>1, <2>3, <2>4 DEF MirrorBy
  <2>. QED  BY <2>5 DEF Mirror
<1>3. Callers(n)
  BY <1>1 DEF Good, Callers, SameTrys
<1>4. Scripts(n)
  <2>1. n.frame_count > 0 => n.frames[1].function = Script
    BY <1>1 DEF Good, Scripts, SameTrys
  <2>2. ASSUME NEW i \in 1..n.frame_count, n.frames[i].ip.stage = "halted"
        PROVE  n.frames[i].ip.open = <<>>
    <3>1. CASE i = m.frame_count
      BY <1>1, <2>2, <3>1 DEF SameTrys
    <3>2. CASE i # m.frame_count
      <4>1. i \in 1..m.frame_count /\ i < m.frame_count
        BY <1>1, <3>2 DEF SameTrys
      <4>2. n.frames[i].ip = m.frames[i].ip
        BY <4>1 DEF SameTrys
      <4>. QED  BY <2>2, <4>1, <4>2 DEF Good, Scripts
    <3>. QED  BY <3>1, <3>2
  <2>. QED  BY <2>1, <2>2 DEF Scripts
<1>. QED  BY <1>2, <1>3, <1>4 DEF Good, SameTrys

LEMMA PrefixFacts ==
  ASSUME NEW S, NEW s \in Seq(S), NEW t \in Seq(S), NEW n \in 0..Len(s), n <= Len(t),
         \A i \in 1..n : s[i] = t[i]
  PROVE  SubSeq(s, 1, n) = SubSeq(t, 1, n)
<1>1. Len(s) \in Nat /\ Len(t) \in Nat
  BY LenProperties
<1>2. \A i \in 1..n : s[i] \in S /\ t[i] \in S
  BY <1>1, ElementOfSeq
<1>3. /\ SubSeq(s, 1, n) \in Seq(S) /\ Len(SubSeq(s, 1, n)) = n
      /\ \A i \in 1..n : SubSeq(s, 1, n)[i] = s[i]
  BY <1>1, <1>2, SubSeqProperties
<1>4. /\ SubSeq(t, 1, n) \in Seq(S) /\ Len(SubSeq(t, 1, n)) = n
      /\ \A i \in 1..n : SubSeq(t, 1, n)[i] = t[i]
  BY <1>1, <1>2, SubSeqProperties
<1>. QED  BY <1>3, <1>4, SeqEqual

LEMMA OpenFacts ==
  ASSUME NEW m \in Machine, NEW i \in 1..m.frame_count
  PROVE  /\ m.frame_count \in 1..FramesMax /\ i \in 1..FramesMax
         /\ m.frames[i] \in FrameType /\ m.frames[i].ip \in Place
         /\ m.frames[i].ip.open \in Seq(1..HeightMax)
         /\ Len(m.frames[i].ip.open) \in Nat
         /\ m.try_stack \in Seq(HandlerType) /\ Len(m.try_stack) \in Nat
<1>1. m.frame_count \in 0..FramesMax /\ FramesMax \in Nat
  BY ControlAssumption DEF Machine
<1>2. m.frames[i] \in FrameType /\ i \in 1..FramesMax /\ m.frame_count \in 1..FramesMax
  BY <1>1 DEF Machine
<1>3. m.frames[i].ip \in Place /\ m.frames[i].ip.open \in Seq(1..HeightMax)
  BY <1>2 DEF FrameType, Place
<1>4. m.try_stack \in Seq(HandlerType)
  BY DEF Machine
<1>. QED  BY <1>2, <1>3, <1>4, LenProperties

(***************************************************************************)
(* A run that starts afresh.                                               *)
(***************************************************************************)
LEMMA GoodReset ==
  ASSUME NEW n \in Machine, n.frame_count = 0, n.try_stack = <<>>
  PROVE  Good(n)
<1>. DEFINE below == [j \in 1..1 |-> 0]
<1>1. Len(n.try_stack) = 0
  BY EmptySeq
<1>2. MirrorBy(n, below)
  BY <1>1 DEF MirrorBy
<1>. QED  BY <1>1, <1>2, ControlAssumption DEF Good, Mirror, Callers, Scripts

(***************************************************************************)
(* One more frame, in no try body, on top of one that stays as it is.      *)
(***************************************************************************)
LEMMA GoodCall ==
  ASSUME NEW m, NEW n \in Machine, Good(m),
         n.frame_count = m.frame_count + 1, n.try_stack = m.try_stack,
         \A i \in 1..m.frame_count :
           /\ n.frames[i].function = m.frames[i].function
           /\ n.frames[i].slots = m.frames[i].slots
           /\ n.frames[i].ip.open = m.frames[i].ip.open
           /\ n.frames[i].ip.stage = m.frames[i].ip.stage
           /\ i < m.frame_count => n.frames[i].ip = m.frames[i].ip,
         n.frames[n.frame_count].ip.open = <<>>,
         m.frame_count = 0 => n.frames[1].function = Script,
         m.frame_count > 0 /\ n.frames[m.frame_count].ip.stage = "code" =>
           n.frames[n.frame_count].slots =
             n.frames[m.frame_count].slots + n.frames[m.frame_count].ip.height - 1
  PROVE  Good(n)
<1>. DEFINE c == m.frame_count
            L == Len(m.try_stack)
<1>1. m \in Machine /\ c \in 0..FramesMax /\ n.frame_count = c + 1 /\ FramesMax \in Nat
  BY ControlAssumption DEF Good, Machine
<1>2. L \in Nat /\ L <= TryMax
  BY LenProperties DEF Good, Machine
<1>3. Mirror(n)
  <2>1. PICK below : MirrorBy(m, below)
    BY DEF Good, Mirror
  <2>2. /\ \A j \in 1..c + 1 : below[j] \in 0..L
        /\ below[1] = 0 /\ below[c + 1] = L
    BY <1>1, <2>1 DEF MirrorBy
  <2>3. \A i \in 1..c : below[i + 1] = below[i] + Len(m.frames[i].ip.open)
    BY <2>1 DEF MirrorBy
  <2>4. \A i \in 1..c : \A k \in 1..Len(m.frames[i].ip.open) :
          m.try_stack[below[i] + k] = HandlerIn(m, i, k)
    BY <2>1 DEF MirrorBy
  <2>. DEFINE more == [j \in 1..c + 2 |-> IF j = c + 2 THEN L ELSE below[j]]
  <2>5. /\ \A j \in 1..c + 1 : more[j] = below[j]
        /\ more[c + 2] = L /\ more \in [1..c + 2 -> 0..L]
    BY <1>1, <1>2, <2>2
  <2>. HIDE DEF more
  <2>6. \A i \in 1..n.frame_count :
          /\ more[i + 1] = more[i] + Len(n.frames[i].ip.open)
          /\ \A k \in 1..Len(n.frames[i].ip.open) :
               n.try_stack[more[i] + k] = HandlerIn(n, i, k)
    <3>. TAKE i \in 1..n.frame_count
    <3>1. CASE i = c + 1
      <4>1. n.frames[i].ip.open = <<>> /\ Len(<<>>) = 0
        BY <1>1, <3>1, EmptySeq
      <4>2. more[i] = L /\ more[i + 1] = L
        BY <1>1, <2>2, <2>5, <3>1
      <4>. QED  BY <1>2, <4>1, <4>2
    <3>2. CASE i # c + 1
      <4>1. i \in 1..c /\ i \in 1..c + 1 /\ i + 1 \in 1..c + 1
        BY <1>1, <3>2
      <4>2. more[i] = below[i] /\ more[i + 1] = below[i + 1]
        BY <2>5, <4>1
      <4>3. \A k : HandlerIn(n, i, k) = HandlerIn(m, i, k)
        BY <4>1 DEF HandlerIn
      <4>4. n.frames[i].ip.open = m.frames[i].ip.open
        BY <4>1
      <4>. QED  BY <2>3, <2>4, <4>1, <4>2, <4>3, <4>4
    <3>. QED  BY <3>1, <3>2
  <2>7. n.frame_count + 1 = c + 2 /\ more[1] = 0
    BY <1>1, <2>2, <2>5
  <2>8. MirrorBy(n, more)
    BY <2>5, <2>6, <2>7 DEF MirrorBy
  <2>. QED  BY <2>8 DEF Mirror
<1>4. Callers(n)
  <2>. SUFFICES ASSUME NEW i \in 1..n.frame_count - 1, n.frames[i].ip.stage = "code"
                PROVE  n.frames[i + 1].slots = n.frames[i].slots + n.frames[i].ip.height - 1
    BY DEF Callers
  <2>1. CASE i = c
    BY <1>1, <2>1
  <2>2. CASE i # c
    <3>1. i \in 1..c - 1 /\ i \in 1..c /\ i + 1 \in 1..c
      BY <1>1, <2>2
    <3>2. /\ n.frames[i].ip = m.frames[i].ip /\ n.frames[i].slots = m.frames[i].slots
          /\ n.frames[i + 1].slots = m.frames[i + 1].slots
      BY <1>1, <3>1
    <3>. QED  BY <3>1, <3>2 DEF Good, Callers
  <2>. QED  BY <2>1, <2>2
<1>5. Scripts(n)
  <2>1. n.frames[1].function = Script
    <3>1. CASE c = 0
      BY <3>1
    <3>2. CASE c # 0
      BY <1>1, <3>2 DEF Good, Scripts
    <3>. QED  BY <3>1, <3>2
  <2>2. ASSUME NEW i \in 1..n.frame_count, n.frames[i].ip.stage = "halted"
        PROVE  n.frames[i].ip.open = <<>>
    <3>1. CASE i = c + 1
      BY <1>1, <3>1
    <3>2. CASE i # c + 1
      <4>1. i \in 1..c
        BY <1>1, <3>2
      <4>. QED  BY <2>2, <4>1 DEF Good, Scripts
    <3>. QED  BY <3>1, <3>2
  <2>. QED  BY <2>1, <2>2 DEF Scripts
<1>. QED  BY <1>2, <1>3, <1>4, <1>5 DEF Good

(***************************************************************************)
(* The top frame, in no try body, goes.                                    *)
(***************************************************************************)
LEMMA GoodReturn ==
  ASSUME NEW m, NEW n \in Machine, Good(m), m.frame_count > 0,
         n.frame_count = m.frame_count - 1, n.try_stack = m.try_stack,
         n.frames = m.frames, m.frames[m.frame_count].ip.open = <<>>
  PROVE  Good(n)
<1>. DEFINE c == m.frame_count
            L == Len(m.try_stack)
<1>1. m \in Machine /\ c \in 1..FramesMax /\ n.frame_count = c - 1 /\ FramesMax \in Nat
  BY ControlAssumption DEF Good, Machine
<1>2. L \in Nat /\ L <= TryMax
  BY LenProperties DEF Good, Machine
<1>3. Mirror(n)
  <2>1. PICK below : MirrorBy(m, below)
    BY DEF Good, Mirror
  <2>2. /\ \A j \in 1..c + 1 : below[j] \in 0..L
        /\ below[1] = 0 /\ below[c + 1] = L
    BY <1>1, <2>1 DEF MirrorBy
  <2>3. \A i \in 1..c : below[i + 1] = below[i] + Len(m.frames[i].ip.open)
    BY <2>1 DEF MirrorBy
  <2>4. \A i \in 1..c : \A k \in 1..Len(m.frames[i].ip.open) :
          m.try_stack[below[i] + k] = HandlerIn(m, i, k)
    BY <2>1 DEF MirrorBy
  <2>5. below[c] = L
    <3>1. Len(m.frames[c].ip.open) = 0
      BY EmptySeq
    <3>2. c \in 1..c /\ c \in 1..c + 1
      BY <1>1
    <3>3. below[c + 1] = below[c] + 0 /\ below[c] \in 0..L /\ below[c + 1] = L
      BY <2>2, <2>3, <3>1, <3>2
    <3>. QED  BY <1>2, <3>3
  <2>. DEFINE less == [j \in 1..c |-> below[j]]
  <2>6. /\ \A j \in 1..c : less[j] = below[j]
        /\ less \in [1..c -> 0..L]
    BY <1>1, <2>2
  <2>. HIDE DEF less
  <2>7. \A i \in 1..n.frame_count :
          /\ less[i + 1] = less[i] + Len(n.frames[i].ip.open)
          /\ \A k \in 1..Len(n.frames[i].ip.open) :
               n.try_stack[less[i] + k] = HandlerIn(n, i, k)
    <3>. TAKE i \in 1..n.frame_count
    <3>1. i \in 1..c /\ i + 1 \in 1..c
      BY <1>1
    <3>2. \A k : HandlerIn(n, i, k) = HandlerIn(m, i, k)
      BY DEF HandlerIn
    <3>. QED  BY <2>3, <2>4, <2>6, <3>1, <3>2
  <2>8. n.frame_count + 1 = c /\ less[1] = 0 /\ less[c] = L
    BY <1>1, <2>2, <2>5, <2>6
  <2>9. MirrorBy(n, less)
    BY <2>6, <2>7, <2>8 DEF MirrorBy
  <2>. QED  BY <2>9 DEF Mirror
<1>4. Callers(n)
  BY <1>1 DEF Good, Callers
<1>5. Scripts(n)
  BY <1>1 DEF Good, Scripts
<1>. QED  BY <1>2, <1>3, <1>4, <1>5 DEF Good

(***************************************************************************)
(* Every handler is that of a try body of one of the frames, and the       *)
(* handlers of the frames below that one are before it.                    *)
(***************************************************************************)
LEMMA HandlerFrame ==
  ASSUME NEW m \in Machine, NEW below, MirrorBy(m, below), NEW h \in 1..Len(m.try_stack)
  PROVE  \E j \in 1..m.frame_count :
           /\ \A i \in 1..j : below[i] < h
           /\ h <= below[j + 1]
           /\ h - below[j] \in 1..Len(m.frames[j].ip.open)
           /\ m.try_stack[h] = HandlerIn(m, j, h - below[j])
<1>. DEFINE c == m.frame_count
            L == Len(m.try_stack)
            S == {j \in 1..c : h <= below[j + 1]}
<1>1. c \in Nat /\ L \in Nat
  BY LenProperties, ControlAssumption DEF Machine
<1>2. /\ \A j \in 1..c + 1 : below[j] \in 0..L
      /\ below[1] = 0 /\ below[c + 1] = L
      /\ \A i \in 1..c : below[i + 1] = below[i] + Len(m.frames[i].ip.open)
  BY <1>1 DEF MirrorBy
<1>3. c \in S
  <2>1. c # 0
    BY <1>1, <1>2
  <2>. QED  BY <1>1, <1>2, <2>1
<1>4. PICK j \in S : \A i \in S : j <= i
  <2>1. S \in SUBSET Nat /\ S # {}
    BY <1>3
  <2>. HIDE DEF S
  <2>. QED  BY <2>1, LeastElement
<1>5. j \in 1..c /\ h <= below[j + 1]
  OBVIOUS
<1>6. \A i \in 1..j : below[i] < h
  <2>. TAKE i \in 1..j
  <2>1. CASE i = 1
    BY <1>2, <2>1
  <2>2. CASE i # 1
    <3>1. i - 1 \in 1..c /\ ~ (j <= i - 1)
      BY <1>1, <1>5, <2>2
    <3>2. i - 1 \notin S
      <4>. HIDE DEF S
      <4>. QED  BY <1>4, <3>1
    <3>3. i \in 1..c + 1 /\ (i - 1) + 1 = i
      BY <1>1, <1>5
    <3>4. ~ (h <= below[i]) /\ below[i] \in 0..L
      BY <1>2, <3>1, <3>2, <3>3
    <3>. QED  BY <1>1, <3>4
  <2>. QED  BY <2>1, <2>2
<1>7. h - below[j] \in 1..Len(m.frames[j].ip.open)
  <2>1. below[j] < h /\ below[j] \in Nat
    BY <1>1, <1>2, <1>5, <1>6
  <2>2. below[j + 1] = below[j] + Len(m.frames[j].ip.open) /\ Len(m.frames[j].ip.open) \in Nat
    BY <1>2, <1>5, OpenFacts
  <2>3. h \in Nat
    BY <1>1
  <2>4. \A a, b, d \in Nat : a < b /\ b <= a + d => b - a \in 1..d
    OBVIOUS
  <2>. QED  BY <1>5, <2>1, <2>2, <2>3, <2>4
<1>8. below[j] + (h - below[j]) = h
  BY <1>1, <1>2, <1>5
<1>9. m.try_stack[h] = HandlerIn(m, j, h - below[j])
  <2>1. \A k \in 1..Len(m.frames[j].ip.open) : m.try_stack[below[j] + k] = HandlerIn(m, j, k)
    BY <1>5 DEF MirrorBy
  <2>. QED  BY <1>7, <1>8, <2>1
<1>. QED  BY <1>5, <1>6, <1>7, <1>9

(***************************************************************************)
(* The top frame enters a try body.                                        *)
(***************************************************************************)
BodyHandler(m, e) ==
  LET f == m.frames[m.frame_count]
  IN  [catch_ip    |-> At(f.function, f.ip.open, e + 1),
       stack_top   |-> f.slots + e,
       frame_count |-> m.frame_count]

\* The frames below the top one stay, and so does whose code that runs.
TopMoves(m, n) ==
  /\ m.frame_count > 0
  /\ n.frame_count = m.frame_count
  /\ \A i \in 1..m.frame_count : i # m.frame_count => n.frames[i] = m.frames[i]
  /\ n.frames[m.frame_count].function = m.frames[m.frame_count].function
  /\ n.frames[m.frame_count].slots = m.frames[m.frame_count].slots
  /\ n.frames[m.frame_count].ip.stage # "halted"

EntersTry(m, n, e) ==
  /\ TopMoves(m, n)
  /\ Len(m.try_stack) < TryMax
  /\ n.frames[m.frame_count].ip.open = Append(m.frames[m.frame_count].ip.open, e)
  /\ BodyHandler(m, e) \in HandlerType
  /\ n.try_stack = Append(m.try_stack, BodyHandler(m, e))

LEMMA GoodTry ==
  ASSUME NEW m, NEW n \in Machine, Good(m), NEW e \in 1..HeightMax, EntersTry(m, n, e)
  PROVE  Good(n)
<1>. DEFINE c == m.frame_count
            L == Len(m.try_stack)
            open == m.frames[c].ip.open
            K == Len(open)
            hd == BodyHandler(m, e)
<1>1. m \in Machine /\ c \in 1..FramesMax /\ n.frame_count = c /\ FramesMax \in Nat
  <2>1. m \in Machine /\ c > 0 /\ n.frame_count = c
    BY DEF Good, EntersTry, TopMoves
  <2>2. c \in 0..FramesMax
    BY <2>1 DEF Machine
  <2>. QED  BY <2>1, <2>2, ControlAssumption
<1>2. /\ L < TryMax /\ hd \in HandlerType /\ n.try_stack = Append(m.try_stack, hd)
      /\ n.frames[c].ip.open = Append(open, e)
      /\ n.frames[c].function = m.frames[c].function
      /\ n.frames[c].slots = m.frames[c].slots
      /\ n.frames[c].ip.stage # "halted"
      /\ \A i \in 1..c : i # c => n.frames[i] = m.frames[i]
  BY DEF EntersTry, TopMoves
<1>3. /\ L \in Nat /\ Len(n.try_stack) = L + 1 /\ n.try_stack[L + 1] = hd
      /\ \A i \in 1..L : n.try_stack[i] = m.try_stack[i]
  BY SMTT(90), <1>1, <1>2, AppendFacts DEF Machine
<1>4. open \in Seq(1..HeightMax)
  <2>1. c \in 1..m.frame_count
    BY <1>1
  <2>. QED  BY <1>1, <2>1, OpenFacts
<1>5. /\ K \in Nat /\ Append(open, e) \in Seq(1..HeightMax)
      /\ Len(Append(open, e)) = K + 1 /\ Append(open, e)[K + 1] = e
      /\ \A i \in 1..K : Append(open, e)[i] = open[i]
  BY <1>4, AppendFacts
<1>6. \A k \in 1..K + 1 : SubSeq(Append(open, e), 1, k - 1) = SubSeq(open, 1, k - 1)
  <2>. TAKE k \in 1..K + 1
  <2>. DEFINE t == Append(open, e)
  <2>1. k - 1 \in 0..Len(open) /\ k - 1 <= Len(t)
    BY SMTT(30), <1>5
  <2>2. \A i \in 1..k - 1 : open[i] = t[i]
    BY SMTT(30), <1>5
  <2>3. t \in Seq(1..HeightMax)
    BY <1>5
  <2>. HIDE DEF t, open
  <2>4. SubSeq(open, 1, k - 1) = SubSeq(t, 1, k - 1)
    BY <1>4, <2>1, <2>2, <2>3, PrefixFacts
  <2>. QED  BY <2>4 DEF t
<1>7. SubSeq(open, 1, K) = open
  BY <1>4, SubSeqFull
<1>8. /\ \A k \in 1..K : HandlerIn(n, c, k) = HandlerIn(m, c, k)
      /\ HandlerIn(n, c, K + 1) = hd
  <2>1. ASSUME NEW k \in 1..K PROVE HandlerIn(n, c, k) = HandlerIn(m, c, k)
    <3>1. k \in 1..K + 1
      BY <1>5
    <3>2. SubSeq(n.frames[c].ip.open, 1, k - 1) = SubSeq(open, 1, k - 1)
      BY <1>2, <1>6, <3>1
    <3>3. n.frames[c].ip.open[k] = open[k]
      BY <1>2, <1>5
    <3>. QED  BY <1>2, <3>2, <3>3 DEF HandlerIn, BodyHandler
  <2>2. HandlerIn(n, c, K + 1) = hd
    <3>1. K + 1 \in 1..K + 1 /\ (K + 1) - 1 = K
      BY <1>5
    <3>2. SubSeq(n.frames[c].ip.open, 1, (K + 1) - 1) = open
      BY <1>2, <1>6, <1>7, <3>1
    <3>3. n.frames[c].ip.open[K + 1] = e
      BY <1>2, <1>5
    <3>. QED  BY <1>2, <3>2, <3>3 DEF HandlerIn, BodyHandler
  <2>. QED  BY <2>1, <2>2
<1>9. Mirror(n)
  <2>1. PICK below : MirrorBy(m, below)
    BY DEF Good, Mirror
  <2>2. /\ \A j \in 1..c + 1 : below[j] \in 0..L
        /\ below[1] = 0 /\ below[c + 1] = L
    BY <1>1, <2>1 DEF MirrorBy
  <2>3. \A i \in 1..c : below[i + 1] = below[i] + Len(m.frames[i].ip.open)
    BY <2>1 DEF MirrorBy
  <2>4. \A i \in 1..c : \A k \in 1..Len(m.frames[i].ip.open) :
          m.try_stack[below[i] + k] = HandlerIn(m, i, k)
    BY <2>1 DEF MirrorBy
  <2>5. \A i \in 1..c : \A k \in 1..Len(m.frames[i].ip.open) :
          n.try_stack[below[i] + k] = HandlerIn(m, i, k)
    <3>. TAKE i \in 1..c
    <3>. TAKE k \in 1..Len(m.frames[i].ip.open)
    <3>1. Len(m.frames[i].ip.open) \in Nat
      BY <1>1, OpenFacts
    <3>2. i \in 1..c + 1 /\ i + 1 \in 1..c + 1
      BY <1>1
    <3>3. below[i] \in 0..L /\ below[i + 1] \in 0..L /\ below[i + 1] = below[i] + Len(m.frames[i].ip.open)
      BY <2>2, <2>3, <3>2
    <3>4. \A a, b \in 0..L : \A q \in Nat : \A x \in 1..q : b = a + q => a + x \in 1..L
      BY <1>3
    <3>5. below[i] + k \in 1..L
      BY <3>1, <3>3, <3>4
    <3>. QED  BY <1>3, <2>4, <3>5
  <2>. DEFINE more == [j \in 1..c + 1 |-> IF j = c + 1 THEN L + 1 ELSE below[j]]
  <2>6. /\ \A j \in 1..c : more[j] = below[j]
        /\ more[c + 1] = L + 1 /\ more \in [1..c + 1 -> 0..L + 1]
    BY SMTT(30), <1>1, <1>3, <2>2
  <2>. HIDE DEF more
  <2>7. \A i \in 1..n.frame_count :
          /\ more[i + 1] = more[i] + Len(n.frames[i].ip.open)
          /\ \A k \in 1..Len(n.frames[i].ip.open) :
               n.try_stack[more[i] + k] = HandlerIn(n, i, k)
    <3>. TAKE i \in 1..n.frame_count
    <3>0. i \in 1..c /\ more[i] = below[i]
      BY <1>1, <2>6
    <3>1. CASE i = c
      <4>1. c \in 1..c /\ c \in 1..c + 1 /\ below[c] \in 0..L
        BY <1>1, <2>2
      <4>2. below[c + 1] = below[c] + K /\ below[c + 1] = L
        BY <2>2, <2>3, <4>1
      <4>3. below[c] + (K + 1) = L + 1
        <5>1. \A x \in 0..L, y \in Nat : L = x + y => x + (y + 1) = L + 1
          BY <1>3
        <5>. QED  BY <1>5, <4>1, <4>2, <5>1
      <4>4. Len(n.frames[c].ip.open) = K + 1
        BY <1>2, <1>5
      <4>5. more[c + 1] = more[c] + Len(n.frames[c].ip.open)
        BY <2>6, <3>0, <3>1, <4>3, <4>4
      <4>6. ASSUME NEW k \in 1..K + 1 PROVE n.try_stack[below[c] + k] = HandlerIn(n, c, k)
        <5>1. CASE k = K + 1
          BY <1>3, <1>8, <4>3, <5>1
        <5>2. CASE k # K + 1
          <6>1. k \in 1..K
            <7>1. \A x \in Nat : \A y \in 1..x + 1 : y # x + 1 => y \in 1..x
            OBVIOUS
          <7>. QED  BY <1>5, <5>2, <7>1
          <6>2. n.try_stack[below[c] + k] = HandlerIn(m, c, k)
            BY <2>5, <4>1, <6>1
          <6>. QED  BY <1>8, <6>1, <6>2
        <5>. QED  BY <5>1, <5>2
      <4>. QED  BY <3>0, <3>1, <4>4, <4>5, <4>6
    <3>2. CASE i # c
      <4>1. i + 1 \in 1..c /\ n.frames[i] = m.frames[i]
        <5>1. n.frames[i] = m.frames[i]
          BY <1>2, <3>0, <3>2
        <5>. QED  BY <1>1, <3>0, <3>2, <5>1
      <4>2. more[i + 1] = below[i + 1]
        BY <2>6, <4>1
      <4>3. \A k : HandlerIn(n, i, k) = HandlerIn(m, i, k)
        BY <4>1 DEF HandlerIn
      <4>. QED  BY <2>3, <2>5, <3>0, <4>1, <4>2, <4>3
    <3>. QED  BY <3>1, <3>2
  <2>8. more[1] = 0
    BY <1>1, <2>2, <2>6
  <2>9. MirrorBy(n, more)
    BY <1>1, <1>3, <2>6, <2>7, <2>8 DEF MirrorBy
  <2>. QED  BY <2>9 DEF Mirror
<1>10. Callers(n)
  <2>. SUFFICES ASSUME NEW i \in 1..c - 1, n.frames[i].ip.stage = "code"
                PROVE  n.frames[i + 1].slots = n.frames[i].slots + n.frames[i].ip.height - 1
    BY <1>1 DEF Callers
  <2>1. i \in 1..c /\ i # c /\ i + 1 \in 1..c
    BY <1>1
  <2>2. n.frames[i] = m.frames[i] /\ n.frames[i + 1].slots = m.frames[i + 1].slots
    BY <1>1, <1>2, <2>1
  <2>. QED  BY <2>2 DEF Good, Callers
<1>11. Scripts(n)
  <2>0. Scripts(m)
    BY DEF Good
  <2>1. n.frames[1].function = Script
    <3>1. m.frames[1].function = Script
      BY <1>1, <2>0 DEF Scripts
    <3>2. CASE c = 1
      BY <1>2, <3>1, <3>2
    <3>3. CASE c # 1
      <4>1. 1 \in 1..c /\ 1 # c
        BY <1>1, <3>3
      <4>2. n.frames[1] = m.frames[1]
        BY <1>2, <4>1
      <4>. QED  BY <3>1, <4>2
    <3>. QED  BY <3>2, <3>3
  <2>2. ASSUME NEW i \in 1..c, n.frames[i].ip.stage = "halted"
        PROVE  n.frames[i].ip.open = <<>>
    <3>1. i # c
      BY <1>2, <2>2
    <3>2. n.frames[i] = m.frames[i]
      BY <1>2, <3>1
    <3>. QED  BY <2>0, <2>2, <3>2 DEF Scripts
  <2>. QED  BY <1>1, <2>1, <2>2 DEF Scripts
<1>12. Len(n.try_stack) <= TryMax
  <2>0. L < TryMax /\ L \in Nat
    BY <1>2, <1>3
  <2>1. L + 1 <= TryMax
    BY <2>0, Limits
  <2>. QED  BY <1>3, <2>1
<1>. QED  BY <1>9, <1>10, <1>11, <1>12 DEF Good

(***************************************************************************)
(* The last handler goes, with its try body and the frames above.          *)
(***************************************************************************)
LeavesBody(m, n, j) ==
  /\ j \in 1..m.frame_count
  /\ n.frame_count = j
  /\ \A i \in 1..j : i # j => n.frames[i] = m.frames[i]
  /\ n.frames[j].function = m.frames[j].function
  /\ n.frames[j].slots = m.frames[j].slots
  /\ n.frames[j].ip.stage # "halted"
  /\ n.frames[j].ip.open = Front(m.frames[j].ip.open)
  /\ m.try_stack # <<>>
  /\ m.try_stack[Len(m.try_stack)].frame_count = j
  /\ n.try_stack = Front(m.try_stack)

LEMMA GoodLeave ==
  ASSUME NEW m, NEW n \in Machine, Good(m), NEW j, LeavesBody(m, n, j)
  PROVE  Good(n)
<1>. DEFINE c == m.frame_count
            L == Len(m.try_stack)
            open == m.frames[j].ip.open
            K == Len(open)
<1>1. m \in Machine /\ c \in 1..FramesMax /\ j \in 1..c /\ n.frame_count = j
  <2>1. m \in Machine /\ j \in 1..c /\ n.frame_count = j
    BY DEF Good, LeavesBody
  <2>2. c \in 0..FramesMax
    BY <2>1 DEF Machine
  <2>. QED  BY <2>1, <2>2, Limits
<1>2. /\ n.frames[j].function = m.frames[j].function
      /\ n.frames[j].slots = m.frames[j].slots
      /\ n.frames[j].ip.stage # "halted"
      /\ n.frames[j].ip.open = Front(open)
      /\ \A i \in 1..j : i # j => n.frames[i] = m.frames[i]
      /\ m.try_stack[L].frame_count = j
      /\ m.try_stack # <<>> /\ n.try_stack = Front(m.try_stack)
  BY DEF LeavesBody
<1>3. /\ L \in Nat \ {0} /\ Len(n.try_stack) = L - 1
      /\ \A i \in 1..L - 1 : n.try_stack[i] = m.try_stack[i]
  <2>1. m.try_stack \in Seq(HandlerType)
    BY <1>1 DEF Machine
  <2>. DEFINE s == m.try_stack
  <2>. HIDE DEF s
  <2>2. s \in Seq(HandlerType) /\ s # <<>>
    BY <1>2, <2>1 DEF s
  <2>3. /\ Len(s) \in Nat \ {0} /\ Len(Front(s)) = Len(s) - 1
        /\ \A i \in 1..Len(s) - 1 : Front(s)[i] = s[i]
    BY <2>2, FrontFacts
  <2>. QED  BY <1>2, <2>3 DEF s
<1>4. open \in Seq(1..HeightMax) /\ K \in Nat
  BY <1>1, OpenFacts
<1>5. PICK below : MirrorBy(m, below)
  BY DEF Good, Mirror
<1>6. /\ \A i \in 1..c + 1 : below[i] \in 0..L
      /\ below[1] = 0 /\ below[c + 1] = L
  BY <1>1, <1>5 DEF MirrorBy
<1>7. \A i \in 1..c : below[i + 1] = below[i] + Len(m.frames[i].ip.open)
  BY <1>5 DEF MirrorBy
<1>8. \A i \in 1..c : \A k \in 1..Len(m.frames[i].ip.open) :
        m.try_stack[below[i] + k] = HandlerIn(m, i, k)
  BY <1>5 DEF MirrorBy
<1>9. /\ \A i \in 1..j : below[i] \in 0..L - 1
      /\ below[j] + K = L /\ K > 0
  <2>1. L \in 1..Len(m.try_stack)
    BY <1>3
  <2>. DEFINE h == L
  <2>. HIDE DEF h
  <2>0. h \in 1..Len(m.try_stack)
    BY <2>1 DEF h
  <2>2. PICK f \in 1..c : /\ \A i \in 1..f : below[i] < h
                          /\ h <= below[f + 1]
                          /\ h - below[f] \in 1..Len(m.frames[f].ip.open)
                          /\ m.try_stack[h] = HandlerIn(m, f, h - below[f])
    <3>1. ASSUME NEW y \in 1..Len(m.try_stack)
          PROVE  \E f \in 1..m.frame_count :
                   /\ \A i \in 1..f : below[i] < y
                   /\ y <= below[f + 1]
                   /\ y - below[f] \in 1..Len(m.frames[f].ip.open)
                   /\ m.try_stack[y] = HandlerIn(m, f, y - below[f])
      BY <1>1, <1>5, HandlerFrame
    <3>. QED  BY <2>0, <3>1
  <2>. USE DEF h
  <2>3. f = j
    BY <1>2, <2>2 DEF HandlerIn
  <2>4. \A i \in 1..j : below[i] \in 0..L - 1
    <3>. TAKE i \in 1..j
    <3>1. i \in 1..c + 1 /\ below[i] < L
      BY <1>1, <2>2, <2>3
    <3>. QED  BY <1>3, <1>6, <3>1
  <2>5. j + 1 \in 1..c + 1 /\ j \in 1..j
    BY <1>1
  <2>6. below[j + 1] = L
    <3>1. below[j + 1] \in 0..L /\ L <= below[j + 1]
      BY <1>6, <2>2, <2>3, <2>5
    <3>. QED  BY <1>3, <3>1
  <2>7. below[j] + K = L /\ below[j] \in 0..L - 1
    BY <1>1, <1>7, <2>4, <2>5, <2>6
  <2>. QED  BY <1>3, <1>4, <2>4, <2>7
<1>10. /\ Front(open) \in Seq(1..HeightMax) /\ Len(Front(open)) = K - 1
       /\ \A k \in 1..K - 1 : Front(open)[k] = open[k]
  <2>1. open # <<>>
    BY <1>9, EmptySeq
  <2>. HIDE DEF open
  <2>. QED  BY <1>4, <2>1, FrontFacts
<1>11. \A k \in 1..K - 1 : HandlerIn(n, j, k) = HandlerIn(m, j, k)
  <2>. TAKE k \in 1..K - 1
  <2>. DEFINE t == Front(open)
  <2>1. SubSeq(t, 1, k - 1) = SubSeq(open, 1, k - 1)
    <3>1. k - 1 \in 0..Len(t) /\ k - 1 <= Len(open)
      BY <1>4, <1>10
    <3>2. \A i \in 1..k - 1 : t[i] = open[i]
      BY <1>4, <1>10
    <3>3. t \in Seq(1..HeightMax)
      BY <1>10
    <3>. HIDE DEF t, open
    <3>. QED  BY <1>4, <3>1, <3>2, <3>3, PrefixFacts
  <2>2. t[k] = open[k]
    BY <1>10
  <2>. QED  BY <1>2, <2>1, <2>2 DEF HandlerIn
<1>12. Mirror(n)
  <2>. DEFINE less == [i \in 1..j + 1 |-> IF i = j + 1 THEN L - 1 ELSE below[i]]
  <2>1. /\ \A i \in 1..j : less[i] = below[i]
        /\ less[j + 1] = L - 1 /\ less \in [1..j + 1 -> 0..L - 1]
    <3>1. L - 1 \in 0..L - 1 /\ j \in Nat
      BY <1>1, <1>3
    <3>2. \A i \in 1..j + 1 : i # j + 1 => i \in 1..j
      BY <1>1
    <3>3. \A i \in 1..j : i \in 1..j + 1 /\ i # j + 1
      BY <1>1
    <3>4. j + 1 \in 1..j + 1
      BY <3>1
    <3>. QED  BY <1>9, <3>1, <3>2, <3>3, <3>4
  <2>. HIDE DEF less
  <2>2. \A i \in 1..j : \A k \in 1..Len(n.frames[i].ip.open) :
          less[i] + k \in 1..L - 1 => n.try_stack[less[i] + k] = HandlerIn(n, i, k)
    <3>. TAKE i \in 1..j
    <3>. TAKE k \in 1..Len(n.frames[i].ip.open)
    <3>1. i \in 1..c /\ less[i] = below[i]
      BY <1>1, <2>1
    <3>2. k \in 1..Len(m.frames[i].ip.open) /\ HandlerIn(n, i, k) = HandlerIn(m, i, k)
      <4>1. CASE i = j
        <5>1. Len(n.frames[j].ip.open) = K - 1
          BY <1>2, <1>10
        <5>2. k \in 1..K - 1 /\ k \in 1..K
          BY <1>4, <4>1, <5>1
        <5>. QED  BY <1>11, <4>1, <5>2
      <4>2. CASE i # j
        <5>1. n.frames[i] = m.frames[i]
          BY <1>2, <4>2
        <5>. QED  BY <5>1 DEF HandlerIn
      <4>. QED  BY <4>1, <4>2
    <3>3. m.try_stack[below[i] + k] = HandlerIn(m, i, k)
      BY <1>8, <3>1, <3>2
    <3>. QED  BY <1>3, <3>1, <3>2, <3>3
  <2>3. \A i \in 1..j : less[i + 1] = less[i] + Len(n.frames[i].ip.open)
    <3>. TAKE i \in 1..j
    <3>1. CASE i = j
      <4>1. Len(n.frames[j].ip.open) = K - 1 /\ less[j] = below[j] /\ less[j + 1] = L - 1
        BY <1>1, <1>2, <1>10, <2>1
      <4>2. below[j] \in 0..L - 1 /\ below[j] + K = L
        BY <1>1, <1>9
      <4>3. \A x \in 0..L - 1 : \A y \in Nat : x + y = L => L - 1 = x + (y - 1)
        BY <1>3
      <4>4. L - 1 = below[j] + (K - 1)
        BY <1>4, <4>2, <4>3
      <4>. QED  BY <3>1, <4>1, <4>4
    <3>2. CASE i # j
      <4>1. i \in 1..c /\ i + 1 \in 1..j /\ i \in 1..j
        BY <1>1, <3>2
      <4>2. n.frames[i] = m.frames[i]
        BY <1>2, <3>2
      <4>. QED  BY <1>7, <2>1, <4>1, <4>2
    <3>. QED  BY <3>1, <3>2
  <2>4. \A i \in 1..j : \A k \in 1..Len(n.frames[i].ip.open) :
          n.try_stack[less[i] + k] = HandlerIn(n, i, k)
    <3>. TAKE i \in 1..j
    <3>. TAKE k \in 1..Len(n.frames[i].ip.open)
    <3>1. i \in 1..j + 1 /\ i + 1 \in 1..j + 1
      BY <1>1
    <3>2. less[i] \in 0..L - 1 /\ less[i + 1] \in 0..L - 1
      BY <2>1, <3>1
    <3>3. Len(n.frames[i].ip.open) \in Nat
      BY <1>1, OpenFacts
    <3>4. less[i + 1] = less[i] + Len(n.frames[i].ip.open)
      BY <2>3
    <3>5. \A x, z \in 0..L - 1 : \A q \in Nat : \A y \in 1..q : z = x + q => x + y \in 1..L - 1
      BY <1>3
    <3>6. less[i] + k \in 1..L - 1
      BY <3>2, <3>3, <3>4, <3>5
    <3>. QED  BY <2>2, <3>6
  <2>5. less[1] = 0
    BY <1>1, <1>6, <2>1
  <2>6. MirrorBy(n, less)
    BY <1>1, <1>3, <2>1, <2>3, <2>4, <2>5 DEF MirrorBy
  <2>. QED  BY <2>6 DEF Mirror
<1>13. Callers(n)
  <2>. SUFFICES ASSUME NEW i \in 1..j - 1, n.frames[i].ip.stage = "code"
                PROVE  n.frames[i + 1].slots = n.frames[i].slots + n.frames[i].ip.height - 1
    BY <1>1 DEF Callers
  <2>1. i \in 1..j /\ i # j /\ i + 1 \in 1..j /\ i \in 1..c - 1
    BY <1>1
  <2>2. n.frames[i] = m.frames[i]
    BY <1>2, <2>1
  <2>3. n.frames[i + 1].slots = m.frames[i + 1].slots
    <3>1. CASE i + 1 = j
      BY <1>2, <3>1
    <3>2. CASE i + 1 # j
      <4>1. n.frames[i + 1] = m.frames[i + 1]
        BY <1>2, <2>1, <3>2
      <4>. QED  BY <4>1
    <3>. QED  BY <3>1, <3>2
  <2>. QED  BY <2>1, <2>2, <2>3 DEF Good, Callers
<1>14. Scripts(n)
  <2>1. n.frames[1].function = Script
    <3>1. m.frames[1].function = Script
      BY <1>1 DEF Good, Scripts
    <3>2. 1 \in 1..j
      BY <1>1
    <3>3. n.frames[1].function = m.frames[1].function
      <4>1. CASE j = 1
        BY <1>2, <4>1
      <4>2. CASE j # 1
        <5>1. n.frames[1] = m.frames[1]
          BY <1>2, <3>2, <4>2
        <5>. QED  BY <5>1
      <4>. QED  BY <4>1, <4>2
    <3>. QED  BY <3>1, <3>3
  <2>2. ASSUME NEW i \in 1..j, n.frames[i].ip.stage = "halted"
        PROVE  n.frames[i].ip.open = <<>>
    <3>1. i # j
      BY <1>2, <2>2
    <3>2. n.frames[i] = m.frames[i] /\ i \in 1..c
      BY <1>1, <1>2, <3>1
    <3>. QED  BY <2>2, <3>2 DEF Good, Scripts
  <2>. QED  BY <1>1, <2>1, <2>2 DEF Scripts
<1>15. Len(n.try_stack) <= TryMax
  <2>1. L <= TryMax
    BY DEF Good
  <2>. QED  BY <1>3, <2>1, Limits
<1>. QED  BY <1>12, <1>13, <1>14, <1>15 DEF Good

-----------------------------------------------------------------------------
(* Machines after parts of an instruction. *)

LEMMA GoodData ==
  ASSUME NEW m, NEW n \in Machine, Good(m), n.frames = m.frames,
         n.frame_count = m.frame_count, n.try_stack = m.try_stack
  PROVE  Good(n)
<1>1. PICK below : MirrorBy(m, below)
  BY DEF Good, Mirror
<1>2. \A i, k : HandlerIn(n, i, k) = HandlerIn(m, i, k)
  BY DEF HandlerIn
<1>3. MirrorBy(n, below)
  BY <1>1, <1>2 DEF MirrorBy
<1>. QED  BY <1>3 DEF Good, Mirror, Callers, Scripts

LEMMA StackFacts ==
  ASSUME NEW m \in Machine, NEW x \in Int
  PROVE  LET n == [m EXCEPT !.stack_top = x] IN
         /\ n \in Machine /\ n.stack_top = x /\ n.frames = m.frames
         /\ n.frame_count = m.frame_count /\ n.try_stack = m.try_stack
         /\ n.thrown = m.thrown
  BY DEF Machine

LEMMA StageFacts ==
  ASSUME NEW m, Good(m), m.frame_count > 0, NEW stage \in {"halted", "failed"},
         stage = "halted" => m.frames[m.frame_count].ip.open = <<>>
  PROVE  LET n == Staged(m, stage) IN
         /\ n \in Machine /\ Good(n)
         /\ n.frame_count = m.frame_count /\ n.stack_top = m.stack_top
         /\ n.try_stack = m.try_stack
         /\ n.frames[n.frame_count].ip.stage = stage
         /\ \A i \in 1..n.frame_count : n.frames[i].function = m.frames[i].function
<1>. DEFINE was == m.frames[m.frame_count].ip
            ip == [was EXCEPT !.stage = stage]
            n == Staged(m, stage)
<1>1. m \in Machine
  BY DEF Good
<1>2. m.frame_count \in 1..m.frame_count
  BY <1>1 DEF Machine
<1>3. m.frames[m.frame_count].ip \in Place /\ m.frame_count \in 1..FramesMax
  BY <1>1, <1>2, OpenFacts
<1>4. /\ ip \in Place /\ ip.stage = stage
      /\ ip.open = m.frames[m.frame_count].ip.open
  <2>1. was \in Place
    BY <1>3
  <2>. HIDE DEF was
  <2>2. ip \in Place /\ ip.stage = stage /\ ip.open = was.open
    BY <2>1 DEF Place
  <2>. QED  BY <2>2 DEF was
<1>5. n = WithIp(m, ip)
  BY DEF Staged
<1>. HIDE DEF ip, n
<1>6. /\ n \in Machine
      /\ n.frame_count = m.frame_count /\ n.stack_top = m.stack_top
      /\ n.try_stack = m.try_stack
      /\ \A i \in 1..FramesMax : i # m.frame_count => n.frames[i] = m.frames[i]
      /\ n.frames[m.frame_count].ip = ip
      /\ n.frames[m.frame_count].slots = m.frames[m.frame_count].slots
      /\ n.frames[m.frame_count].function = m.frames[m.frame_count].function
  BY ZenonT(60), <1>1, <1>4, <1>5, WithIpFacts
<1>7. SameTrys(m, n)
  <2>1. \A i \in 1..m.frame_count : i \in 1..FramesMax
    BY <1>3, Limits
  <2>2. ASSUME NEW i \in 1..m.frame_count
        PROVE  /\ n.frames[i].function = m.frames[i].function
               /\ n.frames[i].slots = m.frames[i].slots
               /\ n.frames[i].ip.open = m.frames[i].ip.open
               /\ i < m.frame_count => n.frames[i].ip = m.frames[i].ip
    <3>1. CASE i = m.frame_count
      BY <1>3, <1>4, <1>6, <3>1
    <3>2. CASE i # m.frame_count
      <4>1. n.frames[i] = m.frames[i]
        BY <1>6, <2>1, <3>2
      <4>. QED  BY <4>1
    <3>. QED  BY <3>1, <3>2
  <2>. QED  BY <1>6, <2>2 DEF SameTrys
<1>8. n.frames[n.frame_count].ip.stage = stage
  BY <1>4, <1>6
<1>9. Good(n)
  <2>1. n.frames[n.frame_count].ip.open = m.frames[m.frame_count].ip.open
    BY <1>4, <1>6
  <2>. QED  BY <1>6, <1>7, <1>8, <2>1, GoodSame
<1>. QED  BY <1>6, <1>7, <1>8, <1>9 DEF n, SameTrys

(***************************************************************************)
(* The last handler is that of the innermost try body of the last frame    *)
(* that is in one.                                                         *)
(***************************************************************************)
LEMMA LastHandler ==
  ASSUME NEW m \in Machine, Mirror(m), m.try_stack # <<>>
  PROVE  \E j \in 1..m.frame_count :
           /\ Len(m.frames[j].ip.open) > 0
           /\ m.try_stack[Len(m.try_stack)] = HandlerIn(m, j, Len(m.frames[j].ip.open))
           /\ \A i \in j + 1..m.frame_count : Len(m.frames[i].ip.open) = 0
<1>. DEFINE c == m.frame_count
            x == Len(m.try_stack)
<1>1. x \in Nat \ {0}
  <2>1. m.try_stack \in Seq(HandlerType)
    BY DEF Machine
  <2>. QED  BY <2>1, FrontFacts
<1>2. PICK below : MirrorBy(m, below)
  BY DEF Mirror
<1>3. c \in Nat
  BY Limits DEF Machine
<1>4. /\ \A i \in 1..c + 1 : below[i] \in 0..x
      /\ below[c + 1] = x
      /\ \A i \in 1..c : below[i + 1] = below[i] + Len(m.frames[i].ip.open)
  BY <1>2 DEF MirrorBy
<1>. HIDE DEF x
<1>5. x \in 1..Len(m.try_stack)
  BY <1>1 DEF x
<1>6. PICK j \in 1..m.frame_count :
        /\ \A i \in 1..j : below[i] < x
        /\ x <= below[j + 1]
        /\ x - below[j] \in 1..Len(m.frames[j].ip.open)
        /\ m.try_stack[x] = HandlerIn(m, j, x - below[j])
  <2>1. ASSUME NEW y \in 1..Len(m.try_stack)
        PROVE  \E j \in 1..m.frame_count :
                 /\ \A i \in 1..j : below[i] < y
                 /\ y <= below[j + 1]
                 /\ y - below[j] \in 1..Len(m.frames[j].ip.open)
                 /\ m.try_stack[y] = HandlerIn(m, j, y - below[j])
    BY <1>2, HandlerFrame
  <2>. QED  BY <1>5, <2>1
<1>7. \A i \in 1..c : Len(m.frames[i].ip.open) \in Nat
  BY OpenFacts
<1>8. below[j + 1] = x
  <2>1. j + 1 \in 1..c + 1
    BY <1>3
  <2>2. below[j + 1] \in 0..x
    BY <1>4, <2>1
  <2>. QED  BY <1>1, <1>6, <2>2
<1>9. x - below[j] = Len(m.frames[j].ip.open) /\ Len(m.frames[j].ip.open) > 0
  <2>1. j \in 1..c /\ j \in 1..c + 1 /\ below[j] \in 0..x /\ Len(m.frames[j].ip.open) \in Nat
    BY <1>3, <1>4, <1>7
  <2>2. x = below[j] + Len(m.frames[j].ip.open)
    BY <1>4, <1>8, <2>1
  <2>3. \A a \in 0..x : \A q \in Nat : x = a + q /\ x - a \in 1..q => x - a = q /\ q > 0
    BY <1>1
  <2>. QED  BY <1>6, <2>1, <2>2, <2>3
<1>10. \A i \in j + 1..c : Len(m.frames[i].ip.open) = 0
  <2>. DEFINE S == {k \in 0..c - j : below[j + 1 + k] = x}
  <2>1. 0 \in S
    <3>1. 0 \in 0..c - j /\ j + 1 + 0 = j + 1
      BY <1>3
    <3>. QED  BY <1>8, <3>1
  <2>2. ASSUME NEW k \in S, k < c - j PROVE k + 1 \in S
    <3>1. /\ k + 1 \in 0..c - j /\ j + 1 + k \in 1..c /\ j + 1 + k \in 1..c + 1
          /\ j + 1 + (k + 1) = (j + 1 + k) + 1 /\ (j + 1 + k) + 1 \in 1..c + 1
      BY SMTT(30), <1>3, <2>2
    <3>2. below[j + 1 + k] = x
      OBVIOUS
    <3>3. /\ below[(j + 1 + k) + 1] = x + Len(m.frames[j + 1 + k].ip.open)
          /\ below[(j + 1 + k) + 1] \in 0..x
          /\ Len(m.frames[j + 1 + k].ip.open) \in Nat
      BY <1>4, <1>7, <3>1, <3>2
    <3>4. below[(j + 1 + k) + 1] = x
      BY SMTT(30), <1>1, <3>3
    <3>. QED  BY <3>1, <3>4
  <2>3. S = 0..c - j
    <3>1. c - j \in Nat /\ S \in SUBSET (0..c - j)
      BY <1>3
    <3>. HIDE DEF S
    <3>. QED  BY <2>1, <2>2, <3>1, BoundedInduction
  <2>4. ASSUME NEW i \in j + 1..c PROVE Len(m.frames[i].ip.open) = 0
    <3>1. i - (j + 1) \in 0..c - j /\ i + 1 - (j + 1) \in 0..c - j /\ i \in 1..c
      BY <1>3
    <3>2. \A k \in 0..c - j : below[j + 1 + k] = x
      BY <2>3
    <3>3. j + 1 + (i - (j + 1)) = i /\ j + 1 + (i + 1 - (j + 1)) = i + 1
      BY <1>3
    <3>4. below[i] = x /\ below[i + 1] = x
      BY <3>1, <3>2, <3>3
    <3>5. x = x + Len(m.frames[i].ip.open) /\ Len(m.frames[i].ip.open) \in Nat
      BY <1>4, <1>7, <3>1, <3>4
    <3>. QED  BY <1>1, <3>5
  <2>. QED  BY <2>4
<1>11. m.try_stack[x] = HandlerIn(m, j, Len(m.frames[j].ip.open))
  BY <1>6, <1>9
<1>. QED  BY <1>9, <1>10, <1>11 DEF x

(***************************************************************************)
(* A caught error goes on in the frame of that handler, in the code around *)
(* the try body.                                                           *)
(***************************************************************************)
CaughtIn(m, n, j) ==
  LET f == m.frames[j]
      K == Len(f.ip.open)
  IN  /\ K > 0
      /\ \A i \in j + 1..m.frame_count : Len(m.frames[i].ip.open) = 0
      /\ m.try_stack[Len(m.try_stack)] = HandlerIn(m, j, K)
      /\ n \in Machine
      /\ n.frame_count = j
      /\ n.stack_top = (f.slots + f.ip.open[K]) + 1
      /\ n.try_stack = Front(m.try_stack)
      /\ n.frames[j].ip \in Place
      /\ n.frames[j].ip = At(f.function, Front(f.ip.open), f.ip.open[K] + 1)
      /\ n.frames[j].function = f.function
      /\ n.frames[j].slots = f.slots
      /\ \A i \in 1..j : i # j => n.frames[i] = m.frames[i]

LEMMA CatchesAt ==
  ASSUME NEW m, Good(m), Caught(m)
  PROVE  \E j \in 1..m.frame_count : CaughtIn(m, throwError(m), j)
<1>. DEFINE L == Len(m.try_stack)
            h == m.try_stack[L]
            n == throwError(m)
<1>1. m \in Machine /\ m.try_stack # <<>> /\ m.try_stack \in Seq(HandlerType)
  BY DEF Good, Caught, Machine
<1>2. /\ L \in Nat \ {0} /\ Last(m.try_stack) = h /\ h \in HandlerType
      /\ Front(m.try_stack) \in Seq(HandlerType)
  <2>. DEFINE s == m.try_stack
  <2>. HIDE DEF s
  <2>1. s \in Seq(HandlerType) /\ s # <<>>
    BY <1>1 DEF s
  <2>2. /\ Len(s) \in Nat \ {0} /\ Last(s) = s[Len(s)] /\ Last(s) \in HandlerType
        /\ Front(s) \in Seq(HandlerType)
    BY <2>1, FrontFacts
  <2>. QED  BY <2>2 DEF s
<1>3. PICK j \in 1..m.frame_count :
        /\ Len(m.frames[j].ip.open) > 0
        /\ h = HandlerIn(m, j, Len(m.frames[j].ip.open))
        /\ \A i \in j + 1..m.frame_count : Len(m.frames[i].ip.open) = 0
  <2>1. Mirror(m)
    BY DEF Good
  <2>. QED  BY <1>1, <2>1, LastHandler
<1>. DEFINE f == m.frames[j]
            K == Len(f.ip.open)
            ip == h.catch_ip
<1>4. /\ m.frame_count \in 1..FramesMax /\ j \in 1..FramesMax
      /\ f \in FrameType /\ f.ip.open \in Seq(1..HeightMax) /\ K \in Nat
      /\ f.slots \in 0..StackMax
  <2>1. f \in FrameType
    BY <1>1, OpenFacts
  <2>2. f.slots \in 0..StackMax
    BY <2>1 DEF FrameType
  <2>. QED  BY <1>1, <2>1, <2>2, OpenFacts
<1>5. /\ h.frame_count = j
      /\ h.stack_top = f.slots + f.ip.open[K]
      /\ ip = At(f.function, SubSeq(f.ip.open, 1, K - 1), f.ip.open[K] + 1)
  BY <1>3 DEF HandlerIn
<1>6. /\ ip.open = Front(f.ip.open) /\ ip.height = f.ip.open[K] + 1
      /\ ip.stage = "code" /\ ip.code = f.function
  BY <1>5 DEF At, Front
<1>7. ip \in Place /\ ip.height \in 1..HeightMax
  BY <1>2 DEF HandlerType, Place
<1>8. f.ip.open[K] \in 1..HeightMax
  <2>. DEFINE o == f.ip.open
  <2>1. o \in Seq(1..HeightMax) /\ Len(o) \in 1..Len(o)
    BY <1>3, <1>4
  <2>. HIDE DEF o
  <2>2. o[Len(o)] \in 1..HeightMax
    BY <2>1, ElementOfSeq
  <2>. QED  BY <2>2 DEF o
<1>9. n = Handle(m, h, Front(m.try_stack))
  BY <1>2 DEF Caught, throwError
<1>10. n = [m EXCEPT !.thrown = TRUE, !.try_stack = Front(m.try_stack),
                     !.stack_top = h.stack_top + 1, !.frame_count = h.frame_count,
                     !.frames[h.frame_count].ip = h.catch_ip]
  BY <1>9 DEF Handle
<1>. HIDE DEF n, h, ip
<1>11. [f EXCEPT !.ip = ip] \in FrameType
  BY <1>4, <1>7 DEF FrameType
<1>12. n = [m EXCEPT !.thrown = TRUE, !.try_stack = Front(m.try_stack),
                     !.stack_top = h.stack_top + 1, !.frame_count = j,
                     !.frames = [m.frames EXCEPT ![j] = [f EXCEPT !.ip = ip]]]
  <2>1. h.frame_count = j /\ ip = h.catch_ip
    BY <1>5 DEF ip
  <2>. QED  BY <1>10, <2>1
<1>13. /\ n.try_stack = Front(m.try_stack) /\ n.stack_top = h.stack_top + 1
       /\ n.frame_count = j /\ n.thrown = TRUE
       /\ n.frames = [m.frames EXCEPT ![j] = [f EXCEPT !.ip = ip]]
  BY <1>1, <1>12 DEF Machine
<1>14. n.frames \in [1..FramesMax -> FrameType]
  BY <1>1, <1>11, <1>13 DEF Machine
<1>15. h.stack_top \in Int
  BY SMTT(30), <1>4, <1>5, <1>8
<1>16. n \in Machine
  <2>1. /\ Front(m.try_stack) \in Seq(HandlerType) /\ h.stack_top + 1 \in Int
        /\ j \in 0..FramesMax
    BY <1>2, <1>4, <1>15
  <2>. QED  BY <1>1, <1>12, <1>13, <1>14, <2>1 DEF Machine
<1>17. /\ n.frames[j].ip = ip /\ n.frames[j].function = f.function
       /\ n.frames[j].slots = f.slots
       /\ \A i \in 1..j : i # j => n.frames[i] = m.frames[i]
  <2>1. n.frames[j] = [f EXCEPT !.ip = ip]
    BY <1>1, <1>4, <1>13 DEF Machine
  <2>2. \A i \in 1..j : i # j => n.frames[i] = m.frames[i]
    BY <1>1, <1>4, <1>13 DEF Machine
  <2>3. /\ [f EXCEPT !.ip = ip].ip = ip /\ [f EXCEPT !.ip = ip].slots = f.slots
        /\ [f EXCEPT !.ip = ip].function = f.function
    BY <1>4 DEF FrameType
  <2>. QED  BY <2>1, <2>2, <2>3
<1>18. ip = At(f.function, Front(f.ip.open), f.ip.open[K] + 1)
  BY <1>5 DEF Front
<1>19. m.try_stack[Len(m.try_stack)] = HandlerIn(m, j, Len(m.frames[j].ip.open))
  BY <1>3 DEF h
<1>20. CaughtIn(m, n, j)
  BY <1>3, <1>5, <1>7, <1>13, <1>16, <1>17, <1>18, <1>19 DEF CaughtIn
<1>. QED  BY <1>20 DEF n

LEMMA CatchFacts ==
  ASSUME NEW m, Good(m), Caught(m)
  PROVE  LET n == throwError(m) IN
         /\ n \in Machine /\ Good(n) /\ Fits(n)
         /\ n.frame_count \in 1..FramesMax
         /\ n.stack_top \in 2..StackMax + HeightMax
         /\ n.try_stack = Front(m.try_stack)
         /\ n.frame_count <= m.frame_count
         /\ \A i \in 1..n.frame_count : n.frames[i].function = m.frames[i].function
<1>. DEFINE n == throwError(m)
<1>1. m \in Machine /\ m.try_stack # <<>>
  BY DEF Good, Caught
<1>2. PICK j \in 1..m.frame_count : CaughtIn(m, n, j)
  BY CatchesAt
<1>. HIDE DEF n
<1>. DEFINE f == m.frames[j]
            K == Len(f.ip.open)
            ip == n.frames[j].ip
<1>3. /\ K > 0
      /\ n \in Machine /\ n.frame_count = j
      /\ n.stack_top = (f.slots + f.ip.open[K]) + 1
      /\ n.try_stack = Front(m.try_stack)
      /\ ip \in Place /\ ip = At(f.function, Front(f.ip.open), f.ip.open[K] + 1)
      /\ n.frames[j].function = f.function /\ n.frames[j].slots = f.slots
      /\ \A i \in 1..j : i # j => n.frames[i] = m.frames[i]
  BY <1>2 DEF CaughtIn
<1>4. /\ m.frame_count \in 1..FramesMax /\ j \in 1..FramesMax
      /\ f \in FrameType /\ f.ip.open \in Seq(1..HeightMax) /\ K \in Nat
      /\ f.slots \in 0..StackMax
  <2>1. f \in FrameType
    BY <1>1, OpenFacts
  <2>2. f.slots \in 0..StackMax
    BY <2>1 DEF FrameType
  <2>. QED  BY <1>1, <2>1, <2>2, OpenFacts
<1>5. /\ ip.open = Front(f.ip.open) /\ ip.height = f.ip.open[K] + 1
      /\ ip.stage = "code" /\ ip.code = f.function
  BY <1>3 DEF At
<1>6. f.ip.open[K] \in 1..HeightMax /\ f.ip.open[K] + 1 \in 1..HeightMax
  <2>. DEFINE o == f.ip.open
  <2>1. o \in Seq(1..HeightMax) /\ Len(o) \in 1..Len(o)
    BY <1>3, <1>4
  <2>2. ip.height \in 1..HeightMax
    BY <1>3 DEF Place
  <2>. HIDE DEF o
  <2>3. o[Len(o)] \in 1..HeightMax
    BY <2>1, ElementOfSeq
  <2>. QED  BY <1>5, <2>2, <2>3 DEF o
<1>7. LeavesBody(m, n, j)
  <2>1. m.try_stack[Len(m.try_stack)] = HandlerIn(m, j, Len(m.frames[j].ip.open))
    BY <1>2 DEF CaughtIn
  <2>2. m.try_stack[Len(m.try_stack)].frame_count = j
    BY <2>1 DEF HandlerIn
  <2>. QED  BY <1>1, <1>3, <1>5, <2>2 DEF LeavesBody
<1>8. Good(n)
  BY <1>3, <1>7, GoodLeave
<1>9. n.stack_top = f.slots + ip.height /\ n.stack_top \in 2..StackMax + HeightMax
  <2>1. \A x \in 0..StackMax : \A y \in 1..HeightMax : y + 1 \in 1..HeightMax =>
          /\ (x + y) + 1 = x + (y + 1) /\ (x + y) + 1 \in 2..StackMax + HeightMax
    BY Limits
  <2>. QED  BY ZenonT(60), <1>3, <1>4, <1>5, <1>6, <2>1
<1>10. Fits(n)
  BY SMTT(90), <1>3, <1>4, <1>5, <1>9 DEF Fits
<1>11. n.frame_count <= m.frame_count
  BY <1>1, <1>3 DEF Machine
<1>12. ASSUME NEW i \in 1..j PROVE n.frames[i].function = m.frames[i].function
  <2>1. CASE i = j
    BY <1>3, <2>1
  <2>2. CASE i # j
    <3>1. n.frames[i] = m.frames[i]
      BY <1>3, <2>2
    <3>. QED  BY <3>1
  <2>. QED  BY <2>1, <2>2
<1>. QED  BY <1>3, <1>4, <1>8, <1>9, <1>10, <1>11, <1>12 DEF n

-----------------------------------------------------------------------------
(* How an instruction ends. *)

LEMMA ContinueInv ==
  ASSUME Inv, NEW n, Good(n), Fits(n), n.stack_top \in 0..StackMax + HeightMax, Continue(n)
  PROVE  Inv'
<1>1. vm' = n /\ result' = "running"
  BY DEF Continue
<1>2. Good(vm') /\ Fits(vm') /\ vm'.stack_top \in 0..StackMax + HeightMax
  BY <1>1
<1>. QED  BY <1>1, <1>2 DEF Inv

LEMMA ExitInv ==
  ASSUME Inv, result' = "exit", UNCHANGED vm
  PROVE  Inv'
<1>1. Good(vm') /\ vm'.stack_top \in 0..StackMax + HeightMax
  BY DEF Inv
<1>. QED  BY <1>1 DEF Inv

LEMMA PushInv ==
  ASSUME Inv, NEW p, PushOn(p), p.stack_top \in Int,
         p.stack_top < StackMax =>
           /\ Good(p)
           /\ p.frame_count > 0
           /\ p.stack_top >= 0
           /\ p.frames[p.frame_count].ip.stage = "code" =>
                p.stack_top + 1 = p.frames[p.frame_count].slots + p.frames[p.frame_count].ip.height
  PROVE  Inv'
<1>1. CASE p.stack_top >= StackMax
  <2>1. result' = "exit" /\ UNCHANGED vm
    BY <1>1 DEF PushOn
  <2>. QED  BY <2>1, ExitInv
<1>2. CASE ~ (p.stack_top >= StackMax)
  <2>. DEFINE n == [p EXCEPT !.stack_top = @ + 1]
  <2>1. Continue(n)
    BY <1>2 DEF PushOn
  <2>2. CASE p.stack_top < StackMax
    <3>1. p \in Machine /\ p.stack_top \in Int
      BY <2>2 DEF Good, Machine
    <3>2. p.stack_top + 1 \in Int /\ n = [p EXCEPT !.stack_top = p.stack_top + 1]
      BY <3>1
    <3>. HIDE DEF n
    <3>3. /\ n \in Machine /\ n.stack_top = p.stack_top + 1 /\ n.frames = p.frames
          /\ n.frame_count = p.frame_count /\ n.try_stack = p.try_stack
      BY <3>1, <3>2, StackFacts
    <3>4. Good(n)
      BY <2>2, <3>3, GoodData
    <3>5. n.stack_top \in 1..StackMax + HeightMax
      BY <2>2, <3>1, <3>3, Limits
    <3>6. Fits(n)
      BY <2>2, <3>3, <3>5 DEF Fits
    <3>7. n.stack_top \in 0..StackMax + HeightMax
      BY <3>5
    <3>. QED  BY <2>1, <3>4, <3>6, <3>7, ContinueInv
  <2>. QED  BY <1>2, <2>2, Limits
<1>. QED  BY <1>1, <1>2

LEMMA ThrowInv ==
  ASSUME NEW m, Good(m), m.frame_count > 0, Throw(m),
         ~ Caught(m) => m.stack_top \in 0..StackMax + HeightMax
  PROVE  Inv'
<1>. DEFINE p == Staged(m, "failed")
<1>1. /\ p \in Machine /\ Good(p) /\ p.frame_count = m.frame_count
      /\ p.stack_top = m.stack_top /\ p.try_stack = m.try_stack
      /\ p.frames[p.frame_count].ip.stage = "failed"
  BY StageFacts
<1>2. vm' = throwError(p)
  BY DEF Throw
<1>3. CASE Caught(m)
  <2>1. result' = "running" /\ Caught(p)
    BY <1>1, <1>3 DEF Throw, Caught
  <2>. HIDE DEF p
  <2>2. Good(vm') /\ Fits(vm') /\ vm'.stack_top \in 2..StackMax + HeightMax
    BY <1>1, <1>2, <2>1, CatchFacts
  <2>3. vm'.stack_top \in 0..StackMax + HeightMax
    BY <2>2
  <2>. QED  BY <2>1, <2>2, <2>3 DEF Inv
<1>4. CASE ~ Caught(m)
  <2>1. result' = "uncaught" /\ ~ Caught(p)
    BY <1>1, <1>4 DEF Throw, Caught
  <2>. HIDE DEF p
  <2>2. vm' = [p EXCEPT !.thrown = TRUE]
    BY <1>2, <2>1 DEF throwError
  <2>3. /\ vm' \in Machine /\ vm'.frames = p.frames /\ vm'.stack_top = p.stack_top
        /\ vm'.frame_count = p.frame_count /\ vm'.try_stack = p.try_stack
    BY <1>1, <2>2 DEF Machine
  <2>4. Good(vm')
    BY <1>1, <2>3, GoodData
  <2>5. AtRest(vm')
    BY <1>1, <2>3 DEF AtRest
  <2>6. vm'.stack_top \in 0..StackMax + HeightMax
    BY <1>1, <1>4, <2>3
  <2>. QED  BY <2>1, <2>4, <2>5, <2>6 DEF Inv
<1>. QED  BY <1>3, <1>4

LEMMA RefuseInv ==
  ASSUME Inv, vm.frame_count > 0, Refuse
  PROVE  Inv'
<1>. DEFINE p == Staged(vm, "failed")
<1>1. Good(vm)
  BY DEF Inv
<1>2. /\ Good(p) /\ p.stack_top = vm.stack_top
      /\ p.frames[p.frame_count].ip.stage = "failed"
  BY <1>1, StageFacts
<1>3. vm' = p /\ result' = "refused"
  BY DEF Refuse
<1>. HIDE DEF p
<1>4. Good(vm') /\ AtRest(vm') /\ vm'.stack_top \in 0..StackMax + HeightMax
  BY <1>2, <1>3 DEF AtRest, Inv
<1>. QED  BY <1>3, <1>4 DEF Inv

-----------------------------------------------------------------------------
(* An instruction of the top frame. *)

LEMMA FloorFits ==
  ASSUME NEW ip, ip.code \in Function, ip.open \in Seq(1..HeightMax)
  PROVE  Floor(ip) \in 1..HeightMax
<1>1. CASE ip.open = <<>>
  <2>1. Arity[ip.code] \in Nat /\ Arity[ip.code] < HeightMax
    BY ControlAssumption
  <2>2. Floor(ip) = Arity[ip.code] + 1
    BY <1>1 DEF Floor
  <2>. QED  BY <2>1, <2>2, Limits
<1>2. CASE ip.open # <<>>
  <2>1. Floor(ip) = Last(ip.open)
    BY <1>2 DEF Floor
  <2>. QED  BY <1>2, <2>1, FrontFacts
<1>. QED  BY <1>1, <1>2

LEMMA InCodeFacts ==
  ASSUME Inv, InCode
  PROVE  /\ vm \in Machine /\ Good(vm)
         /\ vm.frame_count \in 1..FramesMax
         /\ Top \in FrameType /\ Top.ip \in Place
         /\ Top.ip.code = Top.function /\ Top.ip.stage = "code"
         /\ Top.ip.open \in Seq(1..HeightMax)
         /\ Top.slots \in 0..StackMax /\ Top.ip.height \in 1..HeightMax
         /\ vm.stack_top = Top.slots + Top.ip.height
         /\ vm.stack_top \in 0..StackMax + HeightMax
         /\ Floor(Top.ip) \in 1..HeightMax
<1>1. /\ vm \in Machine /\ Good(vm) /\ Fits(vm) /\ vm.frame_count > 0
      /\ vm.stack_top \in 0..StackMax + HeightMax
  BY DEF Inv, InCode, Running, Good, Fits
<1>2. vm.frame_count \in 1..FramesMax
  BY <1>1 DEF Machine
<1>3. Top \in FrameType /\ Top.ip \in Place
  BY <1>1, <1>2 DEF Machine, FrameType, Top
<1>4. Top.ip.code = Top.function /\ Top.ip.stage = "code"
  BY DEF InCode, Running
<1>5. /\ Top.slots \in 0..StackMax /\ Top.ip.height \in 1..HeightMax
      /\ Top.ip.open \in Seq(1..HeightMax) /\ Top.ip.code \in Function
  BY <1>3 DEF FrameType, Place
<1>6. vm.stack_top = Top.slots + Top.ip.height
  BY <1>1, <1>4 DEF Fits, Top
<1>7. Floor(Top.ip) \in 1..HeightMax
  BY <1>5, FloorFits
<1>. QED  BY <1>1, <1>2, <1>3, <1>4, <1>5, <1>6, <1>7

LEMMA HeightsFit ==
  ASSUME Inv, InCode
  PROVE  /\ Top.ip.height < HeightMax => Top.ip.height + 1 \in 1..HeightMax
         /\ Top.ip.height > Floor(Top.ip) => Top.ip.height - 1 \in 1..HeightMax
         /\ \A argc \in 0..HeightMax :
              Top.ip.height > Floor(Top.ip) + argc => Top.ip.height - argc \in 1..HeightMax
<1>. DEFINE h == Top.ip.height
            l == Floor(Top.ip)
<1>1. h \in 1..HeightMax /\ l \in 1..HeightMax
  BY InCodeFacts
<1>. HIDE DEF h, l
<1>2. h < HeightMax => h + 1 \in 1..HeightMax
  BY <1>1, Limits
<1>3. h > l => h - 1 \in 1..HeightMax
  BY <1>1, Limits
<1>4. \A argc \in 0..HeightMax : h > l + argc => h - argc \in 1..HeightMax
  BY <1>1, Limits
<1>. QED  BY <1>2, <1>3, <1>4 DEF h, l

LEMMA IpFacts ==
  ASSUME Inv, InCode, NEW ip \in Place
  PROVE  LET n == WithIp(vm, ip) IN
         /\ n \in Machine
         /\ n.frame_count = vm.frame_count /\ n.stack_top = vm.stack_top
         /\ n.try_stack = vm.try_stack
         /\ \A i \in 1..vm.frame_count : i # vm.frame_count => n.frames[i] = vm.frames[i]
         /\ n.frames[vm.frame_count].ip = ip
         /\ n.frames[vm.frame_count].slots = Top.slots
         /\ n.frames[vm.frame_count].function = Top.function
<1>1. vm \in Machine /\ vm.frame_count \in 1..FramesMax
  BY InCodeFacts
<1>2. vm.frame_count > 0 /\ \A i \in 1..vm.frame_count : i \in 1..FramesMax
  BY <1>1, Limits
<1>3. Top = vm.frames[vm.frame_count]
  BY DEF Top
<1>. DEFINE n == WithIp(vm, ip)
<1>. HIDE DEF n
<1>4. /\ n \in Machine
      /\ n.frame_count = vm.frame_count /\ n.stack_top = vm.stack_top
      /\ n.try_stack = vm.try_stack
      /\ \A i \in 1..FramesMax : i # vm.frame_count => n.frames[i] = vm.frames[i]
      /\ n.frames[vm.frame_count].ip = ip
      /\ n.frames[vm.frame_count].slots = vm.frames[vm.frame_count].slots
      /\ n.frames[vm.frame_count].function = vm.frames[vm.frame_count].function
  BY <1>1, <1>2, WithIpFacts DEF n
<1>. QED  BY <1>2, <1>3, <1>4 DEF n

(***************************************************************************)
(* The top frame counts its stack anew, in the same try bodies.            *)
(***************************************************************************)
LEMMA HeightFacts ==
  ASSUME Inv, InCode, NEW h \in 1..HeightMax
  PROVE  LET n == WithIp(vm, Height(h)) IN
         /\ Height(h) \in Place /\ Height(h).stage = "code"
         /\ Height(h).height = h /\ Height(h).open = Top.ip.open
         /\ Height(h).code = Top.function
         /\ n \in Machine /\ Good(n)
         /\ n.frame_count = vm.frame_count /\ n.stack_top = vm.stack_top
         /\ n.try_stack = vm.try_stack
         /\ n.frames[n.frame_count].ip = Height(h)
         /\ n.frames[n.frame_count].slots = Top.slots
         /\ n.frames[n.frame_count].function = Top.function
         /\ \A i \in 1..vm.frame_count : i # vm.frame_count => n.frames[i] = vm.frames[i]
<1>1. /\ vm \in Machine /\ Good(vm) /\ vm.frame_count \in 1..FramesMax
      /\ Top.ip \in Place /\ Top.ip.code = Top.function /\ Top.ip.stage = "code"
  BY InCodeFacts
<1>. DEFINE ip == Height(h)
            n == WithIp(vm, ip)
<1>2. /\ ip \in Place /\ ip.stage = "code" /\ ip.height = h
      /\ ip.open = Top.ip.open /\ ip.code = Top.function
  <2>. DEFINE was == Top.ip
  <2>1. was \in Place /\ was.code = Top.function /\ was.stage = "code"
    BY <1>1
  <2>2. ip = [was EXCEPT !.height = h]
    BY DEF Height
  <2>. HIDE DEF was, ip
  <2>3. ip \in Place /\ ip.stage = was.stage /\ ip.height = h /\ ip.open = was.open /\ ip.code = was.code
    BY <2>1, <2>2 DEF Place
  <2>. QED  BY <2>1, <2>3 DEF was
<1>. HIDE DEF ip
<1>3. /\ n \in Machine
      /\ n.frame_count = vm.frame_count /\ n.stack_top = vm.stack_top
      /\ n.try_stack = vm.try_stack
      /\ \A i \in 1..vm.frame_count : i # vm.frame_count => n.frames[i] = vm.frames[i]
      /\ n.frames[vm.frame_count].ip = ip
      /\ n.frames[vm.frame_count].slots = Top.slots
      /\ n.frames[vm.frame_count].function = Top.function
  BY <1>2, IpFacts
<1>. HIDE DEF n
<1>4. SameTrys(vm, n)
  <2>1. ASSUME NEW i \in 1..vm.frame_count
        PROVE  /\ n.frames[i].function = vm.frames[i].function
               /\ n.frames[i].slots = vm.frames[i].slots
               /\ n.frames[i].ip.open = vm.frames[i].ip.open
               /\ i < vm.frame_count => n.frames[i].ip = vm.frames[i].ip
    <3>1. CASE i = vm.frame_count
      <4>1. vm.frames[i] = Top /\ ~ (i < vm.frame_count)
        BY <1>1, <3>1 DEF Top
      <4>. QED  BY <1>2, <1>3, <3>1, <4>1
    <3>2. CASE i # vm.frame_count
      <4>1. n.frames[i] = vm.frames[i]
        BY <1>3, <3>2
      <4>. QED  BY <4>1
    <3>. QED  BY <3>1, <3>2
  <2>. QED  BY <1>3, <2>1 DEF SameTrys
<1>5. Good(n)
  <2>1. n.frames[n.frame_count].ip.stage # "halted"
    BY <1>2, <1>3
  <2>. QED  BY <1>1, <1>3, <1>4, <2>1, GoodSame
<1>6. n.frames[n.frame_count].ip = ip
  BY <1>3
<1>. QED  BY <1>2, <1>3, <1>5, <1>6 DEF n, ip

-----------------------------------------------------------------------------
(* The actions. *)

LEMMA ReadyFacts ==
  ASSUME Inv, result \in {"ok", "uncaught", "refused"}, NEW host
  PROVE  LET m == Ready(host) IN
         /\ m \in Machine /\ Good(m) /\ AtRest(m)
         /\ m.stack_top \in 0..StackMax + HeightMax
         /\ m = vm \/ m.try_stack = <<>>
<1>1. Good(vm) /\ vm \in Machine /\ AtRest(vm) /\ vm.stack_top \in 0..StackMax + HeightMax
  BY DEF Inv, Good
<1>. DEFINE m == Ready(host)
            n == [vm EXCEPT !.stack_top = 0, !.frame_count = 0, !.try_stack = <<>>,
                            !.thrown = FALSE]
<1>2. /\ n.stack_top = 0 /\ n.frame_count = 0 /\ n.try_stack = <<>> /\ n \in Machine
  <2>1. <<>> \in Seq(HandlerType) /\ 0 \in 0..FramesMax /\ 0 \in Int
    BY EmptySeq, Limits
  <2>2. n.stack_top = 0 /\ n.frame_count = 0 /\ n.try_stack = <<>>
    BY <1>1 DEF Machine
  <2>3. ASSUME NEW e \in Seq(HandlerType)
        PROVE  [vm EXCEPT !.stack_top = 0, !.frame_count = 0, !.try_stack = e,
                          !.thrown = FALSE] \in Machine
    BY <1>1, <2>1 DEF Machine
  <2>. QED  BY <2>1, <2>2, <2>3
<1>3. Good(n)
  <2>. HIDE DEF n
  <2>. QED  BY <1>2, GoodReset
<1>4. AtRest(n) /\ n.stack_top \in 0..StackMax + HeightMax
  BY <1>2, Limits DEF AtRest
<1>5. m = n \/ m = vm
  BY DEF Ready
<1>. HIDE DEF m, n
<1>. QED  BY <1>1, <1>2, <1>3, <1>4, <1>5 DEF m

LEMMA RunVMInv ==
  ASSUME Inv, RunVM
  PROVE  Inv'
<1>1. PICK host \in Hosts :
        PushOn(IF Ready(host).frame_count >= FramesMax THEN Ready(host)
               ELSE [Ready(host) EXCEPT !.frame_count = @ + 1,
                       !.frames[Ready(host).frame_count + 1] = Frame(Script, Ready(host).stack_top)])
  BY DEF RunVM
<1>. DEFINE m == Ready(host)
<1>2. /\ m \in Machine /\ Good(m) /\ AtRest(m)
      /\ m.stack_top \in 0..StackMax + HeightMax
  BY ReadyFacts DEF RunVM
<1>3. m.frame_count \in 0..FramesMax
  BY <1>2 DEF Machine
<1>. HIDE DEF m
<1>4. CASE m.frame_count >= FramesMax
  <2>1. PushOn(m)
    BY <1>1, <1>4 DEF m
  <2>2. m.frame_count > 0 /\ m.stack_top >= 0 /\ m.stack_top \in Int
    BY <1>2, <1>3, <1>4, Limits
  <2>3. m.frames[m.frame_count].ip.stage # "code"
    BY <1>2, <2>2 DEF AtRest
  <2>. QED  BY <1>2, <2>1, <2>2, <2>3, PushInv
<1>5. CASE ~ (m.frame_count >= FramesMax)
  <2>. DEFINE c == m.frame_count
              s == m.stack_top
              f == Frame(Script, s)
              p == [m EXCEPT !.frame_count = @ + 1, !.frames[c + 1] = f]
  <2>1. PushOn(p)
    BY <1>1, <1>5 DEF m
  <2>2. c + 1 \in 1..FramesMax /\ c \in Nat /\ s \in Nat
    BY <1>2, <1>3, <1>5, Limits
  <2>3. /\ p.frame_count = c + 1 /\ p.stack_top = s /\ p.try_stack = m.try_stack
        /\ p.frames = [m.frames EXCEPT ![c + 1] = f]
    BY <1>2 DEF Machine
  <2>4. /\ p.frames[c + 1] = f
        /\ \A i \in 1..c : p.frames[i] = m.frames[i]
    <3>1. c + 1 \in DOMAIN m.frames
      BY <1>2, <2>2 DEF Machine
    <3>2. \A i \in 1..c : i # c + 1 /\ i \in DOMAIN m.frames
      BY <1>2, <2>2, Limits DEF Machine
    <3>. HIDE DEF f
    <3>. QED  BY <2>3, <3>1, <3>2
  <2>5. /\ f.function = Script /\ f.slots = s /\ f.ip.open = <<>> /\ f.ip.stage = "code"
        /\ f.ip.height = 1
    BY ControlAssumption DEF Frame, EntryOf, At
  <2>6. ASSUME s < StackMax PROVE Good(p)
    <3>1. f \in FrameType
      <4>1. EntryOf(Script) \in Place
        <5>1. <<>> \in Seq(1..HeightMax) /\ Arity[Script] + 1 \in 1..HeightMax
          BY ControlAssumption, EmptySeq, Limits
        <5>. QED  BY <5>1, ControlAssumption DEF EntryOf, At, Place
      <4>2. s \in 0..StackMax /\ Script \in Function
        BY <2>2, <2>6, Limits, ControlAssumption
      <4>. QED  BY <4>1, <4>2 DEF Frame, FrameType
    <3>2. p.frames \in [1..FramesMax -> FrameType]
      BY <1>2, <2>2, <2>3, <3>1 DEF Machine
    <3>3. p = [m EXCEPT !.frame_count = c + 1, !.frames = p.frames]
      BY <1>2, <2>3 DEF Machine
    <3>4. c + 1 \in 0..FramesMax
      BY <2>2
    <3>5. p \in Machine
      <4>. HIDE DEF p
      <4>. QED  BY <1>2, <3>2, <3>3, <3>4 DEF Machine
    <3>6. \A i \in 1..c : p.frames[i] = m.frames[i]
      BY <2>4
    <3>7. c > 0 => m.frames[c].ip.stage # "code"
      BY <1>2 DEF AtRest
    <3>8. c > 0 => c \in 1..c
      BY <2>2
    <3>9. c = 0 => p.frames[1].function = Script
      BY <2>4, <2>5
    <3>10. p.frames[p.frame_count].ip.open = <<>>
      BY <2>3, <2>4, <2>5
    <3>11. ~ (c > 0 /\ p.frames[c].ip.stage = "code")
      BY <3>6, <3>7, <3>8
    <3>. HIDE DEF p, f, s
    <3>. QED  BY <1>2, <2>3, <3>5, <3>6, <3>9, <3>10, <3>11, GoodCall
  <2>7. p.stack_top + 1 = p.frames[p.frame_count].slots + p.frames[p.frame_count].ip.height
    BY <2>2, <2>3, <2>4, <2>5
  <2>8. p.frame_count > 0 /\ p.stack_top >= 0 /\ p.stack_top \in Int
    BY <2>2, <2>3
  <2>9. p.stack_top < StackMax => Good(p)
    BY <2>3, <2>6
  <2>. HIDE DEF p
  <2>. QED  BY <2>1, <2>7, <2>8, <2>9, PushInv
<1>. QED  BY <1>4, <1>5

LEMMA PushActionInv ==
  ASSUME Inv, Push
  PROVE  Inv'
<1>1. InCode /\ Top.ip.height < HeightMax /\ PushOn(WithIp(vm, Height(Top.ip.height + 1)))
  BY DEF Push
<1>. DEFINE h == Top.ip.height + 1
            n == WithIp(vm, Height(h))
<1>2. /\ Top.ip.height \in 1..HeightMax /\ vm.stack_top = Top.slots + Top.ip.height
      /\ Top.slots \in 0..StackMax /\ vm.frame_count \in 1..FramesMax
  BY <1>1, InCodeFacts
<1>3. h \in 1..HeightMax
  BY <1>1, <1>2, Limits
<1>. HIDE DEF h
<1>4. /\ Good(n) /\ n.frame_count = vm.frame_count /\ n.stack_top = vm.stack_top
      /\ n.frames[n.frame_count].ip.height = h
      /\ n.frames[n.frame_count].slots = Top.slots
  BY <1>1, <1>3, HeightFacts
<1>5. PushOn(n)
  BY <1>1 DEF h
<1>. HIDE DEF n
<1>6. n.frame_count > 0 /\ n.stack_top >= 0 /\ n.stack_top \in Int
  BY <1>2, <1>4
<1>7. n.stack_top + 1 = n.frames[n.frame_count].slots + n.frames[n.frame_count].ip.height
  BY <1>2, <1>4 DEF h
<1>. QED  BY <1>4, <1>5, <1>6, <1>7, PushInv

LEMMA PopInv ==
  ASSUME Inv, Pop
  PROVE  Inv'
<1>1. InCode /\ Top.ip.height > Floor(Top.ip) /\ Continue(Moved(Height(Top.ip.height - 1)))
  BY DEF Pop
<1>. DEFINE h == Top.ip.height - 1
            n == WithIp(vm, Height(h))
            p == Moved(Height(h))
<1>2. /\ Top.ip.height \in 1..HeightMax /\ vm.stack_top = Top.slots + Top.ip.height
      /\ Top.slots \in 0..StackMax /\ vm.frame_count \in 1..FramesMax
      /\ Floor(Top.ip) \in 1..HeightMax
  BY <1>1, InCodeFacts
<1>3. h \in 1..HeightMax
  BY <1>1, <1>2, Limits
<1>. HIDE DEF h
<1>4. /\ Good(n) /\ n \in Machine /\ n.frame_count = vm.frame_count /\ n.stack_top = vm.stack_top
      /\ n.frames[n.frame_count].ip = Height(h) /\ Height(h).height = h
      /\ n.frames[n.frame_count].slots = Top.slots
  BY <1>1, <1>3, HeightFacts
<1>5. p = [n EXCEPT !.stack_top = vm.stack_top + h - Top.ip.height]
  BY <1>4 DEF Moved
<1>. DEFINE x == vm.stack_top + h - Top.ip.height
<1>6. x \in Int /\ x = Top.slots + h /\ x \in 1..StackMax + HeightMax /\ x \in 0..StackMax + HeightMax
  BY <1>2, <1>3, Limits
<1>. HIDE DEF x, n
<1>7. /\ p \in Machine /\ p.stack_top = x /\ p.frames = n.frames
      /\ p.frame_count = n.frame_count /\ p.try_stack = n.try_stack
  BY <1>4, <1>5, <1>6, StackFacts DEF x
<1>. HIDE DEF p
<1>8. Good(p)
  BY <1>4, <1>7, GoodData
<1>9. Fits(p)
  BY <1>2, <1>4, <1>6, <1>7 DEF Fits
<1>10. Continue(p)
  BY <1>1 DEF p, h
<1>. QED  BY <1>6, <1>7, <1>8, <1>9, <1>10, ContinueInv

LEMMA OpTryInv ==
  ASSUME Inv, OpTry
  PROVE  Inv'
<1>. DEFINE h == Top.ip.height
            open == Top.ip.open
            ip == [Top.ip EXCEPT !.open = Append(@, h)]
            w == WithIp(vm, ip)
            hd == [catch_ip    |-> Height(h + 1),
                   stack_top   |-> vm.stack_top,
                   frame_count |-> vm.frame_count]
            n == [w EXCEPT !.try_stack = Append(@, hd)]
<1>1. InCode /\ h < HeightMax
  BY DEF OpTry
<1>2. /\ vm \in Machine /\ Good(vm) /\ vm.frame_count \in 1..FramesMax
      /\ Top.ip \in Place /\ Top.ip.code = Top.function /\ Top.ip.stage = "code"
      /\ open \in Seq(1..HeightMax) /\ Top.slots \in 0..StackMax
      /\ h \in 1..HeightMax /\ vm.stack_top = Top.slots + h
      /\ vm.stack_top \in 0..StackMax + HeightMax
  BY <1>1, InCodeFacts
<1>3. vm.frame_count > 0 /\ Top = vm.frames[vm.frame_count]
  BY <1>2 DEF Top
<1>4. CASE TryFull
  <2>1. Refuse
    BY <1>4 DEF OpTry
  <2>. QED  BY <1>3, <2>1, RefuseInv
<1>5. CASE ~ TryFull
  <2>1. Continue(n)
    BY <1>5 DEF OpTry
  <2>2. Len(vm.try_stack) < TryMax
    <3>1. Len(vm.try_stack) \in Nat /\ ~ (Len(vm.try_stack) >= TryMax)
      BY <1>2, <1>5, LenProperties DEF Machine, TryFull
    <3>. QED  BY <3>1, Limits
  <2>3. /\ ip \in Place /\ ip.open = Append(open, h) /\ ip.height = h
        /\ ip.stage = "code" /\ ip.code = Top.function
    <3>. DEFINE was == Top.ip
                o == Append(open, h)
    <3>1. was \in Place /\ was.code = Top.function /\ was.stage = "code" /\ was.height = h
      BY <1>2
    <3>2. o \in Seq(1..HeightMax)
      BY <1>2, AppendFacts
    <3>3. ip = [was EXCEPT !.open = o]
      BY <3>1 DEF Place
    <3>. HIDE DEF was, o, ip, h
    <3>4. /\ ip \in Place /\ ip.open = o /\ ip.height = was.height /\ ip.stage = was.stage
          /\ ip.code = was.code
      BY <3>1, <3>2, <3>3 DEF Place
    <3>. QED  BY <3>1, <3>4 DEF o
  <2>4. /\ Height(h + 1) \in Place
        /\ Height(h + 1) = At(Top.function, open, h + 1)
    <3>1. h + 1 \in 1..HeightMax
      BY SMTT(30), <1>1, <1>2, Limits
    <3>2. /\ Height(h + 1) \in Place /\ Height(h + 1).stage = "code"
          /\ Height(h + 1).height = h + 1 /\ Height(h + 1).open = open
          /\ Height(h + 1).code = Top.function
      BY <1>1, <3>1, HeightFacts
    <3>. DEFINE q == Height(h + 1)
    <3>3. q = [code |-> q.code, open |-> q.open, height |-> q.height, stage |-> q.stage]
      <4>1. q \in Place
        BY <3>2
      <4>. HIDE DEF q
      <4>. QED  BY <4>1 DEF Place
    <3>. QED  BY <3>2, <3>3 DEF At
  <2>5. hd \in HandlerType
    <3>. DEFINE q == Height(h + 1)
    <3>1. q \in Place
      BY <2>4
    <3>. HIDE DEF q
    <3>2. [catch_ip |-> q, stack_top |-> vm.stack_top, frame_count |-> vm.frame_count] \in HandlerType
      BY <1>2, <3>1 DEF HandlerType
    <3>. QED  BY <3>2 DEF q
  <2>6. hd = BodyHandler(vm, h)
    BY <1>2, <1>3, <2>4 DEF BodyHandler
  <2>. HIDE DEF ip, w, hd
  <2>7. /\ w \in Machine
        /\ w.frame_count = vm.frame_count /\ w.stack_top = vm.stack_top
        /\ w.try_stack = vm.try_stack
        /\ \A i \in 1..vm.frame_count : i # vm.frame_count => w.frames[i] = vm.frames[i]
        /\ w.frames[vm.frame_count].ip = ip
        /\ w.frames[vm.frame_count].slots = Top.slots
        /\ w.frames[vm.frame_count].function = Top.function
    BY <1>1, <2>3, IpFacts DEF w
  <2>8. n = [w EXCEPT !.try_stack = Append(vm.try_stack, hd)]
    BY <2>7
  <2>9. Append(vm.try_stack, hd) \in Seq(HandlerType)
    BY <1>2, <2>5, AppendFacts DEF Machine
  <2>. HIDE DEF n
  <2>10. /\ n \in Machine /\ n.try_stack = Append(vm.try_stack, hd)
         /\ n.frames = w.frames /\ n.frame_count = w.frame_count /\ n.stack_top = w.stack_top
    BY <2>7, <2>8, <2>9 DEF Machine
  <2>11. TopMoves(vm, n)
    BY <1>3, <2>3, <2>7, <2>10 DEF TopMoves
  <2>12. EntersTry(vm, n, h)
    BY <1>3, <2>2, <2>3, <2>5, <2>6, <2>7, <2>10, <2>11 DEF EntersTry
  <2>13. Good(n)
    BY <1>2, <2>10, <2>12, GoodTry
  <2>14. Fits(n)
    BY <1>2, <2>3, <2>7, <2>10 DEF Fits
  <2>15. n.stack_top \in 0..StackMax + HeightMax
    BY <1>2, <2>7, <2>10
  <2>. QED  BY <2>1, <2>13, <2>14, <2>15, ContinueInv
<1>. QED  BY <1>4, <1>5

LEMMA OpTryEndInv ==
  ASSUME Inv, OpTryEnd
  PROVE  Inv'
<1>. DEFINE h == Top.ip.height
            open == Top.ip.open
            c == vm.frame_count
            ip == [Top.ip EXCEPT !.open = Front(@)]
            w == WithIp(vm, ip)
            n == [w EXCEPT !.try_stack = IF @ = <<>> THEN @ ELSE Front(@)]
<1>1. InCode /\ open # <<>> /\ Continue(n)
  BY DEF OpTryEnd
<1>2. /\ vm \in Machine /\ Good(vm) /\ c \in 1..FramesMax
      /\ Top.ip \in Place /\ Top.ip.code = Top.function /\ Top.ip.stage = "code"
      /\ open \in Seq(1..HeightMax) /\ Top.slots \in 0..StackMax
      /\ h \in 1..HeightMax /\ vm.stack_top = Top.slots + h
      /\ vm.stack_top \in 0..StackMax + HeightMax
  BY <1>1, InCodeFacts
<1>3. c > 0 /\ c \in 1..c /\ Top = vm.frames[c] /\ vm.try_stack \in Seq(HandlerType)
  BY <1>2 DEF Top, Machine
<1>4. /\ ip \in Place /\ ip.open = Front(open) /\ ip.height = h
      /\ ip.stage = "code" /\ ip.code = Top.function
  <2>. DEFINE was == Top.ip
              o == Front(open)
  <2>1. was \in Place /\ was.code = Top.function /\ was.stage = "code" /\ was.height = h
    BY <1>2
  <2>2. o \in Seq(1..HeightMax)
    BY <1>1, <1>2, FrontFacts
  <2>3. ip = [was EXCEPT !.open = o]
    BY <2>1 DEF Place
  <2>. HIDE DEF was, o, ip, h
  <2>4. /\ ip \in Place /\ ip.open = o /\ ip.height = was.height /\ ip.stage = was.stage
        /\ ip.code = was.code
    BY <2>1, <2>2, <2>3 DEF Place
  <2>. QED  BY <2>1, <2>4 DEF o
<1>5. vm.try_stack # <<>> /\ vm.try_stack[Len(vm.try_stack)].frame_count = c
  <2>1. PICK below : MirrorBy(vm, below)
    BY <1>2 DEF Good, Mirror
  <2>2. Len(open) \in Nat \ {0} /\ Len(vm.try_stack) \in Nat
    BY <1>1, <1>2, <1>3, FrontFacts, LenProperties
  <2>3. /\ below[c + 1] = Len(vm.try_stack)
        /\ below[c + 1] = below[c] + Len(open)
        /\ \A k \in 1..Len(open) : vm.try_stack[below[c] + k] = HandlerIn(vm, c, k)
    BY <1>3, <2>1 DEF MirrorBy
  <2>4. below[c] \in 0..Len(vm.try_stack)
    BY <1>3, <2>1 DEF MirrorBy
  <2>5. Len(vm.try_stack) > 0 /\ Len(open) \in 1..Len(open)
    BY <2>2, <2>3, <2>4
  <2>6. vm.try_stack[Len(vm.try_stack)] = HandlerIn(vm, c, Len(open))
    BY <2>3, <2>5
  <2>. QED  BY <2>5, <2>6, EmptySeq DEF HandlerIn
<1>. HIDE DEF ip, w
<1>6. /\ w \in Machine
      /\ w.frame_count = c /\ w.stack_top = vm.stack_top
      /\ w.try_stack = vm.try_stack
      /\ \A i \in 1..c : i # c => w.frames[i] = vm.frames[i]
      /\ w.frames[c].ip = ip
      /\ w.frames[c].slots = Top.slots
      /\ w.frames[c].function = Top.function
  BY <1>1, <1>4, IpFacts DEF w
<1>7. n = [w EXCEPT !.try_stack = Front(vm.try_stack)]
  BY <1>5, <1>6
<1>8. Front(vm.try_stack) \in Seq(HandlerType)
  BY <1>3, <1>5, FrontFacts
<1>9. Continue(n)
  BY <1>1 DEF w, ip
<1>. HIDE DEF n
<1>10. /\ n \in Machine /\ n.try_stack = Front(vm.try_stack)
       /\ n.frames = w.frames /\ n.frame_count = w.frame_count /\ n.stack_top = w.stack_top
  BY <1>6, <1>7, <1>8 DEF Machine
<1>11. LeavesBody(vm, n, c)
  BY <1>3, <1>4, <1>5, <1>6, <1>10 DEF LeavesBody
<1>12. Good(n)
  BY <1>2, <1>10, <1>11, GoodLeave
<1>13. Fits(n)
  BY <1>2, <1>4, <1>6, <1>10 DEF Fits
<1>14. n.stack_top \in 0..StackMax + HeightMax
  BY <1>2, <1>6, <1>10
<1>. QED  BY <1>9, <1>12, <1>13, <1>14, ContinueInv

(***************************************************************************)
(* An error whose instruction first takes some values off the stack.       *)
(***************************************************************************)
LEMMA ThrowDownInv ==
  ASSUME Inv, InCode, NEW d \in Nat, d < Top.ip.height,
         Throw([vm EXCEPT !.stack_top = vm.stack_top - d])
  PROVE  Inv'
<1>. DEFINE n == [vm EXCEPT !.stack_top = vm.stack_top - d]
<1>1. /\ vm \in Machine /\ Good(vm) /\ vm.frame_count \in 1..FramesMax
      /\ Top.ip.height \in 1..HeightMax /\ Top.slots \in 0..StackMax
      /\ vm.stack_top = Top.slots + Top.ip.height
      /\ vm.stack_top \in 0..StackMax + HeightMax
  BY InCodeFacts
<1>2. vm.stack_top - d \in Int /\ vm.stack_top - d \in 0..StackMax + HeightMax
  BY <1>1, Limits
<1>3. /\ n \in Machine /\ n.stack_top = vm.stack_top - d /\ n.frames = vm.frames
      /\ n.frame_count = vm.frame_count /\ n.try_stack = vm.try_stack
  BY <1>1, <1>2, StackFacts
<1>4. Throw(n)
  OBVIOUS
<1>. HIDE DEF n
<1>5. Good(n)
  BY <1>1, <1>3, GoodData
<1>6. n.frame_count > 0 /\ n.stack_top \in 0..StackMax + HeightMax
  BY <1>1, <1>2, <1>3
<1>. QED  BY <1>4, <1>5, <1>6, ThrowInv

LEMMA ThrowsInv ==
  ASSUME Inv,
         \/ OpThrow
         \/ ThrowError
         \/ \E argc \in 0..HeightMax : NativeError(argc)
  PROVE  Inv'
<1>1. CASE OpThrow
  <2>1. /\ InCode /\ Top.ip.height > Floor(Top.ip)
        /\ Throw([vm EXCEPT !.stack_top = @ - 1])
    BY <1>1 DEF OpThrow
  <2>2. /\ vm \in Machine /\ Top.ip.height \in 1..HeightMax /\ Floor(Top.ip) \in 1..HeightMax
    BY <2>1, InCodeFacts
  <2>3. Throw([vm EXCEPT !.stack_top = vm.stack_top - 1])
    BY <2>1, <2>2 DEF Machine
  <2>4. 1 \in Nat /\ 1 < Top.ip.height
    BY <2>1, <2>2
  <2>. QED  BY <2>1, <2>3, <2>4, ThrowDownInv
<1>2. CASE ThrowError
  <2>1. InCode /\ Throw(vm)
    BY <1>2 DEF ThrowError
  <2>2. Good(vm) /\ vm.frame_count \in 1..FramesMax /\ vm.stack_top \in 0..StackMax + HeightMax
    BY <2>1, InCodeFacts
  <2>3. vm.frame_count > 0
    BY <2>2
  <2>. QED  BY <2>1, <2>2, <2>3, ThrowInv
<1>3. ASSUME NEW argc \in 0..HeightMax, NativeError(argc)
      PROVE  Inv'
  <2>1. /\ InCode /\ Top.ip.height > Floor(Top.ip) + argc
        /\ Throw([vm EXCEPT !.stack_top = @ - argc - 1])
    BY <1>3 DEF NativeError, Calls
  <2>2. /\ vm \in Machine /\ Top.ip.height \in 1..HeightMax /\ Floor(Top.ip) \in 1..HeightMax
        /\ vm.stack_top \in Int
    BY <2>1, InCodeFacts
  <2>3. argc \in Nat /\ vm.stack_top - argc - 1 = vm.stack_top - (argc + 1)
    BY <2>2, Limits
  <2>4. Throw([vm EXCEPT !.stack_top = vm.stack_top - (argc + 1)])
    <3>1. [vm EXCEPT !.stack_top = @ - argc - 1] = [vm EXCEPT !.stack_top = vm.stack_top - argc - 1]
      BY <2>2 DEF Machine
    <3>. QED  BY <2>1, <2>3, <3>1
  <2>5. argc + 1 \in Nat /\ argc + 1 < Top.ip.height
    BY <2>1, <2>2, <2>3
  <2>. QED  BY <2>1, <2>4, <2>5, ThrowDownInv
<1>. QED  BY <1>1, <1>2, <1>3

LEMMA NativeThrowsInv ==
  ASSUME Inv, NativeThrows
  PROVE  Inv'
<1>. DEFINE p == Staged(vm, "failed")
            q == throwError(p)
            n == [q EXCEPT !.stack_top = @ - 2]
<1>1. InCode /\ Top.ip.height > Floor(Top.ip) + 1 /\ Throw(n)
  BY DEF NativeThrows, Calls
<1>2. /\ vm \in Machine /\ Good(vm) /\ vm.frame_count \in 1..FramesMax
      /\ Top.ip.height \in 1..HeightMax /\ Floor(Top.ip) \in 1..HeightMax
      /\ Top.slots \in 0..StackMax
      /\ vm.stack_top = Top.slots + Top.ip.height
      /\ vm.stack_top \in 0..StackMax + HeightMax
  BY <1>1, InCodeFacts
<1>3. vm.stack_top \in 2..StackMax + HeightMax /\ vm.frame_count > 0
  BY <1>1, <1>2, Limits
<1>4. /\ p \in Machine /\ Good(p) /\ p.frame_count = vm.frame_count
      /\ p.stack_top = vm.stack_top
  BY <1>2, <1>3, StageFacts
<1>. HIDE DEF p
<1>5. /\ q \in Machine /\ Good(q) /\ q.frame_count > 0
      /\ q.stack_top \in 2..StackMax + HeightMax
  <2>1. CASE Caught(p)
    BY <1>4, <2>1, CatchFacts
  <2>2. CASE ~ Caught(p)
    <3>1. q = [p EXCEPT !.thrown = TRUE]
      BY <2>2 DEF throwError
    <3>. HIDE DEF q
    <3>2. /\ q \in Machine /\ q.frames = p.frames /\ q.stack_top = p.stack_top
          /\ q.frame_count = p.frame_count /\ q.try_stack = p.try_stack
      BY <1>4, <3>1 DEF Machine
    <3>3. Good(q)
      BY <1>4, <3>2, GoodData
    <3>. QED  BY <1>3, <1>4, <3>2, <3>3
  <2>. QED  BY <2>1, <2>2
<1>6. Throw(n)
  BY <1>1 DEF p
<1>. HIDE DEF q
<1>7. q.stack_top - 2 \in Int /\ q.stack_top - 2 \in 0..StackMax + HeightMax
  BY <1>5, Limits
<1>8. n = [q EXCEPT !.stack_top = q.stack_top - 2]
  BY <1>5 DEF Machine
<1>. HIDE DEF n
<1>9. /\ n \in Machine /\ n.stack_top = q.stack_top - 2 /\ n.frames = q.frames
      /\ n.frame_count = q.frame_count /\ n.try_stack = q.try_stack
  BY <1>5, <1>7, <1>8, StackFacts
<1>10. Good(n)
  BY <1>5, <1>9, GoodData
<1>. QED  BY <1>5, <1>6, <1>7, <1>9, <1>10, ThrowInv

LEMMA CallNativeInv ==
  ASSUME Inv, NEW argc \in 0..HeightMax, CallNative(argc)
  PROVE  Inv'
<1>. DEFINE h == Top.ip.height - argc
            w == WithIp(vm, Height(h))
            n == [w EXCEPT !.stack_top = @ - argc, !.thrown = FALSE]
<1>1. InCode /\ Top.ip.height > Floor(Top.ip) + argc /\ Continue(n)
  BY DEF CallNative, Calls, Returned
<1>2. /\ vm.frame_count \in 1..FramesMax
      /\ Top.ip.height \in 1..HeightMax /\ Floor(Top.ip) \in 1..HeightMax
      /\ Top.slots \in 0..StackMax /\ argc \in Nat
      /\ vm.stack_top = Top.slots + Top.ip.height
  <2>1. argc \in Nat
    BY Limits
  <2>. QED  BY <1>1, <2>1, InCodeFacts
<1>3. h \in 1..HeightMax
  BY <1>1, <1>2, Limits
<1>4. /\ vm.stack_top - argc = Top.slots + h
      /\ vm.stack_top - argc \in 1..StackMax + HeightMax
      /\ vm.stack_top - argc \in 0..StackMax + HeightMax
      /\ vm.stack_top - argc \in Int
  BY <1>1, <1>2, Limits
<1>. HIDE DEF h
<1>5. /\ w \in Machine /\ Good(w) /\ w.frame_count = vm.frame_count
      /\ w.stack_top = vm.stack_top
      /\ w.frames[w.frame_count].ip.height = h
      /\ w.frames[w.frame_count].slots = Top.slots
  BY <1>1, <1>3, HeightFacts
<1>6. Continue(n)
  BY <1>1 DEF h
<1>. HIDE DEF w
<1>7. n = [w EXCEPT !.stack_top = vm.stack_top - argc, !.thrown = FALSE]
  BY <1>5 DEF Machine
<1>. HIDE DEF n
<1>8. /\ n \in Machine /\ n.stack_top = vm.stack_top - argc /\ n.frames = w.frames
      /\ n.frame_count = w.frame_count /\ n.try_stack = w.try_stack
  BY <1>4, <1>5, <1>7 DEF Machine
<1>9. Good(n)
  BY <1>5, <1>8, GoodData
<1>10. Fits(n)
  BY <1>2, <1>4, <1>5, <1>8 DEF Fits
<1>11. n.stack_top \in 0..StackMax + HeightMax
  BY <1>4, <1>8
<1>. QED  BY <1>6, <1>9, <1>10, <1>11, ContinueInv

LEMMA OpCallInv ==
  ASSUME Inv, NEW f \in Function \ {Script}, NEW argc \in 0..HeightMax, OpCall(f, argc)
  PROVE  Inv'
<1>. DEFINE c == vm.frame_count
            h == Top.ip.height - argc
            w == WithIp(vm, Height(h))
            fr == Frame(f, CalleeSlots(argc))
            top == vm.stack_top + Arity[f] - argc
            n == [w EXCEPT !.frame_count = @ + 1, !.frames[c + 1] = fr,
                           !.stack_top = @ + Arity[f] - argc]
<1>1. InCode /\ Top.ip.height > Floor(Top.ip) + argc
  BY DEF OpCall, Calls
<1>2. /\ vm \in Machine /\ c \in 1..FramesMax
      /\ Top.ip.height \in 1..HeightMax /\ Floor(Top.ip) \in 1..HeightMax
      /\ Top.slots \in 0..StackMax /\ argc \in Nat
      /\ vm.stack_top = Top.slots + Top.ip.height
  <2>1. argc \in Nat
    BY Limits
  <2>. QED  BY <1>1, <2>1, InCodeFacts
<1>3. h \in 1..HeightMax /\ c > 0
  BY <1>1, <1>2, Limits
<1>4. Arity[f] \in Nat /\ Arity[f] < HeightMax
  BY ControlAssumption
<1>5. CASE argc > Arity[f] \/ c >= FramesMax
  <2>1. Refuse
    BY <1>5 DEF OpCall
  <2>. QED  BY <1>3, <2>1, RefuseInv
<1>6. CASE ~ (argc > Arity[f] \/ c >= FramesMax) /\ top > StackMax
  <2>1. result' = "exit" /\ UNCHANGED vm
    BY <1>6 DEF OpCall
  <2>. QED  BY <2>1, ExitInv
<1>7. CASE ~ (argc > Arity[f] \/ c >= FramesMax) /\ ~ (top > StackMax)
  <2>1. Continue(n)
    BY <1>7 DEF OpCall, Returned
  <2>2. /\ c + 1 \in 1..FramesMax /\ c + 1 \in 0..FramesMax
        /\ \A i \in 1..c : i # c + 1 /\ i \in 1..FramesMax
    BY <1>2, <1>7, Limits
  <2>3. /\ CalleeSlots(argc) \in 0..StackMax
        /\ CalleeSlots(argc) = Top.slots + h - 1
        /\ top = CalleeSlots(argc) + (Arity[f] + 1)
        /\ top \in 1..StackMax + HeightMax /\ top \in 0..StackMax + HeightMax /\ top \in Int
    <3>1. CalleeSlots(argc) = vm.stack_top - argc - 1
      BY DEF CalleeSlots
    <3>. HIDE DEF h
    <3>. QED  BY <1>1, <1>2, <1>4, <1>7, <3>1, Limits DEF h
  <2>4. /\ fr.function = f /\ fr.slots = CalleeSlots(argc) /\ fr.ip.open = <<>>
        /\ fr.ip.stage = "code" /\ fr.ip.height = Arity[f] + 1
    BY DEF Frame, EntryOf, At
  <2>5. fr \in FrameType
    <3>1. EntryOf(f) \in Place
      <4>1. <<>> \in Seq(1..HeightMax) /\ Arity[f] + 1 \in 1..HeightMax
        BY <1>4, EmptySeq, Limits
      <4>. QED  BY <4>1 DEF EntryOf, At, Place
    <3>. QED  BY <2>3, <3>1 DEF Frame, FrameType
  <2>. HIDE DEF h
  <2>6. /\ Height(h) \in Place /\ Height(h).stage = "code"
        /\ Height(h).height = h /\ Height(h).open = Top.ip.open
        /\ w \in Machine /\ Good(w) /\ w.frame_count = c
        /\ w.stack_top = vm.stack_top /\ w.try_stack = vm.try_stack
        /\ w.frames[w.frame_count].ip = Height(h)
        /\ w.frames[w.frame_count].slots = Top.slots
    BY <1>1, <1>3, HeightFacts
  <2>7. Continue(n)
    BY <2>1 DEF h
  <2>. HIDE DEF w, fr, top
  <2>8. /\ n.frame_count = c + 1 /\ n.try_stack = w.try_stack /\ n.stack_top = top
        /\ n.frames = [w.frames EXCEPT ![c + 1] = fr]
    BY <2>6 DEF Machine, top
  <2>9. n.frames \in [1..FramesMax -> FrameType]
    BY <2>2, <2>5, <2>6, <2>8 DEF Machine
  <2>10. n = [w EXCEPT !.frame_count = c + 1, !.frames = n.frames, !.stack_top = top]
    BY <2>6, <2>8 DEF Machine, top
  <2>. HIDE DEF n
  <2>11. n \in Machine
    BY <2>2, <2>3, <2>6, <2>9, <2>10 DEF Machine
  <2>12. /\ n.frames[c + 1] = fr
         /\ \A i \in 1..c : n.frames[i] = w.frames[i]
    BY <2>2, <2>6, <2>8 DEF Machine
  <2>13. \A i \in 1..w.frame_count : n.frames[i] = w.frames[i]
    BY <2>6, <2>12
  <2>14. /\ n.frame_count = w.frame_count + 1
         /\ n.frames[n.frame_count].ip.open = <<>>
         /\ n.frames[n.frame_count].slots = CalleeSlots(argc)
         /\ w.frame_count # 0
         /\ n.frames[w.frame_count].slots = Top.slots
         /\ n.frames[w.frame_count].ip.height = h
    BY <1>2, <1>3, <2>4, <2>6, <2>8, <2>12
  <2>15. n.frames[n.frame_count].slots =
           n.frames[w.frame_count].slots + n.frames[w.frame_count].ip.height - 1
    BY <2>3, <2>14
  <2>16. Good(n)
    BY <2>6, <2>8, <2>11, <2>13, <2>14, <2>15, GoodCall
  <2>17. Fits(n)
    BY <1>2, <2>3, <2>4, <2>8, <2>12 DEF Fits
  <2>18. n.stack_top \in 0..StackMax + HeightMax
    BY <2>3, <2>8
  <2>. QED  BY <2>7, <2>16, <2>17, <2>18, ContinueInv
<1>. QED  BY <1>5, <1>6, <1>7

(***************************************************************************)
(* The top frame is left; its caller, or the host, goes on.                *)
(***************************************************************************)
LEMMA ReturnInv ==
  ASSUME Inv, NEW m, Good(m), m.frame_count > 0,
         m.frames[m.frame_count].slots = Top.slots, m.frames[m.frame_count].ip.open = <<>>,
         m.stack_top \in 2..StackMax + HeightMax + 1, Return(m)
  PROVE  Inv'
<1>. DEFINE c == m.frame_count
            back == [m EXCEPT !.frame_count = @ - 1]
<1>1. m \in Machine /\ c \in 1..FramesMax
  <2>1. m \in Machine
    BY DEF Good
  <2>2. c \in 0..FramesMax
    BY <2>1 DEF Machine
  <2>. QED  BY <2>1, <2>2, Limits
<1>2. m.frames[c].slots = Top.slots /\ Top.slots \in 0..StackMax /\ m.frames[c].ip.open = <<>>
  <2>1. m.frames[c] \in FrameType
    BY <1>1 DEF Machine
  <2>. QED  BY <2>1 DEF FrameType
<1>3. /\ back \in Machine /\ back.frame_count = c - 1 /\ back.frames = m.frames
      /\ back.try_stack = m.try_stack /\ back.stack_top = m.stack_top
  <2>1. c - 1 \in 0..FramesMax
    BY <1>1, Limits
  <2>. QED  BY <1>1, <2>1 DEF Machine
<1>4. IF back.frame_count = 0
      THEN vm' = [back EXCEPT !.stack_top = @ - 2] /\ result' = "ok"
      ELSE PushOn([back EXCEPT !.stack_top = Top.slots])
  BY DEF Return
<1>. HIDE DEF back
<1>5. Good(back)
  BY <1>1, <1>2, <1>3, GoodReturn
<1>6. CASE back.frame_count = 0
  <2>. DEFINE n == [back EXCEPT !.stack_top = back.stack_top - 2]
  <2>1. vm' = n /\ result' = "ok"
    BY <1>4, <1>6
  <2>2. /\ back.stack_top - 2 \in Int
        /\ back.stack_top - 2 \in 0..StackMax + HeightMax
    BY <1>3, Limits
  <2>3. /\ n \in Machine /\ n.stack_top = back.stack_top - 2 /\ n.frames = back.frames
        /\ n.frame_count = 0 /\ n.try_stack = back.try_stack
    BY <1>3, <1>6, <2>2, StackFacts
  <2>. HIDE DEF n
  <2>4. Good(n)
    BY <1>5, <1>6, <2>3, GoodData
  <2>5. Good(vm') /\ AtRest(vm') /\ vm'.stack_top \in 0..StackMax + HeightMax
    BY <2>1, <2>2, <2>3, <2>4 DEF AtRest
  <2>. QED  BY <2>1, <2>5 DEF Inv
<1>7. CASE back.frame_count # 0
  <2>. DEFINE n == [back EXCEPT !.stack_top = Top.slots]
  <2>1. PushOn(n)
    BY <1>4, <1>7
  <2>2. Top.slots \in Int /\ Top.slots >= 0
    BY <1>2, Limits
  <2>3. /\ n \in Machine /\ n.stack_top = Top.slots /\ n.frames = m.frames
        /\ n.frame_count = c - 1 /\ n.try_stack = back.try_stack
    BY <1>3, <2>2, StackFacts
  <2>. HIDE DEF n
  <2>4. Good(n)
    BY <1>3, <1>5, <2>3, GoodData
  <2>5. c - 1 \in 1..c - 1 /\ (c - 1) + 1 = c /\ c - 1 > 0 /\ c - 1 \in 1..FramesMax
    <3>1. c - 1 # 0
      BY <1>3, <1>7
    <3>. QED  BY <1>1, <3>1, Limits
  <2>6. m.frames[c - 1].ip.stage = "code" =>
          m.frames[c].slots = m.frames[c - 1].slots + m.frames[c - 1].ip.height - 1
    BY <2>5 DEF Good, Callers
  <2>7. m.frames[c - 1].slots \in Int /\ m.frames[c - 1].ip.height \in Int
    <3>1. m.frames[c - 1] \in FrameType
      BY <1>1, <2>5 DEF Machine
    <3>2. m.frames[c - 1].slots \in 0..StackMax /\ m.frames[c - 1].ip.height \in 1..HeightMax
      BY <3>1 DEF FrameType, Place
    <3>. QED  BY <3>2
  <2>8. n.frames[n.frame_count].ip.stage = "code" =>
          n.stack_top + 1 = n.frames[n.frame_count].slots + n.frames[n.frame_count].ip.height
    <3>1. m.frames[c].slots = Top.slots
      BY <1>2
    <3>2. \A x, y \in Int : Top.slots = x + y - 1 => Top.slots + 1 = x + y
      BY <2>2
    <3>. QED  BY <2>3, <2>6, <2>7, <3>1, <3>2
  <2>9. n.stack_top \in Int /\ n.stack_top >= 0 /\ n.frame_count > 0
    BY <2>2, <2>3, <2>5
  <2>. QED  BY <2>1, <2>4, <2>8, <2>9, PushInv
<1>. QED  BY <1>6, <1>7

LEMMA OpReturnInv ==
  ASSUME Inv, ~ LeavesTry, OpReturn
  PROVE  Inv'
<1>. DEFINE h == Top.ip.height - 1
            n == WithIp(vm, Height(h))
<1>1. InCode /\ Top.ip.open = <<>> /\ Top.ip.height > Floor(Top.ip) /\ Return(n)
  BY DEF OpReturn
<1>2. /\ vm.frame_count \in 1..FramesMax
      /\ Top.ip.height \in 1..HeightMax /\ Floor(Top.ip) \in 1..HeightMax
      /\ Top.slots \in 0..StackMax
      /\ vm.stack_top = Top.slots + Top.ip.height
      /\ vm.stack_top \in 0..StackMax + HeightMax
  BY <1>1, InCodeFacts
<1>3. vm.frame_count > 0 /\ vm.stack_top \in 2..StackMax + HeightMax + 1
  BY SMTT(30), <1>1, <1>2, Limits
<1>4. h \in 1..HeightMax
  BY <1>1, HeightsFit
<1>. HIDE DEF h
<1>5. /\ Good(n) /\ n.frame_count = vm.frame_count /\ n.stack_top = vm.stack_top
      /\ n.frames[n.frame_count].ip = Height(h) /\ Height(h).open = Top.ip.open
      /\ n.frames[n.frame_count].slots = Top.slots
  BY <1>1, <1>4, HeightFacts
<1>. HIDE DEF n
<1>6. n.frame_count > 0 /\ n.frames[n.frame_count].ip.open = <<>>
  BY <1>1, <1>3, <1>5
<1>. QED  BY <1>1, <1>3, <1>5, <1>6, ReturnInv

LEMMA OpHaltInv ==
  ASSUME Inv, OpHalt
  PROVE  Inv'
<1>. DEFINE p == Staged(vm, "halted")
<1>1. InCode /\ Top.ip = EntryOf(Script) /\ vm' = p /\ result' = "ok"
  BY DEF OpHalt
<1>2. /\ Good(vm) /\ vm.frame_count \in 1..FramesMax
      /\ vm.stack_top \in 0..StackMax + HeightMax
  BY <1>1, InCodeFacts
<1>3. vm.frame_count > 0 /\ vm.frames[vm.frame_count].ip.open = <<>>
  BY <1>1, <1>2 DEF Top, EntryOf, At
<1>4. /\ Good(p) /\ p.stack_top = vm.stack_top
      /\ p.frames[p.frame_count].ip.stage = "halted"
  BY <1>2, <1>3, StageFacts
<1>. HIDE DEF p
<1>5. Good(vm') /\ AtRest(vm') /\ vm'.stack_top \in 0..StackMax + HeightMax
  BY <1>1, <1>2, <1>4 DEF AtRest
<1>. QED  BY <1>1, <1>5 DEF Inv

LEMMA PastHaltInv ==
  ASSUME Inv, PastHalt
  PROVE  Inv'
<1>1. /\ Running /\ Top.ip.stage = "halted"
      /\ IF vm.stack_top >= StackMax
         THEN result' = "exit" /\ UNCHANGED vm
         ELSE Return([vm EXCEPT !.stack_top = @ + 1])
  BY DEF PastHalt
<1>2. /\ vm \in Machine /\ Good(vm) /\ Fits(vm)
      /\ vm.stack_top \in 0..StackMax + HeightMax
  BY <1>1 DEF Inv, Running, Good
<1>3. vm.frame_count > 0 /\ vm.stack_top >= 1 /\ vm.frame_count \in 1..vm.frame_count
  BY <1>2 DEF Fits, Machine
<1>4. Top.ip.open = <<>>
  BY <1>1, <1>2, <1>3 DEF Good, Scripts, Top
<1>5. CASE vm.stack_top >= StackMax
  <2>1. result' = "exit" /\ UNCHANGED vm
    BY <1>1, <1>5
  <2>. QED  BY <2>1, ExitInv
<1>6. CASE ~ (vm.stack_top >= StackMax)
  <2>. DEFINE n == [vm EXCEPT !.stack_top = vm.stack_top + 1]
  <2>1. Return(n)
    <3>1. n = [vm EXCEPT !.stack_top = @ + 1]
      BY <1>2 DEF Machine
    <3>. QED  BY <1>1, <1>6, <3>1
  <2>2. vm.stack_top + 1 \in Int /\ vm.stack_top + 1 \in 2..StackMax + HeightMax + 1
    BY <1>2, <1>3, Limits
  <2>3. /\ n \in Machine /\ n.stack_top = vm.stack_top + 1 /\ n.frames = vm.frames
        /\ n.frame_count = vm.frame_count /\ n.try_stack = vm.try_stack
    BY <1>2, <2>2, StackFacts
  <2>. HIDE DEF n
  <2>4. Good(n)
    BY <1>2, <2>3, GoodData
  <2>5. n.frames[n.frame_count].slots = Top.slots /\ n.frames[n.frame_count].ip.open = <<>>
    BY <1>4, <2>3 DEF Top
  <2>6. n.frame_count > 0 /\ n.stack_top \in 2..StackMax + HeightMax + 1
    BY <1>3, <2>2, <2>3
  <2>. QED  BY <2>1, <2>4, <2>5, <2>6, ReturnInv
<1>. QED  BY <1>5, <1>6

-----------------------------------------------------------------------------

LEMMA InitInv ==
  Init => Inv
<1>. SUFFICES ASSUME Init PROVE Inv
  OBVIOUS
<1>1. vm = NewVM /\ result = "ok"
  BY DEF Init
<1>2. Frame(Script, 0) \in FrameType
  <2>1. <<>> \in Seq(1..HeightMax) /\ Arity[Script] + 1 \in 1..HeightMax
    BY ControlAssumption, EmptySeq, Limits
  <2>2. EntryOf(Script) \in Place
    BY <2>1, ControlAssumption DEF EntryOf, At, Place
  <2>3. 0 \in 0..StackMax /\ Script \in Function
    BY Limits, ControlAssumption
  <2>. QED  BY <2>2, <2>3 DEF Frame, FrameType
<1>3. /\ vm \in Machine /\ vm.frame_count = 0 /\ vm.try_stack = <<>> /\ vm.stack_top = 0
  <2>. DEFINE f == Frame(Script, 0)
  <2>1. f \in FrameType
    BY <1>2
  <2>2. vm = [frames |-> [i \in 1..FramesMax |-> f], frame_count |-> 0, stack_top |-> 0,
              try_stack |-> <<>>, thrown |-> FALSE]
    BY <1>1 DEF NewVM
  <2>3. <<>> \in Seq(HandlerType) /\ 0 \in 0..FramesMax /\ 0 \in Int
    BY EmptySeq, Limits
  <2>. HIDE DEF f
  <2>4. [i \in 1..FramesMax |-> f] \in [1..FramesMax -> FrameType]
    BY <2>1
  <2>5. ASSUME NEW e \in Seq(HandlerType), NEW g \in [1..FramesMax -> FrameType]
        PROVE  [frames |-> g, frame_count |-> 0, stack_top |-> 0,
                try_stack |-> e, thrown |-> FALSE] \in Machine
    BY <2>3 DEF Machine
  <2>6. vm \in Machine
    BY <2>2, <2>3, <2>4, <2>5
  <2>. QED  BY <2>2, <2>6
<1>4. Good(vm)
  BY <1>3, GoodReset
<1>5. AtRest(vm) /\ vm.stack_top \in 0..StackMax + HeightMax
  BY <1>3, Limits DEF AtRest
<1>. QED  BY <1>1, <1>4, <1>5 DEF Inv

LEMMA NextInv ==
  ASSUME Inv, ~ LeavesTry, [Next]_vars
  PROVE  Inv'
<1>1. CASE RunVM
  BY <1>1, RunVMInv
<1>2. CASE Push
  BY <1>2, PushActionInv
<1>3. CASE Pop
  BY <1>3, PopInv
<1>4. CASE OpTry
  BY <1>4, OpTryInv
<1>5. CASE OpTryEnd
  BY <1>5, OpTryEndInv
<1>6. CASE OpThrow \/ ThrowError
  BY <1>6, ThrowsInv
<1>7. CASE JumpOutOfTry
  BY <1>7 DEF JumpOutOfTry
<1>8. CASE \E argc \in 0..HeightMax : \E f \in Function \ {Script} : OpCall(f, argc)
  BY <1>8, OpCallInv
<1>9. CASE \E argc \in 0..HeightMax : CallNative(argc)
  BY <1>9, CallNativeInv
<1>10. CASE \E argc \in 0..HeightMax : NativeError(argc)
  BY <1>10, ThrowsInv
<1>11. CASE NativeThrows
  BY <1>11, NativeThrowsInv
<1>12. CASE OpReturn
  BY <1>12, OpReturnInv
<1>13. CASE OpHalt
  BY <1>13, OpHaltInv
<1>14. CASE PastHalt
  BY <1>14, PastHaltInv
<1>15. CASE UNCHANGED vars
  <2>1. vm' = vm /\ result' = result
    BY <1>15 DEF vars
  <2>. QED  BY <2>1 DEF Inv
<1>. QED  BY <1>1, <1>2, <1>3, <1>4, <1>5, <1>6, <1>7, <1>8, <1>9, <1>10, <1>11, <1>12,
             <1>13, <1>14, <1>15 DEF Next

(***************************************************************************)
(* Inv holds in every state, of a program that leaves its try bodies only  *)
(* at OP_TRY_END and by errors.                                            *)
(***************************************************************************)
THEOREM Invariance ==
  ASSUME ~ LeavesTry
  PROVE  Spec => []Inv
<1>1. Inv /\ [Next]_vars => Inv'
  BY NextInv
<1>. QED  BY <1>1, InitInv, PTL DEF Spec

LEMMA InvTypes ==
  Inv => TypeOK
<1>. SUFFICES ASSUME Inv PROVE TypeOK
  OBVIOUS
<1>1. vm \in Machine /\ Len(vm.try_stack) <= TryMax
  BY DEF Inv, Good
<1>2. ASSUME NEW ip \in Place PROVE PlaceOK(ip)
  <2>1. ip.open \in Seq(1..HeightMax)
    BY DEF Place
  <2>2. \A k \in DOMAIN ip.open : ip.open[k] \in 1..HeightMax
    BY <2>1, ElementOfSeq, LenProperties
  <2>. QED  BY <2>2 DEF PlaceOK, Place
<1>3. \A i \in 1..FramesMax :
        /\ vm.frames[i].function \in Function
        /\ vm.frames[i].slots \in 0..StackMax
        /\ PlaceOK(vm.frames[i].ip)
  BY <1>1, <1>2 DEF Machine, FrameType
<1>4. \A i \in DOMAIN vm.try_stack :
        /\ vm.try_stack[i].frame_count \in 1..FramesMax
        /\ vm.try_stack[i].stack_top \in 0..StackMax + HeightMax
        /\ PlaceOK(vm.try_stack[i].catch_ip)
  <2>1. ASSUME NEW i \in DOMAIN vm.try_stack PROVE vm.try_stack[i] \in HandlerType
    BY <1>1, ElementOfSeq, LenProperties DEF Machine
  <2>. QED  BY <1>2, <2>1 DEF HandlerType
<1>5. vm.frame_count \in 0..FramesMax /\ vm.thrown \in BOOLEAN
  BY <1>1 DEF Machine
<1>6. result = "running" => vm.frame_count > 0
  BY DEF Inv, Fits
<1>. QED  BY <1>1, <1>3, <1>4, <1>5, <1>6 DEF TypeOK, Inv

(* No index of the frames, of the handlers or of the stack leaves its array
   under the instructions of vm.c, in any number of runs of any such program,
   whatever NQ_FRAMES_MAX, NQ_STACK_MAX and NQ_TRY_MAX are. *)
THEOREM TypeCorrect ==
  ASSUME ~ LeavesTry
  PROVE  Spec => []TypeOK
  BY Invariance, InvTypes, PTL

LEMMA InvMirrors ==
  Inv => HandlersMirrorTrys
<1>. SUFFICES ASSUME Inv PROVE HandlersMirrorTrys
  OBVIOUS
<1>1. vm \in Machine
  BY DEF Inv, Good
<1>2. PICK below : MirrorBy(vm, below)
  BY DEF Inv, Good, Mirror
<1>3. \A i, k : HandlerIn(vm, i, k) = HandlerOf(i, k)
  BY DEF HandlerIn, HandlerOf
<1>4. \A i \in 1..vm.frame_count :
        LET open == vm.frames[i].ip.open
        IN  /\ below[i + 1] = below[i] + Len(open)
            /\ \A k \in DOMAIN open : vm.try_stack[below[i] + k] = HandlerOf(i, k)
  <2>. TAKE i \in 1..vm.frame_count
  <2>1. DOMAIN vm.frames[i].ip.open = 1..Len(vm.frames[i].ip.open)
    BY <1>1, OpenFacts, LenProperties
  <2>. QED  BY <1>2, <1>3, <2>1 DEF MirrorBy
<1>. QED  BY <1>2, <1>4 DEF MirrorBy, HandlersMirrorTrys

(* The try stack holds exactly the handlers of the try bodies the active
   frames are in, frame by frame: throwError, which drops frames, and OP_TRY,
   OP_TRY_END, OP_CALL and OP_RETURN, which each change one of the two, never
   let a handler outlive its body or lose one. *)
THEOREM TryStackMirrors ==
  ASSUME ~ LeavesTry
  PROVE  Spec => []HandlersMirrorTrys
  BY Invariance, InvMirrors, PTL

LEMMA InvFits ==
  Inv => StackFits
<1>. SUFFICES ASSUME Inv, result = "running" PROVE StackFits
  BY DEF StackFits
<1>1. Fits(vm) /\ Callers(vm)
  BY DEF Inv, Good
<1>. QED  BY <1>1 DEF Fits, Callers, StackFits, Top

(* The stack is as high as the compiler counted wherever code is about to
   run: in a catch block after an error from any depth of calls, after a call
   whose missing arguments were filled in, and in a caller after a return. *)
THEOREM StackAsCounted ==
  ASSUME ~ LeavesTry
  PROVE  Spec => []StackFits
  BY Invariance, InvFits, PTL

-----------------------------------------------------------------------------
(* Programs that leave try bodies: a handler may bring back a frame that was
   left, with slots that have nothing to do with the stack any more.  What
   bounds the machine all the same is that no frame starts above the stack and
   that no handler, and no code, has more than its own slots above it. *)

LooseFrame == [function : Function, slots : {x \in Int : x < StackMax}, ip : Place]

LooseHandler ==
  {h \in [catch_ip : Place, stack_top : Int, frame_count : 1..FramesMax] :
     h.stack_top < StackMax + h.catch_ip.height}

LooseMachine == [frames      : [1..FramesMax -> LooseFrame],
                 frame_count : 0..FramesMax,
                 stack_top   : Int,
                 try_stack   : Seq(LooseHandler),
                 thrown      : BOOLEAN]

Loose(m) == m \in LooseMachine /\ Len(m.try_stack) <= TryMax

\* Code can go on from here.
Bounded(m) ==
  /\ m.frame_count > 0
  /\ m.stack_top <= StackMax + m.frames[m.frame_count].ip.height

LooseInv ==
  /\ Loose(vm)
  /\ vm.stack_top <= StackMax + HeightMax
  /\ result = "running" => Bounded(vm)

LEMMA LooseIp ==
  ASSUME NEW m, Loose(m), m.frame_count > 0, NEW ip \in Place
  PROVE  LET n == WithIp(m, ip) IN
         /\ Loose(n) /\ n.frame_count = m.frame_count /\ n.stack_top = m.stack_top
         /\ n.try_stack = m.try_stack
         /\ n.frames[n.frame_count].ip = ip
<1>. DEFINE n == WithIp(m, ip)
            f == m.frames[m.frame_count]
            g == [f EXCEPT !.ip = ip]
<1>1. m \in LooseMachine /\ m.frame_count \in 1..FramesMax /\ Len(m.try_stack) <= TryMax
  BY Limits DEF Loose, LooseMachine
<1>2. g \in LooseFrame /\ g.ip = ip
  <2>1. f \in LooseFrame
    BY <1>1 DEF LooseMachine
  <2>. HIDE DEF f
  <2>. QED  BY <2>1 DEF LooseFrame
<1>3. n = [m EXCEPT !.frames = [m.frames EXCEPT ![m.frame_count] = g]]
  BY <1>1 DEF WithIp, LooseMachine
<1>. HIDE DEF g, n
<1>4. n.frames = [m.frames EXCEPT ![m.frame_count] = g]
  BY <1>1, <1>3 DEF LooseMachine
<1>5. n.frames \in [1..FramesMax -> LooseFrame] /\ n.frames[m.frame_count] = g
  BY ZenonT(60), <1>1, <1>2, <1>4 DEF LooseMachine
<1>6. /\ n.frame_count = m.frame_count /\ n.stack_top = m.stack_top
      /\ n.try_stack = m.try_stack
  BY <1>1, <1>3 DEF LooseMachine
<1>7. n \in LooseMachine
  BY <1>1, <1>3, <1>4, <1>5 DEF LooseMachine
<1>. QED  BY <1>1, <1>2, <1>5, <1>6, <1>7 DEF n, Loose

LEMMA LooseStack ==
  ASSUME NEW m, Loose(m), NEW x \in Int
  PROVE  LET n == [m EXCEPT !.stack_top = x] IN
         /\ Loose(n) /\ n.frame_count = m.frame_count /\ n.stack_top = x
         /\ n.frames = m.frames /\ n.try_stack = m.try_stack
  BY DEF Loose, LooseMachine

LEMMA LooseStage ==
  ASSUME NEW m, Loose(m), m.frame_count > 0, NEW stage \in {"halted", "failed"}
  PROVE  LET n == Staged(m, stage) IN
         /\ Loose(n) /\ n.frame_count = m.frame_count /\ n.stack_top = m.stack_top
         /\ n.try_stack = m.try_stack
<1>. DEFINE was == m.frames[m.frame_count].ip
            ip == [was EXCEPT !.stage = stage]
            n == Staged(m, stage)
<1>1. ip \in Place
  <2>1. m.frame_count \in 1..FramesMax /\ m \in LooseMachine
    BY Limits DEF Loose, LooseMachine
  <2>2. was \in Place
    BY <2>1 DEF LooseMachine, LooseFrame
  <2>. HIDE DEF was
  <2>. QED  BY <2>2 DEF Place
<1>2. n = WithIp(m, ip)
  BY DEF Staged
<1>. HIDE DEF ip, n
<1>3. /\ Loose(n) /\ n.frame_count = m.frame_count /\ n.stack_top = m.stack_top
      /\ n.try_stack = m.try_stack
  BY <1>1, <1>2, LooseIp
<1>. QED  BY <1>3 DEF n

(***************************************************************************)
(* A handler has kept no more above the code it leads to than that uses.   *)
(***************************************************************************)
LEMMA LooseCatch ==
  ASSUME NEW m, Loose(m), Caught(m)
  PROVE  LET n == throwError(m) IN
         /\ Loose(n) /\ Bounded(n) /\ n.stack_top <= StackMax + HeightMax
<1>. DEFINE h == Last(m.try_stack)
            t == Front(m.try_stack)
            n == throwError(m)
<1>1. m \in LooseMachine /\ m.try_stack \in Seq(LooseHandler) /\ m.try_stack # <<>>
  BY DEF Loose, LooseMachine, Caught
<1>2. /\ t \in Seq(LooseHandler) /\ Len(t) = Len(m.try_stack) - 1 /\ h \in LooseHandler
      /\ Len(m.try_stack) \in Nat
  BY <1>1, FrontFacts
<1>3. Len(t) <= TryMax
  BY <1>2, Limits DEF Loose
<1>4. n = [m EXCEPT !.thrown = TRUE, !.try_stack = t, !.stack_top = h.stack_top + 1,
                    !.frame_count = h.frame_count, !.frames[h.frame_count].ip = h.catch_ip]
  BY DEF throwError, Handle
<1>. HIDE DEF h, t, n
<1>5. /\ h.catch_ip \in Place /\ h.stack_top \in Int /\ h.frame_count \in 1..FramesMax
      /\ h.stack_top < StackMax + h.catch_ip.height
  BY <1>2 DEF LooseHandler
<1>6. h.catch_ip.height \in 1..HeightMax
  BY <1>5 DEF Place
<1>. DEFINE x == h.stack_top + 1
            c == h.frame_count
            ip == h.catch_ip
            g == [m.frames[c] EXCEPT !.ip = ip]
            fs == [m.frames EXCEPT ![c] = g]
<1>7. /\ x \in Int /\ c \in 1..FramesMax /\ c \in 0..FramesMax /\ c > 0
      /\ ip \in Place /\ x <= StackMax + ip.height
      /\ x <= StackMax + HeightMax
  BY <1>5, <1>6, Limits
<1>8. n = [m EXCEPT !.thrown = TRUE, !.try_stack = t, !.stack_top = x,
                    !.frame_count = c, !.frames = fs]
  BY <1>1, <1>4 DEF LooseMachine
<1>. HIDE DEF x, c, ip
<1>9. g \in LooseFrame /\ g.ip = ip
  <2>. DEFINE f == m.frames[c]
  <2>1. f \in LooseFrame
    BY <1>1, <1>7 DEF LooseMachine
  <2>. HIDE DEF f
  <2>2. [f EXCEPT !.ip = ip] \in LooseFrame /\ [f EXCEPT !.ip = ip].ip = ip
    BY <1>7, <2>1 DEF LooseFrame
  <2>. QED  BY <2>2 DEF f
<1>. HIDE DEF g
<1>10. fs \in [1..FramesMax -> LooseFrame] /\ fs[c].ip = ip
  BY <1>1, <1>7, <1>9 DEF LooseMachine
<1>. HIDE DEF fs
<1>11. /\ n \in LooseMachine /\ n.frame_count = c /\ n.stack_top = x
       /\ n.try_stack = t /\ n.frames = fs
  BY <1>1, <1>2, <1>7, <1>8, <1>10 DEF LooseMachine
<1>12. Loose(n) /\ Bounded(n) /\ n.stack_top <= StackMax + HeightMax
  BY <1>3, <1>7, <1>10, <1>11 DEF Loose, Bounded
<1>. QED  BY <1>12 DEF n

-----------------------------------------------------------------------------
(* What the instructions end in. *)

LEMMA LooseContinue ==
  ASSUME NEW n, Loose(n), Bounded(n), Continue(n)
  PROVE  LooseInv'
<1>1. n \in LooseMachine /\ n.frame_count \in 1..FramesMax
  BY Limits DEF Loose, LooseMachine, Bounded
<1>2. n.frames[n.frame_count].ip.height \in 1..HeightMax /\ n.stack_top \in Int
  <2>1. n.frames[n.frame_count].ip \in Place
    BY <1>1 DEF LooseMachine, LooseFrame
  <2>. QED  BY <1>1, <2>1 DEF LooseMachine, Place
<1>3. n.stack_top <= StackMax + HeightMax
  BY <1>2, Limits DEF Bounded
<1>. QED  BY <1>3 DEF Continue, LooseInv, Loose, Bounded

LEMMA LoosePush ==
  ASSUME LooseInv, NEW p, Loose(p), p.frame_count > 0, PushOn(p)
  PROVE  LooseInv'
<1>1. CASE p.stack_top >= StackMax
  BY <1>1 DEF PushOn, LooseInv, Loose, Bounded
<1>2. CASE ~ (p.stack_top >= StackMax)
  <2>. DEFINE x == p.stack_top + 1
              n == [p EXCEPT !.stack_top = x]
  <2>1. p \in LooseMachine /\ p.frame_count \in 1..FramesMax /\ p.stack_top \in Int
    BY Limits DEF Loose, LooseMachine
  <2>2. Continue(n)
    BY <1>2 DEF PushOn
  <2>3. x \in Int /\ x <= StackMax
    BY <1>2, <2>1, Limits
  <2>. HIDE DEF x
  <2>4. /\ Loose(n) /\ n.frame_count = p.frame_count /\ n.stack_top = x
        /\ n.frames = p.frames
    BY <2>3, LooseStack
  <2>. HIDE DEF n
  <2>5. p.frames[p.frame_count].ip.height \in 1..HeightMax
    BY <2>1 DEF LooseMachine, LooseFrame, Place
  <2>6. Bounded(n)
    BY <2>3, <2>4, <2>5, Limits DEF Bounded
  <2>. QED  BY <2>2, <2>4, <2>6, LooseContinue
<1>. QED  BY <1>1, <1>2

LEMMA LooseRefuse ==
  ASSUME LooseInv, vm.frame_count > 0, Refuse
  PROVE  LooseInv'
<1>. DEFINE n == Staged(vm, "failed")
<1>1. Loose(n) /\ n.stack_top = vm.stack_top
  BY LooseStage DEF LooseInv
<1>2. vm' = n /\ result' = "refused"
  BY DEF Refuse
<1>. HIDE DEF n
<1>. QED  BY <1>1, <1>2 DEF LooseInv, Loose

LEMMA LooseThrow ==
  ASSUME NEW m, Loose(m), m.frame_count > 0, m.stack_top <= StackMax + HeightMax, Throw(m)
  PROVE  LooseInv'
<1>. DEFINE p == Staged(m, "failed")
<1>1. /\ Loose(p) /\ p.frame_count = m.frame_count /\ p.stack_top = m.stack_top
      /\ p.try_stack = m.try_stack
  BY LooseStage
<1>2. vm' = throwError(p) /\ result' = IF Caught(m) THEN "running" ELSE "uncaught"
  BY DEF Throw
<1>. HIDE DEF p
<1>3. CASE Caught(m)
  <2>1. Caught(p) /\ result' = "running"
    BY <1>1, <1>2, <1>3 DEF Caught
  <2>2. Loose(vm') /\ Bounded(vm') /\ vm'.stack_top <= StackMax + HeightMax
    BY <1>1, <1>2, <2>1, LooseCatch
  <2>. QED  BY <2>2 DEF LooseInv, Loose, Bounded
<1>4. CASE ~ Caught(m)
  <2>1. ~ Caught(p) /\ result' = "uncaught"
    BY <1>1, <1>2, <1>4 DEF Caught
  <2>2. vm' = [p EXCEPT !.thrown = TRUE]
    BY <1>2, <2>1 DEF throwError
  <2>3. Loose(vm') /\ vm'.stack_top = m.stack_top
    BY <1>1, <2>2 DEF Loose, LooseMachine
  <2>. QED  BY <2>1, <2>3 DEF LooseInv, Loose
<1>. QED  BY <1>3, <1>4

LEMMA LooseReturn ==
  ASSUME LooseInv, NEW m, Loose(m), vm.frame_count > 0, m.frame_count = vm.frame_count,
         m.stack_top <= StackMax + HeightMax + 1, Return(m)
  PROVE  LooseInv'
<1>. DEFINE c == m.frame_count - 1
            back == [m EXCEPT !.frame_count = c]
<1>1. /\ m \in LooseMachine /\ c \in 0..FramesMax /\ m.stack_top \in Int
      /\ vm \in LooseMachine /\ vm.frame_count \in 1..FramesMax
  BY Limits DEF Loose, LooseMachine, LooseInv
<1>2. back = [m EXCEPT !.frame_count = @ - 1]
  BY <1>1 DEF LooseMachine
<1>3. /\ Loose(back) /\ back.frame_count = c /\ back.stack_top = m.stack_top
  <2>. HIDE DEF c
  <2>. QED  BY <1>1 DEF Loose, LooseMachine
<1>4. IF back.frame_count = 0
      THEN vm' = [back EXCEPT !.stack_top = @ - 2] /\ result' = "ok"
      ELSE PushOn([back EXCEPT !.stack_top = Top.slots])
  BY <1>2 DEF Return
<1>. HIDE DEF back
<1>5. CASE back.frame_count = 0
  <2>. DEFINE x == back.stack_top - 2
  <2>1. vm' = [back EXCEPT !.stack_top = x] /\ result' = "ok"
    BY <1>4, <1>5
  <2>2. x \in Int /\ x <= StackMax + HeightMax
    BY <1>1, <1>3, Limits
  <2>. HIDE DEF x
  <2>3. Loose(vm') /\ vm'.stack_top = x
    BY <1>3, <2>1, <2>2, LooseStack
  <2>. QED  BY <2>1, <2>2, <2>3 DEF LooseInv, Loose
<1>6. CASE back.frame_count # 0
  <2>. DEFINE n == [back EXCEPT !.stack_top = Top.slots]
  <2>1. PushOn(n)
    BY <1>4, <1>6
  <2>2. Top.slots \in Int
    BY <1>1 DEF LooseMachine, LooseFrame, Top
  <2>3. Loose(n) /\ n.frame_count = back.frame_count
    BY <1>3, <2>2, LooseStack
  <2>. HIDE DEF n
  <2>4. n.frame_count > 0
    BY <1>1, <1>3, <1>6, <2>3
  <2>. QED  BY <2>1, <2>3, <2>4, LoosePush
<1>. QED  BY <1>5, <1>6

-----------------------------------------------------------------------------
(* The instructions. *)

LEMMA LooseCode ==
  ASSUME LooseInv, Running
  PROVE  /\ Loose(vm) /\ vm.frame_count \in 1..FramesMax /\ vm.frame_count > 0
         /\ Top = vm.frames[vm.frame_count] /\ Top.ip \in Place
         /\ Top.ip.height \in 1..HeightMax /\ Top.ip.open \in Seq(1..HeightMax)
         /\ vm.stack_top \in Int /\ vm.stack_top <= StackMax + Top.ip.height
         /\ vm.stack_top <= StackMax + HeightMax
         /\ Floor(Top.ip) \in 1..HeightMax
<1>1. Loose(vm) /\ Bounded(vm) /\ vm.stack_top <= StackMax + HeightMax
  BY DEF Running, LooseInv
<1>2. vm \in LooseMachine /\ vm.frame_count \in 1..FramesMax
  BY <1>1, Limits DEF Loose, LooseMachine, Bounded
<1>3. Top = vm.frames[vm.frame_count] /\ Top.ip \in Place
  BY <1>2 DEF LooseMachine, LooseFrame, Top
<1>4. /\ Top.ip.height \in 1..HeightMax /\ Top.ip.open \in Seq(1..HeightMax)
      /\ Top.ip.code \in Function
  BY <1>3 DEF Place
<1>5. Floor(Top.ip) \in 1..HeightMax
  BY <1>4, FloorFits
<1>. QED  BY <1>1, <1>2, <1>3, <1>4, <1>5 DEF Bounded, LooseMachine

(* The top frame goes on at ip, with the stack as much higher or lower. *)
LEMMA LooseMove ==
  ASSUME LooseInv, Running, NEW ip \in Place, NEW n, n = Moved(ip)
  PROVE  Loose(n) /\ Bounded(n) /\ n.try_stack = vm.try_stack
<1>. DEFINE w == WithIp(vm, ip)
            x == vm.stack_top + ip.height - Top.ip.height
<1>1. /\ Loose(w) /\ w.frame_count = vm.frame_count /\ w.stack_top = vm.stack_top
      /\ w.try_stack = vm.try_stack
      /\ w.frames[w.frame_count].ip = ip
  BY LooseCode, LooseIp
<1>2. n = [w EXCEPT !.stack_top = @ + ip.height - Top.ip.height]
  BY DEF Moved
<1>. HIDE DEF w
<1>3. n = [w EXCEPT !.stack_top = x]
  BY <1>1, <1>2 DEF Loose, LooseMachine
<1>4. ip.height \in 1..HeightMax
  BY DEF Place
<1>5. x \in Int /\ x <= StackMax + ip.height
  BY SMTT(30), <1>4, LooseCode, Limits
<1>. HIDE DEF x
<1>6. /\ Loose(n) /\ n.frame_count = w.frame_count /\ n.stack_top = x
      /\ n.frames = w.frames /\ n.try_stack = w.try_stack
  BY <1>1, <1>3, <1>5, LooseStack
<1>. QED  BY <1>1, <1>5, <1>6, LooseCode DEF Bounded

LEMMA LooseHeight ==
  ASSUME LooseInv, Running, NEW h \in 1..HeightMax
  PROVE  Height(h) \in Place /\ Height(h).height = h
<1>. DEFINE was == Top.ip
<1>1. was \in Place
  BY LooseCode
<1>2. Height(h) = [was EXCEPT !.height = h]
  BY DEF Height
<1>. HIDE DEF was
<1>. QED  BY <1>1, <1>2 DEF Place

LEMMA LooseStackOps ==
  ASSUME LooseInv, Push \/ Pop
  PROVE  LooseInv'
<1>1. CASE Push
  <2>. DEFINE h == Top.ip.height + 1
              p == WithIp(vm, Height(h))
  <2>1. Running /\ Top.ip.height < HeightMax /\ PushOn(p)
    BY <1>1 DEF Push, InCode
  <2>2. h \in 1..HeightMax
    BY SMTT(30), <2>1, LooseCode, Limits
  <2>. HIDE DEF h
  <2>3. Height(h) \in Place
    BY <2>1, <2>2, LooseHeight
  <2>4. Loose(p) /\ p.frame_count > 0
    BY <2>1, <2>3, LooseCode, LooseIp
  <2>. HIDE DEF p
  <2>. QED  BY <2>1, <2>4, LoosePush
<1>2. CASE Pop
  <2>. DEFINE h == Top.ip.height - 1
              n == Moved(Height(h))
  <2>1. Running /\ Top.ip.height > Floor(Top.ip) /\ Continue(n)
    BY <1>2 DEF Pop, InCode
  <2>2. h \in 1..HeightMax
    BY <2>1, LooseCode, Limits
  <2>. HIDE DEF h
  <2>3. Height(h) \in Place
    BY <2>1, <2>2, LooseHeight
  <2>4. Loose(n) /\ Bounded(n)
    BY <2>1, <2>3, LooseMove
  <2>. HIDE DEF n
  <2>. QED  BY <2>1, <2>4, LooseContinue
<1>. QED  BY <1>1, <1>2

LEMMA LooseTry ==
  ASSUME LooseInv, OpTry
  PROVE  LooseInv'
<1>. DEFINE h == Top.ip.height
            was == Top.ip
            o == Append(was.open, h)
            ip == [was EXCEPT !.open = o]
            w == WithIp(vm, ip)
            hd == [catch_ip    |-> Height(h + 1),
                   stack_top   |-> vm.stack_top,
                   frame_count |-> vm.frame_count]
            n == [w EXCEPT !.try_stack = Append(@, hd)]
<1>1. Running /\ h < HeightMax
  BY DEF OpTry, InCode
<1>2. /\ Loose(vm) /\ vm.frame_count \in 1..FramesMax /\ vm.frame_count > 0
      /\ was \in Place /\ h \in 1..HeightMax /\ h + 1 \in 1..HeightMax
      /\ was.open \in Seq(1..HeightMax) /\ was.height = h
      /\ vm.stack_top \in Int /\ vm.stack_top <= StackMax + h
  BY SMTT(30), <1>1, LooseCode, Limits
<1>3. CASE TryFull
  <2>1. Refuse
    BY <1>3 DEF OpTry
  <2>. QED  BY <1>2, <2>1, LooseRefuse
<1>4. CASE ~ TryFull
  <2>1. Continue(n)
    <3>1. ip = [Top.ip EXCEPT !.open = Append(@, Top.ip.height)]
      BY <1>2 DEF Place
    <3>. QED  BY <1>4, <3>1 DEF OpTry
  <2>2. ip \in Place /\ ip.height = h
    <3>1. o \in Seq(1..HeightMax)
      BY <1>2, AppendFacts
    <3>. HIDE DEF o, h, was
    <3>. QED  BY <1>2, <3>1 DEF Place
  <2>. HIDE DEF ip
  <2>3. /\ Loose(w) /\ w.frame_count = vm.frame_count /\ w.stack_top = vm.stack_top
        /\ w.try_stack = vm.try_stack /\ w.frames[w.frame_count].ip = ip
    BY <1>2, <2>2, LooseIp
  <2>. HIDE DEF w
  <2>4. hd \in LooseHandler
    <3>1. Height(h + 1) \in Place /\ Height(h + 1).height = h + 1
      BY <1>1, <1>2, LooseHeight
    <3>2. vm.stack_top < StackMax + (h + 1)
      BY SMTT(30), <1>2, Limits
    <3>. QED  BY <1>2, <3>1, <3>2 DEF LooseHandler
  <2>. HIDE DEF hd
  <2>5. /\ w.try_stack \in Seq(LooseHandler) /\ w \in LooseMachine
        /\ Len(w.try_stack) < TryMax
    <3>1. w.try_stack \in Seq(LooseHandler) /\ w \in LooseMachine
      BY <2>3 DEF Loose, LooseMachine
    <3>2. Len(w.try_stack) \in Nat /\ ~ (Len(w.try_stack) >= TryMax)
      BY <1>4, <2>3, <3>1, LenProperties DEF TryFull
    <3>. QED  BY <3>1, <3>2, Limits
  <2>6. /\ Append(w.try_stack, hd) \in Seq(LooseHandler)
        /\ Len(Append(w.try_stack, hd)) <= TryMax
    <3>1. /\ Append(w.try_stack, hd) \in Seq(LooseHandler)
          /\ Len(Append(w.try_stack, hd)) = Len(w.try_stack) + 1 /\ Len(w.try_stack) \in Nat
      BY <2>4, <2>5, AppendFacts
    <3>. QED  BY <2>5, <3>1, Limits
  <2>7. /\ n \in LooseMachine /\ n.try_stack = Append(w.try_stack, hd)
        /\ n.frames = w.frames /\ n.frame_count = w.frame_count /\ n.stack_top = w.stack_top
    BY <2>5, <2>6 DEF LooseMachine
  <2>. HIDE DEF n
  <2>8. Loose(n) /\ Bounded(n)
    BY <1>2, <2>2, <2>3, <2>6, <2>7 DEF Loose, Bounded
  <2>. QED  BY <2>1, <2>8, LooseContinue
<1>. QED  BY <1>3, <1>4

LEMMA LooseTryEnd ==
  ASSUME LooseInv, OpTryEnd
  PROVE  LooseInv'
<1>. DEFINE was == Top.ip
            o == Front(was.open)
            ip == [was EXCEPT !.open = o]
            w == WithIp(vm, ip)
            t == IF w.try_stack = <<>> THEN w.try_stack ELSE Front(w.try_stack)
            n == [w EXCEPT !.try_stack = t]
<1>1. Running /\ was.open # <<>>
  BY DEF OpTryEnd, InCode
<1>2. /\ Loose(vm) /\ vm.frame_count > 0 /\ was \in Place
      /\ was.open \in Seq(1..HeightMax)
      /\ vm.stack_top \in Int /\ vm.stack_top <= StackMax + was.height
  BY <1>1, LooseCode
<1>3. ip \in Place /\ ip.height = was.height
  <2>1. o \in Seq(1..HeightMax)
    BY <1>1, <1>2, FrontFacts
  <2>. HIDE DEF o, was
  <2>. QED  BY <1>2, <2>1 DEF Place
<1>4. ip = [Top.ip EXCEPT !.open = Front(@)]
  BY <1>2 DEF Place
<1>. HIDE DEF ip
<1>5. /\ Loose(w) /\ w.frame_count = vm.frame_count /\ w.stack_top = vm.stack_top
      /\ w.frames[w.frame_count].ip = ip
  BY <1>2, <1>3, LooseIp
<1>6. Continue([w EXCEPT !.try_stack = IF @ = <<>> THEN @ ELSE Front(@)])
  BY <1>4 DEF OpTryEnd
<1>. HIDE DEF w
<1>7. w \in LooseMachine /\ w.try_stack \in Seq(LooseHandler)
  BY <1>5 DEF Loose, LooseMachine
<1>8. t \in Seq(LooseHandler) /\ Len(t) <= TryMax
  <2>1. CASE w.try_stack = <<>>
    BY <1>5, <1>7, <2>1 DEF Loose
  <2>2. CASE w.try_stack # <<>>
    <3>1. /\ Len(w.try_stack) \in Nat \ {0} /\ Front(w.try_stack) \in Seq(LooseHandler)
          /\ Len(Front(w.try_stack)) = Len(w.try_stack) - 1
      BY <1>7, <2>2, FrontFacts
    <3>. QED  BY <1>5, <2>2, <3>1, Limits DEF Loose
  <2>. QED  BY <2>1, <2>2
<1>9. Continue(n)
  BY <1>6, <1>7 DEF LooseMachine
<1>. HIDE DEF t
<1>10. /\ n \in LooseMachine /\ n.try_stack = t
       /\ n.frames = w.frames /\ n.frame_count = w.frame_count /\ n.stack_top = w.stack_top
  BY <1>7, <1>8 DEF LooseMachine
<1>. HIDE DEF n
<1>11. Loose(n) /\ Bounded(n)
  BY <1>2, <1>3, <1>5, <1>8, <1>10 DEF Loose, Bounded
<1>. QED  BY <1>9, <1>11, LooseContinue

LEMMA LooseErrors ==
  ASSUME LooseInv, OpThrow \/ ThrowError \/ \E argc \in 0..HeightMax : NativeError(argc)
  PROVE  LooseInv'
<1>1. ASSUME Running, NEW x \in Int, x <= vm.stack_top, Throw([vm EXCEPT !.stack_top = x])
      PROVE  LooseInv'
  <2>. DEFINE n == [vm EXCEPT !.stack_top = x]
  <2>1. /\ Loose(vm) /\ vm.frame_count > 0 /\ vm.stack_top \in Int
        /\ vm.stack_top <= StackMax + HeightMax
    BY <1>1, LooseCode
  <2>2. Loose(n) /\ n.frame_count = vm.frame_count /\ n.stack_top = x
    BY <1>1, <2>1, LooseStack
  <2>3. Throw(n)
    BY <1>1
  <2>. HIDE DEF n
  <2>4. n.frame_count > 0 /\ n.stack_top <= StackMax + HeightMax
    BY <1>1, <2>1, <2>2, Limits
  <2>. QED  BY <2>2, <2>3, <2>4, LooseThrow
<1>2. ASSUME Running
      PROVE  vm.stack_top \in Int /\ vm = [vm EXCEPT !.stack_top = vm.stack_top]
  BY <1>2, LooseCode DEF Loose, LooseMachine
<1>3. CASE OpThrow
  <2>1. Running /\ Throw([vm EXCEPT !.stack_top = vm.stack_top - 1])
    BY <1>3 DEF OpThrow, InCode
  <2>2. vm.stack_top - 1 \in Int /\ vm.stack_top - 1 <= vm.stack_top
    BY <1>2, <2>1
  <2>. QED  BY <1>1, <2>1, <2>2
<1>4. CASE ThrowError
  <2>1. Running /\ Throw(vm)
    BY <1>4 DEF ThrowError, InCode
  <2>2. /\ vm.stack_top \in Int /\ vm.stack_top <= vm.stack_top
        /\ Throw([vm EXCEPT !.stack_top = vm.stack_top])
    BY <1>2, <2>1
  <2>. QED  BY <1>1, <2>1, <2>2
<1>5. ASSUME NEW argc \in 0..HeightMax, NativeError(argc) PROVE LooseInv'
  <2>1. Running /\ Throw([vm EXCEPT !.stack_top = vm.stack_top - argc - 1])
    BY <1>5 DEF NativeError, Calls, InCode
  <2>2. vm.stack_top - argc - 1 \in Int /\ vm.stack_top - argc - 1 <= vm.stack_top
    BY <1>2, <2>1, Limits
  <2>. QED  BY <1>1, <2>1, <2>2
<1>. QED  BY <1>3, <1>4, <1>5

(* Two errors, one after the other. *)
LEMMA LooseNativeThrows ==
  ASSUME LooseInv, NativeThrows
  PROVE  LooseInv'
<1>. DEFINE p == Staged(vm, "failed")
            q == throwError(p)
            x == q.stack_top - 2
            n == [q EXCEPT !.stack_top = x]
<1>1. Running /\ Throw(n)
  BY DEF NativeThrows, Calls, InCode
<1>2. /\ Loose(vm) /\ vm.frame_count > 0 /\ vm.stack_top \in Int
      /\ vm.stack_top <= StackMax + HeightMax
  BY <1>1, LooseCode
<1>3. Loose(p) /\ p.frame_count = vm.frame_count /\ p.stack_top = vm.stack_top
  BY <1>2, LooseStage
<1>. HIDE DEF p
<1>4. Loose(q) /\ q.frame_count > 0 /\ q.stack_top <= StackMax + HeightMax
  <2>1. CASE Caught(p)
    BY <1>3, <2>1, LooseCatch DEF Bounded
  <2>2. CASE ~ Caught(p)
    <3>1. q = [p EXCEPT !.thrown = TRUE]
      BY <2>2 DEF throwError
    <3>. QED  BY <1>2, <1>3, <3>1 DEF Loose, LooseMachine
  <2>. QED  BY <2>1, <2>2
<1>. HIDE DEF q
<1>5. x \in Int /\ x <= StackMax + HeightMax
  BY <1>4, Limits DEF Loose, LooseMachine
<1>. HIDE DEF x
<1>6. Loose(n) /\ n.frame_count = q.frame_count /\ n.stack_top = x
  BY <1>4, <1>5, LooseStack
<1>7. Throw(n)
  BY <1>1 DEF p, q, x
<1>. HIDE DEF n
<1>8. n.frame_count > 0 /\ n.stack_top <= StackMax + HeightMax
  BY <1>4, <1>5, <1>6
<1>. QED  BY <1>6, <1>7, <1>8, LooseThrow

LEMMA LooseJump ==
  ASSUME LooseInv, JumpOutOfTry
  PROVE  LooseInv'
<1>. DEFINE was == Top.ip
            open(k) == SubSeq(was.open, 1, k)
            ip(k, y) == [was EXCEPT !.open = open(k), !.height = y]
<1>1. Running
  BY DEF JumpOutOfTry, InCode
<1>2. was \in Place /\ was.open \in Seq(1..HeightMax) /\ Len(was.open) \in Nat
  BY <1>1, LooseCode, LenProperties
<1>3. PICK k \in 0..Len(was.open) - 1 :
        \E y \in Floor([was EXCEPT !.open = open(k)])..was.open[k + 1] :
          Continue(Moved(ip(k, y)))
  BY DEF JumpOutOfTry
<1>4. PICK y \in Floor([was EXCEPT !.open = open(k)])..was.open[k + 1] :
        Continue(Moved(ip(k, y)))
  BY <1>3
<1>5. k \in 0..Len(was.open) /\ k + 1 \in 1..Len(was.open)
  BY <1>2
<1>6. open(k) \in Seq(1..HeightMax) /\ was.open[k + 1] \in 1..HeightMax
  BY <1>2, <1>5, FirstPart, ElementOfSeq
<1>. DEFINE o == open(k)
            j == ip(k, y)
            top == was.open[k + 1]
<1>7. Floor([was EXCEPT !.open = o]) \in 1..HeightMax
  <2>. DEFINE z == [was EXCEPT !.open = o]
  <2>. HIDE DEF o, was
  <2>1. z.code \in Function /\ z.open \in Seq(1..HeightMax)
    BY <1>2, <1>6 DEF o, Place
  <2>. HIDE DEF z
  <2>2. Floor(z) \in 1..HeightMax
    BY <2>1, FloorFits
  <2>. QED  BY <2>2 DEF z
<1>8. y \in 1..HeightMax
  <2>. DEFINE fl == Floor([was EXCEPT !.open = o])
  <2>1. y \in fl..top /\ fl \in 1..HeightMax /\ top \in 1..HeightMax
    BY <1>4, <1>6, <1>7
  <2>. HIDE DEF fl, top
  <2>. QED  BY <2>1, Limits
<1>9. j \in Place
  <2>1. was \in Place /\ o \in Seq(1..HeightMax) /\ y \in 1..HeightMax
        /\ j = [was EXCEPT !.open = o, !.height = y]
    BY <1>2, <1>6, <1>8
  <2>. HIDE DEF was, o, j
  <2>. QED  BY ONLY <2>1 DEF Place
<1>. DEFINE n == Moved(j)
<1>10. Continue(n)
  BY <1>4
<1>. HIDE DEF j
<1>11. Loose(n) /\ Bounded(n)
  BY <1>1, <1>9, LooseMove
<1>. HIDE DEF n
<1>. QED  BY <1>10, <1>11, LooseContinue

LEMMA LooseCallNative ==
  ASSUME LooseInv, NEW argc \in 0..HeightMax, CallNative(argc)
  PROVE  LooseInv'
<1>. DEFINE h == Top.ip.height - argc
            w == WithIp(vm, Height(h))
            x == w.stack_top - argc
            n == [w EXCEPT !.stack_top = x, !.thrown = FALSE]
<1>1. Running /\ Top.ip.height > Floor(Top.ip) + argc /\ Continue(n)
  BY DEF CallNative, Calls, Returned, InCode
<1>2. /\ Loose(vm) /\ vm.frame_count > 0 /\ vm.stack_top \in Int
      /\ vm.stack_top <= StackMax + Top.ip.height
      /\ Top.ip.height \in 1..HeightMax /\ Floor(Top.ip) \in 1..HeightMax
  BY <1>1, LooseCode
<1>3. h \in 1..HeightMax /\ vm.stack_top - argc <= StackMax + h /\ vm.stack_top - argc \in Int
  BY <1>1, <1>2, Limits
<1>. HIDE DEF h
<1>4. Height(h) \in Place /\ Height(h).height = h
  BY <1>1, <1>3, LooseHeight
<1>5. /\ Loose(w) /\ w.frame_count = vm.frame_count /\ w.stack_top = vm.stack_top
      /\ w.frames[w.frame_count].ip = Height(h)
  BY <1>2, <1>4, LooseIp
<1>6. Continue(n)
  BY <1>1 DEF h
<1>. HIDE DEF w
<1>7. x \in Int /\ x <= StackMax + h
  BY <1>3, <1>5
<1>. HIDE DEF x
<1>8. /\ Loose(n) /\ n.frame_count = w.frame_count /\ n.stack_top = x
      /\ n.frames = w.frames
  BY <1>5, <1>7 DEF Loose, LooseMachine
<1>. HIDE DEF n
<1>9. Bounded(n)
  BY <1>2, <1>4, <1>5, <1>7, <1>8 DEF Bounded
<1>. QED  BY <1>6, <1>8, <1>9, LooseContinue

\* One more frame.
Entered(m, f, x) ==
  [m EXCEPT !.frame_count = @ + 1, !.frames[m.frame_count + 1] = f, !.stack_top = x]

LEMMA LooseEnter ==
  ASSUME NEW m, Loose(m), ~ (m.frame_count >= FramesMax), NEW f \in LooseFrame, NEW x \in Int,
         NEW n, n = Entered(m, f, x)
  PROVE  /\ Loose(n) /\ n.frame_count > 0 /\ n.stack_top = x
         /\ n.frames[n.frame_count] = f
<1>. DEFINE c == m.frame_count + 1
            fs == [m.frames EXCEPT ![c] = f]
<1>1. /\ m \in LooseMachine /\ c \in 1..FramesMax /\ c \in 0..FramesMax /\ c > 0
      /\ Len(m.try_stack) <= TryMax
  BY Limits DEF Loose, LooseMachine
<1>2. n = [m EXCEPT !.frame_count = c, !.frames = fs, !.stack_top = x]
  BY <1>1 DEF Entered, LooseMachine
<1>3. fs \in [1..FramesMax -> LooseFrame] /\ fs[c] = f
  BY <1>1 DEF LooseMachine
<1>. HIDE DEF c, fs
<1>4. /\ n \in LooseMachine /\ n.frame_count = c /\ n.stack_top = x
      /\ n.frames = fs /\ n.try_stack = m.try_stack
  BY <1>1, <1>2, <1>3 DEF LooseMachine
<1>. QED  BY <1>1, <1>3, <1>4 DEF Loose

LEMMA LooseEntry ==
  ASSUME NEW f \in Function, NEW s \in Int, s < StackMax
  PROVE  /\ Frame(f, s) \in LooseFrame
         /\ Frame(f, s).ip.height = Arity[f] + 1 /\ Arity[f] \in Nat
<1>1. Arity[f] \in Nat /\ Arity[f] < HeightMax
  BY ControlAssumption
<1>2. <<>> \in Seq(1..HeightMax) /\ Arity[f] + 1 \in 1..HeightMax
  BY <1>1, EmptySeq, Limits
<1>3. EntryOf(f) \in Place /\ EntryOf(f).height = Arity[f] + 1
  BY <1>2 DEF EntryOf, At, Place
<1>. QED  BY <1>1, <1>3 DEF Frame, LooseFrame

LEMMA LooseCall ==
  ASSUME LooseInv, NEW f \in Function \ {Script}, NEW argc \in 0..HeightMax, OpCall(f, argc)
  PROVE  LooseInv'
<1>. DEFINE h == Top.ip.height - argc
            w == WithIp(vm, Height(h))
            s == CalleeSlots(argc)
            g == Frame(f, s)
            n == [w EXCEPT !.frame_count = @ + 1, !.frames[vm.frame_count + 1] = g,
                           !.stack_top = @ + Arity[f] - argc]
<1>1. Running /\ Top.ip.height > Floor(Top.ip) + argc
  BY DEF OpCall, Calls, InCode
<1>2. /\ Loose(vm) /\ vm.frame_count > 0 /\ vm.stack_top \in Int
      /\ Top.ip.height \in 1..HeightMax /\ Floor(Top.ip) \in 1..HeightMax
  BY <1>1, LooseCode
<1>3. h \in 1..HeightMax
  BY <1>1, <1>2, Limits
<1>4. CASE argc > Arity[f] \/ vm.frame_count >= FramesMax
  <2>1. Refuse
    BY <1>4 DEF OpCall
  <2>. QED  BY <1>2, <2>1, LooseRefuse
<1>5. CASE ~ (argc > Arity[f] \/ vm.frame_count >= FramesMax)
  <2>1. CASE vm.stack_top + Arity[f] - argc > StackMax
    <3>1. result' = "exit" /\ vm' = vm
      BY <1>5, <2>1 DEF OpCall
    <3>. QED  BY <3>1 DEF LooseInv, Loose
  <2>2. CASE ~ (vm.stack_top + Arity[f] - argc > StackMax)
    <3>. DEFINE x == vm.stack_top + Arity[f] - argc
    <3>1. Continue(n)
      BY <1>5, <2>2 DEF OpCall, Returned
    <3>2. Arity[f] \in Nat /\ Arity[f] < HeightMax
      BY ControlAssumption
    <3>3. s \in Int /\ s < StackMax /\ x \in Int /\ x <= StackMax
      BY <1>2, <1>5, <2>2, <3>2, Limits DEF CalleeSlots
    <3>. HIDE DEF s, h, x
    <3>4. g \in LooseFrame /\ g.ip.height = Arity[f] + 1
      BY <3>3, LooseEntry
    <3>5. Height(h) \in Place
      BY <1>1, <1>3, LooseHeight
    <3>6. Loose(w) /\ w.frame_count = vm.frame_count /\ w.stack_top = vm.stack_top
      BY <1>2, <3>5, LooseIp
    <3>. HIDE DEF w, g
    <3>7. n = Entered(w, g, x)
      BY <3>6 DEF x, Entered, Loose, LooseMachine
    <3>8. Continue(n)
      BY <3>1 DEF w, g, h, s
    <3>. HIDE DEF n
    <3>9. ~ (w.frame_count >= FramesMax)
      BY <1>5, <3>6
    <3>10. Loose(n) /\ n.frame_count > 0 /\ n.stack_top = x /\ n.frames[n.frame_count] = g
      BY <3>3, <3>4, <3>6, <3>7, <3>9, LooseEnter
    <3>11. Bounded(n)
      BY <3>2, <3>3, <3>4, <3>10, Limits DEF Bounded
    <3>. QED  BY <3>8, <3>10, <3>11, LooseContinue
  <2>. QED  BY <2>1, <2>2
<1>. QED  BY <1>4, <1>5

LEMMA LooseReturns ==
  ASSUME LooseInv, OpReturn \/ PastHalt
  PROVE  LooseInv'
<1>1. Running
  BY DEF OpReturn, PastHalt, InCode
<1>2. /\ Loose(vm) /\ vm.frame_count > 0 /\ vm.stack_top \in Int
      /\ vm.stack_top <= StackMax + HeightMax
      /\ Top.ip.height \in 1..HeightMax /\ Floor(Top.ip) \in 1..HeightMax
  BY <1>1, LooseCode
<1>3. CASE OpReturn
  <2>. DEFINE h == Top.ip.height - 1
              n == WithIp(vm, Height(h))
  <2>1. Top.ip.height > Floor(Top.ip) /\ Return(n)
    BY <1>3 DEF OpReturn
  <2>2. h \in 1..HeightMax
    BY <1>2, <2>1, Limits
  <2>. HIDE DEF h
  <2>3. Height(h) \in Place
    BY <1>1, <2>2, LooseHeight
  <2>4. Loose(n) /\ n.frame_count = vm.frame_count /\ n.stack_top = vm.stack_top
    BY <1>2, <2>3, LooseIp
  <2>. HIDE DEF n
  <2>5. n.stack_top <= StackMax + HeightMax + 1
    BY <1>2, <2>4, Limits
  <2>. QED  BY <1>2, <2>1, <2>4, <2>5, LooseReturn
<1>4. CASE PastHalt /\ vm.stack_top >= StackMax
  <2>1. result' = "exit" /\ vm' = vm
    BY <1>4 DEF PastHalt
  <2>. QED  BY <2>1 DEF LooseInv, Loose
<1>5. CASE PastHalt /\ ~ (vm.stack_top >= StackMax)
  <2>. DEFINE x == vm.stack_top + 1
              n == [vm EXCEPT !.stack_top = x]
  <2>1. Return(n)
    <3>1. n = [vm EXCEPT !.stack_top = @ + 1]
      BY <1>2 DEF Loose, LooseMachine
    <3>. QED  BY <1>5, <3>1 DEF PastHalt
  <2>2. x \in Int /\ x <= StackMax + HeightMax + 1
    BY <1>2, Limits
  <2>. HIDE DEF x
  <2>3. Loose(n) /\ n.frame_count = vm.frame_count /\ n.stack_top = x
    BY <1>2, <2>2, LooseStack
  <2>. HIDE DEF n
  <2>. QED  BY <1>2, <2>1, <2>2, <2>3, LooseReturn
<1>. QED  BY <1>3, <1>4, <1>5

LEMMA LooseHalt ==
  ASSUME LooseInv, OpHalt
  PROVE  LooseInv'
<1>. DEFINE n == Staged(vm, "halted")
<1>1. Running /\ vm' = n /\ result' = "ok"
  BY DEF OpHalt, InCode
<1>2. Loose(n) /\ n.stack_top = vm.stack_top
  BY <1>1, LooseCode, LooseStage
<1>. HIDE DEF n
<1>. QED  BY <1>1, <1>2 DEF LooseInv, Loose

LEMMA LooseRun ==
  ASSUME LooseInv, RunVM
  PROVE  LooseInv'
<1>1. PICK host \in Hosts :
        PushOn(IF Ready(host).frame_count >= FramesMax THEN Ready(host)
               ELSE [Ready(host) EXCEPT !.frame_count = @ + 1,
                       !.frames[Ready(host).frame_count + 1] = Frame(Script, Ready(host).stack_top)])
  BY DEF RunVM
<1>. DEFINE m == Ready(host)
<1>2. Loose(m)
  <2>. DEFINE n == [vm EXCEPT !.stack_top = 0, !.frame_count = 0, !.try_stack = <<>>,
                              !.thrown = FALSE]
  <2>1. m = n \/ m = vm
    BY DEF Ready
  <2>2. Loose(vm) /\ vm \in LooseMachine
    BY DEF LooseInv, Loose
  <2>3. <<>> \in Seq(LooseHandler) /\ Len(<<>>) <= TryMax /\ 0 \in 0..FramesMax /\ 0 \in Int
    BY EmptySeq, Limits
  <2>4. ASSUME NEW e \in Seq(LooseHandler), Len(e) <= TryMax
        PROVE  Loose([vm EXCEPT !.stack_top = 0, !.frame_count = 0, !.try_stack = e,
                                !.thrown = FALSE])
    BY <2>2, <2>3, <2>4 DEF Loose, LooseMachine
  <2>. QED  BY <2>1, <2>2, <2>3, <2>4
<1>3. m.frame_count \in 0..FramesMax /\ m.stack_top \in Int /\ m \in LooseMachine
  BY <1>2 DEF Loose, LooseMachine
<1>. HIDE DEF m
<1>4. CASE m.frame_count >= FramesMax
  <2>1. PushOn(m)
    BY <1>1, <1>4 DEF m
  <2>2. m.frame_count > 0
    BY <1>3, <1>4, Limits
  <2>. QED  BY <1>2, <2>1, <2>2, LoosePush
<1>5. CASE ~ (m.frame_count >= FramesMax)
  <2>. DEFINE s == m.stack_top
              f == Frame(Script, s)
              n == [m EXCEPT !.frame_count = @ + 1, !.frames[m.frame_count + 1] = f]
  <2>1. PushOn(n)
    BY <1>1, <1>5 DEF m
  <2>2. n.stack_top = s
    BY <1>3 DEF LooseMachine
  <2>3. CASE s >= StackMax
    <3>1. result' = "exit" /\ vm' = vm
      BY <2>1, <2>2, <2>3 DEF PushOn
    <3>. QED  BY <3>1 DEF LooseInv, Loose
  <2>4. CASE ~ (s >= StackMax)
    <3>1. s \in Int /\ s < StackMax /\ Script \in Function
      BY <1>3, <2>4, Limits, ControlAssumption
    <3>2. f \in LooseFrame
      BY <3>1, LooseEntry
    <3>3. n = Entered(m, f, s)
      BY <1>3 DEF Entered, LooseMachine
    <3>. HIDE DEF s, f, n
    <3>4. Loose(n) /\ n.frame_count > 0
      BY <1>2, <1>5, <3>1, <3>2, <3>3, LooseEnter
    <3>. QED  BY <2>1, <3>4, LoosePush
  <2>. QED  BY <2>3, <2>4
<1>. QED  BY <1>4, <1>5

LEMMA LooseInit ==
  Init => LooseInv
<1>. SUFFICES ASSUME Init PROVE LooseInv
  OBVIOUS
<1>. DEFINE f == Frame(Script, 0)
<1>1. f \in LooseFrame
  BY LooseEntry, Limits, ControlAssumption
<1>2. /\ vm = [frames |-> [i \in 1..FramesMax |-> f], frame_count |-> 0, stack_top |-> 0,
               try_stack |-> <<>>, thrown |-> FALSE]
      /\ result = "ok"
  BY DEF Init, NewVM
<1>. HIDE DEF f
<1>3. <<>> \in Seq(LooseHandler) /\ Len(<<>>) <= TryMax /\ 0 \in 0..FramesMax /\ 0 \in Int
  BY EmptySeq, Limits
<1>4. ASSUME NEW e \in Seq(LooseHandler), NEW g \in [1..FramesMax -> LooseFrame]
      PROVE  [frames |-> g, frame_count |-> 0, stack_top |-> 0,
              try_stack |-> e, thrown |-> FALSE] \in LooseMachine
  BY <1>3 DEF LooseMachine
<1>5. [i \in 1..FramesMax |-> f] \in [1..FramesMax -> LooseFrame]
  BY <1>1
<1>6. vm \in LooseMachine /\ vm.stack_top = 0 /\ vm.try_stack = <<>>
  BY <1>2, <1>3, <1>4, <1>5
<1>. QED  BY <1>2, <1>3, <1>6, Limits DEF LooseInv, Loose

LEMMA LooseNext ==
  ASSUME LooseInv, [Next]_vars
  PROVE  LooseInv'
<1>1. CASE RunVM
  BY <1>1, LooseRun
<1>2. CASE Push \/ Pop
  BY <1>2, LooseStackOps
<1>3. CASE OpTry
  BY <1>3, LooseTry
<1>4. CASE OpTryEnd
  BY <1>4, LooseTryEnd
<1>5. CASE OpThrow \/ ThrowError
  BY <1>5, LooseErrors
<1>6. CASE JumpOutOfTry
  BY <1>6, LooseJump
<1>7. CASE \E argc \in 0..HeightMax : \E f \in Function \ {Script} : OpCall(f, argc)
  BY <1>7, LooseCall
<1>8. CASE \E argc \in 0..HeightMax : CallNative(argc)
  BY <1>8, LooseCallNative
<1>9. CASE \E argc \in 0..HeightMax : NativeError(argc)
  BY <1>9, LooseErrors
<1>10. CASE NativeThrows
  BY <1>10, LooseNativeThrows
<1>11. CASE OpReturn \/ PastHalt
  BY <1>11, LooseReturns
<1>12. CASE OpHalt
  BY <1>12, LooseHalt
<1>13. CASE UNCHANGED vars
  <2>1. vm' = vm /\ result' = result
    BY <1>13 DEF vars
  <2>. QED  BY <2>1 DEF LooseInv, Loose, Bounded
<1>. QED  BY <1>1, <1>2, <1>3, <1>4, <1>5, <1>6, <1>7, <1>8, <1>9, <1>10, <1>11, <1>12,
             <1>13 DEF Next

(* Whatever the program does, with handlers that outlive their try bodies and
   frames that come back after they were left, throwError, OP_TRY, callFunction
   and the returns stay within the arrays of frames and handlers, and exceed
   the stack by no more than one function's slots. *)
THEOREM LimitsKept ==
  Spec => []LimitsHold
<1>1. LooseInv /\ [Next]_vars => LooseInv'
  BY LooseNext
<1>2. LooseInv => LimitsHold
  <2>. SUFFICES ASSUME LooseInv PROVE LimitsHold
    OBVIOUS
  <2>1. /\ vm \in LooseMachine /\ Len(vm.try_stack) <= TryMax
        /\ vm.stack_top <= StackMax + HeightMax
        /\ result = "running" => vm.frame_count > 0
    BY DEF LooseInv, Loose, Bounded
  <2>2. \A i \in DOMAIN vm.try_stack : vm.try_stack[i].frame_count \in 1..FramesMax
    <3>1. vm.try_stack \in Seq(LooseHandler)
      BY <2>1 DEF LooseMachine
    <3>2. \A i \in DOMAIN vm.try_stack : vm.try_stack[i] \in LooseHandler
      BY <3>1, ElementOfSeq, LenProperties
    <3>. QED  BY <3>2 DEF LooseHandler
  <2>3. vm.frame_count \in 0..FramesMax
    BY <2>1 DEF LooseMachine
  <2>. QED  BY <2>1, <2>2, <2>3 DEF LimitsHold
<1>. QED  BY <1>1, <1>2, LooseInit, PTL DEF Spec

-----------------------------------------------------------------------------
(* What a step of a run does to the handlers and to the functions that are
   active, when no native calls throwError by itself. *)

SameFunctions(m, n, c) == \A i \in 1..c : n.frames[i].function = m.frames[i].function

Keeps(m, n) == /\ n.try_stack = m.try_stack
               /\ n.frame_count <= m.frame_count
               /\ SameFunctions(m, n, n.frame_count)

EntersCall(m, n) == /\ n.try_stack = m.try_stack
                    /\ n.frame_count = m.frame_count + 1
                    /\ SameFunctions(m, n, m.frame_count)
                    /\ n.frames[n.frame_count].function # Script

Opens(m, n) == /\ n.frame_count = m.frame_count
               /\ SameFunctions(m, n, m.frame_count)
               /\ \E h \in HandlerType : /\ h.frame_count = m.frame_count
                                         /\ n.try_stack = Append(m.try_stack, h)

Closes(m, n) == /\ m.try_stack # <<>>
                /\ n.try_stack = Front(m.try_stack)
                /\ n.frame_count <= m.frame_count
                /\ SameFunctions(m, n, n.frame_count)

Steps == \/ Keeps(vm, vm') \/ EntersCall(vm, vm') \/ Opens(vm, vm') \/ Closes(vm, vm')

LEMMA ThrowSteps ==
  ASSUME NEW m, Good(m), m.frame_count > 0, Throw(m),
         m.try_stack = vm.try_stack, m.frame_count = vm.frame_count, m.frames = vm.frames
  PROVE  /\ Steps
         /\ result' \in {"running", "uncaught"}
         /\ result' = "uncaught" => vm.try_stack = <<>>
<1>. DEFINE p == Staged(m, "failed")
<1>0. m.frame_count \in Int
  BY DEF Good, Machine
<1>1. /\ p \in Machine /\ Good(p) /\ p.frame_count = m.frame_count
      /\ p.try_stack = m.try_stack
      /\ \A i \in 1..p.frame_count : p.frames[i].function = m.frames[i].function
  BY StageFacts
<1>2. vm' = throwError(p)
  BY DEF Throw
<1>3. CASE Caught(m)
  <2>1. result' = "running" /\ Caught(p) /\ vm.try_stack # <<>>
    BY <1>1, <1>3 DEF Throw, Caught
  <2>. HIDE DEF p
  <2>2. /\ vm'.try_stack = Front(p.try_stack) /\ vm'.frame_count <= p.frame_count
        /\ vm'.frame_count \in 1..FramesMax
        /\ \A i \in 1..vm'.frame_count : vm'.frames[i].function = p.frames[i].function
    BY <1>1, <1>2, <2>1, CatchFacts
  <2>3. \A i \in 1..vm'.frame_count : i \in 1..p.frame_count
    BY <1>0, <1>1, <2>2, Limits
  <2>4. Closes(vm, vm')
    BY <1>1, <2>1, <2>2, <2>3 DEF Closes, SameFunctions
  <2>. QED  BY <2>1, <2>4 DEF Steps
<1>4. CASE ~ Caught(m)
  <2>1. result' = "uncaught" /\ ~ Caught(p) /\ vm.try_stack = <<>>
    BY <1>1, <1>4 DEF Throw, Caught
  <2>. HIDE DEF p
  <2>2. vm' = [p EXCEPT !.thrown = TRUE]
    BY <1>2, <2>1 DEF throwError
  <2>3. /\ vm'.frames = p.frames /\ vm'.frame_count = p.frame_count
        /\ vm'.try_stack = p.try_stack
    BY <1>1, <2>2 DEF Machine
  <2>4. Keeps(vm, vm')
    BY <1>0, <1>1, <2>3 DEF Keeps, SameFunctions
  <2>. QED  BY <2>1, <2>4 DEF Steps
<1>. QED  BY <1>3, <1>4

(***************************************************************************)
(* Instructions that leave the handlers and the frames where they are.     *)
(***************************************************************************)
LEMMA KeepSteps ==
  ASSUME NEW n, vm \in Machine, n.try_stack = vm.try_stack, n.frame_count = vm.frame_count,
         SameFunctions(vm, n, vm.frame_count), vm' = n
  PROVE  Steps
  BY DEF Steps, Keeps, SameFunctions, Machine

LEMMA PushSteps ==
  ASSUME NEW p, p.try_stack = vm.try_stack, p \in Machine, vm \in Machine,
         p.frame_count <= vm.frame_count, SameFunctions(vm, p, p.frame_count), PushOn(p)
  PROVE  Steps /\ result' \in {"running", "exit"}
<1>1. CASE p.stack_top >= StackMax
  <2>1. result' = "exit" /\ vm' = vm
    BY <1>1 DEF PushOn
  <2>. QED  BY <2>1 DEF Steps, Keeps, SameFunctions, Machine
<1>2. CASE ~ (p.stack_top >= StackMax)
  <2>1. vm' = [p EXCEPT !.stack_top = @ + 1] /\ result' = "running"
    BY <1>2 DEF PushOn, Continue
  <2>2. /\ vm'.frames = p.frames /\ vm'.frame_count = p.frame_count
        /\ vm'.try_stack = p.try_stack
    BY <2>1 DEF Machine
  <2>. QED  BY <2>1, <2>2 DEF Steps, Keeps, SameFunctions
<1>. QED  BY <1>1, <1>2

LEMMA RefuseSteps ==
  ASSUME Good(vm), vm.frame_count > 0, Refuse
  PROVE  Steps /\ result' = "refused"
<1>. DEFINE p == Staged(vm, "failed")
<1>1. /\ p.frame_count = vm.frame_count /\ p.try_stack = vm.try_stack
      /\ \A i \in 1..p.frame_count : p.frames[i].function = vm.frames[i].function
  BY StageFacts
<1>2. vm' = p /\ result' = "refused" /\ vm \in Machine
  BY DEF Refuse, Good
<1>. HIDE DEF p
<1>. QED  BY <1>1, <1>2 DEF Steps, Keeps, SameFunctions, Machine

LEMMA MoveSteps ==
  ASSUME Inv, InCode, NEW ip \in Place
  PROVE  LET n == WithIp(vm, ip) IN
         /\ n \in Machine /\ vm \in Machine
         /\ n.try_stack = vm.try_stack /\ n.frame_count = vm.frame_count
         /\ SameFunctions(vm, n, vm.frame_count)
<1>. DEFINE n == WithIp(vm, ip)
<1>1. /\ n \in Machine
      /\ n.frame_count = vm.frame_count /\ n.try_stack = vm.try_stack
      /\ \A i \in 1..vm.frame_count : i # vm.frame_count => n.frames[i] = vm.frames[i]
      /\ n.frames[vm.frame_count].function = Top.function
  BY IpFacts
<1>2. Top = vm.frames[vm.frame_count] /\ vm \in Machine
  BY InCodeFacts DEF Top
<1>. HIDE DEF n
<1>3. ASSUME NEW i \in 1..vm.frame_count PROVE n.frames[i].function = vm.frames[i].function
  <2>1. CASE i = vm.frame_count
    BY <1>1, <1>2, <2>1
  <2>2. CASE i # vm.frame_count
    <3>1. n.frames[i] = vm.frames[i]
      BY <1>1, <2>2
    <3>. QED  BY <3>1
  <2>. QED  BY <2>1, <2>2
<1>. QED  BY <1>1, <1>2, <1>3 DEF n, SameFunctions

LEMMA StackSteps ==
  ASSUME Inv, Push \/ Pop \/ \E argc \in 0..HeightMax : CallNative(argc)
  PROVE  Steps /\ result' \in {"running", "exit"}
<1>1. CASE Push
  <2>1. InCode /\ Top.ip.height < HeightMax /\ PushOn(WithIp(vm, Height(Top.ip.height + 1)))
    BY <1>1 DEF Push
  <2>. DEFINE h == Top.ip.height + 1
              n == WithIp(vm, Height(h))
  <2>2. h \in 1..HeightMax /\ vm.frame_count \in Int
    <3>1. vm.frame_count \in 1..FramesMax
      BY <2>1, InCodeFacts
    <3>. QED  BY <2>1, <3>1, HeightsFit
  <2>3. PushOn(n)
    BY <2>1
  <2>. HIDE DEF h
  <2>4. Height(h) \in Place
    BY <2>1, <2>2, HeightFacts
  <2>5. /\ n \in Machine /\ vm \in Machine /\ n.try_stack = vm.try_stack
        /\ n.frame_count = vm.frame_count /\ SameFunctions(vm, n, vm.frame_count)
    BY <2>1, <2>4, MoveSteps
  <2>. HIDE DEF n
  <2>6. n.frame_count <= vm.frame_count /\ SameFunctions(vm, n, n.frame_count)
    BY <2>2, <2>5
  <2>. QED  BY <2>3, <2>5, <2>6, PushSteps
<1>2. CASE Pop
  <2>1. InCode /\ Top.ip.height > Floor(Top.ip) /\ Continue(Moved(Height(Top.ip.height - 1)))
    BY <1>2 DEF Pop
  <2>. DEFINE h == Top.ip.height - 1
              n == WithIp(vm, Height(h))
              p == Moved(Height(h))
  <2>2. h \in 1..HeightMax
    BY <2>1, HeightsFit
  <2>3. vm' = p /\ result' = "running"
    BY <2>1 DEF Continue
  <2>. HIDE DEF h
  <2>4. Height(h) \in Place
    BY <2>1, <2>2, HeightFacts
  <2>5. /\ n \in Machine /\ vm \in Machine /\ n.try_stack = vm.try_stack
        /\ n.frame_count = vm.frame_count /\ SameFunctions(vm, n, vm.frame_count)
    BY <2>1, <2>4, MoveSteps
  <2>6. p = [n EXCEPT !.stack_top = @ + Height(h).height - Top.ip.height]
    BY DEF Moved
  <2>. HIDE DEF n, p
  <2>7. p.try_stack = n.try_stack /\ p.frame_count = n.frame_count /\ p.frames = n.frames
    BY <2>5, <2>6 DEF Machine
  <2>8. SameFunctions(vm, p, vm.frame_count)
    BY <2>5, <2>7 DEF SameFunctions
  <2>. QED  BY <2>3, <2>5, <2>7, <2>8, KeepSteps
<1>3. ASSUME NEW argc \in 0..HeightMax, CallNative(argc)
      PROVE  Steps /\ result' = "running"
  <2>. DEFINE h == Top.ip.height - argc
              n == WithIp(vm, Height(h))
              p == [n EXCEPT !.stack_top = @ - argc, !.thrown = FALSE]
  <2>1. InCode /\ Top.ip.height > Floor(Top.ip) + argc /\ vm' = p /\ result' = "running"
    BY <1>3 DEF CallNative, Calls, Returned, Continue
  <2>2. h \in 1..HeightMax
    BY <2>1, HeightsFit
  <2>. HIDE DEF h
  <2>4. Height(h) \in Place
    BY <2>1, <2>2, HeightFacts
  <2>5. /\ n \in Machine /\ vm \in Machine /\ n.try_stack = vm.try_stack
        /\ n.frame_count = vm.frame_count /\ SameFunctions(vm, n, vm.frame_count)
    BY <2>1, <2>4, MoveSteps
  <2>. HIDE DEF n
  <2>7. p.try_stack = n.try_stack /\ p.frame_count = n.frame_count /\ p.frames = n.frames
    BY <2>5 DEF Machine
  <2>6. vm' = p
    BY <2>1 DEF n, h
  <2>. HIDE DEF p
  <2>8. SameFunctions(vm, p, vm.frame_count)
    BY <2>5, <2>7 DEF SameFunctions
  <2>9. Steps
    BY <2>5, <2>6, <2>7, <2>8, KeepSteps
  <2>. QED  BY <2>1, <2>9
<1>. QED  BY <1>1, <1>2, <1>3

LEMMA TrySteps ==
  ASSUME Inv, OpTry \/ OpTryEnd
  PROVE  Steps /\ result' \in {"running", "refused"}
<1>0. /\ InCode /\ vm \in Machine /\ Good(vm) /\ vm.frame_count > 0 /\ Top.ip \in Place
      /\ Top.ip.open \in Seq(1..HeightMax) /\ Top.ip.height \in 1..HeightMax
      /\ vm.stack_top \in 0..StackMax + HeightMax /\ vm.frame_count \in 1..FramesMax
  <2>1. InCode
    BY DEF OpTry, OpTryEnd
  <2>2. vm.frame_count \in 1..FramesMax
    BY <2>1, InCodeFacts
  <2>. QED  BY <2>1, <2>2, InCodeFacts
<1>1. CASE OpTry /\ TryFull
  <2>1. Refuse
    BY <1>1 DEF OpTry
  <2>. QED  BY <1>0, <2>1, RefuseSteps
<1>2. CASE OpTry /\ ~ TryFull
  <2>. DEFINE h == Top.ip.height
              ip == [Top.ip EXCEPT !.open = Append(@, h)]
              w == WithIp(vm, ip)
              hd == [catch_ip    |-> Height(h + 1),
                     stack_top   |-> vm.stack_top,
                     frame_count |-> vm.frame_count]
              n == [w EXCEPT !.try_stack = Append(@, hd)]
  <2>1. h < HeightMax /\ vm' = n /\ result' = "running"
    BY <1>2 DEF OpTry, Continue
  <2>2. ip \in Place
    <3>1. Append(Top.ip.open, h) \in Seq(1..HeightMax)
      BY <1>0, AppendFacts
    <3>. DEFINE was == Top.ip
                o == Append(Top.ip.open, h)
    <3>2. ip = [was EXCEPT !.open = o]
      BY <1>0 DEF Place
    <3>3. was \in Place
      BY <1>0
    <3>. HIDE DEF was, o, ip
    <3>. QED  BY <3>1, <3>2, <3>3 DEF Place, o
  <2>3. h + 1 \in 1..HeightMax
    BY SMTT(30), <1>0, <2>1, Limits
  <2>4. Height(h + 1) \in Place
    BY <1>0, <2>3, HeightFacts
  <2>5. hd \in HandlerType
    <3>. DEFINE q == Height(h + 1)
    <3>1. q \in Place
      BY <2>4
    <3>. HIDE DEF q
    <3>2. [catch_ip |-> q, stack_top |-> vm.stack_top, frame_count |-> vm.frame_count] \in HandlerType
      BY <1>0, <3>1 DEF HandlerType
    <3>. QED  BY <3>2 DEF q
  <2>6. hd.frame_count = vm.frame_count
    OBVIOUS
  <2>. HIDE DEF ip, hd
  <2>7. /\ w \in Machine /\ w.try_stack = vm.try_stack
        /\ w.frame_count = vm.frame_count /\ SameFunctions(vm, w, vm.frame_count)
    BY <1>0, <2>2, MoveSteps
  <2>. HIDE DEF w
  <2>8. /\ n.frame_count = w.frame_count /\ n.frames = w.frames
        /\ n.try_stack = Append(vm.try_stack, hd)
    BY <2>7 DEF Machine
  <2>9. vm' = n
    BY <2>1 DEF w, hd, ip
  <2>. HIDE DEF n
  <2>10. Opens(vm, vm')
    BY <2>5, <2>6, <2>7, <2>8, <2>9 DEF Opens, SameFunctions
  <2>. QED  BY <2>1, <2>10 DEF Steps
<1>3. CASE OpTryEnd
  <2>. DEFINE ip == [Top.ip EXCEPT !.open = Front(@)]
              w == WithIp(vm, ip)
              n == [w EXCEPT !.try_stack = IF @ = <<>> THEN @ ELSE Front(@)]
  <2>1. Top.ip.open # <<>> /\ vm' = n /\ result' = "running"
    BY <1>3 DEF OpTryEnd, Continue
  <2>2. ip \in Place
    <3>1. Front(Top.ip.open) \in Seq(1..HeightMax)
      BY <1>0, <2>1, FrontFacts
    <3>. DEFINE was == Top.ip
                o == Front(Top.ip.open)
    <3>2. ip = [was EXCEPT !.open = o]
      BY <1>0 DEF Place
    <3>3. was \in Place
      BY <1>0
    <3>. HIDE DEF was, o, ip
    <3>. QED  BY <3>1, <3>2, <3>3 DEF Place, o
  <2>. HIDE DEF ip
  <2>3. /\ w \in Machine /\ w.try_stack = vm.try_stack
        /\ w.frame_count = vm.frame_count /\ SameFunctions(vm, w, vm.frame_count)
    BY <1>0, <2>2, MoveSteps
  <2>. HIDE DEF w
  <2>4. /\ n.frame_count = w.frame_count /\ n.frames = w.frames
        /\ n.try_stack = IF vm.try_stack = <<>> THEN vm.try_stack ELSE Front(vm.try_stack)
    BY <2>3 DEF Machine
  <2>5. vm' = n
    BY <2>1 DEF w, ip
  <2>. HIDE DEF n
  <2>6. /\ vm'.frame_count <= vm.frame_count
        /\ SameFunctions(vm, vm', vm'.frame_count)
    BY <1>0, <2>3, <2>4, <2>5 DEF SameFunctions
  <2>7. Keeps(vm, vm') \/ Closes(vm, vm')
    BY <2>4, <2>5, <2>6 DEF Keeps, Closes
  <2>. QED  BY <2>1, <2>7 DEF Steps
<1>. QED  BY <1>1, <1>2, <1>3

LEMMA ErrorSteps ==
  ASSUME Inv, OpThrow \/ ThrowError \/ \E argc \in 0..HeightMax : NativeError(argc)
  PROVE  /\ Steps
         /\ result' \in {"running", "uncaught"}
         /\ result' = "uncaught" => vm.try_stack = <<>>
<1>1. ASSUME InCode, NEW x \in Int, Throw([vm EXCEPT !.stack_top = x])
      PROVE  /\ Steps
             /\ result' \in {"running", "uncaught"}
             /\ result' = "uncaught" => vm.try_stack = <<>>
  <2>. DEFINE n == [vm EXCEPT !.stack_top = x]
  <2>1. vm \in Machine /\ Good(vm) /\ vm.frame_count \in 1..FramesMax /\ vm.frame_count > 0
    BY <1>1, InCodeFacts
  <2>2. /\ n \in Machine /\ n.frames = vm.frames
        /\ n.frame_count = vm.frame_count /\ n.try_stack = vm.try_stack
    BY <1>1, <2>1, StackFacts
  <2>3. Throw(n)
    BY <1>1
  <2>. HIDE DEF n
  <2>4. Good(n)
    BY <2>1, <2>2, GoodData
  <2>. QED  BY <2>1, <2>2, <2>3, <2>4, ThrowSteps
<1>2. ASSUME InCode PROVE vm \in Machine /\ vm.stack_top \in Int /\ vm = [vm EXCEPT !.stack_top = vm.stack_top]
  BY <1>2, InCodeFacts DEF Machine
<1>3. CASE OpThrow
  <2>1. InCode /\ Throw([vm EXCEPT !.stack_top = @ - 1])
    BY <1>3 DEF OpThrow
  <2>2. vm.stack_top - 1 \in Int /\ Throw([vm EXCEPT !.stack_top = vm.stack_top - 1])
    BY <1>2, <2>1 DEF Machine
  <2>. QED  BY <1>1, <2>1, <2>2
<1>4. CASE ThrowError
  <2>1. InCode /\ Throw(vm)
    BY <1>4 DEF ThrowError
  <2>2. vm.stack_top \in Int /\ Throw([vm EXCEPT !.stack_top = vm.stack_top])
    BY <1>2, <2>1
  <2>. QED  BY <1>1, <2>1, <2>2
<1>5. ASSUME NEW argc \in 0..HeightMax, NativeError(argc)
      PROVE  /\ Steps
             /\ result' \in {"running", "uncaught"}
             /\ result' = "uncaught" => vm.try_stack = <<>>
  <2>1. InCode /\ Throw([vm EXCEPT !.stack_top = @ - argc - 1])
    BY <1>5 DEF NativeError, Calls
  <2>2. /\ vm.stack_top - argc - 1 \in Int
        /\ Throw([vm EXCEPT !.stack_top = vm.stack_top - argc - 1])
    BY <1>2, <2>1, Limits DEF Machine
  <2>. QED  BY <1>1, <2>1, <2>2
<1>. QED  BY <1>3, <1>4, <1>5

LEMMA CallSteps ==
  ASSUME Inv, NEW f \in Function \ {Script}, NEW argc \in 0..HeightMax, OpCall(f, argc)
  PROVE  Steps /\ result' \in {"running", "refused", "exit"}
<1>. DEFINE c == vm.frame_count
            h == Top.ip.height - argc
            w == WithIp(vm, Height(h))
            fr == Frame(f, CalleeSlots(argc))
            n == [w EXCEPT !.frame_count = @ + 1, !.frames[c + 1] = fr,
                           !.stack_top = @ + Arity[f] - argc]
<1>1. InCode /\ Top.ip.height > Floor(Top.ip) + argc
  BY DEF OpCall, Calls
<1>2. vm \in Machine /\ Good(vm) /\ c \in 1..FramesMax /\ c > 0 /\ h \in 1..HeightMax
  <2>1. /\ Top.ip.height \in 1..HeightMax /\ Floor(Top.ip) \in 1..HeightMax
        /\ vm \in Machine /\ Good(vm) /\ c \in 1..FramesMax
    BY <1>1, InCodeFacts
  <2>2. c > 0
    BY <2>1, Limits
  <2>3. h \in 1..HeightMax
    BY <1>1, <2>1, Limits
  <2>. QED  BY <2>1, <2>2, <2>3
<1>3. CASE Refuse
  BY <1>2, <1>3, RefuseSteps
<1>4. CASE result' = "exit" /\ UNCHANGED vm
  BY <1>2, <1>4 DEF Steps, Keeps, SameFunctions, Machine
<1>5. CASE Continue(n) /\ ~ (c >= FramesMax)
  <2>1. vm' = n /\ result' = "running"
    BY <1>5 DEF Continue
  <2>2. c + 1 \in 1..FramesMax /\ \A i \in 1..c : i # c + 1
    BY <1>2, <1>5, Limits
  <2>3. fr.function = f
    BY DEF Frame
  <2>. HIDE DEF h, fr
  <2>4. Height(h) \in Place
    BY <1>1, <1>2, HeightFacts
  <2>5. /\ w \in Machine /\ w.try_stack = vm.try_stack /\ w.frame_count = c
        /\ SameFunctions(vm, w, c)
    BY <1>1, <2>4, MoveSteps
  <2>. HIDE DEF w
  <2>6. /\ n.frame_count = c + 1 /\ n.try_stack = vm.try_stack
        /\ n.frames = [w.frames EXCEPT ![c + 1] = fr]
    BY <2>5 DEF Machine
  <2>7. vm' = n
    BY <2>1 DEF w, h, fr
  <2>. HIDE DEF n
  <2>8. n.frames[c + 1] = fr /\ \A i \in 1..c : n.frames[i] = w.frames[i]
    <3>1. \A i \in 1..c + 1 : i \in DOMAIN w.frames
      BY <1>2, <2>2, <2>5, Limits DEF Machine
    <3>. QED  BY <1>2, <2>2, <2>6, <3>1
  <2>9. EntersCall(vm, vm')
    BY <2>3, <2>5, <2>6, <2>7, <2>8 DEF EntersCall, SameFunctions
  <2>. QED  BY <2>1, <2>9 DEF Steps
<1>6. Refuse \/ (result' = "exit" /\ UNCHANGED vm) \/ (Continue(n) /\ ~ (c >= FramesMax))
  BY DEF OpCall, Returned
<1>. QED  BY <1>3, <1>4, <1>5, <1>6

LEMMA ReturnSteps ==
  ASSUME Inv, NEW m \in Machine, m.frame_count > 0, SameFunctions(vm, m, vm.frame_count),
         m.frame_count = vm.frame_count, m.try_stack = vm.try_stack, Return(m)
  PROVE  /\ Steps
         /\ result' \in {"ok", "running", "exit"}
         /\ result' = "ok" => vm'.frame_count = 0
<1>. DEFINE back == [m EXCEPT !.frame_count = @ - 1]
<1>1. /\ vm \in Machine /\ m.frame_count - 1 \in 0..FramesMax
      /\ m.frame_count - 1 <= vm.frame_count
  BY Limits DEF Inv, Good, Machine
<1>2. /\ back \in Machine /\ back.frame_count = m.frame_count - 1 /\ back.frames = m.frames
      /\ back.try_stack = vm.try_stack
  BY <1>1 DEF Machine
<1>3. IF back.frame_count = 0
      THEN vm' = [back EXCEPT !.stack_top = @ - 2] /\ result' = "ok"
      ELSE PushOn([back EXCEPT !.stack_top = Top.slots])
  BY DEF Return
<1>. HIDE DEF back
<1>4. CASE back.frame_count = 0
  <2>1. vm' = [back EXCEPT !.stack_top = @ - 2] /\ result' = "ok"
    BY <1>3, <1>4
  <2>2. /\ vm'.frames = m.frames /\ vm'.frame_count = back.frame_count
        /\ vm'.try_stack = vm.try_stack
    BY <1>2, <2>1 DEF Machine
  <2>3. Keeps(vm, vm')
    BY <1>1, <1>2, <1>4, <2>2 DEF Keeps, SameFunctions
  <2>. QED  BY <1>4, <2>1, <2>2, <2>3 DEF Steps
<1>5. CASE back.frame_count # 0
  <2>. DEFINE n == [back EXCEPT !.stack_top = Top.slots]
  <2>1. PushOn(n)
    BY <1>3, <1>5
  <2>2. Top.slots \in Int
    <3>1. Top \in FrameType
      BY <1>1, Limits DEF Machine, Top
    <3>. QED  BY <3>1, Limits DEF FrameType
  <2>3. /\ n \in Machine /\ n.frames = m.frames /\ n.frame_count = m.frame_count - 1
        /\ n.try_stack = vm.try_stack
    BY <1>2, <2>2, StackFacts
  <2>. HIDE DEF n
  <2>4. n.frame_count <= vm.frame_count /\ SameFunctions(vm, n, n.frame_count)
    <3>1. /\ n.frame_count <= vm.frame_count
          /\ \A i \in 1..n.frame_count : i \in 1..vm.frame_count
      BY <1>1, <2>3 DEF Machine
    <3>. QED  BY <2>3, <3>1 DEF SameFunctions
  <2>5. Steps /\ result' \in {"running", "exit"}
    BY <1>1, <2>1, <2>3, <2>4, PushSteps
  <2>. QED  BY <2>5
<1>. QED  BY <1>4, <1>5

LEMMA ReturnsSteps ==
  ASSUME Inv, OpReturn \/ PastHalt
  PROVE  /\ Steps
         /\ result' \in {"ok", "running", "exit"}
         /\ result' = "ok" => vm'.frame_count = 0
<1>1. /\ vm \in Machine /\ vm.frame_count > 0 /\ vm.stack_top \in Int
  <2>1. result = "running"
    BY DEF OpReturn, PastHalt, InCode, Running
  <2>. QED  BY <2>1 DEF Inv, Good, Fits, Machine
<1>2. CASE OpReturn
  <2>. DEFINE h == Top.ip.height - 1
              n == WithIp(vm, Height(h))
  <2>1. InCode /\ Top.ip.height > Floor(Top.ip) /\ Return(n)
    BY <1>2 DEF OpReturn
  <2>2. h \in 1..HeightMax
    BY <2>1, HeightsFit
  <2>. HIDE DEF h
  <2>3. Height(h) \in Place
    BY <2>1, <2>2, HeightFacts
  <2>4. /\ n \in Machine /\ n.try_stack = vm.try_stack /\ n.frame_count = vm.frame_count
        /\ SameFunctions(vm, n, vm.frame_count)
    BY <2>1, <2>3, MoveSteps
  <2>. HIDE DEF n
  <2>5. n.frame_count > 0
    BY <1>1, <2>4
  <2>. QED  BY <2>1, <2>4, <2>5, ReturnSteps
<1>3. CASE PastHalt /\ vm.stack_top >= StackMax
  BY <1>1, <1>3 DEF PastHalt, Steps, Keeps, SameFunctions, Machine
<1>4. CASE PastHalt /\ ~ (vm.stack_top >= StackMax)
  <2>. DEFINE n == [vm EXCEPT !.stack_top = vm.stack_top + 1]
  <2>1. Return(n)
    <3>1. n = [vm EXCEPT !.stack_top = @ + 1]
      BY <1>1 DEF Machine
    <3>. QED  BY <1>4, <3>1 DEF PastHalt
  <2>2. vm.stack_top + 1 \in Int
    BY <1>1
  <2>3. /\ n \in Machine /\ n.frames = vm.frames
        /\ n.frame_count = vm.frame_count /\ n.try_stack = vm.try_stack
    BY <1>1, <2>2, StackFacts
  <2>. HIDE DEF n
  <2>4. n.frame_count > 0 /\ SameFunctions(vm, n, vm.frame_count)
    BY <1>1, <2>3 DEF SameFunctions
  <2>. QED  BY <2>1, <2>3, <2>4, ReturnSteps
<1>. QED  BY <1>2, <1>3, <1>4

LEMMA HaltSteps ==
  ASSUME Inv, OpHalt
  PROVE  Steps /\ result' = "ok" /\ vm'.frame_count = vm.frame_count /\ vm'.try_stack = vm.try_stack
<1>. DEFINE p == Staged(vm, "halted")
<1>1. InCode /\ Top.ip = EntryOf(Script) /\ vm' = p /\ result' = "ok"
  BY DEF OpHalt
<1>2. Good(vm) /\ vm \in Machine /\ vm.frame_count \in 1..FramesMax
  BY <1>1, InCodeFacts
<1>3. vm.frame_count > 0 /\ vm.frames[vm.frame_count].ip.open = <<>>
  BY <1>1, <1>2 DEF Top, EntryOf, At
<1>4. /\ p.frame_count = vm.frame_count /\ p.try_stack = vm.try_stack
      /\ \A i \in 1..p.frame_count : p.frames[i].function = vm.frames[i].function
  BY <1>2, <1>3, StageFacts
<1>. HIDE DEF p
<1>. QED  BY <1>1, <1>2, <1>4 DEF Steps, Keeps, SameFunctions, Machine

LEMMA RunSteps ==
  ASSUME Inv, ~ LeavesTry, ~ ThrowsDirectly, result = "running", Next
  PROVE  /\ Steps
         /\ result' = "uncaught" => vm.try_stack = <<>>
         /\ result' = "ok" => vm'.frame_count = 0 \/ OpHalt
<1>1. CASE RunVM
  BY <1>1 DEF RunVM
<1>2. CASE Push \/ Pop \/ \E argc \in 0..HeightMax : CallNative(argc)
  BY <1>2, StackSteps
<1>3. CASE OpTry \/ OpTryEnd
  BY <1>3, TrySteps
<1>4. CASE OpThrow \/ ThrowError \/ \E argc \in 0..HeightMax : NativeError(argc)
  BY <1>4, ErrorSteps
<1>5. CASE \E argc \in 0..HeightMax : \E f \in Function \ {Script} : OpCall(f, argc)
  BY <1>5, CallSteps
<1>6. CASE OpReturn \/ PastHalt
  BY <1>6, ReturnsSteps
<1>7. CASE OpHalt
  BY <1>7, HaltSteps
<1>8. CASE JumpOutOfTry \/ NativeThrows
  BY <1>8 DEF JumpOutOfTry, NativeThrows
<1>. QED  BY <1>1, <1>2, <1>3, <1>4, <1>5, <1>6, <1>7, <1>8 DEF Next

(* With a handler there is, no error ends the run, and no step takes more
   than one handler away: throwError pops exactly the handler it jumps to. *)
THEOREM OneCatch ==
  ASSUME ~ LeavesTry, ~ ThrowsDirectly
  PROVE  Spec => OneCatchPerError
<1>1. Inv /\ [Next]_vars =>
        [result = "running" =>
           /\ Len(vm.try_stack) - Len(vm'.try_stack) <= 1
           /\ result' = "uncaught" => vm.try_stack = <<>>]_vars
  <2>. SUFFICES ASSUME Inv, Next, result = "running"
                PROVE  /\ Len(vm.try_stack) - Len(vm'.try_stack) <= 1
                       /\ result' = "uncaught" => vm.try_stack = <<>>
    OBVIOUS
  <2>1. Steps /\ (result' = "uncaught" => vm.try_stack = <<>>)
    BY RunSteps
  <2>2. vm.try_stack \in Seq(HandlerType) /\ Len(vm.try_stack) \in Nat
    BY LenProperties DEF Inv, Good, Machine
  <2>3. CASE vm'.try_stack = vm.try_stack
    BY <2>1, <2>2, <2>3
  <2>4. CASE Opens(vm, vm')
    <3>1. PICK h \in HandlerType : vm'.try_stack = Append(vm.try_stack, h)
      BY <2>4 DEF Opens
    <3>2. Len(vm'.try_stack) = Len(vm.try_stack) + 1
      BY <2>2, <3>1, AppendFacts
    <3>. QED  BY <2>1, <2>2, <3>2
  <2>5. CASE Closes(vm, vm')
    <3>1. Len(vm'.try_stack) = Len(vm.try_stack) - 1
      BY <2>2, <2>5, FrontFacts DEF Closes
    <3>. QED  BY <2>1, <2>2, <3>1
  <2>. QED  BY <2>1, <2>3, <2>4, <2>5 DEF Steps, Keeps, EntersCall
<1>. QED  BY <1>1, Invariance, PTL DEF Spec, OneCatchPerError

-----------------------------------------------------------------------------
(* Hosts that empty the machine after a run that failed. *)

Own(m) ==
  \A h \in 1..Len(m.try_stack), i \in 1..m.frame_count :
    m.frames[i].function = Script => m.try_stack[h].frame_count >= i

RunInv ==
  /\ Inv
  /\ result = "running" => Own(vm)
  /\ result = "ok" => vm.try_stack = <<>>

LEMMA OwnSteps ==
  ASSUME Inv, Inv', Own(vm), Steps
  PROVE  Own(vm')
<1>1. /\ vm \in Machine /\ vm' \in Machine
      /\ vm.try_stack \in Seq(HandlerType) /\ Len(vm.try_stack) \in Nat
      /\ vm.frame_count \in Nat /\ vm'.frame_count \in Nat
  <2>1. vm \in Machine /\ vm' \in Machine
    BY DEF Inv, Good
  <2>2. vm.try_stack \in Seq(HandlerType) /\ vm.frame_count \in Nat /\ vm'.frame_count \in Nat
    BY <2>1, Limits DEF Machine
  <2>. QED  BY <2>1, <2>2, LenProperties
<1>. SUFFICES ASSUME NEW h \in 1..Len(vm'.try_stack), NEW i \in 1..vm'.frame_count,
                     vm'.frames[i].function = Script
              PROVE  vm'.try_stack[h].frame_count >= i
  BY DEF Own
<1>2. CASE Keeps(vm, vm')
  <2>1. i \in 1..vm.frame_count /\ vm.frames[i].function = Script
    BY <1>1, <1>2 DEF Keeps, SameFunctions
  <2>. QED  BY <1>2, <2>1 DEF Keeps, Own
<1>3. CASE EntersCall(vm, vm')
  <2>1. i # vm'.frame_count
    BY <1>3 DEF EntersCall
  <2>2. i \in 1..vm.frame_count
    BY <1>1, <1>3, <2>1 DEF EntersCall
  <2>3. vm.frames[i].function = Script
    BY <1>3, <2>2 DEF EntersCall, SameFunctions
  <2>. QED  BY <1>3, <2>2, <2>3 DEF EntersCall, Own
<1>4. CASE Opens(vm, vm')
  <2>1. PICK hd \in HandlerType : /\ hd.frame_count = vm.frame_count
                                  /\ vm'.try_stack = Append(vm.try_stack, hd)
    BY <1>4 DEF Opens
  <2>2. /\ Len(vm'.try_stack) = Len(vm.try_stack) + 1
        /\ vm'.try_stack[Len(vm.try_stack) + 1] = hd
        /\ \A k \in 1..Len(vm.try_stack) : vm'.try_stack[k] = vm.try_stack[k]
    BY <1>1, <2>1, AppendFacts
  <2>3. i \in 1..vm.frame_count /\ vm.frames[i].function = Script
    BY <1>4 DEF Opens, SameFunctions
  <2>4. CASE h = Len(vm.try_stack) + 1
    BY <1>1, <2>1, <2>2, <2>3, <2>4
  <2>5. CASE h # Len(vm.try_stack) + 1
    <3>1. h \in 1..Len(vm.try_stack)
      BY <1>1, <2>2, <2>5
    <3>. QED  BY <2>2, <2>3, <3>1 DEF Own
  <2>. QED  BY <2>4, <2>5
<1>5. CASE Closes(vm, vm')
  <2>1. /\ Len(vm'.try_stack) = Len(vm.try_stack) - 1
        /\ \A k \in 1..Len(vm.try_stack) - 1 : vm'.try_stack[k] = vm.try_stack[k]
    BY <1>1, <1>5, FrontFacts DEF Closes
  <2>2. h \in 1..Len(vm.try_stack) /\ h \in 1..Len(vm.try_stack) - 1
    BY <1>1, <2>1
  <2>3. i \in 1..vm.frame_count /\ vm.frames[i].function = Script
    BY <1>1, <1>5 DEF Closes, SameFunctions
  <2>. QED  BY <2>1, <2>2, <2>3 DEF Own
<1>. QED  BY <1>2, <1>3, <1>4, <1>5 DEF Steps

LEMMA OwnHalt ==
  ASSUME Inv, Own(vm), OpHalt
  PROVE  vm.try_stack = <<>>
<1>1. /\ InCode /\ Top.ip = EntryOf(Script)
  BY DEF OpHalt
<1>2. /\ vm \in Machine /\ Good(vm) /\ vm.frame_count \in 1..FramesMax
      /\ Top.ip.code = Top.function
  BY <1>1, InCodeFacts
<1>. DEFINE c == vm.frame_count
            L == Len(vm.try_stack)
<1>3. c \in 1..c /\ vm.frames[c].function = Script /\ vm.frames[c].ip.open = <<>>
  BY <1>1, <1>2 DEF Top, EntryOf, At
<1>. SUFFICES ASSUME vm.try_stack # <<>> PROVE FALSE
  OBVIOUS
<1>4. Mirror(vm) /\ vm.try_stack \in Seq(HandlerType)
  BY <1>2 DEF Good, Machine
<1>5. PICK j \in 1..vm.frame_count :
        /\ Len(vm.frames[j].ip.open) > 0
        /\ vm.try_stack[L] = HandlerIn(vm, j, Len(vm.frames[j].ip.open))
  BY <1>2, <1>4, LastHandler
<1>6. vm.try_stack[L].frame_count = j
  BY <1>5 DEF HandlerIn
<1>7. L \in 1..L
  BY <1>4, FrontFacts
<1>8. j >= c
  BY <1>3, <1>6, <1>7 DEF Own
<1>9. j = c
  BY <1>2, <1>5, <1>8
<1>10. Len(vm.frames[j].ip.open) = 0
  BY <1>3, <1>9, EmptySeq
<1>. QED  BY <1>5, <1>10

LEMMA OwnRun ==
  ASSUME RunInv, Hosts \subseteq {"repl", "test"}, RunVM
  PROVE  result' \in {"running", "exit"} /\ (result' = "running" => Own(vm'))
<1>1. PICK host \in Hosts :
        PushOn(IF Ready(host).frame_count >= FramesMax THEN Ready(host)
               ELSE [Ready(host) EXCEPT !.frame_count = @ + 1,
                       !.frames[Ready(host).frame_count + 1] = Frame(Script, Ready(host).stack_top)])
  BY DEF RunVM
<1>. DEFINE m == Ready(host)
            p == IF m.frame_count >= FramesMax THEN m
                 ELSE [m EXCEPT !.frame_count = @ + 1,
                         !.frames[m.frame_count + 1] = Frame(Script, m.stack_top)]
<1>2. m \in Machine /\ vm \in Machine
  BY ReadyFacts DEF RunVM, RunInv, Inv, Good
<1>3. m.try_stack = <<>>
  <2>1. CASE result = "ok"
    <3>1. vm.try_stack = <<>> /\ (m = vm \/ m.try_stack = <<>>)
      BY <2>1, ReadyFacts DEF RunInv
    <3>. QED  BY <3>1
  <2>2. CASE result # "ok"
    <3>1. host = "test" \/ (host = "repl" /\ result \in {"uncaught", "refused"})
      BY <2>2 DEF RunVM
    <3>. QED  BY <1>2, <3>1 DEF Ready, Machine
  <2>. QED  BY <2>1, <2>2
<1>. HIDE DEF m
<1>4. DOMAIN p = DOMAIN m /\ "try_stack" \in DOMAIN p /\ p.try_stack = <<>>
  BY <1>2, <1>3 DEF Machine
<1>5. PushOn(p)
  BY <1>1 DEF m
<1>. HIDE DEF p
<1>6. result' = "exit" \/ (result' = "running" /\ vm' = [p EXCEPT !.stack_top = @ + 1])
  BY <1>5 DEF PushOn, Continue
<1>7. ASSUME vm' = [p EXCEPT !.stack_top = @ + 1] PROVE Own(vm')
  <2>1. vm'.try_stack = <<>>
    BY <1>4, <1>7
  <2>2. Len(vm'.try_stack) = 0
    BY <2>1, EmptySeq
  <2>. QED  BY <2>2 DEF Own
<1>. QED  BY <1>6, <1>7

LEMMA RunInvNext ==
  ASSUME RunInv, ~ LeavesTry, ~ ThrowsDirectly, Hosts \subseteq {"repl", "test"}, [Next]_vars
  PROVE  RunInv'
<1>1. Inv /\ Inv'
  BY NextInv DEF RunInv
<1>2. CASE UNCHANGED vars
  <2>1. vm' = vm /\ result' = result
    BY <1>2 DEF vars
  <2>. QED  BY <1>1, <2>1 DEF RunInv
<1>3. CASE Next /\ result = "running"
  <2>1. Steps /\ (result' = "ok" => vm'.frame_count = 0 \/ OpHalt)
    BY <1>1, <1>3, RunSteps
  <2>2. Own(vm')
    BY <1>1, <1>3, <2>1, OwnSteps DEF RunInv
  <2>3. ASSUME vm'.frame_count = 0 PROVE vm'.try_stack = <<>>
    <3>1. PICK below : MirrorBy(vm', below)
      BY <1>1 DEF Inv, Good, Mirror
    <3>2. Len(vm'.try_stack) = 0
      BY <2>3, <3>1 DEF MirrorBy
    <3>3. vm'.try_stack \in Seq(HandlerType)
      BY <1>1 DEF Inv, Good, Machine
    <3>. QED  BY <3>2, <3>3, FrontFacts
  <2>4. ASSUME OpHalt PROVE vm'.try_stack = <<>>
    BY <1>1, <1>3, <2>4, HaltSteps, OwnHalt DEF RunInv
  <2>. QED  BY <1>1, <2>1, <2>2, <2>3, <2>4 DEF RunInv
<1>4. CASE Next /\ result # "running"
  <2>1. RunVM
    <3>1. ~ InCode /\ ~ Running
      BY <1>4 DEF InCode, Running
    <3>. QED  BY <1>4, <3>1
         DEF Next, Push, Pop, OpTry, OpTryEnd, OpThrow, ThrowError, JumpOutOfTry, Calls,
             OpCall, CallNative, NativeError, NativeThrows, OpReturn, OpHalt, PastHalt
  <2>2. result' \in {"running", "exit"} /\ (result' = "running" => Own(vm'))
    BY <2>1, OwnRun
  <2>. QED  BY <1>1, <2>2 DEF RunInv
<1>. QED  BY <1>2, <1>3, <1>4

(* While the REPL or nq test runs a program, every handler belongs to that
   program: a run that ends well has closed its try bodies, and after one
   that failed the host empties the handlers, so throwError never jumps into
   the code of an earlier run. *)
THEOREM HandlersAreOfThisRun ==
  ASSUME ~ LeavesTry, ~ ThrowsDirectly, Hosts \subseteq {"repl", "test"}
  PROVE  Spec => []HandlersOfThisRun
<1>1. Init => RunInv
  <2>. SUFFICES ASSUME Init PROVE RunInv
    OBVIOUS
  <2>1. Inv
    BY InitInv
  <2>2. vm.try_stack = <<>> /\ result = "ok"
    BY DEF Init, NewVM
  <2>. QED  BY <2>1, <2>2 DEF RunInv
<1>2. RunInv /\ [Next]_vars => RunInv'
  BY RunInvNext
<1>3. RunInv => HandlersOfThisRun
  BY DEF RunInv, Own, HandlersOfThisRun
<1>. QED  BY <1>1, <1>2, <1>3, PTL DEF Spec

-----------------------------------------------------------------------------
(* VMControl implements TryCatch, for any limits and functions, when no    *)
(* jump leaves a try body, no native throws by itself and the host is the  *)
(* REPL or nq test.  First the activations that the frames of a run stand  *)
(* for.                                                                    *)

Activation == [open : Seq(1..HeightMax), height : 1..HeightMax]

Act(f) == [open |-> f.ip.open, height |-> f.ip.height]

(* RunCalls, of any machine. *)
CallsOf(m, r) ==
  LET scripts == {i \in 1..m.frame_count : m.frames[i].function = Script}
      first == CHOOSE i \in scripts : \A j \in scripts : j <= i
      run == IF r = "running" THEN SubSeq(m.frames, first, m.frame_count) ELSE <<>>
  IN  [i \in DOMAIN run |-> [open |-> run[i].ip.open, height |-> run[i].ip.height]]

Halted(f) == f.function = Script /\ f.ip.open = <<>> /\ f.ip.height = 1

(* The current run starts in frame s; below are scripts that ended. *)
Current(m, s) ==
  /\ s \in 1..m.frame_count
  /\ m.frames[s].function = Script
  /\ m.frames[s].ip.stage = "halted" => Halted(m.frames[s])
  /\ \A i \in 1..s - 1 : Halted(m.frames[i])
  /\ \A i \in s + 1..m.frame_count :
       m.frames[i].function # Script /\ m.frames[i].ip.stage # "halted"

FramesInv ==
  /\ result = "running" => \E s : Current(vm, s)
  /\ result = "ok" => \A i \in 1..vm.frame_count : Halted(vm.frames[i])

IsRun(m, s, r) ==
  /\ r \in Seq(Activation)
  /\ Len(r) = m.frame_count - s + 1
  /\ \A i \in 1..Len(r) : s + i - 1 \in s..m.frame_count /\ r[i] = Act(m.frames[s + i - 1])

LEMMA CallsAre ==
  RunCalls = CallsOf(vm, result) /\ RunCalls' = CallsOf(vm', result')
  BY DEF RunCalls, CurrentRun, CallsOf

LEMMA NoCalls ==
  ASSUME NEW m, NEW r, r # "running"
  PROVE  CallsOf(m, r) = <<>>
  BY DEF CallsOf

LEMMA ActFacts ==
  ASSUME NEW m \in Machine, NEW i \in 1..m.frame_count
  PROVE  /\ Act(m.frames[i]) \in Activation
         /\ Act(m.frames[i]).open = m.frames[i].ip.open
         /\ Act(m.frames[i]).height = m.frames[i].ip.height
<1>1. m.frames[i].ip \in Place
  BY OpenFacts
<1>. QED  BY <1>1 DEF Act, Activation, Place

LEMMA CallsOfRun ==
  ASSUME NEW m \in Machine, NEW s, Current(m, s)
  PROVE  IsRun(m, s, CallsOf(m, "running"))
<1>. DEFINE c == m.frame_count
            scripts == {i \in 1..c : m.frames[i].function = Script}
            first == CHOOSE i \in scripts : \A j \in scripts : j <= i
            run == SubSeq(m.frames, s, c)
            q == [i \in DOMAIN run |-> [open |-> run[i].ip.open, height |-> run[i].ip.height]]
<1>1. s \in 1..c /\ c \in 0..FramesMax /\ c \in Nat
  BY Limits DEF Current, Machine
<1>2. first = s
  <2>1. s \in scripts /\ \A j \in scripts : j <= s
    <3>1. \A j \in 1..c : j > s => j \in s + 1..c
      BY <1>1
    <3>2. \A j \in scripts : ~ (j > s)
      BY <3>1 DEF Current
    <3>3. \A j \in scripts : j \in Int /\ s \in Int
      BY <1>1
    <3>. QED  BY <1>1, <3>2, <3>3 DEF Current
  <2>2. \A i \in scripts : (\A j \in scripts : j <= i) => i = s
    <3>1. \A i \in scripts : i \in Int
      BY <1>1
    <3>. HIDE DEF scripts
    <3>. QED  BY <1>1, <2>1, <3>1
  <2>. HIDE DEF scripts
  <2>. QED  BY <2>1, <2>2
<1>3. CallsOf(m, "running") = q
  <2>. DEFINE all == SubSeq(m.frames, first, c)
  <2>1. CallsOf(m, "running") =
          [i \in DOMAIN all |-> [open |-> all[i].ip.open, height |-> all[i].ip.height]]
    BY DEF CallsOf
  <2>2. all = run
    BY <1>2
  <2>. HIDE DEF all, run
  <2>. QED  BY <2>1, <2>2
<1>4. /\ run \in Seq(FrameType) /\ Len(run) = c - s + 1
      /\ \A i \in 1..c - s + 1 : run[i] = m.frames[s + i - 1]
  <2>1. s \in Int /\ c \in Int /\ s <= c /\ \A i \in s..c : m.frames[i] \in FrameType
    BY <1>1, Limits DEF Machine
  <2>. QED  BY <2>1, SubSeqProperties
<1>5. DOMAIN run = 1..c - s + 1 /\ c - s + 1 \in Nat
  <2>. HIDE DEF run
  <2>. QED  BY <1>1, <1>4, LenProperties
<1>. HIDE DEF run
<1>6. \A i \in 1..c - s + 1 :
        /\ s + i - 1 \in 1..c
        /\ q[i] = Act(m.frames[s + i - 1])
  <2>. SUFFICES ASSUME NEW i \in 1..c - s + 1
                PROVE  s + i - 1 \in 1..c /\ q[i] = Act(m.frames[s + i - 1])
    OBVIOUS
  <2>1. s + i - 1 \in 1..c
    BY <1>1
  <2>2. q[i] = [open |-> run[i].ip.open, height |-> run[i].ip.height]
    BY <1>5
  <2>3. run[i] = m.frames[s + i - 1]
    BY <1>4
  <2>. QED  BY <2>1, <2>2, <2>3 DEF Act
<1>7. q \in [1..c - s + 1 -> Activation]
  <2>1. \A i \in 1..c - s + 1 : q[i] \in Activation
    <3>. TAKE i \in 1..c - s + 1
    <3>1. q[i] = Act(m.frames[s + i - 1]) /\ s + i - 1 \in 1..m.frame_count
      BY <1>6
    <3>. HIDE DEF q
    <3>. QED  BY <3>1, ActFacts
  <2>2. q = [i \in 1..c - s + 1 |-> q[i]]
    BY <1>5
  <2>. HIDE DEF q
  <2>. QED  BY <2>1, <2>2
<1>. HIDE DEF q
<1>8. q \in Seq(Activation)
  BY <1>5, <1>7, SeqDef
<1>9. Len(q) = c - s + 1
  <2>1. DOMAIN q = 1..Len(q) /\ Len(q) \in Nat /\ DOMAIN q = 1..c - s + 1
    BY <1>7, <1>8, LenProperties
  <2>. HIDE DEF q
  <2>. QED  BY <1>5, <2>1
<1>10. \A i \in 1..c - s + 1 : s + i - 1 \in s..c
  BY <1>1
<1>. QED  BY <1>3, <1>6, <1>8, <1>9, <1>10 DEF IsRun

-----------------------------------------------------------------------------
(* What steps do to the frames of the run. *)

(* Frame j is the top one and goes on where it likes, those below stay. *)
Cut(m, n, j) ==
  /\ j \in 1..m.frame_count
  /\ n.frame_count = j
  /\ \A i \in 1..j - 1 : n.frames[i] = m.frames[i]
  /\ \/ n.frames[j] = m.frames[j]
     \/ /\ n.frames[j].function = m.frames[j].function
        /\ n.frames[j].ip.stage # "halted"

LEMMA CutCurrent ==
  ASSUME NEW m \in Machine, NEW n, NEW s, Current(m, s), NEW j, Cut(m, n, j), s <= j
  PROVE  Current(n, s)
<1>1. s \in 1..m.frame_count /\ m.frame_count \in Nat /\ j \in 1..m.frame_count /\ n.frame_count = j
  BY Limits DEF Current, Machine, Cut
<1>2. s \in 1..j
  BY <1>1
<1>3. ASSUME NEW i \in s..j
      PROVE  /\ n.frames[i].function = m.frames[i].function
             /\ n.frames[i].ip.stage = "halted" => n.frames[i] = m.frames[i]
  <2>1. CASE i = j
    BY <2>1 DEF Cut
  <2>2. CASE i # j
    <3>1. i \in 1..j - 1
      BY <1>1, <2>2
    <3>. QED  BY <3>1 DEF Cut
  <2>. QED  BY <2>1, <2>2
<1>4. n.frames[s].function = Script /\ (n.frames[s].ip.stage = "halted" => Halted(n.frames[s]))
  <2>1. s \in s..j
    BY <1>1
  <2>. QED  BY <1>3, <2>1 DEF Current
<1>5. ASSUME NEW i \in 1..s - 1 PROVE Halted(n.frames[i])
  <2>1. i \in 1..j - 1
    BY <1>1
  <2>2. n.frames[i] = m.frames[i] /\ Halted(m.frames[i])
    BY <2>1 DEF Cut, Current
  <2>. QED  BY <2>2
<1>6. ASSUME NEW i \in s + 1..j
      PROVE  n.frames[i].function # Script /\ n.frames[i].ip.stage # "halted"
  <2>1. i \in s..j /\ i \in s + 1..m.frame_count
    BY <1>1
  <2>2. m.frames[i].function # Script /\ m.frames[i].ip.stage # "halted"
    BY <2>1 DEF Current
  <2>. QED  BY <1>3, <2>1, <2>2
<1>. QED  BY <1>1, <1>2, <1>4, <1>5, <1>6 DEF Current

LEMMA CutRun ==
  ASSUME NEW m \in Machine, NEW n \in Machine, NEW s, Current(m, s), NEW j, Cut(m, n, j), s <= j,
         NEW r, IsRun(m, s, r), NEW q, IsRun(n, s, q)
  PROVE  LET k == j - s + 1 IN
         /\ k \in 1..Len(r)
         /\ r[k] = Act(m.frames[j])
         /\ q = Append(SubSeq(r, 1, k - 1), Act(n.frames[j]))
<1>. DEFINE k == j - s + 1
            a == SubSeq(r, 1, k - 1)
            e == Act(n.frames[j])
            b == Append(a, e)
<1>1. /\ s \in 1..m.frame_count /\ m.frame_count \in Nat
      /\ j \in 1..m.frame_count /\ n.frame_count = j
      /\ Len(r) = m.frame_count - s + 1 /\ Len(q) = k
      /\ r \in Seq(Activation) /\ q \in Seq(Activation)
  BY Limits DEF Current, Machine, Cut, IsRun
<1>2. k \in 1..Len(r) /\ k - 1 \in Nat /\ s + k - 1 = j /\ k \in Nat
  BY <1>1
<1>3. r[k] = Act(m.frames[j])
  <2>. HIDE DEF k
  <2>. QED  BY <1>2 DEF IsRun
<1>4. e \in Activation
  <2>1. j \in 1..n.frame_count
    BY <1>1
  <2>. QED  BY <2>1, ActFacts
<1>5. a \in Seq(Activation) /\ Len(a) = k - 1 /\ \A i \in 1..k - 1 : a[i] = r[i]
  <2>1. k - 1 \in 0..Len(r)
    BY <1>1, <1>2
  <2>. HIDE DEF k
  <2>. QED  BY <1>1, <2>1, FirstPart
<1>. HIDE DEF a, e
<1>6. /\ b \in Seq(Activation) /\ Len(b) = k - 1 + 1
      /\ \A i \in 1..k - 1 : b[i] = r[i]
      /\ b[k - 1 + 1] = e
  BY <1>4, <1>5, AppendFacts
<1>7. Len(b) = k /\ b[k] = e
  BY <1>2, <1>6
<1>. HIDE DEF b
<1>8. ASSUME NEW i \in 1..Len(q) PROVE q[i] = b[i]
  <2>1. s + i - 1 \in s..j /\ q[i] = Act(n.frames[s + i - 1])
    BY <1>1 DEF IsRun
  <2>2. CASE i = k
    BY <1>2, <1>7, <2>1, <2>2 DEF e
  <2>3. CASE i # k
    <3>1. i \in 1..k - 1 /\ i \in 1..Len(r) /\ s + i - 1 \in 1..j - 1
      BY <1>1, <1>2, <2>3
    <3>2. n.frames[s + i - 1] = m.frames[s + i - 1] /\ r[i] = Act(m.frames[s + i - 1])
      BY <3>1 DEF Cut, IsRun
    <3>. QED  BY <1>6, <2>1, <3>1, <3>2
  <2>. QED  BY <2>2, <2>3
<1>9. q = b
  BY <1>1, <1>6, <1>7, <1>8, SeqEqual
<1>. QED  BY <1>2, <1>3, <1>9 DEF a, b, e


LEMMA RunStep ==
  ASSUME Inv, Inv', result = "running", result' = "running",
         NEW s, Current(vm, s), NEW j, Cut(vm, vm', j), s <= j
  PROVE  /\ FramesInv'
         /\ IsRun(vm, s, RunCalls)
         /\ LET k == j - s + 1 IN
            /\ k \in 1..Len(RunCalls)
            /\ RunCalls[k] = Act(vm.frames[j])
            /\ RunCalls' = Append(SubSeq(RunCalls, 1, k - 1), Act(vm'.frames[j]))
<1>1. vm \in Machine /\ vm' \in Machine
  BY DEF Inv, Good
<1>2. Current(vm', s)
  BY <1>1, CutCurrent
<1>3. IsRun(vm, s, RunCalls) /\ IsRun(vm', s, RunCalls')
  <2>1. IsRun(vm, s, CallsOf(vm, "running"))
    BY <1>1, CallsOfRun
  <2>2. ASSUME NEW n, n = vm' PROVE IsRun(n, s, CallsOf(n, "running"))
    BY <1>1, <1>2, <2>2, CallsOfRun
  <2>3. IsRun(vm', s, CallsOf(vm', "running"))
    BY <2>2
  <2>. QED  BY <2>1, <2>3, CallsAre
<1>4. LET k == j - s + 1 IN
      /\ k \in 1..Len(RunCalls)
      /\ RunCalls[k] = Act(vm.frames[j])
      /\ RunCalls' = Append(SubSeq(RunCalls, 1, k - 1), Act(vm'.frames[j]))
  <2>. DEFINE n == vm'
              q == RunCalls'
              r == RunCalls
  <2>1. n \in Machine /\ Cut(vm, n, j) /\ IsRun(vm, s, r) /\ IsRun(n, s, q)
    BY <1>1, <1>3
  <2>. HIDE DEF n, q, r
  <2>2. LET k == j - s + 1 IN
        /\ k \in 1..Len(r)
        /\ r[k] = Act(vm.frames[j])
        /\ q = Append(SubSeq(r, 1, k - 1), Act(n.frames[j]))
    BY <1>1, <2>1, CutRun
  <2>. QED  BY <2>2 DEF n, q, r
<1>5. FramesInv'
  BY <1>2 DEF FramesInv
<1>. QED  BY <1>3, <1>4, <1>5

LEMMA PromiseSeqs ==
  ASSUME NEW s
  PROVE  Promise!Last(s) = Last(s) /\ Promise!Front(s) = Front(s)
  BY DEF Promise!Last, Promise!Front, Last, Front

StepOK == FramesInv' /\ (Promise!Next \/ UNCHANGED <<RunCalls, result>>)

LEMMA StopStep ==
  ASSUME result = "running", result' \in {"refused", "exit"}
  PROVE  StepOK
<1>1. RunCalls' = <<>>
  BY CallsAre, NoCalls
<1>2. FramesInv'
  BY DEF FramesInv
<1>3. Promise!Abort
  BY <1>1 DEF Promise!Abort, Promise!Stop
<1>. QED  BY <1>2, <1>3 DEF StepOK, Promise!Next

(***************************************************************************)
(* The top frame goes on at ip.                                            *)
(***************************************************************************)
LEMMA TopStep ==
  ASSUME Inv, FramesInv, Inv', InCode, NEW ip \in Place, ip.stage = "code",
         vm'.frames = WithIp(vm, ip).frames, vm'.frame_count = vm.frame_count,
         result' = "running"
  PROVE  /\ FramesInv'
         /\ Promise!Top = [open |-> Top.ip.open, height |-> Top.ip.height]
         /\ Promise!MoveTo([open |-> ip.open, height |-> ip.height])
<1>. DEFINE c == vm.frame_count
            n == WithIp(vm, ip)
<1>1. result = "running"
  BY DEF InCode, Running
<1>2. PICK s : Current(vm, s)
  BY <1>1 DEF FramesInv
<1>3. c \in 1..FramesMax /\ s \in 1..c /\ Top = vm.frames[c]
  BY <1>2, InCodeFacts DEF Current, Top
<1>4. /\ \A i \in 1..c : i # c => n.frames[i] = vm.frames[i]
      /\ n.frames[c].ip = ip
      /\ n.frames[c].function = Top.function
  BY IpFacts
<1>. HIDE DEF n
<1>5. vm'.frames = n.frames /\ vm'.frame_count = c
  BY DEF n
<1>6. Cut(vm, vm', c)
  <2>1. c \in 1..c /\ \A i \in 1..c - 1 : i \in 1..c /\ i # c
    BY <1>3
  <2>2. \A i \in 1..c - 1 : vm'.frames[i] = vm.frames[i]
    BY <1>4, <1>5, <2>1
  <2>3. vm'.frames[c].function = vm.frames[c].function /\ vm'.frames[c].ip.stage # "halted"
    BY <1>3, <1>4, <1>5
  <2>. QED  BY <1>5, <2>1, <2>2, <2>3 DEF Cut
<1>7. s <= c /\ c \in Int /\ s \in Int
  BY <1>3
<1>. DEFINE k == c - s + 1
<1>8. /\ FramesInv'
      /\ IsRun(vm, s, RunCalls)
      /\ RunCalls[k] = Act(vm.frames[c])
      /\ RunCalls' = Append(SubSeq(RunCalls, 1, k - 1), Act(vm'.frames[c]))
  BY <1>1, <1>2, <1>6, <1>7, RunStep
<1>9. Len(RunCalls) = k
  BY <1>8 DEF IsRun
<1>. HIDE DEF k
<1>10. Last(RunCalls) = Act(vm.frames[c]) /\ RunCalls' = Append(Front(RunCalls), Act(vm'.frames[c]))
  BY <1>8, <1>9 DEF Last, Front
<1>11. Act(vm.frames[c]) = [open |-> Top.ip.open, height |-> Top.ip.height]
  BY <1>3 DEF Act
<1>12. Act(vm'.frames[c]) = [open |-> ip.open, height |-> ip.height]
  BY <1>4, <1>5 DEF Act
<1>. QED  BY <1>8, <1>10, <1>11, <1>12, PromiseSeqs DEF Promise!Top, Promise!MoveTo

LEMMA PushRefines ==
  ASSUME Inv, FramesInv, Inv', Push
  PROVE  StepOK
<1>. DEFINE h == Top.ip.height + 1
            n == WithIp(vm, Height(h))
<1>1. InCode /\ PushOn(n) /\ h \in 1..HeightMax /\ result = "running"
  <2>1. InCode /\ Top.ip.height < HeightMax /\ PushOn(n)
    BY DEF Push
  <2>2. h \in 1..HeightMax
    BY SMTT(30), <2>1, InCodeFacts, Limits
  <2>. QED  BY <2>1, <2>2 DEF InCode, Running
<1>2. CASE n.stack_top >= StackMax
  <2>1. result' = "exit"
    BY <1>1, <1>2 DEF PushOn
  <2>. QED  BY <1>1, <2>1, StopStep
<1>3. CASE ~ (n.stack_top >= StackMax)
  <2>. DEFINE ip == Height(h)
  <2>1. vm' = [n EXCEPT !.stack_top = @ + 1] /\ result' = "running"
    BY <1>1, <1>3 DEF PushOn, Continue
  <2>2. /\ ip \in Place /\ ip.stage = "code" /\ ip.height = h /\ ip.open = Top.ip.open
        /\ n \in Machine /\ n.frame_count = vm.frame_count
    <3>. HIDE DEF h
    <3>. QED  BY <1>1, HeightFacts
  <2>3. vm'.frames = n.frames /\ vm'.frame_count = vm.frame_count
    <3>. HIDE DEF n
    <3>. QED  BY <2>1, <2>2 DEF Machine
  <2>. HIDE DEF ip, h
  <2>4. /\ FramesInv'
        /\ Promise!Top = [open |-> Top.ip.open, height |-> Top.ip.height]
        /\ Promise!MoveTo([open |-> ip.open, height |-> ip.height])
    <3>1. vm'.frames = WithIp(vm, ip).frames
      BY <2>3 DEF ip
    <3>. QED  BY <1>1, <2>1, <2>2, <2>3, <3>1, TopStep
  <2>5. Promise!Compute
    <3>1. Promise!MoveTo(Promise!At(Promise!Top.open, Promise!Top.height + 1))
      BY <2>2, <2>4 DEF h, Promise!At
    <3>. QED  BY <1>1, <2>1, <3>1 DEF Promise!Compute, Promise!Going
  <2>. QED  BY <2>4, <2>5 DEF StepOK, Promise!Next
<1>. QED  BY <1>2, <1>3

LEMMA AboveFloor ==
  ASSUME Inv, InCode, NEW x \in Int, x > Floor(Top.ip)
  PROVE  x > 1 /\ Promise!Above(x, Top.ip.open)
<1>1. Floor(Top.ip) \in 1..HeightMax
  BY InCodeFacts
<1>2. x > 1
  BY <1>1, Limits
<1>3. ASSUME Top.ip.open # <<>> PROVE x > Last(Top.ip.open)
  BY <1>3 DEF Floor
<1>. QED  BY <1>2, <1>3, PromiseSeqs DEF Promise!Above

LEMMA PopRefines ==
  ASSUME Inv, FramesInv, Inv', Pop
  PROVE  StepOK
<1>. DEFINE h == Top.ip.height - 1
            ip == Height(h)
            n == WithIp(vm, ip)
<1>1. /\ InCode /\ Top.ip.height > Floor(Top.ip) /\ result = "running" /\ result' = "running"
      /\ vm' = [n EXCEPT !.stack_top = @ + ip.height - Top.ip.height]
  BY DEF Pop, Continue, Moved, InCode, Running
<1>2. Top.ip.height > 1 /\ Promise!Above(Top.ip.height, Top.ip.open) /\ h \in 1..HeightMax
  <2>1. Top.ip.height \in 1..HeightMax /\ Top.ip.height \in Int
    BY <1>1, InCodeFacts, Limits
  <2>. QED  BY <1>1, <2>1, AboveFloor, Limits
<1>3. /\ ip \in Place /\ ip.stage = "code" /\ ip.height = h /\ ip.open = Top.ip.open
      /\ n \in Machine /\ n.frame_count = vm.frame_count
  <2>. HIDE DEF h
  <2>. QED  BY <1>1, <1>2, HeightFacts
<1>. HIDE DEF ip, h
<1>4. vm'.frames = n.frames /\ vm'.frame_count = vm.frame_count
  <2>. HIDE DEF n
  <2>. QED  BY <1>1, <1>3 DEF Machine
<1>5. /\ FramesInv'
      /\ Promise!Top = [open |-> Top.ip.open, height |-> Top.ip.height]
      /\ Promise!MoveTo([open |-> ip.open, height |-> ip.height])
  BY <1>1, <1>3, <1>4, TopStep
<1>6. Promise!Compute
  <2>1. Promise!MoveTo(Promise!At(Promise!Top.open, Promise!Top.height - 1))
    BY <1>3, <1>5 DEF h, Promise!At
  <2>2. Promise!Top.height > 1 /\ Promise!Above(Promise!Top.height, Promise!Top.open)
    BY <1>2, <1>5
  <2>. QED  BY <1>1, <2>1, <2>2 DEF Promise!Compute, Promise!Going
<1>. QED  BY <1>5, <1>6 DEF StepOK, Promise!Next

LEMMA NativeRefines ==
  ASSUME Inv, FramesInv, Inv', NEW argc \in 0..HeightMax, CallNative(argc)
  PROVE  StepOK
<1>. DEFINE h == Top.ip.height - argc
            ip == Height(h)
            n == WithIp(vm, ip)
<1>1. /\ InCode /\ Top.ip.height > Floor(Top.ip) + argc
      /\ result = "running" /\ result' = "running"
      /\ vm' = [n EXCEPT !.stack_top = @ - argc, !.thrown = FALSE]
  BY DEF CallNative, Calls, Returned, Continue, InCode, Running
<1>2. /\ h > 1 /\ Promise!Above(h, Top.ip.open) /\ h \in 1..HeightMax /\ h \in 1..Top.ip.height
  <2>1. Top.ip.height \in 1..HeightMax /\ Floor(Top.ip) \in 1..HeightMax
    BY <1>1, InCodeFacts
  <2>2. h \in Int /\ h > Floor(Top.ip) /\ h \in 1..HeightMax /\ h \in 1..Top.ip.height
    BY <1>1, <2>1, Limits
  <2>. HIDE DEF h
  <2>. QED  BY <1>1, <2>2, AboveFloor
<1>3. /\ ip \in Place /\ ip.stage = "code" /\ ip.height = h /\ ip.open = Top.ip.open
      /\ n \in Machine /\ n.frame_count = vm.frame_count
  <2>. HIDE DEF h
  <2>. QED  BY <1>1, <1>2, HeightFacts
<1>. HIDE DEF ip, h
<1>4. vm'.frames = n.frames /\ vm'.frame_count = vm.frame_count
  <2>. HIDE DEF n
  <2>. QED  BY <1>1, <1>3 DEF Machine
<1>5. /\ FramesInv'
      /\ Promise!Top = [open |-> Top.ip.open, height |-> Top.ip.height]
      /\ Promise!MoveTo([open |-> ip.open, height |-> ip.height])
  BY <1>1, <1>3, <1>4, TopStep
<1>6. Promise!CallNative
  <2>1. Promise!MoveTo(Promise!At(Promise!Top.open, h))
    BY <1>3, <1>5 DEF Promise!At
  <2>2. h \in 1..Promise!Top.height /\ Promise!Above(h, Promise!Top.open)
    BY <1>2, <1>5
  <2>. QED  BY <1>1, <2>1, <2>2 DEF Promise!CallNative, Promise!Going
<1>. QED  BY <1>5, <1>6 DEF StepOK, Promise!Next

LEMMA OpTryRefines ==
  ASSUME Inv, FramesInv, Inv', OpTry
  PROVE  StepOK
<1>. DEFINE h == Top.ip.height
            ip == [Top.ip EXCEPT !.open = Append(@, h)]
            n == WithIp(vm, ip)
            hd == [catch_ip    |-> Height(h + 1),
                   stack_top   |-> vm.stack_top,
                   frame_count |-> vm.frame_count]
<1>1. InCode /\ result = "running"
  BY DEF OpTry, InCode, Running
<1>2. CASE TryFull
  <2>1. result' = "refused"
    BY <1>2 DEF OpTry, Refuse
  <2>. QED  BY <1>1, <2>1, StopStep
<1>3. CASE ~ TryFull
  <2>1. vm' = [n EXCEPT !.try_stack = Append(@, hd)] /\ result' = "running"
    BY <1>3 DEF OpTry, Continue
  <2>2. /\ Top.ip \in Place /\ Top.ip.stage = "code"
        /\ Top.ip.open \in Seq(1..HeightMax) /\ h \in 1..HeightMax
    BY <1>1, InCodeFacts
  <2>3. Append(Top.ip.open, h) \in Seq(1..HeightMax) /\ ip = [Top.ip EXCEPT !.open = Append(Top.ip.open, h)]
    BY <2>2, AppendFacts DEF Place
  <2>4. /\ ip \in Place /\ ip.stage = "code" /\ ip.height = h /\ ip.open = Append(Top.ip.open, h)
    <3>. DEFINE was == Top.ip
                o == Append(Top.ip.open, h)
    <3>1. was \in Place /\ o \in Seq(1..HeightMax) /\ ip = [was EXCEPT !.open = o]
      BY <2>2, <2>3
    <3>2. was.height = h /\ was.stage = "code"
      BY <2>2
    <3>. HIDE DEF was, o, ip
    <3>3. ip \in Place /\ ip.stage = was.stage /\ ip.height = was.height /\ ip.open = o
      BY ZenonT(60), <3>1, PlaceFacts
    <3>. QED  BY <3>2, <3>3 DEF o
  <2>. HIDE DEF ip, hd
  <2>5. n \in Machine /\ n.frame_count = vm.frame_count
    BY <1>1, <2>4, IpFacts
  <2>6. vm'.frames = n.frames /\ vm'.frame_count = vm.frame_count
    <3>. HIDE DEF n
    <3>. QED  BY <2>1, <2>5 DEF Machine
  <2>7. /\ FramesInv'
        /\ Promise!Top = [open |-> Top.ip.open, height |-> Top.ip.height]
        /\ Promise!MoveTo([open |-> ip.open, height |-> ip.height])
    BY <1>1, <2>1, <2>4, <2>6, TopStep
  <2>8. Promise!EnterTry
    <3>1. Promise!MoveTo(Promise!At(Append(Promise!Top.open, Promise!Top.height), Promise!Top.height))
      BY <2>4, <2>7 DEF Promise!At
    <3>. QED  BY <1>1, <2>1, <3>1 DEF Promise!EnterTry, Promise!Going
  <2>. QED  BY <2>7, <2>8 DEF StepOK, Promise!Next
<1>. QED  BY <1>2, <1>3

LEMMA OpTryEndRefines ==
  ASSUME Inv, FramesInv, Inv', OpTryEnd
  PROVE  StepOK
<1>. DEFINE h == Top.ip.height
            ip == [Top.ip EXCEPT !.open = Front(@)]
            n == WithIp(vm, ip)
<1>1. /\ InCode /\ result = "running" /\ result' = "running"
      /\ Top.ip.open # <<>> /\ h = Last(Top.ip.open)
      /\ vm' = [n EXCEPT !.try_stack = IF @ = <<>> THEN @ ELSE Front(@)]
  BY DEF OpTryEnd, InCode, Running, Continue
<1>2. /\ Top.ip \in Place /\ Top.ip.stage = "code"
      /\ Top.ip.open \in Seq(1..HeightMax) /\ h \in 1..HeightMax
  BY <1>1, InCodeFacts
<1>3. Front(Top.ip.open) \in Seq(1..HeightMax) /\ ip = [Top.ip EXCEPT !.open = Front(Top.ip.open)]
  BY <1>1, <1>2, FrontFacts DEF Place
<1>4. /\ ip \in Place /\ ip.stage = "code" /\ ip.height = h /\ ip.open = Front(Top.ip.open)
  <2>. DEFINE was == Top.ip
              o == Front(Top.ip.open)
  <2>1. was \in Place /\ o \in Seq(1..HeightMax) /\ ip = [was EXCEPT !.open = o]
    BY <1>2, <1>3
  <2>2. was.height = h /\ was.stage = "code"
    BY <1>2
  <2>. HIDE DEF was, o, ip
  <2>3. ip \in Place /\ ip.stage = was.stage /\ ip.height = was.height /\ ip.open = o
    BY ZenonT(60), <2>1, PlaceFacts
  <2>. QED  BY <2>2, <2>3 DEF o
<1>. HIDE DEF ip
<1>5. n \in Machine /\ n.frame_count = vm.frame_count
  BY <1>1, <1>4, IpFacts
<1>6. vm'.frames = n.frames /\ vm'.frame_count = vm.frame_count
  <2>. HIDE DEF n
  <2>. QED  BY <1>1, <1>5 DEF Machine
<1>7. /\ FramesInv'
      /\ Promise!Top = [open |-> Top.ip.open, height |-> Top.ip.height]
      /\ Promise!MoveTo([open |-> ip.open, height |-> ip.height])
  BY <1>1, <1>4, <1>6, TopStep
<1>8. Promise!LeaveTry
  <2>1. Promise!MoveTo(Promise!At(Promise!Front(Promise!Top.open), Promise!Top.height))
    BY <1>4, <1>7, PromiseSeqs DEF Promise!At
  <2>2. Promise!Top.open # <<>> /\ Promise!Top.height = Promise!Last(Promise!Top.open)
    BY <1>1, <1>7, PromiseSeqs
  <2>. QED  BY <1>1, <2>1, <2>2 DEF Promise!LeaveTry, Promise!Going
<1>. QED  BY <1>7, <1>8 DEF StepOK, Promise!Next

(***************************************************************************)
(* A call adds an activation.                                              *)
(***************************************************************************)
LEMMA GrowRun ==
  ASSUME NEW m \in Machine, NEW n \in Machine, NEW s, Current(m, s), NEW r, IsRun(m, s, r),
         n.frame_count = m.frame_count + 1,
         \A i \in 1..m.frame_count : n.frames[i] = m.frames[i],
         n.frames[n.frame_count].function # Script,
         n.frames[n.frame_count].ip.stage # "halted"
  PROVE  Current(n, s) /\ IsRun(n, s, Append(r, Act(n.frames[n.frame_count])))
<1>. DEFINE c == m.frame_count
            e == Act(n.frames[n.frame_count])
            b == Append(r, e)
<1>1. /\ s \in 1..c /\ c \in Nat /\ n.frame_count = c + 1 /\ c + 1 \in 1..n.frame_count
      /\ r \in Seq(Activation) /\ Len(r) = c - s + 1
  BY Limits DEF Current, Machine, IsRun
<1>2. e \in Activation
  BY <1>1, ActFacts
<1>. HIDE DEF e
<1>3. /\ b \in Seq(Activation) /\ Len(b) = c - s + 1 + 1
      /\ \A i \in 1..c - s + 1 : b[i] = r[i]
      /\ b[c - s + 1 + 1] = e
  BY <1>1, <1>2, AppendFacts
<1>4. ASSUME NEW i \in 1..Len(b)
      PROVE  s + i - 1 \in s..n.frame_count /\ b[i] = Act(n.frames[s + i - 1])
  <2>1. i \in 1..c - s + 1 + 1 /\ s + i - 1 \in s..n.frame_count
    BY <1>1, <1>3
  <2>2. CASE i = c - s + 1 + 1
    <3>1. s + i - 1 = c + 1
      BY SMTT(30), <1>1, <2>2
    <3>. QED  BY <1>1, <1>3, <2>1, <2>2, <3>1 DEF e
  <2>3. CASE i # c - s + 1 + 1
    <3>. HIDE DEF c
    <3>0. s \in 1..c /\ c \in Nat /\ Len(r) = c - s + 1
      BY <1>1
    <3>1. i \in 1..Len(r) /\ s + i - 1 \in 1..c
      BY <2>1, <2>3, <3>0
    <3>2. r[i] = Act(m.frames[s + i - 1]) /\ n.frames[s + i - 1] = m.frames[s + i - 1]
      BY <3>1 DEF IsRun, c
    <3>3. b[i] = r[i]
      BY <1>3, <3>0, <3>1 DEF c
    <3>. QED  BY <2>1, <3>2, <3>3
  <2>. QED  BY <2>2, <2>3
<1>5. Len(b) = n.frame_count - s + 1
  BY <1>1, <1>3
<1>6. IsRun(n, s, b)
  BY <1>3, <1>4, <1>5 DEF IsRun
<1>7. Current(n, s)
  <2>1. \A i \in 1..s - 1 : i \in 1..c
    BY <1>1
  <2>2. \A i \in 1..s - 1 : Halted(n.frames[i])
    BY <2>1 DEF Current
  <2>3. n.frames[s] = m.frames[s] /\ s \in 1..n.frame_count
    BY <1>1
  <2>4. ASSUME NEW i \in s + 1..n.frame_count
        PROVE  n.frames[i].function # Script /\ n.frames[i].ip.stage # "halted"
    <3>1. CASE i = n.frame_count
      BY <3>1
    <3>2. CASE i # n.frame_count
      <4>1. i \in s + 1..c /\ i \in 1..c
        BY <1>1, <3>2
      <4>. QED  BY <4>1 DEF Current
    <3>. QED  BY <3>1, <3>2
  <2>. QED  BY <2>2, <2>3, <2>4 DEF Current
<1>. QED  BY <1>6, <1>7 DEF e

LEMMA SameRun ==
  ASSUME NEW m, NEW s, NEW r, NEW q, IsRun(m, s, r), IsRun(m, s, q)
  PROVE  r = q
<1>1. /\ r \in Seq(Activation) /\ q \in Seq(Activation) /\ Len(r) = Len(q)
      /\ \A i \in 1..Len(r) : r[i] = q[i]
  BY DEF IsRun
<1>. QED  BY <1>1, SeqEqual

LEMMA TwoMore ==
  ASSUME NEW S, NEW s \in Seq(S), NEW x \in S, NEW y \in S
  PROVE  Append(Append(s, x), y) = s \o <<x, y>>
<1>. DEFINE a == Append(s, x)
            b == Append(a, y)
            t == <<x, y>>
            d == s \o t
            l == Len(s)
<1>1. /\ a \in Seq(S) /\ Len(a) = l + 1 /\ l \in Nat
      /\ (\A i \in 1..l : a[i] = s[i]) /\ a[l + 1] = x
  BY AppendFacts
<1>2. t \in Seq(S) /\ Len(t) = 2 /\ t[1] = x /\ t[2] = y
  OBVIOUS
<1>. HIDE DEF a, t
<1>3. /\ b \in Seq(S) /\ Len(b) = l + 1 + 1
      /\ (\A i \in 1..l + 1 : b[i] = a[i]) /\ b[l + 1 + 1] = y
  BY <1>1, AppendFacts
<1>4. /\ d \in Seq(S) /\ Len(d) = l + 2
      /\ \A i \in 1..l + 2 : d[i] = IF i <= l THEN s[i] ELSE t[i - l]
  <2>1. /\ s \o t \in Seq(S) /\ Len(s \o t) = Len(s) + Len(t)
        /\ \A i \in 1..Len(s) + Len(t) : (s \o t)[i] = IF i <= Len(s) THEN s[i] ELSE t[i - Len(s)]
    BY <1>2, ConcatProperties
  <2>2. Len(s) + Len(t) = l + 2
    BY <1>2
  <2>. HIDE DEF l
  <2>. QED  BY <2>1, <2>2 DEF l
<1>. HIDE DEF b, d, l
<1>5. Len(b) = Len(d)
  BY <1>1, <1>3, <1>4
<1>6. ASSUME NEW i \in 1..Len(b) PROVE b[i] = d[i]
  <2>1. i \in 1..l + 2
    BY <1>1, <1>3
  <2>2. CASE i \in 1..l
    BY SMTT(30), <1>1, <1>3, <1>4, <2>1, <2>2
  <2>3. CASE i = l + 1
    <3>1. i - l = 1 /\ ~ (i <= l) /\ i \in 1..l + 1
      BY <1>1, <2>3
    <3>2. b[i] = x
      BY <1>1, <1>3, <2>3, <3>1
    <3>. QED  BY <1>2, <1>4, <2>1, <3>1, <3>2
  <2>4. CASE i = l + 2
    <3>1. i - l = 2 /\ ~ (i <= l) /\ i = l + 1 + 1
      BY <1>1, <2>4
    <3>2. b[i] = y
      BY <1>3, <3>1
    <3>. QED  BY <1>2, <1>4, <2>1, <3>1, <3>2
  <2>. QED  BY <1>1, <2>1, <2>2, <2>3, <2>4
<1>7. b = d
  BY <1>3, <1>4, <1>5, <1>6, SeqEqual
<1>. QED  BY <1>7 DEF a, b, t, d

LEMMA OpCallRefines ==
  ASSUME Inv, FramesInv, Inv', NEW f \in Function \ {Script}, NEW argc \in 0..HeightMax,
         OpCall(f, argc)
  PROVE  StepOK
<1>. DEFINE c == vm.frame_count
            h == Top.ip.height - argc
            ip == Height(h)
            w == WithIp(vm, ip)
            fr == Frame(f, CalleeSlots(argc))
            n == [w EXCEPT !.frame_count = @ + 1, !.frames[c + 1] = fr,
                           !.stack_top = @ + Arity[f] - argc]
<1>1. InCode /\ Top.ip.height > Floor(Top.ip) + argc /\ result = "running"
  BY DEF OpCall, Calls, InCode, Running
<1>2. Refuse \/ (result' = "exit" /\ UNCHANGED vm) \/ (Continue(n) /\ ~ (c >= FramesMax))
  BY DEF OpCall, Returned
<1>3. CASE Refuse \/ result' = "exit"
  BY <1>1, <1>3, StopStep DEF Refuse
<1>4. CASE Continue(n) /\ ~ (c >= FramesMax)
  <2>1. vm' = n /\ result' = "running"
    BY <1>4 DEF Continue
  <2>2. PICK s : Current(vm, s)
    BY <1>1 DEF FramesInv
  <2>3. /\ c \in 1..FramesMax /\ c + 1 \in 1..FramesMax /\ c \in Nat
        /\ s \in 1..c /\ Top = vm.frames[c]
        /\ vm \in Machine /\ vm' \in Machine
    <3>1. c \in 1..FramesMax /\ vm \in Machine
      BY <1>1, InCodeFacts
    <3>2. vm' \in Machine
      BY DEF Inv, Good
    <3>. QED  BY SMTT(30), <1>4, <2>2, <3>1, <3>2, Limits DEF Current, Top
  <2>4. /\ h > 1 /\ Promise!Above(h, Top.ip.open) /\ h \in 1..HeightMax /\ h \in 1..Top.ip.height
    <3>1. Top.ip.height \in 1..HeightMax /\ Floor(Top.ip) \in 1..HeightMax
      BY <1>1, InCodeFacts
    <3>2. h \in Int /\ h > Floor(Top.ip) /\ h \in 1..HeightMax /\ h \in 1..Top.ip.height
      BY <1>1, <3>1, Limits
    <3>. HIDE DEF h
    <3>. QED  BY <1>1, <3>2, AboveFloor
  <2>5. /\ fr.function = f /\ fr.ip.stage = "code"
        /\ Act(fr) = [open |-> <<>>, height |-> Arity[f] + 1]
    BY DEF Frame, EntryOf, At, Act
  <2>6. ip \in Place /\ ip.stage = "code" /\ ip.height = h /\ ip.open = Top.ip.open
    <3>. HIDE DEF h
    <3>. QED  BY <1>1, <2>4, HeightFacts
  <2>. HIDE DEF h, ip, fr
  <2>7. /\ w \in Machine /\ w.frame_count = c
        /\ \A i \in 1..c : i # c => w.frames[i] = vm.frames[i]
        /\ w.frames[c].ip = ip /\ w.frames[c].function = Top.function
    BY <1>1, <2>6, IpFacts
  <2>. HIDE DEF w
  <2>8. n.frame_count = c + 1 /\ n.frames = [w.frames EXCEPT ![c + 1] = fr]
    BY <2>7 DEF Machine
  <2>9. vm' = n
    BY <2>1 DEF w, ip, h, fr
  <2>. HIDE DEF n
  <2>10. n.frames[c + 1] = fr /\ \A i \in 1..c : n.frames[i] = w.frames[i]
    <3>1. \A i \in 1..c + 1 : i \in DOMAIN w.frames
      BY <2>3, <2>7, Limits DEF Machine
    <3>2. \A i \in 1..c : i # c + 1 /\ i \in 1..c + 1
      BY <2>3
    <3>3. c + 1 \in 1..c + 1
      BY <2>3
    <3>. QED  BY <2>8, <3>1, <3>2, <3>3
  <2>11. Cut(vm, w, c)
    <3>1. c \in 1..c /\ \A i \in 1..c - 1 : i \in 1..c /\ i # c
      BY <2>3
    <3>2. \A i \in 1..c - 1 : w.frames[i] = vm.frames[i]
      BY <2>7, <3>1
    <3>. QED  BY <2>3, <2>6, <2>7, <3>1, <3>2 DEF Cut
  <2>. DEFINE k == c - s + 1
              r == RunCalls
              q == CallsOf(w, "running")
  <2>12. s <= c /\ c \in Int /\ s \in Int
    BY <2>3
  <2>13. Current(w, s)
    BY <2>2, <2>3, <2>11, <2>12, CutCurrent
  <2>14. IsRun(vm, s, r) /\ IsRun(w, s, q)
    <3>1. IsRun(vm, s, CallsOf(vm, "running"))
      BY <2>2, <2>3, CallsOfRun
    <3>. QED  BY <1>1, <2>7, <2>13, <3>1, CallsOfRun, CallsAre
  <2>. HIDE DEF q, r
  <2>15. /\ r[k] = Act(vm.frames[c])
         /\ q = Append(SubSeq(r, 1, k - 1), Act(w.frames[c]))
    <3>1. vm \in Machine /\ w \in Machine
      BY <2>3, <2>7
    <3>2. LET l == c - s + 1 IN
          /\ l \in 1..Len(r)
          /\ r[l] = Act(vm.frames[c])
          /\ q = Append(SubSeq(r, 1, l - 1), Act(w.frames[c]))
      BY SMTT(30), <2>2, <2>11, <2>12, <2>14, <3>1, CutRun
    <3>. QED  BY <3>2
  <2>16. Len(r) = k /\ r \in Seq(Activation) /\ r # <<>>
    <3>1. Len(r) = k /\ r \in Seq(Activation) /\ k > 0
      BY <2>3, <2>14 DEF IsRun
    <3>. HIDE DEF k
    <3>. QED  BY <3>1, EmptySeq
  <2>. HIDE DEF k
  <2>17. Last(r) = Act(vm.frames[c]) /\ q = Append(Front(r), Act(w.frames[c]))
    BY <2>15, <2>16 DEF Last, Front
  <2>18. /\ Current(n, s) /\ IsRun(n, s, Append(q, Act(fr)))
    <3>1. n \in Machine /\ n.frames[n.frame_count].function # Script /\ n.frames[n.frame_count] = fr
      BY <2>3, <2>5, <2>8, <2>9, <2>10
    <3>2. /\ w \in Machine /\ n.frame_count = w.frame_count + 1
          /\ \A i \in 1..w.frame_count : n.frames[i] = w.frames[i]
          /\ n.frames[n.frame_count].ip.stage # "halted"
      BY <2>5, <2>7, <2>8, <2>10, <3>1
    <3>3. IsRun(w, s, q)
      BY <2>14
    <3>4. Current(n, s) /\ IsRun(n, s, Append(q, Act(n.frames[n.frame_count])))
      BY <2>13, <3>1, <3>2, <3>3, GrowRun
    <3>. QED  BY <3>1, <3>4
  <2>19. RunCalls' = Append(q, Act(fr))
    <3>1. IsRun(n, s, CallsOf(n, "running"))
      BY <2>3, <2>9, <2>18, CallsOfRun
    <3>2. CallsOf(n, "running") = Append(q, Act(fr))
      BY <2>18, <3>1, SameRun
    <3>. QED  BY <2>1, <2>9, <3>2, CallsAre
  <2>20. Append(Append(Front(r), Act(w.frames[c])), Act(fr)) = Front(r) \o <<Act(w.frames[c]), Act(fr)>>
    <3>1. Front(r) \in Seq(Activation)
      BY <2>16, FrontFacts
    <3>2. Act(w.frames[c]) \in Activation
      <4>1. c \in 1..w.frame_count
        BY <2>3, <2>7
      <4>. QED  BY <2>7, <4>1, ActFacts
    <3>3. Act(fr) \in Activation
      <4>1. n.frame_count \in 1..n.frame_count /\ n \in Machine /\ n.frames[n.frame_count] = fr
        BY <2>3, <2>8, <2>9, <2>10
      <4>. QED  BY <4>1, ActFacts
    <3>. QED  BY <3>1, <3>2, <3>3, TwoMore
  <2>21. Act(w.frames[c]) = [open |-> Top.ip.open, height |-> h]
    BY <2>6, <2>7 DEF Act
  <2>22. /\ Promise!Top = [open |-> Top.ip.open, height |-> Top.ip.height]
         /\ RunCalls' = Promise!Front(RunCalls) \o
              <<Promise!At(Promise!Top.open, h), Promise!At(<<>>, Arity[f] + 1)>>
    <3>1. Promise!Top = [open |-> Top.ip.open, height |-> Top.ip.height]
      BY <2>3, <2>17, PromiseSeqs DEF Promise!Top, Act, r
    <3>2. Promise!At(Promise!Top.open, h) = Act(w.frames[c]) /\ Promise!At(<<>>, Arity[f] + 1) = Act(fr)
      BY <2>5, <2>21, <3>1 DEF Promise!At
    <3>. QED  BY <2>17, <2>19, <2>20, <3>1, <3>2, PromiseSeqs DEF r
  <2>23. Promise!Call
    <3>1. h \in 1..Promise!Top.height /\ Promise!Above(h, Promise!Top.open)
      BY <2>4, <2>22
    <3>. QED  BY <1>1, <2>1, <2>22, <3>1 DEF Promise!Call, Promise!Going
  <2>24. FramesInv'
    BY <2>1, <2>9, <2>18 DEF FramesInv
  <2>. QED  BY <2>23, <2>24 DEF StepOK, Promise!Next
<1>. QED  BY <1>2, <1>3, <1>4

-----------------------------------------------------------------------------
(* Errors. *)

LEMMA NoHandlers ==
  ASSUME NEW m, Good(m), m.try_stack = <<>>, NEW i \in 1..m.frame_count
  PROVE  m.frames[i].ip.open = <<>>
<1>1. PICK below : MirrorBy(m, below)
  BY DEF Good, Mirror
<1>2. Len(m.try_stack) = 0 /\ m.frame_count \in Nat /\ m \in Machine
  BY EmptySeq, Limits DEF Good, Machine
<1>3. i \in 1..m.frame_count + 1 /\ i + 1 \in 1..m.frame_count + 1
  BY <1>2
<1>4. below[i] = 0 /\ below[i + 1] = 0 /\ below[i + 1] = below[i] + Len(m.frames[i].ip.open)
  <2>1. \A k \in 1..m.frame_count + 1 : below[k] \in 0..0
    BY <1>1, <1>2 DEF MirrorBy
  <2>. QED  BY <1>1, <1>3, <2>1 DEF MirrorBy
<1>5. m.frames[i].ip.open \in Seq(1..HeightMax) /\ Len(m.frames[i].ip.open) \in Nat
  BY <1>2, OpenFacts
<1>6. Len(m.frames[i].ip.open) = 0
  BY <1>4, <1>5
<1>. QED  BY <1>5, <1>6, EmptySeq

(***************************************************************************)
(* An instruction that fails or halts leaves the frames as they were.      *)
(***************************************************************************)
LEMMA StagedFacts ==
  ASSUME NEW m, Good(m), m.frame_count > 0, NEW stage \in {"halted", "failed"},
         stage = "halted" => m.frames[m.frame_count].ip.open = <<>>
  PROVE  LET p == Staged(m, stage) IN
         /\ p \in Machine /\ Good(p)
         /\ p.frame_count = m.frame_count /\ p.try_stack = m.try_stack
         /\ \A i \in 1..m.frame_count :
              /\ p.frames[i].ip.open = m.frames[i].ip.open
              /\ p.frames[i].ip.height = m.frames[i].ip.height
              /\ p.frames[i].function = m.frames[i].function
              /\ i # m.frame_count => p.frames[i] = m.frames[i]
<1>. DEFINE c == m.frame_count
            was == m.frames[c].ip
            ip == [was EXCEPT !.stage = stage]
            p == Staged(m, stage)
<1>1. m \in Machine /\ c \in 1..c /\ c \in 1..FramesMax /\ \A i \in 1..c : i \in 1..FramesMax
  BY Limits DEF Good, Machine
<1>2. was \in Place
  BY <1>1, OpenFacts
<1>3. ip \in Place /\ ip.open = was.open /\ ip.height = was.height
  <2>. HIDE DEF was
  <2>. QED  BY <1>2, PlaceFacts
<1>4. p = WithIp(m, ip)
  BY DEF Staged
<1>5. p \in Machine /\ Good(p) /\ p.frame_count = c /\ p.try_stack = m.try_stack
  BY StageFacts
<1>. HIDE DEF ip, p
<1>6. /\ \A i \in 1..FramesMax : i # c => p.frames[i] = m.frames[i]
      /\ p.frames[c].ip = ip /\ p.frames[c].function = m.frames[c].function
  BY ZenonT(60), <1>1, <1>3, <1>4, WithIpFacts
<1>7. ASSUME NEW i \in 1..c
      PROVE  /\ p.frames[i].ip.open = m.frames[i].ip.open
             /\ p.frames[i].ip.height = m.frames[i].ip.height
             /\ p.frames[i].function = m.frames[i].function
             /\ i # c => p.frames[i] = m.frames[i]
  <2>1. CASE i = c
    BY <1>3, <1>6, <2>1
  <2>2. CASE i # c
    <3>1. p.frames[i] = m.frames[i]
      BY <1>1, <1>6, <2>2
    <3>. QED  BY <2>2, <3>1
  <2>. QED  BY <2>1, <2>2
<1>. QED  BY <1>5, <1>7 DEF p

LEMMA RaiseRefines ==
  ASSUME Inv, Own(vm), FramesInv, Inv', result = "running", result' = "running",
         NEW p, Good(p), Caught(p), vm' = throwError(p),
         p.frame_count = vm.frame_count, p.try_stack = vm.try_stack,
         \A i \in 1..vm.frame_count :
           /\ p.frames[i].ip.open = vm.frames[i].ip.open
           /\ p.frames[i].function = vm.frames[i].function
           /\ i # vm.frame_count => p.frames[i] = vm.frames[i]
  PROVE  StepOK
<1>. DEFINE c == vm.frame_count
            open(i) == vm.frames[i].ip.open
<1>1. PICK s : Current(vm, s)
  BY DEF FramesInv
<1>2. PICK j \in 1..c : CaughtIn(p, vm', j)
  BY CatchesAt
<1>3. c \in Nat /\ s \in 1..c /\ vm \in Machine
  BY <1>1, Limits DEF Current, Inv, Good, Machine
<1>4. /\ Len(open(j)) > 0
      /\ \A i \in j + 1..c : Len(open(i)) = 0
      /\ vm'.frame_count = j
      /\ vm'.frames[j].ip = At(p.frames[j].function, Front(open(j)), open(j)[Len(open(j))] + 1)
      /\ vm'.frames[j].function = vm.frames[j].function
      /\ \A i \in 1..j : i # j => vm'.frames[i] = p.frames[i]
      /\ vm.try_stack[Len(vm.try_stack)] = HandlerIn(p, j, Len(open(j)))
  <2>1. \A i \in j + 1..c : i \in 1..c
    BY <1>3
  <2>. QED  BY SMTT(30), <1>2, <2>1 DEF CaughtIn
<1>5. j >= s
  <2>1. vm.try_stack[Len(vm.try_stack)].frame_count = j
    <3>1. HandlerIn(p, j, Len(open(j))).frame_count = j
      BY DEF HandlerIn
    <3>. QED  BY <1>4, <3>1
  <2>2. Len(vm.try_stack) \in 1..Len(vm.try_stack)
    <3>1. vm.try_stack \in Seq(HandlerType) /\ vm.try_stack # <<>>
      BY <1>3 DEF Caught, Machine
    <3>. QED  BY <3>1, FrontFacts
  <2>3. vm.frames[s].function = Script
    BY <1>1 DEF Current
  <2>. QED  BY <1>3, <2>1, <2>2, <2>3 DEF Own
<1>6. Cut(vm, vm', j)
  <2>1. \A i \in 1..j - 1 : i \in 1..j /\ i # j /\ i \in 1..c /\ i # c
    BY <1>3
  <2>2. \A i \in 1..j - 1 : vm'.frames[i] = vm.frames[i]
    BY <1>4, <2>1
  <2>3. vm'.frames[j].ip.stage # "halted"
    BY <1>4 DEF At
  <2>. QED  BY <1>4, <2>2, <2>3 DEF Cut
<1>7. s <= j
  BY <1>3, <1>5
<1>. DEFINE k == j - s + 1
<1>8. /\ FramesInv' /\ IsRun(vm, s, RunCalls)
      /\ k \in 1..Len(RunCalls)
      /\ RunCalls[k] = Act(vm.frames[j])
      /\ RunCalls' = Append(SubSeq(RunCalls, 1, k - 1), Act(vm'.frames[j]))
  <2>. HIDE DEF c
  <2>. QED  BY <1>1, <1>6, <1>7, RunStep
<1>9. RunCalls[k].open = open(j) /\ open(j) # <<>>
  <2>1. open(j) # <<>>
    BY <1>4, EmptySeq
  <2>. QED  BY <1>8, <2>1 DEF Act
<1>10. Act(vm'.frames[j]) = [open |-> Front(open(j)), height |-> Last(open(j)) + 1]
  BY <1>4 DEF Act, At, Last
<1>11. ASSUME NEW l \in k + 1..Len(RunCalls) PROVE RunCalls[l].open = <<>>
  <2>1. Len(RunCalls) = c - s + 1 /\ l \in 1..Len(RunCalls) /\ s + l - 1 \in j + 1..c /\ s + l - 1 \in 1..c
    <3>1. Len(RunCalls) = c - s + 1
      BY <1>8 DEF IsRun
    <3>. QED  BY SMTT(30), <1>3, <1>7, <3>1
  <2>2. RunCalls[l] = Act(vm.frames[s + l - 1])
    BY <1>8, <2>1 DEF IsRun
  <2>3. Len(open(s + l - 1)) = 0 /\ open(s + l - 1) \in Seq(1..HeightMax)
    BY <1>3, <1>4, <2>1, OpenFacts
  <2>4. open(s + l - 1) = <<>>
    BY <2>3, EmptySeq
  <2>. QED  BY <2>2, <2>4 DEF Act
<1>. HIDE DEF k, open
<1>12. Promise!Raise
  <2>1. RunCalls' = Append(SubSeq(RunCalls, 1, k - 1),
                           Promise!At(Promise!Front(RunCalls[k].open), Promise!Last(RunCalls[k].open) + 1))
    BY <1>8, <1>9, <1>10, PromiseSeqs DEF Promise!At
  <2>2. RunCalls[k].open # <<>>
    BY <1>9
  <2>. QED  BY <1>8, <1>11, <2>1, <2>2 DEF Promise!Raise, Promise!Going
<1>. QED  BY <1>8, <1>12 DEF StepOK, Promise!Next

LEMMA UncaughtRefines ==
  ASSUME Inv, FramesInv, result = "running", result' = "uncaught", vm.try_stack = <<>>
  PROVE  StepOK
<1>1. PICK s : Current(vm, s)
  BY DEF FramesInv
<1>2. IsRun(vm, s, RunCalls)
  <2>1. vm \in Machine
    BY DEF Inv, Good
  <2>. QED  BY <1>1, <2>1, CallsOfRun, CallsAre
<1>3. ASSUME NEW i \in 1..Len(RunCalls) PROVE RunCalls[i].open = <<>>
  <2>1. s \in 1..vm.frame_count /\ vm.frame_count \in Nat /\ Good(vm)
    BY <1>1, Limits DEF Current, Inv, Good, Machine
  <2>2. RunCalls[i] = Act(vm.frames[s + i - 1]) /\ s + i - 1 \in s..vm.frame_count
    BY <1>2 DEF IsRun
  <2>3. s + i - 1 \in 1..vm.frame_count
    BY <2>1, <2>2
  <2>4. vm.frames[s + i - 1].ip.open = <<>>
    BY <2>1, <2>3, NoHandlers
  <2>. QED  BY <2>2, <2>4 DEF Act
<1>4. RunCalls' = <<>>
  BY CallsAre, NoCalls
<1>5. FramesInv'
  BY DEF FramesInv
<1>6. Promise!Uncaught
  BY <1>3, <1>4 DEF Promise!Uncaught, Promise!Stop
<1>. QED  BY <1>5, <1>6 DEF StepOK, Promise!Next

LEMMA ThrowRefines ==
  ASSUME Inv, Own(vm), FramesInv, Inv', result = "running", vm.frame_count > 0,
         NEW m, Good(m), Throw(m), m.frames = vm.frames, m.frame_count = vm.frame_count,
         m.try_stack = vm.try_stack
  PROVE  StepOK
<1>. DEFINE p == Staged(m, "failed")
<1>1. /\ p \in Machine /\ Good(p)
      /\ p.frame_count = m.frame_count /\ p.try_stack = m.try_stack
      /\ \A i \in 1..m.frame_count :
           /\ p.frames[i].ip.open = m.frames[i].ip.open
           /\ p.frames[i].function = m.frames[i].function
           /\ i # m.frame_count => p.frames[i] = m.frames[i]
  BY StagedFacts
<1>2. vm' = throwError(p) /\ result' = IF Caught(m) THEN "running" ELSE "uncaught"
  BY DEF Throw
<1>. HIDE DEF p
<1>3. CASE Caught(m)
  <2>1. Caught(p) /\ result' = "running"
    BY <1>1, <1>2, <1>3 DEF Caught
  <2>. QED  BY <1>1, <1>2, <2>1, RaiseRefines
<1>4. CASE ~ Caught(m)
  <2>1. vm.try_stack = <<>> /\ result' = "uncaught"
    BY <1>2, <1>4 DEF Caught
  <2>. QED  BY <2>1, UncaughtRefines
<1>. QED  BY <1>3, <1>4

LEMMA ErrorRefines ==
  ASSUME Inv, Own(vm), FramesInv, Inv',
         OpThrow \/ ThrowError \/ \E argc \in 0..HeightMax : NativeError(argc)
  PROVE  StepOK
<1>1. ASSUME InCode, NEW x \in Int, Throw([vm EXCEPT !.stack_top = x])
      PROVE  StepOK
  <2>. DEFINE n == [vm EXCEPT !.stack_top = x]
  <2>1. /\ vm \in Machine /\ Good(vm) /\ vm.frame_count \in 1..FramesMax /\ vm.frame_count > 0
        /\ result = "running"
    BY <1>1, InCodeFacts DEF InCode, Running
  <2>2. /\ n \in Machine /\ n.frames = vm.frames
        /\ n.frame_count = vm.frame_count /\ n.try_stack = vm.try_stack
    BY <1>1, <2>1, StackFacts
  <2>3. Throw(n)
    BY <1>1
  <2>. HIDE DEF n
  <2>4. Good(n)
    BY <2>1, <2>2, GoodData
  <2>. QED  BY <2>1, <2>2, <2>3, <2>4, ThrowRefines
<1>2. ASSUME InCode PROVE vm \in Machine /\ vm.stack_top \in Int /\ vm = [vm EXCEPT !.stack_top = vm.stack_top]
  BY <1>2, InCodeFacts DEF Machine
<1>3. CASE OpThrow
  <2>1. InCode /\ Throw([vm EXCEPT !.stack_top = @ - 1])
    BY <1>3 DEF OpThrow
  <2>2. vm.stack_top - 1 \in Int /\ Throw([vm EXCEPT !.stack_top = vm.stack_top - 1])
    BY <1>2, <2>1 DEF Machine
  <2>. QED  BY <1>1, <2>1, <2>2
<1>4. CASE ThrowError
  <2>1. InCode /\ Throw(vm)
    BY <1>4 DEF ThrowError
  <2>2. vm.stack_top \in Int /\ Throw([vm EXCEPT !.stack_top = vm.stack_top])
    BY <1>2, <2>1
  <2>. QED  BY <1>1, <2>1, <2>2
<1>5. ASSUME NEW argc \in 0..HeightMax, NativeError(argc) PROVE StepOK
  <2>1. InCode /\ Throw([vm EXCEPT !.stack_top = @ - argc - 1])
    BY <1>5 DEF NativeError, Calls
  <2>2. /\ vm.stack_top - argc - 1 \in Int
        /\ Throw([vm EXCEPT !.stack_top = vm.stack_top - argc - 1])
    BY <1>2, <2>1, Limits DEF Machine
  <2>. QED  BY <1>1, <2>1, <2>2
<1>. QED  BY <1>3, <1>4, <1>5

-----------------------------------------------------------------------------
(* Returns, and the end and the beginning of a run. *)

LEMMA PrefixNext ==
  ASSUME NEW S, NEW s \in Seq(S), NEW k \in 1..Len(s)
  PROVE  Append(SubSeq(s, 1, k - 1), s[k]) = SubSeq(s, 1, k)
<1>. DEFINE a == SubSeq(s, 1, k - 1)
            b == Append(a, s[k])
            d == SubSeq(s, 1, k)
<1>1. k \in Nat /\ k >= 1 /\ k - 1 \in 0..Len(s) /\ k \in 0..Len(s) /\ s[k] \in S
  BY LenProperties, ElementOfSeq
<1>3. /\ a \in Seq(S) /\ Len(a) = k - 1 /\ (\A i \in 1..k - 1 : a[i] = s[i])
      /\ d \in Seq(S) /\ Len(d) = k /\ (\A i \in 1..k : d[i] = s[i])
  BY <1>1, FirstPart
<1>. HIDE DEF a, d
<1>4. /\ b \in Seq(S) /\ Len(b) = k - 1 + 1
      /\ (\A i \in 1..k - 1 : b[i] = a[i]) /\ b[k - 1 + 1] = s[k]
  BY <1>1, <1>3, AppendFacts
<1>. HIDE DEF b
<1>5. ASSUME NEW i \in 1..Len(b) PROVE b[i] = d[i]
  <2>1. CASE i = k
    BY <1>1, <1>3, <1>4, <2>1
  <2>2. CASE i # k
    <3>1. i \in 1..k - 1 /\ i \in 1..k
      BY <1>1, <1>4, <2>2
    <3>. QED  BY <1>3, <1>4, <3>1
  <2>. QED  BY <2>1, <2>2
<1>6. Len(b) = Len(d)
  BY <1>1, <1>3, <1>4
<1>7. b = d
  BY <1>3, <1>4, <1>5, <1>6, SeqEqual
<1>. QED  BY <1>7 DEF a, b, d

LEMMA OpReturnRefines ==
  ASSUME Inv, FramesInv, Inv', OpReturn
  PROVE  StepOK
<1>. DEFINE c == vm.frame_count
            h == Top.ip.height - 1
            w == WithIp(vm, Height(h))
            n == [[w EXCEPT !.frame_count = @ - 1] EXCEPT !.stack_top = Top.slots]
<1>1. /\ InCode /\ Top.function # Script /\ Return(w) /\ result = "running"
      /\ Top.ip.height > Floor(Top.ip)
  BY DEF OpReturn, InCode, Running
<1>2. PICK s : Current(vm, s)
  BY <1>1 DEF FramesInv
<1>3. vm \in Machine /\ c \in Nat /\ s \in 1..c /\ vm.frames[s].function = Script /\ Top = vm.frames[c]
  BY <1>1, <1>2, InCodeFacts, Limits DEF Current, Top, Machine
<1>4. s # c
  BY <1>1, <1>3
<1>5. c - 1 \in 1..c /\ s <= c - 1 /\ c - 1 # 0 /\ c - s \in Nat /\ c - 1 - s + 1 = c - s
  BY <1>3, <1>4
<1>6. h \in 1..HeightMax
  BY <1>1, HeightsFit
<1>. HIDE DEF h
<1>7. /\ w \in Machine /\ w.frame_count = c
      /\ \A i \in 1..c : i # c => w.frames[i] = vm.frames[i]
  BY <1>1, <1>6, HeightFacts
<1>. HIDE DEF w
<1>8. \A i \in 1..c - 1 : w.frames[i] = vm.frames[i]
  <2>1. \A i \in 1..c - 1 : i \in 1..c /\ i # c
    BY <1>3
  <2>. QED  BY <1>7, <2>1
<1>9. PushOn(n)
  <2>1. [w EXCEPT !.frame_count = @ - 1].frame_count = c - 1
    BY <1>7 DEF Machine
  <2>. QED  BY <1>1, <1>5, <2>1 DEF Return
<1>10. n.frames = w.frames /\ n.frame_count = c - 1 /\ DOMAIN n = DOMAIN w
  BY <1>7 DEF Machine
<1>. HIDE DEF n
<1>11. CASE n.stack_top >= StackMax
  <2>1. result' = "exit"
    BY <1>9, <1>11 DEF PushOn
  <2>. QED  BY <1>1, <2>1, StopStep
<1>12. CASE ~ (n.stack_top >= StackMax)
  <2>1. vm' = [n EXCEPT !.stack_top = @ + 1] /\ result' = "running"
    BY <1>9, <1>12 DEF PushOn, Continue
  <2>2. vm'.frames = w.frames /\ vm'.frame_count = c - 1
    BY <1>10, <1>7, <2>1 DEF Machine
  <2>3. Cut(vm, vm', c - 1) /\ vm'.frames[c - 1] = vm.frames[c - 1]
    BY <1>3, <1>5, <1>8, <2>2 DEF Cut
  <2>. DEFINE k == c - s
              l == c - 1
  <2>4. /\ FramesInv' /\ IsRun(vm, s, RunCalls)
        /\ k \in 1..Len(RunCalls) /\ RunCalls[k] = Act(vm.frames[l])
        /\ RunCalls' = Append(SubSeq(RunCalls, 1, k - 1), Act(vm'.frames[l]))
    <3>1. Cut(vm, vm', l) /\ s <= l /\ l - s + 1 = k
      BY <1>5, <2>3
    <3>. HIDE DEF l, k
    <3>2. LET x == l - s + 1 IN
          /\ x \in 1..Len(RunCalls) /\ RunCalls[x] = Act(vm.frames[l])
          /\ RunCalls' = Append(SubSeq(RunCalls, 1, x - 1), Act(vm'.frames[l]))
      BY <1>1, <1>2, <2>1, <3>1, RunStep
    <3>3. FramesInv' /\ IsRun(vm, s, RunCalls)
      BY <1>1, <1>2, <2>1, <3>1, RunStep
    <3>. QED  BY <3>1, <3>2, <3>3
  <2>5. Len(RunCalls) = k + 1 /\ RunCalls \in Seq(Activation)
    BY <1>3, <2>4 DEF IsRun
  <2>6. RunCalls' = SubSeq(RunCalls, 1, k)
    <3>1. RunCalls' = Append(SubSeq(RunCalls, 1, k - 1), RunCalls[k])
      BY <2>3, <2>4
    <3>. DEFINE r == RunCalls
    <3>2. r \in Seq(Activation) /\ k \in 1..Len(r)
      BY <2>4, <2>5
    <3>. HIDE DEF k, r
    <3>3. Append(SubSeq(r, 1, k - 1), r[k]) = SubSeq(r, 1, k)
      BY <3>2, PrefixNext
    <3>. QED  BY <3>1, <3>3 DEF r
  <2>7. RunCalls' = Promise!Front(RunCalls) /\ Len(RunCalls) > 1
    <3>1. Len(RunCalls) - 1 = k /\ Len(RunCalls) > 1
      BY <1>5, <2>4, <2>5
    <3>. HIDE DEF k
    <3>. QED  BY <2>6, <3>1, PromiseSeqs DEF Front
  <2>8. Promise!Return
    BY <1>1, <2>1, <2>7 DEF Promise!Return, Promise!Going
  <2>. QED  BY <2>4, <2>8 DEF StepOK, Promise!Next
<1>. QED  BY <1>11, <1>12

LEMMA OneCall ==
  ASSUME NEW m \in Machine, Current(m, m.frame_count),
         m.frames[m.frame_count].ip.open = <<>>, m.frames[m.frame_count].ip.height = 1
  PROVE  CallsOf(m, "running") = <<[open |-> <<>>, height |-> 1]>>
<1>. DEFINE c == m.frame_count
            a == Act(m.frames[c])
            r == CallsOf(m, "running")
            one == <<a>>
<1>1. c \in 1..c /\ c \in Nat
  BY Limits DEF Current, Machine
<1>2. a = [open |-> <<>>, height |-> 1] /\ a \in Activation
  BY <1>1, ActFacts DEF Act
<1>3. IsRun(m, c, r)
  BY CallsOfRun
<1>. HIDE DEF r
<1>4. r \in Seq(Activation) /\ Len(r) = 1 /\ r[1] = a
  <2>1. r \in Seq(Activation) /\ Len(r) = 1
    BY <1>1, <1>3 DEF IsRun
  <2>2. c + 1 - 1 = c /\ 1 \in 1..Len(r)
    BY <1>1, <2>1
  <2>3. r[1] = Act(m.frames[c + 1 - 1])
    BY <1>3, <2>2 DEF IsRun
  <2>. QED  BY <2>1, <2>2, <2>3
<1>. HIDE DEF a
<1>5. one \in Seq(Activation) /\ Len(one) = 1 /\ one[1] = a
  BY <1>2
<1>. HIDE DEF one
<1>6. \A i \in 1..Len(r) : r[i] = one[i]
  BY <1>4, <1>5
<1>7. r = one
  BY <1>4, <1>5, <1>6, SeqEqual
<1>. QED  BY <1>2, <1>7 DEF r, one

(***************************************************************************)
(* The run is at the end of its script, with nothing called.               *)
(***************************************************************************)
LEMMA FinishStep ==
  ASSUME RunCalls = <<[open |-> <<>>, height |-> 1]>>, result = "running", result' = "ok"
  PROVE  Promise!Finish
<1>. DEFINE a == [open |-> <<>>, height |-> 1]
<1>1. RunCalls' = <<>>
  BY CallsAre, NoCalls
<1>2. Len(RunCalls) = 1 /\ Last(RunCalls) = a
  <2>. HIDE DEF a
  <2>1. RunCalls = <<a>>
    BY DEF a
  <2>2. Len(<<a>>) = 1 /\ <<a>>[1] = a
    OBVIOUS
  <2>. QED  BY <2>1, <2>2 DEF Last
<1>. QED  BY <1>1, <1>2, PromiseSeqs DEF Promise!Finish, Promise!Top, Promise!At, Promise!Stop

LEMMA OpHaltRefines ==
  ASSUME Inv, FramesInv, OpHalt
  PROVE  StepOK
<1>. DEFINE c == vm.frame_count
            p == Staged(vm, "halted")
<1>1. InCode /\ Top.ip = EntryOf(Script) /\ vm' = p /\ result = "running" /\ result' = "ok"
  BY DEF OpHalt, InCode, Running
<1>2. PICK s : Current(vm, s)
  BY <1>1 DEF FramesInv
<1>3. /\ vm \in Machine /\ Good(vm) /\ c \in Nat /\ c > 0 /\ s \in 1..c
      /\ Top = vm.frames[c] /\ Top.ip.code = Top.function
  <2>1. vm \in Machine /\ Good(vm) /\ Top.ip.code = Top.function /\ c \in 1..FramesMax
    BY <1>1, InCodeFacts
  <2>. QED  BY <1>2, <2>1, Limits DEF Current, Top
<1>4. Top.function = Script /\ Top.ip.open = <<>> /\ Top.ip.height = 1
  BY <1>1, <1>3, ControlAssumption DEF EntryOf, At
<1>5. s = c
  <2>1. ~ (c \in s + 1..c)
    BY <1>2, <1>3, <1>4 DEF Current
  <2>. QED  BY <1>3, <2>1
<1>6. RunCalls = <<[open |-> <<>>, height |-> 1]>>
  <2>1. CallsOf(vm, "running") = <<[open |-> <<>>, height |-> 1]>>
    BY <1>2, <1>3, <1>4, <1>5, OneCall
  <2>. QED  BY <1>1, <2>1, CallsAre
<1>7. /\ p.frame_count = c
      /\ \A i \in 1..c :
           /\ p.frames[i].ip.open = vm.frames[i].ip.open
           /\ p.frames[i].ip.height = vm.frames[i].ip.height
           /\ p.frames[i].function = vm.frames[i].function
  <2>1. vm.frames[c].ip.open = <<>>
    BY <1>3, <1>4
  <2>. QED  BY <1>3, <2>1, StagedFacts
<1>. HIDE DEF p
<1>8. \A i \in 1..c : Halted(vm.frames[i])
  <2>. TAKE i \in 1..c
  <2>1. CASE i = c
    BY <1>3, <1>4, <2>1 DEF Halted
  <2>2. CASE i # c
    <3>1. i \in 1..s - 1
      BY <1>3, <1>5, <2>2
    <3>. QED  BY <1>2, <3>1 DEF Current
  <2>. QED  BY <2>1, <2>2
<1>9. \A i \in 1..c : Halted(p.frames[i])
  BY <1>7, <1>8 DEF Halted
<1>10. FramesInv'
  BY <1>1, <1>7, <1>9 DEF FramesInv
<1>11. Promise!Finish
  BY <1>1, <1>6, FinishStep
<1>. QED  BY <1>10, <1>11 DEF StepOK, Promise!Next

LEMMA PastHaltRefines ==
  ASSUME Inv, FramesInv, Inv', PastHalt
  PROVE  StepOK
<1>. DEFINE c == vm.frame_count
            m == [vm EXCEPT !.stack_top = @ + 1]
            n == [[m EXCEPT !.frame_count = @ - 1] EXCEPT !.stack_top = Top.slots]
<1>1. result = "running" /\ Top.ip.stage = "halted"
  BY DEF PastHalt, Running
<1>2. PICK s : Current(vm, s)
  BY <1>1 DEF FramesInv
<1>3. vm \in Machine /\ vm' \in Machine /\ c \in Nat /\ s \in 1..c /\ Top = vm.frames[c]
  BY <1>2, Limits DEF Inv, Good, Current, Top, Machine
<1>4. s = c
  <2>1. ~ (c \in s + 1..c)
    BY <1>1, <1>2, <1>3 DEF Current
  <2>. QED  BY <1>3, <2>1
<1>5. Halted(Top) /\ \A i \in 1..c - 1 : Halted(vm.frames[i])
  BY <1>1, <1>2, <1>3, <1>4 DEF Current
<1>6. RunCalls = <<[open |-> <<>>, height |-> 1]>>
  <2>1. CallsOf(vm, "running") = <<[open |-> <<>>, height |-> 1]>>
    BY <1>2, <1>3, <1>4, <1>5, OneCall DEF Halted
  <2>. QED  BY <1>1, <2>1, CallsAre
<1>7. CASE vm.stack_top >= StackMax
  BY <1>1, <1>7, StopStep DEF PastHalt
<1>8. CASE ~ (vm.stack_top >= StackMax)
  <2>1. Return(m) /\ m.frame_count = c /\ m.frames = vm.frames /\ DOMAIN m = DOMAIN vm
    BY <1>3, <1>8 DEF PastHalt, Machine
  <2>. DEFINE back == [m EXCEPT !.frame_count = @ - 1]
  <2>2. /\ back.frame_count = c - 1 /\ back.frames = vm.frames /\ DOMAIN back = DOMAIN vm
        /\ n.frame_count = c - 1 /\ n.frames = vm.frames /\ DOMAIN n = DOMAIN vm
    <3>. HIDE DEF m
    <3>. QED  BY <1>3, <2>1 DEF Machine
  <2>3. IF c - 1 = 0
        THEN vm' = [back EXCEPT !.stack_top = @ - 2] /\ result' = "ok"
        ELSE PushOn(n)
    <3>1. IF back.frame_count = 0
          THEN vm' = [back EXCEPT !.stack_top = @ - 2] /\ result' = "ok"
          ELSE PushOn(n)
      <4>. HIDE DEF m
      <4>. QED  BY <2>1 DEF Return
    <3>. HIDE DEF back, n
    <3>. QED  BY <2>2, <3>1
  <2>. HIDE DEF back, n
  <2>4. CASE c - 1 = 0
    <3>1. vm' = [back EXCEPT !.stack_top = @ - 2] /\ result' = "ok"
      BY <2>3, <2>4
    <3>2. vm'.frame_count = 0
      BY <1>3, <2>2, <2>4, <3>1 DEF Machine
    <3>3. FramesInv'
      BY <3>1, <3>2 DEF FramesInv
    <3>4. Promise!Finish
      BY <1>1, <1>6, <3>1, FinishStep
    <3>. QED  BY <3>3, <3>4 DEF StepOK, Promise!Next
  <2>5. CASE c - 1 # 0 /\ n.stack_top >= StackMax
    <3>1. result' = "exit"
      BY <2>3, <2>5 DEF PushOn
    <3>. QED  BY <1>1, <3>1, StopStep
  <2>6. CASE c - 1 # 0 /\ ~ (n.stack_top >= StackMax)
    <3>1. vm' = [n EXCEPT !.stack_top = @ + 1] /\ result' = "running"
      BY <2>3, <2>6 DEF PushOn, Continue
    <3>2. vm'.frames = vm.frames /\ vm'.frame_count = c - 1
      BY <1>3, <2>2, <3>1 DEF Machine
    <3>3. c - 1 \in 1..c - 1 /\ Halted(vm'.frames[c - 1])
      BY <1>3, <1>5, <2>6, <3>2
    <3>4. Current(vm', vm'.frame_count)
      <4>1. \A i \in 1..(c - 1) - 1 : i \in 1..c - 1
        BY <1>3
      <4>2. \A i \in (c - 1) + 1..c - 1 : FALSE
        BY <1>3
      <4>. QED  BY <1>5, <3>2, <3>3, <4>1, <4>2 DEF Current, Halted
    <3>5. RunCalls' = <<[open |-> <<>>, height |-> 1]>>
      <4>. DEFINE v == vm'
      <4>1. /\ v \in Machine /\ Current(v, v.frame_count)
            /\ v.frames[v.frame_count].ip.open = <<>> /\ v.frames[v.frame_count].ip.height = 1
        BY <1>3, <3>2, <3>3, <3>4 DEF Halted
      <4>. HIDE DEF v
      <4>2. CallsOf(v, "running") = <<[open |-> <<>>, height |-> 1]>>
        BY <4>1, OneCall
      <4>. QED  BY <3>1, <4>2, CallsAre DEF v
    <3>6. FramesInv'
      BY <3>1, <3>4 DEF FramesInv
    <3>7. UNCHANGED <<RunCalls, result>>
      BY <1>1, <1>6, <3>1, <3>5
    <3>. QED  BY <3>6, <3>7 DEF StepOK
  <2>. QED  BY <2>4, <2>5, <2>6
<1>. QED  BY <1>7, <1>8

(***************************************************************************)
(* A run begins on a machine with none but ended scripts, in a frame of    *)
(* its own or, when there is none, after the halt of the last script.      *)
(***************************************************************************)
Begun(m) ==
  IF m.frame_count >= FramesMax THEN m
  ELSE [m EXCEPT !.frame_count = @ + 1,
                 !.frames[m.frame_count + 1] = Frame(Script, m.stack_top)]

LEMMA BeginRun ==
  ASSUME NEW m \in Machine, \A i \in 1..m.frame_count : Halted(m.frames[i])
  PROVE  /\ DOMAIN Begun(m) = DOMAIN m
         /\ Begun(m).frame_count > 0
         /\ \A i \in 1..Begun(m).frame_count : Halted(Begun(m).frames[i])
<1>. DEFINE c == m.frame_count
            f == Frame(Script, m.stack_top)
            p == Begun(m)
<1>1. c \in 0..FramesMax /\ c \in Nat /\ FramesMax > 0
  BY Limits DEF Machine
<1>2. CASE c >= FramesMax
  <2>1. p = m
    BY <1>2 DEF Begun
  <2>2. c > 0
    <3>. HIDE DEF c
    <3>. QED  BY <1>1, <1>2, Limits
  <2>. QED  BY <2>1, <2>2
<1>3. CASE ~ (c >= FramesMax)
  <2>1. Halted(f)
    BY ControlAssumption DEF Frame, EntryOf, At, Halted
  <2>2. p = [m EXCEPT !.frame_count = c + 1, !.frames[c + 1] = f]
    BY <1>3 DEF Begun
  <2>. HIDE DEF f, p
  <2>3. p.frame_count = c + 1 /\ p.frames = [m.frames EXCEPT ![c + 1] = f] /\ DOMAIN p = DOMAIN m
    BY <2>2 DEF Machine
  <2>4. c + 1 \in 1..FramesMax /\ DOMAIN m.frames = 1..FramesMax
    <3>1. c + 1 \in 1..FramesMax
      <4>. HIDE DEF c
      <4>. QED  BY <1>1, <1>3, Limits
    <3>. QED  BY <3>1 DEF Machine
  <2>5. ASSUME NEW i \in 1..c + 1 PROVE Halted(p.frames[i])
    <3>1. CASE i = c + 1
      BY <2>1, <2>3, <2>4, <3>1
    <3>2. CASE i # c + 1
      <4>1. i \in 1..c
        BY <1>1, <3>2
      <4>2. i \in 1..FramesMax
        <5>. HIDE DEF c
        <5>. QED  BY <1>1, <4>1, Limits
      <4>3. p.frames[i] = m.frames[i]
        BY <2>3, <2>4, <3>2, <4>2
      <4>. QED  BY <4>1, <4>3
    <3>. QED  BY <3>1, <3>2
  <2>6. p.frame_count > 0
    <3>. HIDE DEF c
    <3>. QED  BY <1>1, <2>3
  <2>7. \A i \in 1..p.frame_count : Halted(p.frames[i])
    <3>. HIDE DEF c
    <3>. QED  BY <2>3, <2>5
  <2>. QED  BY <2>3, <2>6, <2>7 DEF p
<1>. QED  BY <1>2, <1>3

LEMMA RunVMRefines ==
  ASSUME RunInv, FramesInv, Inv', Hosts \subseteq {"repl", "test"}, RunVM
  PROVE  StepOK
<1>1. PICK host \in Hosts : PushOn(Begun(Ready(host)))
  BY DEF RunVM, Begun
<1>. DEFINE m == Ready(host)
            p == Begun(m)
<1>2. m \in Machine /\ vm \in Machine /\ result \in {"ok", "uncaught", "refused"}
  BY ReadyFacts DEF RunVM, RunInv, Inv, Good
<1>3. \A i \in 1..m.frame_count : Halted(m.frames[i])
  <2>1. CASE m = vm /\ result = "ok"
    BY <2>1 DEF FramesInv
  <2>2. CASE ~ (m = vm /\ result = "ok")
    <3>1. host = "test" \/ (host = "repl" /\ result \in {"uncaught", "refused"})
      <4>1. host \in {"repl", "test"}
        OBVIOUS
      <4>2. CASE host = "repl" /\ result = "ok"
        BY <2>2, <4>2 DEF Ready
      <4>. QED  BY <1>2, <4>1, <4>2
    <3>2. m.frame_count = 0
      BY <1>2, <3>1 DEF Ready, Machine
    <3>. QED  BY <3>2
  <2>. QED  BY <2>1, <2>2
<1>. HIDE DEF m
<1>4. PushOn(p)
  BY <1>1 DEF m
<1>5. /\ DOMAIN p = DOMAIN m /\ p.frame_count > 0
      /\ \A i \in 1..p.frame_count : Halted(p.frames[i])
  BY <1>2, <1>3, BeginRun
<1>. HIDE DEF p
<1>6. RunCalls = <<>> /\ result # "running"
  BY <1>2, CallsAre, NoCalls
<1>7. CASE result' = "exit"
  <2>1. RunCalls' = <<>>
    BY <1>7, CallsAre, NoCalls
  <2>2. FramesInv'
    BY <1>7 DEF FramesInv
  <2>3. Promise!Abort
    BY <1>6, <1>7, <2>1 DEF Promise!Abort
  <2>. QED  BY <2>2, <2>3 DEF StepOK, Promise!Next
<1>8. CASE vm' = [p EXCEPT !.stack_top = @ + 1] /\ result' = "running"
  <2>. DEFINE v == vm'
  <2>1. v \in Machine /\ v.frames = p.frames /\ v.frame_count = p.frame_count
    <3>1. vm' \in Machine
      BY DEF Inv, Good
    <3>. QED  BY <1>2, <1>5, <1>8, <3>1 DEF Machine
  <2>. HIDE DEF v
  <2>2. v.frame_count \in Nat /\ v.frame_count > 0 /\ \A i \in 1..v.frame_count : Halted(v.frames[i])
    BY <1>5, <2>1, Limits DEF Machine
  <2>3. Current(v, v.frame_count) /\ Halted(v.frames[v.frame_count])
    <3>1. v.frame_count \in 1..v.frame_count
      BY <2>2
    <3>2. \A i \in 1..v.frame_count - 1 : i \in 1..v.frame_count
      BY <2>2
    <3>3. \A i \in v.frame_count + 1..v.frame_count : FALSE
      BY <2>2
    <3>. QED  BY <2>2, <3>1, <3>2, <3>3 DEF Current, Halted
  <2>4. CallsOf(v, "running") = <<[open |-> <<>>, height |-> 1]>>
    BY <2>1, <2>3, OneCall DEF Halted
  <2>5. RunCalls' = <<[open |-> <<>>, height |-> 1]>>
    BY <1>8, <2>4, CallsAre DEF v
  <2>6. FramesInv'
    BY <1>8, <2>3 DEF FramesInv, v
  <2>7. Promise!Start
    BY <1>6, <1>8, <2>5 DEF Promise!Start, Promise!At
  <2>. QED  BY <2>6, <2>7 DEF StepOK, Promise!Next
<1>. QED  BY <1>4, <1>7, <1>8 DEF PushOn, Continue

-----------------------------------------------------------------------------
(* The refinement. *)

LEMMA InitRefines ==
  Init => RunInv /\ FramesInv /\ Promise!Init
<1>. SUFFICES ASSUME Init PROVE RunInv /\ FramesInv /\ Promise!Init
  OBVIOUS
<1>1. vm.try_stack = <<>> /\ vm.frame_count = 0 /\ result = "ok"
  BY DEF Init, NewVM
<1>2. RunInv
  BY <1>1, InitInv DEF RunInv
<1>3. FramesInv
  BY <1>1 DEF FramesInv
<1>4. RunCalls = <<>>
  BY <1>1, CallsAre, NoCalls
<1>. QED  BY <1>1, <1>2, <1>3, <1>4 DEF Promise!Init

LEMMA StepRefines ==
  ASSUME RunInv, FramesInv, ~ LeavesTry, ~ ThrowsDirectly, Hosts \subseteq {"repl", "test"},
         [Next]_vars
  PROVE  FramesInv' /\ [Promise!Next]_(Promise!vars)
<1>1. Inv /\ Inv'
  BY NextInv DEF RunInv
<1>2. CASE UNCHANGED vars
  <2>1. vm' = vm /\ result' = result
    BY <1>2 DEF vars
  <2>2. RunCalls' = RunCalls
    BY <2>1, CallsAre
  <2>3. FramesInv'
    BY <2>1 DEF FramesInv
  <2>. QED  BY <2>1, <2>2, <2>3 DEF Promise!vars
<1>3. SUFFICES ASSUME Next PROVE StepOK
  BY <1>2 DEF StepOK, Promise!vars
<1>4. CASE RunVM
  BY <1>1, <1>4, RunVMRefines
<1>5. CASE Next /\ ~ RunVM
  <2>1. result = "running"
    <3>1. CASE ~ Running
      <4>1. ~ InCode
        BY <3>1 DEF InCode
      <4>. QED  BY <1>5, <3>1, <4>1
           DEF Next, Push, Pop, OpTry, OpTryEnd, OpThrow, ThrowError, JumpOutOfTry, Calls,
               OpCall, CallNative, NativeError, NativeThrows, OpReturn, OpHalt, PastHalt
    <3>2. CASE Running
      BY <3>2 DEF Running
    <3>. QED  BY <3>1, <3>2
  <2>2. Own(vm)
    BY <2>1 DEF RunInv
  <2>3. CASE Push \/ Pop \/ OpTry \/ OpTryEnd
    BY <1>1, <2>3, PushRefines, PopRefines, OpTryRefines, OpTryEndRefines
  <2>4. CASE OpThrow \/ ThrowError \/ \E argc \in 0..HeightMax : NativeError(argc)
    BY <1>1, <2>2, <2>4, ErrorRefines
  <2>5. CASE \E argc \in 0..HeightMax : \E f \in Function \ {Script} : OpCall(f, argc)
    BY <1>1, <2>5, OpCallRefines
  <2>6. CASE \E argc \in 0..HeightMax : CallNative(argc)
    BY <1>1, <2>6, NativeRefines
  <2>7. CASE OpReturn \/ OpHalt \/ PastHalt
    BY <1>1, <2>7, OpReturnRefines, OpHaltRefines, PastHaltRefines
  <2>8. ~ JumpOutOfTry /\ ~ NativeThrows
    BY DEF JumpOutOfTry, NativeThrows
  <2>. QED  BY <1>5, <2>3, <2>4, <2>5, <2>6, <2>7, <2>8 DEF Next
<1>. QED  BY <1>3, <1>4, <1>5

(* ImplementsTryCatch: frames and handlers do what functions, try and catch  *)
(* promise.  throwError hands an error to the innermost try body of the      *)
(* latest activation of the run in progress that is in one, takes away the   *)
(* activations after it, and is uncaught only when no activation of this run *)
(* is in a try body, whatever earlier runs have left on the machine.         *)
THEOREM Refinement ==
  ASSUME ~ LeavesTry, ~ ThrowsDirectly, Hosts \subseteq {"repl", "test"}
  PROVE  Spec => ImplementsTryCatch
<1>1. RunInv /\ FramesInv /\ [Next]_vars => (RunInv /\ FramesInv)'
  BY RunInvNext, StepRefines
<1>2. RunInv /\ FramesInv /\ [Next]_vars => [Promise!Next]_(Promise!vars)
  BY StepRefines
<1>3. Spec => Promise!Init /\ [][Promise!Next]_(Promise!vars)
  BY <1>1, <1>2, InitRefines, PTL DEF Spec
<1>. QED  BY <1>3 DEF ImplementsTryCatch, Promise!Spec
=============================================================================
