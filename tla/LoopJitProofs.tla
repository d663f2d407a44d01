--------------------------- MODULE LoopJitProofs ----------------------------
(***************************************************************************)
(* The theorems about compiled loops, for all bounds, steps, constants and *)
(* variables, every way of rounding, and every size of the cache.  The     *)
(* inductive invariant is in three parts: the shape of the state, the      *)
(* cache, and how the registers and the variables correspond to those of   *)
(* the loop as bytecode.                                                   *)
(***************************************************************************)
EXTENDS LoopJit, FiniteSetTheorems, SequenceTheorems, TLAPS

-----------------------------------------------------------------------------
(***************************************************************************)
(* Loops and numbers.                                                      *)
(***************************************************************************)
GoodSpec(s) ==
  /\ s.start \in Number /\ s.stop \in Number
  /\ s.step \in Ordered /\ s.step \in Int /\ s.step # 0
  /\ s.body \in Seq(Line) /\ Len(s.body) \in 0..BodyMax
  /\ DOMAIN s.body = 1..Len(s.body)
  /\ \A n \in 1..Len(s.body) : s.body[n] \in Line

LEMMA SpecsAreGood ==
  ASSUME NEW s \in Specs
  PROVE  GoodSpec(s)
<1>1. PICK n \in 0..BodyMax : s \in [start : Bounds, stop : Bounds, step : Steps, body : [1..n -> Line]]
  BY DEF Specs
<1>3. s.body \in Seq(Line) /\ Len(s.body) = n
  BY <1>1, SizesAssumption
<1>4. DOMAIN s.body = 1..n /\ \A m \in 1..n : s.body[m] \in Line
  BY <1>1
<1>5. /\ s.start \in Number /\ s.stop \in Number
      /\ s.step \in Ordered /\ s.step \in Int /\ s.step # 0
  BY <1>1, NumbersAssumption DEF Number
<1>. QED  BY <1>1, <1>3, <1>4, <1>5 DEF GoodSpec

\* A loop that has code.
Small(s) == s \in Specs /\ Len(s.body) <= NativeMax

(***************************************************************************)
(* The key of a loop says all that its code depends on.                    *)
(***************************************************************************)
LEMMA KeyTellsCode ==
  ASSUME NEW s, NEW t, Small(s), Small(t), jitKeyFromSpec(s) = jitKeyFromSpec(t)
  PROVE  Code(s) = Code(t)
<1>1. GoodSpec(s) /\ GoodSpec(t)
  BY SpecsAreGood DEF Small
<1>2. Len(s.body) \in 0..5 /\ Len(t.body) \in 0..5
  <2>1. Len(s.body) \in Nat /\ Len(t.body) \in Nat
    BY <1>1, SizesAssumption DEF GoodSpec
  <2>2. Len(s.body) <= NativeMax /\ Len(t.body) <= NativeMax
    BY DEF Small
  <2>3. \A m \in Nat : m <= NativeMax => m \in 0..5
    BY SizesAssumption
  <2>. QED  BY <2>1, <2>2, <2>3
<1>3. (s.step > 0) = (t.step > 0) /\ Len(s.body) % 8 = Len(t.body) % 8
  BY DEF jitKeyFromSpec
<1>4. Len(s.body) = Len(t.body)
  <2>1. \A m \in 0..5 : m % 8 = m
    OBVIOUS
  <2>. QED  BY <1>2, <1>3, <2>1
<1>5. MinOf(Len(s.body), 5) = Len(s.body)
  <2>1. \A m \in 0..5 : MinOf(m, 5) = m
    BY DEF MinOf
  <2>. QED  BY <1>2, <2>1
<1>6. [n \in 1..Len(s.body) |-> s.body[n].op = "mul"] = [n \in 1..Len(s.body) |-> t.body[n].op = "mul"]
  BY <1>4, <1>5 DEF jitKeyFromSpec
<1>7. ASSUME NEW n \in 1..Len(s.body)
      PROVE  s.body[n].op = t.body[n].op
  <2>1. s.body[n].op \in {"add", "mul"} /\ t.body[n].op \in {"add", "mul"}
    BY <1>1, <1>4, <1>7 DEF GoodSpec, Line
  <2>2. (s.body[n].op = "mul") = (t.body[n].op = "mul")
    BY <1>6, <1>7
  <2>. QED  BY <2>1, <2>2
<1>. QED  BY <1>3, <1>4, <1>7 DEF Code

-----------------------------------------------------------------------------
(***************************************************************************)
(* The cache: each entry is the code of a loop with the entry's key, and   *)
(* entries are lost only when it is full.                                  *)
(***************************************************************************)
Native == {"call", "load", "top", "body", "store"}

CacheOK ==
  /\ IsFiniteSet(cache) /\ Cardinality(cache) <= CacheSize
  /\ \A e \in cache : \E s : Small(s) /\ e = [key |-> jitKeyFromSpec(s), fn |-> Code(s)]
  /\ pc # "idle" => spec \in Specs
  /\ pc \in Native => Small(spec) /\ fn = Code(spec)
  /\ lost => Cardinality(cache) = CacheSize

\* Code that is found is the code of the loop.
LEMMA FoundFits ==
  ASSUME CacheOK, Small(spec), NEW code \in jitCacheFind(jitKeyFromSpec(spec))
  PROVE  code = Code(spec)
<1>1. PICK e \in cache : e.key = jitKeyFromSpec(spec) /\ code = e.fn
  BY DEF jitCacheFind
<1>2. PICK s : Small(s) /\ e = [key |-> jitKeyFromSpec(s), fn |-> Code(s)]
  BY DEF CacheOK
<1>. QED  BY <1>1, <1>2, KeyTellsCode

LEMMA CacheBuild == CacheOK /\ pc # "idle" /\ Build => CacheOK'
<1>. SUFFICES ASSUME CacheOK, pc # "idle", Build PROVE CacheOK'
  OBVIOUS
<1>. DEFINE entry == [key |-> jitKeyFromSpec(spec), fn |-> Code(spec)]
<1>1. Small(spec)
  BY DEF CacheOK, Build, Missed, Small, N
<1>2. entry \notin cache
  BY DEF Build, Missed, jitCacheFind
<1>3. CASE Cardinality(cache) < CacheSize
  <2>1. cache' = cache \cup {entry}
    BY <1>3 DEF Build, jitCacheStore
  <2>2. IsFiniteSet(cache') /\ Cardinality(cache') = Cardinality(cache) + 1 /\ Cardinality(cache) \in Nat
    BY <1>2, <2>1, FS_AddElement, FS_CardinalityType DEF CacheOK
  <2>3. ~ lost'
    <3>1. cache' # cache
      BY <1>2, <2>1
    <3>2. ~ lost
      BY <1>3, <2>2, SizesAssumption DEF CacheOK
    <3>. QED  BY <3>1, <3>2 DEF Build
  <2>4. Cardinality(cache') <= CacheSize
    BY <1>3, <2>2, SizesAssumption
  <2>5. \A e \in cache' : \E s : Small(s) /\ e = [key |-> jitKeyFromSpec(s), fn |-> Code(s)]
    BY <1>1, <2>1 DEF CacheOK
  <2>6. spec' = spec /\ fn' = Code(spec) /\ pc' = "call"
    BY DEF Build
  <2>. QED  BY <1>1, <2>2, <2>3, <2>4, <2>5, <2>6 DEF CacheOK, Small, Code
<1>4. CASE ~ (Cardinality(cache) < CacheSize)
  <2>1. cache' = cache
    BY <1>4 DEF Build, jitCacheStore
  <2>2. Cardinality(cache) = CacheSize
    BY <1>4, FS_CardinalityType, SizesAssumption DEF CacheOK
  <2>3. spec' = spec /\ fn' = Code(spec) /\ pc' = "call"
    BY DEF Build
  <2>. QED  BY <1>1, <2>1, <2>2, <2>3 DEF CacheOK, Small, Code
<1>. QED  BY <1>3, <1>4

LEMMA CacheInit == Init => CacheOK
<1>. SUFFICES ASSUME Init PROVE CacheOK
  OBVIOUS
<1>1. IsFiniteSet(cache) /\ Cardinality(cache) = 0
  BY FS_EmptySet DEF Init
<1>. QED  BY <1>1, SizesAssumption DEF Init, CacheOK, Native

LEMMA CacheStep == CacheOK /\ [Next]_vars => CacheOK'
<1>. SUFFICES ASSUME CacheOK, [Next]_vars PROVE CacheOK'
  OBVIOUS
<1>. USE DEF CacheOK, Native, Small
<1>1. CASE Enter
  BY <1>1 DEF Enter
<1>2. CASE TooManyVars
  BY <1>2 DEF TooManyVars, Fallback
<1>3. CASE Hit
  <2>1. Small(spec)
    BY <1>3 DEF Hit, N
  <2>2. fn' = Code(spec)
    BY <1>3, <2>1, FoundFits DEF Hit
  <2>. QED  BY <1>3, <2>1, <2>2 DEF Hit, Code
<1>4. CASE NoPage
  BY <1>4 DEF NoPage, Missed, Fallback
<1>5. CASE Build
  <2>1. pc # "idle"
    BY <1>5 DEF Build, Missed
  <2>. QED  BY <1>5, <2>1, CacheBuild
<1>6. CASE Call
  BY <1>6 DEF Call, Code
<1>7. CASE Loads
  BY <1>7 DEF Loads, Emitted, Goto, Code
<1>8. CASE Top
  BY <1>8 DEF Top, Code
<1>9. CASE Body
  BY <1>9 DEF Body, Emitted, Goto, Code
<1>10. CASE Stores
  BY <1>10 DEF Stores, Emitted, Goto, Code
<1>11. CASE Turn
  BY <1>11 DEF Turn
<1>12. CASE Statement
  BY <1>12 DEF Statement
<1>13. CASE Return
  BY <1>13 DEF Return
<1>14. CASE UNCHANGED vars
  BY <1>14 DEF vars, Code
<1>. QED  BY <1>1, <1>2, <1>3, <1>4, <1>5, <1>6, <1>7, <1>8, <1>9, <1>10, <1>11, <1>12,
             <1>13, <1>14 DEF Next, Step

LEMMA CacheAlways == Spec => []CacheOK
  BY CacheInit, CacheStep, PTL DEF Spec

(***************************************************************************)
(* The code that runs is the code that would be built for the loop, how    *)
(* many loops ever there were.                                             *)
(***************************************************************************)
THEOREM CodeFitsTheorem == Spec => []CodeFits
<1>1. CacheOK => CodeFits
  BY DEF CacheOK, CodeFits, Native
<1>. QED  BY <1>1, CacheAlways, PTL

(***************************************************************************)
(* No page is lost while the cache has room.                               *)
(***************************************************************************)
THEOREM KeptPagesTheorem == Spec => []KeptPages
<1>1. CacheOK => KeptPages
  BY DEF CacheOK, KeptPages
<1>. QED  BY <1>1, CacheAlways, PTL

-----------------------------------------------------------------------------
(***************************************************************************)
(* What the code's operations and the registers come down to.              *)
(***************************************************************************)
LEMMA ApplyType ==
  ASSUME NEW op, NEW x \in Number, NEW d \in Ordered
  PROVE  Apply(op, x, d) \in Number
BY ArithmeticAssumption DEF Apply, Number

LEMMA PlusType ==
  ASSUME NEW x \in Number, NEW d \in Ordered
  PROVE  Plus(x, d) \in Number /\ Plus(NaN, d) = NaN
BY ArithmeticAssumption DEF Number

LEMMA SmallNumbers == 0 \in Number /\ NaN \in Number
<1>1. 0 \in -Exact .. Exact
  BY NumbersAssumption
<1>. QED  BY <1>1, NumbersAssumption DEF Number

\* The loop as bytecode: its test, a statement, and the end of a turn.
MirrorState == [slots : [Vars -> Number], counter : Number, same : BOOLEAN]

LEMMA TestedFacts ==
  ASSUME mirror \in MirrorState, NEW going \in BOOLEAN
  PROVE  /\ Tested(going) \in MirrorState
         /\ Tested(going).slots = mirror.slots /\ Tested(going).counter = mirror.counter
         /\ Tested(going).same = (mirror.same /\ (going = Going(mirror.counter, spec)))
<1>. DEFINE fits == mirror.same /\ (going = Going(mirror.counter, spec))
<1>1. Tested(going) = [mirror EXCEPT !.same = fits]
  BY DEF Tested
<1>2. fits \in BOOLEAN
  OBVIOUS
<1>. HIDE DEF fits
<1>3. Tested(going) = [slots |-> mirror.slots, counter |-> mirror.counter, same |-> fits]
  BY <1>1 DEF MirrorState
<1>4. Tested(going) \in MirrorState
  BY <1>2, <1>3 DEF MirrorState
<1>. QED  BY <1>3, <1>4 DEF fits

LEMMA TurnedFacts ==
  ASSUME mirror \in MirrorState, GoodSpec(spec)
  PROVE  /\ Turned \in MirrorState
         /\ Turned.slots = mirror.slots /\ Turned.same = mirror.same
         /\ Turned.counter = Plus(mirror.counter, spec.step)
<1>. DEFINE next == Plus(mirror.counter, spec.step)
<1>1. next \in Number
  BY PlusType DEF MirrorState, GoodSpec
<1>2. Turned = [mirror EXCEPT !.counter = next]
  BY DEF Turned
<1>. HIDE DEF next
<1>3. Turned = [slots |-> mirror.slots, counter |-> next, same |-> mirror.same]
  BY <1>2 DEF MirrorState
<1>4. Turned \in MirrorState
  BY <1>1, <1>3 DEF MirrorState
<1>. QED  BY <1>3, <1>4 DEF next

LEMMA MirroredFacts ==
  ASSUME mirror \in MirrorState, GoodSpec(spec), NEW n \in 1..N
  PROVE  /\ Mirrored(n) \in MirrorState /\ Mirrored(n).same = mirror.same
         /\ spec.body[n].var # LoopVar =>
              /\ Mirrored(n).counter = mirror.counter
              /\ Mirrored(n).slots = [mirror.slots EXCEPT ![spec.body[n].var] = Apply(spec.body[n].op, @, spec.body[n].delta)]
<1>. DEFINE var == spec.body[n].var
            op == spec.body[n].op
            delta == spec.body[n].delta
<1>1. var \in Vars /\ delta \in Ordered
  BY NumbersAssumption DEF GoodSpec, Line, N
<1>2. CASE var # LoopVar
  <2>. DEFINE after == [mirror.slots EXCEPT ![var] = Apply(op, @, delta)]
  <2>1. mirror.slots \in [Vars -> Number]
    BY DEF MirrorState
  <2>2. Apply(op, mirror.slots[var], delta) \in Number
    BY <1>1, <2>1, ApplyType
  <2>3. after \in [Vars -> Number]
    BY <1>1, <2>1, <2>2
  <2>4. Mirrored(n) = [mirror EXCEPT !.slots = after]
    BY <1>2, Zenon DEF Mirrored
  <2>. HIDE DEF after
  <2>5. Mirrored(n) = [slots |-> after, counter |-> mirror.counter, same |-> mirror.same]
    BY <2>4 DEF MirrorState
  <2>6. Mirrored(n) \in MirrorState
    BY <2>3, <2>5 DEF MirrorState
  <2>. QED  BY <2>5, <2>6 DEF after
<1>3. CASE var = LoopVar
  <2>. DEFINE next == Apply(op, mirror.counter, delta)
  <2>1. next \in Number
    BY <1>1, ApplyType DEF MirrorState
  <2>2. Mirrored(n) = [mirror EXCEPT !.counter = next]
    BY <1>3 DEF Mirrored
  <2>. HIDE DEF next
  <2>3. Mirrored(n) = [slots |-> mirror.slots, counter |-> next, same |-> mirror.same]
    BY <2>2 DEF MirrorState
  <2>4. Mirrored(n) \in MirrorState
    BY <2>1, <2>3 DEF MirrorState
  <2>. QED  BY <1>3, <2>3, <2>4
<1>. QED  BY <1>2, <1>3

LEMMA CodeFacts ==
  ASSUME CacheOK, pc \in Native
  PROVE  /\ GoodSpec(spec) /\ N \in 0..5 /\ N <= BodyMax
         /\ Len(fn.ops) = N /\ fn.up = (spec.step > 0)
         /\ \A n \in 1..N : fn.ops[n] = spec.body[n].op
<1>1. Small(spec) /\ fn = Code(spec) /\ GoodSpec(spec)
  BY SpecsAreGood DEF CacheOK, Small
<1>2. N \in Nat /\ N <= NativeMax /\ N <= BodyMax
  BY <1>1, SizesAssumption DEF Small, GoodSpec, N
<1>3. \A m \in Nat : m <= NativeMax => m \in 0..5
  BY SizesAssumption
<1>4. fn.ops = [n \in 1..N |-> spec.body[n].op] /\ fn.up = (spec.step > 0)
  BY <1>1 DEF Code, N
<1>5. \A n \in 1..N : spec.body[n].op \in {"add", "mul"}
  BY <1>1 DEF GoodSpec, Line, N
<1>6. fn.ops \in [1..N -> {"add", "mul"}]
  BY <1>4, <1>5
<1>. QED  BY <1>1, <1>2, <1>3, <1>4, <1>6

-----------------------------------------------------------------------------
(***************************************************************************)
(* The shape of the state.                                                 *)
(***************************************************************************)
Loaded == {"load", "top", "body", "store"}

Shape ==
  /\ pc \in {"idle", "run", "call", "load", "top", "body", "store", "fallback", "statement", "done"}
  /\ slots \in [Vars -> Number]
  /\ counter \in Number
  /\ mirror \in MirrorState
  /\ xmm \in [Registers -> Number]
  /\ k \in 1..N + 1
  /\ pc = "idle" => spec = NoSpec

\* What the code finds in its registers.
Registered ==
  pc \in Loaded =>
    /\ xmm[0] = spec.stop /\ xmm[1] = spec.step
    /\ \A n \in 1..N : xmm[delta_xmm(n)] = spec.body[n].delta

ShapeInv == Shape /\ Registered

LEMMA ShapeInit == Init => ShapeInv
<1>. SUFFICES ASSUME Init PROVE ShapeInv
  OBVIOUS
<1>1. slots \in [Vars -> Number]
  BY NumbersAssumption DEF Init, Number
<1>2. N = 0
  BY DEF Init, N, NoSpec
<1>. QED  BY <1>1, <1>2, SmallNumbers DEF Init, ShapeInv, Shape, Registered, Loaded, NoMirror, NoRegisters,
             NoSpec, MirrorState

LEMMA ShapeEnter == ShapeInv /\ Enter => ShapeInv'
<1>. SUFFICES ASSUME ShapeInv, Enter PROVE ShapeInv'
  OBVIOUS
<1>1. PICK s \in Specs : spec' = s /\ counter' = s.start /\ mirror' = [slots |-> slots, counter |-> s.start, same |-> TRUE]
  BY DEF Enter
<1>2. GoodSpec(s)
  BY SpecsAreGood
<1>3. N = 0 /\ k = 1 /\ N' \in Nat
  BY <1>1, <1>2 DEF ShapeInv, Enter, Shape, N, NoSpec, GoodSpec
<1>4. mirror' \in MirrorState
  BY <1>1, <1>2 DEF MirrorState, GoodSpec, ShapeInv, Shape
<1>5. Shape'
  <2>1. k' \in 1..N' + 1
    <3>1. \A m \in Nat : 1 \in 1..m + 1
      OBVIOUS
    <3>2. k' = 1
      BY <1>3 DEF Enter
    <3>. QED  BY <1>3, <3>1, <3>2
  <2>2. counter' \in Number
    BY <1>1, <1>2 DEF GoodSpec
  <2>. QED  BY <1>4, <2>1, <2>2 DEF Enter, ShapeInv, Shape
<1>6. Registered'
  BY DEF Enter, Registered, Loaded
<1>. QED  BY <1>5, <1>6 DEF ShapeInv

LEMMA ShapeCall == CacheOK /\ ShapeInv /\ Call => ShapeInv'
<1>. SUFFICES ASSUME CacheOK, ShapeInv, Call PROVE ShapeInv'
  OBVIOUS
<1>1. GoodSpec(spec) /\ N \in 0..5
  BY CodeFacts DEF Call, Native
<1>2. \A n \in 1..N : spec.body[n].delta \in Ordered
  BY <1>1, NumbersAssumption DEF GoodSpec, Line, N
<1>3. /\ xmm'[0] = spec.stop /\ xmm'[1] = spec.step /\ xmm'[XMM_I] = counter
      /\ \A n \in 1..N : xmm'[n + 1] = spec.body[n].delta
  <2>1. 0 \in Registers /\ 1 \in Registers /\ XMM_I \in Registers
    BY DEF Registers, XMM_I
  <2>2. xmm'[0] = spec.stop /\ xmm'[1] = spec.step
    <3>1. 0 \notin 2..N + 1 /\ 1 \notin 2..N + 1 /\ XMM_I # 0 /\ XMM_I # 1
      BY <1>1 DEF XMM_I
    <3>. QED  BY <2>1, <3>1 DEF Call
  <2>3. ASSUME NEW n \in 1..N PROVE xmm'[n + 1] = spec.body[n].delta
    <3>. DEFINE r == n + 1
    <3>1. r \in Registers /\ r \in 2..N + 1 /\ r # 0 /\ r # 1 /\ r - 1 = n /\ r # XMM_I
      BY <1>1 DEF Registers, XMM_I
    <3>. HIDE DEF r
    <3>2. xmm'[r] = spec.body[r - 1].delta
      BY <3>1 DEF Call
    <3>. QED  BY <3>1, <3>2 DEF r
  <2>4. xmm'[XMM_I] = counter
    <3>1. XMM_I # 0 /\ XMM_I # 1 /\ XMM_I \notin 2..N + 1
      BY <1>1 DEF XMM_I
    <3>. QED  BY <2>1, <3>1 DEF Call
  <2>. QED  BY <2>2, <2>3, <2>4
<1>4. xmm' \in [Registers -> Number]
  <2>1. ASSUME NEW r \in Registers
        PROVE  (CASE r = 0 -> spec.stop [] r = 1 -> spec.step [] r \in 2..N + 1 -> spec.body[r - 1].delta
                  [] r = XMM_I -> counter [] OTHER -> 0) \in Number
    <3>1. r \in 2..N + 1 => r - 1 \in 1..N
      BY <1>1 DEF Registers
    <3>2. r \in 2..N + 1 => spec.body[r - 1].delta \in Number
      BY <1>2, <3>1 DEF Number
    <3>3. spec.stop \in Number /\ spec.step \in Number /\ counter \in Number /\ 0 \in Number
      BY <1>1, SmallNumbers DEF GoodSpec, ShapeInv, Shape, Number
    <3>. QED  BY <3>2, <3>3
  <2>. QED  BY <2>1 DEF Call
<1>5. Shape'
  BY <1>1, <1>4 DEF Call, ShapeInv, Shape, N
<1>6. Registered'
  <2>1. N' = N /\ spec' = spec /\ pc' = "load" /\ k' = 1
    BY DEF Call, N
  <2>2. \A n \in 1..N : delta_xmm(n) = n + 1 /\ ~ (n < 1)
    BY <1>1 DEF delta_xmm
  <2>. QED  BY <1>3, <2>1, <2>2 DEF Registered, delta_xmm
<1>. QED  BY <1>5, <1>6 DEF ShapeInv

\* The registers of constants, of accumulators and of the counter are apart.
LEMMA Apart ==
  ASSUME N \in 0..5, NEW n \in 1..N
  PROVE  /\ accum_xmm(n) \in Registers /\ delta_xmm(n) \in Registers
         /\ {0, 1, XMM_I} \subseteq Registers
         /\ accum_xmm(n) \notin {0, 1, XMM_I} /\ delta_xmm(n) \notin {0, 1, XMM_I}
         /\ \A m \in 1..N : accum_xmm(n) # delta_xmm(m)
         /\ \A m \in 1..N : accum_xmm(n) = accum_xmm(m) => n = m
BY DEF accum_xmm, delta_xmm, Registers, XMM_I

LEMMA ShapeLoads == CacheOK /\ ShapeInv /\ Loads => ShapeInv'
<1>. SUFFICES ASSUME CacheOK, ShapeInv, Loads PROVE ShapeInv'
  OBVIOUS
<1>1. GoodSpec(spec) /\ N \in 0..5 /\ Len(fn.ops) = N /\ pc = "load"
  BY CodeFacts DEF Loads, Emitted, Native
<1>2. N' = N /\ spec' = spec /\ counter' = counter /\ slots' = slots /\ mirror' = mirror
  BY DEF Loads, Emitted, Goto, N
<1>3. CASE k <= N
  <2>1. pc' = "load" /\ k' = k + 1 /\ xmm' = [xmm EXCEPT ![accum_xmm(k)] = slots[spec.body[k].var]]
    BY <1>1, <1>3 DEF Loads, Emitted
  <2>2. k \in 1..N
    BY <1>1, <1>3 DEF ShapeInv, Shape
  <2>3. slots[spec.body[k].var] \in Number
    BY <1>1, <2>2 DEF GoodSpec, Line, N, ShapeInv, Shape
  <2>4. /\ xmm' \in [Registers -> Number]
        /\ \A r \in Registers : r # accum_xmm(k) => xmm'[r] = xmm[r]
    BY <1>1, <2>1, <2>2, <2>3, Apart DEF ShapeInv, Shape
  <2>5. Shape'
    BY <1>1, <1>2, <2>1, <2>2, <2>4 DEF ShapeInv, Shape
  <2>6. /\ xmm'[0] = xmm[0] /\ xmm'[1] = xmm[1] /\ xmm'[XMM_I] = xmm[XMM_I]
        /\ \A n \in 1..N : xmm'[delta_xmm(n)] = xmm[delta_xmm(n)]
    BY <1>1, <2>2, <2>4, Apart
  <2>7. Registered'
    BY <1>1, <1>2, <2>1, <2>6 DEF ShapeInv, Registered, Loaded, delta_xmm
  <2>. QED  BY <2>5, <2>7 DEF ShapeInv
<1>4. CASE ~ (k <= N)
  <2>1. pc' = "top" /\ k' = 1 /\ xmm' = xmm
    BY <1>1, <1>4 DEF Loads, Emitted, Goto
  <2>2. Shape'
    BY <1>1, <1>2, <2>1 DEF ShapeInv, Shape
  <2>3. Registered'
    BY <1>1, <1>2, <2>1 DEF ShapeInv, Registered, Loaded, delta_xmm
  <2>. QED  BY <2>2, <2>3 DEF ShapeInv
<1>. QED  BY <1>3, <1>4

LEMMA ShapeTop == CacheOK /\ ShapeInv /\ Top => ShapeInv'
<1>. SUFFICES ASSUME CacheOK, ShapeInv, Top PROVE ShapeInv'
  OBVIOUS
<1>1. GoodSpec(spec) /\ N \in 0..5 /\ pc = "top"
  BY CodeFacts DEF Top, Native
<1>2. N' = N /\ spec' = spec /\ slots' = slots /\ k' = 1
  BY DEF Top, N
<1>3. mirror' \in MirrorState
  <2>1. (~ Leaves) \in BOOLEAN
    OBVIOUS
  <2>2. mirror' = Tested(~ Leaves)
    BY DEF Top
  <2>. QED  BY <2>1, <2>2, TestedFacts DEF ShapeInv, Shape
<1>4. xmm[XMM_I] \in Number /\ xmm[1] = spec.step
  BY <1>1 DEF ShapeInv, Shape, Registered, Loaded, Registers, XMM_I
<1>5. Plus(xmm[XMM_I], xmm[1]) \in Number
  BY <1>1, <1>4, PlusType DEF GoodSpec
<1>6. /\ xmm' \in [Registers -> Number]
      /\ \A r \in Registers : r # XMM_I => xmm'[r] = xmm[r]
  BY <1>4, <1>5 DEF Top, ShapeInv, Shape, Registers, XMM_I
<1>7. pc' \in {"store", "body"} /\ counter' \in Number
  BY <1>1, <1>4 DEF Top, ShapeInv, Shape
<1>8. Shape'
  BY <1>1, <1>2, <1>3, <1>6, <1>7 DEF ShapeInv, Shape
<1>9. /\ xmm'[0] = xmm[0] /\ xmm'[1] = xmm[1]
      /\ \A n \in 1..N : xmm'[delta_xmm(n)] = xmm[delta_xmm(n)]
  <2>1. 0 \in Registers \ {XMM_I} /\ 1 \in Registers \ {XMM_I}
    BY DEF Registers, XMM_I
  <2>. QED  BY <1>1, <1>6, <2>1, Apart
<1>10. Registered'
  BY <1>1, <1>2, <1>7, <1>9 DEF ShapeInv, Registered, Loaded, delta_xmm
<1>. QED  BY <1>8, <1>10 DEF ShapeInv

LEMMA ShapeBody == CacheOK /\ ShapeInv /\ Body => ShapeInv'
<1>. SUFFICES ASSUME CacheOK, ShapeInv, Body PROVE ShapeInv'
  OBVIOUS
<1>1. GoodSpec(spec) /\ N \in 0..5 /\ Len(fn.ops) = N /\ pc = "body"
  BY CodeFacts DEF Body, Emitted, Native
<1>2. N' = N /\ spec' = spec /\ counter' = counter /\ slots' = slots
  BY DEF Body, Emitted, Goto, N
<1>3. CASE k <= N
  <2>1. /\ pc' = "body" /\ k' = k + 1 /\ mirror' = Mirrored(k)
        /\ xmm' = [xmm EXCEPT ![accum_xmm(k)] = Apply(fn.ops[k], @, xmm[delta_xmm(k)])]
    BY <1>1, <1>3 DEF Body, Emitted
  <2>2. k \in 1..N
    BY <1>1, <1>3 DEF ShapeInv, Shape
  <2>3. Apply(fn.ops[k], xmm[accum_xmm(k)], xmm[delta_xmm(k)]) \in Number
    <3>1. xmm[accum_xmm(k)] \in Number
      BY <1>1, <2>2, Apart DEF ShapeInv, Shape
    <3>2. xmm[delta_xmm(k)] \in Ordered
      BY <1>1, <2>2, NumbersAssumption DEF ShapeInv, Registered, Loaded, GoodSpec, Line, N
    <3>. QED  BY <3>1, <3>2, ApplyType
  <2>4. /\ xmm' \in [Registers -> Number]
        /\ \A r \in Registers : r # accum_xmm(k) => xmm'[r] = xmm[r]
    BY <1>1, <2>1, <2>2, <2>3, Apart DEF ShapeInv, Shape
  <2>5. mirror' \in MirrorState
    BY <1>1, <2>1, <2>2, MirroredFacts DEF ShapeInv, Shape
  <2>6. Shape'
    BY <1>1, <1>2, <2>1, <2>2, <2>4, <2>5 DEF ShapeInv, Shape
  <2>7. /\ xmm'[0] = xmm[0] /\ xmm'[1] = xmm[1]
        /\ \A n \in 1..N : xmm'[delta_xmm(n)] = xmm[delta_xmm(n)]
    BY <1>1, <2>2, <2>4, Apart
  <2>8. Registered'
    BY <1>1, <1>2, <2>1, <2>7 DEF ShapeInv, Registered, Loaded, delta_xmm
  <2>. QED  BY <2>6, <2>8 DEF ShapeInv
<1>4. CASE ~ (k <= N)
  <2>1. pc' = "top" /\ k' = 1 /\ xmm' = xmm /\ mirror' = Turned
    BY <1>1, <1>4 DEF Body, Emitted, Goto
  <2>2. Shape'
    BY <1>1, <1>2, <2>1, TurnedFacts DEF ShapeInv, Shape
  <2>3. Registered'
    BY <1>1, <1>2, <2>1 DEF ShapeInv, Registered, Loaded, delta_xmm
  <2>. QED  BY <2>2, <2>3 DEF ShapeInv
<1>. QED  BY <1>3, <1>4

LEMMA ShapeStores == CacheOK /\ ShapeInv /\ Stores => ShapeInv'
<1>. SUFFICES ASSUME CacheOK, ShapeInv, Stores PROVE ShapeInv'
  OBVIOUS
<1>1. GoodSpec(spec) /\ N \in 0..5 /\ Len(fn.ops) = N /\ pc = "store"
  BY CodeFacts DEF Stores, Emitted, Native
<1>2. N' = N /\ spec' = spec /\ counter' = counter /\ xmm' = xmm /\ mirror' = mirror
  BY DEF Stores, Emitted, Goto, N
<1>3. CASE k <= N
  <2>1. pc' = "store" /\ k' = k + 1 /\ slots' = [slots EXCEPT ![spec.body[k].var] = xmm[accum_xmm(k)]]
    BY <1>1, <1>3 DEF Stores, Emitted
  <2>2. k \in 1..N
    BY <1>1, <1>3 DEF ShapeInv, Shape
  <2>3. xmm[accum_xmm(k)] \in Number
    BY <1>1, <2>2, Apart DEF ShapeInv, Shape
  <2>4. slots' \in [Vars -> Number]
    BY <2>1, <2>3 DEF ShapeInv, Shape
  <2>5. Shape'
    BY <1>1, <1>2, <2>1, <2>2, <2>4 DEF ShapeInv, Shape
  <2>. QED  BY <1>1, <1>2, <2>1, <2>5 DEF ShapeInv, Registered, Loaded, delta_xmm
<1>4. CASE ~ (k <= N)
  <2>1. pc' = "done" /\ k' = 1 /\ slots' = slots
    BY <1>1, <1>4 DEF Stores, Emitted, Goto
  <2>. QED  BY <1>1, <1>2, <2>1 DEF ShapeInv, Shape, Registered, Loaded
<1>. QED  BY <1>3, <1>4

\* The loop in C.
LEMMA ShapeTurn == CacheOK /\ ShapeInv /\ Turn => ShapeInv'
<1>. SUFFICES ASSUME CacheOK, ShapeInv, Turn PROVE ShapeInv'
  OBVIOUS
<1>1. pc = "fallback" /\ GoodSpec(spec)
  BY SpecsAreGood DEF Turn, CacheOK
<1>2. N' = N /\ N \in Nat /\ spec' = spec /\ slots' = slots /\ k' = 1
  BY <1>1 DEF Turn, N, GoodSpec
<1>3. pc' \in {"statement", "done"}
  BY DEF Turn
<1>4. mirror' \in MirrorState
  <2>1. Going(counter, spec) \in BOOLEAN
    BY DEF Going, Less
  <2>2. mirror' = Tested(Going(counter, spec))
    BY DEF Turn
  <2>. QED  BY <2>1, <2>2, TestedFacts DEF ShapeInv, Shape
<1>5. counter' \in Number
  <2>1. Plus(counter, spec.step) \in Number
    BY <1>1, PlusType DEF GoodSpec, ShapeInv, Shape
  <2>. QED  BY <1>1, <2>1 DEF Turn, ShapeInv, Shape
<1>6. xmm' = xmm
  BY DEF Turn
<1>. QED  BY <1>2, <1>3, <1>4, <1>5, <1>6 DEF ShapeInv, Shape, Registered, Loaded

LEMMA ShapeStatement == CacheOK /\ ShapeInv /\ Statement => ShapeInv'
<1>. SUFFICES ASSUME CacheOK, ShapeInv, Statement PROVE ShapeInv'
  OBVIOUS
<1>1. pc = "statement" /\ GoodSpec(spec)
  BY SpecsAreGood DEF Statement, CacheOK
<1>2. N' = N /\ N \in Nat /\ spec' = spec /\ counter' = counter /\ xmm' = xmm
  BY <1>1 DEF Statement, N, GoodSpec
<1>3. CASE k <= N
  <2>1. /\ pc' = "statement" /\ k' = k + 1 /\ mirror' = Mirrored(k)
        /\ slots' = [slots EXCEPT ![spec.body[k].var] = Apply(spec.body[k].op, @, spec.body[k].delta)]
    BY <1>1, <1>3 DEF Statement
  <2>2. k \in 1..N
    BY <1>2, <1>3 DEF ShapeInv, Shape
  <2>3. mirror' \in MirrorState
    BY <1>1, <2>1, <2>2, MirroredFacts DEF ShapeInv, Shape
  <2>4. slots' \in [Vars -> Number]
    <3>1. spec.body[k].var \in Vars /\ spec.body[k].delta \in Ordered
      BY <1>1, <2>2, NumbersAssumption DEF GoodSpec, Line, N
    <3>2. Apply(spec.body[k].op, slots[spec.body[k].var], spec.body[k].delta) \in Number
      BY <3>1, ApplyType DEF ShapeInv, Shape
    <3>. QED  BY <2>1, <3>1, <3>2 DEF ShapeInv, Shape
  <2>. QED  BY <1>1, <1>2, <2>1, <2>2, <2>3, <2>4 DEF ShapeInv, Shape, Registered, Loaded
<1>4. CASE ~ (k <= N)
  <2>1. pc' = "fallback" /\ k' = 1 /\ slots' = slots /\ mirror' = Turned
    BY <1>1, <1>4 DEF Statement
  <2>2. mirror' \in MirrorState
    BY <1>1, <2>1, TurnedFacts DEF ShapeInv, Shape
  <2>. QED  BY <1>1, <1>2, <2>1, <2>2 DEF ShapeInv, Shape, Registered, Loaded
<1>. QED  BY <1>3, <1>4

LEMMA ShapeReturn == ShapeInv /\ Return => ShapeInv'
<1>. SUFFICES ASSUME ShapeInv, Return PROVE ShapeInv'
  OBVIOUS
<1>1. slots' \in [Vars -> Number]
  BY NumbersAssumption DEF Return, Number
<1>2. N' = 0 /\ spec' = NoSpec /\ k' = 1 /\ pc' = "idle" /\ counter' = 0
  BY DEF Return, N, NoSpec
<1>3. mirror' = [slots |-> slots', counter |-> 0, same |-> TRUE]
  BY DEF Return, NoMirror
<1>4. mirror' \in MirrorState
  BY <1>1, <1>3, SmallNumbers DEF MirrorState
<1>5. xmm' \in [Registers -> Number]
  BY SmallNumbers DEF Return, NoRegisters
<1>. QED  BY <1>1, <1>2, <1>4, <1>5, SmallNumbers DEF ShapeInv, Shape, Registered, Loaded

LEMMA ShapeStep == CacheOK /\ ShapeInv /\ [Next]_vars => ShapeInv'
<1>. SUFFICES ASSUME CacheOK, ShapeInv, [Next]_vars PROVE ShapeInv'
  OBVIOUS
<1>. USE DEF ShapeInv, Shape, Registered, Loaded, N
<1>1. CASE TooManyVars
  BY <1>1 DEF TooManyVars, Fallback
<1>2. CASE Hit
  BY <1>2 DEF Hit
<1>3. CASE NoPage
  BY <1>3 DEF NoPage, Missed, Fallback
<1>4. CASE Build
  BY <1>4 DEF Build, Missed
<1>5. CASE UNCHANGED vars
  BY <1>5 DEF vars
<1>. QED  BY <1>1, <1>2, <1>3, <1>4, <1>5, ShapeEnter, ShapeCall, ShapeLoads, ShapeTop, ShapeBody,
             ShapeStores, ShapeTurn, ShapeStatement, ShapeReturn DEF Next, Step

(***************************************************************************)
(* The type invariant.                                                     *)
(***************************************************************************)
THEOREM TypeOKTheorem == Spec => []TypeOK
<1>1. CacheOK /\ ShapeInv => TypeOK
  <2>. SUFFICES ASSUME CacheOK, ShapeInv PROVE TypeOK
    OBVIOUS
  <2>1. N \in 0..BodyMax
    <3>1. CASE pc = "idle"
      BY <3>1, SizesAssumption DEF ShapeInv, Shape, N, NoSpec
    <3>2. CASE pc # "idle"
      BY <3>2, SpecsAreGood DEF CacheOK, GoodSpec, N
    <3>. QED  BY <3>1, <3>2
  <2>2. k \in 1..BodyMax + 1
    BY <2>1, SizesAssumption DEF ShapeInv, Shape
  <2>. QED  BY <2>2 DEF CacheOK, ShapeInv, Shape, MirrorState, TypeOK
<1>. QED  BY <1>1, CacheInit, CacheStep, ShapeInit, ShapeStep, PTL DEF Spec

-----------------------------------------------------------------------------
(***************************************************************************)
(* The compiled loop and the loop as bytecode, step by step: where the     *)
(* counter is, and which variables are in their slots, which in registers. *)
(***************************************************************************)
CounterMatches ==
  /\ pc \in {"run", "call", "fallback", "store", "done"} => counter = mirror.counter
  /\ pc \in {"load", "top"} => xmm[XMM_I] = mirror.counter
  /\ pc = "body" => xmm[XMM_I] = Plus(mirror.counter, spec.step)
  /\ pc = "statement" => counter = Plus(mirror.counter, spec.step)

InSlot(v) ==
  /\ pc \in {"top", "body"} => \A n \in 1..N : spec.body[n].var # v
  /\ pc = "store" => \A n \in 1..N : spec.body[n].var = v => n < k

InRegister(n) ==
  \/ pc \in {"top", "body"}
  \/ pc = "load" /\ n < k
  \/ pc = "store" /\ n >= k

Matches(v) ==
  /\ InSlot(v) => slots[v] = mirror.slots[v]
  /\ \A n \in 1..N : spec.body[n].var = v /\ InRegister(n) => xmm[accum_xmm(n)] = mirror.slots[v]

\* An upward loop that compares with NaN as machine code: it goes on.
Hung == pc \in {"top", "body"} /\ spec.step > 0 /\ Unordered(xmm[XMM_I], xmm[0])

SameInv ==
  pc # "idle" /\ OwnFree(spec.body) /\ ~ Hung =>
    /\ mirror.same /\ CounterMatches
    /\ \A v \in Vars : Single(v, spec.body) => Matches(v)

\* The branch of the code leaves when the condition of the loop is false.
LEMMA LeavesFacts ==
  ASSUME CacheOK, ShapeInv, pc = "top", ~ Hung
  PROVE  (~ Leaves) = Going(xmm[XMM_I], spec)
<1>1. GoodSpec(spec) /\ fn.up = (spec.step > 0)
  BY CodeFacts DEF Native
<1>2. xmm[0] = spec.stop /\ xmm[XMM_I] \in Number
  BY DEF ShapeInv, Shape, Registered, Loaded, Registers, XMM_I
<1>3. spec.step > 0 => xmm[XMM_I] # NaN /\ xmm[0] # NaN
  BY DEF Hung, Unordered
<1>4. spec.step \in Int /\ spec.step # 0 /\ spec.stop \in Number
  BY <1>1 DEF GoodSpec
<1>. DEFINE i == xmm[XMM_I]
            stop == spec.stop
<1>5. CASE spec.step > 0
  <2>1. i \in Int /\ stop \in Int /\ i # NaN /\ stop # NaN
    BY <1>2, <1>3, <1>4, <1>5, NumbersAssumption DEF Number
  <2>2. Leaves <=> i >= stop
    BY <1>1, <1>2, <1>5, <2>1 DEF Leaves, Unordered
  <2>3. Going(i, spec) <=> i < stop
    BY <1>5, <2>1 DEF Going, Less
  <2>4. ~ (i >= stop) <=> i < stop
    BY <2>1
  <2>5. Going(i, spec) \in BOOLEAN
    BY DEF Going, Less
  <2>. QED  BY <2>2, <2>3, <2>4, <2>5
<1>6. CASE ~ (spec.step > 0)
  <2>1. Leaves <=> i = NaN \/ stop = NaN \/ i <= stop
    BY <1>1, <1>2, <1>6 DEF Leaves, Unordered
  <2>2. Going(i, spec) <=> i # NaN /\ stop # NaN /\ stop < i
    BY <1>6 DEF Going, Less
  <2>3. i # NaN /\ stop # NaN => (~ (i <= stop) <=> stop < i)
    <3>1. i # NaN /\ stop # NaN => i \in Int /\ stop \in Int
      BY <1>2, <1>4, NumbersAssumption DEF Number
    <3>2. \A x, y \in Int : ~ (x <= y) <=> y < x
      OBVIOUS
    <3>. HIDE DEF i, stop
    <3>. QED  BY <3>1, <3>2
  <2>4. Going(i, spec) \in BOOLEAN
    BY DEF Going, Less
  <2>. QED  BY <2>1, <2>2, <2>3, <2>4
<1>. QED  BY <1>5, <1>6

\* Such a loop stays what it is.
LEMMA HungStays ==
  ASSUME CacheOK, ShapeInv, Hung, Top \/ Body
  PROVE  Hung'
<1>1. GoodSpec(spec) /\ N \in 0..5 /\ Len(fn.ops) = N /\ fn.up /\ pc \in {"top", "body"}
  BY CodeFacts DEF Hung, Native
<1>2. xmm[1] = spec.step /\ xmm \in [Registers -> Number] /\ {0, 1, XMM_I} \subseteq Registers
  BY <1>1 DEF ShapeInv, Shape, Registered, Loaded, Registers, XMM_I
<1>3. CASE Top
  <2>1. ~ Leaves
    BY <1>1 DEF Hung, Leaves
  <2>2. pc' = "body" /\ spec' = spec /\ xmm' = [xmm EXCEPT ![XMM_I] = Plus(@, xmm[1])]
    BY <1>3, <2>1 DEF Top
  <2>3. xmm'[0] = xmm[0] /\ xmm'[XMM_I] = Plus(xmm[XMM_I], spec.step)
    BY <1>2, <2>2 DEF XMM_I
  <2>4. Plus(NaN, spec.step) = NaN
    BY <1>1, SmallNumbers, PlusType DEF GoodSpec
  <2>. QED  BY <2>2, <2>3, <2>4 DEF Hung, Unordered, XMM_I
<1>4. CASE Body
  <2>1. xmm'[0] = xmm[0] /\ xmm'[XMM_I] = xmm[XMM_I]
    <3>1. CASE k <= N
      <4>1. k \in 1..N
        BY <3>1 DEF ShapeInv, Shape
      <4>2. accum_xmm(k) \notin {0, XMM_I}
        BY <1>1, <4>1, Apart
      <4>. QED  BY <1>1, <1>2, <1>4, <3>1, <4>2 DEF Body, Emitted
    <3>2. CASE ~ (k <= N)
      BY <1>1, <1>4, <3>2 DEF Body, Emitted, Goto
    <3>. QED  BY <3>1, <3>2
  <2>2. pc' \in {"top", "body"} /\ spec' = spec
    BY <1>1, <1>4 DEF Body, Emitted, Goto
  <2>. QED  BY <2>1, <2>2 DEF Hung, Unordered, XMM_I
<1>. QED  BY <1>3, <1>4

LEMMA SameEnter == ShapeInv /\ Enter => SameInv'
BY DEF Enter, SameInv, Hung, CounterMatches, Matches, InSlot, InRegister

LEMMA SameCall == CacheOK /\ ShapeInv /\ SameInv /\ Call => SameInv'
<1>. SUFFICES ASSUME CacheOK, ShapeInv, SameInv, Call, OwnFree(spec.body)
              PROVE  SameInv'
  BY DEF Call, SameInv, Hung
<1>1. GoodSpec(spec) /\ N \in 0..5
  BY CodeFacts DEF Call, Native
<1>2. xmm'[XMM_I] = counter
  <2>1. XMM_I \in Registers /\ XMM_I # 0 /\ XMM_I # 1 /\ XMM_I \notin 2..N + 1
    BY <1>1 DEF Registers, XMM_I
  <2>. QED  BY <2>1 DEF Call
<1>3. pc = "call" /\ pc' = "load" /\ k' = 1 /\ spec' = spec /\ slots' = slots /\ mirror' = mirror /\ N' = N
  BY DEF Call, N
<1>4. mirror'.same /\ CounterMatches'
  BY <1>2, <1>3 DEF SameInv, Hung, CounterMatches, XMM_I
<1>5. ASSUME NEW v \in Vars, Single(v, spec.body)
      PROVE  Matches(v)'
  <2>1. slots[v] = mirror.slots[v]
    BY <1>3, <1>5 DEF SameInv, Hung, Matches, InSlot
  <2>. QED  BY <1>1, <1>3, <2>1 DEF Matches, InSlot, InRegister
<1>. QED  BY <1>3, <1>4, <1>5 DEF SameInv, Hung

LEMMA SameLoads == CacheOK /\ ShapeInv /\ SameInv /\ Loads => SameInv'
<1>. SUFFICES ASSUME CacheOK, ShapeInv, SameInv, Loads, OwnFree(spec.body)
              PROVE  SameInv'
  BY DEF Loads, Emitted, SameInv, Hung
<1>1. GoodSpec(spec) /\ N \in 0..5 /\ Len(fn.ops) = N /\ pc = "load"
  BY CodeFacts DEF Loads, Emitted, Native
<1>2. N' = N /\ spec' = spec /\ counter' = counter /\ slots' = slots /\ mirror' = mirror
  BY DEF Loads, Emitted, Goto, N
<1>3. /\ mirror.same /\ xmm[XMM_I] = mirror.counter
      /\ \A v \in Vars : Single(v, spec.body) =>
           /\ slots[v] = mirror.slots[v]
           /\ \A n \in 1..N : spec.body[n].var = v /\ n < k => xmm[accum_xmm(n)] = mirror.slots[v]
  BY <1>1 DEF SameInv, Hung, CounterMatches, Matches, InSlot, InRegister
<1>4. CASE k <= N
  <2>1. pc' = "load" /\ k' = k + 1 /\ xmm' = [xmm EXCEPT ![accum_xmm(k)] = slots[spec.body[k].var]]
    BY <1>1, <1>4 DEF Loads, Emitted
  <2>2. k \in 1..N
    BY <1>1, <1>4 DEF ShapeInv, Shape
  <2>3. /\ xmm'[accum_xmm(k)] = slots[spec.body[k].var] /\ xmm'[XMM_I] = xmm[XMM_I]
        /\ \A n \in 1..N : n # k => xmm'[accum_xmm(n)] = xmm[accum_xmm(n)]
    BY <1>1, <2>1, <2>2, Apart DEF ShapeInv, Shape
  <2>4. mirror'.same /\ CounterMatches'
    BY <1>2, <1>3, <2>1, <2>3 DEF CounterMatches, XMM_I
  <2>5. ASSUME NEW v \in Vars, Single(v, spec.body)
        PROVE  Matches(v)'
    <3>1. ASSUME NEW n \in 1..N, spec.body[n].var = v, n < k + 1
          PROVE  xmm'[accum_xmm(n)] = mirror.slots[v]
      <4>1. n = k \/ n < k
        BY <3>1, <2>2
      <4>. QED  BY <1>3, <2>3, <2>5, <3>1, <4>1
    <3>2. slots'[v] = mirror'.slots[v]
      BY <1>2, <1>3, <2>5
    <3>. QED  BY <1>2, <2>1, <3>1, <3>2 DEF Matches, InSlot, InRegister, accum_xmm
  <2>. QED  BY <1>2, <2>1, <2>4, <2>5 DEF SameInv, Hung
<1>5. CASE ~ (k <= N)
  <2>1. pc' = "top" /\ k' = 1 /\ xmm' = xmm
    BY <1>1, <1>5 DEF Loads, Emitted, Goto
  <2>2. \A n \in 1..N : n < k
    BY <1>1, <1>5 DEF ShapeInv, Shape
  <2>3. mirror'.same /\ CounterMatches'
    BY <1>2, <1>3, <2>1 DEF CounterMatches, XMM_I
  <2>4. ASSUME NEW v \in Vars, Single(v, spec.body)
        PROVE  Matches(v)'
    BY <1>2, <1>3, <2>1, <2>2, <2>4 DEF Matches, InSlot, InRegister, accum_xmm
  <2>. QED  BY <1>2, <2>1, <2>3, <2>4 DEF SameInv, Hung
<1>. QED  BY <1>4, <1>5

LEMMA SameTop == CacheOK /\ ShapeInv /\ SameInv /\ Top => SameInv'
<1>. SUFFICES ASSUME CacheOK, ShapeInv, SameInv, Top, OwnFree(spec.body), ~ Hung
              PROVE  SameInv'
  BY HungStays DEF Top, SameInv
<1>1. GoodSpec(spec) /\ N \in 0..5 /\ pc = "top"
  BY CodeFacts DEF Top, Native
<1>2. N' = N /\ spec' = spec /\ slots' = slots /\ k' = 1
  BY DEF Top, N
<1>3. mirror.same /\ xmm[XMM_I] = mirror.counter /\ xmm[1] = spec.step
  BY <1>1 DEF SameInv, Hung, CounterMatches, ShapeInv, Registered, Loaded
<1>4. mirror'.slots = mirror.slots /\ mirror'.counter = mirror.counter /\ mirror'.same
  <2>1. (~ Leaves) \in BOOLEAN
    OBVIOUS
  <2>2. mirror' = Tested(~ Leaves)
    BY DEF Top
  <2>3. (~ Leaves) = Going(mirror.counter, spec)
    BY <1>1, <1>3, LeavesFacts
  <2>. QED  BY <1>3, <2>1, <2>2, <2>3, TestedFacts DEF ShapeInv, Shape
<1>5. \A n \in 1..N : xmm'[accum_xmm(n)] = xmm[accum_xmm(n)]
  BY <1>1, Apart DEF Top, ShapeInv, Shape
<1>6. CounterMatches'
  <2>1. CASE Leaves
    BY <1>3, <1>4, <2>1 DEF Top, CounterMatches
  <2>2. CASE ~ Leaves
    <3>1. XMM_I \in Registers
      BY DEF XMM_I, Registers
    <3>2. xmm'[XMM_I] = Plus(xmm[XMM_I], xmm[1])
      BY <2>2, <3>1 DEF Top, ShapeInv, Shape
    <3>3. pc' = "body"
      BY <2>2 DEF Top
    <3>. QED  BY <1>2, <1>3, <1>4, <3>2, <3>3 DEF CounterMatches, XMM_I
  <2>. QED  BY <2>1, <2>2
<1>7. pc' \in {"store", "body"}
  BY DEF Top
<1>8. ASSUME NEW v \in Vars, Single(v, spec.body)
      PROVE  Matches(v)'
  <2>1. \A n \in 1..N : n >= 1 /\ ~ (n < 1)
    BY <1>1
  <2>2. (\A n \in 1..N : spec.body[n].var # v) => slots[v] = mirror.slots[v]
    BY <1>1, <1>8 DEF SameInv, Hung, Matches, InSlot
  <2>3. \A n \in 1..N : spec.body[n].var = v => xmm[accum_xmm(n)] = mirror.slots[v]
    BY <1>1, <1>8 DEF SameInv, Hung, Matches, InRegister
  <2>. QED  BY <1>2, <1>4, <1>5, <1>7, <2>1, <2>2, <2>3 DEF Matches, InSlot, InRegister, accum_xmm
<1>. QED  BY <1>2, <1>4, <1>6, <1>8 DEF SameInv, Hung

\* A statement of the body changes one variable of the loop as bytecode.
LEMMA MirroredSlots ==
  ASSUME ShapeInv, GoodSpec(spec), OwnFree(spec.body), NEW n \in 1..N, NEW v \in Vars
  PROVE  /\ Mirrored(n).same = mirror.same /\ Mirrored(n).counter = mirror.counter
         /\ spec.body[n].var # v => Mirrored(n).slots[v] = mirror.slots[v]
         /\ spec.body[n].var = v =>
              Mirrored(n).slots[v] = Apply(spec.body[n].op, mirror.slots[v], spec.body[n].delta)
<1>1. spec.body[n].var # LoopVar
  BY DEF OwnFree, GoodSpec, N
<1>2. mirror.slots \in [Vars -> Number] /\ mirror \in MirrorState
  BY DEF ShapeInv, Shape, MirrorState
<1>3. /\ Mirrored(n).same = mirror.same /\ Mirrored(n).counter = mirror.counter
      /\ Mirrored(n).slots = [mirror.slots EXCEPT ![spec.body[n].var] = Apply(spec.body[n].op, @, spec.body[n].delta)]
  BY <1>1, <1>2, MirroredFacts
<1>. QED  BY <1>2, <1>3

\* Where v is the one statement that assigns to it.
LEMMA SingleFacts ==
  ASSUME GoodSpec(spec), NEW v, Single(v, spec.body),
         NEW m \in 1..N, NEW n \in 1..N, spec.body[m].var = v, spec.body[n].var = v
  PROVE  m = n
BY DEF Single, GoodSpec, N

LEMMA SameBody == CacheOK /\ ShapeInv /\ SameInv /\ Body => SameInv'
<1>. SUFFICES ASSUME CacheOK, ShapeInv, SameInv, Body, OwnFree(spec.body), ~ Hung
              PROVE  SameInv'
  BY HungStays DEF Body, Emitted, SameInv
<1>1. /\ GoodSpec(spec) /\ N \in 0..5 /\ Len(fn.ops) = N /\ pc = "body"
      /\ \A n \in 1..N : fn.ops[n] = spec.body[n].op
  BY CodeFacts DEF Body, Emitted, Native
<1>2. N' = N /\ spec' = spec /\ counter' = counter /\ slots' = slots
  BY DEF Body, Emitted, Goto, N
<1>3. /\ mirror.same /\ xmm[XMM_I] = Plus(mirror.counter, spec.step)
      /\ \A v \in Vars : Single(v, spec.body) =>
           /\ (\A n \in 1..N : spec.body[n].var # v) => slots[v] = mirror.slots[v]
           /\ \A n \in 1..N : spec.body[n].var = v => xmm[accum_xmm(n)] = mirror.slots[v]
  BY <1>1 DEF SameInv, Hung, CounterMatches, Matches, InSlot, InRegister
<1>4. CASE k <= N
  <2>1. /\ pc' = "body" /\ k' = k + 1 /\ mirror' = Mirrored(k)
        /\ xmm' = [xmm EXCEPT ![accum_xmm(k)] = Apply(fn.ops[k], @, xmm[delta_xmm(k)])]
    BY <1>1, <1>4 DEF Body, Emitted
  <2>2. k \in 1..N
    BY <1>1, <1>4 DEF ShapeInv, Shape
  <2>3. xmm[delta_xmm(k)] = spec.body[k].delta
    BY <1>1, <2>2 DEF ShapeInv, Registered, Loaded
  <2>4. /\ xmm'[accum_xmm(k)] = Apply(spec.body[k].op, xmm[accum_xmm(k)], spec.body[k].delta)
        /\ xmm'[XMM_I] = xmm[XMM_I]
        /\ \A n \in 1..N : n # k => xmm'[accum_xmm(n)] = xmm[accum_xmm(n)]
    BY <1>1, <2>1, <2>2, <2>3, Apart DEF ShapeInv, Shape
  <2>5. spec.body[k].var \in Vars
    BY <1>1, <2>2 DEF GoodSpec, Line, N
  <2>6. mirror'.same /\ mirror'.counter = mirror.counter
    BY <1>1, <1>3, <2>1, <2>2, <2>5, MirroredSlots
  <2>7. CounterMatches'
    BY <1>2, <1>3, <2>1, <2>4, <2>6 DEF CounterMatches, XMM_I
  <2>8. ASSUME NEW v \in Vars, Single(v, spec.body)
        PROVE  Matches(v)'
    <3>1. (\A n \in 1..N : spec.body[n].var # v) => slots'[v] = mirror'.slots[v]
      BY <1>1, <1>2, <1>3, <2>1, <2>2, <2>8, MirroredSlots
    <3>2. ASSUME NEW n \in 1..N, spec.body[n].var = v
          PROVE  xmm'[accum_xmm(n)] = mirror'.slots[v]
      <4>1. xmm[accum_xmm(n)] = mirror.slots[v]
        BY <1>3, <2>8, <3>2
      <4>2. CASE n = k
        BY <1>1, <2>1, <2>2, <2>4, <3>2, <4>1, <4>2, MirroredSlots
      <4>3. CASE n # k
        <5>1. spec.body[k].var # v
          BY <1>1, <2>2, <2>8, <3>2, <4>3, SingleFacts
        <5>. QED  BY <1>1, <2>1, <2>2, <2>4, <4>1, <4>3, <5>1, MirroredSlots
      <4>. QED  BY <4>2, <4>3
    <3>. QED  BY <1>2, <2>1, <3>1, <3>2 DEF Matches, InSlot, InRegister, accum_xmm
  <2>. QED  BY <1>2, <2>1, <2>6, <2>7, <2>8 DEF SameInv, Hung
<1>5. CASE ~ (k <= N)
  <2>1. pc' = "top" /\ k' = 1 /\ xmm' = xmm /\ mirror' = Turned
    BY <1>1, <1>5 DEF Body, Emitted, Goto
  <2>2. mirror'.slots = mirror.slots /\ mirror'.same /\ mirror'.counter = Plus(mirror.counter, spec.step)
    BY <1>1, <1>3, <2>1, TurnedFacts DEF ShapeInv, Shape
  <2>3. CounterMatches'
    BY <1>2, <1>3, <2>1, <2>2 DEF CounterMatches, XMM_I
  <2>4. ASSUME NEW v \in Vars, Single(v, spec.body)
        PROVE  Matches(v)'
    BY <1>2, <1>3, <2>1, <2>2, <2>4 DEF Matches, InSlot, InRegister, accum_xmm
  <2>. QED  BY <1>2, <2>1, <2>2, <2>3, <2>4 DEF SameInv, Hung
<1>. QED  BY <1>4, <1>5

LEMMA SameStores == CacheOK /\ ShapeInv /\ SameInv /\ Stores => SameInv'
<1>. SUFFICES ASSUME CacheOK, ShapeInv, SameInv, Stores, OwnFree(spec.body)
              PROVE  SameInv'
  BY DEF Stores, Emitted, SameInv, Hung
<1>1. GoodSpec(spec) /\ N \in 0..5 /\ Len(fn.ops) = N /\ pc = "store"
  BY CodeFacts DEF Stores, Emitted, Native
<1>2. N' = N /\ spec' = spec /\ counter' = counter /\ xmm' = xmm /\ mirror' = mirror
  BY DEF Stores, Emitted, Goto, N
<1>3. /\ mirror.same /\ counter = mirror.counter
      /\ \A v \in Vars : Single(v, spec.body) =>
           /\ (\A n \in 1..N : spec.body[n].var = v => n < k) => slots[v] = mirror.slots[v]
           /\ \A n \in 1..N : spec.body[n].var = v /\ n >= k => xmm[accum_xmm(n)] = mirror.slots[v]
  BY <1>1 DEF SameInv, Hung, CounterMatches, Matches, InSlot, InRegister
<1>4. CASE k <= N
  <2>1. pc' = "store" /\ k' = k + 1 /\ slots' = [slots EXCEPT ![spec.body[k].var] = xmm[accum_xmm(k)]]
    BY <1>1, <1>4 DEF Stores, Emitted
  <2>2. k \in 1..N
    BY <1>1, <1>4 DEF ShapeInv, Shape
  <2>3. mirror'.same /\ CounterMatches'
    BY <1>2, <1>3, <2>1 DEF CounterMatches
  <2>4. ASSUME NEW v \in Vars, Single(v, spec.body)
        PROVE  Matches(v)'
    <3>1. (\A n \in 1..N : spec.body[n].var = v => n < k + 1) => slots'[v] = mirror.slots[v]
      <4>1. CASE spec.body[k].var = v
        <5>1. slots'[v] = xmm[accum_xmm(k)]
          BY <2>1, <4>1 DEF ShapeInv, Shape
        <5>. QED  BY <1>1, <1>3, <2>2, <2>4, <4>1, <5>1
      <4>2. CASE spec.body[k].var # v
        <5>1. slots'[v] = slots[v]
          BY <2>1, <4>2 DEF ShapeInv, Shape
        <5>2. \A n \in 1..N : spec.body[n].var = v => (n < k + 1 <=> n < k)
          BY <1>1, <2>2, <4>2
        <5>. QED  BY <1>3, <2>4, <5>1, <5>2
      <4>. QED  BY <4>1, <4>2
    <3>2. \A n \in 1..N : n >= k + 1 => n >= k
      BY <1>1, <2>2
    <3>3. \A n \in 1..N : spec.body[n].var = v /\ n >= k + 1 => xmm[accum_xmm(n)] = mirror.slots[v]
      BY <1>3, <2>4, <3>2
    <3>. QED  BY <1>2, <2>1, <3>1, <3>3 DEF Matches, InSlot, InRegister, accum_xmm
  <2>. QED  BY <1>2, <2>1, <2>3, <2>4 DEF SameInv, Hung
<1>5. CASE ~ (k <= N)
  <2>1. pc' = "done" /\ k' = 1 /\ slots' = slots
    BY <1>1, <1>5 DEF Stores, Emitted, Goto
  <2>2. \A n \in 1..N : n < k
    BY <1>1, <1>5 DEF ShapeInv, Shape
  <2>. QED  BY <1>2, <1>3, <2>1, <2>2 DEF SameInv, Hung, CounterMatches, Matches, InSlot, InRegister
<1>. QED  BY <1>4, <1>5

LEMMA SameTurn == CacheOK /\ ShapeInv /\ SameInv /\ Turn => SameInv'
<1>. SUFFICES ASSUME CacheOK, ShapeInv, SameInv, Turn, OwnFree(spec.body)
              PROVE  SameInv'
  BY DEF Turn, SameInv, Hung
<1>1. pc = "fallback" /\ N' = N /\ spec' = spec /\ slots' = slots /\ pc' \in {"statement", "done"}
  BY DEF Turn, N
<1>2. mirror.same /\ counter = mirror.counter
  BY <1>1 DEF SameInv, Hung, CounterMatches
<1>3. mirror'.slots = mirror.slots /\ mirror'.counter = mirror.counter /\ mirror'.same
  <2>1. Going(counter, spec) \in BOOLEAN
    BY DEF Going, Less
  <2>2. mirror' = Tested(Going(counter, spec))
    BY DEF Turn
  <2>. QED  BY <1>2, <2>1, <2>2, TestedFacts DEF ShapeInv, Shape
<1>4. CounterMatches'
  BY <1>1, <1>2, <1>3 DEF Turn, CounterMatches
<1>5. ASSUME NEW v \in Vars, Single(v, spec.body)
      PROVE  Matches(v)'
  <2>1. slots[v] = mirror.slots[v]
    BY <1>1, <1>5 DEF SameInv, Hung, Matches, InSlot
  <2>. QED  BY <1>1, <1>3, <2>1 DEF Matches, InRegister
<1>. QED  BY <1>1, <1>3, <1>4, <1>5 DEF SameInv, Hung

LEMMA SameStatement == CacheOK /\ ShapeInv /\ SameInv /\ Statement => SameInv'
<1>. SUFFICES ASSUME CacheOK, ShapeInv, SameInv, Statement, OwnFree(spec.body)
              PROVE  SameInv'
  BY DEF Statement, SameInv, Hung
<1>1. pc = "statement" /\ GoodSpec(spec)
  BY SpecsAreGood DEF Statement, CacheOK
<1>2. N' = N /\ N \in Nat /\ spec' = spec /\ counter' = counter
  BY <1>1 DEF Statement, N, GoodSpec
<1>3. /\ mirror.same /\ counter = Plus(mirror.counter, spec.step)
      /\ \A v \in Vars : Single(v, spec.body) => slots[v] = mirror.slots[v]
  BY <1>1 DEF SameInv, Hung, CounterMatches, Matches, InSlot
<1>4. CASE k <= N
  <2>1. /\ pc' = "statement" /\ k' = k + 1 /\ mirror' = Mirrored(k)
        /\ slots' = [slots EXCEPT ![spec.body[k].var] = Apply(spec.body[k].op, @, spec.body[k].delta)]
    BY <1>1, <1>4 DEF Statement
  <2>2. k \in 1..N
    BY <1>2, <1>4 DEF ShapeInv, Shape
  <2>3. spec.body[k].var \in Vars
    BY <1>1, <2>2 DEF GoodSpec, Line, N
  <2>4. mirror'.same /\ mirror'.counter = mirror.counter
    BY <1>1, <1>3, <2>1, <2>2, <2>3, MirroredSlots
  <2>5. CounterMatches'
    BY <1>2, <1>3, <2>1, <2>4 DEF CounterMatches
  <2>6. ASSUME NEW v \in Vars, Single(v, spec.body)
        PROVE  slots'[v] = mirror'.slots[v]
    <3>1. slots[v] = mirror.slots[v]
      BY <1>3, <2>6
    <3>2. CASE spec.body[k].var = v
      <4>1. slots'[v] = Apply(spec.body[k].op, slots[v], spec.body[k].delta)
        BY <2>1, <3>2 DEF ShapeInv, Shape
      <4>. QED  BY <1>1, <2>1, <2>2, <3>1, <3>2, <4>1, MirroredSlots
    <3>3. CASE spec.body[k].var # v
      <4>1. slots'[v] = slots[v]
        BY <2>1, <3>3 DEF ShapeInv, Shape
      <4>. QED  BY <1>1, <2>1, <2>2, <3>1, <3>3, <4>1, MirroredSlots
    <3>. QED  BY <3>2, <3>3
  <2>. QED  BY <1>2, <2>1, <2>4, <2>5, <2>6 DEF SameInv, Hung, Matches, InRegister
<1>5. CASE ~ (k <= N)
  <2>1. pc' = "fallback" /\ k' = 1 /\ slots' = slots /\ mirror' = Turned
    BY <1>1, <1>5 DEF Statement
  <2>2. mirror'.slots = mirror.slots /\ mirror'.same /\ mirror'.counter = Plus(mirror.counter, spec.step)
    BY <1>1, <1>3, <2>1, TurnedFacts DEF ShapeInv, Shape
  <2>. QED  BY <1>2, <1>3, <2>1, <2>2 DEF SameInv, Hung, CounterMatches, Matches, InRegister
<1>. QED  BY <1>4, <1>5

LEMMA SameStep == CacheOK /\ ShapeInv /\ SameInv /\ [Next]_vars => SameInv'
<1>. SUFFICES ASSUME CacheOK, ShapeInv, SameInv, [Next]_vars PROVE SameInv'
  OBVIOUS
<1>. USE DEF SameInv, Hung, CounterMatches, Matches, InSlot, InRegister, N
<1>1. CASE TooManyVars
  BY <1>1 DEF TooManyVars, Fallback
<1>2. CASE Hit
  BY <1>2 DEF Hit
<1>3. CASE NoPage
  BY <1>3 DEF NoPage, Missed, Fallback
<1>4. CASE Build
  BY <1>4 DEF Build, Missed
<1>5. CASE Return
  BY <1>5 DEF Return
<1>6. CASE UNCHANGED vars
  BY <1>6 DEF vars, accum_xmm, XMM_I
<1>. QED  BY <1>1, <1>2, <1>3, <1>4, <1>5, <1>6, SameEnter, SameCall, SameLoads, SameTop, SameBody,
             SameStores, SameTurn, SameStatement DEF Next, Step

LEMMA SameInit == Init => SameInv
BY DEF Init, SameInv, Hung

(***************************************************************************)
(* A loop that is compiled to machine code, and one that runs in C because *)
(* there is no code, ends with the values that the loop has as bytecode.   *)
(***************************************************************************)
THEOREM SameAsBytecodeTheorem == Spec => []SameAsBytecode
<1>1. ShapeInv /\ SameInv => SameAsBytecode
  BY DEF SameInv, Hung, CounterMatches, Matches, InSlot, SameAsBytecode
<1>. QED  BY <1>1, CacheInit, CacheStep, ShapeInit, ShapeStep, SameInit, SameStep, PTL DEF Spec
=============================================================================
