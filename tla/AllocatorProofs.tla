--------------------------- MODULE AllocatorProofs ---------------------------
(***************************************************************************)
(* The counter of the tracked allocator, for any number of objects, any    *)
(* texts and any sizes.                                                    *)
(*                                                                         *)
(* What the counter is compared with is a sum over the heap of what the    *)
(* blocks really have; what is subtracted when an object goes is what the  *)
(* code computes from the object's counts.  The invariant therefore keeps  *)
(* two sums apart, of the bytes there are (Total) and of the bytes the     *)
(* code would give back (TotalLeast), and bounds the counter from below by *)
(* the one and from above by the other.                                    *)
(***************************************************************************)
EXTENDS Allocator, SequencesExt, WellFoundedInduction, SequenceTheorems, FiniteSetTheorems, TLAPS

-----------------------------------------------------------------------------
(* Facts about naturals and sequences. *)

(* Every non-empty set of natural numbers has a least element: what makes
   the first empty slot of a probe sequence, or the innermost of several
   handlers, well defined. *)
LEMMA LeastElement ==
  ASSUME NEW S \in SUBSET Nat, S # {}
  PROVE  \E k \in S : \A n \in S : k <= n
<1>. DEFINE R == {p \in Nat \X Nat : p[1] < p[2]}
<1>1. IsWellFoundedOn(R, Nat)
  BY NatLessThanWellFounded DEF OpToRel
<1>2. PICK k \in S : \A n \in S : ~ (<<n, k>> \in R)
  <2>. HIDE DEF R
  <2>. QED  BY <1>1, WFMin
<1>3. ASSUME NEW n \in S PROVE k <= n
  <2>1. <<n, k>> \notin R
    BY <1>2
  <2>2. k \in Nat /\ n \in Nat
    OBVIOUS
  <2>3. ~ (n < k)
    BY <2>1, <2>2
  <2>. QED  BY <2>2, <2>3
<1>. QED  BY <1>3

(* A set of natural numbers that holds 0 and is closed under successor holds
   them all. *)
LEMMA SetInduction ==
  ASSUME NEW S \in SUBSET Nat, 0 \in S, \A n \in S : n + 1 \in S
  PROVE  S = Nat
<1>. SUFFICES ASSUME Nat \ S # {} PROVE FALSE
  OBVIOUS
<1>1. PICK k \in Nat \ S : \A n \in Nat \ S : k <= n
  <2>1. Nat \ S \in SUBSET Nat
    OBVIOUS
  <2>. QED  BY <2>1, LeastElement
<1>2. k # 0 /\ k - 1 \in Nat
  OBVIOUS
<1>3. k - 1 \in S
  BY <1>1, <1>2
<1>. QED  BY <1>2, <1>3

(* The same up to a bound. *)
LEMMA BoundedInduction ==
  ASSUME NEW N \in Nat, NEW S \in SUBSET (0 .. N), 0 \in S,
         \A n \in S : n < N => n + 1 \in S
  PROVE  S = 0 .. N
<1>. DEFINE T == S \union {n \in Nat : n > N}
<1>1. \A n \in S : n \in Nat /\ n <= N
  OBVIOUS
<1>2. 0 \in T
  OBVIOUS
<1>3. \A n \in T : n + 1 \in T
  BY <1>1
<1>4. T = Nat
  <2>1. T \in SUBSET Nat
    BY <1>1
  <2>. HIDE DEF T
  <2>. QED  BY <1>2, <1>3, <2>1, SetInduction
<1>5. \A n \in 0 .. N : n \in S
  <2>. TAKE n \in 0 .. N
  <2>1. n \in T
    <3>. HIDE DEF T
    <3>. QED  BY <1>4
  <2>. QED  BY <2>1
<1>. QED  BY <1>5

-----------------------------------------------------------------------------
(* Sums over finite sets.  SumFunctionOnSet chooses the order in which it adds;
   what is shown here is that the order does not matter. *)

Some(s) == CHOOSE x \in s : TRUE

\* A function with the sums of f over the subsets of S.
IsSum(g, f, S) ==
  g = [s \in SUBSET S |-> IF s = {} THEN 0 ELSE f[Some(s)] + g[s \ {Some(s)}]]

LEMMA SubsetFacts ==
  ASSUME NEW U, IsFiniteSet(U), NEW s \in SUBSET U
  PROVE  /\ IsFiniteSet(s) /\ Cardinality(s) \in 0..Cardinality(U) /\ Cardinality(U) \in Nat
         /\ Cardinality(s) = 0 <=> s = {}
         /\ s # {} => Some(s) \in s
         /\ \A x \in s : s \ {x} \in SUBSET U /\ Cardinality(s \ {x}) = Cardinality(s) - 1
<1>1. IsFiniteSet(s) /\ Cardinality(s) <= Cardinality(U)
  BY FS_Subset
<1>2. Cardinality(s) \in Nat /\ Cardinality(U) \in Nat
  BY <1>1, FS_CardinalityType
<1>3. Cardinality(s) = 0 <=> s = {}
  BY <1>1, FS_EmptySet
<1>4. s # {} => Some(s) \in s
  BY DEF Some
<1>5. \A x \in s : Cardinality(s \ {x}) = Cardinality(s) - 1
  BY <1>1, FS_RemoveElement
<1>. QED  BY <1>1, <1>2, <1>3, <1>4, <1>5

LEMMA SumExists ==
  ASSUME NEW U, IsFiniteSet(U), NEW f, \A x \in U : f[x] \in Int
  PROVE  \E g \in [SUBSET U -> Int] : IsSum(g, f, U)
<1>. DEFINE N == Cardinality(U)
            Adding(g, s) == IF s = {} THEN 0 ELSE f[Some(s)] + g[s \ {Some(s)}]
            Good(g, n) == \A s \in SUBSET U : Cardinality(s) <= n => g[s] = Adding(g, s)
            Q == {n \in 0..N : \E g \in [SUBSET U -> Int] : Good(g, n)}
<1>1. N \in Nat
  BY FS_CardinalityType
<1>2. \A s \in SUBSET U :
        /\ Cardinality(s) \in 0..N /\ (Cardinality(s) = 0 <=> s = {})
        /\ s # {} => /\ Some(s) \in U /\ s \ {Some(s)} \in SUBSET U
                     /\ Cardinality(s \ {Some(s)}) = Cardinality(s) - 1
  BY SubsetFacts
<1>3. \A g \in [SUBSET U -> Int], s \in SUBSET U : Adding(g, s) \in Int
  <2>. TAKE g \in [SUBSET U -> Int], s \in SUBSET U
  <2>1. CASE s = {}
    BY <2>1
  <2>2. CASE s # {}
    <3>1. f[Some(s)] \in Int /\ g[s \ {Some(s)}] \in Int
      BY <1>2, <2>2
    <3>. QED  BY <2>2, <3>1
  <2>. QED  BY <2>1, <2>2
<1>4. 0 \in Q
  <2>. DEFINE z == [s \in SUBSET U |-> 0]
  <2>1. ASSUME NEW s \in SUBSET U, Cardinality(s) <= 0 PROVE s = {}
    <3>1. Cardinality(s) \in 0..N /\ (Cardinality(s) = 0 <=> s = {})
      BY <1>2
    <3>. QED  BY <1>1, <2>1, <3>1
  <2>2. z \in [SUBSET U -> Int] /\ Good(z, 0)
    BY <2>1
  <2>. HIDE DEF z, Good
  <2>. QED  BY <1>1, <2>2
<1>5. ASSUME NEW n \in Q, n < N PROVE n + 1 \in Q
  <2>1. PICK g \in [SUBSET U -> Int] : Good(g, n)
    BY <1>5
  <2>. DEFINE h == [s \in SUBSET U |-> Adding(g, s)]
  <2>2. h \in [SUBSET U -> Int]
    BY <1>3
  <2>3. Good(h, n + 1)
    <3>. SUFFICES ASSUME NEW s \in SUBSET U, Cardinality(s) <= n + 1 PROVE h[s] = Adding(h, s)
      OBVIOUS
    <3>1. CASE s = {}
      BY <3>1
    <3>2. CASE s # {}
      <4>. DEFINE t == s \ {Some(s)}
      <4>1. t \in SUBSET U /\ Cardinality(t) <= n
        BY <1>2, <3>2
      <4>2. g[t] = Adding(g, t) /\ h[t] = Adding(g, t)
        <5>1. g[t] = Adding(g, t)
          <6>. HIDE DEF t, Adding
          <6>. QED  BY <2>1, <4>1
        <5>. QED  BY <4>1, <5>1
      <4>3. h[s] = f[Some(s)] + g[t] /\ Adding(h, s) = f[Some(s)] + h[t]
        BY <3>2
      <4>. QED  BY <4>2, <4>3
    <3>. QED  BY <3>1, <3>2
  <2>4. n + 1 \in 0..N
    BY <1>1, <1>5
  <2>. HIDE DEF h, Good
  <2>. QED  BY <2>2, <2>3, <2>4
<1>6. N \in Q
  <2>1. Q \in SUBSET (0..N)
    OBVIOUS
  <2>. HIDE DEF Q
  <2>2. Q = 0..N
    BY <1>1, <1>4, <1>5, <2>1, BoundedInduction
  <2>. QED  BY <1>1, <2>2
<1>7. PICK g \in [SUBSET U -> Int] : Good(g, N)
  BY <1>6
<1>8. \A s \in SUBSET U : g[s] = Adding(g, s)
  <2>1. ASSUME NEW s \in SUBSET U PROVE Cardinality(s) <= N
    <3>1. Cardinality(s) \in 0..N
      BY <1>2
    <3>. QED  BY <1>1, <3>1
  <2>. HIDE DEF Adding
  <2>. QED  BY <1>7, <2>1
<1>9. g = [s \in SUBSET U |-> Adding(g, s)]
  <2>. HIDE DEF Adding
  <2>. QED  BY <1>8
<1>. QED  BY <1>9 DEF IsSum

LEMMA SumUnique ==
  ASSUME NEW U, IsFiniteSet(U), NEW f, NEW S \in SUBSET U,
         NEW g, IsSum(g, f, U), NEW h, IsSum(h, f, S)
  PROVE  h[S] = g[S]
<1>. DEFINE N == Cardinality(S)
            Q == {n \in 0..N : \A s \in SUBSET S : Cardinality(s) <= n => h[s] = g[s]}
<1>1. IsFiniteSet(S) /\ N \in Nat
  BY SubsetFacts
<1>2. \A s \in SUBSET S :
        /\ Cardinality(s) \in 0..N /\ (Cardinality(s) = 0 <=> s = {})
        /\ s # {} => /\ s \ {Some(s)} \in SUBSET S
                     /\ Cardinality(s \ {Some(s)}) = Cardinality(s) - 1
  BY <1>1, SubsetFacts
<1>3. \A s \in SUBSET S :
        /\ h[s] = IF s = {} THEN 0 ELSE f[Some(s)] + h[s \ {Some(s)}]
        /\ g[s] = IF s = {} THEN 0 ELSE f[Some(s)] + g[s \ {Some(s)}]
  <2>1. \A s \in SUBSET S : h[s] = IF s = {} THEN 0 ELSE f[Some(s)] + h[s \ {Some(s)}]
    BY DEF IsSum
  <2>2. \A s \in SUBSET U : g[s] = IF s = {} THEN 0 ELSE f[Some(s)] + g[s \ {Some(s)}]
    BY DEF IsSum
  <2>. QED  BY <2>1, <2>2
<1>4. 0 \in Q
  <2>1. ASSUME NEW s \in SUBSET S, Cardinality(s) <= 0 PROVE s = {}
    <3>1. Cardinality(s) \in 0..N /\ (Cardinality(s) = 0 <=> s = {})
      BY <1>2
    <3>. QED  BY <1>1, <2>1, <3>1
  <2>2. h[{}] = g[{}]
    BY <1>3
  <2>. QED  BY <1>1, <2>1, <2>2
<1>5. ASSUME NEW n \in Q, n < N PROVE n + 1 \in Q
  <2>1. ASSUME NEW s \in SUBSET S, Cardinality(s) <= n + 1 PROVE h[s] = g[s]
    <3>1. CASE s = {}
      BY <1>3, <3>1
    <3>2. CASE s # {}
      <4>1. s \ {Some(s)} \in SUBSET S /\ Cardinality(s \ {Some(s)}) <= n
        BY <1>2, <2>1, <3>2
      <4>2. h[s \ {Some(s)}] = g[s \ {Some(s)}]
        BY <4>1
      <4>. QED  BY <1>3, <3>2, <4>2
    <3>. QED  BY <3>1, <3>2
  <2>2. n + 1 \in 0..N
    BY <1>1, <1>5
  <2>. QED  BY <2>1, <2>2
<1>6. N \in Q
  <2>1. Q \in SUBSET (0..N)
    OBVIOUS
  <2>. HIDE DEF Q
  <2>2. Q = 0..N
    BY <1>1, <1>4, <1>5, <2>1, BoundedInduction
  <2>. QED  BY <1>1, <2>2
<1>. QED  BY <1>1, <1>6

\* A sum is that of the rest and any one.
LEMMA SumFacts ==
  ASSUME NEW U, IsFiniteSet(U), NEW f, \A x \in U : f[x] \in Int
  PROVE  /\ SumFunctionOnSet(f, {}) = 0
         /\ \A S \in SUBSET U :
              /\ SumFunctionOnSet(f, S) \in Int
              /\ \A x \in S : SumFunctionOnSet(f, S) = f[x] + SumFunctionOnSet(f, S \ {x})
<1>1. PICK g \in [SUBSET U -> Int] : IsSum(g, f, U)
  BY SumExists
<1>2. \A S \in SUBSET U : SumFunctionOnSet(f, S) = g[S]
  <2>. TAKE S \in SUBSET U
  <2>1. IsFiniteSet(S) /\ \A x \in S : f[x] \in Int
    BY SubsetFacts
  <2>2. \E h : IsSum(h, f, S)
    BY <2>1, SumExists
  <2>. DEFINE iter == CHOOSE h : IsSum(h, f, S)
  <2>3. IsSum(iter, f, S)
    BY <2>2
  <2>4. SumFunctionOnSet(f, S) = iter[S]
    BY DEF SumFunctionOnSet, FoldFunctionOnSet, MapThenFoldSet, IsSum, Some
  <2>. HIDE DEF iter
  <2>5. iter[S] = g[S]
    BY <1>1, <2>3, SumUnique
  <2>. QED  BY <2>4, <2>5
<1>3. \A s \in SUBSET U : g[s] = IF s = {} THEN 0 ELSE f[Some(s)] + g[s \ {Some(s)}]
  BY <1>1 DEF IsSum
<1>. DEFINE N == Cardinality(U)
            Q == {n \in 0..N : \A s \in SUBSET U : Cardinality(s) <= n =>
                                 \A x \in s : g[s] = f[x] + g[s \ {x}]}
<1>4. N \in Nat
  BY FS_CardinalityType
<1>5. \A s \in SUBSET U :
        /\ Cardinality(s) \in 0..N /\ (Cardinality(s) = 0 <=> s = {})
        /\ s # {} => Some(s) \in s
        /\ \A x \in s : s \ {x} \in SUBSET U /\ Cardinality(s \ {x}) = Cardinality(s) - 1
  BY SubsetFacts
<1>6. 0 \in Q
  <2>1. ASSUME NEW s \in SUBSET U, Cardinality(s) <= 0 PROVE s = {}
    <3>1. Cardinality(s) \in 0..N /\ (Cardinality(s) = 0 <=> s = {})
      BY <1>5
    <3>. QED  BY <1>4, <2>1, <3>1
  <2>. QED  BY <1>4, <2>1
<1>7. ASSUME NEW n \in Q, n < N PROVE n + 1 \in Q
  <2>1. ASSUME NEW s \in SUBSET U, Cardinality(s) <= n + 1, NEW x \in s
        PROVE  g[s] = f[x] + g[s \ {x}]
    <3>. DEFINE y == Some(s)
                sx == s \ {x}
                sy == s \ {y}
                sxy == sx \ {y}
    <3>1. y \in s /\ g[s] = f[y] + g[sy] /\ f[x] \in Int /\ f[y] \in Int
      BY <1>3, <1>5
    <3>2. CASE x = y
      BY <3>1, <3>2
    <3>3. CASE x # y
      <4>1. /\ sx \in SUBSET U /\ Cardinality(sx) <= n /\ y \in sx
            /\ sy \in SUBSET U /\ Cardinality(sy) <= n /\ x \in sy
            /\ sy \ {x} = sxy /\ sxy \in SUBSET U
        <5>1. Cardinality(sx) = Cardinality(s) - 1 /\ Cardinality(sy) = Cardinality(s) - 1
              /\ Cardinality(s) \in Nat /\ n \in Nat
          BY <1>5, <2>1, <3>1
        <5>2. Cardinality(sx) <= n /\ Cardinality(sy) <= n
          BY <2>1, <5>1
        <5>. QED  BY <2>1, <3>1, <3>3, <5>2
      <4>. HIDE DEF y, sx, sy, sxy
      <4>2. g[sx] = f[y] + g[sx \ {y}] /\ g[sy] = f[x] + g[sy \ {x}]
        BY <4>1
      <4>3. g[sx] = f[y] + g[sxy] /\ g[sy] = f[x] + g[sxy] /\ g[sxy] \in Int
        BY <1>1, <4>1, <4>2 DEF sxy
      <4>4. g[s] = f[x] + g[sx]
        BY <3>1, <4>3
      <4>. QED  BY <4>4 DEF sx
    <3>. QED  BY <3>2, <3>3
  <2>2. n + 1 \in 0..N
    BY <1>4, <1>7
  <2>. QED  BY <2>1, <2>2
<1>8. N \in Q
  <2>1. Q \in SUBSET (0..N)
    OBVIOUS
  <2>. HIDE DEF Q
  <2>2. Q = 0..N
    BY <1>4, <1>6, <1>7, <2>1, BoundedInduction
  <2>. QED  BY <1>4, <2>2
<1>9. ASSUME NEW s \in SUBSET U, NEW x \in s
      PROVE  g[s] = f[x] + g[s \ {x}] /\ s \ {x} \in SUBSET U
  <2>1. Cardinality(s) \in 0..N
    BY <1>5
  <2>2. Cardinality(s) <= N
    BY <1>4, <2>1
  <2>. QED  BY <1>8, <2>2
<1>10. {} \in SUBSET U /\ g[{}] = 0
  BY <1>3
<1>. HIDE DEF N, Q
<1>. QED  BY <1>1, <1>2, <1>9, <1>10

LEMMA SumOrder ==
  ASSUME NEW U, IsFiniteSet(U), NEW f, NEW g, \A x \in U : f[x] \in Int /\ g[x] \in Int,
         \A x \in U : f[x] <= g[x]
  PROVE  /\ SumFunctionOnSet(f, U) <= SumFunctionOnSet(g, U)
         /\ (\A x \in U : 0 <= f[x]) => 0 <= SumFunctionOnSet(f, U)
         /\ (\A x \in U : f[x] = 0) => SumFunctionOnSet(f, U) = 0
<1>. DEFINE F(s) == SumFunctionOnSet(f, s)
            G(s) == SumFunctionOnSet(g, s)
            N == Cardinality(U)
            Pos == \A x \in U : 0 <= f[x]
            Zero == \A x \in U : f[x] = 0
            Q == {n \in 0..N : \A s \in SUBSET U : Cardinality(s) <= n =>
                    F(s) <= G(s) /\ (Pos => 0 <= F(s)) /\ (Zero => F(s) = 0)}
<1>1. N \in Nat
  BY FS_CardinalityType
<1>2. \A s \in SUBSET U :
        /\ Cardinality(s) \in 0..N /\ (Cardinality(s) = 0 <=> s = {})
        /\ s # {} => Some(s) \in s
        /\ \A x \in s : s \ {x} \in SUBSET U /\ Cardinality(s \ {x}) = Cardinality(s) - 1
  BY SubsetFacts
<1>3. F({}) = 0 /\ G({}) = 0
  <2>1. F({}) = 0
    BY SumFacts
  <2>2. G({}) = 0
    BY SumFacts
  <2>. QED  BY <2>1, <2>2
<1>4. \A s \in SUBSET U :
        /\ F(s) \in Int /\ G(s) \in Int
        /\ \A x \in s : F(s) = f[x] + F(s \ {x}) /\ G(s) = g[x] + G(s \ {x})
  <2>1. \A s \in SUBSET U : F(s) \in Int /\ \A x \in s : F(s) = f[x] + F(s \ {x})
    BY SumFacts
  <2>2. \A s \in SUBSET U : G(s) \in Int /\ \A x \in s : G(s) = g[x] + G(s \ {x})
    BY SumFacts
  <2>. QED  BY <2>1, <2>2
<1>. HIDE DEF F, G, Pos, Zero
<1>5. 0 \in Q
  <2>1. ASSUME NEW s \in SUBSET U, Cardinality(s) <= 0 PROVE s = {}
    <3>1. Cardinality(s) \in 0..N /\ (Cardinality(s) = 0 <=> s = {})
      BY <1>2
    <3>. QED  BY <1>1, <2>1, <3>1
  <2>2. 0 <= 0
    OBVIOUS
  <2>. QED  BY <1>1, <1>3, <2>1, <2>2
<1>6. ASSUME NEW n \in Q, n < N PROVE n + 1 \in Q
  <2>1. ASSUME NEW s \in SUBSET U, Cardinality(s) <= n + 1
        PROVE  F(s) <= G(s) /\ (Pos => 0 <= F(s)) /\ (Zero => F(s) = 0)
    <3>1. CASE s = {}
      BY <1>3, <3>1
    <3>2. CASE s # {}
      <4>. DEFINE x == Some(s)
                  t == s \ {x}
      <4>1. x \in U /\ x \in s /\ t \in SUBSET U /\ Cardinality(t) = Cardinality(s) - 1
            /\ Cardinality(s) \in 0..N
        BY <1>2, <3>2
      <4>2. F(s) = f[x] + F(t) /\ G(s) = g[x] + G(t)
        BY <1>4, <4>1
      <4>3. F(t) \in Int /\ G(t) \in Int /\ f[x] \in Int /\ g[x] \in Int /\ f[x] <= g[x]
            /\ (Pos => 0 <= f[x]) /\ (Zero => f[x] = 0)
        BY <1>4, <4>1 DEF Pos, Zero
      <4>. HIDE DEF x, t
      <4>4. Cardinality(t) <= n
        BY <1>1, <1>6, <2>1, <4>1
      <4>5. F(t) <= G(t) /\ (Pos => 0 <= F(t)) /\ (Zero => F(t) = 0)
        BY <4>1, <4>4
      <4>6. F(s) <= G(s)
        BY <4>2, <4>3, <4>5
      <4>7. Pos => 0 <= F(s)
        BY <4>2, <4>3, <4>5
      <4>8. Zero => F(s) = 0
        BY <4>2, <4>3, <4>5
      <4>. QED  BY <4>6, <4>7, <4>8
    <3>. QED  BY <3>1, <3>2
  <2>2. n + 1 \in 0..N
    BY <1>1, <1>6
  <2>. QED  BY <2>1, <2>2
<1>7. N \in Q
  <2>1. Q \in SUBSET (0..N)
    OBVIOUS
  <2>. HIDE DEF Q
  <2>2. Q = 0..N
    BY <1>1, <1>5, <1>6, <2>1, BoundedInduction
  <2>. QED  BY <1>1, <2>2
<1>8. F(U) <= G(U) /\ (Pos => 0 <= F(U)) /\ (Zero => F(U) = 0)
  <2>1. N <= N /\ U \in SUBSET U
    BY <1>1
  <2>. QED  BY <1>7, <2>1
<1>. QED  BY <1>8 DEF F, G, Pos, Zero

LEMMA SumAgree ==
  ASSUME NEW U, IsFiniteSet(U), NEW f, NEW g, \A x \in U : f[x] \in Int /\ f[x] = g[x]
  PROVE  SumFunctionOnSet(f, U) = SumFunctionOnSet(g, U)
<1>1. SumFunctionOnSet(f, U) <= SumFunctionOnSet(g, U)
  BY SumOrder
<1>2. SumFunctionOnSet(g, U) <= SumFunctionOnSet(f, U)
  BY SumOrder
<1>3. SumFunctionOnSet(f, U) \in Int /\ SumFunctionOnSet(g, U) \in Int
  <2>1. SumFunctionOnSet(f, U) \in Int
    BY SumFacts
  <2>2. SumFunctionOnSet(g, U) \in Int
    BY SumFacts
  <2>. QED  BY <2>1, <2>2
<1>. QED  BY <1>1, <1>2, <1>3

LEMMA SumSplit ==
  ASSUME NEW U, IsFiniteSet(U), NEW f, \A x \in U : f[x] \in Int, NEW D \in SUBSET U
  PROVE  SumFunctionOnSet(f, U) = SumFunctionOnSet(f, D) + SumFunctionOnSet(f, U \ D)
<1>. DEFINE F(s) == SumFunctionOnSet(f, s)
            E == U \ D
            N == Cardinality(D)
            Q == {n \in 0..N : \A s \in SUBSET D : Cardinality(s) <= n => F(s \union E) = F(s) + F(E)}
<1>1. IsFiniteSet(D) /\ N \in Nat
  BY SubsetFacts
<1>2. \A s \in SUBSET D :
        /\ Cardinality(s) \in 0..N /\ (Cardinality(s) = 0 <=> s = {})
        /\ s # {} => Some(s) \in s
        /\ \A x \in s : s \ {x} \in SUBSET D /\ Cardinality(s \ {x}) = Cardinality(s) - 1
  BY <1>1, SubsetFacts
<1>3. F({}) = 0
  BY SumFacts
<1>4. \A s \in SUBSET U : F(s) \in Int /\ \A x \in s : F(s) = f[x] + F(s \ {x})
  BY SumFacts
<1>5. E \in SUBSET U /\ F(E) \in Int
  BY <1>4
<1>. HIDE DEF F
<1>6. 0 \in Q
  <2>1. ASSUME NEW s \in SUBSET D, Cardinality(s) <= 0 PROVE s = {}
    <3>1. Cardinality(s) \in 0..N /\ (Cardinality(s) = 0 <=> s = {})
      BY <1>2
    <3>. QED  BY <1>1, <2>1, <3>1
  <2>2. F({} \union E) = F({}) + F(E)
    <3>1. {} \union E = E
      OBVIOUS
    <3>. QED  BY <1>3, <1>5, <3>1
  <2>. HIDE DEF E
  <2>. QED  BY <1>1, <2>1, <2>2
<1>7. ASSUME NEW n \in Q, n < N PROVE n + 1 \in Q
  <2>1. ASSUME NEW s \in SUBSET D, Cardinality(s) <= n + 1
        PROVE  F(s \union E) = F(s) + F(E)
    <3>1. CASE s = {}
      <4>1. s \union E = E
        BY <3>1
      <4>. QED  BY <1>3, <1>5, <3>1, <4>1
    <3>2. CASE s # {}
      <4>. DEFINE x == Some(s)
                  t == s \ {x}
      <4>1. x \in s /\ t \in SUBSET D /\ Cardinality(t) = Cardinality(s) - 1
            /\ Cardinality(s) \in 0..N
        BY <1>2, <3>2
      <4>2. (s \union E) \ {x} = t \union E /\ x \in s \union E /\ s \union E \in SUBSET U
            /\ s \in SUBSET U /\ t \in SUBSET U /\ x \in U
        BY <4>1
      <4>. HIDE DEF x, t, E
      <4>3. F(s \union E) = f[x] + F(t \union E)
        BY <1>4, <4>2
      <4>4. F(s) = f[x] + F(t)
        BY <1>4, <4>1, <4>2 DEF t
      <4>5. Cardinality(t) <= n
        BY <1>1, <1>7, <2>1, <4>1
      <4>6. F(t \union E) = F(t) + F(E)
        BY <4>1, <4>5
      <4>7. F(t) \in Int /\ f[x] \in Int
        BY <1>4, <4>2
      <4>. QED  BY <1>5, <4>3, <4>4, <4>6, <4>7
    <3>. QED  BY <3>1, <3>2
  <2>2. n + 1 \in 0..N
    BY <1>1, <1>7
  <2>. QED  BY <2>1, <2>2
<1>8. N \in Q
  <2>1. Q \in SUBSET (0..N)
    OBVIOUS
  <2>. HIDE DEF Q
  <2>2. Q = 0..N
    BY <1>1, <1>6, <1>7, <2>1, BoundedInduction
  <2>. QED  BY <1>1, <2>2
<1>9. F(D \union E) = F(D) + F(E)
  <2>1. N <= N /\ D \in SUBSET D
    BY <1>1
  <2>. QED  BY <1>8, <2>1
<1>10. D \union E = U
  OBVIOUS
<1>. QED  BY <1>9, <1>10 DEF F

\* One value of many changes.
LEMMA SumPut ==
  ASSUME NEW U, IsFiniteSet(U), NEW f, NEW g, NEW u \in U, \A x \in U : f[x] \in Int,
         g[u] \in Int, \A x \in U \ {u} : g[x] = f[x]
  PROVE  SumFunctionOnSet(g, U) = SumFunctionOnSet(f, U) - f[u] + g[u]
<1>. DEFINE V == U \ {u}
            F == SumFunctionOnSet(f, V)
            G == SumFunctionOnSet(g, V)
<1>1. IsFiniteSet(V) /\ U \in SUBSET U /\ V \in SUBSET U
  BY SubsetFacts
<1>2. \A x \in U : g[x] \in Int
  OBVIOUS
<1>3. SumFunctionOnSet(f, U) = f[u] + F /\ F \in Int
  BY <1>1, SumFacts
<1>4. SumFunctionOnSet(g, U) = g[u] + G
  BY <1>1, <1>2, SumFacts
<1>5. F = G
  <2>1. \A x \in V : f[x] \in Int /\ f[x] = g[x]
    OBVIOUS
  <2>. HIDE DEF V
  <2>. QED  BY <1>1, <2>1, SumAgree
<1>. HIDE DEF F, G
<1>. QED  BY <1>3, <1>4, <1>5

-----------------------------------------------------------------------------

StringObj   == [type : {"string"}, text : Text, bytes : Nat]
ArrayObj    == [type : {"array"}, count : Nat, capacity : Nat, bytes : Nat]
FunctionObj == [type : {"function"}, count : Nat, capacity : Nat, values : Nat,
                constants : Nat, bytes : Nat]
NativeObj   == [type : {"native"}, bytes : Nat]

Object == StringObj \union ArrayObj \union FunctionObj \union NativeObj

Heap == [Obj -> Object \union {NoObj}]

\* What freeObject gives back for the object and its buffers.
Size(x) == Owned(x) + SizeOf[x.type]

\* An object is as large as the code believes, and what is in it has room.
Fits(x) ==
  /\ Size(x) <= x.bytes
  /\ x.type \in {"array", "function"} => x.count <= x.capacity
  /\ x.type = "function" => x.values <= x.constants

Bytes(x) == IF x = NoObj THEN 0 ELSE x.bytes
Least(x) == IF x = NoObj THEN 0 ELSE Size(x)

Total(h) == SumFunctionOnSet([o \in Obj |-> Bytes(h[o])], Obj)
TotalLeast(h) == SumFunctionOnSet([o \in Obj |-> Least(h[o])], Obj)

\* Texts are interned.
OneOfEach(h) ==
  \A o1, o2 \in Obj : h[o1].type = "string" /\ h[o2].type = "string" /\ h[o1].text = h[o2].text => o1 = o2

Machine == [heap : Heap, strings : Nat, globals : [count : Nat, capacity : Nat], tables : Nat,
            nq_bytes_allocated : Nat, nq_gc_threshold : Nat]

EntryBytes(n) == SizeOf["Entry"] * n.globals.capacity
PointerBytes(n) == SizeOf["pointer"] * n.strings

\* A machine between two calls of the allocator.
Sound(n) ==
  /\ n \in Machine
  /\ \A o \in Obj : n.heap[o] # NoObj => Fits(n.heap[o])
  /\ OneOfEach(n.heap)
  /\ n.tables = EntryBytes(n) + PointerBytes(n)
  /\ n.globals.count <= n.globals.capacity

Roomy(n) == Cardinality(Strings(n)) <= n.strings

\* The counter is between the two sums; lo and hi are for blocks in flight
\* and for bytes that were lost.
Between(n, lo, hi) ==
  /\ n.tables + Total(n.heap) + lo <= n.nq_bytes_allocated
  /\ n.nq_bytes_allocated <= n.tables + TotalLeast(n.heap) + hi

Inv ==
  /\ Sound(m) /\ Roomy(m)
  /\ unseen \in Nat /\ unreturned \in Nat
  /\ Between(m, - unseen, unreturned)
  /\ nq_gc_vm \in BOOLEAN

-----------------------------------------------------------------------------
(* Sizes. *)

LEMMA Constants ==
  /\ IsFiniteSet(Obj) /\ MinCapacity \in Nat \ {0} /\ MinThreshold \in Nat /\ Spare \in Nat
  /\ \A t \in Text : Length[t] \in Nat
  /\ \A s \in {"string", "array", "function", "native", "chunk", "Value", "Entry", "pointer", "int"} :
       SizeOf[s] \in Nat
<1>. QED  BY AllocatorAssumption

LEMMA Capacities ==
  ASSUME NEW cap \in Nat
  PROVE  /\ GROW_CAPACITY(cap) \in Nat /\ cap + 1 <= GROW_CAPACITY(cap)
         /\ \A count \in Nat : count <= cap =>
              Room(count, cap) \in Nat /\ count + 1 <= Room(count, cap)
         /\ ValueBytes(cap) \in Nat /\ CodeBytes(cap) \in Nat
         /\ SizeOf["Entry"] * cap \in Nat /\ SizeOf["pointer"] * cap \in Nat
<1>1. GROW_CAPACITY(cap) \in Nat /\ cap + 1 <= GROW_CAPACITY(cap)
  BY Constants DEF GROW_CAPACITY
<1>2. \A count \in Nat : count <= cap => Room(count, cap) \in Nat /\ count + 1 <= Room(count, cap)
  BY <1>1 DEF Room
<1>3. SizeOf["int"] \in Nat /\ SizeOf["Value"] \in Nat /\ SizeOf["Entry"] \in Nat /\ SizeOf["pointer"] \in Nat
  BY Constants
<1>4. ValueBytes(cap) \in Nat /\ CodeBytes(cap) \in Nat
  BY <1>3 DEF ValueBytes, CodeBytes
<1>5. SizeOf["Entry"] * cap \in Nat /\ SizeOf["pointer"] * cap \in Nat
  BY <1>3
<1>. QED  BY <1>1, <1>2, <1>4, <1>5

LEMMA StringSize ==
  ASSUME NEW x \in StringObj
  PROVE  /\ x.type = "string" /\ x.text \in Text /\ x.bytes \in Nat
         /\ Size(x) \in Nat /\ Size(x) = Length[x.text] + 1 + SizeOf["string"]
<1>1. x.type = "string" /\ x.text \in Text /\ x.bytes \in Nat
  BY DEF StringObj
<1>2. Length[x.text] \in Nat /\ SizeOf["string"] \in Nat
  BY <1>1, Constants
<1>3. Size(x) = Length[x.text] + 1 + SizeOf["string"]
  BY <1>1 DEF Size, Owned
<1>. QED  BY <1>1, <1>2, <1>3

LEMMA ArraySize ==
  ASSUME NEW x \in ArrayObj
  PROVE  /\ x.type = "array" /\ x.count \in Nat /\ x.capacity \in Nat /\ x.bytes \in Nat
         /\ Size(x) \in Nat /\ Size(x) = ValueBytes(x.capacity) + SizeOf["array"]
<1>1. x.type = "array" /\ x.count \in Nat /\ x.capacity \in Nat /\ x.bytes \in Nat
  BY DEF ArrayObj
<1>2. ValueBytes(x.capacity) \in Nat /\ SizeOf["array"] \in Nat
  BY <1>1, Constants, Capacities
<1>3. Size(x) = ValueBytes(x.capacity) + SizeOf["array"]
  BY <1>1 DEF Size, Owned
<1>. QED  BY <1>1, <1>2, <1>3

LEMMA FunctionSize ==
  ASSUME NEW x \in FunctionObj
  PROVE  /\ x.type = "function" /\ x.count \in Nat /\ x.capacity \in Nat /\ x.values \in Nat
         /\ x.constants \in Nat /\ x.bytes \in Nat
         /\ Size(x) \in Nat
         /\ Size(x) = SizeOf["chunk"] + CodeBytes(x.capacity) + ValueBytes(x.constants)
                      + SizeOf["function"]
<1>1. /\ x.type = "function" /\ x.count \in Nat /\ x.capacity \in Nat /\ x.values \in Nat
      /\ x.constants \in Nat /\ x.bytes \in Nat
  BY DEF FunctionObj
<1>2. /\ CodeBytes(x.capacity) \in Nat /\ ValueBytes(x.constants) \in Nat
      /\ SizeOf["function"] \in Nat /\ SizeOf["chunk"] \in Nat
  BY <1>1, Constants, Capacities
<1>3. Size(x) = SizeOf["chunk"] + CodeBytes(x.capacity) + ValueBytes(x.constants)
                + SizeOf["function"]
  BY <1>1 DEF Size, Owned
<1>. QED  BY <1>1, <1>2, <1>3

LEMMA NativeSize ==
  ASSUME NEW x \in NativeObj
  PROVE  x.type = "native" /\ x.bytes \in Nat /\ Size(x) \in Nat /\ Size(x) = SizeOf["native"]
<1>1. x.type = "native" /\ x.bytes \in Nat
  BY DEF NativeObj
<1>2. SizeOf["native"] \in Nat
  BY Constants
<1>3. Size(x) = 0 + SizeOf["native"]
  BY <1>1 DEF Size, Owned
<1>. QED  BY <1>1, <1>2, <1>3

LEMMA ObjectFacts ==
  ASSUME NEW x \in Object
  PROVE  /\ x # NoObj /\ x.bytes \in Nat /\ Size(x) \in Nat /\ SizeOf[x.type] \in Nat
         /\ x.type = "string" => x \in StringObj
         /\ x.type = "array" => x \in ArrayObj
         /\ x.type = "function" => x \in FunctionObj
         /\ x.type \in {"string", "array", "function", "native"}
<1>1. NoObj.type = "none"
  BY DEF NoObj
<1>2. CASE x \in StringObj
  BY <1>1, <1>2, StringSize, Constants
<1>3. CASE x \in ArrayObj
  BY <1>1, <1>3, ArraySize, Constants
<1>4. CASE x \in FunctionObj
  BY <1>1, <1>4, FunctionSize, Constants
<1>5. CASE x \in NativeObj
  BY <1>1, <1>5, NativeSize, Constants
<1>. QED  BY <1>2, <1>3, <1>4, <1>5 DEF Object

-----------------------------------------------------------------------------
(* The two sums. *)

LEMMA HeapFacts ==
  ASSUME NEW h \in Heap
  PROVE  /\ \A o \in Obj : Bytes(h[o]) \in Nat /\ Least(h[o]) \in Nat
         /\ \A o \in Obj : h[o] \in Object \union {NoObj}
         /\ Total(h) \in Nat /\ TotalLeast(h) \in Nat
<1>1. \A o \in Obj : h[o] \in Object \union {NoObj}
  BY DEF Heap
<1>2. \A o \in Obj : Bytes(h[o]) \in Nat /\ Least(h[o]) \in Nat
  BY <1>1, ObjectFacts DEF Bytes, Least
<1>. DEFINE b == [o \in Obj |-> Bytes(h[o])]
            l == [o \in Obj |-> Least(h[o])]
<1>3. /\ \A o \in Obj : b[o] \in Int /\ b[o] <= b[o] /\ 0 <= b[o]
      /\ \A o \in Obj : l[o] \in Int /\ l[o] <= l[o] /\ 0 <= l[o]
  BY <1>2
<1>4. Total(h) = SumFunctionOnSet(b, Obj) /\ TotalLeast(h) = SumFunctionOnSet(l, Obj)
  BY DEF Total, TotalLeast
<1>. HIDE DEF b, l
<1>5. SumFunctionOnSet(b, Obj) \in Int /\ 0 <= SumFunctionOnSet(b, Obj)
  BY <1>3, Constants, SumFacts, SumOrder
<1>6. SumFunctionOnSet(l, Obj) \in Int /\ 0 <= SumFunctionOnSet(l, Obj)
  BY <1>3, Constants, SumFacts, SumOrder
<1>. QED  BY <1>1, <1>2, <1>4, <1>5, <1>6

\* An object is as large as the code believes, or larger.
LEMMA LeastIsLess ==
  ASSUME NEW h \in Heap, \A o \in Obj : h[o] # NoObj => Fits(h[o])
  PROVE  TotalLeast(h) <= Total(h)
<1>. DEFINE b == [o \in Obj |-> Bytes(h[o])]
            l == [o \in Obj |-> Least(h[o])]
<1>1. \A o \in Obj : l[o] <= b[o] /\ l[o] \in Int /\ b[o] \in Int
  <2>. TAKE o \in Obj
  <2>1. Least(h[o]) <= Bytes(h[o])
    BY DEF Least, Bytes, Fits
  <2>. QED  BY <2>1, HeapFacts
<1>2. Total(h) = SumFunctionOnSet(b, Obj) /\ TotalLeast(h) = SumFunctionOnSet(l, Obj)
  BY DEF Total, TotalLeast
<1>. HIDE DEF b, l
<1>3. SumFunctionOnSet(l, Obj) <= SumFunctionOnSet(b, Obj)
  BY <1>1, Constants, SumOrder
<1>. QED  BY <1>2, <1>3

\* One place of the heap changes.
LEMMA TotalPut ==
  ASSUME NEW h \in Heap, NEW o \in Obj, NEW x \in Object \union {NoObj}
  PROVE  LET h2 == [h EXCEPT ![o] = x] IN
         /\ h2 \in Heap
         /\ Total(h2) = Total(h) - Bytes(h[o]) + Bytes(x)
         /\ TotalLeast(h2) = TotalLeast(h) - Least(h[o]) + Least(x)
         /\ Least(h[o]) <= TotalLeast(h)
<1>. DEFINE h2 == [h EXCEPT ![o] = x]
            b == [p \in Obj |-> Bytes(h[p])]
            l == [p \in Obj |-> Least(h[p])]
            b2 == [p \in Obj |-> Bytes(h2[p])]
            l2 == [p \in Obj |-> Least(h2[p])]
<1>1. h2 \in Heap /\ h2[o] = x /\ \A p \in Obj \ {o} : h2[p] = h[p]
  BY DEF Heap
<1>2. Bytes(x) \in Int /\ Least(x) \in Int
  BY <1>1, HeapFacts
<1>3. \A p \in Obj : b[p] \in Int /\ l[p] \in Int
  BY HeapFacts
<1>4. /\ b[o] = Bytes(h[o]) /\ b2[o] = Bytes(x) /\ \A p \in Obj \ {o} : b2[p] = b[p]
      /\ l[o] = Least(h[o]) /\ l2[o] = Least(x) /\ \A p \in Obj \ {o} : l2[p] = l[p]
  BY <1>1
<1>5. /\ Total(h) = SumFunctionOnSet(b, Obj) /\ TotalLeast(h) = SumFunctionOnSet(l, Obj)
      /\ Total(h2) = SumFunctionOnSet(b2, Obj) /\ TotalLeast(h2) = SumFunctionOnSet(l2, Obj)
  BY DEF Total, TotalLeast
<1>. DEFINE V == Obj \ {o}
<1>6. V \in SUBSET Obj /\ Obj \in SUBSET Obj /\ \A p \in V : l[p] \in Int /\ l[p] <= l[p] /\ 0 <= l[p]
  BY <1>3, HeapFacts
<1>7. IsFiniteSet(V)
  BY <1>6, Constants, SubsetFacts
<1>8. SumFunctionOnSet(l, Obj) = l[o] + SumFunctionOnSet(l, V) /\ SumFunctionOnSet(l, V) \in Int
  <2>1. /\ \A p \in Obj : SumFunctionOnSet(l, Obj) = l[p] + SumFunctionOnSet(l, Obj \ {p})
        /\ SumFunctionOnSet(l, V) \in Int
    <3>. HIDE DEF l, V
    <3>. QED  BY SMTT(30), <1>3, <1>6, Constants, SumFacts
  <2>. QED  BY <2>1
<1>. HIDE DEF b, l, b2, l2, h2, V
<1>9. SumFunctionOnSet(b2, Obj) = SumFunctionOnSet(b, Obj) - b[o] + b2[o]
  <2>1. /\ \A p \in Obj : b[p] \in Int
        /\ b2[o] \in Int /\ \A p \in Obj \ {o} : b2[p] = b[p]
    BY <1>2, <1>3, <1>4
  <2>. QED  BY <2>1, Constants, SumPut
<1>10. SumFunctionOnSet(l2, Obj) = SumFunctionOnSet(l, Obj) - l[o] + l2[o]
  <2>1. /\ \A p \in Obj : l[p] \in Int
        /\ l2[o] \in Int /\ \A p \in Obj \ {o} : l2[p] = l[p]
    BY <1>2, <1>3, <1>4
  <2>. QED  BY <2>1, Constants, SumPut
<1>11. 0 <= SumFunctionOnSet(l, V)
  BY <1>6, <1>7, SumOrder
<1>12. l[o] <= SumFunctionOnSet(l, Obj)
  BY <1>3, <1>8, <1>11
<1>13. Least(h[o]) <= TotalLeast(h)
  BY <1>4, <1>5, <1>12
<1>14. /\ Total(h2) = Total(h) - Bytes(h[o]) + Bytes(x)
       /\ TotalLeast(h2) = TotalLeast(h) - Least(h[o]) + Least(x)
  BY <1>4, <1>5, <1>9, <1>10
<1>. QED  BY <1>1, <1>13, <1>14 DEF h2

\* Objects go.
LEMMA TotalFree ==
  ASSUME NEW h \in Heap, \A o \in Obj : h[o] # NoObj => Fits(h[o]),
         NEW D \in SUBSET Obj, \A o \in D : h[o] # NoObj
  PROVE  LET h2 == [o \in Obj |-> IF o \in D THEN NoObj ELSE h[o]]
             freed == SumFunction([o \in D |-> Owned(h[o]) + SizeOf[h[o].type]])
         IN  /\ h2 \in Heap /\ freed \in Nat
             /\ Total(h2) <= Total(h) - freed
             /\ TotalLeast(h2) = TotalLeast(h) - freed
<1>. DEFINE h2 == [o \in Obj |-> IF o \in D THEN NoObj ELSE h[o]]
            E == Obj \ D
            g == [o \in D |-> Owned(h[o]) + SizeOf[h[o].type]]
            b == [o \in Obj |-> Bytes(h[o])]
            l == [o \in Obj |-> Least(h[o])]
            b2 == [o \in Obj |-> Bytes(h2[o])]
            l2 == [o \in Obj |-> Least(h2[o])]
<1>1. h2 \in Heap /\ (\A o \in D : h2[o] = NoObj) /\ (\A o \in E : h2[o] = h[o])
  BY DEF Heap
<1>2. \A o \in Obj : b[o] \in Int /\ l[o] \in Int /\ 0 <= l[o]
  BY HeapFacts
<1>3. \A o \in Obj : b2[o] \in Int /\ l2[o] \in Int
  <2>. HIDE DEF h2
  <2>. QED  BY <1>1, HeapFacts
<1>4. \A o \in D : g[o] = l[o] /\ l[o] <= b[o]
  <2>. TAKE o \in D
  <2>1. h[o] # NoObj /\ Fits(h[o])
    OBVIOUS
  <2>. QED  BY <2>1 DEF Least, Bytes, Fits, Size
<1>5. \A o \in D : b2[o] = 0 /\ l2[o] = 0
  BY <1>1 DEF Bytes, Least
<1>6. \A o \in E : b2[o] = b[o] /\ l2[o] = l[o]
  BY <1>1
<1>7. /\ Total(h) = SumFunctionOnSet(b, Obj) /\ TotalLeast(h) = SumFunctionOnSet(l, Obj)
      /\ Total(h2) = SumFunctionOnSet(b2, Obj) /\ TotalLeast(h2) = SumFunctionOnSet(l2, Obj)
  BY DEF Total, TotalLeast
<1>8. SumFunction(g) = SumFunctionOnSet(g, D)
  BY DEF SumFunction
<1>9. D \in SUBSET Obj /\ E \in SUBSET Obj /\ \A o \in D : o \in Obj
  OBVIOUS
<1>10. \A o \in E : o \in Obj
  OBVIOUS
<1>. HIDE DEF h2, E, g, b, l, b2, l2
<1>11. IsFiniteSet(D) /\ IsFiniteSet(E)
  BY <1>9, Constants, SubsetFacts
<1>12. /\ SumFunctionOnSet(b, Obj) = SumFunctionOnSet(b, D) + SumFunctionOnSet(b, E)
       /\ SumFunctionOnSet(l, Obj) = SumFunctionOnSet(l, D) + SumFunctionOnSet(l, E)
       /\ SumFunctionOnSet(b2, Obj) = SumFunctionOnSet(b2, D) + SumFunctionOnSet(b2, E)
       /\ SumFunctionOnSet(l2, Obj) = SumFunctionOnSet(l2, D) + SumFunctionOnSet(l2, E)
  <2>1. SumFunctionOnSet(b, Obj) = SumFunctionOnSet(b, D) + SumFunctionOnSet(b, Obj \ D)
    BY <1>2, Constants, SumSplit
  <2>2. SumFunctionOnSet(l, Obj) = SumFunctionOnSet(l, D) + SumFunctionOnSet(l, Obj \ D)
    BY <1>2, Constants, SumSplit
  <2>3. SumFunctionOnSet(b2, Obj) = SumFunctionOnSet(b2, D) + SumFunctionOnSet(b2, Obj \ D)
    BY <1>3, Constants, SumSplit
  <2>4. SumFunctionOnSet(l2, Obj) = SumFunctionOnSet(l2, D) + SumFunctionOnSet(l2, Obj \ D)
    BY <1>3, Constants, SumSplit
  <2>. QED  BY <2>1, <2>2, <2>3, <2>4 DEF E
<1>13. SumFunctionOnSet(b2, D) = 0 /\ SumFunctionOnSet(l2, D) = 0
  <2>1. \A o \in D : b2[o] \in Int /\ b2[o] <= b2[o] /\ b2[o] = 0
    BY <1>5
  <2>2. \A o \in D : l2[o] \in Int /\ l2[o] <= l2[o] /\ l2[o] = 0
    BY <1>5
  <2>3. SumFunctionOnSet(b2, D) = 0
    BY <1>11, <2>1, SumOrder
  <2>4. SumFunctionOnSet(l2, D) = 0
    BY <1>11, <2>2, SumOrder
  <2>. QED  BY <2>3, <2>4
<1>14. SumFunctionOnSet(b2, E) = SumFunctionOnSet(b, E) /\ SumFunctionOnSet(l2, E) = SumFunctionOnSet(l, E)
  <2>1. \A o \in E : b2[o] \in Int /\ b2[o] = b[o]
    BY <1>3, <1>6, <1>10
  <2>2. \A o \in E : l2[o] \in Int /\ l2[o] = l[o]
    BY <1>3, <1>6, <1>10
  <2>3. SumFunctionOnSet(b2, E) = SumFunctionOnSet(b, E)
    BY <1>11, <2>1, SumAgree
  <2>4. SumFunctionOnSet(l2, E) = SumFunctionOnSet(l, E)
    BY <1>11, <2>2, SumAgree
  <2>. QED  BY <2>3, <2>4
<1>15. SumFunctionOnSet(g, D) = SumFunctionOnSet(l, D)
  <2>1. \A o \in D : g[o] \in Int /\ g[o] = l[o]
    BY <1>2, <1>4, <1>9
  <2>. QED  BY <1>11, <2>1, SumAgree
<1>16. SumFunctionOnSet(l, D) <= SumFunctionOnSet(b, D) /\ 0 <= SumFunctionOnSet(l, D)
  <2>1. /\ \A o \in D : l[o] \in Int /\ b[o] \in Int
        /\ \A o \in D : l[o] <= b[o]
        /\ \A o \in D : 0 <= l[o]
    BY <1>2, <1>4, <1>9
  <2>. QED  BY <1>11, <2>1, SumOrder
<1>17. /\ SumFunctionOnSet(b, D) \in Int /\ SumFunctionOnSet(b, E) \in Int
       /\ SumFunctionOnSet(l, D) \in Int /\ SumFunctionOnSet(l, E) \in Int
  <2>1. SumFunctionOnSet(b, D) \in Int /\ SumFunctionOnSet(b, E) \in Int
    BY <1>2, <1>9, Constants, SumFacts
  <2>2. SumFunctionOnSet(l, D) \in Int /\ SumFunctionOnSet(l, E) \in Int
    BY <1>2, <1>9, Constants, SumFacts
  <2>. QED  BY <2>1, <2>2
<1>18. /\ SumFunction(g) \in Nat
       /\ Total(h2) <= Total(h) - SumFunction(g)
       /\ TotalLeast(h2) = TotalLeast(h) - SumFunction(g)
  BY <1>7, <1>8, <1>12, <1>13, <1>14, <1>15, <1>16, <1>17
<1>. QED  BY <1>1, <1>18 DEF h2, g

\* The sum that BytesCounted speaks of.
LEMMA TotalLive ==
  ASSUME NEW n, n.heap \in Heap
  PROVE  SumFunction([o \in Live(n) |-> n.heap[o].bytes]) = Total(n.heap)
<1>. DEFINE D == Live(n)
            E == Obj \ D
            g == [o \in D |-> n.heap[o].bytes]
            b == [o \in Obj |-> Bytes(n.heap[o])]
<1>1. D \in SUBSET Obj /\ E \in SUBSET Obj /\ (\A o \in D : o \in Obj /\ n.heap[o] # NoObj)
      /\ (\A o \in E : o \in Obj /\ n.heap[o] = NoObj)
  BY DEF Live
<1>. HIDE DEF D
<1>2. \A o \in Obj : b[o] \in Int
  BY HeapFacts
<1>3. \A o \in D : b[o] \in Int /\ b[o] = g[o]
  BY <1>1, <1>2 DEF Bytes
<1>4. \A o \in E : b[o] \in Int /\ b[o] <= b[o] /\ b[o] = 0
  BY <1>1 DEF Bytes
<1>5. SumFunction(g) = SumFunctionOnSet(g, D) /\ Total(n.heap) = SumFunctionOnSet(b, Obj)
  BY DEF SumFunction, Total
<1>. HIDE DEF b, g
<1>6. SumFunctionOnSet(b, Obj) = SumFunctionOnSet(b, D) + SumFunctionOnSet(b, E)
  BY <1>1, <1>2, Constants, SumSplit
<1>. HIDE DEF E
<1>7. IsFiniteSet(D) /\ IsFiniteSet(E)
  BY <1>1, Constants, SubsetFacts
<1>8. SumFunctionOnSet(b, D) = SumFunctionOnSet(g, D)
  BY <1>3, <1>7, SumAgree
<1>9. SumFunctionOnSet(b, E) = 0
  BY <1>4, <1>7, SumOrder
<1>10. SumFunctionOnSet(b, D) \in Int
  BY <1>1, <1>2, Constants, SumFacts
<1>. QED  BY <1>5, <1>6, <1>8, <1>9, <1>10 DEF D, g

-----------------------------------------------------------------------------
(* The allocator. *)

\* What nq_realloc makes of the counter.
Counter(bytes, old, new) == (IF old <= bytes THEN bytes - old ELSE 0) + new

\* A counter between a and k stays between two bounds that move with it.
LEMMA CountStep ==
  ASSUME NEW bytes \in Nat, NEW old \in Nat, NEW new \in Nat, NEW a \in Int, NEW k \in Int,
         a <= bytes, bytes <= k,
         NEW a2 \in Int, NEW k2 \in Int,
         a2 <= a - old + new, k - old + new <= k2, new <= k2
  PROVE  /\ Counter(bytes, old, new) \in Nat
         /\ a2 <= Counter(bytes, old, new) /\ Counter(bytes, old, new) <= k2
<1>. QED  BY DEF Counter

LEMMA MachineFacts ==
  ASSUME NEW n \in Machine
  PROVE  /\ n.heap \in Heap /\ n.strings \in Nat /\ n.globals.count \in Nat
         /\ n.globals.capacity \in Nat /\ n.tables \in Nat /\ n.nq_bytes_allocated \in Nat
         /\ n.nq_gc_threshold \in Nat
         /\ Total(n.heap) \in Nat /\ TotalLeast(n.heap) \in Nat
<1>1. /\ n.heap \in Heap /\ n.strings \in Nat /\ n.globals \in [count : Nat, capacity : Nat]
      /\ n.tables \in Nat /\ n.nq_bytes_allocated \in Nat /\ n.nq_gc_threshold \in Nat
  BY DEF Machine
<1>. QED  BY <1>1, HeapFacts

LEMMA Realloc ==
  ASSUME NEW n \in Machine, NEW old \in Nat, NEW new \in Nat
  PROVE  LET r == nq_realloc(n, old, new) IN
         /\ r \in Machine
         /\ r.heap = n.heap /\ r.strings = n.strings /\ r.globals = n.globals
         /\ r.tables = n.tables /\ r.nq_gc_threshold = n.nq_gc_threshold
         /\ r.nq_bytes_allocated = Counter(n.nq_bytes_allocated, old, new)
<1>1. n.nq_bytes_allocated \in Nat
  BY MachineFacts
<1>2. Counter(n.nq_bytes_allocated, old, new) \in Nat
  BY <1>1 DEF Counter
<1>3. nq_realloc(n, old, new) = [n EXCEPT !.nq_bytes_allocated = Counter(n.nq_bytes_allocated, old, new)]
  BY DEF nq_realloc, Counter, Machine
<1>. QED  BY <1>2, <1>3 DEF Machine

\* A block of a table changes its size: the counter follows.
LEMMA TableStep ==
  ASSUME NEW n \in Machine, NEW old \in Nat, NEW new \in Nat, old <= n.tables,
         NEW lo \in Int, NEW hi \in Nat, Between(n, lo, hi)
  PROVE  LET r == TableRealloc(n, old, new) IN
         /\ r \in Machine
         /\ r.heap = n.heap /\ r.strings = n.strings /\ r.globals = n.globals
         /\ r.tables = n.tables - old + new /\ r.nq_gc_threshold = n.nq_gc_threshold
         /\ Between(r, lo, hi)
<1>. DEFINE q == nq_realloc(n, old, new)
            r == TableRealloc(n, old, new)
            t == n.tables - old + new
<1>1. /\ q \in Machine
      /\ q.heap = n.heap /\ q.strings = n.strings /\ q.globals = n.globals
      /\ q.tables = n.tables /\ q.nq_gc_threshold = n.nq_gc_threshold
      /\ q.nq_bytes_allocated = Counter(n.nq_bytes_allocated, old, new)
  BY Realloc
<1>2. /\ n.tables \in Nat /\ n.nq_bytes_allocated \in Nat
      /\ Total(n.heap) \in Nat /\ TotalLeast(n.heap) \in Nat
  BY MachineFacts
<1>3. t \in Nat
  BY <1>2
<1>4. r = [q EXCEPT !.tables = t]
  BY <1>1 DEF TableRealloc, Machine
<1>. HIDE DEF q, r, t
<1>5. /\ r \in Machine
      /\ r.heap = n.heap /\ r.strings = n.strings /\ r.globals = n.globals
      /\ r.tables = t /\ r.nq_gc_threshold = n.nq_gc_threshold
      /\ r.nq_bytes_allocated = Counter(n.nq_bytes_allocated, old, new)
  BY <1>1, <1>3, <1>4 DEF Machine
<1>6. Between(r, lo, hi)
  <2>. DEFINE a == n.tables + Total(n.heap) + lo
              k == n.tables + TotalLeast(n.heap) + hi
              a2 == t + Total(n.heap) + lo
              k2 == t + TotalLeast(n.heap) + hi
              C == n.nq_bytes_allocated
  <2>1. a <= C /\ C <= k
    BY DEF Between
  <2>2. a2 <= a - old + new /\ k - old + new <= k2 /\ new <= k2
    BY <1>2 DEF t
  <2>3. a \in Int /\ k \in Int /\ a2 \in Int /\ k2 \in Int /\ C \in Nat
    BY <1>2, <1>3
  <2>. HIDE DEF a, k, a2, k2, C
  <2>4. a2 <= Counter(C, old, new) /\ Counter(C, old, new) <= k2
    BY <2>1, <2>2, <2>3, CountStep
  <2>. QED  BY <1>5, <2>4 DEF Between, a2, k2, C
<1>. QED  BY <1>5, <1>6 DEF r, t

\* A new block for an old one: growth and rehashing.
LEMMA TableMove ==
  ASSUME NEW n \in Machine, NEW old \in Nat, NEW new \in Nat, old <= n.tables,
         NEW lo \in Int, NEW hi \in Nat, Between(n, lo, hi)
  PROVE  LET r == TableRealloc(TableRealloc(n, 0, new), old, 0) IN
         /\ r \in Machine
         /\ r.heap = n.heap /\ r.strings = n.strings /\ r.globals = n.globals
         /\ r.tables = n.tables - old + new /\ r.nq_gc_threshold = n.nq_gc_threshold
         /\ Between(r, lo, hi)
<1>. DEFINE zero == 0
            q == TableRealloc(n, zero, new)
            r == TableRealloc(q, old, zero)
<1>1. n.tables \in Nat /\ zero \in Nat /\ zero <= n.tables
  BY MachineFacts
<1>. HIDE DEF zero, q, r
<1>2. /\ q \in Machine
      /\ q.heap = n.heap /\ q.strings = n.strings /\ q.globals = n.globals
      /\ q.tables = n.tables - zero + new /\ q.nq_gc_threshold = n.nq_gc_threshold
      /\ Between(q, lo, hi)
  BY <1>1, TableStep DEF q
<1>3. old <= q.tables
  BY <1>1, <1>2 DEF zero
<1>4. /\ r \in Machine
      /\ r.heap = q.heap /\ r.strings = q.strings /\ r.globals = q.globals
      /\ r.tables = q.tables - old + zero /\ r.nq_gc_threshold = q.nq_gc_threshold
      /\ Between(r, lo, hi)
  BY <1>1, <1>2, <1>3, TableStep DEF r
<1>5. r.tables = n.tables - old + new
  BY <1>1, <1>2, <1>4 DEF zero
<1>. QED  BY <1>2, <1>4, <1>5 DEF zero, q, r

\* freeObject, of some.
LEMMA FreeStep ==
  ASSUME NEW n \in Machine, \A o \in Obj : n.heap[o] # NoObj => Fits(n.heap[o]),
         NEW D \in SUBSET Obj, \A o \in D : n.heap[o] # NoObj,
         NEW lo \in Int, NEW hi \in Nat, Between(n, lo, hi)
  PROVE  LET r == FreeObjects(n, D) IN
         /\ r \in Machine
         /\ r.heap = [o \in Obj |-> IF o \in D THEN NoObj ELSE n.heap[o]]
         /\ r.strings = n.strings /\ r.globals = n.globals
         /\ r.tables = n.tables /\ r.nq_gc_threshold = n.nq_gc_threshold
         /\ Between(r, lo, hi)
<1>. DEFINE h == n.heap
            h2 == [o \in Obj |-> IF o \in D THEN NoObj ELSE h[o]]
            freed == SumFunction([o \in D |-> Owned(h[o]) + SizeOf[h[o].type]])
            zero == 0
            q == nq_realloc(n, freed, zero)
            r == FreeObjects(n, D)
<1>1. /\ n.tables \in Nat /\ n.nq_bytes_allocated \in Nat /\ h \in Heap
      /\ Total(h) \in Nat /\ TotalLeast(h) \in Nat
  BY MachineFacts
<1>2. /\ h2 \in Heap /\ freed \in Nat
      /\ Total(h2) <= Total(h) - freed
      /\ TotalLeast(h2) = TotalLeast(h) - freed
  <2>1. \A o \in Obj : h[o] # NoObj => Fits(h[o])
    OBVIOUS
  <2>2. \A o \in D : h[o] # NoObj
    OBVIOUS
  <2>. HIDE DEF h
  <2>. QED  BY <1>1, <2>1, <2>2, TotalFree
<1>3. Total(h2) \in Nat /\ TotalLeast(h2) \in Nat
  <2>. HIDE DEF h2
  <2>. QED  BY <1>2, HeapFacts
<1>4. r = [q EXCEPT !.heap = [o \in Obj |-> IF o \in D THEN NoObj ELSE q.heap[o]]]
  BY DEF FreeObjects, nq_realloc, Machine
<1>5. zero \in Nat /\ zero = 0
  OBVIOUS
<1>6. h2 = [o \in Obj |-> IF o \in D THEN NoObj ELSE n.heap[o]]
  OBVIOUS
<1>7. h = n.heap
  OBVIOUS
<1>. HIDE DEF h, h2, freed, zero, q, r
<1>8. /\ q \in Machine
      /\ q.heap = n.heap /\ q.strings = n.strings /\ q.globals = n.globals
      /\ q.tables = n.tables /\ q.nq_gc_threshold = n.nq_gc_threshold
      /\ q.nq_bytes_allocated = Counter(n.nq_bytes_allocated, freed, zero)
  BY <1>2, <1>5, Realloc DEF q
<1>9. r = [q EXCEPT !.heap = h2]
  BY <1>4, <1>6, <1>8
<1>10. /\ r \in Machine
       /\ r.heap = h2 /\ r.strings = n.strings /\ r.globals = n.globals
       /\ r.tables = n.tables /\ r.nq_gc_threshold = n.nq_gc_threshold
       /\ r.nq_bytes_allocated = Counter(n.nq_bytes_allocated, freed, zero)
  BY <1>2, <1>8, <1>9 DEF Machine
<1>11. Between(r, lo, hi)
  <2>. DEFINE a == n.tables + Total(h) + lo
              k == n.tables + TotalLeast(h) + hi
              a2 == n.tables + Total(h2) + lo
              k2 == n.tables + TotalLeast(h2) + hi
              C == n.nq_bytes_allocated
  <2>1. a <= C /\ C <= k
    BY <1>7 DEF Between
  <2>2. a2 <= a - freed + zero /\ k - freed + zero <= k2 /\ zero <= k2
    BY <1>1, <1>2, <1>3, <1>5
  <2>3. a \in Int /\ k \in Int /\ a2 \in Int /\ k2 \in Int /\ C \in Nat
    BY <1>1, <1>3
  <2>. HIDE DEF a, k, a2, k2, C
  <2>4. a2 <= Counter(C, freed, zero) /\ Counter(C, freed, zero) <= k2
    BY <1>2, <1>5, <2>1, <2>2, <2>3, CountStep
  <2>. QED  BY <1>10, <2>4 DEF Between, a2, k2, C
<1>. QED  BY <1>6, <1>10, <1>11 DEF r

-----------------------------------------------------------------------------
(* The collector. *)

\* What a collection may do to a machine.
Shrunk(r, n) ==
  /\ r.strings = n.strings /\ r.globals = n.globals /\ r.tables = n.tables
  /\ \A o \in Obj : r.heap[o] \in {n.heap[o], NoObj}

LEMMA StringsFinite ==
  ASSUME NEW n
  PROVE  IsFiniteSet(Strings(n)) /\ Strings(n) \in SUBSET Obj /\ Cardinality(Strings(n)) \in Nat
<1>1. Strings(n) \in SUBSET Obj
  BY DEF Strings, Live
<1>2. IsFiniteSet(Strings(n))
  BY <1>1, Constants, FS_Subset
<1>. QED  BY <1>1, <1>2, FS_CardinalityType

LEMMA ShrunkIsSound ==
  ASSUME NEW n, Sound(n), Roomy(n), NEW r \in Machine, Shrunk(r, n)
  PROVE  Sound(r) /\ Roomy(r)
<1>1. \A o \in Obj : r.heap[o] # NoObj => r.heap[o] = n.heap[o]
  BY DEF Shrunk
<1>2. \A o \in Obj : r.heap[o] # NoObj => Fits(r.heap[o])
  BY <1>1 DEF Sound
<1>3. OneOfEach(r.heap)
  <2>1. \A o \in Obj : r.heap[o].type = "string" => r.heap[o] = n.heap[o]
    BY <1>1 DEF NoObj
  <2>. QED  BY <2>1 DEF OneOfEach, Sound
<1>4. r.tables = EntryBytes(r) + PointerBytes(r) /\ r.globals.count <= r.globals.capacity
  BY DEF Sound, Shrunk, EntryBytes, PointerBytes
<1>5. Roomy(r)
  <2>1. Strings(r) \in SUBSET Strings(n)
    BY <1>1 DEF Strings, Live
  <2>2. Cardinality(Strings(r)) <= Cardinality(Strings(n))
    BY <2>1, StringsFinite, FS_Subset
  <2>3. r.strings = n.strings /\ n.strings \in Nat
    BY MachineFacts DEF Shrunk, Sound
  <2>. QED  BY <2>2, <2>3, StringsFinite DEF Roomy
<1>. QED  BY <1>2, <1>3, <1>4, <1>5 DEF Sound

LEMMA MaxThreshold ==
  ASSUME NEW a \in Nat, NEW b \in Nat
  PROVE  Max({a, b}) \in Nat
<1>1. \E x \in {a, b} : \A y \in {a, b} : x >= y
  <2>1. CASE a >= b
    BY <2>1
  <2>2. CASE b >= a
    BY <2>2
  <2>. QED  BY <2>1, <2>2
<1>. QED  BY <1>1 DEF Max

\* The tables and the sums that were there stay within the bounds.
LEMMA CollectStep ==
  ASSUME NEW n, Sound(n), Roomy(n), NEW D \in SUBSET Live(n),
         NEW lo \in Int, NEW hi \in Nat, Between(n, lo, hi)
  PROVE  LET r == Collected(n, D) IN
         Sound(r) /\ Roomy(r) /\ Between(r, lo, hi) /\ Shrunk(r, n)
<1>. DEFINE block == SizeOf["pointer"] * n.strings
            q == RemoveWhiteStrings(n)
            f == FreeObjects(q, D)
            r == Collected(n, D)
            threshold == Max({2 * f.nq_bytes_allocated, MinThreshold})
<1>1. n \in Machine /\ block \in Nat /\ block <= n.tables
  <2>1. n \in Machine /\ n.tables = EntryBytes(n) + PointerBytes(n)
    BY DEF Sound
  <2>2. EntryBytes(n) \in Nat /\ PointerBytes(n) \in Nat
    BY <2>1, MachineFacts, Capacities DEF EntryBytes, PointerBytes
  <2>3. block = PointerBytes(n)
    BY DEF PointerBytes
  <2>. HIDE DEF block
  <2>. QED  BY <2>1, <2>2, <2>3
<1>2. q = TableRealloc(TableRealloc(n, 0, block), block, 0)
  BY DEF RemoveWhiteStrings
<1>3. r = [f EXCEPT !.nq_gc_threshold = threshold]
  BY DEF Collected
<1>4. D \in SUBSET Obj /\ \A o \in D : n.heap[o] # NoObj
  BY DEF Live
<1>. HIDE DEF block, q
<1>5. /\ q \in Machine
      /\ q.heap = n.heap /\ q.strings = n.strings /\ q.globals = n.globals
      /\ q.tables = n.tables - block + block
      /\ Between(q, lo, hi)
  BY <1>1, <1>2, TableMove
<1>6. /\ \A o \in Obj : q.heap[o] # NoObj => Fits(q.heap[o])
      /\ \A o \in D : q.heap[o] # NoObj
      /\ q.tables = n.tables
  <2>1. n.tables \in Nat
    BY <1>1, MachineFacts
  <2>. QED  BY <1>1, <1>4, <1>5, <2>1 DEF Sound
<1>. HIDE DEF f, r
<1>7. /\ f \in Machine
      /\ f.heap = [o \in Obj |-> IF o \in D THEN NoObj ELSE q.heap[o]]
      /\ f.strings = q.strings /\ f.globals = q.globals /\ f.tables = q.tables
      /\ Between(f, lo, hi)
  BY <1>4, <1>5, <1>6, FreeStep DEF f
<1>8. threshold \in Nat
  <2>. DEFINE twice == 2 * f.nq_bytes_allocated
  <2>1. twice \in Nat /\ MinThreshold \in Nat
    BY <1>7, MachineFacts, Constants
  <2>. HIDE DEF twice
  <2>2. Max({twice, MinThreshold}) \in Nat
    BY <2>1, MaxThreshold
  <2>. QED  BY <2>2 DEF twice
<1>. HIDE DEF threshold
<1>9. /\ r \in Machine
      /\ r.heap = f.heap /\ r.strings = f.strings /\ r.globals = f.globals /\ r.tables = f.tables
      /\ r.nq_bytes_allocated = f.nq_bytes_allocated
  BY <1>3, <1>7, <1>8 DEF Machine
<1>10. Between(r, lo, hi)
  BY <1>7, <1>9 DEF Between
<1>11. Shrunk(r, n)
  BY <1>5, <1>6, <1>7, <1>9 DEF Shrunk
<1>12. Sound(r) /\ Roomy(r)
  BY <1>9, <1>11, ShrunkIsSound
<1>. QED  BY <1>10, <1>11, <1>12 DEF r

LEMMA MaybeStep ==
  ASSUME NEW n, Sound(n), Roomy(n), NEW r \in MaybeCollected(n),
         NEW lo \in Int, NEW hi \in Nat, Between(n, lo, hi)
  PROVE  Sound(r) /\ Roomy(r) /\ Between(r, lo, hi) /\ Shrunk(r, n)
<1>1. CASE r = n
  BY <1>1 DEF Shrunk
<1>2. CASE \E D \in SUBSET Live(n) : r = Collected(n, D)
  BY <1>2, CollectStep
<1>. QED  BY <1>1, <1>2 DEF MaybeCollected

-----------------------------------------------------------------------------
(* A new object, and an object that changes. *)

\* The object x at o, for which the counter moves from what was there before
\* by what the code says; the bounds move by what is not in the object.
LEMMA PutStep ==
  ASSUME NEW n, Sound(n), NEW o \in Obj, NEW x \in Object, Fits(x),
         x.type = "string" => \A p \in Obj \ {o} :
                                n.heap[p].type = "string" => n.heap[p].text # x.text,
         NEW old \in Nat, NEW new \in Nat,
         NEW lo \in Int, NEW hi \in Nat, Between(n, lo, hi),
         NEW lo2 \in Int, NEW hi2 \in Nat,
         lo2 + Bytes(x) - Bytes(n.heap[o]) <= lo - old + new,
         hi - old + new <= hi2 + Size(x) - Least(n.heap[o]),
         new <= hi2 + Size(x),
         NEW r \in Machine, r.heap = [n.heap EXCEPT ![o] = x],
         r.strings = n.strings, r.globals = n.globals, r.tables = n.tables,
         r.nq_bytes_allocated = Counter(n.nq_bytes_allocated, old, new)
  PROVE  Sound(r) /\ Between(r, lo2, hi2)
<1>1. n \in Machine /\ n.heap \in Heap /\ x # NoObj /\ x.bytes \in Nat /\ Size(x) \in Nat
  BY MachineFacts, ObjectFacts DEF Sound
<1>2. r.heap[o] = x /\ \A p \in Obj \ {o} : r.heap[p] = n.heap[p]
  BY <1>1 DEF Heap
<1>3. \A p \in Obj : r.heap[p] # NoObj => Fits(r.heap[p])
  BY <1>2 DEF Sound
<1>4. OneOfEach(r.heap)
  BY <1>2 DEF Sound, OneOfEach
<1>5. r.tables = EntryBytes(r) + PointerBytes(r) /\ r.globals.count <= r.globals.capacity
  BY DEF Sound, EntryBytes, PointerBytes
<1>6. Sound(r)
  BY <1>3, <1>4, <1>5 DEF Sound
<1>. DEFINE h == n.heap
            T == n.tables
            a == T + Total(h) + lo
            k == T + TotalLeast(h) + hi
            a2 == T + Total(r.heap) + lo2
            k2 == T + TotalLeast(r.heap) + hi2
            C == n.nq_bytes_allocated
            B == Bytes(x)
            L == Least(x)
            b == Bytes(h[o])
            l == Least(h[o])
<1>7. /\ Total(r.heap) = Total(h) - b + B
      /\ TotalLeast(r.heap) = TotalLeast(h) - l + L
      /\ l <= TotalLeast(h)
  <2>1. x \in Object \union {NoObj}
    OBVIOUS
  <2>2. LET h2 == [h EXCEPT ![o] = x] IN
        /\ Total(h2) = Total(h) - Bytes(h[o]) + Bytes(x)
        /\ TotalLeast(h2) = TotalLeast(h) - Least(h[o]) + Least(x)
        /\ Least(h[o]) <= TotalLeast(h)
    BY <1>1, <2>1, TotalPut
  <2>. QED  BY <2>2
<1>8. /\ C \in Nat /\ T \in Nat /\ Total(h) \in Nat /\ TotalLeast(h) \in Nat
      /\ Total(r.heap) \in Nat /\ TotalLeast(r.heap) \in Nat
      /\ b \in Nat /\ l \in Nat /\ B \in Nat /\ L \in Nat /\ L = Size(x)
  <2>1. b \in Nat /\ l \in Nat
    BY <1>1, HeapFacts
  <2>2. B \in Nat /\ L \in Nat /\ L = Size(x)
    BY <1>1 DEF Bytes, Least
  <2>. QED  BY <1>1, <2>1, <2>2, MachineFacts
<1>9. a <= C /\ C <= k
  BY DEF Between
<1>10. lo2 + B - b <= lo - old + new /\ hi - old + new <= hi2 + L - l /\ new <= hi2 + L
  BY <1>8
<1>11. r.nq_bytes_allocated = Counter(C, old, new) /\ r.tables = T
  OBVIOUS
<1>. HIDE DEF h, T, C, B, L, b, l
<1>12. a2 <= a - old + new /\ k - old + new <= k2 /\ new <= k2
  BY <1>7, <1>8, <1>10
<1>13. a \in Int /\ k \in Int /\ a2 \in Int /\ k2 \in Int
  BY <1>8
<1>. HIDE DEF a, k, a2, k2
<1>14. a2 <= Counter(C, old, new) /\ Counter(C, old, new) <= k2
  BY <1>8, <1>9, <1>12, <1>13, CountStep
<1>15. Between(r, lo2, hi2)
  BY <1>11, <1>14 DEF Between, a2, k2
<1>. QED  BY <1>6, <1>15

LEMMA AllocStep ==
  ASSUME NEW n, Sound(n), Roomy(n), NEW lo \in Int, NEW hi \in Nat, Between(n, lo, hi),
         NEW x \in Object, NEW r \in AllocObject(n, x)
  PROVE  \E c \in MaybeCollected(n), o \in Obj :
           /\ Sound(c) /\ Roomy(c) /\ Between(c, lo, hi) /\ Shrunk(c, n)
           /\ c.heap[o] = NoObj
           /\ r \in Machine /\ r.heap = [c.heap EXCEPT ![o] = x]
           /\ r.strings = c.strings /\ r.globals = c.globals /\ r.tables = c.tables
           /\ r.nq_bytes_allocated = Counter(c.nq_bytes_allocated, 0, SizeOf[x.type])
<1>1. PICK c \in MaybeCollected(n) : \E o \in Obj \ Live(c) :
        r = [nq_realloc(c, 0, SizeOf[x.type]) EXCEPT !.heap[o] = x]
  BY DEF AllocObject
<1>2. Sound(c) /\ Roomy(c) /\ Between(c, lo, hi) /\ Shrunk(c, n)
  BY MaybeStep
<1>3. PICK o \in Obj : /\ r = [nq_realloc(c, 0, SizeOf[x.type]) EXCEPT !.heap[o] = x]
                       /\ c.heap[o] = NoObj
  BY <1>1 DEF Live
<1>. DEFINE zero == 0
            sz == SizeOf[x.type]
            q == nq_realloc(c, zero, sz)
<1>4. c \in Machine /\ c.heap \in Heap /\ zero \in Nat /\ sz \in Nat
  BY <1>2, MachineFacts, ObjectFacts DEF Sound
<1>5. r = [q EXCEPT !.heap[o] = x]
  BY <1>3
<1>. HIDE DEF zero, sz, q
<1>6. /\ q \in Machine
      /\ q.heap = c.heap /\ q.strings = c.strings /\ q.globals = c.globals
      /\ q.tables = c.tables /\ q.nq_gc_threshold = c.nq_gc_threshold
      /\ q.nq_bytes_allocated = Counter(c.nq_bytes_allocated, zero, sz)
  BY <1>4, Realloc DEF q
<1>7. [c.heap EXCEPT ![o] = x] \in Heap
  BY <1>3, <1>4 DEF Heap
<1>8. r = [q EXCEPT !.heap = [c.heap EXCEPT ![o] = x]]
  BY <1>5, <1>6 DEF Machine
<1>9. /\ r \in Machine /\ r.heap = [c.heap EXCEPT ![o] = x]
      /\ r.strings = c.strings /\ r.globals = c.globals /\ r.tables = c.tables
      /\ r.nq_bytes_allocated = Counter(c.nq_bytes_allocated, zero, sz)
  BY <1>6, <1>7, <1>8 DEF Machine
<1>10. r.nq_bytes_allocated = Counter(c.nq_bytes_allocated, 0, SizeOf[x.type])
  BY <1>9 DEF zero, sz
<1>. QED  BY <1>2, <1>3, <1>9, <1>10

\* An object with all that it owns.
LEMMA NewStep ==
  ASSUME NEW n, Sound(n), Roomy(n), NEW lo \in Int, NEW hi \in Nat, Between(n, lo, hi),
         NEW x \in Object, Fits(x), x.type = "string" => ~ Interned(n, x.text),
         NEW lo2 \in Int, NEW hi2 \in Nat,
         lo2 + x.bytes <= lo + SizeOf[x.type],
         hi + SizeOf[x.type] <= hi2 + Size(x),
         NEW r \in AllocObject(n, x)
  PROVE  /\ Sound(r) /\ Between(r, lo2, hi2)
         /\ x.type # "string" => Roomy(r)
         /\ Cardinality(Strings(r)) <= r.strings + 1
<1>1. PICK c \in MaybeCollected(n), o \in Obj :
        /\ Sound(c) /\ Roomy(c) /\ Between(c, lo, hi) /\ Shrunk(c, n)
        /\ c.heap[o] = NoObj
        /\ r \in Machine /\ r.heap = [c.heap EXCEPT ![o] = x]
        /\ r.strings = c.strings /\ r.globals = c.globals /\ r.tables = c.tables
        /\ r.nq_bytes_allocated = Counter(c.nq_bytes_allocated, 0, SizeOf[x.type])
  BY AllocStep
<1>2. x # NoObj /\ x.bytes \in Nat /\ Size(x) \in Nat /\ SizeOf[x.type] \in Nat
  BY ObjectFacts
<1>3. ASSUME x.type = "string", NEW p \in Obj \ {o}, c.heap[p].type = "string"
      PROVE  c.heap[p].text # x.text
  <2>1. c.heap[p] = n.heap[p] /\ n.heap[p] # NoObj
    BY <1>1, <1>3 DEF Shrunk, NoObj
  <2>2. p \in Strings(n)
    BY <1>3, <2>1 DEF Strings, Live
  <2>. QED  BY <1>3, <2>1, <2>2 DEF Interned
<1>4. Sound(r) /\ Between(r, lo2, hi2)
  <2>. DEFINE zero == 0
              sz == SizeOf[x.type]
              empty == c.heap[o]
  <2>1. Bytes(x) = x.bytes /\ Bytes(empty) = 0 /\ Least(empty) = 0
    BY <1>1, <1>2 DEF Bytes, Least
  <2>2. zero \in Nat /\ sz \in Nat /\ zero = 0
    BY <1>2
  <2>3. /\ r.nq_bytes_allocated = Counter(c.nq_bytes_allocated, zero, sz)
        /\ lo2 + x.bytes <= lo + sz /\ hi + sz <= hi2 + Size(x)
    BY <1>1
  <2>. HIDE DEF zero, sz, empty
  <2>4. /\ lo2 + Bytes(x) - Bytes(empty) <= lo - zero + sz
        /\ hi - zero + sz <= hi2 + Size(x) - Least(empty)
        /\ sz <= hi2 + Size(x)
    BY <1>2, <2>1, <2>2, <2>3
  <2>5. x.type = "string" => \A p \in Obj \ {o} : c.heap[p].type = "string" => c.heap[p].text # x.text
    BY <1>3
  <2>6. /\ lo2 + Bytes(x) - Bytes(c.heap[o]) <= lo - zero + sz
        /\ hi - zero + sz <= hi2 + Size(x) - Least(c.heap[o])
    BY <2>4 DEF empty
  <2>. QED  BY <1>1, <2>2, <2>3, <2>4, <2>5, <2>6, PutStep
<1>5. c.heap \in Heap /\ c.strings \in Nat
  BY <1>1, MachineFacts DEF Sound
<1>6. r.heap[o] = x /\ \A p \in Obj \ {o} : r.heap[p] = c.heap[p]
  BY <1>1, <1>5 DEF Heap
<1>7. o \notin Strings(c)
  BY <1>1 DEF Strings, Live
<1>8. ASSUME x.type # "string" PROVE Roomy(r)
  <2>1. Strings(r) = Strings(c)
    BY <1>6, <1>7, <1>8 DEF Strings, Live
  <2>. QED  BY <1>1, <2>1 DEF Roomy
<1>9. Cardinality(Strings(r)) <= r.strings + 1
  <2>1. Strings(r) \in SUBSET (Strings(c) \union {o})
    BY <1>6 DEF Strings, Live
  <2>2. IsFiniteSet(Strings(c)) /\ Cardinality(Strings(c)) \in Nat /\ Cardinality(Strings(c)) <= c.strings
    BY <1>1, StringsFinite DEF Roomy
  <2>3. /\ IsFiniteSet(Strings(c) \union {o})
        /\ Cardinality(Strings(c) \union {o}) = Cardinality(Strings(c)) + 1
    BY <1>7, <2>2, FS_AddElement
  <2>4. Cardinality(Strings(r)) <= Cardinality(Strings(c) \union {o})
    BY <2>1, <2>3, FS_Subset
  <2>. QED  BY <1>1, <1>5, <2>2, <2>3, <2>4, StringsFinite
<1>. QED  BY <1>4, <1>8, <1>9

-----------------------------------------------------------------------------
(* Strings. *)

LEMMA AddStringStep ==
  ASSUME NEW n, Sound(n), Cardinality(Strings(n)) <= n.strings + 1,
         NEW lo \in Int, NEW hi \in Nat, Between(n, lo, hi)
  PROVE  Sound(AddString(n)) /\ Roomy(AddString(n)) /\ Between(AddString(n), lo, hi)
<1>1. n \in Machine /\ n.strings \in Nat /\ Cardinality(Strings(n)) \in Nat
  BY MachineFacts, StringsFinite DEF Sound
<1>2. CASE ~ (Cardinality(Strings(n)) > (n.strings * 3) \div 4)
  <2>1. (n.strings * 3) \div 4 <= n.strings
    BY <1>1
  <2>2. AddString(n) = n
    BY <1>2 DEF AddString
  <2>3. (n.strings * 3) \div 4 \in Nat
    BY <1>1
  <2>4. Cardinality(Strings(n)) <= n.strings
    BY <1>1, <1>2, <2>1, <2>3
  <2>. QED  BY <2>2, <2>4 DEF Roomy
<1>3. CASE Cardinality(Strings(n)) > (n.strings * 3) \div 4
  <2>. DEFINE cap == GROW_CAPACITY(n.strings)
              old == SizeOf["pointer"] * n.strings
              new == SizeOf["pointer"] * cap
              q == TableRealloc(TableRealloc(n, 0, new), old, 0)
              r == AddString(n)
  <2>1. cap \in Nat /\ n.strings + 1 <= cap /\ old \in Nat
    BY <1>1, Capacities
  <2>2. new \in Nat
    <3>. HIDE DEF cap
    <3>. QED  BY <2>1, Capacities
  <2>3. r = [q EXCEPT !.strings = cap]
    BY <1>3 DEF AddString
  <2>4. n.tables = EntryBytes(n) + old /\ EntryBytes(n) \in Nat
    BY <1>1, MachineFacts, Capacities DEF Sound, EntryBytes, PointerBytes
  <2>. HIDE DEF old, new, q, cap, r
  <2>5. old <= n.tables
    BY <2>1, <2>4
  <2>6. /\ q \in Machine
        /\ q.heap = n.heap /\ q.strings = n.strings /\ q.globals = n.globals
        /\ q.tables = n.tables - old + new
        /\ Between(q, lo, hi)
    BY <1>1, <2>1, <2>2, <2>5, TableMove DEF q
  <2>7. /\ r \in Machine
        /\ r.heap = n.heap /\ r.strings = cap /\ r.globals = n.globals
        /\ r.tables = EntryBytes(n) + new
        /\ r.tables = q.tables /\ r.nq_bytes_allocated = q.nq_bytes_allocated
    <3>1. q.tables = EntryBytes(n) + new
      BY <2>1, <2>2, <2>4, <2>6
    <3>. QED  BY <2>1, <2>3, <2>6, <3>1 DEF Machine
  <2>8. Between(r, lo, hi)
    BY <2>6, <2>7 DEF Between
  <2>9. r.tables = EntryBytes(r) + PointerBytes(r)
    BY <2>7 DEF EntryBytes, PointerBytes, new
  <2>10. Sound(r)
    BY <2>7, <2>9 DEF Sound
  <2>11. Roomy(r)
    <3>1. Strings(r) = Strings(n)
      BY <2>7 DEF Strings, Live
    <3>2. Cardinality(Strings(n)) <= cap
      BY <1>1, <2>1
    <3>. QED  BY <2>7, <3>1, <3>2 DEF Roomy
  <2>. QED  BY <2>8, <2>10, <2>11 DEF r
<1>. QED  BY <1>2, <1>3

\* A buffer that becomes a string's, or is given back.
LEMMA AllocStringStep ==
  ASSUME NEW n, Sound(n), Roomy(n), NEW lo \in Int, NEW hi \in Nat, Between(n, lo, hi),
         NEW t \in Text, NEW buffer \in Nat, Length[t] + 1 <= buffer,
         NEW lo2 \in Int, NEW hi2 \in Nat, lo2 + buffer <= lo, hi <= hi2 + Length[t] + 1,
         NEW r \in AllocString(n, t, buffer)
  PROVE  Sound(r) /\ Roomy(r) /\ Between(r, lo2, hi2)
<1>. DEFINE b == Length[t] + 1
<1>1. n \in Machine /\ b \in Nat /\ Length[t] \in Nat /\ SizeOf["string"] \in Nat
  BY Constants DEF Sound
<1>2. /\ n.tables \in Nat /\ n.nq_bytes_allocated \in Nat
      /\ Total(n.heap) \in Nat /\ TotalLeast(n.heap) \in Nat
  BY <1>1, MachineFacts
<1>3. CASE Interned(n, t)
  <2>. DEFINE zero == 0
  <2>1. r = nq_realloc(n, b, zero) /\ zero = 0 /\ zero \in Nat
    BY <1>3 DEF AllocString
  <2>. DEFINE C == n.nq_bytes_allocated
              a == n.tables + Total(n.heap) + lo
              k == n.tables + TotalLeast(n.heap) + hi
              a2 == n.tables + Total(n.heap) + lo2
              k2 == n.tables + TotalLeast(n.heap) + hi2
  <2>2. a <= C /\ C <= k
    BY DEF Between
  <2>3. a2 <= a - b + zero /\ k - b + zero <= k2 /\ zero <= k2
    BY <1>1, <1>2, <2>1
  <2>4. a \in Int /\ k \in Int /\ a2 \in Int /\ k2 \in Int /\ C \in Nat
    BY <1>2
  <2>. HIDE DEF b, zero
  <2>5. /\ r \in Machine
        /\ r.heap = n.heap /\ r.strings = n.strings /\ r.globals = n.globals
        /\ r.tables = n.tables
        /\ r.nq_bytes_allocated = Counter(n.nq_bytes_allocated, b, zero)
    <3>. DEFINE q == nq_realloc(n, b, zero)
    <3>1. n \in Machine /\ b \in Nat /\ zero \in Nat /\ r = q
      BY <1>1, <2>1
    <3>. HIDE DEF q
    <3>2. /\ q \in Machine
          /\ q.heap = n.heap /\ q.strings = n.strings /\ q.globals = n.globals
          /\ q.tables = n.tables
          /\ q.nq_bytes_allocated = Counter(n.nq_bytes_allocated, b, zero)
      BY ZenonT(60), <3>1, Realloc DEF q
    <3>. QED  BY <3>1, <3>2
  <2>6. Shrunk(r, n)
    BY <2>5 DEF Shrunk
  <2>7. Sound(r) /\ Roomy(r)
    BY <2>5, <2>6, ShrunkIsSound
  <2>. HIDE DEF C, a, k, a2, k2
  <2>8. a2 <= Counter(C, b, zero) /\ Counter(C, b, zero) <= k2
    BY <1>1, <2>1, <2>2, <2>3, <2>4, CountStep
  <2>. QED  BY <2>5, <2>7, <2>8 DEF Between, C, a2, k2
<1>4. CASE ~ Interned(n, t)
  <2>. DEFINE x == StringOf(t, buffer)
  <2>1. PICK c \in AllocObject(n, x) : r = AddString(c)
    BY <1>4 DEF AllocString
  <2>2. x \in StringObj /\ x.text = t /\ x.type = "string" /\ x.bytes = SizeOf["string"] + buffer
    BY <1>1 DEF StringOf, StringObj
  <2>3. Size(x) = Length[t] + 1 + SizeOf["string"] /\ x \in Object
    BY <2>2, StringSize DEF Object
  <2>. HIDE DEF x
  <2>4. Fits(x)
    BY <1>1, <2>2, <2>3 DEF Fits
  <2>5. lo2 + x.bytes <= lo + SizeOf[x.type] /\ hi + SizeOf[x.type] <= hi2 + Size(x)
    BY <1>1, <2>2, <2>3
  <2>6. Sound(c) /\ Between(c, lo2, hi2) /\ Cardinality(Strings(c)) <= c.strings + 1
    BY <1>4, <2>1, <2>2, <2>3, <2>4, <2>5, NewStep
  <2>. QED  BY <2>1, <2>6, AddStringStep
<1>. QED  BY <1>3, <1>4

\* A buffer that is counted and not yet an object's.
LEMMA BufferStep ==
  ASSUME NEW n, Sound(n), Roomy(n), NEW lo \in Int, NEW hi \in Nat, Between(n, lo, hi),
         NEW b \in Nat
  PROVE  LET r == nq_realloc(n, 0, b) IN
         Sound(r) /\ Roomy(r) /\ Between(r, lo + b, hi + b)
<1>. DEFINE zero == 0
            r == nq_realloc(n, zero, b)
<1>1. n \in Machine /\ zero \in Nat
  BY DEF Sound
<1>2. /\ n.tables \in Nat /\ n.nq_bytes_allocated \in Nat
      /\ Total(n.heap) \in Nat /\ TotalLeast(n.heap) \in Nat
  BY <1>1, MachineFacts
<1>. HIDE DEF zero, r
<1>3. /\ r \in Machine
      /\ r.heap = n.heap /\ r.strings = n.strings /\ r.globals = n.globals
      /\ r.tables = n.tables
      /\ r.nq_bytes_allocated = Counter(n.nq_bytes_allocated, zero, b)
  BY <1>1, Realloc DEF r
<1>4. Shrunk(r, n)
  BY <1>3 DEF Shrunk
<1>5. Sound(r) /\ Roomy(r)
  BY <1>3, <1>4, ShrunkIsSound
<1>6. Counter(n.nq_bytes_allocated, zero, b) = n.nq_bytes_allocated + b
  BY <1>2 DEF Counter, zero
<1>7. Between(r, lo + b, hi + b)
  BY <1>2, <1>3, <1>6 DEF Between
<1>. QED  BY <1>5, <1>7 DEF r, zero

-----------------------------------------------------------------------------
(* Objects that grow. *)

Resized(a, old, new) == [a EXCEPT !.bytes = @ - old + new]

LEMMA ObjectField ==
  ASSUME NEW n \in Machine, NEW o \in Obj, NEW old \in Nat, NEW new \in Nat,
         NEW y \in Object, y = Resized(n.heap[o], old, new)
  PROVE  LET r == ObjectRealloc(n, o, old, new) IN
         /\ r \in Machine
         /\ r.heap = [n.heap EXCEPT ![o] = y] /\ r.heap[o] = y
         /\ r.strings = n.strings /\ r.globals = n.globals /\ r.tables = n.tables
         /\ r.nq_bytes_allocated = Counter(n.nq_bytes_allocated, old, new)
<1>. DEFINE q == nq_realloc(n, old, new)
            r == ObjectRealloc(n, o, old, new)
            h == [n.heap EXCEPT ![o] = y]
<1>1. /\ q \in Machine
      /\ q.heap = n.heap /\ q.strings = n.strings /\ q.globals = n.globals
      /\ q.tables = n.tables
      /\ q.nq_bytes_allocated = Counter(n.nq_bytes_allocated, old, new)
  BY Realloc
<1>2. n.heap \in Heap /\ h \in Heap /\ h[o] = y
  <2>1. n.heap \in Heap
    BY MachineFacts
  <2>. QED  BY <2>1 DEF Heap
<1>3. r = [q EXCEPT !.heap = [q.heap EXCEPT ![o] = [q.heap[o] EXCEPT !.bytes = @ - old + new]]]
  BY <1>1 DEF ObjectRealloc, Machine
<1>4. [q.heap EXCEPT ![o] = [q.heap[o] EXCEPT !.bytes = @ - old + new]] = h
  BY <1>1 DEF Resized
<1>. HIDE DEF q, r, h
<1>5. r = [q EXCEPT !.heap = h]
  BY <1>3, <1>4
<1>6. /\ r \in Machine /\ r.heap = h
      /\ r.strings = n.strings /\ r.globals = n.globals /\ r.tables = n.tables
      /\ r.nq_bytes_allocated = Counter(n.nq_bytes_allocated, old, new)
  BY <1>1, <1>2, <1>5 DEF Machine
<1>. QED  BY <1>2, <1>6 DEF r, h

\* An object of which only the sizes change.
LEMMA GrowStep ==
  ASSUME NEW n, Sound(n), Roomy(n), NEW lo \in Int, NEW hi \in Nat, Between(n, lo, hi),
         NEW o \in Obj, NEW a \in Object, n.heap[o] = a, a.type # "string",
         NEW x \in Object, x.type # "string", Fits(x),
         NEW old \in Nat, NEW new \in Nat, old <= Size(a),
         x.bytes = a.bytes - old + new, Size(x) = Size(a) - old + new,
         NEW r \in Machine, r.heap = [n.heap EXCEPT ![o] = x],
         r.strings = n.strings, r.globals = n.globals, r.tables = n.tables,
         r.nq_bytes_allocated = Counter(n.nq_bytes_allocated, old, new)
  PROVE  Sound(r) /\ Roomy(r) /\ Between(r, lo, hi)
<1>1. /\ a # NoObj /\ x # NoObj
      /\ a.bytes \in Nat /\ Size(a) \in Nat /\ x.bytes \in Nat /\ Size(x) \in Nat
  BY ObjectFacts
<1>2. Bytes(n.heap[o]) = a.bytes /\ Least(n.heap[o]) = Size(a) /\ Bytes(x) = x.bytes
  BY <1>1 DEF Bytes, Least
<1>3. /\ lo + Bytes(x) - Bytes(n.heap[o]) <= lo - old + new
      /\ hi - old + new <= hi + Size(x) - Least(n.heap[o])
      /\ new <= hi + Size(x)
  <2>1. lo + x.bytes - a.bytes <= lo - old + new
    BY <1>1
  <2>2. hi - old + new <= hi + Size(x) - Size(a)
    BY <1>1
  <2>3. new <= hi + Size(x)
    BY <1>1
  <2>. QED  BY <1>2, <2>1, <2>2, <2>3
<1>4. Sound(r) /\ Between(r, lo, hi)
  BY <1>3, PutStep
<1>5. Strings(r) = Strings(n)
  <2>1. n.heap \in Heap
    BY MachineFacts DEF Sound
  <2>2. r.heap[o] = x /\ \A p \in Obj \ {o} : r.heap[p] = n.heap[p]
    BY <2>1 DEF Heap
  <2>. QED  BY <2>2 DEF Strings, Live
<1>6. Roomy(r)
  BY <1>5 DEF Roomy
<1>. QED  BY <1>4, <1>6

-----------------------------------------------------------------------------
(* The actions. *)

USE DEF rest

LEMMA InvFacts ==
  ASSUME Inv
  PROVE  /\ Sound(m) /\ Roomy(m) /\ Between(m, - unseen, unreturned)
         /\ m \in Machine /\ - unseen \in Int /\ unreturned \in Nat /\ unseen \in Nat
  BY DEF Inv, Sound

LEMMA InvTo ==
  ASSUME Inv, UNCHANGED rest, Sound(m'), Roomy(m'), Between(m', - unseen, unreturned)
  PROVE  Inv'
  BY DEF Inv, Sound, Roomy, Between, OneOfEach, EntryBytes, PointerBytes, Strings, Live

\* copyString and takeString: what was set aside becomes the string's or goes.
LEMMA TakeStringInv ==
  ASSUME Inv, NEW t \in Text,
         m' \in AllocString(nq_realloc(m, 0, Length[t] + 1), t, Length[t] + 1), UNCHANGED rest
  PROVE  Inv'
<1>. DEFINE b == Length[t] + 1
            n == nq_realloc(m, 0, b)
            lo == - unseen
            hi == unreturned
            lo1 == lo + b
            hi1 == hi + b
            r == m'
<1>1. /\ Sound(m) /\ Roomy(m) /\ Between(m, lo, hi) /\ lo \in Int /\ hi \in Nat
      /\ b \in Nat /\ lo1 \in Int /\ hi1 \in Nat /\ Length[t] \in Nat
  BY InvFacts, Constants
<1>2. r \in AllocString(n, t, b)
  OBVIOUS
<1>3. lo + b <= lo1 /\ hi1 <= hi + Length[t] + 1 /\ Length[t] + 1 <= b
  BY <1>1
<1>4. Sound(n) /\ Roomy(n) /\ Between(n, lo1, hi1)
  <2>. HIDE DEF b, lo, hi
  <2>. QED  BY <1>1, BufferStep
<1>. HIDE DEF b, n, lo, hi, lo1, hi1, r
<1>5. Sound(r) /\ Roomy(r) /\ Between(r, lo, hi)
  BY <1>1, <1>2, <1>3, <1>4, AllocStringStep
<1>. QED  BY <1>5, InvTo DEF r, lo, hi

\* OP_MUL: the string's buffer has not been counted.
LEMMA OpMulInv ==
  ASSUME Inv, NEW t \in Text, OpMul(t)
  PROVE  Inv'
<1>. DEFINE b == Length[t] + 1
            lo == - unseen
            hi == unreturned
            lo2 == - unseen - b
            r == m'
<1>1. /\ Sound(m) /\ Roomy(m) /\ Between(m, lo, hi) /\ lo \in Int /\ hi \in Nat
      /\ b \in Nat /\ lo2 \in Int /\ Length[t] \in Nat /\ unseen \in Nat
  BY InvFacts, Constants
<1>2. r \in AllocString(m, t, b)
  BY DEF OpMul
<1>3. lo2 + b <= lo /\ hi <= hi + Length[t] + 1 /\ Length[t] + 1 <= b
  BY <1>1
<1>4. /\ unseen' = unseen + b /\ unreturned' = unreturned /\ nq_gc_vm' = nq_gc_vm
  BY <1>1 DEF OpMul
<1>5. - unseen' = lo2 /\ unseen' \in Nat
  BY <1>1, <1>4
<1>. HIDE DEF b, lo, hi, lo2, r
<1>6. Sound(r) /\ Roomy(r) /\ Between(r, lo2, hi)
  BY <1>1, <1>2, <1>3, AllocStringStep
<1>7. Sound(m') /\ Roomy(m') /\ Between(m', - unseen', unreturned')
  BY <1>4, <1>5, <1>6 DEF r, hi
<1>8. nq_gc_vm \in BOOLEAN /\ unreturned \in Nat
  BY DEF Inv
<1>. QED  BY <1>4, <1>5, <1>7, <1>8 DEF Inv, Sound, Roomy, Between, OneOfEach, EntryBytes,
                                        PointerBytes, Strings, Live

\* join(): the bytes set aside for a number are not given back.
LEMMA JoinInv ==
  ASSUME Inv, NEW t \in Text, Join(t)
  PROVE  Inv'
<1>. DEFINE b == Length[t] + 1 + Spare
            n == nq_realloc(m, 0, b)
            lo == - unseen
            hi == unreturned
            lo1 == lo + b
            hi1 == hi + b
            hi2 == unreturned + Spare
            r == m'
<1>1. /\ Sound(m) /\ Roomy(m) /\ Between(m, lo, hi) /\ lo \in Int /\ hi \in Nat
      /\ b \in Nat /\ lo1 \in Int /\ hi1 \in Nat /\ hi2 \in Nat /\ Length[t] \in Nat /\ Spare \in Nat
  BY InvFacts, Constants
<1>2. r \in AllocString(n, t, b)
  BY DEF Join
<1>3. lo + b <= lo1 /\ hi1 <= hi2 + Length[t] + 1 /\ Length[t] + 1 <= b
  BY <1>1
<1>4. /\ unreturned' = hi2 /\ unseen' = unseen /\ nq_gc_vm' = nq_gc_vm
  BY DEF Join
<1>5. Sound(n) /\ Roomy(n) /\ Between(n, lo1, hi1)
  <2>. HIDE DEF b, lo, hi
  <2>. QED  BY <1>1, BufferStep
<1>. HIDE DEF b, n, lo, hi, lo1, hi1, hi2, r
<1>6. Sound(r) /\ Roomy(r) /\ Between(r, lo, hi2)
  BY <1>1, <1>2, <1>3, <1>5, AllocStringStep
<1>7. Sound(m') /\ Roomy(m') /\ Between(m', - unseen', unreturned')
  BY <1>4, <1>6 DEF r, lo
<1>8. nq_gc_vm \in BOOLEAN /\ unseen \in Nat
  BY DEF Inv
<1>. QED  BY <1>1, <1>4, <1>7, <1>8 DEF Inv, Sound, Roomy, Between, OneOfEach, EntryBytes,
                                        PointerBytes, Strings, Live

\* An object that owns no buffer yet.
LEMMA NewInv ==
  ASSUME Inv, UNCHANGED rest, NEW x \in Object, x.type # "string", Fits(x),
         x.bytes = SizeOf[x.type], Size(x) = SizeOf[x.type], m' \in AllocObject(m, x)
  PROVE  Inv'
<1>. DEFINE lo == - unseen
            hi == unreturned
            r == m'
<1>1. /\ Sound(m) /\ Roomy(m) /\ Between(m, lo, hi) /\ lo \in Int /\ hi \in Nat
      /\ SizeOf[x.type] \in Nat /\ r \in AllocObject(m, x)
  BY InvFacts, ObjectFacts
<1>. HIDE DEF lo, hi, r
<1>2. lo + x.bytes <= lo + SizeOf[x.type] /\ hi + SizeOf[x.type] <= hi + Size(x)
  BY <1>1
<1>3. Sound(r) /\ Roomy(r) /\ Between(r, lo, hi)
  BY <1>1, <1>2, NewStep
<1>. QED  BY <1>3, InvTo DEF r, lo, hi

LEMMA NewArrayInv ==
  ASSUME Inv, NewArray
  PROVE  Inv'
<1>. DEFINE x == [type |-> "array", count |-> 0, capacity |-> 0, bytes |-> SizeOf["array"]]
<1>1. SizeOf["array"] \in Nat
  BY Constants
<1>2. x \in ArrayObj /\ x.type = "array" /\ x.bytes = SizeOf["array"] /\ x.capacity = 0 /\ x.count = 0
  BY <1>1 DEF ArrayObj
<1>3. m' \in AllocObject(m, x) /\ UNCHANGED rest
  BY DEF NewArray
<1>. HIDE DEF x
<1>4. ValueBytes(0) = 0
  BY Constants DEF ValueBytes
<1>5. Size(x) = SizeOf["array"]
  BY <1>1, <1>2, <1>4, ArraySize
<1>6. Fits(x) /\ x \in Object
  BY <1>1, <1>2, <1>5 DEF Fits, Object
<1>. QED  BY <1>2, <1>3, <1>5, <1>6, NewInv

LEMMA NewNativeInv ==
  ASSUME Inv, NewNative
  PROVE  Inv'
<1>. DEFINE x == [type |-> "native", bytes |-> SizeOf["native"]]
<1>1. SizeOf["native"] \in Nat
  BY Constants
<1>2. x \in NativeObj /\ x.type = "native" /\ x.bytes = SizeOf["native"]
  BY <1>1 DEF NativeObj
<1>3. m' \in AllocObject(m, x) /\ UNCHANGED rest
  BY DEF NewNative
<1>. HIDE DEF x
<1>4. Size(x) = SizeOf["native"]
  BY <1>2, NativeSize
<1>5. Fits(x) /\ x \in Object
  BY <1>1, <1>2, <1>4 DEF Fits, Object
<1>. QED  BY <1>2, <1>3, <1>4, <1>5, NewInv

\* An object changes its sizes, and with them the counter.
LEMMA GrowInv ==
  ASSUME Inv, UNCHANGED rest,
         NEW o \in Obj, NEW a \in Object, m.heap[o] = a, a.type # "string",
         NEW x \in Object, x.type # "string", Fits(x),
         NEW old \in Nat, NEW new \in Nat, old <= Size(a),
         x.bytes = a.bytes - old + new, Size(x) = Size(a) - old + new,
         m' \in Machine, m'.heap = [m.heap EXCEPT ![o] = x],
         m'.strings = m.strings, m'.globals = m.globals, m'.tables = m.tables,
         m'.nq_bytes_allocated = Counter(m.nq_bytes_allocated, old, new)
  PROVE  Inv'
<1>. DEFINE lo == - unseen
            hi == unreturned
            r == m'
            n == m
<1>1. /\ Sound(n) /\ Roomy(n) /\ Between(n, lo, hi) /\ lo \in Int /\ hi \in Nat
      /\ r \in Machine /\ r.heap = [n.heap EXCEPT ![o] = x] /\ n.heap[o] = a
      /\ r.strings = n.strings /\ r.globals = n.globals /\ r.tables = n.tables
      /\ r.nq_bytes_allocated = Counter(n.nq_bytes_allocated, old, new)
  BY InvFacts
<1>. HIDE DEF lo, hi, r, n
<1>2. Sound(r) /\ Roomy(r) /\ Between(r, lo, hi)
  BY <1>1, GrowStep
<1>. QED  BY <1>2, InvTo DEF r, lo, hi

LEMMA HeapExcept ==
  ASSUME NEW n \in Machine, NEW q \in Machine, NEW o \in Obj, NEW y \in Object, NEW x \in Object,
         q.heap = [n.heap EXCEPT ![o] = y], NEW s, s = [q EXCEPT !.heap = [@ EXCEPT ![o] = x]]
  PROVE  /\ s \in Machine /\ s.heap = [n.heap EXCEPT ![o] = x]
         /\ s.strings = q.strings /\ s.globals = q.globals /\ s.tables = q.tables
         /\ s.nq_bytes_allocated = q.nq_bytes_allocated
<1>. DEFINE h == [n.heap EXCEPT ![o] = x]
<1>1. n.heap \in Heap /\ h \in Heap
  <2>1. n.heap \in Heap
    BY MachineFacts
  <2>. QED  BY <2>1 DEF Heap
<1>2. [q.heap EXCEPT ![o] = x] = h
  BY <1>1 DEF Heap
<1>3. s = [q EXCEPT !.heap = h]
  BY <1>2 DEF Machine
<1>. HIDE DEF h
<1>4. /\ s \in Machine /\ s.heap = h
      /\ s.strings = q.strings /\ s.globals = q.globals /\ s.tables = q.tables
      /\ s.nq_bytes_allocated = q.nq_bytes_allocated
  BY <1>1, <1>3 DEF Machine
<1>. QED  BY <1>4 DEF h

LEMMA HeapObject ==
  ASSUME Inv, NEW o \in Obj, m.heap[o].type \in {"array", "function"}
  PROVE  /\ m.heap[o] \in Object /\ Fits(m.heap[o])
         /\ m.heap[o].type = "array" => m.heap[o] \in ArrayObj
         /\ m.heap[o].type = "function" => m.heap[o] \in FunctionObj
<1>1. m \in Machine /\ m.heap \in Heap
  BY InvFacts, MachineFacts
<1>2. m.heap[o] \in Object
  BY <1>1, HeapFacts DEF NoObj
<1>3. m.heap[o] # NoObj
  BY <1>2, ObjectFacts
<1>4. Fits(m.heap[o])
  BY <1>3 DEF Inv, Sound
<1>. QED  BY <1>2, <1>4, ObjectFacts

\* The EXCEPTs of the actions that let an object grow, one at a time.
WithCount(q, o, c) == [q EXCEPT !.heap[o].count = @ + 1, !.heap[o].capacity = c]
OneMore(y, c) == [y EXCEPT !.count = @ + 1, !.capacity = c]

LEMMA CountFields ==
  ASSUME NEW q \in Machine, NEW o \in Obj, NEW y \in Object, q.heap[o] = y, NEW c
  PROVE  WithCount(q, o, c) = [q EXCEPT !.heap = [@ EXCEPT ![o] = OneMore(y, c)]]
<1>. DEFINE y1 == [y EXCEPT !.count = @ + 1]
            q1 == [q EXCEPT !.heap[o].count = @ + 1]
            s == WithCount(q, o, c)
<1>1. q.heap \in Heap /\ DOMAIN q.heap = Obj
  BY MachineFacts DEF Heap
<1>2. q1 = [q EXCEPT !.heap = [q.heap EXCEPT ![o] = y1]]
  BY DEF Machine
<1>3. q1.heap = [q.heap EXCEPT ![o] = y1] /\ q1.heap[o] = y1
  BY <1>1, <1>2 DEF Machine
<1>4. s = [q1 EXCEPT !.heap = [q1.heap EXCEPT ![o] = [q1.heap[o] EXCEPT !.capacity = c]]]
  BY <1>2 DEF Machine, WithCount
<1>. HIDE DEF q1, y1, s
<1>5. s = [q EXCEPT !.heap = [q.heap EXCEPT ![o] = [y1 EXCEPT !.capacity = c]]]
  BY <1>1, <1>2, <1>3, <1>4 DEF Machine
<1>6. [y1 EXCEPT !.capacity = c] = OneMore(y, c)
  BY DEF y1, OneMore
<1>. QED  BY <1>5, <1>6 DEF Machine, s

LEMMA ArrayMore ==
  ASSUME NEW y \in ArrayObj, NEW c \in Nat
  PROVE  LET x == OneMore(y, c) IN
         /\ x \in ArrayObj /\ x.type = "array" /\ x.bytes = y.bytes
         /\ x.count = y.count + 1 /\ x.capacity = c
<1>. DEFINE z == [y EXCEPT !.count = @ + 1]
            x == [z EXCEPT !.capacity = c]
<1>1. z \in ArrayObj /\ z.bytes = y.bytes /\ z.count = y.count + 1
  BY DEF ArrayObj
<1>2. OneMore(y, c) = x
  BY DEF OneMore
<1>. HIDE DEF z
<1>3. x \in ArrayObj /\ x.type = "array" /\ x.bytes = z.bytes /\ x.count = z.count /\ x.capacity = c
  BY <1>1 DEF ArrayObj
<1>. QED  BY <1>1, <1>2, <1>3

LEMMA FunctionMore ==
  ASSUME NEW y \in FunctionObj, NEW c \in Nat
  PROVE  LET x == OneMore(y, c) IN
         /\ x \in FunctionObj /\ x.type = "function" /\ x.bytes = y.bytes
         /\ x.count = y.count + 1 /\ x.capacity = c
         /\ x.values = y.values /\ x.constants = y.constants
<1>. DEFINE z == [y EXCEPT !.count = @ + 1]
            x == [z EXCEPT !.capacity = c]
<1>1. /\ z \in FunctionObj /\ z.bytes = y.bytes /\ z.count = y.count + 1
      /\ z.values = y.values /\ z.constants = y.constants
  BY DEF FunctionObj
<1>2. OneMore(y, c) = x
  BY DEF OneMore
<1>. HIDE DEF z
<1>3. /\ x \in FunctionObj /\ x.type = "function" /\ x.bytes = z.bytes /\ x.count = z.count
      /\ x.capacity = c /\ x.values = z.values /\ x.constants = z.constants
  BY <1>1 DEF FunctionObj
<1>. QED  BY <1>1, <1>2, <1>3

\* The same for the constants of a chunk.
WithValue(q, o, c) == [q EXCEPT !.heap[o].values = @ + 1, !.heap[o].constants = c]
OneMoreValue(y, c) == [y EXCEPT !.values = @ + 1, !.constants = c]

LEMMA ValueFields ==
  ASSUME NEW q \in Machine, NEW o \in Obj, NEW y \in Object, q.heap[o] = y, NEW c
  PROVE  WithValue(q, o, c) = [q EXCEPT !.heap = [@ EXCEPT ![o] = OneMoreValue(y, c)]]
<1>. DEFINE y1 == [y EXCEPT !.values = @ + 1]
            q1 == [q EXCEPT !.heap[o].values = @ + 1]
            s == WithValue(q, o, c)
<1>1. q.heap \in Heap /\ DOMAIN q.heap = Obj
  BY MachineFacts DEF Heap
<1>2. q1 = [q EXCEPT !.heap = [q.heap EXCEPT ![o] = y1]]
  BY DEF Machine
<1>3. q1.heap = [q.heap EXCEPT ![o] = y1] /\ q1.heap[o] = y1
  BY <1>1, <1>2 DEF Machine
<1>4. s = [q1 EXCEPT !.heap = [q1.heap EXCEPT ![o] = [q1.heap[o] EXCEPT !.constants = c]]]
  BY <1>2 DEF Machine, WithValue
<1>. HIDE DEF q1, y1, s
<1>5. s = [q EXCEPT !.heap = [q.heap EXCEPT ![o] = [y1 EXCEPT !.constants = c]]]
  BY <1>1, <1>2, <1>3, <1>4 DEF Machine
<1>6. [y1 EXCEPT !.constants = c] = OneMoreValue(y, c)
  BY DEF y1, OneMoreValue
<1>. QED  BY <1>5, <1>6 DEF Machine, s

LEMMA ValueMore ==
  ASSUME NEW y \in FunctionObj, NEW c \in Nat
  PROVE  LET x == OneMoreValue(y, c) IN
         /\ x \in FunctionObj /\ x.type = "function" /\ x.bytes = y.bytes
         /\ x.values = y.values + 1 /\ x.constants = c
         /\ x.count = y.count /\ x.capacity = y.capacity
<1>. DEFINE z == [y EXCEPT !.values = @ + 1]
            x == [z EXCEPT !.constants = c]
<1>1. /\ z \in FunctionObj /\ z.bytes = y.bytes /\ z.values = y.values + 1
      /\ z.count = y.count /\ z.capacity = y.capacity
  BY DEF FunctionObj
<1>2. OneMoreValue(y, c) = x
  BY DEF OneMoreValue
<1>. HIDE DEF z
<1>3. /\ x \in FunctionObj /\ x.type = "function" /\ x.bytes = z.bytes /\ x.values = z.values
      /\ x.constants = c /\ x.count = z.count /\ x.capacity = z.capacity
  BY <1>1 DEF FunctionObj
<1>. QED  BY <1>1, <1>2, <1>3

\* An object that got a larger block has one more item.
LEMMA PushInv ==
  ASSUME Inv, UNCHANGED rest,
         NEW o \in Obj, NEW a \in Object, m.heap[o] = a, a.type # "string",
         NEW old \in Nat, NEW new \in Nat, old <= Size(a),
         NEW y \in Object, y = Resized(a, old, new),
         NEW x \in Object, x.type # "string", Fits(x),
         x.bytes = a.bytes - old + new, Size(x) = Size(a) - old + new,
         m' = [ObjectRealloc(m, o, old, new) EXCEPT !.heap = [@ EXCEPT ![o] = x]]
  PROVE  Inv'
<1>. DEFINE n == m
            s == m'
            q == ObjectRealloc(n, o, old, new)
<1>1. n \in Machine /\ y = Resized(n.heap[o], old, new)
  BY InvFacts
<1>2. s = [q EXCEPT !.heap = [@ EXCEPT ![o] = x]]
  OBVIOUS
<1>. HIDE DEF n, s, q
<1>3. /\ q \in Machine
      /\ q.heap = [n.heap EXCEPT ![o] = y]
      /\ q.strings = n.strings /\ q.globals = n.globals /\ q.tables = n.tables
      /\ q.nq_bytes_allocated = Counter(n.nq_bytes_allocated, old, new)
  BY <1>1, ObjectField DEF q
<1>4. /\ s \in Machine /\ s.heap = [n.heap EXCEPT ![o] = x]
      /\ s.strings = q.strings /\ s.globals = q.globals /\ s.tables = q.tables
      /\ s.nq_bytes_allocated = q.nq_bytes_allocated
  BY <1>1, <1>2, <1>3, HeapExcept
<1>5. /\ m' \in Machine /\ m'.heap = [m.heap EXCEPT ![o] = x]
      /\ m'.strings = m.strings /\ m'.globals = m.globals /\ m'.tables = m.tables
      /\ m'.nq_bytes_allocated = Counter(m.nq_bytes_allocated, old, new)
  BY <1>3, <1>4 DEF s, n
<1>. QED  BY <1>5, GrowInv

LEMMA ArrayPushInv ==
  ASSUME Inv, NEW o \in Obj, ArrayPush(o)
  PROVE  Inv'
<1>. DEFINE n == m
            a == m.heap[o]
            cap == Room(a.count, a.capacity)
            old == ValueBytes(a.capacity)
            new == ValueBytes(cap)
            y == Resized(a, old, new)
            x == OneMore(y, cap)
            q == ObjectRealloc(n, o, old, new)
            s == m'
<1>1. a \in ArrayObj /\ a \in Object /\ Fits(a)
  BY HeapObject DEF ArrayPush
<1>2. s = WithCount(q, o, cap) /\ UNCHANGED rest
  BY DEF ArrayPush, WithCount
<1>3. n \in Machine /\ n.heap[o] = a
  BY InvFacts
<1>. HIDE DEF n, a, s
<1>4. /\ a.type = "array" /\ a.count \in Nat /\ a.capacity \in Nat /\ a.bytes \in Nat
      /\ Size(a) \in Nat /\ Size(a) = old + SizeOf["array"] /\ a.count <= a.capacity
      /\ Size(a) <= a.bytes
  BY <1>1, ArraySize DEF Fits
<1>5. cap \in Nat /\ a.count + 1 <= cap /\ old \in Nat
  BY <1>4, Capacities
<1>6. new \in Nat
  <2>. HIDE DEF cap
  <2>. QED  BY <1>5, Capacities
<1>7. SizeOf["array"] \in Nat
  BY Constants
<1>8. old <= Size(a) /\ a.bytes - old + new \in Nat
  BY <1>4, <1>5, <1>6, <1>7
<1>. HIDE DEF cap, old
<1>9. y \in ArrayObj /\ y.bytes = a.bytes - old + new /\ y.count = a.count /\ y.type = "array"
  BY <1>1, <1>8 DEF ArrayObj, Resized
<1>10. y \in Object /\ y = Resized(n.heap[o], old, new)
  BY <1>3, <1>9 DEF Object
<1>11. q \in Machine /\ q.heap[o] = y
  <2>1. n \in Machine /\ old \in Nat /\ new \in Nat
    BY <1>3, <1>5, <1>6
  <2>. HIDE DEF y, new, q
  <2>2. /\ q \in Machine
        /\ q.heap = [n.heap EXCEPT ![o] = y] /\ q.heap[o] = y
    BY <1>10, <2>1, ObjectField DEF q
  <2>. QED  BY <2>2
<1>. HIDE DEF y
<1>12. /\ x \in ArrayObj /\ x.type = "array" /\ x.bytes = y.bytes
       /\ x.count = y.count + 1 /\ x.capacity = cap
  BY <1>5, <1>9, ArrayMore
<1>. HIDE DEF q
<1>13. WithCount(q, o, cap) = [q EXCEPT !.heap = [@ EXCEPT ![o] = x]]
  BY <1>10, <1>11, CountFields
<1>. HIDE DEF new, x
<1>14. Size(x) = new + SizeOf["array"]
  BY <1>12, ArraySize DEF new
<1>15. Size(x) = Size(a) - old + new
  BY <1>4, <1>5, <1>6, <1>7, <1>14
<1>16. x.bytes = a.bytes - old + new
  BY <1>9, <1>12
<1>17. Fits(x)
  BY <1>4, <1>5, <1>6, <1>8, <1>9, <1>12, <1>15 DEF Fits
<1>18. m' = [ObjectRealloc(m, o, old, new) EXCEPT !.heap = [@ EXCEPT ![o] = x]]
  BY <1>2, <1>13 DEF s, n, q
<1>19. /\ m.heap[o] = a /\ a.type # "string" /\ x.type # "string" /\ x \in Object
       /\ y = Resized(a, old, new) /\ UNCHANGED rest
  BY <1>2, <1>4, <1>12 DEF a, Object, y
<1>. QED  BY <1>1, <1>5, <1>6, <1>8, <1>10, <1>15, <1>16, <1>17, <1>18, <1>19, PushInv

\* The lines are reallocated with the code.
LEMMA WriteChunkInv ==
  ASSUME Inv, NEW o \in Obj, WriteChunk(o)
  PROVE  Inv'
<1>. DEFINE n == m
            a == m.heap[o]
            cap == Room(a.count, a.capacity)
            old == CodeBytes(a.capacity)
            new == CodeBytes(cap)
            other == SizeOf["chunk"] + ValueBytes(a.constants) + SizeOf["function"]
            y == Resized(a, old, new)
            x == OneMore(y, cap)
            q == ObjectRealloc(n, o, old, new)
            s == m'
<1>1. a \in FunctionObj /\ a \in Object /\ Fits(a)
  BY HeapObject DEF WriteChunk
<1>2. s = WithCount(q, o, cap) /\ UNCHANGED rest
  BY DEF WriteChunk, WithCount
<1>3. n \in Machine /\ n.heap[o] = a
  BY InvFacts
<1>. HIDE DEF n, a, s
<1>4. /\ a.type = "function" /\ a.count \in Nat /\ a.capacity \in Nat /\ a.bytes \in Nat
      /\ a.values \in Nat /\ a.constants \in Nat /\ a.values <= a.constants
      /\ a.count <= a.capacity /\ Size(a) <= a.bytes
  BY <1>1, FunctionSize DEF Fits
<1>5. cap \in Nat /\ a.count + 1 <= cap /\ old \in Nat /\ ValueBytes(a.constants) \in Nat
  BY <1>4, Capacities
<1>6. new \in Nat
  <2>. HIDE DEF cap
  <2>. QED  BY <1>5, Capacities
<1>7. other \in Nat /\ Size(a) \in Nat /\ Size(a) = old + other
  <2>1. Size(a) = SizeOf["chunk"] + old + ValueBytes(a.constants) + SizeOf["function"]
    BY <1>1, FunctionSize
  <2>2. SizeOf["chunk"] \in Nat /\ SizeOf["function"] \in Nat
    BY Constants
  <2>. HIDE DEF old
  <2>. QED  BY <1>5, <2>1, <2>2
<1>. HIDE DEF cap, old
<1>8. old <= Size(a) /\ a.bytes - old + new \in Nat
  <2>. HIDE DEF other, new
  <2>. QED  BY <1>4, <1>5, <1>6, <1>7
<1>9. /\ y \in FunctionObj /\ y.bytes = a.bytes - old + new /\ y.count = a.count
      /\ y.type = "function" /\ y.values = a.values /\ y.constants = a.constants
  BY <1>1, <1>8 DEF FunctionObj, Resized
<1>10. y \in Object /\ y = Resized(n.heap[o], old, new)
  BY <1>3, <1>9 DEF Object
<1>11. q \in Machine /\ q.heap[o] = y
  <2>1. n \in Machine /\ old \in Nat /\ new \in Nat
    BY <1>3, <1>5, <1>6
  <2>. HIDE DEF y, new, q
  <2>2. /\ q \in Machine
        /\ q.heap = [n.heap EXCEPT ![o] = y] /\ q.heap[o] = y
    BY <1>10, <2>1, ObjectField DEF q
  <2>. QED  BY <2>2
<1>. HIDE DEF y
<1>12. /\ x \in FunctionObj /\ x.type = "function" /\ x.bytes = y.bytes
       /\ x.count = y.count + 1 /\ x.capacity = cap
       /\ x.values = y.values /\ x.constants = y.constants
  BY <1>5, <1>9, FunctionMore
<1>. HIDE DEF q
<1>13. WithCount(q, o, cap) = [q EXCEPT !.heap = [@ EXCEPT ![o] = x]]
  BY <1>10, <1>11, CountFields
<1>. HIDE DEF new, x
<1>14. Size(x) = new + other
  <2>1. Size(x) = SizeOf["chunk"] + CodeBytes(x.capacity) + ValueBytes(x.constants) + SizeOf["function"]
    BY <1>12, FunctionSize
  <2>2. CodeBytes(x.capacity) = new /\ x.constants = a.constants
    BY <1>9, <1>12 DEF new
  <2>3. SizeOf["chunk"] \in Nat /\ SizeOf["function"] \in Nat
    BY Constants
  <2>. QED  BY <1>5, <1>6, <2>1, <2>2, <2>3
<1>. HIDE DEF other
<1>15. Size(x) = Size(a) - old + new
  BY <1>5, <1>6, <1>7, <1>14
<1>16. x.bytes = a.bytes - old + new
  BY <1>9, <1>12
<1>17. Fits(x)
  <2>1. Size(x) <= x.bytes
    BY <1>4, <1>5, <1>6, <1>7, <1>8, <1>15, <1>16
  <2>2. x.count <= x.capacity /\ x.values <= x.constants
    BY <1>4, <1>5, <1>9, <1>12
  <2>. QED  BY <2>1, <2>2 DEF Fits
<1>18. m' = [ObjectRealloc(m, o, old, new) EXCEPT !.heap = [@ EXCEPT ![o] = x]]
  BY <1>2, <1>13 DEF s, n, q
<1>19. /\ m.heap[o] = a /\ a.type # "string" /\ x.type # "string" /\ x \in Object
       /\ y = Resized(a, old, new) /\ UNCHANGED rest
  BY <1>2, <1>4, <1>12 DEF a, Object, y
<1>. QED  BY <1>1, <1>5, <1>6, <1>8, <1>10, <1>15, <1>16, <1>17, <1>18, <1>19, PushInv

LEMMA AddConstantInv ==
  ASSUME Inv, NEW o \in Obj, AddConstant(o)
  PROVE  Inv'
<1>. DEFINE n == m
            a == m.heap[o]
            cap == Room(a.values, a.constants)
            old == ValueBytes(a.constants)
            new == ValueBytes(cap)
            other == SizeOf["chunk"] + CodeBytes(a.capacity) + SizeOf["function"]
            y == Resized(a, old, new)
            x == OneMoreValue(y, cap)
            q == ObjectRealloc(n, o, old, new)
            s == m'
<1>1. a \in FunctionObj /\ a \in Object /\ Fits(a)
  BY HeapObject DEF AddConstant
<1>2. s = WithValue(q, o, cap) /\ UNCHANGED rest
  BY DEF AddConstant, WithValue
<1>3. n \in Machine /\ n.heap[o] = a
  BY InvFacts
<1>. HIDE DEF n, a, s
<1>4. /\ a.type = "function" /\ a.count \in Nat /\ a.capacity \in Nat /\ a.bytes \in Nat
      /\ a.values \in Nat /\ a.constants \in Nat /\ a.values <= a.constants
      /\ a.count <= a.capacity /\ Size(a) <= a.bytes
  BY <1>1, FunctionSize DEF Fits
<1>5. cap \in Nat /\ a.values + 1 <= cap /\ old \in Nat /\ CodeBytes(a.capacity) \in Nat
  BY <1>4, Capacities
<1>6. new \in Nat
  <2>. HIDE DEF cap
  <2>. QED  BY <1>5, Capacities
<1>7. other \in Nat /\ Size(a) \in Nat /\ Size(a) = old + other
  <2>1. Size(a) = SizeOf["chunk"] + CodeBytes(a.capacity) + old + SizeOf["function"]
    BY <1>1, FunctionSize
  <2>2. SizeOf["chunk"] \in Nat /\ SizeOf["function"] \in Nat
    BY Constants
  <2>. HIDE DEF old
  <2>. QED  BY <1>5, <2>1, <2>2
<1>. HIDE DEF cap, old
<1>8. old <= Size(a) /\ a.bytes - old + new \in Nat
  <2>. HIDE DEF other, new
  <2>. QED  BY <1>4, <1>5, <1>6, <1>7
<1>9. /\ y \in FunctionObj /\ y.bytes = a.bytes - old + new /\ y.count = a.count
      /\ y.type = "function" /\ y.values = a.values /\ y.capacity = a.capacity
  BY <1>1, <1>8 DEF FunctionObj, Resized
<1>10. y \in Object /\ y = Resized(n.heap[o], old, new)
  BY <1>3, <1>9 DEF Object
<1>11. q \in Machine /\ q.heap[o] = y
  <2>1. n \in Machine /\ old \in Nat /\ new \in Nat
    BY <1>3, <1>5, <1>6
  <2>. HIDE DEF y, new, q
  <2>2. /\ q \in Machine
        /\ q.heap = [n.heap EXCEPT ![o] = y] /\ q.heap[o] = y
    BY <1>10, <2>1, ObjectField DEF q
  <2>. QED  BY <2>2
<1>. HIDE DEF y
<1>12. /\ x \in FunctionObj /\ x.type = "function" /\ x.bytes = y.bytes
       /\ x.values = y.values + 1 /\ x.constants = cap
       /\ x.count = y.count /\ x.capacity = y.capacity
  BY <1>5, <1>9, ValueMore
<1>. HIDE DEF q
<1>13. WithValue(q, o, cap) = [q EXCEPT !.heap = [@ EXCEPT ![o] = x]]
  BY <1>10, <1>11, ValueFields
<1>. HIDE DEF new, x
<1>14. Size(x) = new + other
  <2>1. Size(x) = SizeOf["chunk"] + CodeBytes(x.capacity) + ValueBytes(x.constants) + SizeOf["function"]
    BY <1>12, FunctionSize
  <2>2. ValueBytes(x.constants) = new /\ x.capacity = a.capacity
    BY <1>9, <1>12 DEF new
  <2>3. SizeOf["chunk"] \in Nat /\ SizeOf["function"] \in Nat
    BY Constants
  <2>. QED  BY <1>5, <1>6, <2>1, <2>2, <2>3
<1>. HIDE DEF other
<1>15. Size(x) = Size(a) - old + new
  BY <1>5, <1>6, <1>7, <1>14
<1>16. x.bytes = a.bytes - old + new
  BY <1>9, <1>12
<1>17. Fits(x)
  <2>1. Size(x) <= x.bytes
    BY <1>4, <1>5, <1>6, <1>7, <1>8, <1>15, <1>16
  <2>2. x.count <= x.capacity /\ x.values <= x.constants
    BY <1>4, <1>5, <1>9, <1>12
  <2>. QED  BY <2>1, <2>2 DEF Fits
<1>18. m' = [ObjectRealloc(m, o, old, new) EXCEPT !.heap = [@ EXCEPT ![o] = x]]
  BY <1>2, <1>13 DEF s, n, q
<1>19. /\ m.heap[o] = a /\ a.type # "string" /\ x.type # "string" /\ x \in Object
       /\ y = Resized(a, old, new) /\ UNCHANGED rest
  BY <1>2, <1>4, <1>12 DEF a, Object, y
<1>. QED  BY <1>1, <1>5, <1>6, <1>8, <1>10, <1>15, <1>16, <1>17, <1>18, <1>19, PushInv

LEMMA ArrayPopInv ==
  ASSUME Inv, NEW o \in Obj, ArrayPop(o)
  PROVE  Inv'
<1>. DEFINE a == m.heap[o]
            x == [a EXCEPT !.count = @ - 1]
            zero == 0
            n == m
            s == m'
<1>1. a \in ArrayObj /\ a \in Object /\ Fits(a) /\ a.count > 0
  BY HeapObject DEF ArrayPop
<1>2. n \in Machine /\ n.heap[o] = a /\ n.heap \in Heap
  BY InvFacts, MachineFacts
<1>3. s = [n EXCEPT !.heap[o].count = @ - 1] /\ UNCHANGED rest
  BY DEF ArrayPop
<1>. HIDE DEF a, n, s
<1>4. /\ a.type = "array" /\ a.count \in Nat /\ a.capacity \in Nat /\ a.bytes \in Nat
      /\ Size(a) \in Nat /\ Size(a) = ValueBytes(a.capacity) + SizeOf["array"]
      /\ a.count <= a.capacity /\ Size(a) <= a.bytes
  BY <1>1, ArraySize DEF Fits
<1>5. a.count - 1 \in Nat
  BY <1>1, <1>4
<1>6. /\ x \in ArrayObj /\ x.type = "array" /\ x.bytes = a.bytes /\ x.capacity = a.capacity
      /\ x.count = a.count - 1
  BY <1>1, <1>5 DEF ArrayObj
<1>7. s = [n EXCEPT !.heap = [@ EXCEPT ![o] = x]]
  BY <1>2, <1>3 DEF Machine, Heap
<1>. HIDE DEF x
<1>8. Size(x) = Size(a)
  BY <1>4, <1>6, ArraySize
<1>9. Fits(x) /\ x \in Object
  BY <1>4, <1>5, <1>6, <1>8 DEF Fits, Object
<1>10. /\ s \in Machine /\ s.heap = [n.heap EXCEPT ![o] = x]
       /\ s.strings = n.strings /\ s.globals = n.globals /\ s.tables = n.tables
       /\ s.nq_bytes_allocated = n.nq_bytes_allocated
  <2>1. n.heap = [n.heap EXCEPT ![o] = a]
    BY <1>2 DEF Heap
  <2>. QED  BY <1>1, <1>2, <1>7, <1>9, <2>1, HeapExcept
<1>11. zero \in Nat /\ Counter(n.nq_bytes_allocated, zero, zero) = n.nq_bytes_allocated
  BY <1>2, MachineFacts DEF Counter
<1>12. /\ zero <= Size(a) /\ x.bytes = a.bytes - zero + zero /\ Size(x) = Size(a) - zero + zero
       /\ a.type # "string" /\ x.type # "string"
  BY <1>4, <1>6, <1>8
<1>. HIDE DEF zero
<1>13. /\ m' \in Machine /\ m'.heap = [m.heap EXCEPT ![o] = x] /\ m.heap[o] = a
       /\ m'.strings = m.strings /\ m'.globals = m.globals /\ m'.tables = m.tables
       /\ m'.nq_bytes_allocated = Counter(m.nq_bytes_allocated, zero, zero)
  BY <1>2, <1>10, <1>11 DEF n, s
<1>. QED  BY <1>1, <1>3, <1>9, <1>11, <1>12, <1>13, GrowInv

\* The object and its chunk are two blocks: between the two the object would
\* not be what the code believes.
LEMMA NewFunctionInv ==
  ASSUME Inv, NewFunction
  PROVE  Inv'
<1>. DEFINE f == [type |-> "function", count |-> 0, capacity |-> 0, values |-> 0,
                  constants |-> 0, bytes |-> SizeOf["function"]]
            lo == - unseen
            hi == unreturned
            zero == 0
            size == SizeOf["function"]
            chunk == SizeOf["chunk"]
            x == Resized(f, zero, chunk)
            s == m'
<1>1. PICK n \in AllocObject(m, f), o \in Obj :
        /\ m.heap[o] # n.heap[o] /\ n.heap[o].type = "function"
        /\ s = ObjectRealloc(n, o, zero, chunk)
  BY DEF NewFunction
<1>2. UNCHANGED rest
  BY DEF NewFunction
<1>3. size \in Nat /\ chunk \in Nat /\ zero \in Nat /\ CodeBytes(0) = 0 /\ ValueBytes(0) = 0
  BY Constants DEF CodeBytes, ValueBytes
<1>4. f \in FunctionObj /\ f \in Object /\ f.type = "function"
  BY <1>3 DEF FunctionObj, Object
<1>5. /\ x \in FunctionObj /\ x.type = "function" /\ x.bytes = size + chunk
      /\ x.count = 0 /\ x.capacity = 0 /\ x.values = 0 /\ x.constants = 0
  <2>1. x = [type |-> "function", count |-> 0, capacity |-> 0, values |-> 0,
             constants |-> 0, bytes |-> size - zero + chunk]
    BY DEF Resized
  <2>2. size - zero + chunk = size + chunk /\ size + chunk \in Nat
    BY <1>3
  <2>. QED  BY <2>1, <2>2 DEF FunctionObj
<1>6. Size(x) = size + chunk /\ Fits(x) /\ x \in Object /\ x # NoObj
  <2>. HIDE DEF x
  <2>1. Size(x) = SizeOf["chunk"] + CodeBytes(x.capacity) + ValueBytes(x.constants) + SizeOf["function"]
    BY <1>5, FunctionSize
  <2>2. Size(x) = size + chunk
    BY <1>3, <1>5, <2>1
  <2>3. Fits(x)
    BY <1>3, <1>5, <2>2 DEF Fits
  <2>4. x \in Object
    BY <1>5 DEF Object
  <2>. QED  BY <2>2, <2>3, <2>4, ObjectFacts
<1>7. /\ Sound(m) /\ Roomy(m) /\ Between(m, lo, hi) /\ lo \in Int /\ hi \in Nat
  BY InvFacts
<1>. HIDE DEF lo, hi, x, s, f
<1>8. PICK c \in MaybeCollected(m), p \in Obj :
        /\ Sound(c) /\ Roomy(c) /\ Between(c, lo, hi) /\ Shrunk(c, m)
        /\ c.heap[p] = NoObj
        /\ n \in Machine /\ n.heap = [c.heap EXCEPT ![p] = f]
        /\ n.strings = c.strings /\ n.globals = c.globals /\ n.tables = c.tables
        /\ n.nq_bytes_allocated = Counter(c.nq_bytes_allocated, 0, SizeOf[f.type])
  BY <1>1, <1>4, <1>7, AllocStep
<1>9. c \in Machine /\ c.heap \in Heap
  BY <1>8, MachineFacts DEF Sound
<1>10. o = p /\ n.heap[o] = f
  <2>1. n.heap[p] = f /\ \A i \in Obj \ {p} : n.heap[i] = c.heap[i]
    BY <1>8, <1>9 DEF Heap
  <2>2. ASSUME o # p PROVE FALSE
    <3>1. n.heap[o] = c.heap[o] /\ c.heap[o] \in {m.heap[o], NoObj}
      BY <1>8, <2>1, <2>2 DEF Shrunk
    <3>2. n.heap[o] = NoObj
      BY <1>1, <3>1
    <3>. QED  BY <1>1, <3>2 DEF NoObj
  <2>. QED  BY <2>1, <2>2
<1>11. /\ s \in Machine /\ s.heap = [n.heap EXCEPT ![o] = x]
       /\ s.strings = n.strings /\ s.globals = n.globals /\ s.tables = n.tables
       /\ s.nq_bytes_allocated = Counter(n.nq_bytes_allocated, zero, chunk)
  <2>1. n \in Machine /\ zero \in Nat /\ chunk \in Nat /\ x \in Object
    BY <1>3, <1>6, <1>8
  <2>2. x = Resized(n.heap[o], zero, chunk)
    BY <1>10 DEF x
  <2>. DEFINE r == ObjectRealloc(n, o, zero, chunk)
  <2>3. s = r
    BY <1>1
  <2>. HIDE DEF zero, chunk, r
  <2>4. /\ r \in Machine /\ r.heap = [n.heap EXCEPT ![o] = x] /\ r.heap[o] = x
        /\ r.strings = n.strings /\ r.globals = n.globals /\ r.tables = n.tables
        /\ r.nq_bytes_allocated = Counter(n.nq_bytes_allocated, zero, chunk)
    BY <2>1, <2>2, ObjectField DEF r
  <2>. QED  BY <2>3, <2>4
<1>12. s.heap = [c.heap EXCEPT ![o] = x]
  BY <1>8, <1>9, <1>10, <1>11 DEF Heap
<1>13. s.nq_bytes_allocated = Counter(c.nq_bytes_allocated, zero, size + chunk)
  <2>1. c.nq_bytes_allocated \in Nat
    BY <1>9, MachineFacts
  <2>2. n.nq_bytes_allocated = Counter(c.nq_bytes_allocated, zero, size)
    BY <1>4, <1>8
  <2>3. n.nq_bytes_allocated = c.nq_bytes_allocated + size
    BY <1>3, <2>1, <2>2 DEF Counter
  <2>4. s.nq_bytes_allocated = c.nq_bytes_allocated + size + chunk
    BY <1>3, <1>11, <2>1, <2>3 DEF Counter
  <2>5. Counter(c.nq_bytes_allocated, zero, size + chunk) = c.nq_bytes_allocated + size + chunk
    BY <1>3, <2>1 DEF Counter
  <2>. QED  BY <2>4, <2>5
<1>14. Sound(s) /\ Between(s, lo, hi)
  <2>. DEFINE new == size + chunk
  <2>1. new \in Nat /\ Bytes(x) = new /\ Size(x) = new /\ Bytes(c.heap[o]) = 0 /\ Least(c.heap[o]) = 0
    BY <1>3, <1>5, <1>6, <1>8, <1>10 DEF Bytes, Least
  <2>2. s.nq_bytes_allocated = Counter(c.nq_bytes_allocated, zero, new) /\ zero = 0
    BY <1>13
  <2>. HIDE DEF new, zero
  <2>3. /\ lo + Bytes(x) - Bytes(c.heap[o]) <= lo - zero + new
        /\ hi - zero + new <= hi + Size(x) - Least(c.heap[o])
        /\ new <= hi + Size(x)
    BY <1>7, <2>1, <2>2
  <2>4. /\ x.type # "string"
        /\ s.strings = c.strings /\ s.globals = c.globals /\ s.tables = c.tables
    BY <1>5, <1>8, <1>11
  <2>5. /\ Sound(c) /\ Fits(x) /\ x \in Object /\ zero \in Nat /\ new \in Nat
        /\ x.type = "string" => \A i \in Obj \ {o} :
                                 c.heap[i].type = "string" => c.heap[i].text # x.text
        /\ lo \in Int /\ hi \in Nat /\ Between(c, lo, hi)
        /\ s \in Machine /\ s.heap = [c.heap EXCEPT ![o] = x]
        /\ s.nq_bytes_allocated = Counter(c.nq_bytes_allocated, zero, new)
    <3>1. zero \in Nat
      BY <1>3
    <3>. QED  BY <1>6, <1>7, <1>8, <1>11, <1>12, <2>1, <2>2, <2>4, <3>1
  <2>6. /\ s.strings = c.strings /\ s.globals = c.globals /\ s.tables = c.tables
    BY <2>4
  <2>. QED  BY <2>3, <2>5, <2>6, PutStep
<1>15. Roomy(s)
  <2>1. s.heap[o] = x /\ \A i \in Obj \ {o} : s.heap[i] = c.heap[i]
    BY <1>9, <1>12 DEF Heap
  <2>2. Strings(s) = Strings(c)
    BY <1>5, <1>8, <1>10, <2>1 DEF Strings, Live
  <2>. QED  BY <1>8, <1>11, <2>2 DEF Roomy
<1>. QED  BY <1>2, <1>14, <1>15, InvTo DEF s, lo, hi

-----------------------------------------------------------------------------
(* The machine. *)

\* adjustCapacity, and then any number of keys that has room.
LEMMA TableGrownStep ==
  ASSUME NEW n, Sound(n), Roomy(n), NEW lo \in Int, NEW hi \in Nat, Between(n, lo, hi),
         NEW count \in Nat, count <= GROW_CAPACITY(n.globals.capacity)
  PROVE  LET s == [TableGrown(n) EXCEPT !.globals.count = count]
         IN  Sound(s) /\ Roomy(s) /\ Between(s, lo, hi)
<1>. DEFINE cap == GROW_CAPACITY(n.globals.capacity)
            old == SizeOf["Entry"] * n.globals.capacity
            new == SizeOf["Entry"] * cap
            q == TableRealloc(TableRealloc(n, 0, new), old, 0)
            g == TableGrown(n)
            s == [g EXCEPT !.globals.count = count]
<1>1. /\ n \in Machine /\ n.globals.capacity \in Nat /\ n.globals \in [count : Nat, capacity : Nat]
      /\ n.tables \in Nat
  BY MachineFacts DEF Sound, Machine
<1>2. cap \in Nat /\ old \in Nat
  BY <1>1, Capacities
<1>3. new \in Nat
  <2>. HIDE DEF cap
  <2>. QED  BY <1>2, Capacities
<1>4. n.tables = old + PointerBytes(n) /\ PointerBytes(n) \in Nat
  BY <1>1, MachineFacts, Capacities DEF Sound, EntryBytes, PointerBytes
<1>5. g = [q EXCEPT !.globals.capacity = cap]
  BY DEF TableGrown
<1>6. count <= cap
  OBVIOUS
<1>. HIDE DEF cap, old, new, q, g
<1>7. old <= n.tables
  BY <1>2, <1>4
<1>8. /\ q \in Machine
      /\ q.heap = n.heap /\ q.strings = n.strings /\ q.globals = n.globals
      /\ q.tables = n.tables - old + new
      /\ Between(q, lo, hi)
  BY <1>1, <1>2, <1>3, <1>7, TableMove DEF q
<1>. DEFINE G == [count |-> count, capacity |-> cap]
<1>9. s = [q EXCEPT !.globals = G]
  <2>1. g = [q EXCEPT !.globals = [n.globals EXCEPT !.capacity = cap]]
    BY <1>5, <1>8 DEF Machine
  <2>2. g.globals = [n.globals EXCEPT !.capacity = cap]
    BY <1>8, <2>1 DEF Machine
  <2>3. [g.globals EXCEPT !.count = count] = G
    <3>. DEFINE e == [n.globals EXCEPT !.capacity = cap]
    <3>1. e \in [count : Nat, capacity : Nat] /\ e.capacity = cap
      BY <1>1, <1>2
    <3>2. g.globals = e
      BY <2>2
    <3>. HIDE DEF e
    <3>3. [e EXCEPT !.count = count] = G
      BY <3>1
    <3>. QED  BY <3>2, <3>3
  <2>4. s = [g EXCEPT !.globals = [g.globals EXCEPT !.count = count]]
    BY <2>1
  <2>. HIDE DEF G, s
  <2>. QED  BY <1>8, <2>1, <2>3, <2>4 DEF Machine
<1>10. G \in [count : Nat, capacity : Nat] /\ G.count = count /\ G.capacity = cap
  BY <1>2
<1>. HIDE DEF G, s
<1>11. /\ s \in Machine
       /\ s.heap = n.heap /\ s.strings = n.strings /\ s.globals = G
       /\ s.tables = q.tables /\ s.nq_bytes_allocated = q.nq_bytes_allocated
  BY <1>8, <1>9, <1>10 DEF Machine
<1>12. s.tables = EntryBytes(s) + PointerBytes(s)
  <2>1. EntryBytes(s) = new /\ PointerBytes(s) = PointerBytes(n)
    BY <1>10, <1>11 DEF EntryBytes, PointerBytes, new
  <2>2. q.tables = new + PointerBytes(n)
    BY <1>2, <1>3, <1>4, <1>8
  <2>. QED  BY <1>11, <2>1, <2>2
<1>13. Sound(s)
  BY <1>6, <1>10, <1>11, <1>12 DEF Sound
<1>14. Strings(s) = Strings(n)
  BY <1>11 DEF Strings, Live
<1>15. Roomy(s) /\ Between(s, lo, hi)
  BY <1>8, <1>11, <1>14 DEF Roomy, Between
<1>. QED  BY <1>13, <1>15 DEF s, g

LEMMA TableSetInv ==
  ASSUME Inv, TableSet
  PROVE  Inv'
<1>. DEFINE lo == - unseen
            hi == unreturned
            n == m
            s == m'
            cap == n.globals.capacity
            count == n.globals.count
<1>1. /\ Sound(n) /\ Roomy(n) /\ Between(n, lo, hi) /\ lo \in Int /\ hi \in Nat /\ n \in Machine
      /\ UNCHANGED rest
  BY InvFacts DEF TableSet
<1>2. count \in Nat /\ cap \in Nat /\ count <= cap
  BY <1>1, MachineFacts DEF Sound
<1>3. GROW_CAPACITY(cap) \in Nat /\ cap + 1 <= GROW_CAPACITY(cap)
  BY <1>2, Capacities
<1>4. CASE count + 1 > (cap * 3) \div 4
  <2>1. PICK live \in 0 .. count : s = [TableGrown(n) EXCEPT !.globals.count = live + 1]
    BY <1>4 DEF TableSet
  <2>. DEFINE keys == live + 1
  <2>2. keys \in Nat /\ keys <= GROW_CAPACITY(n.globals.capacity)
    BY <1>2, <1>3, <2>1
  <2>. HIDE DEF keys, lo, hi, n, cap
  <2>3. LET t == [TableGrown(n) EXCEPT !.globals.count = keys]
        IN  Sound(t) /\ Roomy(t) /\ Between(t, lo, hi)
    BY <1>1, <2>2, TableGrownStep
  <2>4. Sound(s) /\ Roomy(s) /\ Between(s, lo, hi)
    <3>. HIDE DEF s
    <3>. QED  BY <2>1, <2>3 DEF keys
  <2>. QED  BY <1>1, <2>4, InvTo DEF lo, hi, s
<1>5. CASE ~ (count + 1 > (cap * 3) \div 4)
  <2>. DEFINE G == [count |-> count + 1, capacity |-> cap]
  <2>1. s = [n EXCEPT !.globals.count = @ + 1]
    BY <1>5 DEF TableSet
  <2>2. n.globals \in [count : Nat, capacity : Nat]
    BY <1>1 DEF Machine
  <2>3. [n.globals EXCEPT !.count = @ + 1] = G
    BY <2>2
  <2>4. count + 1 <= cap
    <3>1. (cap * 3) \div 4 <= cap /\ (cap * 3) \div 4 \in Nat
      BY <1>2
    <3>. QED  BY <1>2, <1>5, <3>1
  <2>5. G \in [count : Nat, capacity : Nat] /\ G.count <= G.capacity /\ G.capacity = n.globals.capacity
    BY <1>2, <2>4
  <2>. HIDE DEF lo, hi, n, s, G
  <2>6. s = [n EXCEPT !.globals = G]
    BY <2>1, <2>3
  <2>7. /\ s \in Machine /\ s.heap = n.heap /\ s.strings = n.strings /\ s.globals = G
        /\ s.tables = n.tables /\ s.nq_bytes_allocated = n.nq_bytes_allocated
    BY <1>1, <2>5, <2>6 DEF Machine
  <2>8. s.tables = EntryBytes(s) + PointerBytes(s)
    BY <1>1, <2>5, <2>7 DEF Sound, EntryBytes, PointerBytes
  <2>9. Sound(s)
    BY <1>1, <2>5, <2>7, <2>8 DEF Sound
  <2>10. Strings(s) = Strings(n)
    BY <2>7 DEF Strings, Live
  <2>11. Roomy(s) /\ Between(s, lo, hi)
    BY <1>1, <2>7, <2>10 DEF Roomy, Between
  <2>. QED  BY <1>1, <2>9, <2>11, InvTo DEF s, n, lo, hi
<1>. QED  BY <1>4, <1>5

LEMMA CollectInv ==
  ASSUME Inv, Collect
  PROVE  Inv'
<1>. DEFINE lo == - unseen
            hi == unreturned
            n == m
            s == m'
<1>1. /\ Sound(n) /\ Roomy(n) /\ Between(n, lo, hi) /\ lo \in Int /\ hi \in Nat
  BY InvFacts
<1>2. PICK D \in SUBSET Live(n) : s = Collected(n, D)
  BY DEF Collect
<1>3. UNCHANGED rest
  BY DEF Collect
<1>. HIDE DEF lo, hi, n, s
<1>4. Sound(s) /\ Roomy(s) /\ Between(s, lo, hi)
  BY <1>1, <1>2, CollectStep
<1>. QED  BY <1>3, <1>4, InvTo DEF s, lo, hi

LEMMA RunVMInv ==
  ASSUME Inv, RunVM
  PROVE  Inv'
<1>1. m' = m /\ unseen' = unseen /\ unreturned' = unreturned /\ nq_gc_vm' = TRUE
  BY DEF RunVM
<1>. QED  BY <1>1 DEF Inv, Sound, Roomy, Between, OneOfEach, EntryBytes, PointerBytes, Strings, Live

\* freeVM gives back all there is; what was miscounted stays.
LEMMA FreeVMInv ==
  ASSUME Inv, FreeVM
  PROVE  Inv'
<1>. DEFINE lo == - unseen
            hi == unreturned
            n == m
            s == m'
            zero == 0
            entries == SizeOf["Entry"] * n.globals.capacity
            pointers == SizeOf["pointer"] * n.strings
            p == TableRealloc(n, entries, zero)
            q == TableRealloc(p, pointers, zero)
            D == Live(n)
            f == FreeObjects(q, D)
            G == [count |-> 0, capacity |-> 0]
<1>1. /\ Sound(n) /\ Roomy(n) /\ Between(n, lo, hi) /\ lo \in Int /\ hi \in Nat /\ n \in Machine
      /\ UNCHANGED rest
  BY InvFacts DEF FreeVM
<1>2. s = [f EXCEPT !.globals = G, !.strings = 0]
  BY DEF FreeVM
<1>3. /\ n.tables \in Nat /\ entries \in Nat /\ pointers \in Nat /\ zero \in Nat
  BY <1>1, MachineFacts, Capacities
<1>4. n.tables = entries + pointers
  BY <1>1 DEF Sound, EntryBytes, PointerBytes
<1>5. D \in SUBSET Obj /\ (\A o \in D : n.heap[o] # NoObj) /\ (\A o \in Obj \ D : n.heap[o] = NoObj)
      /\ \A o \in Obj : n.heap[o] # NoObj => Fits(n.heap[o])
  BY <1>1 DEF Live, Sound
<1>6. zero = 0
  OBVIOUS
<1>. HIDE DEF lo, hi, n, s, zero, entries, pointers, p, q, D, f
<1>7. entries <= n.tables
  BY <1>3, <1>4
<1>8. /\ p \in Machine /\ p.heap = n.heap
      /\ p.tables = n.tables - entries + zero /\ Between(p, lo, hi)
  BY <1>1, <1>3, <1>7, TableStep DEF p
<1>9. pointers <= p.tables
  BY <1>3, <1>4, <1>6, <1>8
<1>10. /\ q \in Machine /\ q.heap = p.heap
       /\ q.tables = p.tables - pointers + zero /\ Between(q, lo, hi)
  BY <1>1, <1>3, <1>8, <1>9, TableStep DEF q
<1>11. /\ f \in Machine
       /\ f.heap = [o \in Obj |-> IF o \in D THEN NoObj ELSE q.heap[o]]
       /\ f.tables = q.tables /\ Between(f, lo, hi)
  <2>1. /\ \A o \in Obj : q.heap[o] # NoObj => Fits(q.heap[o])
        /\ \A o \in D : q.heap[o] # NoObj
    BY <1>5, <1>8, <1>10
  <2>. QED  BY <1>1, <1>5, <1>10, <2>1, FreeStep DEF f
<1>12. f.tables = 0 /\ \A o \in Obj : f.heap[o] = NoObj
  BY <1>3, <1>4, <1>5, <1>6, <1>8, <1>10, <1>11
<1>13. /\ s \in Machine
       /\ s.heap = f.heap /\ s.strings = 0 /\ s.globals = G
       /\ s.tables = f.tables /\ s.nq_bytes_allocated = f.nq_bytes_allocated
  BY <1>2, <1>11 DEF Machine
<1>14. s.tables = EntryBytes(s) + PointerBytes(s) /\ s.globals.count <= s.globals.capacity
  <2>1. EntryBytes(s) = 0 /\ PointerBytes(s) = 0
    BY <1>13, Constants DEF EntryBytes, PointerBytes
  <2>. QED  BY <1>12, <1>13, <2>1
<1>15. Sound(s)
  BY <1>12, <1>13, <1>14 DEF Sound, OneOfEach, NoObj
<1>16. Roomy(s)
  <2>1. Strings(s) = {}
    BY <1>12, <1>13 DEF Strings, Live
  <2>2. Cardinality(Strings(s)) = 0
    BY <2>1, FS_EmptySet
  <2>. QED  BY <1>13, <2>2 DEF Roomy
<1>17. Between(s, lo, hi)
  BY <1>11, <1>13 DEF Between
<1>. QED  BY <1>1, <1>15, <1>16, <1>17, InvTo DEF s, lo, hi

-----------------------------------------------------------------------------
(* The theorems. *)

LEMMA InvInit ==
  ASSUME Init
  PROVE  Inv
<1>. DEFINE h == [o \in Obj |-> NoObj]
            n == m
<1>1. /\ n = [heap |-> h, strings |-> 0, globals |-> [count |-> 0, capacity |-> 0],
              tables |-> 0, nq_bytes_allocated |-> 0, nq_gc_threshold |-> MinThreshold]
      /\ nq_gc_vm = FALSE /\ unseen = 0 /\ unreturned = 0
  BY DEF Init
<1>2. h \in Heap /\ \A o \in Obj : h[o] = NoObj
  BY DEF Heap
<1>3. Total(h) = 0 /\ TotalLeast(h) = 0
  <2>. DEFINE b == [o \in Obj |-> Bytes(h[o])]
              l == [o \in Obj |-> Least(h[o])]
  <2>1. /\ \A o \in Obj : b[o] \in Int /\ b[o] <= b[o] /\ b[o] = 0
        /\ \A o \in Obj : l[o] \in Int /\ l[o] <= l[o] /\ l[o] = 0
    BY DEF Bytes, Least
  <2>2. Total(h) = SumFunctionOnSet(b, Obj) /\ TotalLeast(h) = SumFunctionOnSet(l, Obj)
    BY DEF Total, TotalLeast
  <2>. HIDE DEF b, l
  <2>3. SumFunctionOnSet(b, Obj) = 0
    BY <2>1, Constants, SumOrder
  <2>4. SumFunctionOnSet(l, Obj) = 0
    BY <2>1, Constants, SumOrder
  <2>. QED  BY <2>2, <2>3, <2>4
<1>. HIDE DEF h, n
<1>4. /\ n \in Machine /\ n.heap = h /\ n.strings = 0 /\ n.globals = [count |-> 0, capacity |-> 0]
      /\ n.tables = 0 /\ n.nq_bytes_allocated = 0
  BY <1>1, <1>2, Constants DEF Machine
<1>5. n.tables = EntryBytes(n) + PointerBytes(n) /\ n.globals.count <= n.globals.capacity
  <2>1. EntryBytes(n) = 0 /\ PointerBytes(n) = 0
    BY <1>4, Constants DEF EntryBytes, PointerBytes
  <2>. QED  BY <1>4, <2>1
<1>6. Sound(n)
  BY <1>2, <1>4, <1>5 DEF Sound, OneOfEach, NoObj
<1>7. Roomy(n)
  <2>1. Strings(n) = {}
    BY <1>2, <1>4 DEF Strings, Live
  <2>2. Cardinality(Strings(n)) = 0
    BY <2>1, FS_EmptySet
  <2>. QED  BY <1>4, <2>2 DEF Roomy
<1>8. Between(n, - unseen, unreturned)
  BY <1>1, <1>3, <1>4 DEF Between
<1>. QED  BY <1>1, <1>6, <1>7, <1>8 DEF Inv, n

LEMMA InvNext ==
  ASSUME Inv, [Next]_vars
  PROVE  Inv'
<1>1. ASSUME NEW t \in Text, CopyString(t) PROVE Inv'
  BY <1>1, TakeStringInv DEF CopyString
<1>2. ASSUME NEW t \in Text, TakeString(t) PROVE Inv'
  BY <1>2, TakeStringInv DEF TakeString
<1>3. CASE \E t \in Text : OpMul(t) \/ Join(t)
  BY <1>3, OpMulInv, JoinInv
<1>4. CASE NewArray \/ NewFunction \/ NewNative
  BY <1>4, NewArrayInv, NewFunctionInv, NewNativeInv
<1>5. CASE \E o \in Obj : ArrayPush(o) \/ ArrayPop(o) \/ WriteChunk(o) \/ AddConstant(o)
  BY <1>5, ArrayPushInv, ArrayPopInv, WriteChunkInv, AddConstantInv
<1>6. CASE TableSet \/ RunVM \/ Collect \/ FreeVM
  BY <1>6, TableSetInv, RunVMInv, CollectInv, FreeVMInv
<1>7. CASE UNCHANGED vars
  BY <1>7 DEF vars, Inv, Sound, Roomy, Between, OneOfEach, EntryBytes, PointerBytes, Strings, Live
<1>. QED  BY <1>1, <1>2, <1>3, <1>4, <1>5, <1>6, <1>7 DEF Next

LEMMA InvTypeOK ==
  ASSUME Inv
  PROVE  TypeOK
<1>1. /\ Sound(m) /\ Roomy(m) /\ m \in Machine
  BY InvFacts
<1>2. ASSUME NEW o \in Live(m)
      PROVE  LET x == m.heap[o] IN
             /\ x.type \in {"array", "function"} => x.count <= x.capacity
             /\ x.type = "function" => x.values <= x.constants
  BY <1>1 DEF Live, Sound, Fits
<1>3. \A o1, o2 \in Strings(m) : m.heap[o1].text = m.heap[o2].text => o1 = o2
  BY <1>1 DEF Strings, Live, Sound, OneOfEach
<1>4. Cardinality(Strings(m)) <= m.strings /\ m.globals.count <= m.globals.capacity
  BY <1>1 DEF Roomy, Sound
<1>5. {m.nq_bytes_allocated, m.tables, m.nq_gc_threshold} \subseteq Nat
  BY <1>1, MachineFacts
<1>. QED  BY <1>2, <1>3, <1>4, <1>5 DEF TypeOK

LEMMA InvBytesCounted ==
  ASSUME Inv
  PROVE  BytesCounted
<1>. DEFINE allocated == m.tables + SumFunction([o \in Live(m) |-> m.heap[o].bytes])
            T == m.tables
            C == m.nq_bytes_allocated
            A == Total(m.heap)
            L == TotalLeast(m.heap)
<1>1. /\ Sound(m) /\ m \in Machine /\ unseen \in Nat /\ unreturned \in Nat
      /\ T + A + (- unseen) <= C /\ C <= T + L + unreturned
  BY InvFacts DEF Between
<1>2. T \in Nat /\ C \in Nat /\ A \in Nat /\ L \in Nat /\ m.heap \in Heap
  BY <1>1, MachineFacts
<1>3. L <= A
  BY <1>1, <1>2, LeastIsLess DEF Sound
<1>4. allocated = T + A
  BY <1>2, TotalLive
<1>5. BytesCounted <=> C \in allocated - unseen .. allocated + unreturned
  BY DEF BytesCounted
<1>. HIDE DEF allocated, T, C, A, L
<1>6. C \in allocated - unseen .. allocated + unreturned
  BY <1>1, <1>2, <1>3, <1>4
<1>. QED  BY <1>5, <1>6

LEMMA InvAlways == Spec => []Inv
<1>1. Init => Inv
  BY InvInit
<1>2. Inv /\ [Next]_vars => Inv'
  BY InvNext
<1>. QED  BY <1>1, <1>2, PTL DEF Spec

(* What the heap and the two tables have in them has room there, a string is
   there once, and the intern table, which tableAddString grows only after it
   has looked at the load, is never full. *)
THEOREM AllocatorType == Spec => []TypeOK
<1>1. Inv => TypeOK
  BY InvTypeOK
<1>. QED  BY <1>1, InvAlways, PTL

(* vm_design.md:74 and memory.c:4, for any number of objects of any sizes:
   whatever was allocated, grown, collected and freed, the counter is the size
   of all blocks there are, less what OP_MUL did not count and more what
   join() did not return. *)
THEOREM CounterBounded == Spec => []BytesCounted
<1>1. Inv => BytesCounted
  BY InvBytesCounted
<1>. QED  BY <1>1, InvAlways, PTL
=============================================================================
