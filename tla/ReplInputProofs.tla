--------------------------- MODULE ReplInputProofs ---------------------------
(***************************************************************************)
(* The REPL's input, for any set of words, any lengths of lines and of     *)
(* inputs, and any sizes of the two buffers.                               *)
(***************************************************************************)
EXTENDS ReplInput, SequencesExt, WellFoundedInduction, SequenceTheorems, FiniteSetTheorems, TLAPS

-----------------------------------------------------------------------------
(* Facts about naturals and sequences. *)

(* Every non-empty set of natural numbers has a least element: what makes
   the first empty slot of a probe sequence, or the innermost of several
   handlers, well defined. *)
LEMMA LeastElement ==
  ASSUME NEW S \in SUBSET Nat, S # {}
  PROVE  \E k \in S : \A n \in S : k <= n
<1>. DEFINE R == {p \in Nat \X Nat : p[1] < p[2]}
<1>1. IsWellFoundedOn(R, Nat)
  BY NatLessThanWellFounded DEF OpToRel
<1>2. PICK k \in S : \A n \in S : ~ (<<n, k>> \in R)
  <2>. HIDE DEF R
  <2>. QED  BY <1>1, WFMin
<1>3. ASSUME NEW n \in S PROVE k <= n
  <2>1. <<n, k>> \notin R
    BY <1>2
  <2>2. k \in Nat /\ n \in Nat
    OBVIOUS
  <2>3. ~ (n < k)
    BY <2>1, <2>2
  <2>. QED  BY <2>2, <2>3
<1>. QED  BY <1>3

(* A set of natural numbers that holds 0 and is closed under successor holds
   them all. *)
LEMMA SetInduction ==
  ASSUME NEW S \in SUBSET Nat, 0 \in S, \A n \in S : n + 1 \in S
  PROVE  S = Nat
<1>. SUFFICES ASSUME Nat \ S # {} PROVE FALSE
  OBVIOUS
<1>1. PICK k \in Nat \ S : \A n \in Nat \ S : k <= n
  <2>1. Nat \ S \in SUBSET Nat
    OBVIOUS
  <2>. QED  BY <2>1, LeastElement
<1>2. k # 0 /\ k - 1 \in Nat
  OBVIOUS
<1>3. k - 1 \in S
  BY <1>1, <1>2
<1>. QED  BY <1>2, <1>3

(* The same up to a bound. *)
LEMMA BoundedInduction ==
  ASSUME NEW N \in Nat, NEW S \in SUBSET (0 .. N), 0 \in S,
         \A n \in S : n < N => n + 1 \in S
  PROVE  S = 0 .. N
<1>. DEFINE T == S \union {n \in Nat : n > N}
<1>1. \A n \in S : n \in Nat /\ n <= N
  OBVIOUS
<1>2. 0 \in T
  OBVIOUS
<1>3. \A n \in T : n + 1 \in T
  BY <1>1
<1>4. T = Nat
  <2>1. T \in SUBSET Nat
    BY <1>1
  <2>. HIDE DEF T
  <2>. QED  BY <1>2, <1>3, <2>1, SetInduction
<1>5. \A n \in 0 .. N : n \in S
  <2>. TAKE n \in 0 .. N
  <2>1. n \in T
    <3>. HIDE DEF T
    <3>. QED  BY <1>4
  <2>. QED  BY <2>1
<1>. QED  BY <1>5

LEMMA AppendFacts ==
  ASSUME NEW S, NEW s \in Seq(S), NEW e \in S
  PROVE  /\ Append(s, e) \in Seq(S) /\ Len(Append(s, e)) = Len(s) + 1 /\ Len(s) \in Nat
         /\ \A i \in 1..Len(s) : Append(s, e)[i] = s[i]
         /\ Append(s, e)[Len(s) + 1] = e
  BY AppendProperties, LenProperties

LEMMA FirstPart ==
  ASSUME NEW S, NEW s \in Seq(S), NEW l \in 0..Len(s)
  PROVE  /\ SubSeq(s, 1, l) \in Seq(S) /\ Len(SubSeq(s, 1, l)) = l
         /\ \A i \in 1..l : SubSeq(s, 1, l)[i] = s[i]
<1>1. \A i \in 1..l : s[i] \in S
  BY LenProperties, ElementOfSeq
<1>2. 1 \in Int /\ l \in Int /\ l \in Nat
  BY LenProperties
<1>3. /\ SubSeq(s, 1, l) \in Seq(S)
      /\ Len(SubSeq(s, 1, l)) = IF 1 <= l THEN l - 1 + 1 ELSE 0
      /\ \A i \in 1..l - 1 + 1 : SubSeq(s, 1, l)[i] = s[1 + i - 1]
  BY <1>1, <1>2, SubSeqProperties
<1>. QED  BY <1>2, <1>3

-----------------------------------------------------------------------------
(* Sums over finite sets.  SumFunctionOnSet chooses the order in which it adds;
   what is shown here is that the order does not matter. *)

Some(s) == CHOOSE x \in s : TRUE

\* A function with the sums of f over the subsets of S.
IsSum(g, f, S) ==
  g = [s \in SUBSET S |-> IF s = {} THEN 0 ELSE f[Some(s)] + g[s \ {Some(s)}]]

LEMMA SubsetFacts ==
  ASSUME NEW U, IsFiniteSet(U), NEW s \in SUBSET U
  PROVE  /\ IsFiniteSet(s) /\ Cardinality(s) \in 0..Cardinality(U) /\ Cardinality(U) \in Nat
         /\ Cardinality(s) = 0 <=> s = {}
         /\ s # {} => Some(s) \in s
         /\ \A x \in s : s \ {x} \in SUBSET U /\ Cardinality(s \ {x}) = Cardinality(s) - 1
<1>1. IsFiniteSet(s) /\ Cardinality(s) <= Cardinality(U)
  BY FS_Subset
<1>2. Cardinality(s) \in Nat /\ Cardinality(U) \in Nat
  BY <1>1, FS_CardinalityType
<1>3. Cardinality(s) = 0 <=> s = {}
  BY <1>1, FS_EmptySet
<1>4. s # {} => Some(s) \in s
  BY DEF Some
<1>5. \A x \in s : Cardinality(s \ {x}) = Cardinality(s) - 1
  BY <1>1, FS_RemoveElement
<1>. QED  BY <1>1, <1>2, <1>3, <1>4, <1>5

LEMMA SumExists ==
  ASSUME NEW U, IsFiniteSet(U), NEW f, \A x \in U : f[x] \in Int
  PROVE  \E g \in [SUBSET U -> Int] : IsSum(g, f, U)
<1>. DEFINE N == Cardinality(U)
            Adding(g, s) == IF s = {} THEN 0 ELSE f[Some(s)] + g[s \ {Some(s)}]
            Good(g, n) == \A s \in SUBSET U : Cardinality(s) <= n => g[s] = Adding(g, s)
            Q == {n \in 0..N : \E g \in [SUBSET U -> Int] : Good(g, n)}
<1>1. N \in Nat
  BY FS_CardinalityType
<1>2. \A s \in SUBSET U :
        /\ Cardinality(s) \in 0..N /\ (Cardinality(s) = 0 <=> s = {})
        /\ s # {} => /\ Some(s) \in U /\ s \ {Some(s)} \in SUBSET U
                     /\ Cardinality(s \ {Some(s)}) = Cardinality(s) - 1
  BY SubsetFacts
<1>3. \A g \in [SUBSET U -> Int], s \in SUBSET U : Adding(g, s) \in Int
  <2>. TAKE g \in [SUBSET U -> Int], s \in SUBSET U
  <2>1. CASE s = {}
    BY <2>1
  <2>2. CASE s # {}
    <3>1. f[Some(s)] \in Int /\ g[s \ {Some(s)}] \in Int
      BY <1>2, <2>2
    <3>. QED  BY <2>2, <3>1
  <2>. QED  BY <2>1, <2>2
<1>4. 0 \in Q
  <2>. DEFINE z == [s \in SUBSET U |-> 0]
  <2>1. ASSUME NEW s \in SUBSET U, Cardinality(s) <= 0 PROVE s = {}
    <3>1. Cardinality(s) \in 0..N /\ (Cardinality(s) = 0 <=> s = {})
      BY <1>2
    <3>. QED  BY <1>1, <2>1, <3>1
  <2>2. z \in [SUBSET U -> Int] /\ Good(z, 0)
    BY <2>1
  <2>. HIDE DEF z, Good
  <2>. QED  BY <1>1, <2>2
<1>5. ASSUME NEW n \in Q, n < N PROVE n + 1 \in Q
  <2>1. PICK g \in [SUBSET U -> Int] : Good(g, n)
    BY <1>5
  <2>. DEFINE h == [s \in SUBSET U |-> Adding(g, s)]
  <2>2. h \in [SUBSET U -> Int]
    BY <1>3
  <2>3. Good(h, n + 1)
    <3>. SUFFICES ASSUME NEW s \in SUBSET U, Cardinality(s) <= n + 1 PROVE h[s] = Adding(h, s)
      OBVIOUS
    <3>1. CASE s = {}
      BY <3>1
    <3>2. CASE s # {}
      <4>. DEFINE t == s \ {Some(s)}
      <4>1. t \in SUBSET U /\ Cardinality(t) <= n
        BY <1>2, <3>2
      <4>2. g[t] = Adding(g, t) /\ h[t] = Adding(g, t)
        <5>1. g[t] = Adding(g, t)
          <6>. HIDE DEF t, Adding
          <6>. QED  BY <2>1, <4>1
        <5>. QED  BY <4>1, <5>1
      <4>3. h[s] = f[Some(s)] + g[t] /\ Adding(h, s) = f[Some(s)] + h[t]
        BY <3>2
      <4>. QED  BY <4>2, <4>3
    <3>. QED  BY <3>1, <3>2
  <2>4. n + 1 \in 0..N
    BY <1>1, <1>5
  <2>. HIDE DEF h, Good
  <2>. QED  BY <2>2, <2>3, <2>4
<1>6. N \in Q
  <2>1. Q \in SUBSET (0..N)
    OBVIOUS
  <2>. HIDE DEF Q
  <2>2. Q = 0..N
    BY <1>1, <1>4, <1>5, <2>1, BoundedInduction
  <2>. QED  BY <1>1, <2>2
<1>7. PICK g \in [SUBSET U -> Int] : Good(g, N)
  BY <1>6
<1>8. \A s \in SUBSET U : g[s] = Adding(g, s)
  <2>1. ASSUME NEW s \in SUBSET U PROVE Cardinality(s) <= N
    <3>1. Cardinality(s) \in 0..N
      BY <1>2
    <3>. QED  BY <1>1, <3>1
  <2>. HIDE DEF Adding
  <2>. QED  BY <1>7, <2>1
<1>9. g = [s \in SUBSET U |-> Adding(g, s)]
  <2>. HIDE DEF Adding
  <2>. QED  BY <1>8
<1>. QED  BY <1>9 DEF IsSum

LEMMA SumUnique ==
  ASSUME NEW U, IsFiniteSet(U), NEW f, NEW S \in SUBSET U,
         NEW g, IsSum(g, f, U), NEW h, IsSum(h, f, S)
  PROVE  h[S] = g[S]
<1>. DEFINE N == Cardinality(S)
            Q == {n \in 0..N : \A s \in SUBSET S : Cardinality(s) <= n => h[s] = g[s]}
<1>1. IsFiniteSet(S) /\ N \in Nat
  BY SubsetFacts
<1>2. \A s \in SUBSET S :
        /\ Cardinality(s) \in 0..N /\ (Cardinality(s) = 0 <=> s = {})
        /\ s # {} => /\ s \ {Some(s)} \in SUBSET S
                     /\ Cardinality(s \ {Some(s)}) = Cardinality(s) - 1
  BY <1>1, SubsetFacts
<1>3. \A s \in SUBSET S :
        /\ h[s] = IF s = {} THEN 0 ELSE f[Some(s)] + h[s \ {Some(s)}]
        /\ g[s] = IF s = {} THEN 0 ELSE f[Some(s)] + g[s \ {Some(s)}]
  <2>1. \A s \in SUBSET S : h[s] = IF s = {} THEN 0 ELSE f[Some(s)] + h[s \ {Some(s)}]
    BY DEF IsSum
  <2>2. \A s \in SUBSET U : g[s] = IF s = {} THEN 0 ELSE f[Some(s)] + g[s \ {Some(s)}]
    BY DEF IsSum
  <2>. QED  BY <2>1, <2>2
<1>4. 0 \in Q
  <2>1. ASSUME NEW s \in SUBSET S, Cardinality(s) <= 0 PROVE s = {}
    <3>1. Cardinality(s) \in 0..N /\ (Cardinality(s) = 0 <=> s = {})
      BY <1>2
    <3>. QED  BY <1>1, <2>1, <3>1
  <2>2. h[{}] = g[{}]
    BY <1>3
  <2>. QED  BY <1>1, <2>1, <2>2
<1>5. ASSUME NEW n \in Q, n < N PROVE n + 1 \in Q
  <2>1. ASSUME NEW s \in SUBSET S, Cardinality(s) <= n + 1 PROVE h[s] = g[s]
    <3>1. CASE s = {}
      BY <1>3, <3>1
    <3>2. CASE s # {}
      <4>1. s \ {Some(s)} \in SUBSET S /\ Cardinality(s \ {Some(s)}) <= n
        BY <1>2, <2>1, <3>2
      <4>2. h[s \ {Some(s)}] = g[s \ {Some(s)}]
        BY <4>1
      <4>. QED  BY <1>3, <3>2, <4>2
    <3>. QED  BY <3>1, <3>2
  <2>2. n + 1 \in 0..N
    BY <1>1, <1>5
  <2>. QED  BY <2>1, <2>2
<1>6. N \in Q
  <2>1. Q \in SUBSET (0..N)
    OBVIOUS
  <2>. HIDE DEF Q
  <2>2. Q = 0..N
    BY <1>1, <1>4, <1>5, <2>1, BoundedInduction
  <2>. QED  BY <1>1, <2>2
<1>. QED  BY <1>1, <1>6

\* A sum is that of the rest and any one.
LEMMA SumFacts ==
  ASSUME NEW U, IsFiniteSet(U), NEW f, \A x \in U : f[x] \in Int
  PROVE  /\ SumFunctionOnSet(f, {}) = 0
         /\ \A S \in SUBSET U :
              /\ SumFunctionOnSet(f, S) \in Int
              /\ \A x \in S : SumFunctionOnSet(f, S) = f[x] + SumFunctionOnSet(f, S \ {x})
<1>1. PICK g \in [SUBSET U -> Int] : IsSum(g, f, U)
  BY SumExists
<1>2. \A S \in SUBSET U : SumFunctionOnSet(f, S) = g[S]
  <2>. TAKE S \in SUBSET U
  <2>1. IsFiniteSet(S) /\ \A x \in S : f[x] \in Int
    BY SubsetFacts
  <2>2. \E h : IsSum(h, f, S)
    BY <2>1, SumExists
  <2>. DEFINE iter == CHOOSE h : IsSum(h, f, S)
  <2>3. IsSum(iter, f, S)
    BY <2>2
  <2>4. SumFunctionOnSet(f, S) = iter[S]
    BY DEF SumFunctionOnSet, FoldFunctionOnSet, MapThenFoldSet, IsSum, Some
  <2>. HIDE DEF iter
  <2>5. iter[S] = g[S]
    BY <1>1, <2>3, SumUnique
  <2>. QED  BY <2>4, <2>5
<1>3. \A s \in SUBSET U : g[s] = IF s = {} THEN 0 ELSE f[Some(s)] + g[s \ {Some(s)}]
  BY <1>1 DEF IsSum
<1>. DEFINE N == Cardinality(U)
            Q == {n \in 0..N : \A s \in SUBSET U : Cardinality(s) <= n =>
                                 \A x \in s : g[s] = f[x] + g[s \ {x}]}
<1>4. N \in Nat
  BY FS_CardinalityType
<1>5. \A s \in SUBSET U :
        /\ Cardinality(s) \in 0..N /\ (Cardinality(s) = 0 <=> s = {})
        /\ s # {} => Some(s) \in s
        /\ \A x \in s : s \ {x} \in SUBSET U /\ Cardinality(s \ {x}) = Cardinality(s) - 1
  BY SubsetFacts
<1>6. 0 \in Q
  <2>1. ASSUME NEW s \in SUBSET U, Cardinality(s) <= 0 PROVE s = {}
    <3>1. Cardinality(s) \in 0..N /\ (Cardinality(s) = 0 <=> s = {})
      BY <1>5
    <3>. QED  BY <1>4, <2>1, <3>1
  <2>. QED  BY <1>4, <2>1
<1>7. ASSUME NEW n \in Q, n < N PROVE n + 1 \in Q
  <2>1. ASSUME NEW s \in SUBSET U, Cardinality(s) <= n + 1, NEW x \in s
        PROVE  g[s] = f[x] + g[s \ {x}]
    <3>. DEFINE y == Some(s)
                sx == s \ {x}
                sy == s \ {y}
                sxy == sx \ {y}
    <3>1. y \in s /\ g[s] = f[y] + g[sy] /\ f[x] \in Int /\ f[y] \in Int
      BY <1>3, <1>5
    <3>2. CASE x = y
      BY <3>1, <3>2
    <3>3. CASE x # y
      <4>1. /\ sx \in SUBSET U /\ Cardinality(sx) <= n /\ y \in sx
            /\ sy \in SUBSET U /\ Cardinality(sy) <= n /\ x \in sy
            /\ sy \ {x} = sxy /\ sxy \in SUBSET U
        <5>1. Cardinality(sx) = Cardinality(s) - 1 /\ Cardinality(sy) = Cardinality(s) - 1
              /\ Cardinality(s) \in Nat /\ n \in Nat
          BY <1>5, <2>1, <3>1
        <5>2. Cardinality(sx) <= n /\ Cardinality(sy) <= n
          BY <2>1, <5>1
        <5>. QED  BY <2>1, <3>1, <3>3, <5>2
      <4>. HIDE DEF y, sx, sy, sxy
      <4>2. g[sx] = f[y] + g[sx \ {y}] /\ g[sy] = f[x] + g[sy \ {x}]
        BY <4>1
      <4>3. g[sx] = f[y] + g[sxy] /\ g[sy] = f[x] + g[sxy] /\ g[sxy] \in Int
        BY <1>1, <4>1, <4>2 DEF sxy
      <4>4. g[s] = f[x] + g[sx]
        BY <3>1, <4>3
      <4>. QED  BY <4>4 DEF sx
    <3>. QED  BY <3>2, <3>3
  <2>2. n + 1 \in 0..N
    BY <1>4, <1>7
  <2>. QED  BY <2>1, <2>2
<1>8. N \in Q
  <2>1. Q \in SUBSET (0..N)
    OBVIOUS
  <2>. HIDE DEF Q
  <2>2. Q = 0..N
    BY <1>4, <1>6, <1>7, <2>1, BoundedInduction
  <2>. QED  BY <1>4, <2>2
<1>9. ASSUME NEW s \in SUBSET U, NEW x \in s
      PROVE  g[s] = f[x] + g[s \ {x}] /\ s \ {x} \in SUBSET U
  <2>1. Cardinality(s) \in 0..N
    BY <1>5
  <2>2. Cardinality(s) <= N
    BY <1>4, <2>1
  <2>. QED  BY <1>8, <2>2
<1>10. {} \in SUBSET U /\ g[{}] = 0
  BY <1>3
<1>. HIDE DEF N, Q
<1>. QED  BY <1>1, <1>2, <1>9, <1>10

LEMMA SumOrder ==
  ASSUME NEW U, IsFiniteSet(U), NEW f, NEW g, \A x \in U : f[x] \in Int /\ g[x] \in Int,
         \A x \in U : f[x] <= g[x]
  PROVE  /\ SumFunctionOnSet(f, U) <= SumFunctionOnSet(g, U)
         /\ (\A x \in U : 0 <= f[x]) => 0 <= SumFunctionOnSet(f, U)
         /\ (\A x \in U : f[x] = 0) => SumFunctionOnSet(f, U) = 0
<1>. DEFINE F(s) == SumFunctionOnSet(f, s)
            G(s) == SumFunctionOnSet(g, s)
            N == Cardinality(U)
            Pos == \A x \in U : 0 <= f[x]
            Zero == \A x \in U : f[x] = 0
            Q == {n \in 0..N : \A s \in SUBSET U : Cardinality(s) <= n =>
                    F(s) <= G(s) /\ (Pos => 0 <= F(s)) /\ (Zero => F(s) = 0)}
<1>1. N \in Nat
  BY FS_CardinalityType
<1>2. \A s \in SUBSET U :
        /\ Cardinality(s) \in 0..N /\ (Cardinality(s) = 0 <=> s = {})
        /\ s # {} => Some(s) \in s
        /\ \A x \in s : s \ {x} \in SUBSET U /\ Cardinality(s \ {x}) = Cardinality(s) - 1
  BY SubsetFacts
<1>3. F({}) = 0 /\ G({}) = 0
  <2>1. F({}) = 0
    BY SumFacts
  <2>2. G({}) = 0
    BY SumFacts
  <2>. QED  BY <2>1, <2>2
<1>4. \A s \in SUBSET U :
        /\ F(s) \in Int /\ G(s) \in Int
        /\ \A x \in s : F(s) = f[x] + F(s \ {x}) /\ G(s) = g[x] + G(s \ {x})
  <2>1. \A s \in SUBSET U : F(s) \in Int /\ \A x \in s : F(s) = f[x] + F(s \ {x})
    BY SumFacts
  <2>2. \A s \in SUBSET U : G(s) \in Int /\ \A x \in s : G(s) = g[x] + G(s \ {x})
    BY SumFacts
  <2>. QED  BY <2>1, <2>2
<1>. HIDE DEF F, G, Pos, Zero
<1>5. 0 \in Q
  <2>1. ASSUME NEW s \in SUBSET U, Cardinality(s) <= 0 PROVE s = {}
    <3>1. Cardinality(s) \in 0..N /\ (Cardinality(s) = 0 <=> s = {})
      BY <1>2
    <3>. QED  BY <1>1, <2>1, <3>1
  <2>2. 0 <= 0
    OBVIOUS
  <2>. QED  BY <1>1, <1>3, <2>1, <2>2
<1>6. ASSUME NEW n \in Q, n < N PROVE n + 1 \in Q
  <2>1. ASSUME NEW s \in SUBSET U, Cardinality(s) <= n + 1
        PROVE  F(s) <= G(s) /\ (Pos => 0 <= F(s)) /\ (Zero => F(s) = 0)
    <3>1. CASE s = {}
      BY <1>3, <3>1
    <3>2. CASE s # {}
      <4>. DEFINE x == Some(s)
                  t == s \ {x}
      <4>1. x \in U /\ x \in s /\ t \in SUBSET U /\ Cardinality(t) = Cardinality(s) - 1
            /\ Cardinality(s) \in 0..N
        BY <1>2, <3>2
      <4>2. F(s) = f[x] + F(t) /\ G(s) = g[x] + G(t)
        BY <1>4, <4>1
      <4>3. F(t) \in Int /\ G(t) \in Int /\ f[x] \in Int /\ g[x] \in Int /\ f[x] <= g[x]
            /\ (Pos => 0 <= f[x]) /\ (Zero => f[x] = 0)
        BY <1>4, <4>1 DEF Pos, Zero
      <4>. HIDE DEF x, t
      <4>4. Cardinality(t) <= n
        BY <1>1, <1>6, <2>1, <4>1
      <4>5. F(t) <= G(t) /\ (Pos => 0 <= F(t)) /\ (Zero => F(t) = 0)
        BY <4>1, <4>4
      <4>6. F(s) <= G(s)
        BY <4>2, <4>3, <4>5
      <4>7. Pos => 0 <= F(s)
        BY <4>2, <4>3, <4>5
      <4>8. Zero => F(s) = 0
        BY <4>2, <4>3, <4>5
      <4>. QED  BY <4>6, <4>7, <4>8
    <3>. QED  BY <3>1, <3>2
  <2>2. n + 1 \in 0..N
    BY <1>1, <1>6
  <2>. QED  BY <2>1, <2>2
<1>7. N \in Q
  <2>1. Q \in SUBSET (0..N)
    OBVIOUS
  <2>. HIDE DEF Q
  <2>2. Q = 0..N
    BY <1>1, <1>5, <1>6, <2>1, BoundedInduction
  <2>. QED  BY <1>1, <2>2
<1>8. F(U) <= G(U) /\ (Pos => 0 <= F(U)) /\ (Zero => F(U) = 0)
  <2>1. N <= N /\ U \in SUBSET U
    BY <1>1
  <2>. QED  BY <1>7, <2>1
<1>. QED  BY <1>8 DEF F, G, Pos, Zero

LEMMA SumAgree ==
  ASSUME NEW U, IsFiniteSet(U), NEW f, NEW g, \A x \in U : f[x] \in Int /\ f[x] = g[x]
  PROVE  SumFunctionOnSet(f, U) = SumFunctionOnSet(g, U)
<1>1. SumFunctionOnSet(f, U) <= SumFunctionOnSet(g, U)
  BY SumOrder
<1>2. SumFunctionOnSet(g, U) <= SumFunctionOnSet(f, U)
  BY SumOrder
<1>3. SumFunctionOnSet(f, U) \in Int /\ SumFunctionOnSet(g, U) \in Int
  <2>1. SumFunctionOnSet(f, U) \in Int
    BY SumFacts
  <2>2. SumFunctionOnSet(g, U) \in Int
    BY SumFacts
  <2>. QED  BY <2>1, <2>2
<1>. QED  BY <1>1, <1>2, <1>3

-----------------------------------------------------------------------------

\* What fgets may return.
Line == [word : Words \union {"blank", "other"}, rest : {"none", "end", "more", "cut"}, len : Nat]

-----------------------------------------------------------------------------
(* What one more line changes. *)

Marked(s, S) == {i \in DOMAIN s : s[i] \in S}

LEMMA MarkedAppend ==
  ASSUME NEW s \in Seq(Line), NEW t \in Line, NEW S
  PROVE  /\ Cardinality(Marked(s, S)) \in Nat
         /\ Cardinality(Marked(Append(s, t), S)) =
              Cardinality(Marked(s, S)) + IF t \in S THEN 1 ELSE 0
<1>. DEFINE n == Len(s)
            u == Append(s, t)
            M == Marked(s, S)
<1>1. /\ n \in Nat /\ DOMAIN s = 1..n /\ DOMAIN u = 1..(n + 1)
      /\ (\A i \in 1..n : u[i] = s[i]) /\ u[n + 1] = t
  BY AppendFacts, LenProperties
<1>2. M \in SUBSET (1..n) /\ ~ (n + 1 \in M)
  BY <1>1 DEF Marked
<1>3. Marked(u, S) = IF t \in S THEN M \union {n + 1} ELSE M
  <2>. HIDE DEF n, u
  <2>. QED  BY <1>1 DEF Marked
<1>4. IsFiniteSet(M)
  <2>1. 1 \in Int /\ n \in Int
    BY <1>1
  <2>2. IsFiniteSet(1..n)
    BY <2>1, FS_Interval
  <2>. QED  BY <1>2, <2>2, FS_Subset
<1>. HIDE DEF M, n, u
<1>5. /\ Cardinality(M) \in Nat
      /\ Cardinality(M \union {n + 1}) = Cardinality(M) + 1
  BY <1>2, <1>4, FS_CardinalityType, FS_AddElement
<1>6. Cardinality(Marked(u, S)) = Cardinality(M) + IF t \in S THEN 1 ELSE 0
  BY <1>3, <1>5
<1>. QED  BY <1>5, <1>6 DEF M, u

LEMMA MarkedNone ==
  ASSUME NEW S
  PROVE  Cardinality(Marked(<<>>, S)) = 0
<1>1. Marked(<<>>, S) = {}
  BY DEF Marked
<1>. QED  BY <1>1, FS_EmptySet

Openers == {l \in Line : Opens(l)}
Closers == {l \in Line : Closes(l)}
BlockOpeners == {l \in Line : opensBlock(l)}

LEMMA Counts ==
  ASSUME NEW s \in Seq(Line)
  PROVE  /\ Count(s, Opens) = Cardinality(Marked(s, Openers))
         /\ Count(s, Closes) = Cardinality(Marked(s, Closers))
         /\ Count(s, opensBlock) = Cardinality(Marked(s, BlockOpeners))
<1>1. \A i \in DOMAIN s : s[i] \in Line
  BY ElementOfSeq, LenProperties
<1>2. {i \in DOMAIN s : Opens(s[i])} = Marked(s, Openers)
  BY <1>1 DEF Marked, Openers
<1>3. {i \in DOMAIN s : Closes(s[i])} = Marked(s, Closers)
  BY <1>1 DEF Marked, Closers
<1>4. {i \in DOMAIN s : opensBlock(s[i])} = Marked(s, BlockOpeners)
  BY <1>1 DEF Marked, BlockOpeners
<1>. QED  BY <1>2, <1>3, <1>4 DEF Count

LEMMA NestingAppend ==
  ASSUME NEW s \in Seq(Line), NEW t \in Line
  PROVE  /\ Nesting(s) \in Int
         /\ Nesting(Append(s, t)) = Nesting(s) + (IF Opens(t) THEN 1 ELSE 0) - (IF Closes(t) THEN 1 ELSE 0)
<1>. DEFINE u == Append(s, t)
            o == Cardinality(Marked(s, Openers))
            c == Cardinality(Marked(s, Closers))
            o2 == Cardinality(Marked(u, Openers))
            c2 == Cardinality(Marked(u, Closers))
<1>1. /\ o \in Nat /\ o2 = o + IF t \in Openers THEN 1 ELSE 0
      /\ c \in Nat /\ c2 = c + IF t \in Closers THEN 1 ELSE 0
  BY MarkedAppend
<1>2. u \in Seq(Line)
  BY AppendFacts
<1>. HIDE DEF u
<1>3. Nesting(s) = o - c /\ Nesting(u) = o2 - c2
  BY <1>2, Counts DEF Nesting
<1>4. (t \in Openers <=> Opens(t)) /\ (t \in Closers <=> Closes(t))
  BY DEF Openers, Closers
<1>. HIDE DEF o, c, o2, c2
<1>. QED  BY <1>1, <1>3, <1>4 DEF u

LEMMA NestingNone ==
  Nesting(<<>>) = 0 /\ Count(<<>>, opensBlock) = 0
<1>. DEFINE e == <<>>
            o == Cardinality(Marked(e, Openers))
            c == Cardinality(Marked(e, Closers))
            b == Cardinality(Marked(e, BlockOpeners))
<1>1. e \in Seq(Line)
  BY EmptySeq
<1>2. o = 0 /\ c = 0 /\ b = 0
  BY MarkedNone
<1>. HIDE DEF e
<1>3. Nesting(e) = o - c /\ Count(e, opensBlock) = b
  BY <1>1, Counts DEF Nesting
<1>. HIDE DEF o, c, b
<1>4. Nesting(e) = 0 /\ Count(e, opensBlock) = 0
  BY <1>2, <1>3
<1>. QED  BY <1>4 DEF e

LEMMA OpensAppend ==
  ASSUME NEW s \in Seq(Line), NEW t \in Line
  PROVE  /\ Count(s, opensBlock) \in Nat
         /\ Count(Append(s, t), opensBlock) = Count(s, opensBlock) + IF opensBlock(t) THEN 1 ELSE 0
<1>. DEFINE u == Append(s, t)
            b == Cardinality(Marked(s, BlockOpeners))
            b2 == Cardinality(Marked(u, BlockOpeners))
<1>1. b \in Nat /\ b2 = b + IF t \in BlockOpeners THEN 1 ELSE 0
  BY MarkedAppend
<1>2. u \in Seq(Line)
  BY AppendFacts
<1>. HIDE DEF u
<1>3. Count(s, opensBlock) = b /\ Count(u, opensBlock) = b2
  BY <1>2, Counts
<1>4. t \in BlockOpeners <=> opensBlock(t)
  BY DEF BlockOpeners
<1>. HIDE DEF b, b2
<1>. QED  BY <1>1, <1>3, <1>4 DEF u

LEMMA BytesAppend ==
  ASSUME NEW s \in Seq(Line), NEW t \in Line
  PROVE  Bytes(s) \in Nat /\ Bytes(Append(s, t)) = Bytes(s) + t.len + 1
<1>. DEFINE n == Len(s)
            u == Append(s, t)
            S == 1..n
            U == 1..(n + 1)
            f == [i \in DOMAIN s |-> s[i].len + 1]
            g == [i \in DOMAIN u |-> u[i].len + 1]
<1>1. /\ n \in Nat /\ DOMAIN s = S /\ DOMAIN u = U
      /\ (\A i \in S : u[i] = s[i] /\ s[i] \in Line) /\ u[n + 1] = t
  BY AppendFacts, LenProperties, ElementOfSeq
<1>2. IsFiniteSet(S) /\ IsFiniteSet(U)
  <2>1. 1 \in Int /\ n \in Int /\ n + 1 \in Int
    BY <1>1
  <2>. QED  BY <2>1, FS_Interval
<1>3. S \in SUBSET U /\ U \in SUBSET U /\ n + 1 \in U /\ U \ {n + 1} = S
  BY <1>1
<1>4. t.len \in Nat /\ \A i \in S : s[i].len \in Nat
  BY <1>1 DEF Line
<1>5. \A i \in S : f[i] \in Int /\ f[i] = g[i] /\ f[i] <= f[i] /\ 0 <= f[i]
  <2>. HIDE DEF n, u, S, U
  <2>. QED  BY <1>1, <1>3, <1>4
<1>6. g[n + 1] = t.len + 1
  <2>. HIDE DEF n, u, S, U
  <2>. QED  BY <1>1, <1>3
<1>7. \A i \in U : g[i] \in Int
  <2>1. \A i \in U : i \in S \/ i = n + 1
    BY <1>1
  <2>. HIDE DEF g, f, S, U, n
  <2>. QED  BY <1>4, <1>5, <1>6, <2>1
<1>8. Bytes(s) = SumFunctionOnSet(f, S) /\ Bytes(u) = SumFunctionOnSet(g, U)
  <2>. HIDE DEF n, u, S, U
  <2>. QED  BY <1>1 DEF Bytes, SumFunction
<1>. DEFINE last == n + 1
<1>. HIDE DEF n, u, S, U, f, g
<1>9. SumFunctionOnSet(g, U) = g[last] + SumFunctionOnSet(g, S)
  <2>1. \A i \in U : SumFunctionOnSet(g, U) = g[i] + SumFunctionOnSet(g, U \ {i})
    BY <1>2, <1>3, <1>7, SumFacts
  <2>. QED  BY <1>3, <2>1
<1>10. SumFunctionOnSet(f, S) = SumFunctionOnSet(g, S)
  BY <1>2, <1>5, SumAgree
<1>11. SumFunctionOnSet(f, S) \in Int /\ 0 <= SumFunctionOnSet(f, S)
  <2>1. S \in SUBSET S
    OBVIOUS
  <2>2. SumFunctionOnSet(f, S) \in Int
    BY <1>2, <1>5, <2>1, SumFacts
  <2>3. 0 <= SumFunctionOnSet(f, S)
    BY <1>2, <1>5, SumOrder
  <2>. QED  BY <2>2, <2>3
<1>12. Bytes(u) = Bytes(s) + t.len + 1
  BY <1>4, <1>6, <1>8, <1>9, <1>10, <1>11
<1>. QED  BY <1>8, <1>11, <1>12 DEF u

LEMMA BytesNone == Bytes(<<>>) = 0
<1>. DEFINE f == [i \in DOMAIN <<>> |-> <<>>[i].len + 1]
<1>1. DOMAIN f = {}
  OBVIOUS
<1>2. IsFiniteSet({}) /\ \A i \in {} : f[i] \in Int
  BY FS_EmptySet
<1>. HIDE DEF f
<1>3. SumFunctionOnSet(f, {}) = 0
  BY <1>2, SumFacts
<1>. QED  BY <1>1, <1>3 DEF Bytes, SumFunction, f

-----------------------------------------------------------------------------
(* The invariant. *)

\* Lines that runREPL counts, and that the buffer has room for.
Room(lines) == (\A n \in DOMAIN lines : Counted(lines[n])) /\ Bytes(lines) + 1 < BufMax

Open(lines) == \A n \in 1..Len(lines) : Nesting(SubSeq(lines, 1, n)) > 0

\* Of such lines none is lost, depth is the nesting, and no part of them is
\* complete.
Whole(lines, inBuffer, d) == Room(lines) => /\ inBuffer = lines
                                            /\ d = Nesting(lines)
                                            /\ Open(lines)

Shape == /\ {carry, typed, unread} \subseteq Seq(Line)
         /\ Len(unread) <= 1
         /\ depth \in Nat /\ depth <= Count(typed, opensBlock)

Inv == Shape /\ BufferHolds /\ NothingLeft /\ RunsForms /\ Whole(typed, carry, depth)

LEMMA InvToTypeOK ==
  ASSUME Inv
  PROVE  TypeOK
<1>1. \A s \in {carry, typed, unread} : s \in Seq(Line)
  BY DEF Inv, Shape
<1>2. \A s \in Seq(Line) : \A l \in ToSet(s) : l \in Line
  BY LenProperties, ElementOfSeq DEF ToSet
<1>3. Count(typed, opensBlock) \in Nat
  <2>1. /\ Count(typed, opensBlock) = Cardinality(Marked(typed, BlockOpeners))
    BY <1>1, Counts
  <2>2. IsFiniteSet(Marked(typed, BlockOpeners))
    <3>1. 1 \in Int /\ Len(typed) \in Int /\ DOMAIN typed = 1..Len(typed)
      BY <1>1, LenProperties
    <3>2. IsFiniteSet(1..Len(typed))
      BY <3>1, FS_Interval
    <3>3. Marked(typed, BlockOpeners) \in SUBSET (1..Len(typed))
      BY <3>1 DEF Marked
    <3>. QED  BY <3>2, <3>3, FS_Subset
  <2>. QED  BY <2>1, <2>2, FS_CardinalityType
<1>4. \A l \in ToSet(carry) \union ToSet(typed) \union ToSet(unread) :
        l.word \in Words \union {"blank", "other"} /\ l.len \in Nat
  BY <1>1, <1>2 DEF Line
<1>5. depth \in 0..Count(typed, opensBlock) /\ Len(unread) <= 1
  BY <1>3 DEF Inv, Shape
<1>. QED  BY <1>4, <1>5 DEF TypeOK

LEMMA InputLines ==
  ASSUME unread \in Seq(Line), Len(unread) <= 1, NEW lines \in Inputs
  PROVE  lines[1] \in Line /\ Tail(lines) \in Seq(Line) /\ Len(Tail(lines)) <= 1
<1>1. lines \in Seq(Line) /\ lines # <<>> /\ Len(lines) <= 2
  <2>1. CASE unread # <<>>
    <3>1. lines = unread
      BY <2>1 DEF Inputs
    <3>. QED  BY <2>1, <3>1, LenProperties
  <2>2. CASE unread = <<>>
    <3>1. PICK l \in Typable : lines = Chunk(l)
      BY <2>2 DEF Inputs
    <3>2. /\ l = [word |-> l.word, rest |-> l.rest, len |-> l.len]
          /\ l.word \in Words /\ l.rest \in {"none", "end", "more"} /\ l.len \in Nat
      BY ReplAssumption DEF Typable
    <3>3. LineMax \in Nat /\ 2 < LineMax
      BY ReplAssumption
    <3>4. CASE l.len < LineMax - 1
      <4>1. l \in Line
        BY <3>2 DEF Line
      <4>2. lines = <<l>>
        BY <3>1, <3>4 DEF Chunk
      <4>. QED  BY <4>1, <4>2
    <3>5. CASE ~ (l.len < LineMax - 1)
      <4>. DEFINE a == [word |-> l.word, rest |-> "cut", len |-> LineMax - 1]
                  b == [word |-> IF l.len = LineMax - 1 THEN "blank" ELSE "other",
                        rest |-> "cut", len |-> l.len - (LineMax - 1)]
      <4>1. a \in Line
        BY <3>2, <3>3 DEF Line
      <4>2. b \in Line
        BY <3>2, <3>3, <3>5 DEF Line
      <4>3. lines = <<a, b>>
        BY <3>1, <3>5 DEF Chunk
      <4>. HIDE DEF a, b
      <4>. QED  BY <4>1, <4>2, <4>3
    <3>. QED  BY <3>4, <3>5
  <2>. QED  BY <2>1, <2>2
<1>2. Len(lines) \in Nat \ {0} /\ 1 \in 1..Len(lines)
  BY <1>1, EmptySeq
<1>3. lines[1] \in Line
  BY <1>1, <1>2, ElementOfSeq
<1>4. Tail(lines) \in Seq(Line) /\ Len(Tail(lines)) = Len(lines) - 1
  BY <1>1, HeadTailProperties
<1>. QED  BY <1>1, <1>2, <1>3, <1>4

LEMMA DepthFacts ==
  ASSUME Shape, NEW t \in Line
  PROVE  /\ Depth(t) \in Nat
         /\ Depth(t) <= Count(Append(typed, t), opensBlock)
         /\ Counted(t) => LET n == depth + (IF Opens(t) THEN 1 ELSE 0) - (IF Closes(t) THEN 1 ELSE 0)
                          IN  Depth(t) = n \/ (Depth(t) = 0 /\ n <= 0)
<1>. DEFINE c == Count(typed, opensBlock)
            c2 == Count(Append(typed, t), opensBlock)
            n == depth + (IF Opens(t) THEN 1 ELSE 0) - (IF Closes(t) THEN 1 ELSE 0)
            opening == opensBlock(t)
            closing == closesBlock(t)
<1>1. typed \in Seq(Line) /\ depth \in Nat /\ depth <= c
  BY DEF Shape
<1>2. c \in Nat /\ c2 = c + IF opening THEN 1 ELSE 0
  BY <1>1, OpensAppend
<1>3. t.word = "catch" => ~ opening /\ ~ closing
  BY DEF opensBlock, closesBlock
<1>4. ~ (opening /\ closing)
  BY DEF opensBlock, closesBlock
<1>5. Counted(t) => /\ Opens(t) <=> opening
                    /\ Closes(t) <=> closing
                    /\ ~ (Opens(t) /\ Closes(t))
                    /\ t.word = "catch" => ~ Closes(t)
  BY DEF Counted, Opens, Closes, opensBlock, closesBlock, Forms, Line
<1>6. Depth(t) = IF t.word = "catch" THEN depth
                 ELSE IF opening THEN depth + 1
                 ELSE IF closing THEN (IF depth > 0 THEN depth - 1 ELSE 0)
                 ELSE depth
  BY <1>3, <1>4 DEF Depth
<1>. HIDE DEF c, c2, opening, closing
<1>7. Depth(t) \in Nat /\ Depth(t) <= depth + IF opening THEN 1 ELSE 0
  BY <1>1, <1>3, <1>6
<1>8. Depth(t) <= c2
  BY <1>1, <1>2, <1>7
<1>9. Counted(t) => Depth(t) = n \/ (Depth(t) = 0 /\ n <= 0)
  BY <1>1, <1>3, <1>5, <1>6
<1>. QED  BY <1>7, <1>8, <1>9 DEF c2


LEMMA PartOfAppend ==
  ASSUME NEW s \in Seq(Line), NEW t \in Line, NEW n \in 1..Len(s)
  PROVE  SubSeq(Append(s, t), 1, n) = SubSeq(s, 1, n)
<1>. DEFINE u == Append(s, t)
<1>1. /\ u \in Seq(Line) /\ Len(u) = Len(s) + 1 /\ Len(s) \in Nat
      /\ \A i \in 1..Len(s) : u[i] = s[i]
  BY AppendFacts
<1>2. n \in 0..Len(s) /\ n \in 0..Len(u)
  BY <1>1
<1>. HIDE DEF u
<1>3. /\ SubSeq(s, 1, n) \in Seq(Line) /\ Len(SubSeq(s, 1, n)) = n
      /\ \A i \in 1..n : SubSeq(s, 1, n)[i] = s[i]
  BY <1>2, FirstPart
<1>4. /\ SubSeq(u, 1, n) \in Seq(Line) /\ Len(SubSeq(u, 1, n)) = n
      /\ \A i \in 1..n : SubSeq(u, 1, n)[i] = u[i]
  BY <1>1, <1>2, FirstPart
<1>5. \A i \in 1..n : SubSeq(u, 1, n)[i] = SubSeq(s, 1, n)[i]
  BY <1>1, <1>3, <1>4
<1>6. SubSeq(u, 1, n) = SubSeq(s, 1, n)
  BY <1>3, <1>4, <1>5, SeqEqual
<1>. QED  BY <1>6 DEF u

LEMMA RoomAppend ==
  ASSUME Inv, NEW t \in Line, Room(Append(typed, t))
  PROVE  /\ Carried(t) = Append(typed, t)
         /\ Open(typed)
         /\ \/ Depth(t) = Nesting(Append(typed, t))
            \/ Depth(t) = 0 /\ Nesting(Append(typed, t)) <= 0
<1>. DEFINE u == Append(typed, t)
<1>1. typed \in Seq(Line) /\ Shape
  BY DEF Inv, Shape
<1>2. /\ u \in Seq(Line) /\ Len(u) = Len(typed) + 1 /\ Len(typed) \in Nat
      /\ (\A i \in 1..Len(typed) : u[i] = typed[i]) /\ u[Len(typed) + 1] = t
      /\ DOMAIN typed = 1..Len(typed) /\ DOMAIN u = 1..Len(u)
  <2>1. u \in Seq(Line)
    BY <1>1, AppendFacts
  <2>. QED  BY <1>1, <2>1, AppendFacts, LenProperties
<1>3. Bytes(typed) \in Nat /\ Bytes(u) = Bytes(typed) + t.len + 1 /\ t.len \in Nat
  BY <1>1, BytesAppend DEF Line
<1>4. BufMax \in Nat
  BY ReplAssumption
<1>. HIDE DEF u
<1>5. (\A n \in DOMAIN u : Counted(u[n])) /\ Bytes(u) + 1 < BufMax
  BY DEF Room, u
<1>6. Room(typed)
  <2>1. \A n \in DOMAIN typed : Counted(typed[n])
    <3>1. SUFFICES ASSUME NEW n \in 1..Len(typed)
                   PROVE  Counted(typed[n])
      BY <1>2
    <3>2. n \in DOMAIN u /\ u[n] = typed[n]
      BY <1>2
    <3>. QED  BY <1>5, <3>2
  <2>2. Bytes(typed) + 1 < BufMax
    BY <1>3, <1>4, <1>5
  <2>. QED  BY <2>1, <2>2 DEF Room
<1>7. Counted(t)
  <2>1. Len(typed) + 1 \in DOMAIN u
    BY <1>2
  <2>. QED  BY <1>2, <1>5, <2>1
<1>8. carry = typed /\ depth = Nesting(typed) /\ Open(typed)
  BY <1>6 DEF Inv, Whole
<1>9. Carried(t) = u
  <2>1. Bytes(carry) + t.len + 2 < BufMax
    BY <1>3, <1>4, <1>5, <1>8
  <2>. QED  BY <1>8, <2>1 DEF Carried, Fits, u
<1>10. /\ Nesting(typed) \in Int
       /\ Nesting(u) = Nesting(typed) + (IF Opens(t) THEN 1 ELSE 0) - (IF Closes(t) THEN 1 ELSE 0)
  BY <1>1, NestingAppend DEF u
<1>11. LET n == depth + (IF Opens(t) THEN 1 ELSE 0) - (IF Closes(t) THEN 1 ELSE 0)
       IN  Depth(t) = n \/ (Depth(t) = 0 /\ n <= 0)
  BY <1>1, <1>7, DepthFacts
<1>12. Depth(t) = Nesting(u) \/ (Depth(t) = 0 /\ Nesting(u) <= 0)
  BY <1>8, <1>10, <1>11
<1>. QED  BY <1>8, <1>9, <1>12 DEF u

LEMMA CarriedFacts ==
  ASSUME Inv, NEW t \in Line
  PROVE  /\ Carried(t) \in Seq(Line) /\ Bytes(Carried(t)) + 1 <= BufMax
         /\ Append(typed, t) \in Seq(Line)
<1>1. carry \in Seq(Line) /\ typed \in Seq(Line) /\ Bytes(carry) + 1 <= BufMax /\ BufMax \in Nat
  BY ReplAssumption DEF Inv, Shape, BufferHolds
<1>2. Bytes(carry) \in Nat /\ Bytes(Append(carry, t)) = Bytes(carry) + t.len + 1 /\ t.len \in Nat
  BY <1>1, BytesAppend DEF Line
<1>3. Append(carry, t) \in Seq(Line) /\ Append(typed, t) \in Seq(Line)
  BY <1>1, AppendFacts
<1>. QED  BY <1>1, <1>2, <1>3 DEF Carried, Fits

-----------------------------------------------------------------------------
(* The steps. *)

LEMMA FirstInput ==
  ASSUME NEW c, NEW d, NEW y, NEW r, NEW q \in Seq(Line), Len(q) <= 1,
         c = <<>>, d = 0, y = <<>>, r = Nothing
  PROVE  /\ {c, y, q} \subseteq Seq(Line) /\ d \in Nat /\ d <= Count(y, opensBlock)
         /\ Bytes(c) + 1 <= BufMax
         /\ Whole(y, c, d)
         /\ r.lines = r.typed /\ r.typed = <<>>
<1>1. <<>> \in Seq(Line) /\ Len(<<>>) = 0
  BY EmptySeq
<1>2. Nesting(<<>>) = 0 /\ Count(<<>>, opensBlock) = 0 /\ Bytes(<<>>) = 0
  BY NestingNone, BytesNone
<1>3. 1 <= BufMax
  BY ReplAssumption
<1>4. Open(<<>>)
  BY <1>1 DEF Open
<1>5. Whole(<<>>, <<>>, 0)
  BY <1>2, <1>4 DEF Whole
<1>6. Nothing.lines = <<>> /\ Nothing.typed = <<>>
  BY DEF Nothing
<1>. QED  BY <1>1, <1>2, <1>3, <1>5, <1>6


LEMMA IgnoreStep ==
  ASSUME Inv, NEW t \in Line, unread' \in Seq(Line), Len(unread') <= 1, Ignore(t)
  PROVE  Inv'
<1>1. carry' = carry /\ depth' = depth /\ typed' = typed /\ tried' = Nothing
  BY DEF Ignore
<1>2. Shape'
  BY <1>1 DEF Inv, Shape
<1>3. BufferHolds' /\ NothingLeft'
  BY <1>1 DEF Inv, BufferHolds, NothingLeft
<1>4. RunsForms'
  <2>1. tried'.lines = <<>> /\ tried'.typed = <<>>
    BY <1>1 DEF Nothing
  <2>. QED  BY <2>1 DEF RunsForms
<1>5. Whole(typed, carry, depth)'
  BY <1>1 DEF Inv, Whole, Room
<1>. QED  BY <1>2, <1>3, <1>4, <1>5 DEF Inv

LEMMA LeaveStep ==
  ASSUME Inv, NEW t \in Line, unread' \in Seq(Line), Len(unread') <= 1, Leave(t)
  PROVE  Inv'
<1>1. carry' = <<>> /\ depth' = 0 /\ typed' = <<>> /\ tried' = Nothing
  BY DEF Leave
<1>2. /\ {carry', typed', unread'} \subseteq Seq(Line)
      /\ depth' \in Nat /\ depth' <= Count(typed', opensBlock)
      /\ Bytes(carry') + 1 <= BufMax
      /\ Whole(typed', carry', depth')
      /\ tried'.lines = tried'.typed /\ tried'.typed = <<>>
  BY <1>1, FirstInput
<1>3. RunsForms'
  BY <1>2 DEF RunsForms
<1>4. Shape' /\ BufferHolds' /\ NothingLeft'
  BY <1>1, <1>2 DEF Shape, BufferHolds, NothingLeft
<1>. QED  BY <1>2, <1>3, <1>4 DEF Inv

LEMMA CollectStep ==
  ASSUME Inv, NEW t \in Line, unread' \in Seq(Line), Len(unread') <= 1, Collect(t)
  PROVE  Inv'
<1>. DEFINE u == Append(typed, t)
<1>1. /\ depth' = Depth(t) /\ Depth(t) > 0
      /\ carry' = Carried(t) /\ typed' = u /\ tried' = Nothing
  BY DEF Collect
<1>2. typed \in Seq(Line) /\ Shape
  BY DEF Inv, Shape
<1>3. /\ Carried(t) \in Seq(Line) /\ Bytes(Carried(t)) + 1 <= BufMax
      /\ u \in Seq(Line)
  BY CarriedFacts
<1>4. Shape'
  <2>1. Depth(t) \in Nat /\ Depth(t) <= Count(u, opensBlock)
    BY <1>2, DepthFacts
  <2>. HIDE DEF u
  <2>. QED  BY <1>1, <1>3, <2>1 DEF Shape
<1>5. BufferHolds' /\ NothingLeft'
  BY <1>1, <1>3 DEF BufferHolds, NothingLeft
<1>6. RunsForms'
  <2>1. tried'.lines = <<>> /\ tried'.typed = <<>>
    BY <1>1 DEF Nothing
  <2>. QED  BY <2>1 DEF RunsForms
<1>7. ASSUME Room(u)
      PROVE  Carried(t) = u /\ Depth(t) = Nesting(u) /\ Open(u)
  <2>1. /\ Carried(t) = u /\ Open(typed)
        /\ Depth(t) = Nesting(u) \/ (Depth(t) = 0 /\ Nesting(u) <= 0)
    BY <1>7, RoomAppend
  <2>2. Depth(t) = Nesting(u)
    BY <1>1, <2>1
  <2>3. ASSUME NEW n \in 1..Len(u)
        PROVE  Nesting(SubSeq(u, 1, n)) > 0
    <3>1. Len(u) = Len(typed) + 1 /\ Len(typed) \in Nat
      BY <1>2, AppendFacts
    <3>2. CASE n \in 1..Len(typed)
      <4>1. SubSeq(u, 1, n) = SubSeq(typed, 1, n)
        BY <1>2, <3>2, PartOfAppend
      <4>. QED  BY <2>1, <3>2, <4>1 DEF Open
    <3>3. CASE n = Len(u)
      <4>1. SubSeq(u, 1, n) = u
        BY <1>3, <3>3, SubSeqFull
      <4>. QED  BY <1>1, <2>2, <4>1
    <3>. QED  BY <3>1, <3>2, <3>3
  <2>. QED  BY <2>1, <2>2, <2>3 DEF Open
<1>8. Whole(typed, carry, depth)'
  <2>1. Whole(u, Carried(t), Depth(t))
    BY <1>7 DEF Whole
  <2>. QED  BY <1>1, <2>1
<1>. QED  BY <1>4, <1>5, <1>6, <1>8 DEF Inv

LEMMA TryStep ==
  ASSUME Inv, NEW t \in Line, unread' \in Seq(Line), Len(unread') <= 1, Try(t), carry' = <<>>
  PROVE  Inv'
<1>. DEFINE u == Append(typed, t)
<1>1. /\ carry' = <<>> /\ depth' = 0 /\ typed' = <<>> /\ Depth(t) = 0
      /\ tried'.lines = Carried(t) /\ tried'.typed = u
  BY DEF Try
<1>2. /\ {carry', typed', unread'} \subseteq Seq(Line)
      /\ depth' \in Nat /\ depth' <= Count(typed', opensBlock)
      /\ Bytes(carry') + 1 <= BufMax
      /\ Whole(typed', carry', depth')
  BY <1>1, FirstInput
<1>3. typed \in Seq(Line)
  BY DEF Inv, Shape
<1>4. ASSUME Room(u)
      PROVE  Carried(t) = u /\ IsForm(u)
  <2>1. /\ Carried(t) = u /\ Open(typed)
        /\ Depth(t) = Nesting(u) \/ (Depth(t) = 0 /\ Nesting(u) <= 0)
    BY <1>4, RoomAppend
  <2>2. Nesting(u) <= 0
    BY <1>1, <2>1
  <2>3. Len(u) - 1 = Len(typed)
    BY <1>3, AppendFacts
  <2>4. ASSUME NEW n \in 1..Len(typed)
        PROVE  Nesting(SubSeq(u, 1, n)) > 0
    <3>1. SubSeq(u, 1, n) = SubSeq(typed, 1, n)
      BY <1>3, PartOfAppend
    <3>. QED  BY <2>1, <3>1 DEF Open
  <2>. QED  BY <2>1, <2>2, <2>3, <2>4 DEF IsForm
<1>5. RunsForms'
  <2>. HIDE DEF u
  <2>. QED  BY <1>1, <1>4 DEF RunsForms, Room
<1>6. Shape' /\ BufferHolds' /\ NothingLeft'
  BY <1>1, <1>2 DEF Shape, BufferHolds, NothingLeft
<1>. QED  BY <1>2, <1>5, <1>6 DEF Inv

LEMMA InvInit ==
  ASSUME Init
  PROVE  Inv
<1>1. /\ carry = <<>> /\ depth = 0 /\ unread = <<>> /\ typed = <<>> /\ tried = Nothing
  BY DEF Init
<1>2. unread \in Seq(Line) /\ Len(unread) <= 1
  BY <1>1, EmptySeq
<1>3. /\ {carry, typed, unread} \subseteq Seq(Line)
      /\ depth \in Nat /\ depth <= Count(typed, opensBlock)
      /\ Bytes(carry) + 1 <= BufMax
      /\ Whole(typed, carry, depth)
      /\ tried.lines = tried.typed /\ tried.typed = <<>>
  BY <1>1, <1>2, FirstInput
<1>4. RunsForms
  BY <1>3 DEF RunsForms
<1>. QED  BY <1>1, <1>2, <1>3, <1>4 DEF Inv, Shape, BufferHolds, NothingLeft

LEMMA InvNext ==
  Inv /\ [Next]_vars => Inv'
<1>. SUFFICES ASSUME Inv, [Next]_vars
              PROVE  Inv'
  OBVIOUS
<1>1. CASE Next
  <2>1. PICK lines \in Inputs :
          /\ unread' = Tail(lines)
          /\ LET t == lines[1] IN Ignore(t) \/ Leave(t) \/ Collect(t) \/ Refuse(t) \/ Run(t)
    BY <1>1 DEF Next
  <2>. DEFINE t == lines[1]
  <2>2. t \in Line /\ unread' \in Seq(Line) /\ Len(unread') <= 1
    BY <2>1, InputLines DEF Inv, Shape
  <2>3. Ignore(t) \/ Leave(t) \/ Collect(t) \/ Refuse(t) \/ Run(t)
    BY <2>1
  <2>. HIDE DEF t
  <2>4. CASE Ignore(t)
    BY <2>2, <2>4, IgnoreStep
  <2>5. CASE Leave(t)
    BY <2>2, <2>5, LeaveStep
  <2>6. CASE Collect(t)
    BY <2>2, <2>6, CollectStep
  <2>7. CASE Refuse(t)
    <3>1. Try(t) /\ carry' = <<>>
      BY <2>7 DEF Refuse, Kept
    <3>. QED  BY <2>2, <3>1, TryStep
  <2>8. CASE Run(t)
    <3>1. Try(t) /\ carry' = <<>>
      BY <2>8 DEF Run
    <3>. QED  BY <2>2, <3>1, TryStep
  <2>. QED  BY <2>3, <2>4, <2>5, <2>6, <2>7, <2>8
<1>2. CASE UNCHANGED vars
  BY <1>2 DEF vars, Inv, Shape, BufferHolds, NothingLeft, RunsForms, Whole, Room
<1>. QED  BY <1>1, <1>2

-----------------------------------------------------------------------------
\* TypeOK: the buffer and what was typed are lines that can be typed or cut,
\* and no more blocks seem open (block_depth) than lines opened one, however
\* many lines an input has.
THEOREM ReplType == Spec => []TypeOK
<1>1. Init => Inv
  BY InvInit
<1>2. Inv /\ [Next]_vars => Inv'
  BY InvNext
<1>3. Inv => TypeOK
  BY InvToTypeOK
<1>. QED  BY <1>1, <1>2, <1>3, PTL DEF Spec

\* BufferHolds: carry (repl.cpp:102) is never written past its end, whatever
\* is typed and whatever the two sizes are.
THEOREM BufferNeverOverrun == Spec => []BufferHolds
<1>1. Init => Inv
  BY InvInit
<1>2. Inv /\ [Next]_vars => Inv'
  BY InvNext
<1>3. Inv => BufferHolds
  BY DEF Inv
<1>. QED  BY <1>1, <1>2, <1>3, PTL DEF Spec

\* NothingLeft: when no block seems open the buffer is empty, so an input
\* never starts with lines of an earlier one (repl.cpp:115, 130).
THEOREM InputsStartAfresh == Spec => []NothingLeft
<1>1. Init => Inv
  BY InvInit
<1>2. Inv /\ [Next]_vars => Inv'
  BY InvNext
<1>3. Inv => NothingLeft
  BY DEF Inv
<1>. QED  BY <1>1, <1>2, <1>3, PTL DEF Spec

\* RunsForms: what runREPL parses and runs is one complete form with all its
\* lines (repl.cpp:93-106), for forms of any depth and any number of lines of
\* the kinds that it counts and the buffer has room for.
THEOREM RunsCompleteForms == Spec => []RunsForms
<1>1. Init => Inv
  BY InvInit
<1>2. Inv /\ [Next]_vars => Inv'
  BY InvNext
<1>3. Inv => RunsForms
  BY DEF Inv
<1>. QED  BY <1>1, <1>2, <1>3, PTL DEF Spec
=============================================================================
