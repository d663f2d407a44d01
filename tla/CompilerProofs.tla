---------------------------- MODULE CompilerProofs ----------------------------
(***************************************************************************)
(* Theorems about Compiler, for any limits, any set of modules and         *)
(* programs of any depth.                                                  *)
(***************************************************************************)
EXTENDS Compiler, SequencesExt, WellFoundedInduction, SequenceTheorems, FiniteSetTheorems, TLAPS

-----------------------------------------------------------------------------
(* Facts about naturals and sequences. *)

(* Every non-empty set of natural numbers has a least element: what makes
   the first empty slot of a probe sequence, or the innermost of several
   handlers, well defined. *)
LEMMA LeastElement ==
  ASSUME NEW S \in SUBSET Nat, S # {}
  PROVE  \E k \in S : \A n \in S : k <= n
<1>. DEFINE R == {p \in Nat \X Nat : p[1] < p[2]}
<1>1. IsWellFoundedOn(R, Nat)
  BY NatLessThanWellFounded DEF OpToRel
<1>2. PICK k \in S : \A n \in S : ~ (<<n, k>> \in R)
  <2>. HIDE DEF R
  <2>. QED  BY <1>1, WFMin
<1>3. ASSUME NEW n \in S PROVE k <= n
  <2>1. <<n, k>> \notin R
    BY <1>2
  <2>2. k \in Nat /\ n \in Nat
    OBVIOUS
  <2>3. ~ (n < k)
    BY <2>1, <2>2
  <2>. QED  BY <2>2, <2>3
<1>. QED  BY <1>3

LEMMA FrontFacts ==
  ASSUME NEW S, NEW s \in Seq(S), s # <<>>
  PROVE  /\ Len(s) \in Nat \ {0}
         /\ Front(s) \in Seq(S) /\ Len(Front(s)) = Len(s) - 1
         /\ \A i \in 1..Len(s) - 1 : Front(s)[i] = s[i]
         /\ Last(s) = s[Len(s)] /\ Last(s) \in S
<1>1. Len(s) \in Nat \ {0} /\ \A i \in 1..Len(s) : s[i] \in S
  BY EmptySeq, LenProperties, ElementOfSeq
<1>2. \A i \in 1..Len(s) - 1 : s[i] \in S
  BY <1>1
<1>3. /\ SubSeq(s, 1, Len(s) - 1) \in Seq(S)
      /\ Len(SubSeq(s, 1, Len(s) - 1)) = Len(s) - 1
      /\ \A i \in 1..Len(s) - 1 : SubSeq(s, 1, Len(s) - 1)[i] = s[i]
  <2>. DEFINE n == Len(s) - 1
  <2>1. n \in Nat /\ 1 \in Int /\ \A i \in 1..n : s[i] \in S
    BY <1>1, <1>2
  <2>. HIDE DEF n
  <2>2. /\ SubSeq(s, 1, n) \in Seq(S)
        /\ Len(SubSeq(s, 1, n)) = IF 1 <= n THEN n - 1 + 1 ELSE 0
        /\ \A i \in 1..n - 1 + 1 : SubSeq(s, 1, n)[i] = s[1 + i - 1]
    BY <2>1, SubSeqProperties
  <2>3. Len(SubSeq(s, 1, n)) = n /\ \A i \in 1..n : SubSeq(s, 1, n)[i] = s[i]
    BY <2>1, <2>2
  <2>. QED  BY <2>2, <2>3 DEF n
<1>. QED  BY <1>1, <1>3 DEF Front, Last

LEMMA AppendFacts ==
  ASSUME NEW S, NEW s \in Seq(S), NEW e \in S
  PROVE  /\ Append(s, e) \in Seq(S) /\ Len(Append(s, e)) = Len(s) + 1 /\ Len(s) \in Nat
         /\ \A i \in 1..Len(s) : Append(s, e)[i] = s[i]
         /\ Append(s, e)[Len(s) + 1] = e
  BY AppendProperties, LenProperties

LEMMA FirstPart ==
  ASSUME NEW S, NEW s \in Seq(S), NEW l \in 0..Len(s)
  PROVE  /\ SubSeq(s, 1, l) \in Seq(S) /\ Len(SubSeq(s, 1, l)) = l
         /\ \A i \in 1..l : SubSeq(s, 1, l)[i] = s[i]
<1>1. \A i \in 1..l : s[i] \in S
  BY LenProperties, ElementOfSeq
<1>2. 1 \in Int /\ l \in Int /\ l \in Nat
  BY LenProperties
<1>3. /\ SubSeq(s, 1, l) \in Seq(S)
      /\ Len(SubSeq(s, 1, l)) = IF 1 <= l THEN l - 1 + 1 ELSE 0
      /\ \A i \in 1..l - 1 + 1 : SubSeq(s, 1, l)[i] = s[1 + i - 1]
  BY <1>1, <1>2, SubSeqProperties
<1>. QED  BY <1>2, <1>3

-----------------------------------------------------------------------------

(* The forms of program that the heights need to be without: with any of them
   TLC shows a frame that is higher or lower than its locals, or a local that
   is not in its slot.  The marks of constants do not matter to heights. *)
SafeShapes == Shapes \intersect {"forLet", "forStep", "whenIs", "module"} = {}

-----------------------------------------------------------------------------
(* Imports. *)

\* The modules that are compiled.
Done(stack, mods) == mods \ Range(stack)

Acyclic(S, edges) == \A T \in (SUBSET S) \ {{}} : \E a \in T : \A b \in T : <<a, b>> \notin edges

\* A module that is compiled imports modules that are compiled, one that is
\* being imported those too and the next of the chain.
Chained(stack, mods, edges) ==
  /\ \A x, y : <<x, y>> \in edges /\ x \in Done(stack, mods) => y \in Done(stack, mods)
  /\ \A p \in 1..Len(stack) : \A y :
       <<stack[p], y>> \in edges =>
         y \in Done(stack, mods) \/ (p < Len(stack) /\ y = stack[p + 1])
  /\ \A x, y : <<x, y>> \in edges => x \in mods \union {"main"}
  /\ Acyclic(Done(stack, mods), edges)

ImportInv ==
  /\ import_stack \in Seq(Module)
  /\ \A p, q \in 1..Len(import_stack) : import_stack[p] = import_stack[q] => p = q
  /\ Range(import_stack) \subseteq imported_modules
  /\ imported_modules \subseteq Module
  /\ Compiling => Chained(import_stack, imported_modules, imports)
  /\ AcyclicImports

LEMMA RangeFacts ==
  ASSUME NEW S, NEW s \in Seq(S)
  PROVE  /\ Range(s) \subseteq S
         /\ \A x : x \in Range(s) <=> \E p \in 1..Len(s) : s[p] = x
         /\ \A e \in S : Range(Append(s, e)) = Range(s) \union {e}
         /\ s # <<>> => Range(s) = Range(Front(s)) \union {Last(s)}
<1>1. /\ Len(s) \in Nat /\ DOMAIN s = 1..Len(s)
      /\ \A p \in 1..Len(s) : s[p] \in S
  BY LenProperties, ElementOfSeq
<1>2. \A x : x \in Range(s) <=> \E p \in 1..Len(s) : s[p] = x
  BY <1>1 DEF Range
<1>3. ASSUME NEW e \in S PROVE Range(Append(s, e)) = Range(s) \union {e}
  <2>. DEFINE a == Append(s, e)
  <2>1. /\ a \in Seq(S) /\ Len(a) = Len(s) + 1
        /\ \A p \in 1..Len(s) : a[p] = s[p]
        /\ a[Len(s) + 1] = e
    BY AppendFacts
  <2>2. DOMAIN a = 1..Len(a)
    BY <2>1, LenProperties
  <2>. HIDE DEF a
  <2>3. \A x : x \in Range(a) <=> \E p \in 1..Len(s) + 1 : a[p] = x
    BY <2>1, <2>2 DEF Range
  <2>4. Range(a) = Range(s) \union {e}
    BY <1>1, <1>2, <2>1, <2>3
  <2>. QED  BY <2>4 DEF a
<1>4. ASSUME s # <<>> PROVE Range(s) = Range(Front(s)) \union {Last(s)}
  <2>. DEFINE f == Front(s)
  <2>1. /\ Len(s) \in Nat \ {0}
        /\ f \in Seq(S) /\ Len(f) = Len(s) - 1
        /\ \A p \in 1..Len(s) - 1 : f[p] = s[p]
        /\ Last(s) = s[Len(s)]
    BY <1>4, FrontFacts
  <2>2. DOMAIN f = 1..Len(f)
    BY <2>1, LenProperties
  <2>. HIDE DEF f
  <2>3. \A x : x \in Range(f) <=> \E p \in 1..Len(s) - 1 : f[p] = x
    BY <2>1, <2>2 DEF Range
  <2>4. Range(s) = Range(f) \union {Last(s)}
    BY <1>1, <1>2, <2>1, <2>3
  <2>. QED  BY <2>4 DEF f
<1>5. Range(s) \subseteq S
  BY <1>1 DEF Range
<1>. QED  BY <1>2, <1>3, <1>4, <1>5

\* The file in a set that imports none of it: one that is not read yet, else one
\* of those compiled, else the one the chain reaches last.
LEMMA ChainedAcyclic ==
  ASSUME NEW mods \in SUBSET Module, NEW stack \in Seq(Module), Range(stack) \subseteq mods,
         NEW edges, Chained(stack, mods, edges)
  PROVE  Acyclic(Module, edges)
<1>. SUFFICES ASSUME NEW S \in (SUBSET Module) \ {{}}
              PROVE  \E a \in S : \A b \in S : <<a, b>> \notin edges
  BY DEF Acyclic
<1>1. CASE \E a \in S : a \notin mods
  <2>1. PICK a \in S : a \notin mods
    BY <1>1
  <2>2. a # "main"
    BY CompilerAssumption
  <2>. QED  BY <2>1, <2>2 DEF Chained
<1>2. CASE S \intersect Done(stack, mods) # {}
  <2>1. PICK a \in S \intersect Done(stack, mods) : \A b \in S \intersect Done(stack, mods) : <<a, b>> \notin edges
    BY <1>2 DEF Chained, Acyclic
  <2>. QED  BY <2>1 DEF Chained
<1>3. CASE S \subseteq mods /\ S \intersect Done(stack, mods) = {}
  <2>. DEFINE P == {p \in 1..Len(stack) : stack[p] \in S}
              Q == {Len(stack) - p : p \in P}
  <2>1. Len(stack) \in Nat
    BY LenProperties
  <2>2. P # {}
    <3>1. PICK a \in S : TRUE
      OBVIOUS
    <3>2. a \in Range(stack)
      BY <1>3 DEF Done
    <3>. QED  BY <3>2, RangeFacts
  <2>3. PICK q \in Q : \A n \in Q : q <= n
    <3>1. Q \in SUBSET Nat /\ Q # {}
      BY <2>1, <2>2
    <3>. HIDE DEF Q
    <3>. QED  BY <3>1, LeastElement
  <2>4. PICK p \in P : q = Len(stack) - p
    OBVIOUS
  <2>5. ASSUME NEW o \in P PROVE o <= p
    <3>1. o \in Nat /\ p \in Nat /\ q <= Len(stack) - o
      BY <2>3
    <3>. QED  BY <2>1, <2>4, <3>1
  <2>6. p \in 1..Len(stack) /\ stack[p] \in S
    OBVIOUS
  <2>7. ASSUME NEW b \in S PROVE <<stack[p], b>> \notin edges
    <3>1. SUFFICES ASSUME <<stack[p], b>> \in edges PROVE FALSE
      OBVIOUS
    <3>2. p < Len(stack) /\ b = stack[p + 1]
      BY <1>3, <2>6, <3>1 DEF Chained
    <3>3. p + 1 \in P
      BY <2>1, <3>2
    <3>. QED  BY <2>1, <2>5, <2>6, <3>3
  <2>. QED  BY <2>6, <2>7
<1>. QED  BY <1>1, <1>2, <1>3

LEMMA ImportStep ==
  ASSUME ImportInv, NEW m \in Module, Import(m)
  PROVE  ImportInv'
<1>. DEFINE F == Done(import_stack, imported_modules)
            Nested == Chained(import_stack, imported_modules, imports)
<1>1. /\ Compiling
      /\ ~ Circular(m)
      /\ imports' = imports \union {<<Importer, m>>}
  BY DEF Import
<1>2. /\ import_stack \in Seq(Module) /\ Len(import_stack) \in Nat
      /\ Range(import_stack) \subseteq imported_modules /\ imported_modules \subseteq Module
      /\ Nested
  BY <1>1, LenProperties DEF ImportInv
<1>3. m \notin Range(import_stack)
  BY <1>1, <1>2, RangeFacts DEF Circular, Contains
<1>4. \/ import_stack = <<>> /\ Importer = "main"
      \/ /\ Len(import_stack) > 0 /\ Importer = import_stack[Len(import_stack)]
         /\ Importer \in Range(import_stack)
  BY <1>2, FrontFacts, RangeFacts DEF Importer
<1>5. "main" \notin Module
  BY CompilerAssumption
<1>6. \A p \in 1..Len(import_stack) : import_stack[p] \in Range(import_stack)
  BY <1>2, RangeFacts
<1>7. \A p, q \in 1..Len(import_stack) : import_stack[p] = import_stack[q] => p = q
  BY DEF ImportInv
<1>8. CASE m \in imported_modules
  <2>1. UNCHANGED <<ctxs, imported_modules, import_stack>>
    BY <1>8 DEF Import
  <2>2. F' = F /\ m \in F
    BY <1>3, <1>8, <2>1 DEF Done
  <2>3. Importer \notin F
    BY <1>2, <1>4, <1>5 DEF Done
  <2>4. Nested'
    <3>1. Acyclic(F, imports)'
      BY <1>1, <1>2, <2>2, <2>3 DEF Chained, Acyclic
    <3>2. \A x, y : <<x, y>> \in imports' /\ x \in F => y \in F
      BY <1>1, <1>2, <2>3 DEF Chained
    <3>3. \A p \in 1..Len(import_stack) : \A y :
            <<import_stack[p], y>> \in imports' =>
              y \in F \/ (p < Len(import_stack) /\ y = import_stack[p + 1])
      BY <1>1, <1>2, <2>2 DEF Chained
    <3>4. \A x, y : <<x, y>> \in imports' => x \in imported_modules \union {"main"}
      BY <1>1, <1>2, <1>4 DEF Chained
    <3>. QED  BY <2>1, <2>2, <3>1, <3>2, <3>3, <3>4 DEF Chained
  <2>5. AcyclicImports'
    BY <1>2, <2>1, <2>4, ChainedAcyclic DEF AcyclicImports, Acyclic
  <2>. QED  BY <1>2, <1>7, <2>1, <2>4, <2>5 DEF ImportInv
<1>9. CASE m \notin imported_modules
  <2>. DEFINE s == import_stack
  <2>1. imported_modules' = imported_modules \union {m} /\ import_stack' = Append(s, m)
    BY <1>9 DEF Import
  <2>2. /\ import_stack' \in Seq(Module) /\ Len(import_stack') = Len(s) + 1
        /\ \A p \in 1..Len(s) : import_stack'[p] = s[p]
        /\ import_stack'[Len(s) + 1] = m
        /\ Range(import_stack') = Range(s) \union {m}
    BY <1>2, <2>1, AppendFacts, RangeFacts
  <2>3. F' = F
    BY <1>3, <1>9, <2>1, <2>2 DEF Done
  <2>4. Importer \notin F
    BY <1>2, <1>4, <1>5 DEF Done
  <2>5. \A y : <<m, y>> \notin imports'
    BY <1>1, <1>2, <1>3, <1>4, <1>5, <1>9 DEF Chained
  <2>6. Nested'
    <3>1. Acyclic(F, imports)'
      BY <1>1, <1>2, <2>3, <2>4 DEF Chained, Acyclic
    <3>2. \A x, y : <<x, y>> \in imports' /\ x \in F => y \in F
      BY <1>1, <1>2, <2>4 DEF Chained
    <3>3. ASSUME NEW p \in 1..Len(s) + 1, NEW y, <<import_stack'[p], y>> \in imports'
          PROVE  y \in F \/ (p < Len(s) + 1 /\ y = import_stack'[p + 1])
      <4>1. p \in 1..Len(s)
        BY <1>2, <2>2, <2>5, <3>3
      <4>2. p < Len(s) + 1 /\ (p < Len(s) => p + 1 \in 1..Len(s))
        BY <1>2, <4>1
      <4>3. CASE <<s[p], y>> \in imports
        BY <1>2, <2>2, <4>1, <4>2, <4>3 DEF Chained
      <4>4. CASE s[p] = Importer /\ y = m
        <5>1. Len(s) \in 1..Len(s) /\ s[p] = s[Len(s)]
          BY <1>2, <1>4, <1>5, <1>6, <4>1, <4>4
        <5>2. p = Len(s)
          BY <1>7, <4>1, <5>1
        <5>. QED  BY <2>2, <4>2, <4>4, <5>2
      <4>. QED  BY <1>1, <2>2, <3>3, <4>1, <4>3, <4>4
    <3>4. \A x, y : <<x, y>> \in imports' => x \in imported_modules \union {"main"}
      BY <1>1, <1>2, <1>4 DEF Chained
    <3>. QED  BY ZenonT(60), <2>1, <2>2, <2>3, <3>1, <3>2, <3>3, <3>4 DEF Chained
  <2>7. AcyclicImports'
    <3>1. Range(import_stack') \subseteq imported_modules' /\ imported_modules' \subseteq Module
      BY <1>2, <2>1, <2>2
    <3>. QED  BY <2>2, <2>6, <3>1, ChainedAcyclic DEF AcyclicImports, Acyclic
  <2>8. \A p, q \in 1..Len(s) + 1 : import_stack'[p] = import_stack'[q] => p = q
    BY <1>2, <1>3, <1>6, <1>7, <2>2
  <2>. QED  BY <1>2, <2>1, <2>2, <2>6, <2>7, <2>8 DEF ImportInv
<1>. QED  BY <1>8, <1>9

LEMMA EndImportStep ==
  ASSUME ImportInv, EndImport
  PROVE  ImportInv'
<1>. DEFINE F == Done(import_stack, imported_modules)
            Nested == Chained(import_stack, imported_modules, imports)
<1>. DEFINE s == import_stack
<1>1. Compiling /\ s' = Front(s) /\ UNCHANGED <<imported_modules, imports>>
  BY DEF EndImport
<1>2. /\ s \in Seq(Module) /\ Len(s) \in Nat
      /\ Range(s) \subseteq imported_modules /\ imported_modules \subseteq Module
      /\ Nested
  BY <1>1, LenProperties DEF ImportInv
<1>3. AcyclicImports'
  BY <1>1 DEF ImportInv, AcyclicImports
<1>4. CASE s = <<>>
  <2>1. s' = s
    BY <1>1, <1>4 DEF Front
  <2>. QED  BY <1>1, <1>2, <1>3, <2>1 DEF ImportInv, Chained, Acyclic, Done
<1>5. CASE s # <<>>
  <2>1. /\ s' \in Seq(Module) /\ Len(s') = Len(s) - 1 /\ Len(s) \in Nat \ {0}
        /\ \A p \in 1..Len(s) - 1 : s'[p] = s[p]
        /\ Range(s) = Range(s') \union {s[Len(s)]}
    BY <1>1, <1>2, <1>5, FrontFacts, RangeFacts
  <2>2. \A p, q \in 1..Len(s) : s[p] = s[q] => p = q
    BY DEF ImportInv
  <2>. DEFINE t == s[Len(s)]
  <2>3. t \notin Range(s')
    <3>1. SUFFICES ASSUME t \in Range(s') PROVE FALSE
      OBVIOUS
    <3>2. PICK p \in 1..Len(s) - 1 : s'[p] = t
      BY <2>1, <3>1, RangeFacts
    <3>. QED  BY <2>1, <2>2, <3>2
  <2>4. F' = F \union {t} /\ t \notin F
    BY <1>1, <1>2, <2>1, <2>3 DEF Done
  <2>5. \A y : <<t, y>> \in imports => y \in F
    BY <1>2, <2>1 DEF Chained
  <2>6. Nested'
    <3>1. Acyclic(F, imports)'
      <4>1. SUFFICES ASSUME NEW S \in (SUBSET (F \union {t})) \ {{}}
                     PROVE  \E a \in S : \A b \in S : <<a, b>> \notin imports
        BY <1>1, <2>4 DEF Acyclic
      <4>2. CASE S \intersect F # {}
        <5>1. PICK a \in S \intersect F : \A b \in S \intersect F : <<a, b>> \notin imports
          BY <1>2, <4>2 DEF Chained, Acyclic
        <5>. QED  BY <1>2, <5>1 DEF Chained
      <4>3. CASE S \intersect F = {}
        BY <2>4, <2>5, <4>3
      <4>. QED  BY <4>2, <4>3
    <3>2. \A x, y : <<x, y>> \in imports /\ x \in F' => y \in F'
      BY <1>2, <2>4, <2>5 DEF Chained
    <3>3. ASSUME NEW p \in 1..Len(s) - 1, NEW y, <<s[p], y>> \in imports
          PROVE  y \in F' \/ (p < Len(s) - 1 /\ y = s'[p + 1])
      <4>1. p \in 1..Len(s) /\ p < Len(s) /\ (p + 1 = Len(s) \/ p + 1 \in 1..Len(s) - 1)
        BY <2>1
      <4>2. y \in F \/ y = s[p + 1]
        BY <1>2, <3>3, <4>1 DEF Chained
      <4>3. CASE p + 1 = Len(s)
        BY <2>4, <4>2, <4>3
      <4>4. CASE p + 1 \in 1..Len(s) - 1
        BY <2>1, <2>4, <4>2, <4>4
      <4>. QED  BY <4>1, <4>3, <4>4
    <3>. QED  BY <1>1, <1>2, <2>1, <2>4, <3>1, <3>2, <3>3 DEF Chained
  <2>. QED  BY <1>1, <1>2, <1>3, <2>1, <2>2, <2>6 DEF ImportInv
<1>. QED  BY <1>4, <1>5

\* What any step but an import does to the imports.
LEMMA ImportsKept ==
  ASSUME [Next]_vars
  PROVE  \/ SameImports /\ (Compiling' => Compiling)
         \/ \E m \in Module : Import(m)
         \/ EndImport
         \/ /\ import_stack' = <<>> /\ imported_modules' = {} /\ imports' = {}
         \/ /\ ~ Compiling' /\ import_stack' = <<>> /\ UNCHANGED imports
            /\ \/ imported_modules' = imported_modules
               \/ \E m \in Module : imported_modules' = imported_modules \union {m}
<1>1. CASE Compile
  BY <1>1 DEF Compile
<1>2. CASE CompileError
  BY <1>2 DEF CompileError, Compiling
<1>3. CASE EndCompile \/ Let \/ LetGlobal \/ Assign \/ CompoundAssign \/ SetIndex \/ PrintStmt
             \/ ExprStmt \/ ReplExprStmt \/ Return
  BY <1>3 DEF EndCompile, Let, LetGlobal, Assign, CompoundAssign, SetIndex, PrintStmt, ExprStmt,
              ReplExprStmt, Return, SameLoops
<1>4. CASE If \/ Else \/ EndIf \/ While \/ EndWhile \/ Break \/ Continue
  BY <1>4 DEF If, CanNest, Else, EndIf, In, While, EndWhile, Break, Continue, InLoop, PushLoop,
              PopLoop, SameLoops
<1>5. CASE For \/ EndFor \/ ForRange \/ EndForRange \/ JitForRange \/ ForStep \/ ForDown \/ EndForStep
  BY <1>5 DEF For, CanNest, EndFor, ForRange, EndForRange, JitForRange, ForStep, ForDown, EndForStep,
              In, PushLoop, PopLoop, SameLoops
<1>6. CASE When \/ Is \/ ElseWhen \/ EndWhen \/ Try \/ Catch \/ EndTry
  BY <1>6 DEF When, CanNest, Is, ElseWhen, EndWhen, InWhen, InCases, Try, Catch, EndTry, In, SameLoops
<1>7. CASE Function \/ EndFunction
  BY <1>7 DEF Function, CanNest, EndFunction, SameLoops
<1>8. CASE UNCHANGED vars
  BY <1>8 DEF vars, SameImports, Compiling
<1>. QED  BY <1>1, <1>2, <1>3, <1>4, <1>5, <1>6, <1>7, <1>8 DEF Next

LEMMA ImportInvStep ==
  ASSUME ImportInv, [Next]_vars
  PROVE  ImportInv'
<1>1. CASE SameImports /\ (Compiling' => Compiling)
  BY <1>1 DEF SameImports, ImportInv, Chained, Acyclic, AcyclicImports, Done
<1>2. /\ <<>> \in Seq(Module) /\ Range(<<>>) = {} /\ Len(<<>>) = 0
  BY DEF Range
<1>3. CASE import_stack' = <<>> /\ imported_modules' = {} /\ imports' = {}
  <2>1. Chained(import_stack, imported_modules, imports)' /\ AcyclicImports'
    BY <1>2, <1>3 DEF Chained, Acyclic, AcyclicImports, Done
  <2>. QED  BY <1>2, <1>3, <2>1 DEF ImportInv
<1>4. CASE /\ ~ Compiling' /\ import_stack' = <<>> /\ UNCHANGED imports
           /\ \/ imported_modules' = imported_modules
              \/ \E m \in Module : imported_modules' = imported_modules \union {m}
  <2>1. AcyclicImports'
    BY <1>4 DEF ImportInv, AcyclicImports
  <2>. QED  BY <1>2, <1>4, <2>1 DEF ImportInv
<1>. QED  BY <1>1, <1>3, <1>4, ImportsKept, ImportStep, EndImportStep

(* A program that compiles has no import cycle, however many modules there are
   and whichever import which: compileImport skips what is imported already
   only after it has looked for it in the chain of imports in progress. *)
THEOREM ImportsAcyclic == Spec => []AcyclicImports
<1>1. Init => ImportInv
  BY DEF Init, ImportInv, AcyclicImports, Compiling, Range
<1>2. ImportInv /\ [Next]_vars => ImportInv'
  BY ImportInvStep
<1>3. ImportInv => AcyclicImports
  BY DEF ImportInv
<1>. QED  BY <1>1, <1>2, <1>3, PTL DEF Spec

-----------------------------------------------------------------------------
(* Heights. *)

Node == {"if", "else", "loop", "for", "range", "up", "down", "when", "is", "elseWhen", "try", "catch"}

Loopy == {"loop", "for", "range", "up", "down"}

Scopes(node) == IF node \in {"for", "is", "elseWhen"} THEN 2 ELSE 1

Heights == SUBSET Int

LocalType == [depth : Nat, const : BOOLEAN, at : Heights]

OpenType == [node : Node, jump : Heights, end : Heights]

CtxType == [kind        : {"script", "function", "module"},
            scope_depth : Nat,
            locals      : Seq(LocalType),
            is_const    : [Slots -> BOOLEAN],
            heights     : Heights,
            open        : Seq(OpenType)]

LoopType == [context : Nat, start : Heights, scope_depth : Nat, local_count : Nat,
             outer_local_count : Nat, breaks : Heights, continues : Heights]

\* A place between two statements of a context: how deep it is in scopes, how
\* many locals and how many loops there are, and whether it is in a numeric for
\* of which no code is ever reached.
Mark == [depth : Nat, locals : Nat, loops : Nat, dead : BOOLEAN]

\* The heights with which execution may be where there are n locals.
Level(c, m, n) == IF m.dead THEN {} ELSE {Base(c) + n}

\* Of the locals, the first n are those outside all scopes deeper than depth.
Split(locals, depth, n) ==
  /\ n \in 0..Len(locals)
  /\ \A k \in 1..Len(locals) : locals[k].depth > depth <=> k > n

\* The record of a loop statement from m to n.
LoopOK(c, node, m, n, l) ==
  /\ l.outer_local_count = m.locals
  /\ l.breaks \subseteq Level(c, n, m.locals)
  /\ node = "loop" =>
       /\ l.scope_depth = m.depth /\ l.local_count = m.locals
       /\ l.start \union l.continues \subseteq Level(c, n, m.locals)
  /\ node = "for" =>
       /\ l.scope_depth = m.depth + 2 /\ l.local_count = m.locals + 3
       /\ Split(c.locals, m.depth + 1, m.locals + 2)
       /\ n.locals >= m.locals + 3
       /\ l.continues # {} => n.locals = m.locals + 3
       /\ l.start \subseteq Level(c, n, m.locals + 2)
       /\ l.continues \subseteq Level(c, n, m.locals + 3)
  /\ node \in {"range", "up", "down"} =>
       /\ l.scope_depth = m.depth + 1 /\ l.local_count = m.locals + 3
       /\ n.locals = m.locals + 3
       /\ l.start \union l.continues \subseteq Level(c, n, m.locals + 3)

\* The statement s, outside of which is m and inside of which n.
StatementOK(c, i, s, m, n, L) ==
  /\ n.depth = m.depth + Scopes(s.node)
  /\ n.dead = (m.dead \/ s.node \in {"up", "down"})
  /\ n.loops = m.loops + (IF s.node \in Loopy THEN 1 ELSE 0)
  /\ s.node \in Loopy => LoopOK(c, s.node, m, n, L[n.loops])
  /\ s.node = "if" => s.jump \subseteq Level(c, n, m.locals + 1)
  /\ s.node \in {"else", "catch"} => s.end \subseteq Level(c, n, m.locals)
  /\ s.node = "up" => s.jump = {}
  /\ s.node = "down" => s.end = {}
  /\ s.node = "try" => s.jump \subseteq Level(c, n, m.locals + 1)
  /\ s.node = "when" => n.locals > m.locals /\ s.end = {}
  /\ s.node \in {"is", "elseWhen"} =>
       \E w \in m.locals + 1..n.locals :
         /\ Split(c.locals, m.depth + 1, w)
         /\ s.node = "is" => s.jump \subseteq Level(c, n, w + 1)
         /\ s.end \subseteq Level(c, n, w)

\* The context c, the i-th, with the loops after lo up to hi, and a mark before
\* and after each of its open statements.
CtxOK(c, i, lo, hi, mk, L) ==
  /\ c \in CtxType
  /\ mk \in Seq(Mark) /\ Len(mk) = Len(c.open) + 1
  /\ mk[1].loops = lo
  /\ mk[Len(mk)].depth = c.scope_depth
  /\ mk[Len(mk)].locals = Len(c.locals)
  /\ mk[Len(mk)].loops = hi
  /\ Len(c.locals) <= LocalsMax
  /\ c.kind = "module" => c.locals = <<>>
  /\ c.heights \subseteq Level(c, mk[Len(mk)], Len(c.locals))
  /\ \A k \in 1..Len(c.locals) : c.locals[k].at \subseteq {k - 1}
  /\ \A j \in 1..Len(mk) : Split(c.locals, mk[j].depth, mk[j].locals)
  /\ \A j, k \in 1..Len(mk) : j <= k =>
       /\ mk[j].depth <= mk[k].depth /\ mk[j].locals <= mk[k].locals
       /\ mk[j].loops <= mk[k].loops /\ (mk[j].dead => mk[k].dead)
  /\ \A j \in 1..Len(c.open) : StatementOK(c, i, c.open[j], mk[j], mk[j + 1], L)
  /\ \A l \in lo + 1..hi :
       /\ L[l].context = i
       /\ \E j \in 1..Len(c.open) : c.open[j].node \in Loopy /\ mk[j + 1].loops = l

\* The loops of the i-th context come after the first below[i].
InvBy(below) ==
  /\ below \in Seq(Nat) /\ Len(below) = Len(ctxs) + 1
  /\ below[1] = 0 /\ below[Len(ctxs) + 1] = Len(loop_stack)
  /\ \A i, j \in 1..Len(ctxs) + 1 : i <= j => below[i] <= below[j]
  /\ \A i \in 1..Len(ctxs) :
       /\ ctxs[i].kind = "script" <=> i = 1
       /\ \E mk : CtxOK(ctxs[i], i, below[i], below[i + 1], mk, loop_stack)
  /\ \A l \in 1..Len(loop_stack) :
       LET i == loop_stack[l].context
       IN  i \in 1..Len(ctxs) /\ l \in below[i] + 1..below[i + 1]

Modules(cs) == {i \in 1..Len(cs) : cs[i].kind = "module"}

Inv ==
  /\ ctxs \in Seq(CtxType) /\ loop_stack \in Seq(LoopType)
  /\ Len(import_stack) = Cardinality(Modules(ctxs))
  /\ \E below : InvBy(below)

-----------------------------------------------------------------------------
(* Heights of forms of expression. *)

LEMMA ShiftFacts ==
  ASSUME NEW H \in Heights
  PROVE  /\ \A a \in Int : Shift(H, a) \in Heights
         /\ \A a, b \in Int : Shift(Shift(H, a), b) = Shift(H, a + b)
         /\ Shift(H, 0) = H
<1>1. \A a \in Int : Shift(H, a) \in Heights
  BY DEF Shift, Heights
<1>2. ASSUME NEW a \in Int, NEW b \in Int PROVE Shift(Shift(H, a), b) = Shift(H, a + b)
  <2>1. \A h \in H : h + a + b = h + (a + b)
    BY DEF Heights
  <2>. QED  BY <2>1 DEF Shift
<1>3. Shift(H, 0) = H
  <2>1. \A h \in H : h + 0 = h
    BY DEF Heights
  <2>. QED  BY <2>1 DEF Shift
<1>. QED  BY <1>1, <1>2, <1>3

LEMMA ShiftBack ==
  ASSUME NEW H \in Heights
  PROVE  Shift(Shift(H, 1), -1) = H /\ Shift(H, 1) \in Heights
<1>1. Shift(Shift(H, 1), -1) = Shift(H, 1 + (-1)) /\ Shift(H, 1) \in Heights /\ Shift(H, 0) = H
  BY ShiftFacts
<1>. QED  BY <1>1

\* However an expression is compiled, it leaves one value.
LEMMA FormFacts ==
  ASSUME NEW H \in Heights
  PROVE  /\ Value(H) = Shift(H, 1) /\ Popped(H) = Shift(H, -1)
         /\ Binary(H) = Shift(H, 1) /\ And(H) = Shift(H, 1) /\ Or(H) = Shift(H, 1)
         /\ Ternary(H) = Shift(H, 1) /\ Slice(H) = Shift(H, 1)
         /\ \A n \in 0..2 : Call(H, n) = Shift(H, 1) /\ BuildArray(H, n) = Shift(H, 1)
         /\ ForCondition(H) = Shift(H, 1)
         /\ Default(H) = H
         /\ Matches(H) = {Shift(H, 1)}
<1>. DEFINE V == Shift(H, 1)
<1>1. V \in Heights /\ Shift(V, -1) = H /\ Shift(Shift(V, 1), -1) = V
  BY ShiftFacts
<1>2. Binary(H) = V
  BY <1>1 DEF Binary, Value, Popped
<1>3. And(H) = V /\ Or(H) = V /\ Ternary(H) = V
  BY <1>1 DEF And, Or, Ternary, Value, Popped
<1>4. Slice(H) = V
  BY ShiftFacts DEF Slice
<1>5. ASSUME NEW n \in 0..2 PROVE Call(H, n) = V /\ BuildArray(H, n) = V
  <2>1. 1 + n \in Int /\ - n \in Int /\ n \in Int /\ 1 - n \in Int
        /\ 1 + n + (- n) = 1 /\ n + (1 - n) = 1
    OBVIOUS
  <2>2. Shift(Shift(H, 1 + n), - n) = Shift(H, 1 + n + (- n))
        /\ Shift(Shift(H, n), 1 - n) = Shift(H, n + (1 - n))
    BY <2>1, ShiftFacts
  <2>. QED  BY <2>1, <2>2 DEF Call, BuildArray
<1>6. ForCondition(H) = V
  <2>1. Call(V, 1) = Shift(V, 1)
    <3>1. Shift(Shift(V, 2), -1) = Shift(V, 1)
      BY <1>1, ShiftFacts
    <3>. QED  BY <3>1 DEF Call
  <2>. QED  BY <1>1, <2>1 DEF ForCondition, Value, Popped
<1>7. Default(H) = H
  BY <1>1, <1>2 DEF Default, Value, Popped
<1>8. Matches(H) = {V}
  <2>1. Binary(Popped(V)) = V
    BY <1>1, <1>2 DEF Popped
  <2>. QED  BY <1>2, <2>1 DEF Matches
<1>. QED  BY <1>2, <1>3, <1>4, <1>5, <1>6, <1>7, <1>8 DEF Value, Popped

LEMMA LevelShift ==
  ASSUME NEW c, NEW m, NEW n \in Int, NEW a \in Int, NEW H, H \subseteq Level(c, m, n)
  PROVE  Shift(H, a) \subseteq Level(c, m, n + a)
<1>1. Base(c) \in Int
  BY DEF Base
<1>2. Base(c) + n + a = Base(c) + (n + a)
  BY <1>1
<1>. QED  BY <1>2 DEF Shift, Level

LEMMA LevelType ==
  ASSUME NEW c, NEW m, NEW n \in Int
  PROVE  Level(c, m, n) \in Heights
<1>1. Base(c) \in Int
  BY DEF Base
<1>2. Base(c) + n \in Int
  BY <1>1
<1>. QED  BY <1>2 DEF Level, Heights

-----------------------------------------------------------------------------
(* Contexts: what emitting code and declaring locals makes of c. *)

With(c, depth, locals, heights, open) ==
  [c EXCEPT !.scope_depth = depth, !.locals = locals, !.heights = heights, !.open = open]

LEMMA WithFacts ==
  ASSUME NEW c \in CtxType
  PROVE  /\ c = With(c, c.scope_depth, c.locals, c.heights, c.open)
         /\ \A d, l, h, o :
              LET w == With(c, d, l, h, o) IN
              /\ w.kind = c.kind /\ w.scope_depth = d /\ w.locals = l /\ w.is_const = c.is_const
              /\ w.heights = h /\ w.open = o /\ Base(w) = Base(c)
              /\ d \in Nat /\ l \in Seq(LocalType) /\ h \in Heights /\ o \in Seq(OpenType) =>
                   w \in CtxType
              /\ \A d2, l2, h2, o2 : With(w, d2, l2, h2, o2) = With(c, d2, l2, h2, o2)
<1>1. c = With(c, c.scope_depth, c.locals, c.heights, c.open)
  BY DEF With, CtxType
<1>2. ASSUME NEW d, NEW l, NEW h, NEW o
      PROVE  LET w == With(c, d, l, h, o) IN
             /\ w.kind = c.kind /\ w.scope_depth = d /\ w.locals = l /\ w.is_const = c.is_const
             /\ w.heights = h /\ w.open = o /\ Base(w) = Base(c)
             /\ d \in Nat /\ l \in Seq(LocalType) /\ h \in Heights /\ o \in Seq(OpenType) =>
                  w \in CtxType
             /\ \A d2, l2, h2, o2 : With(w, d2, l2, h2, o2) = With(c, d2, l2, h2, o2)
  BY ZenonT(60) DEF With, CtxType, Base
<1>. QED  BY <1>1, <1>2

LEMMA WithType ==
  ASSUME NEW c \in CtxType, NEW d \in Nat, NEW l \in Seq(LocalType), NEW h \in Heights,
         NEW o \in Seq(OpenType)
  PROVE  LET w == With(c, d, l, h, o) IN
         /\ w \in CtxType /\ w.kind = c.kind /\ w.scope_depth = d /\ w.locals = l
         /\ w.heights = h /\ w.open = o /\ Base(w) = Base(c)
  BY WithFacts

\* The operators of the model in this form.
LEMMA WithSteps ==
  ASSUME NEW c \in CtxType, NEW d, NEW l, NEW h, NEW o
  PROVE  LET w == With(c, d, l, h, o) IN
         /\ \A n : Emit(w, n) = With(c, d, l, Shift(h, n), o)
         /\ Dead(w) = With(c, d, l, {}, o)
         /\ \A j : Patch(w, j) = With(c, d, l, h \union j, o) /\ Only(w, j) = With(c, d, l, j, o)
         /\ addLocal(w) =
              With(c, d, Append(l, [depth |-> d, const |-> FALSE, at |-> Popped(h)]), h, o)
         /\ beginScope(w) = With(c, d + 1, l, h, o)
         /\ \A n, j : Open(w, n, j) =
              With(c, d, l, h, Append(o, [node |-> n, jump |-> j, end |-> {}]))
         /\ Close(w) = With(c, d, l, h, Front(o))
         /\ \A n, j, e : Reopen(w, n, j, e) =
              With(c, d, l, h, Append(Front(o), [node |-> n, jump |-> j, end |-> e]))
  BY ZenonT(60) DEF With, CtxType, Emit, Dead, Patch, Only, addLocal, Local, beginScope, Open, Close, Reopen

\* A context in which something was pushed and popped again is what it was.
LEMMA EmitFacts ==
  ASSUME NEW c \in CtxType
  PROVE  /\ \A n \in Int : Emit(c, n) \in CtxType /\ Emit(c, n).heights = Shift(c.heights, n)
         /\ \A a, b \in Int : Emit(Emit(c, a), b) = Emit(c, a + b)
         /\ Emit(c, 0) = c
<1>1. c.heights \in Heights
  BY DEF CtxType
<1>2. ASSUME NEW n \in Int PROVE Emit(c, n) \in CtxType /\ Emit(c, n).heights = Shift(c.heights, n)
  BY <1>1, ShiftFacts DEF CtxType, Emit
<1>3. ASSUME NEW a \in Int, NEW b \in Int PROVE Emit(Emit(c, a), b) = Emit(c, a + b)
  <2>1. Shift(Shift(c.heights, a), b) = Shift(c.heights, a + b)
    BY <1>1, ShiftFacts
  <2>2. Emit(c, a).heights = Shift(c.heights, a)
    BY <1>2
  <2>. QED  BY <2>1, <2>2 DEF Emit, CtxType
<1>4. Emit(c, 0) = c
  <2>1. Shift(c.heights, 0) = c.heights
    BY <1>1, ShiftFacts
  <2>. QED  BY <2>1 DEF Emit, CtxType
<1>. QED  BY <1>2, <1>3, <1>4

LEMMA ExprFacts ==
  ASSUME NEW c \in CtxType
  PROVE  compileExpr(c) = {Emit(c, 1)} /\ Emit(c, 1) \in CtxType
<1>1. c.heights \in Heights
  BY DEF CtxType
<1>2. {Value(c.heights), Binary(c.heights), And(c.heights), Or(c.heights),
             Ternary(c.heights), Slice(c.heights)}
            \union {Call(c.heights, n) : n \in 0 .. 2}
            \union {BuildArray(c.heights, n) : n \in 0 .. 2} = {Shift(c.heights, 1)}
  BY <1>1, FormFacts
<1>3. compileExpr(c) = {Emit(c, 1)}
  BY <1>2 DEF compileExpr, Emit
<1>4. Emit(c, 1) \in CtxType
  BY EmitFacts
<1>. QED  BY <1>3, <1>4

-----------------------------------------------------------------------------
(* Scopes. *)

LEMMA DepthType ==
  ASSUME NEW l \in Seq(LocalType), NEW k \in 1..Len(l)
  PROVE  l[k] \in LocalType /\ l[k].depth \in Nat
<1>1. l[k] \in LocalType
  BY ElementOfSeq
<1>. QED  BY <1>1 DEF LocalType

LEMMA InnerFacts ==
  ASSUME NEW c \in CtxType, NEW depth, NEW n, Split(c.locals, depth, n)
  PROVE  Inner(c, depth) = Len(c.locals) - n
<1>. DEFINE k == Len(c.locals)
<1>1. k \in Nat /\ DOMAIN c.locals = 1..k /\ n \in 0..k
  BY LenProperties DEF CtxType, Split
<1>2. {i \in DOMAIN c.locals : c.locals[i].depth > depth} = n + 1..k
  BY <1>1 DEF Split
<1>. HIDE DEF k
<1>3. Cardinality(n + 1..k) = k - n
  <2>1. n + 1 \in Int /\ k \in Int
    BY <1>1
  <2>2. Cardinality(n + 1..k) = IF n + 1 > k THEN 0 ELSE k - (n + 1) + 1
    BY <2>1, FS_Interval
  <2>. QED  BY <1>1, <2>2
<1>. QED  BY <1>2, <1>3 DEF Inner, k

LEMMA EndScopeFacts ==
  ASSUME NEW c \in CtxType, NEW n, Split(c.locals, c.scope_depth - 1, n)
  PROVE  endScope(c) = With(c, c.scope_depth - 1, SubSeq(c.locals, 1, n),
                            Shift(c.heights, n - Len(c.locals)), c.open)
<1>. DEFINE k == Len(c.locals)
<1>1. k \in Nat /\ n \in 0..k /\ Inner(c, c.scope_depth - 1) = k - n
  BY InnerFacts, LenProperties DEF CtxType, Split
<1>2. k - (k - n) = n /\ - (k - n) = n - k
  BY <1>1
<1>3. endScope(c) = [Emit(c, - (k - n)) EXCEPT !.scope_depth = c.scope_depth - 1,
                                             !.locals = SubSeq(@, 1, Len(@) - (k - n))]
  BY <1>1 DEF endScope
<1>4. Emit(c, - (k - n)) = [c EXCEPT !.heights = Shift(c.heights, n - k)]
  BY <1>2 DEF Emit
<1>5. Len([c EXCEPT !.heights = Shift(c.heights, n - k)].locals) - (k - n) = n
  BY <1>2 DEF CtxType
<1>. HIDE DEF k
<1>6. [[c EXCEPT !.heights = Shift(c.heights, n - k)] EXCEPT
         !.scope_depth = c.scope_depth - 1, !.locals = SubSeq(@, 1, n)]
      = With(c, c.scope_depth - 1, SubSeq(c.locals, 1, n), Shift(c.heights, n - k), c.open)
  BY DEF With, CtxType
<1>. QED  BY <1>3, <1>4, <1>5, <1>6 DEF k

LEMMA SplitCut ==
  ASSUME NEW l \in Seq(LocalType), NEW d, NEW n, Split(l, d, n), NEW k \in n..Len(l)
  PROVE  Split(SubSeq(l, 1, k), d, n)
<1>1. n \in 0..Len(l) /\ Len(l) \in Nat
  BY LenProperties DEF Split
<1>2. k \in 0..Len(l) /\ n \in 0..k
  BY <1>1
<1>3. Len(SubSeq(l, 1, k)) = k /\ \A i \in 1..k : SubSeq(l, 1, k)[i] = l[i]
  BY <1>2, FirstPart
<1>. QED  BY <1>1, <1>2, <1>3 DEF Split

LEMMA CutCut ==
  ASSUME NEW l \in Seq(LocalType), NEW a \in 0..Len(l), NEW b \in 0..a
  PROVE  SubSeq(SubSeq(l, 1, a), 1, b) = SubSeq(l, 1, b)
<1>. DEFINE s == SubSeq(l, 1, a)
            t == SubSeq(s, 1, b)
            u == SubSeq(l, 1, b)
<1>1. s \in Seq(LocalType) /\ Len(s) = a /\ \A i \in 1..a : s[i] = l[i]
  BY FirstPart
<1>2. b \in 0..Len(l) /\ Len(l) \in Nat
  BY LenProperties
<1>3. u \in Seq(LocalType) /\ Len(u) = b /\ \A i \in 1..b : u[i] = l[i]
  BY <1>2, FirstPart
<1>. HIDE DEF s, u
<1>4. t \in Seq(LocalType) /\ Len(t) = b /\ \A i \in 1..b : t[i] = s[i]
  BY <1>1, FirstPart
<1>. HIDE DEF t
<1>5. \A i \in 1..b : t[i] = u[i]
  BY <1>1, <1>2, <1>3, <1>4
<1>6. t = u
  BY <1>3, <1>4, <1>5, SeqEqual
<1>. QED  BY <1>6 DEF s, t, u

\* l2 is l and more locals, of scopes deeper than d and none deeper than e.
Grows(l, l2, d, e) ==
  /\ l2 \in Seq(LocalType) /\ Len(l) <= Len(l2) /\ Len(l2) <= LocalsMax
  /\ \A k \in 1..Len(l) : l2[k] = l[k]
  /\ \A k \in Len(l) + 1..Len(l2) :
       l2[k].depth > d /\ l2[k].depth <= e /\ l2[k].at \subseteq {k - 1}

LEMMA SplitMore ==
  ASSUME NEW l \in Seq(LocalType), NEW l2, NEW d \in Int, NEW e \in Int, Grows(l, l2, d, e),
         NEW x \in Int, x <= d, NEW n, Split(l, x, n)
  PROVE  Split(l2, x, n)
<1>1. Len(l) \in Nat /\ Len(l2) \in Nat /\ n \in 0..Len(l) /\ Len(l) <= Len(l2)
  BY LenProperties DEF Grows, Split
<1>2. ASSUME NEW k \in 1..Len(l2) PROVE l2[k].depth > x <=> k > n
  <2>1. CASE k \in 1..Len(l)
    BY <2>1 DEF Grows, Split
  <2>2. CASE k \in Len(l) + 1..Len(l2)
    <3>1. l2[k].depth > d
      BY <2>2 DEF Grows
    <3>2. l2[k].depth \in Nat
      BY DepthType DEF Grows
    <3>. QED  BY <1>1, <2>2, <3>1, <3>2
  <2>. QED  BY <1>1, <2>1, <2>2
<1>. QED  BY <1>1, <1>2 DEF Split

LEMMA SplitEnd ==
  ASSUME NEW l \in Seq(LocalType), NEW l2, NEW d \in Int, NEW e \in Int, Grows(l, l2, d, e),
         Split(l, d, Len(l)), d <= e
  PROVE  Split(l2, e, Len(l2)) /\ Split(l2, d, Len(l))
<1>1. Len(l) \in Nat /\ Len(l2) \in Nat /\ Len(l) <= Len(l2)
  BY LenProperties DEF Grows
<1>2. ASSUME NEW k \in 1..Len(l2) PROVE ~ (l2[k].depth > e)
  <2>1. CASE k \in 1..Len(l)
    <3>1. l2[k] = l[k] /\ ~ (l[k].depth > d) /\ l[k].depth \in Nat
      BY <2>1, <1>1, DepthType DEF Grows, Split
    <3>. QED  BY <3>1
  <2>2. CASE k \in Len(l) + 1..Len(l2)
    <3>1. l2[k].depth <= e /\ l2[k].depth \in Nat
      BY <2>2, DepthType DEF Grows
    <3>. QED  BY <3>1
  <2>. QED  BY <1>1, <2>1, <2>2
<1>. QED  BY <1>1, <1>2, SplitMore DEF Split

-----------------------------------------------------------------------------
(* Statements. *)

LEMMA StatementSame ==
  ASSUME NEW c, NEW d, d.kind = c.kind, NEW i, NEW s, NEW m \in Mark, NEW n \in Mark,
         NEW L, NEW L2,
         StatementOK(c, i, s, m, n, L),
         s.node \in Loopy => L2[n.loops] = L[n.loops],
         \A w : /\ m.depth + 1 < n.depth /\ w <= n.locals
                /\ Split(c.locals, m.depth + 1, w)
                => Split(d.locals, m.depth + 1, w)
  PROVE  StatementOK(d, i, s, m, n, L2)
<1>1. \A k : Level(d, n, k) = Level(c, n, k)
  BY DEF Level, Base
<1>2. n.depth = m.depth + Scopes(s.node) /\ m.depth \in Nat /\ m.locals \in Nat /\ n.locals \in Nat
  BY DEF StatementOK, Mark
<1>3. ASSUME s.node \in Loopy PROVE LoopOK(d, s.node, m, n, L2[n.loops])
  <2>. DEFINE l == L[n.loops]
  <2>1. L2[n.loops] = l /\ LoopOK(c, s.node, m, n, l)
    BY <1>3 DEF StatementOK
  <2>. HIDE DEF l
  <2>2. s.node = "for" => Split(d.locals, m.depth + 1, m.locals + 2)
    <3>1. SUFFICES ASSUME s.node = "for" PROVE Split(d.locals, m.depth + 1, m.locals + 2)
      OBVIOUS
    <3>2. n.depth = m.depth + 2
      BY <1>2, <3>1 DEF Scopes
    <3>3. Split(c.locals, m.depth + 1, m.locals + 2) /\ n.locals >= m.locals + 3
      BY <2>1, <3>1 DEF LoopOK
    <3>4. m.depth + 1 < n.depth /\ m.locals + 2 <= n.locals
      BY <1>2, <3>2, <3>3
    <3>. QED  BY <3>3, <3>4
  <2>. QED  BY <1>1, <2>1, <2>2 DEF LoopOK
<1>4. ASSUME s.node \in {"is", "elseWhen"}
      PROVE  \E w \in m.locals + 1..n.locals :
               /\ Split(d.locals, m.depth + 1, w)
               /\ s.node = "is" => s.jump \subseteq Level(d, n, w + 1)
               /\ s.end \subseteq Level(d, n, w)
  <2>1. n.depth = m.depth + 2
    BY <1>2, <1>4 DEF Scopes
  <2>2. PICK w \in m.locals + 1..n.locals :
               /\ Split(c.locals, m.depth + 1, w)
               /\ s.node = "is" => s.jump \subseteq Level(c, n, w + 1)
               /\ s.end \subseteq Level(c, n, w)
    BY <1>4 DEF StatementOK
  <2>3. m.depth + 1 < n.depth /\ w <= n.locals
    BY <1>2, <2>1
  <2>4. Split(d.locals, m.depth + 1, w)
    BY <2>2, <2>3
  <2>. QED  BY <1>1, <2>2, <2>4
<1>. QED  BY <1>1, <1>2, <1>3, <1>4 DEF StatementOK

-----------------------------------------------------------------------------
(* What keeps a context well formed. *)

LEMMA CtxFacts ==
  ASSUME NEW c, NEW i, NEW lo, NEW hi, NEW mk, NEW L, CtxOK(c, i, lo, hi, mk, L)
  PROVE  /\ c \in CtxType /\ c.locals \in Seq(LocalType) /\ c.open \in Seq(OpenType)
         /\ c.heights \in Heights /\ c.scope_depth \in Nat /\ Base(c) \in Int
         /\ c.is_const \in [Slots -> BOOLEAN]
         /\ Len(c.locals) \in Nat /\ Len(c.open) \in Nat
         /\ mk \in Seq(Mark) /\ Len(mk) = Len(c.open) + 1
         /\ \A j \in 1..Len(c.open) + 1 :
              /\ mk[j] \in Mark /\ mk[j].depth \in Nat /\ mk[j].locals \in Nat
              /\ mk[j].loops \in Nat /\ mk[j].dead \in BOOLEAN
              /\ mk[j].depth <= c.scope_depth /\ mk[j].locals <= Len(c.locals)
              /\ mk[j].loops <= hi /\ lo <= mk[j].loops
         /\ \A j \in 1..Len(c.open) :
              c.open[j] \in OpenType /\ StatementOK(c, i, c.open[j], mk[j], mk[j + 1], L)
         /\ mk[1].loops = lo
         /\ mk[Len(c.open) + 1].depth = c.scope_depth
         /\ mk[Len(c.open) + 1].locals = Len(c.locals)
         /\ mk[Len(c.open) + 1].loops = hi
         /\ lo \in Nat /\ hi \in Nat /\ lo <= hi
         /\ c.heights \subseteq Level(c, mk[Len(c.open) + 1], Len(c.locals))
         /\ Split(c.locals, c.scope_depth, Len(c.locals))
         /\ Len(c.locals) <= LocalsMax
<1>. DEFINE k == Len(c.open) + 1
<1>1. /\ c \in CtxType /\ mk \in Seq(Mark) /\ Len(mk) = k
      /\ mk[1].loops = lo /\ mk[k].depth = c.scope_depth
      /\ mk[k].locals = Len(c.locals) /\ mk[k].loops = hi
      /\ c.heights \subseteq Level(c, mk[k], Len(c.locals))
      /\ Len(c.locals) <= LocalsMax
  BY DEF CtxOK
<1>2. c.locals \in Seq(LocalType) /\ c.open \in Seq(OpenType) /\ c.heights \in Heights
      /\ c.scope_depth \in Nat /\ c.is_const \in [Slots -> BOOLEAN]
  BY <1>1 DEF CtxType
<1>3. Len(c.locals) \in Nat /\ Len(c.open) \in Nat /\ k \in Nat /\ 1 \in 1..k /\ k \in 1..k
  BY <1>2, LenProperties
<1>4. \A j \in 1..Len(c.open) :
         c.open[j] \in OpenType /\ StatementOK(c, i, c.open[j], mk[j], mk[j + 1], L)
  BY <1>2, ElementOfSeq DEF CtxOK
<1>5. \A j \in 1..k : mk[j] \in Mark
  BY <1>1, ElementOfSeq
<1>6. \A j \in 1..k : /\ mk[j].depth \in Nat /\ mk[j].locals \in Nat
                      /\ mk[j].loops \in Nat /\ mk[j].dead \in BOOLEAN
  BY <1>5 DEF Mark
<1>7. \A j, h \in 1..k : j <= h =>
        /\ mk[j].depth <= mk[h].depth /\ mk[j].locals <= mk[h].locals
        /\ mk[j].loops <= mk[h].loops
  BY <1>1 DEF CtxOK
<1>8. \A j \in 1..k : /\ mk[j].depth <= c.scope_depth /\ mk[j].locals <= Len(c.locals)
                      /\ mk[j].loops <= hi /\ lo <= mk[j].loops
  BY <1>1, <1>3, <1>7
<1>9. Split(c.locals, c.scope_depth, Len(c.locals))
  BY <1>1, <1>3 DEF CtxOK
<1>10. lo \in Nat /\ hi \in Nat /\ lo <= hi
  BY <1>1, <1>3, <1>6, <1>8
<1>11. Base(c) \in Int
  BY DEF Base
<1>. HIDE DEF CtxOK
<1>. QED  BY <1>1, <1>2, <1>3, <1>4, <1>5, <1>6, <1>8, <1>9, <1>10, <1>11

\* The steps of CtxOK that all ways to change a context share.
LEMMA SlotsRight ==
  ASSUME NEW c, NEW i, NEW lo, NEW hi, NEW mk, NEW L, CtxOK(c, i, lo, hi, mk, L),
         NEW l, NEW d, NEW e, Grows(c.locals, l, d, e)
  PROVE  \A k \in 1..Len(l) : l[k].at \subseteq {k - 1}
<1>1. Len(c.locals) \in Nat /\ Len(l) \in Nat
  BY CtxFacts, LenProperties DEF Grows
<1>2. \A k \in 1..Len(c.locals) : c.locals[k].at \subseteq {k - 1}
  BY DEF CtxOK
<1>. QED  BY <1>1, <1>2 DEF Grows

\* A statement begins.
LEMMA OpenOK ==
  ASSUME NEW c, NEW i, NEW lo, NEW hi, NEW mk, NEW L, CtxOK(c, i, lo, hi, mk, L),
         NEW s \in OpenType, NEW n \in Mark, NEW l, NEW h \in Heights, NEW L2,
         Grows(c.locals, l, c.scope_depth, n.depth), n.locals = Len(l),
         c.kind = "module" => l = <<>>,
         h \subseteq Level(c, n, Len(l)),
         StatementOK(With(c, n.depth, l, h, Append(c.open, s)), i, s, mk[Len(c.open) + 1], n, L2),
         \A j \in lo + 1..hi : L2[j] = L[j],
         s.node \in Loopy => L2[hi + 1].context = i
  PROVE  CtxOK(With(c, n.depth, l, h, Append(c.open, s)), i, lo, n.loops, Append(mk, n), L2)
<1>. DEFINE k == Len(c.open)
            o == Append(c.open, s)
            w == With(c, n.depth, l, h, o)
            ms == Append(mk, n)
            m == mk[k + 1]
<1>1. /\ c \in CtxType /\ c.locals \in Seq(LocalType) /\ c.open \in Seq(OpenType)
      /\ c.scope_depth \in Nat /\ Len(c.locals) \in Nat /\ k \in Nat
      /\ mk \in Seq(Mark) /\ Len(mk) = k + 1
      /\ mk[1].loops = lo /\ m.depth = c.scope_depth /\ m.locals = Len(c.locals)
      /\ m.loops = hi /\ lo \in Nat /\ hi \in Nat /\ lo <= hi
      /\ Split(c.locals, c.scope_depth, Len(c.locals))
  BY CtxFacts
<1>2. \A j \in 1..k + 1 :
         /\ mk[j] \in Mark /\ mk[j].depth \in Nat /\ mk[j].locals \in Nat /\ mk[j].loops \in Nat
         /\ mk[j].depth <= c.scope_depth /\ mk[j].locals <= Len(c.locals) /\ mk[j].loops <= hi
         /\ mk[j].dead \in BOOLEAN
  BY CtxFacts
<1>3. /\ o \in Seq(OpenType) /\ Len(o) = k + 1 /\ o[k + 1] = s
      /\ \A j \in 1..k : o[j] = c.open[j]
  BY <1>1, AppendFacts
<1>4. /\ ms \in Seq(Mark) /\ Len(ms) = k + 2 /\ ms[k + 2] = n
      /\ \A j \in 1..k + 1 : ms[j] = mk[j]
  BY <1>1, AppendFacts
<1>5. l \in Seq(LocalType) /\ Len(l) \in Nat /\ Len(c.locals) <= Len(l) /\ Len(l) <= LocalsMax
  BY LenProperties DEF Grows
<1>6. n.depth \in Nat /\ n.loops \in Nat /\ n.dead \in BOOLEAN
  BY DEF Mark
<1>7. /\ w \in CtxType /\ w.kind = c.kind /\ w.scope_depth = n.depth /\ w.locals = l
      /\ w.heights = h /\ w.open = o /\ Base(w) = Base(c)
  <2>1. /\ n.depth \in Nat /\ l \in Seq(LocalType) /\ h \in Heights /\ o \in Seq(OpenType)
        /\ c \in CtxType
    BY <1>1, <1>3, <1>5, <1>6
  <2>. HIDE DEF o, ms, m, k
  <2>. QED  BY <2>1, WithType
<1>8. /\ n.depth = m.depth + Scopes(s.node)
      /\ n.dead = (m.dead \/ s.node \in {"up", "down"})
      /\ n.loops = m.loops + (IF s.node \in Loopy THEN 1 ELSE 0)
      /\ Scopes(s.node) \in {1, 2}
  BY DEF StatementOK, Scopes
<1>. HIDE DEF o, ms, m, k
<1>9. \A j \in 1..Len(ms) : Split(l, ms[j].depth, ms[j].locals)
  <2>1. ASSUME NEW j \in 1..k + 1 PROVE Split(l, mk[j].depth, mk[j].locals)
    <3>1. Split(c.locals, mk[j].depth, mk[j].locals)
      BY <1>1, <2>1 DEF CtxOK
    <3>. QED  BY <1>1, <1>2, <1>6, <3>1, SplitMore
  <2>2. Split(l, n.depth, n.locals)
    <3>1. c.scope_depth <= n.depth
      BY <1>1, <1>6, <1>8
    <3>. QED  BY <1>1, <1>6, <3>1, SplitEnd
  <2>. QED  BY <1>1, <1>4, <2>1, <2>2
<1>10. \A j, q \in 1..Len(ms) : j <= q =>
         /\ ms[j].depth <= ms[q].depth /\ ms[j].locals <= ms[q].locals
         /\ ms[j].loops <= ms[q].loops /\ (ms[j].dead => ms[q].dead)
  <2>1. ASSUME NEW j \in 1..k + 1, NEW q \in 1..k + 1, j <= q
        PROVE  /\ mk[j].depth <= mk[q].depth /\ mk[j].locals <= mk[q].locals
               /\ mk[j].loops <= mk[q].loops /\ (mk[j].dead => mk[q].dead)
    BY <1>1, <2>1 DEF CtxOK
  <2>2. ASSUME NEW j \in 1..k + 1
        PROVE  /\ mk[j].depth <= n.depth /\ mk[j].locals <= n.locals
               /\ mk[j].loops <= n.loops /\ (mk[j].dead => n.dead)
    <3>1. k + 1 \in 1..k + 1 /\ j <= k + 1
      BY <1>1
    <3>2. mk[j].dead => m.dead
      BY <2>1, <3>1 DEF m
    <3>3. m.depth \in Nat /\ m.loops \in Nat
      BY <1>1
    <3>4. mk[j].dead => n.dead
      BY <1>8, <3>2
    <3>5. m.depth <= n.depth /\ m.loops <= n.loops
      BY <1>6, <1>8, <3>3
    <3>6. mk[j].locals <= n.locals
      BY <1>1, <1>2, <1>5
    <3>7. /\ mk[j].depth <= m.depth /\ mk[j].loops <= m.loops
          /\ mk[j].depth \in Nat /\ mk[j].loops \in Nat
      BY <1>1, <1>2
    <3>. QED  BY SMTT(30), <1>6, <3>3, <3>4, <3>5, <3>6, <3>7
  <2>3. n.depth <= n.depth /\ n.locals <= n.locals /\ n.loops <= n.loops
    BY <1>5, <1>6
  <2>4. TAKE j, q \in 1..Len(ms)
  <2>5. HAVE j <= q
  <2>6. /\ j \in 1..k + 1 \/ j = k + 2
        /\ q \in 1..k + 1 \/ q = k + 2
        /\ j = k + 2 => q = k + 2
    BY <1>1, <1>4, <2>5
  <2>. QED  BY <1>4, <2>1, <2>2, <2>3, <2>5, <2>6
<1>11. ASSUME NEW j \in 1..Len(o) PROVE StatementOK(w, i, o[j], ms[j], ms[j + 1], L2)
  <2>1. CASE j = k + 1
    <3>1. ms[j] = m /\ ms[j + 1] = n /\ o[j] = s
      BY <1>1, <1>3, <1>4, <2>1 DEF m
    <3>. QED  BY <3>1 DEF w, o, m, k
  <2>2. CASE j \in 1..k
    <3>1. j \in 1..k + 1 /\ j + 1 \in 1..k + 1
      BY <1>1, <2>2
    <3>2. /\ StatementOK(c, i, c.open[j], mk[j], mk[j + 1], L)
          /\ mk[j] \in Mark /\ mk[j + 1] \in Mark
      BY <1>2, <2>2, <3>1, CtxFacts DEF k
    <3>. DEFINE a == mk[j]
                b == mk[j + 1]
                t == c.open[j]
    <3>3. t.node \in Loopy => L2[b.loops] = L[b.loops]
      <4>1. SUFFICES ASSUME t.node \in Loopy PROVE L2[b.loops] = L[b.loops]
        OBVIOUS
      <4>2. b.loops = a.loops + 1 /\ a.loops \in Nat /\ b.loops <= hi
        BY <1>2, <3>1, <3>2, <4>1 DEF StatementOK
      <4>3. lo <= a.loops
        BY <1>1, <3>1, CtxFacts DEF k
      <4>4. b.loops \in lo + 1..hi
        <5>1. lo \in Nat /\ hi \in Nat
          BY <1>1
        <5>. HIDE DEF a, b
        <5>. QED  BY <4>2, <4>3, <5>1
      <4>. QED  BY <4>4
    <3>4. ASSUME NEW v, a.depth + 1 < b.depth, Split(c.locals, a.depth + 1, v)
          PROVE  Split(l, a.depth + 1, v)
      <4>1. a.depth + 1 \in Int /\ a.depth + 1 <= c.scope_depth
        BY SMTT(30), <1>1, <1>2, <3>1, <3>4
      <4>. QED  BY SMTT(30), <1>1, <1>6, <3>4, <4>1, SplitMore
    <3>. HIDE DEF a, b, t, w
    <3>5. StatementOK(w, i, t, a, b, L2)
      BY <1>7, <3>2, <3>3, <3>4, StatementSame DEF a, b, t
    <3>. QED  BY <1>3, <1>4, <2>2, <3>1, <3>5 DEF a, b, t
  <2>. QED  BY <1>1, <1>3, <2>1, <2>2
<1>12. ASSUME NEW q \in lo + 1..n.loops
       PROVE  /\ L2[q].context = i
              /\ \E j \in 1..Len(o) : o[j].node \in Loopy /\ ms[j + 1].loops = q
  <2>1. CASE q \in lo + 1..hi
    <3>1. /\ L[q].context = i
          /\ \E j \in 1..k : c.open[j].node \in Loopy /\ mk[j + 1].loops = q
      BY <2>1 DEF CtxOK, k
    <3>2. PICK j \in 1..k : c.open[j].node \in Loopy /\ mk[j + 1].loops = q
      BY <3>1
    <3>3. j \in 1..Len(o) /\ j + 1 \in 1..k + 1
      BY <1>1, <1>3
    <3>. QED  BY <1>3, <1>4, <2>1, <3>1, <3>2, <3>3
  <2>2. CASE q > hi
    <3>1. s.node \in Loopy /\ q = hi + 1 /\ n.loops = q
      BY <1>1, <1>6, <1>8, <2>2
    <3>2. k + 1 \in 1..Len(o) /\ (k + 1) + 1 = k + 2
      BY <1>1, <1>3
    <3>. QED  BY <1>3, <1>4, <3>1, <3>2
  <2>. QED  BY <1>1, <1>6, <2>1, <2>2
<1>13. ms[1].loops = lo /\ ms[Len(ms)] = n
  BY <1>1, <1>4
<1>14. \A j \in 1..Len(l) : l[j].at \subseteq {j - 1}
  BY SlotsRight
<1>15. h \subseteq Level(w, n, Len(l))
  BY <1>7 DEF Level
<1>16. Len(ms) = Len(o) + 1
  BY <1>1, <1>3, <1>4
<1>. HIDE DEF w
<1>17. CtxOK(w, i, lo, n.loops, ms, L2)
  BY <1>4, <1>5, <1>7, <1>9, <1>10, <1>11, <1>12, <1>13, <1>14, <1>15, <1>16 DEF CtxOK
<1>. QED  BY <1>17 DEF w, ms, o

\* A statement ends, and with it what was declared in it.
LEMMA CloseOK ==
  ASSUME NEW c, NEW i, NEW lo, NEW hi, NEW mk, NEW L, CtxOK(c, i, lo, hi, mk, L),
         c.open # <<>>, NEW h \in Heights, NEW L2,
         h \subseteq Level(c, mk[Len(c.open)], mk[Len(c.open)].locals),
         \A j \in lo + 1..mk[Len(c.open)].loops : L2[j] = L[j]
  PROVE  CtxOK(With(c, mk[Len(c.open)].depth, SubSeq(c.locals, 1, mk[Len(c.open)].locals), h,
                    Front(c.open)),
               i, lo, mk[Len(c.open)].loops, Front(mk), L2)
<1>. DEFINE k == Len(c.open)
            o == Front(c.open)
            m == mk[k]
            l == SubSeq(c.locals, 1, m.locals)
            w == With(c, m.depth, l, h, o)
            ms == Front(mk)
<1>1. /\ c \in CtxType /\ c.locals \in Seq(LocalType) /\ c.open \in Seq(OpenType)
      /\ Len(c.locals) \in Nat /\ mk \in Seq(Mark) /\ Len(mk) = k + 1
      /\ mk[1].loops = lo /\ lo \in Nat /\ hi \in Nat /\ mk[k + 1].loops = hi
      /\ Len(c.locals) <= LocalsMax
  BY CtxFacts
<1>2. \A j \in 1..k + 1 :
         /\ mk[j] \in Mark /\ mk[j].depth \in Nat /\ mk[j].locals \in Nat /\ mk[j].loops \in Nat
         /\ mk[j].locals <= Len(c.locals) /\ mk[j].loops <= hi /\ lo <= mk[j].loops
  BY CtxFacts
<1>3. /\ k \in Nat \ {0} /\ o \in Seq(OpenType) /\ Len(o) = k - 1
      /\ \A j \in 1..k - 1 : o[j] = c.open[j]
  BY <1>1, FrontFacts
<1>4. /\ ms \in Seq(Mark) /\ Len(ms) = k /\ \A j \in 1..k : ms[j] = mk[j]
  <2>1. mk # <<>>
    BY <1>1, <1>3, EmptySeq
  <2>2. /\ ms \in Seq(Mark) /\ Len(ms) = Len(mk) - 1
        /\ \A j \in 1..Len(mk) - 1 : ms[j] = mk[j]
    <3>. HIDE DEF k
    <3>. QED  BY <1>1, <2>1, FrontFacts
  <2>3. Len(mk) - 1 = k
    BY <1>1, <1>3
  <2>. QED  BY <2>2, <2>3
<1>5. /\ m \in Mark /\ m.depth \in Nat /\ m.locals \in 0..Len(c.locals) /\ m.loops \in Nat
  BY <1>1, <1>2, <1>3
<1>6. l \in Seq(LocalType) /\ Len(l) = m.locals /\ \A j \in 1..m.locals : l[j] = c.locals[j]
  <2>. HIDE DEF m
  <2>. QED  BY <1>1, <1>5, FirstPart
<1>7. /\ w \in CtxType /\ w.kind = c.kind /\ w.scope_depth = m.depth /\ w.locals = l
      /\ w.heights = h /\ w.open = o /\ Base(w) = Base(c)
  <2>1. /\ m.depth \in Nat /\ l \in Seq(LocalType) /\ h \in Heights /\ o \in Seq(OpenType)
        /\ c \in CtxType
    BY <1>1, <1>3, <1>5, <1>6
  <2>. HIDE DEF o, ms, m, k, l
  <2>. QED  BY <2>1, WithType
<1>. HIDE DEF o, ms, m, k
<1>8. \A j, q \in 1..k + 1 : j <= q =>
         /\ mk[j].depth <= mk[q].depth /\ mk[j].locals <= mk[q].locals
         /\ mk[j].loops <= mk[q].loops /\ (mk[j].dead => mk[q].dead)
  BY <1>1 DEF CtxOK
<1>9. ASSUME NEW j \in 1..k PROVE Split(l, mk[j].depth, mk[j].locals)
  <2>1. Split(c.locals, mk[j].depth, mk[j].locals)
    BY <1>1, <1>3 DEF CtxOK
  <2>2. j \in 1..k + 1 /\ k \in 1..k + 1 /\ j <= k
    BY <1>3
  <2>3. mk[j].locals <= m.locals /\ mk[j].locals \in Nat
    BY <1>2, <1>8, <2>2 DEF m
  <2>4. m.locals \in mk[j].locals..Len(c.locals)
    BY <1>5, <2>3
  <2>. QED  BY <1>1, <2>1, <2>4, SplitCut
<1>10. \A j, q \in 1..Len(ms) : j <= q =>
         /\ ms[j].depth <= ms[q].depth /\ ms[j].locals <= ms[q].locals
         /\ ms[j].loops <= ms[q].loops /\ (ms[j].dead => ms[q].dead)
  <2>1. \A j \in 1..k : j \in 1..k + 1
    BY <1>3
  <2>. QED  BY <1>4, <1>8, <2>1
<1>11. ASSUME NEW j \in 1..k - 1 PROVE StatementOK(w, i, o[j], ms[j], ms[j + 1], L2)
  <2>1. j \in 1..k /\ j + 1 \in 1..k /\ j \in 1..k + 1 /\ j + 1 \in 1..k + 1 /\ k \in 1..k + 1
    BY <1>3
  <2>2. /\ StatementOK(c, i, c.open[j], mk[j], mk[j + 1], L)
        /\ mk[j] \in Mark /\ mk[j + 1] \in Mark
    BY <1>2, <2>1, CtxFacts DEF k
  <2>. DEFINE a == mk[j]
              b == mk[j + 1]
              t == c.open[j]
  <2>3. b.loops <= m.loops /\ b.locals <= m.locals /\ b.locals \in Nat /\ b.loops \in Nat
    <3>1. j + 1 <= k
      BY <1>3
    <3>. QED  BY <1>2, <1>8, <2>1, <3>1 DEF m
  <2>4. t.node \in Loopy => L2[b.loops] = L[b.loops]
    <3>1. SUFFICES ASSUME t.node \in Loopy PROVE L2[b.loops] = L[b.loops]
      OBVIOUS
    <3>2. b.loops = a.loops + 1 /\ a.loops \in Nat
      BY <1>2, <2>1, <2>2, <3>1 DEF StatementOK
    <3>3. lo <= a.loops
      BY <1>2, <2>1
    <3>4. b.loops \in lo + 1..m.loops
      <4>. HIDE DEF a, b
      <4>. QED  BY <1>1, <2>3, <3>2, <3>3
    <3>. QED  BY <3>4 DEF m, k
  <2>5. ASSUME NEW v, v <= b.locals, Split(c.locals, a.depth + 1, v)
        PROVE  Split(l, a.depth + 1, v)
    <3>1. v \in 0..Len(c.locals)
      BY <2>5 DEF Split
    <3>2. m.locals \in v..Len(c.locals)
      <4>. HIDE DEF b
      <4>. QED  BY <1>1, <1>5, <2>3, <2>5, <3>1
    <3>. QED  BY <1>1, <2>5, <3>2, SplitCut
  <2>. HIDE DEF a, b, t, w, l
  <2>6. StatementOK(w, i, t, a, b, L2)
    BY <1>7, <2>2, <2>4, <2>5, StatementSame DEF a, b, t
  <2>. QED  BY <1>3, <1>4, <2>1, <2>6 DEF a, b, t
<1>12. ASSUME NEW q \in lo + 1..m.loops
       PROVE  /\ L2[q].context = i
              /\ \E j \in 1..Len(o) : o[j].node \in Loopy /\ ms[j + 1].loops = q
  <2>1. m.loops <= hi /\ q \in lo + 1..hi
    BY <1>1, <1>2, <1>3 DEF m
  <2>2. /\ L[q].context = i
        /\ \E j \in 1..k : c.open[j].node \in Loopy /\ mk[j + 1].loops = q
    BY <2>1 DEF CtxOK, k
  <2>3. PICK j \in 1..k : c.open[j].node \in Loopy /\ mk[j + 1].loops = q
    BY <2>2
  <2>4. j # k
    <3>1. SUFFICES ASSUME j = k PROVE FALSE
      OBVIOUS
    <3>2. StatementOK(c, i, c.open[k], m, mk[k + 1], L)
      BY <3>1, CtxFacts DEF k, m
    <3>3. mk[k + 1].loops = m.loops + 1
      BY <2>3, <3>1, <3>2 DEF StatementOK
    <3>. QED  BY <1>1, <1>5, <2>3, <3>1, <3>3
  <2>5. j \in 1..Len(o) /\ j \in 1..k - 1 /\ j + 1 \in 1..k
    BY <1>3, <2>4
  <2>6. L2[q] = L[q]
    BY DEF m, k
  <2>. QED  BY <1>3, <1>4, <2>2, <2>3, <2>5, <2>6
<1>13. ms[1].loops = lo /\ ms[Len(ms)] = m
  BY <1>1, <1>3, <1>4 DEF m
<1>14. \A j \in 1..Len(l) : l[j].at \subseteq {j - 1}
  <2>1. \A j \in 1..Len(c.locals) : c.locals[j].at \subseteq {j - 1}
    BY DEF CtxOK
  <2>. QED  BY SMTT(30), <1>1, <1>5, <1>6, <2>1
<1>15. h \subseteq Level(w, m, Len(l))
  <2>1. h \subseteq Level(c, m, m.locals)
    BY DEF m, k
  <2>. QED  BY <1>6, <1>7, <2>1 DEF Level
<1>16. Len(ms) = Len(o) + 1 /\ Len(l) <= LocalsMax
  <2>1. LocalsMax \in Nat
    BY CompilerAssumption
  <2>. QED  BY SMTT(30), <1>1, <1>3, <1>4, <1>5, <1>6, <2>1
<1>17. c.kind = "module" => l = <<>>
  <2>1. SUFFICES ASSUME c.kind = "module" PROVE l = <<>>
    OBVIOUS
  <2>2. c.locals = <<>>
    BY <2>1 DEF CtxOK
  <2>3. Len(c.locals) = 0
    BY <2>2
  <2>4. Len(l) = 0
    BY <1>5, <1>6, <2>3
  <2>. HIDE DEF l
  <2>. QED  BY <1>6, <2>4, EmptySeq
<1>18. \A j \in 1..Len(ms) : Split(l, ms[j].depth, ms[j].locals)
  BY <1>4, <1>9
<1>19. \A j \in 1..Len(o) : StatementOK(w, i, o[j], ms[j], ms[j + 1], L2)
  BY <1>3, <1>11
<1>. HIDE DEF w, l
<1>20. CtxOK(w, i, lo, m.loops, ms, L2)
  BY <1>4, <1>6, <1>7, <1>10, <1>12, <1>13, <1>14, <1>15, <1>16, <1>17, <1>18, <1>19 DEF CtxOK
<1>. QED  BY <1>20 DEF w, ms, o, m, k, l

\* Code is emitted between two statements; the record of a loop may change.
LEMMA KeepOK ==
  ASSUME NEW c, NEW i, NEW lo, NEW hi, NEW mk, NEW L, CtxOK(c, i, lo, hi, mk, L),
         NEW d \in CtxType, d.kind = c.kind, d.scope_depth = c.scope_depth,
         d.locals = c.locals, d.open = c.open,
         d.heights \subseteq Level(c, mk[Len(c.open) + 1], Len(c.locals)), NEW L2,
         \A l \in lo + 1..hi : L2[l].context = i,
         \A j \in 1..Len(c.open) : StatementOK(c, i, c.open[j], mk[j], mk[j + 1], L2)
  PROVE  CtxOK(d, i, lo, hi, mk, L2)
<1>1. d.heights \subseteq Level(d, mk[Len(mk)], Len(d.locals))
  <2>1. Len(mk) = Len(c.open) + 1
    BY DEF CtxOK
  <2>. QED  BY <2>1 DEF Level, Base
<1>2. ASSUME NEW j \in 1..Len(c.open) PROVE StatementOK(d, i, c.open[j], mk[j], mk[j + 1], L2)
  <2>1. mk[j] \in Mark /\ mk[j + 1] \in Mark
    <3>1. Len(c.open) \in Nat
      BY CtxFacts
    <3>2. j \in 1..Len(c.open) + 1 /\ j + 1 \in 1..Len(c.open) + 1
      BY <3>1
    <3>. QED  BY <3>2, CtxFacts
  <2>2. StatementOK(c, i, c.open[j], mk[j], mk[j + 1], L2)
    OBVIOUS
  <2>. DEFINE a == mk[j]
              b == mk[j + 1]
              t == c.open[j]
  <2>. HIDE DEF a, b, t
  <2>3. StatementOK(d, i, t, a, b, L2)
    BY <2>1, <2>2, StatementSame DEF a, b, t
  <2>. QED  BY <2>3 DEF a, b, t
<1>. QED  BY <1>1, <1>2 DEF CtxOK

LEMMA SameStatements ==
  ASSUME NEW c, NEW i, NEW lo, NEW hi, NEW mk, NEW L, CtxOK(c, i, lo, hi, mk, L)
  PROVE  /\ \A l \in lo + 1..hi : L[l].context = i
         /\ \A j \in 1..Len(c.open) : StatementOK(c, i, c.open[j], mk[j], mk[j + 1], L)
  BY DEF CtxOK

\* Only the records of a context's own loops matter to it.
LEMMA OtherLoops ==
  ASSUME NEW c, NEW i, NEW lo, NEW hi, NEW mk, NEW L, CtxOK(c, i, lo, hi, mk, L),
         NEW L2, \A l \in lo + 1..hi : L2[l] = L[l]
  PROVE  CtxOK(c, i, lo, hi, mk, L2)
<1>1. ASSUME NEW j \in 1..Len(c.open) PROVE StatementOK(c, i, c.open[j], mk[j], mk[j + 1], L2)
  <2>. DEFINE a == mk[j]
              b == mk[j + 1]
              t == c.open[j]
  <2>1. Len(c.open) \in Nat /\ StatementOK(c, i, t, a, b, L) /\ lo \in Nat /\ hi \in Nat
    BY CtxFacts
  <2>2. j \in 1..Len(c.open) + 1 /\ j + 1 \in 1..Len(c.open) + 1
    BY <2>1
  <2>3. a \in Mark /\ b \in Mark /\ a.loops \in Nat /\ lo <= a.loops /\ b.loops <= hi
    BY <2>2, CtxFacts
  <2>. HIDE DEF a, b, t
  <2>4. ASSUME t.node \in Loopy PROVE L2[b.loops] = L[b.loops]
    <3>1. b.loops = a.loops + 1
      BY <2>1, <2>4 DEF StatementOK
    <3>2. b.loops \in lo + 1..hi
      BY <2>1, <2>3, <3>1
    <3>. QED  BY <3>2
  <2>5. StatementOK(c, i, t, a, b, L2)
    BY <2>1, <2>3, <2>4, StatementSame
  <2>. QED  BY <2>5 DEF a, b, t
<1>2. \A l \in lo + 1..hi : L2[l].context = i
  BY SameStatements
<1>. QED  BY <1>1, <1>2, KeepOK, CtxFacts

\* A local is declared, in the scope the statement around it has opened or that
\* of the function.
LEMMA LetOK ==
  ASSUME NEW c, NEW i, NEW lo, NEW hi, NEW mk, NEW L, CtxOK(c, i, lo, hi, mk, L),
         c.kind # "module",
         NEW d \in CtxType, d.kind = c.kind, d.scope_depth = c.scope_depth, d.open = c.open,
         Grows(c.locals, d.locals, c.scope_depth - 1, c.scope_depth),
         d.heights \subseteq Level(c, mk[Len(c.open) + 1], Len(d.locals)),
         c.open # <<>> =>
           /\ c.open[Len(c.open)].node \notin {"range", "up", "down"}
           /\ c.open[Len(c.open)].node = "for" => L[hi].continues = {}
  PROVE  CtxOK(d, i, lo, hi, [mk EXCEPT ![Len(c.open) + 1].locals = Len(d.locals)], L)
<1>. DEFINE k == Len(c.open)
            n == mk[k + 1]
            n2 == [n EXCEPT !.locals = Len(d.locals)]
            ms == [mk EXCEPT ![k + 1].locals = Len(d.locals)]
            l == d.locals
<1>1. /\ c \in CtxType /\ c.locals \in Seq(LocalType) /\ c.open \in Seq(OpenType)
      /\ c.scope_depth \in Nat /\ Len(c.locals) \in Nat /\ k \in Nat
      /\ mk \in Seq(Mark) /\ Len(mk) = k + 1
      /\ n \in Mark /\ mk[1].loops = lo /\ n.depth = c.scope_depth /\ n.locals = Len(c.locals)
      /\ n.loops = hi /\ lo \in Nat /\ hi \in Nat /\ lo <= hi
      /\ Split(c.locals, c.scope_depth, Len(c.locals))
  BY CtxFacts
<1>2. \A j \in 1..k + 1 :
         /\ mk[j] \in Mark /\ mk[j].depth \in Nat /\ mk[j].locals \in Nat /\ mk[j].loops \in Nat
         /\ mk[j].depth <= c.scope_depth /\ mk[j].locals <= Len(c.locals)
  BY CtxFacts
<1>3. /\ l \in Seq(LocalType) /\ Len(l) \in Nat /\ Len(c.locals) <= Len(l) /\ Len(l) <= LocalsMax
  BY LenProperties DEF Grows
<1>4. n2 \in Mark /\ n2.depth = n.depth /\ n2.loops = n.loops /\ n2.dead = n.dead
      /\ n2.locals = Len(l)
  BY <1>1, <1>3 DEF Mark
<1>5. /\ ms \in Seq(Mark) /\ Len(ms) = k + 1 /\ ms[k + 1] = n2
      /\ \A j \in 1..k : ms[j] = mk[j]
  <2>1. ms = [mk EXCEPT ![k + 1] = n2]
    OBVIOUS
  <2>2. k + 1 \in 1..Len(mk) /\ (\A j \in 1..k : j \in 1..Len(mk) /\ j # k + 1)
    BY <1>1
  <2>. HIDE DEF k, n, n2, ms
  <2>3. /\ [mk EXCEPT ![k + 1] = n2] \in Seq(Mark)
        /\ Len([mk EXCEPT ![k + 1] = n2]) = Len(mk)
        /\ \A j \in 1..Len(mk) : [mk EXCEPT ![k + 1] = n2][j] = IF j = k + 1 THEN n2 ELSE mk[j]
    BY <1>1, <1>4, <2>2, ExceptSeq
  <2>. QED  BY <1>1, <2>1, <2>2, <2>3
<1>. HIDE DEF k, n, n2, ms, l
<1>6. \A j \in 1..k : mk[j].depth < c.scope_depth
  <2>. TAKE j \in 1..k
  <2>1. j \in 1..k + 1 /\ j + 1 \in 1..k + 1
    BY <1>1
  <2>2. StatementOK(c, i, c.open[j], mk[j], mk[j + 1], L)
    BY CtxFacts DEF k
  <2>3. mk[j + 1].depth = mk[j].depth + Scopes(c.open[j].node) /\ Scopes(c.open[j].node) \in {1, 2}
    BY <2>2 DEF StatementOK, Scopes
  <2>4. mk[j + 1].depth <= c.scope_depth /\ mk[j].depth \in Nat /\ mk[j + 1].depth \in Nat
    BY <1>2, <2>1
  <2>. QED  BY SMTT(30), <1>1, <2>3, <2>4
<1>7. Split(l, c.scope_depth, Len(l))
  <2>1. ASSUME NEW q \in 1..Len(l) PROVE ~ (l[q].depth > c.scope_depth)
    <3>1. CASE q \in 1..Len(c.locals)
      <4>1. l[q] = c.locals[q] /\ c.locals[q].depth \in Nat /\ ~ (c.locals[q].depth > c.scope_depth)
        BY SMTT(30), <1>1, <3>1, DepthType DEF Grows, Split, l
      <4>. QED  BY <4>1
    <3>2. CASE q \in Len(c.locals) + 1..Len(l)
      <4>1. l[q].depth <= c.scope_depth /\ l[q].depth \in Nat
        BY <1>3, <2>1, <3>2, DepthType DEF Grows, l
      <4>. QED  BY <1>1, <4>1
    <3>. QED  BY <1>1, <1>3, <2>1, <3>1, <3>2
  <2>. QED  BY <1>3, <2>1 DEF Split
<1>8. ASSUME NEW x \in Int, x < c.scope_depth, NEW v, Split(c.locals, x, v)
      PROVE  Split(l, x, v)
  <2>1. c.scope_depth - 1 \in Int /\ c.scope_depth \in Int /\ x <= c.scope_depth - 1
    BY <1>1, <1>8
  <2>2. Grows(c.locals, l, c.scope_depth - 1, c.scope_depth)
    BY DEF l
  <2>. QED  BY <1>1, <1>8, <2>1, <2>2, SplitMore
<1>9. \A j \in 1..Len(ms) : Split(l, ms[j].depth, ms[j].locals)
  <2>1. ASSUME NEW j \in 1..k PROVE Split(l, mk[j].depth, mk[j].locals)
    <3>1. j \in 1..k + 1
      BY <1>1
    <3>2. Split(c.locals, mk[j].depth, mk[j].locals)
      BY <1>1, <3>1 DEF CtxOK
    <3>. QED  BY <1>2, <1>6, <1>8, <3>1, <3>2
  <2>2. Split(l, n2.depth, n2.locals)
    BY <1>1, <1>4, <1>7
  <2>. QED  BY <1>1, <1>5, <2>1, <2>2
<1>10. \A j, q \in 1..Len(ms) : j <= q =>
         /\ ms[j].depth <= ms[q].depth /\ ms[j].locals <= ms[q].locals
         /\ ms[j].loops <= ms[q].loops /\ (ms[j].dead => ms[q].dead)
  <2>1. \A j, q \in 1..k + 1 : j <= q =>
         /\ mk[j].depth <= mk[q].depth /\ mk[j].locals <= mk[q].locals
         /\ mk[j].loops <= mk[q].loops /\ (mk[j].dead => mk[q].dead)
    BY <1>1 DEF CtxOK
  <2>2. ASSUME NEW j \in 1..k
        PROVE  /\ mk[j].depth <= n2.depth /\ mk[j].locals <= n2.locals
               /\ mk[j].loops <= n2.loops /\ (mk[j].dead => n2.dead)
    <3>1. j \in 1..k + 1 /\ k + 1 \in 1..k + 1 /\ j <= k + 1
      BY <1>1
    <3>2. /\ mk[j].depth <= n.depth /\ mk[j].locals <= n.locals
          /\ mk[j].loops <= n.loops /\ (mk[j].dead => n.dead)
      BY <2>1, <3>1 DEF n
    <3>3. mk[j].locals <= Len(l)
      BY <1>1, <1>2, <1>3, <3>1, <3>2
    <3>. QED  BY <1>4, <3>2, <3>3
  <2>3. n2.depth <= n2.depth /\ n2.locals <= n2.locals /\ n2.loops <= n2.loops
    BY <1>1, <1>3, <1>4
  <2>4. TAKE j, q \in 1..Len(ms)
  <2>5. HAVE j <= q
  <2>6. /\ j \in 1..k \/ j = k + 1
        /\ q \in 1..k \/ q = k + 1
        /\ j = k + 1 => q = k + 1
        /\ j \in 1..k + 1 /\ q \in 1..k + 1
    BY <1>1, <1>5, <2>5
  <2>. QED  BY <1>5, <2>1, <2>2, <2>3, <2>5, <2>6
<1>11. ASSUME NEW j \in 1..k PROVE StatementOK(d, i, d.open[j], ms[j], ms[j + 1], L)
  <2>. DEFINE a == mk[j]
              b == mk[j + 1]
              t == c.open[j]
  <2>0. j \in 1..k + 1 /\ j + 1 \in 1..k + 1
    BY <1>1
  <2>1. /\ StatementOK(c, i, t, a, b, L) /\ a \in Mark /\ b \in Mark
        /\ a.depth \in Nat /\ b.depth \in Nat /\ b.depth <= c.scope_depth
    BY <1>2, <2>0, CtxFacts DEF k
  <2>. HIDE DEF a, b, t
  <2>2. ASSUME NEW v, a.depth + 1 < b.depth, Split(c.locals, a.depth + 1, v)
        PROVE  Split(d.locals, a.depth + 1, v)
    <3>1. a.depth + 1 \in Int /\ a.depth + 1 < c.scope_depth
      BY SMTT(30), <1>1, <2>1, <2>2
    <3>. QED  BY <1>8, <2>2, <3>1 DEF l
  <2>3. StatementOK(d, i, t, a, b, L)
    BY <2>1, <2>2, StatementSame
  <2>4. CASE j < k
    <3>1. j + 1 \in 1..k
      BY <1>1, <2>4
    <3>. QED  BY <1>5, <2>3, <3>1 DEF a, b, t
  <2>5. CASE j = k
    <3>1. /\ b = n /\ ms[j] = a /\ ms[j + 1] = n2 /\ d.open[j] = t
      BY <1>5, <2>5 DEF a, b, t, n
    <3>2. \A q : Level(d, n2, q) = Level(d, n, q)
      BY <1>4 DEF Level
    <3>3. /\ t.node \notin {"range", "up", "down"}
          /\ t.node = "for" => L[hi].continues = {}
      <4>1. c.open # <<>>
        BY <1>1, <2>5, EmptySeq DEF k
      <4>. QED  BY <2>5, <4>1 DEF t, k
    <3>4. /\ n2.locals \in Nat /\ n.locals \in Nat /\ n.locals <= n2.locals
          /\ a.locals \in Nat /\ a.depth \in Nat
      BY <1>1, <1>3, <1>4, <2>1 DEF Mark
    <3>5. StatementOK(d, i, t, a, n, L)
      BY <2>3, <3>1
    <3>6. ASSUME t.node \in Loopy PROVE LoopOK(d, t.node, a, n2, L[n2.loops])
      <4>1. LoopOK(d, t.node, a, n, L[hi])
        BY <1>1, <3>5, <3>6 DEF StatementOK
      <4>. DEFINE r == L[hi]
      <4>2. t.node = "for" => r.continues = {} /\ n2.locals >= a.locals + 3
        BY <3>3, <3>4, <4>1 DEF LoopOK
      <4>3. t.node \in {"loop", "for"}
        BY <3>3, <3>6 DEF Loopy
      <4>. HIDE DEF r
      <4>4. LoopOK(d, t.node, a, n, r)
        BY <4>1 DEF r
      <4>5. LoopOK(d, t.node, a, n2, r)
        BY <3>2, <3>3, <4>2, <4>3, <4>4 DEF LoopOK
      <4>. QED  BY <1>1, <1>4, <4>5 DEF r
    <3>7. ASSUME t.node \in {"is", "elseWhen"}
          PROVE  \E w \in a.locals + 1..n2.locals :
                   /\ Split(d.locals, a.depth + 1, w)
                   /\ t.node = "is" => t.jump \subseteq Level(d, n2, w + 1)
                   /\ t.end \subseteq Level(d, n2, w)
      <4>1. PICK w \in a.locals + 1..n.locals :
                   /\ Split(d.locals, a.depth + 1, w)
                   /\ t.node = "is" => t.jump \subseteq Level(d, n, w + 1)
                   /\ t.end \subseteq Level(d, n, w)
        BY <3>5, <3>7 DEF StatementOK
      <4>2. w \in a.locals + 1..n2.locals
        BY <3>4
      <4>. QED  BY <3>2, <4>1, <4>2
    <3>8. t.node = "when" => n2.locals > a.locals /\ t.end = {}
      BY <3>4, <3>5 DEF StatementOK
    <3>9. StatementOK(d, i, t, a, n2, L)
      BY <1>4, <3>2, <3>5, <3>6, <3>7, <3>8 DEF StatementOK
    <3>. QED  BY <3>1, <3>9
  <2>. QED  BY <1>1, <2>4, <2>5
<1>12. ASSUME NEW q \in lo + 1..hi
       PROVE  /\ L[q].context = i
              /\ \E j \in 1..k : d.open[j].node \in Loopy /\ ms[j + 1].loops = q
  <2>1. /\ L[q].context = i
        /\ \E j \in 1..k : c.open[j].node \in Loopy /\ mk[j + 1].loops = q
    BY DEF CtxOK, k
  <2>2. PICK j \in 1..k : c.open[j].node \in Loopy /\ mk[j + 1].loops = q
    BY <2>1
  <2>3. ms[j + 1].loops = mk[j + 1].loops
    <3>1. j + 1 \in 1..k \/ (j = k /\ mk[j + 1] = n)
      BY <1>1 DEF n
    <3>. QED  BY <1>4, <1>5, <3>1
  <2>. QED  BY <2>1, <2>2, <2>3
<1>13. /\ ms[1].loops = lo /\ ms[Len(ms)] = n2
  <2>1. 1 \in 1..k \/ k = 0
    BY <1>1
  <2>2. k = 0 => ms[1] = n2 /\ n = mk[1]
    BY <1>5 DEF n
  <2>. QED  BY <1>1, <1>4, <1>5, <2>1, <2>2
<1>14. \A j \in 1..Len(l) : l[j].at \subseteq {j - 1}
  BY SlotsRight DEF l
<1>15. d.heights \subseteq Level(d, n2, Len(l))
  <2>1. d.heights \subseteq Level(c, n, Len(l))
    BY DEF n, l, k
  <2>. QED  BY <1>4, <2>1 DEF Level, Base
<1>16. /\ d.open = c.open /\ d.locals = l /\ d.kind # "module" /\ d.scope_depth = c.scope_depth
       /\ Len(d.open) = k
  BY DEF l, k
<1>17. CtxOK(d, i, lo, hi, ms, L)
  <2>1. /\ ms \in Seq(Mark) /\ Len(ms) = Len(d.open) + 1 /\ ms[1].loops = lo
        /\ ms[Len(ms)].depth = d.scope_depth /\ ms[Len(ms)].locals = Len(d.locals)
        /\ ms[Len(ms)].loops = hi
        /\ Len(d.locals) <= LocalsMax
    BY <1>1, <1>3, <1>4, <1>5, <1>13, <1>16
  <2>2. d.heights \subseteq Level(d, ms[Len(ms)], Len(d.locals))
    BY <1>13, <1>15, <1>16
  <2>3. \A j \in 1..Len(ms) : Split(d.locals, ms[j].depth, ms[j].locals)
    BY <1>9, <1>16
  <2>4. \A j \in 1..Len(d.open) : StatementOK(d, i, d.open[j], ms[j], ms[j + 1], L)
    BY <1>11, <1>16
  <2>5. \A q \in lo + 1..hi :
          /\ L[q].context = i
          /\ \E j \in 1..Len(d.open) : d.open[j].node \in Loopy /\ ms[j + 1].loops = q
    BY <1>12, <1>16
  <2>6. \A j \in 1..Len(d.locals) : d.locals[j].at \subseteq {j - 1}
    BY <1>14, <1>16
  <2>. QED  BY <1>10, <1>16, <2>1, <2>2, <2>3, <2>4, <2>5, <2>6 DEF CtxOK
<1>. QED  BY <1>17 DEF ms, k

-----------------------------------------------------------------------------
(* The invariant, when the current context changes. *)

\* What a step of the current context can rely on.
Now(below, mk) ==
  /\ ctxs \in Seq(CtxType) /\ loop_stack \in Seq(LoopType)
  /\ Len(import_stack) = Cardinality(Modules(ctxs))
  /\ InvBy(below)
  /\ Compiling
  /\ CtxOK(Cur, Len(ctxs), below[Len(ctxs)], Len(loop_stack), mk, loop_stack)

LEMMA NowFacts ==
  ASSUME NEW below, NEW mk, Now(below, mk)
  PROVE  /\ ctxs \in Seq(CtxType) /\ loop_stack \in Seq(LoopType)
         /\ Len(ctxs) \in Nat \ {0} /\ Len(loop_stack) \in Nat
         /\ Cur = ctxs[Len(ctxs)] /\ Cur \in CtxType
         /\ Front(ctxs) \in Seq(CtxType) /\ Len(Front(ctxs)) = Len(ctxs) - 1
         /\ \A i \in 1..Len(ctxs) - 1 : Front(ctxs)[i] = ctxs[i]
         /\ below \in Seq(Nat) /\ Len(below) = Len(ctxs) + 1
         /\ \A i \in 1..Len(ctxs) + 1 : below[i] \in Nat
         /\ below[1] = 0 /\ below[Len(ctxs) + 1] = Len(loop_stack)
         /\ below[Len(ctxs)] <= Len(loop_stack)
<1>1. ctxs \in Seq(CtxType) /\ ctxs # <<>> /\ loop_stack \in Seq(LoopType)
  BY DEF Now, Compiling
<1>2. /\ Len(ctxs) \in Nat \ {0} /\ Cur = ctxs[Len(ctxs)] /\ Cur \in CtxType
      /\ Front(ctxs) \in Seq(CtxType) /\ Len(Front(ctxs)) = Len(ctxs) - 1
      /\ \A i \in 1..Len(ctxs) - 1 : Front(ctxs)[i] = ctxs[i]
  BY <1>1, FrontFacts DEF Cur
<1>3. /\ below \in Seq(Nat) /\ Len(below) = Len(ctxs) + 1
      /\ below[1] = 0 /\ below[Len(ctxs) + 1] = Len(loop_stack)
      /\ \A i, j \in 1..Len(ctxs) + 1 : i <= j => below[i] <= below[j]
  BY DEF Now, InvBy
<1>4. \A i \in 1..Len(ctxs) + 1 : below[i] \in Nat
  BY <1>3, ElementOfSeq
<1>5. below[Len(ctxs)] <= Len(loop_stack)
  <2>1. Len(ctxs) \in 1..Len(ctxs) + 1 /\ Len(ctxs) + 1 \in 1..Len(ctxs) + 1
        /\ Len(ctxs) <= Len(ctxs) + 1
    BY <1>2
  <2>. QED  BY <1>3, <2>1
<1>6. Len(loop_stack) \in Nat
  BY <1>1, LenProperties
<1>. QED  BY <1>1, <1>2, <1>3, <1>4, <1>5, <1>6

LEMMA InvNow ==
  ASSUME Inv, Compiling
  PROVE  \E below, mk : Now(below, mk)
<1>1. PICK below : InvBy(below)
  BY DEF Inv
<1>2. ctxs \in Seq(CtxType) /\ ctxs # <<>>
  BY DEF Inv, Compiling
<1>3. Len(ctxs) \in Nat \ {0} /\ Cur = ctxs[Len(ctxs)] /\ Len(ctxs) \in 1..Len(ctxs)
  <2>1. Len(ctxs) \in Nat \ {0} /\ Cur = ctxs[Len(ctxs)]
    BY <1>2, FrontFacts DEF Cur
  <2>. QED  BY <2>1
<1>4. \E mk : CtxOK(Cur, Len(ctxs), below[Len(ctxs)], Len(loop_stack), mk, loop_stack)
  <2>1. \E mk : CtxOK(ctxs[Len(ctxs)], Len(ctxs), below[Len(ctxs)], below[Len(ctxs) + 1], mk, loop_stack)
    BY <1>1, <1>3 DEF InvBy
  <2>2. below[Len(ctxs) + 1] = Len(loop_stack)
    BY <1>1 DEF InvBy
  <2>. QED  BY <1>3, <2>1, <2>2
<1>. QED  BY <1>1, <1>4 DEF Inv, Now

\* The invariant of the next state, from that of its parts.
LEMMA InvFrom ==
  ASSUME NEW cs \in Seq(CtxType), cs = ctxs', NEW L \in Seq(LoopType), L = loop_stack',
         Len(import_stack') = Cardinality(Modules(cs)), NEW b,
         b \in Seq(Nat), Len(b) = Len(cs) + 1, b[1] = 0, b[Len(cs) + 1] = Len(L),
         \A i, j \in 1..Len(cs) + 1 : i <= j => b[i] <= b[j],
         \A i \in 1..Len(cs) :
           /\ cs[i].kind = "script" <=> i = 1
           /\ \E mk : CtxOK(cs[i], i, b[i], b[i + 1], mk, L),
         \A l \in 1..Len(L) :
           L[l].context \in 1..Len(cs) /\ l \in b[L[l].context] + 1..b[L[l].context + 1]
  PROVE  Inv'
<1>1. InvBy(b)'
  BY DEF InvBy
<1>. QED  BY <1>1 DEF Inv

\* The current context becomes d, and its loops those at the end of L.
LEMMA SetInv ==
  ASSUME NEW below, NEW mk, Now(below, mk),
         NEW d, NEW ms, NEW L \in Seq(LoopType),
         CtxOK(d, Len(ctxs), below[Len(ctxs)], Len(L), ms, L),
         d.kind = Cur.kind,
         \A l \in 1..below[Len(ctxs)] : L[l] = loop_stack[l],
         Set(d), loop_stack' = L, import_stack' = import_stack
  PROVE  Inv'
<1>. DEFINE n == Len(ctxs)
            b == [below EXCEPT ![n + 1] = Len(L)]
            cs == ctxs'
<1>1. /\ ctxs \in Seq(CtxType) /\ n \in Nat \ {0} /\ Len(loop_stack) \in Nat
      /\ Cur = ctxs[n]
      /\ Front(ctxs) \in Seq(CtxType) /\ Len(Front(ctxs)) = n - 1
      /\ \A i \in 1..n - 1 : Front(ctxs)[i] = ctxs[i]
      /\ below \in Seq(Nat) /\ Len(below) = n + 1
      /\ \A i \in 1..n + 1 : below[i] \in Nat
      /\ below[1] = 0 /\ below[n + 1] = Len(loop_stack) /\ below[n] <= Len(loop_stack)
  BY NowFacts
<1>2. /\ \A i, j \in 1..n + 1 : i <= j => below[i] <= below[j]
      /\ \A i \in 1..n :
           /\ ctxs[i].kind = "script" <=> i = 1
           /\ \E mk2 : CtxOK(ctxs[i], i, below[i], below[i + 1], mk2, loop_stack)
      /\ \A l \in 1..Len(loop_stack) :
           /\ loop_stack[l].context \in 1..n
           /\ l \in below[loop_stack[l].context] + 1..below[loop_stack[l].context + 1]
      /\ Len(import_stack) = Cardinality(Modules(ctxs))
  BY DEF Now, InvBy
<1>3. d \in CtxType /\ Len(L) \in Nat /\ below[n] <= Len(L)
  BY CtxFacts, LenProperties
<1>4. /\ cs \in Seq(CtxType) /\ Len(cs) = n /\ cs[n] = d
      /\ \A i \in 1..n - 1 : cs[i] = ctxs[i]
  <2>1. cs = Append(Front(ctxs), d)
    BY DEF Set
  <2>2. n - 1 + 1 = n
    BY <1>1
  <2>. HIDE DEF n
  <2>3. /\ Append(Front(ctxs), d) \in Seq(CtxType) /\ Len(Append(Front(ctxs), d)) = n - 1 + 1
        /\ \A i \in 1..n - 1 : Append(Front(ctxs), d)[i] = Front(ctxs)[i]
        /\ Append(Front(ctxs), d)[n - 1 + 1] = d
    BY <1>1, <1>3, AppendFacts
  <2>. QED  BY <1>1, <2>1, <2>2, <2>3
<1>5. /\ b \in Seq(Nat) /\ Len(b) = n + 1 /\ b[n + 1] = Len(L)
      /\ \A i \in 1..n : b[i] = below[i]
  <2>1. n + 1 \in 1..Len(below) /\ \A i \in 1..n : i \in 1..Len(below) /\ i # n + 1
    BY <1>1
  <2>. HIDE DEF n
  <2>2. /\ [below EXCEPT ![n + 1] = Len(L)] \in Seq(Nat)
        /\ Len([below EXCEPT ![n + 1] = Len(L)]) = Len(below)
        /\ \A j \in 1..Len(below) :
             [below EXCEPT ![n + 1] = Len(L)][j] = IF j = n + 1 THEN Len(L) ELSE below[j]
    BY <1>1, <1>3, <2>1, ExceptSeq
  <2>. QED  BY <1>1, <2>1, <2>2
<1>. HIDE DEF n, b, cs
<1>6. Modules(cs) = Modules(ctxs)
  <2>1. cs[n].kind = ctxs[n].kind
    BY <1>1, <1>4
  <2>2. ASSUME NEW i \in 1..n PROVE cs[i].kind = ctxs[i].kind
    <3>1. i = n \/ i \in 1..n - 1
      BY ONLY <1>1, i \in 1..n
    <3>. QED  BY ONLY <3>1, <1>4, <2>1
  <2>. QED  BY <1>4, <2>2 DEF Modules, n
<1>7. \A i, j \in 1..n + 1 : i <= j => b[i] <= b[j]
  <2>. TAKE i, j \in 1..n + 1
  <2>. HAVE i <= j
  <2>1. CASE j \in 1..n
    <3>1. i \in 1..n
      BY <1>1, <2>1
    <3>. QED  BY <1>2, <1>5, <2>1, <3>1
  <2>2. CASE i \in 1..n /\ j = n + 1
    <3>1. below[i] <= below[n] /\ below[i] \in Nat /\ below[n] \in Nat
      BY SMTT(30), <1>1, <1>2, <2>2
    <3>2. b[i] = below[i] /\ b[j] = Len(L)
      BY <1>5, <2>2
    <3>. QED  BY <1>3, <3>1, <3>2
  <2>3. CASE i = n + 1 /\ j = n + 1
    BY <1>3, <1>5, <2>3
  <2>. QED  BY <1>1, <2>1, <2>2, <2>3
<1>8. ASSUME NEW i \in 1..n
      PROVE  /\ cs[i].kind = "script" <=> i = 1
             /\ \E mk2 : CtxOK(cs[i], i, b[i], b[i + 1], mk2, L)
  <2>1. CASE i = n
    <3>1. CtxOK(cs[i], i, b[i], b[i + 1], ms, L)
      BY <1>1, <1>4, <1>5, <2>1 DEF n
    <3>2. cs[i].kind = ctxs[i].kind
      BY <1>1, <1>4, <2>1
    <3>. QED  BY <1>2, <3>1, <3>2
  <2>2. CASE i \in 1..n - 1
    <3>1. i + 1 \in 1..n /\ cs[i] = ctxs[i] /\ b[i] = below[i] /\ b[i + 1] = below[i + 1]
      <4>1. i \in 1..n /\ i + 1 \in 1..n
        BY <1>1, <2>2
      <4>. QED  BY <1>4, <1>5, <2>2, <4>1
    <3>2. PICK mk2 : CtxOK(ctxs[i], i, below[i], below[i + 1], mk2, loop_stack)
      BY <1>2
    <3>3. \A l \in below[i] + 1..below[i + 1] : L[l] = loop_stack[l]
      <4>1. /\ below[i] \in Nat /\ below[i + 1] \in Nat /\ below[n] \in Nat
            /\ below[i + 1] <= below[n]
        BY <1>1, <1>2, <3>1
      <4>2. \A l \in below[i] + 1..below[i + 1] : l \in 1..below[n]
        BY <4>1
      <4>. QED  BY <4>2 DEF n
    <3>4. CtxOK(ctxs[i], i, below[i], below[i + 1], mk2, L)
      BY <3>2, <3>3, OtherLoops
    <3>. QED  BY <1>2, <3>1, <3>4
  <2>. QED  BY <1>1, <2>1, <2>2
<1>9. ASSUME NEW l \in 1..Len(L)
      PROVE  L[l].context \in 1..n /\ l \in b[L[l].context] + 1..b[L[l].context + 1]
  <2>1. CASE l \in below[n] + 1..Len(L)
    <3>1. L[l].context = n
      BY <2>1, SameStatements DEF n
    <3>. QED  BY <1>1, <1>5, <2>1, <3>1
  <2>2. CASE l \in 1..below[n]
    <3>. DEFINE x == loop_stack[l].context
    <3>1. L[l] = loop_stack[l]
      BY <2>2 DEF n
    <3>2. l \in 1..Len(loop_stack)
      BY <1>1, <2>2
    <3>3. x \in 1..n /\ l \in below[x] + 1..below[x + 1]
      BY <1>2, <3>2
    <3>. HIDE DEF x
    <3>4. x # n
      <4>1. SUFFICES ASSUME x = n PROVE FALSE
        OBVIOUS
      <4>2. l >= below[n] + 1 /\ below[n] \in Nat
        BY <1>1, <3>3, <4>1
      <4>. QED  BY <2>2, <4>2
    <3>5. x \in 1..n /\ x + 1 \in 1..n
      BY <1>1, <3>3, <3>4
    <3>6. x \in 1..n /\ l \in b[x] + 1..b[x + 1]
      BY <1>5, <3>3, <3>5
    <3>. QED  BY <3>1, <3>6 DEF x
  <2>. QED  BY SMTT(30), <1>1, <1>3, <2>1, <2>2
<1>10. b[1] = 0 /\ 1 \in 1..n
  BY SMTT(30), <1>1, <1>5
<1>11. Len(import_stack') = Cardinality(Modules(cs))
  BY <1>2, <1>6
<1>. QED  BY <1>4, <1>5, <1>7, <1>8, <1>9, <1>10, <1>11, InvFrom DEF cs

\* Nothing changes but the imports that are done.
LEMMA SameInv ==
  ASSUME Inv, ctxs' = ctxs, loop_stack' = loop_stack, import_stack' = import_stack
  PROVE  Inv'
  BY DEF Inv, InvBy, Modules

LEMMA SetSame ==
  ASSUME Inv, Compiling
  PROVE  Set(Cur) => ctxs' = ctxs
<1>1. PICK below, mk : Now(below, mk)
  BY InvNow
<1>. DEFINE f == Front(ctxs)
            n == Len(ctxs)
<1>2. /\ ctxs \in Seq(CtxType) /\ n \in Nat \ {0} /\ Cur = ctxs[n] /\ Cur \in CtxType
      /\ f \in Seq(CtxType) /\ Len(f) = n - 1 /\ \A i \in 1..n - 1 : f[i] = ctxs[i]
  BY <1>1, NowFacts
<1>. HIDE DEF f, n
<1>3. /\ Append(f, Cur) \in Seq(CtxType) /\ Len(Append(f, Cur)) = n
      /\ \A i \in 1..n : Append(f, Cur)[i] = ctxs[i]
  <2>1. /\ Append(f, Cur) \in Seq(CtxType) /\ Len(Append(f, Cur)) = n - 1 + 1
        /\ \A i \in 1..n - 1 : Append(f, Cur)[i] = f[i]
        /\ Append(f, Cur)[n - 1 + 1] = Cur
    BY <1>2, AppendFacts
  <2>2. n - 1 + 1 = n /\ \A i \in 1..n : i = n \/ i \in 1..n - 1
    BY <1>2
  <2>. QED  BY <1>2, <2>1, <2>2
<1>4. Append(f, Cur) = ctxs
  <2>. DEFINE a == Append(f, Cur)
  <2>1. a \in Seq(CtxType) /\ ctxs \in Seq(CtxType) /\ Len(a) = Len(ctxs)
        /\ \A i \in 1..Len(a) : a[i] = ctxs[i]
    BY <1>2, <1>3 DEF n
  <2>. HIDE DEF a
  <2>2. a = ctxs
    BY <2>1, SeqEqual
  <2>. QED  BY <2>2 DEF a
<1>. QED  BY <1>4 DEF Set, f

-----------------------------------------------------------------------------
(* Statements without a block. *)

LEMMA LeafInv ==
  ASSUME Inv, LetGlobal \/ Assign \/ CompoundAssign \/ SetIndex \/ PrintStmt \/ ExprStmt \/ ReplExprStmt
  PROVE  Inv'
<1>1. Compiling /\ loop_stack' = loop_stack /\ import_stack' = import_stack
  BY DEF LetGlobal, Assign, CompoundAssign, SetIndex, PrintStmt, ExprStmt, ReplExprStmt, SameLoops,
         SameImports
<1>2. PICK below, mk : Now(below, mk)
  BY <1>1, InvNow
<1>3. Cur \in CtxType /\ Cur.heights \in Heights
  BY <1>2, NowFacts DEF CtxType
<1>. DEFINE c == Cur
<1>4. /\ Emit(Emit(c, 1), -1) = c
      /\ Emit(Emit(Emit(Emit(c, 1), 1), -1), -1) = c
      /\ Emit(Emit(Emit(Emit(c, 1), 1), 1), -3) = c
  <2>. HIDE DEF c
  <2>1. c \in CtxType
    BY <1>3 DEF c
  <2>2. (\A a, b \in Int : Emit(Emit(c, a), b) = Emit(c, a + b)) /\ Emit(c, 0) = c
    BY <2>1, EmitFacts
  <2>3. Emit(Emit(c, 1), 1) = Emit(c, 2) /\ Emit(Emit(c, 2), 1) = Emit(c, 3)
        /\ Emit(Emit(c, 2), -1) = Emit(c, 1) /\ Emit(Emit(c, 1), -1) = Emit(c, 0)
        /\ Emit(Emit(c, 3), -3) = Emit(c, 0)
    <3>1. /\ Emit(Emit(c, 1), 1) = Emit(c, 1 + 1) /\ Emit(Emit(c, 2), 1) = Emit(c, 2 + 1)
          /\ Emit(Emit(c, 2), -1) = Emit(c, 2 + (-1)) /\ Emit(Emit(c, 1), -1) = Emit(c, 1 + (-1))
          /\ Emit(Emit(c, 3), -3) = Emit(c, 3 + (-3))
      <4>1. 1 \in Int /\ 2 \in Int /\ 3 \in Int /\ -1 \in Int /\ -3 \in Int
        OBVIOUS
      <4>. QED  BY <2>2, <4>1, Zenon
    <3>2. 1 + 1 = 2 /\ 2 + 1 = 3 /\ 2 + (-1) = 1 /\ 1 + (-1) = 0 /\ 3 + (-3) = 0
      OBVIOUS
    <3>. QED  BY <3>1, <3>2
  <2>. QED  BY <2>2, <2>3
<1>5. /\ compileExpr(c) = {Emit(c, 1)}
      /\ compileExpr(Emit(c, 1)) = {Emit(Emit(c, 1), 1)}
      /\ compileExpr(Emit(Emit(c, 1), 1)) = {Emit(Emit(Emit(c, 1), 1), 1)}
  <2>1. /\ c \in CtxType /\ Emit(c, 1) \in CtxType /\ Emit(Emit(c, 1), 1) \in CtxType
    BY <1>3, ExprFacts
  <2>. QED  BY <2>1, ExprFacts
<1>6. ASSUME ReplExprStmt PROVE Set(c)
  <2>. DEFINE H == c.heights
              V == Emit(c, 1).heights
              test == Popped(Value(Value(V)))
              null == Popped(Popped(test))
              shown == Shift(Popped(test), -1)
  <2>1. V = Shift(H, 1) /\ V \in Heights /\ Shift(V, -1) = H
    <3>1. V = Shift(H, 1)
      BY <1>3, EmitFacts
    <3>2. H \in Heights
      BY <1>3
    <3>. HIDE DEF V, H
    <3>3. Shift(H, 1) \in Heights /\ Shift(Shift(H, 1), -1) = Shift(H, 1 + (-1)) /\ Shift(H, 0) = H
      BY <3>2, ShiftFacts
    <3>. QED  BY <3>1, <3>3
  <2>2. Set(Only(Emit(c, 1), null \union shown))
    BY <1>5, <1>6 DEF ReplExprStmt
  <2>. HIDE DEF V
  <2>3. Popped(test) = V
    <3>1. /\ Shift(Shift(V, 1), 1) = Shift(V, 2) /\ Shift(Shift(V, 2), -1) = Shift(V, 1)
          /\ Shift(Shift(V, 1), -1) = Shift(V, 0) /\ Shift(V, 0) = V
      BY <2>1, ShiftFacts
    <3>. QED  BY <3>1 DEF Popped, Value
  <2>4. null = H /\ shown = H
    BY <2>1, <2>3 DEF Popped
  <2>5. Only(Emit(c, 1), H) = c
    BY <1>3 DEF Only, Emit, CtxType
  <2>. QED  BY <2>2, <2>4, <2>5
<1>7. ASSUME LetGlobal \/ Assign \/ PrintStmt \/ ExprStmt PROVE Set(c)
  <2>1. \E d \in compileExpr(c) : Set(Emit(d, -1))
    BY <1>7 DEF LetGlobal, Assign, PrintStmt, ExprStmt
  <2>. HIDE DEF c
  <2>. QED  BY <1>4, <1>5, <2>1
<1>8. ASSUME CompoundAssign PROVE Set(c)
  <2>1. \E d \in compileExpr(Emit(c, 1)) : Set(Emit(Emit(d, -1), -1))
    BY <1>8 DEF CompoundAssign
  <2>. HIDE DEF c
  <2>. QED  BY <1>4, <1>5, <2>1
<1>9. ASSUME SetIndex PROVE Set(c)
  <2>1. \E p \in compileExpr(c) : \E q \in compileExpr(p) : \E d \in compileExpr(q) : Set(Emit(d, -3))
    BY <1>9 DEF SetIndex
  <2>. HIDE DEF c
  <2>. QED  BY <1>4, <1>5, <2>1
<1>10. ctxs' = ctxs
  BY <1>1, <1>6, <1>7, <1>8, <1>9, SetSame
<1>. QED  BY <1>1, <1>10, SameInv

\* After an instruction that does not go on to the next no execution arrives.
LEMMA DeadOK ==
  ASSUME NEW below, NEW mk, Now(below, mk), NEW L \in Seq(LoopType), Len(L) = Len(loop_stack),
         \A l \in 1..below[Len(ctxs)] : L[l] = loop_stack[l],
         \A l \in below[Len(ctxs)] + 1..Len(L) : L[l].context = Len(ctxs),
         \A j \in 1..Len(Cur.open) :
           StatementOK(Cur, Len(ctxs), Cur.open[j], mk[j], mk[j + 1], L),
         Set(Dead(Cur)), loop_stack' = L, import_stack' = import_stack
  PROVE  Inv'
<1>. DEFINE c == Cur
            d == Dead(c)
<1>1. c \in CtxType
  BY NowFacts
<1>2. /\ d \in CtxType /\ d.kind = c.kind /\ d.scope_depth = c.scope_depth
      /\ d.locals = c.locals /\ d.open = c.open /\ d.heights = {}
  BY <1>1 DEF Dead, CtxType, Heights
<1>3. CtxOK(c, Len(ctxs), below[Len(ctxs)], Len(L), mk, loop_stack)
  BY DEF Now
<1>. HIDE DEF c, d
<1>4. CtxOK(d, Len(ctxs), below[Len(ctxs)], Len(L), mk, L)
  BY <1>2, <1>3, KeepOK DEF c
<1>. QED  BY <1>2, <1>4, SetInv DEF c, d

LEMMA ReturnInv ==
  ASSUME Inv, Return
  PROVE  Inv'
<1>1. Compiling /\ loop_stack' = loop_stack /\ import_stack' = import_stack
  BY DEF Return, SameLoops, SameImports, Compiling
<1>2. PICK below, mk : Now(below, mk)
  BY <1>1, InvNow
<1>3. Cur \in CtxType
  BY <1>2, NowFacts
<1>4. Set(Dead(Cur))
  <2>1. Set(Dead(Emit(Cur, 1)))
    BY <1>3, ExprFacts DEF Return
  <2>2. Dead(Emit(Cur, 1)) = Dead(Cur)
    BY <1>3 DEF Dead, Emit, CtxType
  <2>. QED  BY <2>1, <2>2
<1>5. CtxOK(Cur, Len(ctxs), below[Len(ctxs)], Len(loop_stack), mk, loop_stack)
  BY <1>2 DEF Now
<1>6. /\ \A l \in below[Len(ctxs)] + 1..Len(loop_stack) : loop_stack[l].context = Len(ctxs)
      /\ \A j \in 1..Len(Cur.open) :
           StatementOK(Cur, Len(ctxs), Cur.open[j], mk[j], mk[j + 1], loop_stack)
  BY <1>5, SameStatements
<1>. QED  BY <1>1, <1>2, <1>4, <1>6, NowFacts, DeadOK

-----------------------------------------------------------------------------
(* Statements that begin. *)

Here(mk) == mk[Len(Cur.open) + 1]

\* The local whose value was put where the stack was as high as h.
Slot(depth, h) == [depth |-> depth, const |-> FALSE, at |-> h]

LEMMA HereFacts ==
  ASSUME NEW below, NEW mk, Now(below, mk)
  PROVE  /\ Cur \in CtxType /\ Cur.locals \in Seq(LocalType) /\ Cur.open \in Seq(OpenType)
         /\ Cur.heights \in Heights /\ Cur.scope_depth \in Nat /\ Cur.is_const \in [Slots -> BOOLEAN]
         /\ Len(Cur.locals) \in Nat /\ Len(Cur.open) \in Nat /\ Len(Cur.locals) <= LocalsMax
         /\ Here(mk) \in Mark /\ Here(mk).depth = Cur.scope_depth
         /\ Here(mk).locals = Len(Cur.locals) /\ Here(mk).loops = Len(loop_stack)
         /\ Len(loop_stack) \in Nat
         /\ Here(mk).dead \in BOOLEAN
         /\ Cur.heights \subseteq Level(Cur, Here(mk), Len(Cur.locals))
         /\ Split(Cur.locals, Cur.scope_depth, Len(Cur.locals))
         /\ Cur.kind = "module" => Cur.locals = <<>>
         /\ \A x, y : Grows(Cur.locals, Cur.locals, x, y)
         /\ LocalsMax \in Nat
<1>1. CtxOK(Cur, Len(ctxs), below[Len(ctxs)], Len(loop_stack), mk, loop_stack)
  BY DEF Now
<1>2. /\ Cur \in CtxType /\ Cur.locals \in Seq(LocalType) /\ Cur.open \in Seq(OpenType)
      /\ Cur.heights \in Heights /\ Cur.scope_depth \in Nat /\ Cur.is_const \in [Slots -> BOOLEAN]
      /\ Len(Cur.locals) \in Nat /\ Len(Cur.open) \in Nat /\ Len(Cur.locals) <= LocalsMax
      /\ Len(loop_stack) \in Nat
      /\ Cur.heights \subseteq Level(Cur, Here(mk), Len(Cur.locals))
      /\ Split(Cur.locals, Cur.scope_depth, Len(Cur.locals))
  BY <1>1, CtxFacts DEF Here
<1>3. Len(Cur.open) + 1 \in 1..Len(Cur.open) + 1
  BY <1>2
<1>4. /\ Here(mk) \in Mark /\ Here(mk).depth = Cur.scope_depth
      /\ Here(mk).locals = Len(Cur.locals) /\ Here(mk).loops = Len(loop_stack)
      /\ Here(mk).dead \in BOOLEAN
  BY SMTT(30), <1>1, <1>3, CtxFacts DEF Here
<1>5. Cur.kind = "module" => Cur.locals = <<>>
  BY <1>1 DEF CtxOK
<1>6. \A x, y : Grows(Cur.locals, Cur.locals, x, y)
  BY <1>2 DEF Grows
<1>. QED  BY <1>2, <1>4, <1>5, <1>6, CompilerAssumption

LEMMA BeginInv ==
  ASSUME NEW below, NEW mk, Now(below, mk), NEW c, c = Cur, NEW m, m = Here(mk),
         NEW s \in OpenType, NEW n \in Mark, NEW l, NEW h \in Heights, NEW L \in Seq(LoopType),
         NEW d, d = With(c, n.depth, l, h, Append(c.open, s)),
         Grows(c.locals, l, c.scope_depth, n.depth), n.locals = Len(l),
         c.kind = "module" => l = <<>>,
         h \subseteq Level(c, n, Len(l)),
         StatementOK(d, Len(ctxs), s, m, n, L),
         Len(L) = n.loops,
         \A j \in 1..Len(loop_stack) : L[j] = loop_stack[j],
         s.node \in Loopy => L[Len(loop_stack) + 1].context = Len(ctxs),
         Set(d), loop_stack' = L, import_stack' = import_stack
  PROVE  Inv'
<1>. DEFINE i == Len(ctxs)
            lo == below[i]
            hi == Len(loop_stack)
<1>1. CtxOK(c, i, lo, hi, mk, loop_stack)
  BY DEF Now
<1>2. lo \in Nat /\ hi \in Nat /\ lo <= hi
  BY <1>1, CtxFacts
<1>3. d.kind = c.kind
  BY <1>1, CtxFacts DEF With, CtxType
<1>4. /\ \A j \in lo + 1..hi : L[j] = loop_stack[j]
      /\ \A j \in 1..lo : L[j] = loop_stack[j]
  <2>. HIDE DEF lo, hi
  <2>1. /\ \A j \in lo + 1..hi : j \in 1..hi
        /\ \A j \in 1..lo : j \in 1..hi
    BY <1>2
  <2>. QED  BY <2>1 DEF hi
<1>5. CtxOK(d, i, lo, Len(L), Append(mk, n), L)
  <2>1. /\ StatementOK(With(c, n.depth, l, h, Append(c.open, s)), i, s, mk[Len(c.open) + 1], n, L)
        /\ s.node \in Loopy => L[hi + 1].context = i
    BY DEF Here
  <2>. HIDE DEF i, lo, hi
  <2>2. CtxOK(With(c, n.depth, l, h, Append(c.open, s)), i, lo, n.loops, Append(mk, n), L)
    BY <1>1, <1>4, <2>1, OpenOK
  <2>. QED  BY <2>2
<1>6. CtxOK(d, Len(ctxs), below[Len(ctxs)], Len(L), Append(mk, n), L)
  BY <1>5
<1>. QED  BY <1>3, <1>4, <1>6, SetInv

\* The value of an expression becomes a local.
LEMMA DeclareFacts ==
  ASSUME NEW c \in CtxType, NEW d \in Nat, NEW l \in Seq(LocalType), NEW h \in Heights,
         NEW o \in Seq(OpenType)
  PROVE  LET w == With(c, d, l, h, o) IN
         /\ addLocal(Emit(w, 1)) = With(c, d, Append(l, Slot(d, h)), Shift(h, 1), o)
         /\ Slot(d, h) \in LocalType
         /\ Append(l, Slot(d, h)) \in Seq(LocalType)
         /\ Len(Append(l, Slot(d, h))) = Len(l) + 1
         /\ Shift(h, 1) \in Heights
         /\ compileExpr(w) = {Emit(w, 1)}
<1>. DEFINE w == With(c, d, l, h, o)
<1>1. w \in CtxType
  BY WithType
<1>2. Emit(w, 1) = With(c, d, l, Shift(h, 1), o)
  BY DEF Emit, With, CtxType
<1>3. addLocal(With(c, d, l, Shift(h, 1), o)) =
        With(c, d, Append(l, [depth |-> d, const |-> FALSE, at |-> Popped(Shift(h, 1))]), Shift(h, 1), o)
  BY DEF addLocal, Local, With, CtxType
<1>4. Shift(h, 1) \in Heights /\ Popped(Shift(h, 1)) = h
  <2>1. Shift(Shift(h, 1), -1) = Shift(h, 1 + (-1)) /\ Shift(h, 1) \in Heights /\ Shift(h, 0) = h
    BY ShiftFacts
  <2>. QED  BY <2>1 DEF Popped
<1>5. Slot(d, h) \in LocalType
  BY DEF Slot, LocalType
<1>6. addLocal(Emit(w, 1)) = With(c, d, Append(l, Slot(d, h)), Shift(h, 1), o)
  BY <1>2, <1>3, <1>4 DEF Slot
<1>7. compileExpr(w) = {Emit(w, 1)}
  BY <1>1, ExprFacts
<1>. QED  BY <1>4, <1>5, <1>6, <1>7, AppendFacts

LEMMA GrowsOne ==
  ASSUME NEW l \in Seq(LocalType), NEW l2, NEW d \in Int, NEW e \in Int, Grows(l, l2, d, e),
         NEW x \in Nat, d < x, x <= e, NEW h \in Heights, h \subseteq {Len(l2)},
         Len(l2) < LocalsMax
  PROVE  /\ Grows(l, Append(l2, Slot(x, h)), d, e)
         /\ Len(Append(l2, Slot(x, h))) = Len(l2) + 1
<1>. DEFINE a == Append(l2, Slot(x, h))
<1>1. Slot(x, h) \in LocalType /\ Slot(x, h).depth = x /\ Slot(x, h).at = h
  BY DEF Slot, LocalType
<1>2. /\ l2 \in Seq(LocalType) /\ Len(l2) \in Nat /\ Len(l) \in Nat /\ Len(l) <= Len(l2)
      /\ \A k \in 1..Len(l) : l2[k] = l[k]
      /\ \A k \in Len(l) + 1..Len(l2) :
           l2[k].depth > d /\ l2[k].depth <= e /\ l2[k].at \subseteq {k - 1}
  BY LenProperties DEF Grows
<1>3. /\ a \in Seq(LocalType) /\ Len(a) = Len(l2) + 1
      /\ \A k \in 1..Len(l2) : a[k] = l2[k]
      /\ a[Len(l2) + 1] = Slot(x, h)
  BY <1>1, <1>2, AppendFacts
<1>. HIDE DEF a
<1>4. LocalsMax \in Nat
  BY CompilerAssumption
<1>5. \A k \in 1..Len(l) : a[k] = l[k]
  <2>1. \A k \in 1..Len(l) : k \in 1..Len(l2)
    BY <1>2
  <2>. QED  BY <1>2, <1>3, <2>1
<1>6. ASSUME NEW k \in Len(l) + 1..Len(a)
      PROVE  a[k].depth > d /\ a[k].depth <= e /\ a[k].at \subseteq {k - 1}
  <2>1. CASE k \in Len(l) + 1..Len(l2)
    <3>1. k \in 1..Len(l2)
      BY <1>2, <2>1
    <3>. QED  BY <1>2, <1>3, <2>1, <3>1
  <2>2. CASE k = Len(l2) + 1
    <3>1. a[k].depth = x /\ a[k].at = h /\ k - 1 = Len(l2)
      BY <1>1, <1>2, <1>3, <2>2
    <3>. QED  BY <3>1
  <2>. QED  BY <1>2, <1>3, <2>1, <2>2
<1>7. Len(a) <= LocalsMax
  BY <1>2, <1>3, <1>4
<1>8. Grows(l, a, d, e)
  BY <1>2, <1>3, <1>5, <1>6, <1>7 DEF Grows
<1>. QED  BY <1>3, <1>8 DEF a

\* Whatever a statement takes the context to, heights are counted as in it.
LEMMA LevelSame ==
  ASSUME NEW c, NEW d, d.kind = c.kind, NEW m, NEW n, n.dead = m.dead
  PROVE  \A x : Level(d, n, x) = Level(c, m, x)
  BY DEF Level, Base

LEMMA LevelAt ==
  ASSUME NEW below, NEW mk, Now(below, mk), NEW a \in Int
  PROVE  Shift(Cur.heights, a) \subseteq Level(Cur, Here(mk), Len(Cur.locals) + a)
<1>1. Cur.heights \subseteq Level(Cur, Here(mk), Len(Cur.locals)) /\ Len(Cur.locals) \in Int
  BY HereFacts
<1>. QED  BY <1>1, LevelShift

\* An if, a try or a when begins.
LEMMA PlainInv ==
  ASSUME NEW below, NEW mk, Now(below, mk), NEW c, c = Cur, NEW m, m = Here(mk),
         NEW node \in {"if", "try", "when"}, NEW jump \in Heights, NEW l, NEW h \in Heights,
         NEW d, d = With(c, c.scope_depth + 1, l, h,
                         Append(c.open, [node |-> node, jump |-> jump, end |-> {}])),
         Grows(c.locals, l, c.scope_depth, c.scope_depth + 1),
         c.kind = "module" => l = <<>>,
         h \subseteq Level(c, m, Len(l)),
         node \in {"if", "try"} => jump \subseteq Level(c, m, Len(c.locals) + 1),
         node = "when" => Len(l) > Len(c.locals),
         Set(d), loop_stack' = loop_stack, import_stack' = import_stack
  PROVE  Inv'
<1>. DEFINE s == [node |-> node, jump |-> jump, end |-> {}]
            n == [depth |-> c.scope_depth + 1, locals |-> Len(l), loops |-> Len(loop_stack), dead |-> m.dead]
<1>1. /\ c \in CtxType /\ c.scope_depth \in Nat /\ Len(c.locals) \in Nat
      /\ m \in Mark /\ m.depth = c.scope_depth /\ m.locals = Len(c.locals)
      /\ m.loops = Len(loop_stack) /\ Len(loop_stack) \in Nat /\ m.dead \in BOOLEAN
      /\ loop_stack \in Seq(LoopType)
  BY HereFacts, NowFacts
<1>2. l \in Seq(LocalType) /\ Len(l) \in Nat
  BY LenProperties DEF Grows
<1>3. s \in OpenType /\ n \in Mark
  <2>1. s \in OpenType
    BY DEF OpenType, Node, Heights
  <2>2. n \in Mark
    BY <1>1, <1>2 DEF Mark
  <2>. QED  BY <2>1, <2>2
<1>4. d.kind = c.kind
  BY <1>1 DEF With, CtxType
<1>5. StatementOK(d, Len(ctxs), s, m, n, loop_stack)
  <2>1. \A x : Level(d, n, x) = Level(c, m, x)
    BY <1>4, LevelSame
  <2>2. node \in {"if", "try"} => jump \subseteq Level(d, n, m.locals + 1)
    <3>. HIDE DEF n
    <3>. QED  BY <1>1, <2>1
  <2>3. /\ n.depth = m.depth + 1 /\ n.loops = m.loops + 0 /\ n.dead = m.dead /\ n.locals = Len(l)
        /\ s.node = node /\ s.jump = jump /\ s.end = {}
        /\ m.locals = Len(c.locals)
    BY <1>1
  <2>4. n.dead = (m.dead \/ s.node \in {"up", "down"})
    BY <1>1
  <2>. HIDE DEF s, n
  <2>5. Scopes(s.node) = 1 /\ s.node \notin Loopy /\ m.loops + 0 = m.loops + (IF s.node \in Loopy THEN 1 ELSE 0)
    BY <2>3 DEF Scopes, Loopy
  <2>. QED  BY <2>2, <2>3, <2>4, <2>5 DEF StatementOK
<1>6. /\ n.locals = Len(l) /\ n.depth = c.scope_depth + 1 /\ n.loops = Len(loop_stack)
      /\ s.node \notin Loopy /\ d = With(c, n.depth, l, h, Append(c.open, s))
  BY DEF Loopy
<1>7. Level(c, n, Len(l)) = Level(c, m, Len(l))
  BY DEF Level
<1>. HIDE DEF s, n
<1>8. /\ Len(loop_stack) = n.loops
      /\ \A j \in 1..Len(loop_stack) : loop_stack[j] = loop_stack[j]
      /\ s.node \in Loopy => loop_stack[Len(loop_stack) + 1].context = Len(ctxs)
      /\ Grows(c.locals, l, c.scope_depth, n.depth)
      /\ h \subseteq Level(c, n, Len(l))
  BY <1>6, <1>7
<1>. QED  BY <1>1, <1>3, <1>5, <1>6, <1>8, BeginInv

\* A loop begins, with the record r.
LEMMA LoopInv ==
  ASSUME NEW below, NEW mk, Now(below, mk), NEW c, c = Cur, NEW m, m = Here(mk),
         NEW s \in OpenType, s.node \in Loopy, s.jump = {}, s.end = {},
         NEW n \in Mark, NEW l, NEW h \in Heights, NEW r \in LoopType,
         NEW d, d = With(c, n.depth, l, h, Append(c.open, s)),
         n.depth = c.scope_depth + Scopes(s.node), n.locals = Len(l),
         n.loops = Len(loop_stack) + 1, n.dead = (m.dead \/ s.node \in {"up", "down"}),
         Grows(c.locals, l, c.scope_depth, n.depth),
         c.kind = "module" => l = <<>>,
         h \subseteq Level(c, n, Len(l)),
         r.context = Len(ctxs), LoopOK(d, s.node, m, n, r),
         Set(d), PushLoop(r)
  PROVE  Inv'
<1>. DEFINE k == Len(loop_stack)
            L == Append(loop_stack, r)
<1>1. loop_stack' = L /\ import_stack' = import_stack
  BY DEF PushLoop, SameImports
<1>2. /\ c \in CtxType /\ c.scope_depth \in Nat /\ Len(c.locals) \in Nat
      /\ m \in Mark /\ m.depth = c.scope_depth /\ m.locals = Len(c.locals)
      /\ m.loops = k /\ k \in Nat /\ m.dead \in BOOLEAN
      /\ loop_stack \in Seq(LoopType)
  BY HereFacts, NowFacts
<1>3. /\ L \in Seq(LoopType) /\ Len(L) = k + 1 /\ L[k + 1] = r
      /\ \A j \in 1..k : L[j] = loop_stack[j]
  BY <1>2, AppendFacts
<1>. HIDE DEF L
<1>4. L[n.loops] = r
  BY <1>3
<1>5. StatementOK(d, Len(ctxs), s, m, n, L)
  BY <1>2, <1>4 DEF StatementOK, Loopy
<1>6. Len(L) = n.loops /\ (s.node \in Loopy => L[Len(loop_stack) + 1].context = Len(ctxs))
  BY <1>3
<1>. QED  BY <1>1, <1>2, <1>3, <1>5, <1>6, BeginInv

LEMMA IfInv ==
  ASSUME Inv, If
  PROVE  Inv'
<1>1. Compiling /\ loop_stack' = loop_stack /\ import_stack' = import_stack
  BY DEF If, CanNest, SameLoops, SameImports
<1>2. PICK below, mk : Now(below, mk)
  BY <1>1, InvNow
<1>. DEFINE c == Cur
            m == Here(mk)
            H == c.heights
            l == c.locals
            s == [node |-> "if", jump |-> Shift(H, 1), end |-> {}]
            d == With(c, c.scope_depth + 1, l, H, Append(c.open, s))
<1>3. /\ c \in CtxType /\ H \in Heights /\ H \subseteq Level(c, m, Len(l))
      /\ c.kind = "module" => l = <<>>
      /\ Grows(l, l, c.scope_depth, c.scope_depth + 1)
  BY <1>2, HereFacts
<1>4. Shift(Shift(H, 1), -1) = H /\ Shift(H, 1) \in Heights
  BY <1>3, ShiftBack
<1>5. Set(d)
  <2>1. Set(Open(beginScope(Emit(Emit(c, 1), -1)), "if", Emit(c, 1).heights))
    BY <1>3, ExprFacts DEF If
  <2>2. Emit(c, 1).heights = Shift(H, 1)
    BY <1>3, EmitFacts
  <2>3. Open(beginScope(Emit(Emit(c, 1), -1)), "if", Shift(H, 1)) =
          With(c, c.scope_depth + 1, l, Shift(Shift(H, 1), -1), Append(c.open, s))
    BY <1>3 DEF Open, beginScope, Emit, With, CtxType
  <2>. QED  BY <1>4, <2>1, <2>2, <2>3
<1>6. Shift(H, 1) \subseteq Level(c, m, Len(l) + 1)
  BY <1>2, LevelAt
<1>7. c = Cur /\ m = Here(mk) /\ l = c.locals
      /\ d = With(c, c.scope_depth + 1, l, H, Append(c.open, [node |-> "if", jump |-> Shift(H, 1), end |-> {}]))
  OBVIOUS
<1>. HIDE DEF d, c, m, H, l
<1>. QED  BY <1>1, <1>2, <1>3, <1>4, <1>5, <1>6, <1>7, PlainInv

LEMMA TryInv ==
  ASSUME Inv, Try
  PROVE  Inv'
<1>1. Compiling /\ loop_stack' = loop_stack /\ import_stack' = import_stack
  BY DEF Try, CanNest, SameLoops, SameImports
<1>2. PICK below, mk : Now(below, mk)
  BY <1>1, InvNow
<1>. DEFINE c == Cur
            m == Here(mk)
            H == c.heights
            l == c.locals
            d == With(c, c.scope_depth + 1, l, H,
                      Append(c.open, [node |-> "try", jump |-> Shift(H, 1), end |-> {}]))
<1>3. /\ c \in CtxType /\ H \in Heights /\ H \subseteq Level(c, m, Len(l))
      /\ c.kind = "module" => l = <<>>
      /\ Grows(l, l, c.scope_depth, c.scope_depth + 1)
  BY <1>2, HereFacts
<1>4. Shift(H, 1) \in Heights
  BY <1>3, ShiftBack
<1>5. Set(d)
  <2>1. Set(Open(beginScope(c), "try", Shift(H, 1)))
    BY <1>3 DEF Try, Value
  <2>2. Open(beginScope(c), "try", Shift(H, 1)) = d
    BY <1>3 DEF Open, beginScope, With, CtxType
  <2>. QED  BY <2>1, <2>2
<1>6. Shift(H, 1) \subseteq Level(c, m, Len(l) + 1)
  BY <1>2, LevelAt
<1>7. c = Cur /\ m = Here(mk) /\ l = c.locals
      /\ d = With(c, c.scope_depth + 1, l, H, Append(c.open, [node |-> "try", jump |-> Shift(H, 1), end |-> {}]))
  OBVIOUS
<1>. HIDE DEF d, c, m, H, l
<1>. QED  BY <1>1, <1>2, <1>3, <1>4, <1>5, <1>6, <1>7, PlainInv

\* What is declared without a module around it has the slot of its value.
LEMMA SlotLevel ==
  ASSUME NEW c, c.kind # "module", NEW m, NEW k \in Int, NEW h, h \subseteq Level(c, m, k)
  PROVE  h \subseteq {k}
<1>1. Base(c) = 0 /\ 0 + k = k
  BY DEF Base
<1>. QED  BY <1>1 DEF Level

LEMMA DeclareRoom ==
  ASSUME SafeShapes, NEW n \in Nat, CanDeclare(n), NEW below, NEW mk, Now(below, mk)
  PROVE  Cur.kind # "module" /\ Len(Cur.locals) + n <= LocalsMax
  BY DEF SafeShapes, CanDeclare, Room

LEMMA WhenInv ==
  ASSUME Inv, SafeShapes, When
  PROVE  Inv'
<1>1. Compiling /\ loop_stack' = loop_stack /\ import_stack' = import_stack
  BY DEF When, CanNest, SameLoops, SameImports
<1>2. PICK below, mk : Now(below, mk)
  BY <1>1, InvNow
<1>. DEFINE c == Cur
            m == Here(mk)
            H == c.heights
            x == c.scope_depth + 1
            l == Append(c.locals, Slot(x, H))
            s == [node |-> "when", jump |-> {}, end |-> {}]
            d == With(c, x, l, Shift(H, 1), Append(c.open, s))
<1>3. /\ c \in CtxType /\ H \in Heights /\ H \subseteq Level(c, m, Len(c.locals))
      /\ c.locals \in Seq(LocalType) /\ c.open \in Seq(OpenType)
      /\ c.scope_depth \in Nat /\ Len(c.locals) \in Nat /\ LocalsMax \in Nat
      /\ Grows(c.locals, c.locals, c.scope_depth, x)
  BY <1>2, HereFacts
<1>4. c.kind # "module" /\ Len(c.locals) < LocalsMax
  <2>1. c.kind # "module" /\ Len(c.locals) + 1 <= LocalsMax
    BY <1>2, DeclareRoom DEF When
  <2>. QED  BY <1>3, <2>1
<1>5. x \in Nat /\ c.scope_depth < x /\ x <= x /\ x \in Int /\ c.scope_depth \in Int
  BY <1>3
<1>6. H \subseteq {Len(c.locals)}
  BY <1>3, <1>4, SlotLevel
<1>7. beginScope(c) = With(c, x, c.locals, H, c.open)
  BY <1>3 DEF beginScope, With, CtxType
<1>8. Shift(H, 1) \subseteq Level(c, m, Len(c.locals) + 1)
  BY <1>2, LevelAt
<1>9. c = Cur /\ m = Here(mk) /\ \E e \in compileExpr(beginScope(c)) : Set(Open(addLocal(e), "when", {}))
  BY DEF When
<1>. HIDE DEF c, m, H, x
<1>10. /\ \A e \in compileExpr(beginScope(c)) : addLocal(e) = With(c, x, l, Shift(H, 1), c.open)
       /\ Shift(H, 1) \in Heights
  BY <1>3, <1>5, <1>7, DeclareFacts
<1>11. Set(d)
  <2>1. Set(Open(With(c, x, l, Shift(H, 1), c.open), "when", {}))
    BY <1>9, <1>10
  <2>2. Open(With(c, x, l, Shift(H, 1), c.open), "when", {}) = d
    BY <1>3 DEF Open, With, CtxType
  <2>. QED  BY <2>1, <2>2
<1>12. Grows(c.locals, l, c.scope_depth, x) /\ Len(l) = Len(c.locals) + 1
  BY <1>3, <1>4, <1>5, <1>6, GrowsOne
<1>13. Len(l) > Len(c.locals) /\ {} \in Heights /\ Shift(H, 1) \subseteq Level(c, m, Len(l))
  BY <1>3, <1>8, <1>12 DEF Heights
<1>14. /\ d = With(c, c.scope_depth + 1, l, Shift(H, 1),
                   Append(c.open, [node |-> "when", jump |-> {}, end |-> {}]))
       /\ Grows(c.locals, l, c.scope_depth, c.scope_depth + 1)
  BY <1>12 DEF x
<1>. HIDE DEF d, l
<1>. QED  BY <1>1, <1>2, <1>4, <1>9, <1>10, <1>11, <1>13, <1>14, PlainInv

LEMMA LoopFacts ==
  ASSUME NEW c, NEW o, NEW start \in Heights, c.scope_depth \in Nat,
         Len(c.locals) \in Nat, Len(o.locals) \in Nat, Len(ctxs) \in Nat
  PROVE  LET r == Loop(c, start, o) IN
         /\ r \in LoopType /\ r.context = Len(ctxs) /\ r.start = start
         /\ r.scope_depth = c.scope_depth /\ r.local_count = Len(c.locals)
         /\ r.outer_local_count = Len(o.locals) /\ r.breaks = {} /\ r.continues = {}
  BY DEF Loop, LoopType, Heights

LEMMA WhileInv ==
  ASSUME Inv, While
  PROVE  Inv'
<1>1. Compiling
  BY DEF While, CanNest
<1>2. PICK below, mk : Now(below, mk)
  BY <1>1, InvNow
<1>. DEFINE c == Cur
            m == Here(mk)
            H == c.heights
            l == c.locals
            k == Len(loop_stack)
            s == [node |-> "loop", jump |-> {}, end |-> {}]
            n == [depth |-> c.scope_depth + 1, locals |-> Len(l), loops |-> k + 1, dead |-> m.dead]
            d == With(c, c.scope_depth + 1, l, H, Append(c.open, s))
            r == Loop(c, H, c)
<1>3. /\ c \in CtxType /\ H \in Heights /\ H \subseteq Level(c, m, Len(l))
      /\ c.kind = "module" => l = <<>>
      /\ Grows(l, l, c.scope_depth, c.scope_depth + 1)
      /\ c.scope_depth \in Nat /\ Len(l) \in Nat /\ k \in Nat
      /\ m.depth = c.scope_depth /\ m.locals = Len(l) /\ m.dead \in BOOLEAN
  BY <1>2, HereFacts
<1>4. Shift(Shift(H, 1), -1) = H /\ Shift(H, 1) \in Heights
  BY <1>3, ShiftBack
<1>5. Set(d)
  <2>1. Set(Open(beginScope(Emit(Emit(c, 1), -1)), "loop", {}))
    BY <1>3, ExprFacts DEF While
  <2>2. Open(beginScope(Emit(Emit(c, 1), -1)), "loop", {}) =
          With(c, c.scope_depth + 1, l, Shift(Shift(H, 1), -1), Append(c.open, s))
    BY <1>3 DEF Open, beginScope, Emit, With, CtxType
  <2>. QED  BY <1>4, <2>1, <2>2
<1>6. PushLoop(r)
  BY DEF While
<1>7. /\ r \in LoopType /\ r.context = Len(ctxs) /\ r.start = H
      /\ r.scope_depth = c.scope_depth /\ r.local_count = Len(l)
      /\ r.outer_local_count = Len(l) /\ r.breaks = {} /\ r.continues = {}
  <2>1. Len(ctxs) \in Nat
    BY <1>2, NowFacts
  <2>. HIDE DEF c, H
  <2>. QED  BY <1>3, <2>1, LoopFacts
<1>8. /\ s \in OpenType /\ s.node = "loop" /\ s.jump = {} /\ s.end = {}
  BY DEF OpenType, Node, Heights
<1>9. /\ n \in Mark /\ n.depth = c.scope_depth + 1 /\ n.locals = Len(l) /\ n.loops = k + 1
  BY <1>3 DEF Mark
<1>10. n.dead = m.dead
  OBVIOUS
<1>11. d = With(c, n.depth, l, H, Append(c.open, s)) /\ c = Cur /\ m = Here(mk)
       /\ k = Len(loop_stack)
  OBVIOUS
<1>12. d.kind = c.kind
  BY <1>3 DEF With, CtxType
<1>. HIDE DEF c, m, H, l, k, s, n, d, r
<1>13. \A x : Level(d, n, x) = Level(c, m, x) /\ Level(c, n, x) = Level(c, m, x)
  BY <1>10, <1>12 DEF Level, Base
<1>14. LoopOK(d, s.node, m, n, r)
  BY <1>3, <1>7, <1>8, <1>13 DEF LoopOK
<1>15. n.depth = c.scope_depth + Scopes(s.node) /\ s.node \in Loopy
  BY <1>8, <1>9 DEF Scopes, Loopy
<1>16. n.dead = (m.dead \/ s.node \in {"up", "down"})
  BY <1>3, <1>8, <1>10
<1>17. H \subseteq Level(c, n, Len(l)) /\ Grows(c.locals, l, c.scope_depth, n.depth)
       /\ n.loops = Len(loop_stack) + 1
  BY <1>3, <1>9, <1>11, <1>13 DEF l
<1>. QED  BY SMTT(30), <1>2, <1>3, <1>5, <1>6, <1>7, <1>8, <1>9, <1>11, <1>14, <1>15, <1>16, <1>17, LoopInv

\* The three locals a for declares, the last in a scope y of its own or in that
\* of the others.
One(c) == Append(c.locals, Slot(c.scope_depth + 1, c.heights))
Two(c) == Append(One(c), Slot(c.scope_depth + 1, Shift(c.heights, 1)))
Three(c, y) == Append(Two(c), Slot(y, Shift(c.heights, 2)))

LEMMA ThreeFacts ==
  ASSUME SafeShapes, NEW below, NEW mk, Now(below, mk), CanDeclare(3), NEW c, c = Cur,
         NEW m, m = Here(mk), NEW y \in {c.scope_depth + 1, c.scope_depth + 2}
  PROVE  /\ One(c) \in Seq(LocalType) /\ Two(c) \in Seq(LocalType) /\ Three(c, y) \in Seq(LocalType)
         /\ Grows(c.locals, Three(c, y), c.scope_depth, y)
         /\ Len(Three(c, y)) = Len(c.locals) + 3
         /\ y = c.scope_depth + 2 => Split(Three(c, y), c.scope_depth + 1, Len(c.locals) + 2)
         /\ c.kind # "module"
         /\ \A a \in 1..3 : /\ Shift(c.heights, a) \in Heights
                            /\ Shift(c.heights, a) \subseteq Level(c, m, Len(c.locals) + a)
         /\ Shift(Shift(c.heights, 1), 1) = Shift(c.heights, 2)
         /\ Shift(Shift(c.heights, 2), 1) = Shift(c.heights, 3)
<1>. DEFINE l == c.locals
            k == Len(l)
            H == c.heights
            x == c.scope_depth + 1
            H1 == Shift(H, 1)
            H2 == Shift(H, 2)
            l1 == One(c)
            l2 == Two(c)
            l3 == Three(c, y)
<1>1. /\ c \in CtxType /\ H \in Heights /\ H \subseteq Level(c, m, k)
      /\ l \in Seq(LocalType) /\ c.scope_depth \in Nat /\ k \in Nat /\ LocalsMax \in Nat
      /\ Split(l, c.scope_depth, k)
      /\ \A p, q : Grows(l, l, p, q)
  BY HereFacts
<1>2. c.kind # "module" /\ k + 3 <= LocalsMax
  BY DeclareRoom
<1>3. /\ x \in Nat /\ y \in Nat /\ c.scope_depth < x /\ x <= y /\ x \in Int /\ c.scope_depth \in Int
      /\ y \in Int /\ c.scope_depth < y /\ y <= y
  BY <1>1
<1>4. \A a \in 1..3 : Shift(H, a) \in Heights /\ Shift(H, a) \subseteq Level(c, m, k + a)
  <2>1. \A a \in 1..3 : a \in Int
    OBVIOUS
  <2>2. \A a \in Int : Shift(Cur.heights, a) \subseteq Level(Cur, Here(mk), Len(Cur.locals) + a)
    BY LevelAt
  <2>3. \A a \in Int : Shift(H, a) \in Heights
    BY <1>1, ShiftFacts
  <2>. QED  BY <2>1, <2>2, <2>3
<1>5. H1 \in Heights /\ H2 \in Heights /\ H1 \subseteq Level(c, m, k + 1) /\ H2 \subseteq Level(c, m, k + 2)
  BY <1>4
<1>6. H \subseteq {k} /\ H1 \subseteq {k + 1} /\ H2 \subseteq {k + 2}
  <2>1. k \in Int /\ k + 1 \in Int /\ k + 2 \in Int
    BY <1>1
  <2>. HIDE DEF H, H1, H2, k
  <2>. QED  BY <1>1, <1>2, <1>5, <2>1, SlotLevel
<1>7. Shift(H1, 1) = H2 /\ Shift(H2, 1) = Shift(H, 3)
  <2>1. Shift(Shift(H, 1), 1) = Shift(H, 1 + 1) /\ Shift(Shift(H, 2), 1) = Shift(H, 2 + 1)
    <3>1. \A a, b \in Int : Shift(Shift(H, a), b) = Shift(H, a + b)
      BY <1>1, ShiftFacts
    <3>2. 1 \in Int /\ 2 \in Int
      OBVIOUS
    <3>. QED  BY <3>1, <3>2, Zenon
  <2>. QED  BY <2>1
<1>8. l1 = Append(l, Slot(x, H)) /\ l2 = Append(l1, Slot(x, H1)) /\ l3 = Append(l2, Slot(y, H2))
  BY DEF One, Two, Three
<1>9. k < LocalsMax /\ k + 1 < LocalsMax /\ k + 2 < LocalsMax
  BY <1>1, <1>2
<1>. HIDE DEF l, k, H, x, H1, H2, l1, l2, l3
<1>10. Grows(l, l1, c.scope_depth, y) /\ Len(l1) = k + 1
  <2>1. Grows(l, l, c.scope_depth, y) /\ H \subseteq {Len(l)} /\ Len(l) < LocalsMax
    BY <1>1, <1>6, <1>9 DEF k
  <2>2. /\ Grows(l, Append(l, Slot(x, H)), c.scope_depth, y)
        /\ Len(Append(l, Slot(x, H))) = Len(l) + 1
    BY <1>1, <1>3, <2>1, GrowsOne
  <2>. QED  BY <1>8, <2>2 DEF k
<1>11. Grows(l, l2, c.scope_depth, y) /\ Len(l2) = k + 2
  <2>1. H1 \subseteq {Len(l1)} /\ Len(l1) < LocalsMax
    BY <1>6, <1>9, <1>10
  <2>2. /\ Grows(l, Append(l1, Slot(x, H1)), c.scope_depth, y)
        /\ Len(Append(l1, Slot(x, H1))) = Len(l1) + 1
    BY <1>1, <1>3, <1>5, <1>10, <2>1, GrowsOne
  <2>. QED  BY <1>1, <1>8, <1>10, <2>2
<1>12. Grows(l, l2, c.scope_depth, x)
  <2>1. Grows(l, l1, c.scope_depth, x)
    <3>1. Grows(l, l, c.scope_depth, x) /\ H \subseteq {Len(l)} /\ Len(l) < LocalsMax
      BY <1>1, <1>6, <1>9 DEF k
    <3>2. x <= x
      BY <1>3
    <3>3. Grows(l, Append(l, Slot(x, H)), c.scope_depth, x)
      BY <1>1, <1>3, <3>1, <3>2, GrowsOne
    <3>. QED  BY <1>8, <3>3
  <2>2. H1 \subseteq {Len(l1)} /\ Len(l1) < LocalsMax /\ x <= x
    BY <1>3, <1>6, <1>9, <1>10
  <2>3. Grows(l, Append(l1, Slot(x, H1)), c.scope_depth, x)
    BY <1>1, <1>3, <1>5, <2>1, <2>2, GrowsOne
  <2>. QED  BY <1>8, <2>3
<1>13. Grows(l, l3, c.scope_depth, y) /\ Len(l3) = k + 3
  <2>1. H2 \subseteq {Len(l2)} /\ Len(l2) < LocalsMax
    BY <1>6, <1>9, <1>11
  <2>2. /\ Grows(l, Append(l2, Slot(y, H2)), c.scope_depth, y)
        /\ Len(Append(l2, Slot(y, H2))) = Len(l2) + 1
    BY <1>1, <1>3, <1>5, <1>11, <2>1, GrowsOne
  <2>. QED  BY <1>1, <1>8, <1>11, <2>2
<1>14. ASSUME y = c.scope_depth + 2 PROVE Split(l3, x, k + 2)
  <2>1. Split(l2, x, k + 2)
    <3>1. Split(l, c.scope_depth, Len(l)) /\ c.scope_depth <= x
      BY <1>1, <1>3 DEF k
    <3>2. Split(l2, x, Len(l2))
      BY <1>1, <1>3, <1>12, <3>1, SplitEnd
    <3>. QED  BY <1>11, <3>2
  <2>2. y = x + 1 /\ Len(l3) = Len(l2) + 1
    BY <1>1, <1>3, <1>11, <1>13, <1>14 DEF x
  <2>3. l2 \in Seq(LocalType) /\ Slot(y, H2).depth = y /\ Slot(y, H2) \in LocalType
    BY <1>3, <1>5, <1>11 DEF Grows, Slot, LocalType
  <2>4. (\A j \in 1..Len(l2) : l3[j] = l2[j]) /\ l3[Len(l2) + 1] = Slot(y, H2)
    BY <1>8, <2>3, AppendFacts
  <2>5. \A j \in 1..k + 2 : ~ (l2[j].depth > x)
    BY <1>1, <1>11, <2>1 DEF Split
  <2>6. ASSUME NEW j \in 1..k + 3 PROVE l3[j].depth > x <=> j > k + 2
    <3>1. CASE j \in 1..k + 2
      BY <1>1, <1>11, <2>4, <2>5, <3>1
    <3>2. CASE j = k + 3
      <4>1. l3[j].depth = y
        BY <1>1, <1>11, <2>3, <2>4, <3>2
      <4>. QED  BY <1>1, <1>3, <2>2, <3>2, <4>1
    <3>. QED  BY <1>1, <3>1, <3>2
  <2>. QED  BY <1>1, <1>13, <2>6 DEF Split
<1>15. l1 \in Seq(LocalType) /\ l2 \in Seq(LocalType) /\ l3 \in Seq(LocalType)
  BY <1>10, <1>11, <1>13 DEF Grows
<1>. QED  BY <1>2, <1>4, <1>7, <1>13, <1>14, <1>15 DEF l, k, H, x, H1, H2, l1, l2, l3

LEMMA ForInv ==
  ASSUME Inv, SafeShapes, For
  PROVE  Inv'
<1>1. Compiling /\ CanDeclare(3)
  BY DEF For, CanNest
<1>2. PICK below, mk : Now(below, mk)
  BY <1>1, InvNow
<1>. DEFINE c == Cur
            m == Here(mk)
            H == c.heights
            x == c.scope_depth + 1
            y == c.scope_depth + 2
            l == Three(c, y)
            k == Len(loop_stack)
            s == [node |-> "for", jump |-> {}, end |-> {}]
            n == [depth |-> y, locals |-> Len(l), loops |-> k + 1, dead |-> m.dead]
            H1 == Shift(H, 1)
            H2 == Shift(H, 2)
            H3 == Shift(H, 3)
            item == With(c, y, l, H3, c.open)
            d == With(c, y, l, H3, Append(c.open, s))
            r == Loop(item, H2, c)
<1>3. /\ c \in CtxType /\ H \in Heights
      /\ c.scope_depth \in Nat /\ Len(c.locals) \in Nat /\ k \in Nat
      /\ c.locals \in Seq(LocalType) /\ c.open \in Seq(OpenType)
      /\ m.depth = c.scope_depth /\ m.locals = Len(c.locals) /\ m.dead \in BOOLEAN
  BY <1>2, HereFacts
<1>4. /\ One(c) \in Seq(LocalType) /\ Two(c) \in Seq(LocalType) /\ l \in Seq(LocalType)
      /\ Grows(c.locals, l, c.scope_depth, y)
      /\ Len(l) = Len(c.locals) + 3
      /\ Split(l, x, Len(c.locals) + 2)
      /\ c.kind # "module"
      /\ \A a \in 1..3 : /\ Shift(H, a) \in Heights
                         /\ Shift(H, a) \subseteq Level(c, m, Len(c.locals) + a)
      /\ Shift(H1, 1) = H2 /\ Shift(H2, 1) = H3
  <2>1. y \in {c.scope_depth + 1, c.scope_depth + 2} /\ c = Cur /\ m = Here(mk)
    OBVIOUS
  <2>. HIDE DEF c, m
  <2>. QED  BY <1>1, <1>2, <2>1, ThreeFacts
<1>5. /\ H1 \in Heights /\ H2 \in Heights /\ H3 \in Heights
      /\ H2 \subseteq Level(c, m, Len(c.locals) + 2)
      /\ H3 \subseteq Level(c, m, Len(c.locals) + 3)
  BY <1>4
<1>6. x \in Nat /\ y \in Nat
  BY <1>3
<1>7. /\ beginScope(c) = With(c, x, c.locals, H, c.open)
      /\ beginScope(With(c, x, Two(c), H2, c.open)) = With(c, y, Two(c), H2, c.open)
  <2>1. c.scope_depth + 1 + 1 = y
    BY <1>3
  <2>. QED  BY <1>3, <2>1 DEF beginScope, With, CtxType
<1>8. PICK e \in compileExpr(beginScope(c)) :
        LET idx  == addLocal(Emit(addLocal(e), 1))
            turn == beginScope(Only(idx, Popped(ForCondition(idx.heights))))
            it   == addLocal(Only(turn, Binary(turn.heights)))
        IN  /\ Set(Open(it, "for", {}))
            /\ PushLoop(Loop(it, idx.heights, c))
  BY DEF For
<1>9. /\ One(c) = Append(c.locals, Slot(x, H)) /\ Two(c) = Append(One(c), Slot(x, H1))
      /\ l = Append(Two(c), Slot(y, H2))
  BY DEF One, Two, Three
<1>10. /\ c = Cur /\ m = Here(mk) /\ k = Len(loop_stack)
       /\ d = With(c, n.depth, l, H3, Append(c.open, s))
  OBVIOUS
<1>. HIDE DEF c, m, H, x, y, l, H1, H2, H3
<1>31. /\ c \in CtxType /\ x \in Nat /\ y \in Nat /\ c.open \in Seq(OpenType)
      /\ One(c) \in Seq(LocalType) /\ Two(c) \in Seq(LocalType) /\ l \in Seq(LocalType)
      /\ H1 \in Heights /\ H2 \in Heights /\ H3 \in Heights
  BY <1>3, <1>4, <1>5, <1>6
<1>11. addLocal(e) = With(c, x, One(c), H1, c.open)
  BY <1>3, <1>6, <1>7, <1>9, DeclareFacts DEF H1
<1>12. addLocal(Emit(addLocal(e), 1)) = With(c, x, Two(c), H2, c.open)
  <2>1. addLocal(Emit(With(c, x, One(c), H1, c.open), 1)) =
          With(c, x, Append(One(c), Slot(x, H1)), Shift(H1, 1), c.open)
    BY <1>31, DeclareFacts
  <2>. QED  BY <1>4, <1>9, <1>11, <2>1
<1>. DEFINE idx == With(c, x, Two(c), H2, c.open)
            turn == beginScope(Only(idx, Popped(ForCondition(idx.heights))))
<1>13. idx.heights = H2
  BY <1>3 DEF With, CtxType
<1>14. Popped(ForCondition(H2)) = H2
  BY <1>5, FormFacts, ShiftBack
<1>15. turn = With(c, y, Two(c), H2, c.open) /\ turn.heights = H2
  <2>1. Only(idx, H2) = idx
    BY <1>3 DEF Only, With, CtxType
  <2>2. turn = With(c, y, Two(c), H2, c.open)
    BY <1>7, <1>13, <1>14, <2>1
  <2>3. With(c, y, Two(c), H2, c.open).heights = H2
    BY <1>31, WithType
  <2>. HIDE DEF turn
  <2>. QED  BY <2>2, <2>3
<1>. HIDE DEF turn, idx
<1>16. addLocal(Only(turn, Binary(turn.heights))) = item
  <2>1. Binary(H2) = H3
    BY <1>4, <1>5, FormFacts
  <2>2. Only(turn, H3) = Emit(turn, 1)
    BY <1>3, <1>4, <1>15 DEF Only, Emit, With, CtxType
  <2>3. addLocal(Emit(turn, 1)) = With(c, y, l, H3, c.open)
    <3>1. addLocal(Emit(With(c, y, Two(c), H2, c.open), 1)) =
            With(c, y, Append(Two(c), Slot(y, H2)), Shift(H2, 1), c.open)
      BY <1>31, DeclareFacts
    <3>. QED  BY <1>4, <1>9, <1>15, <3>1
  <2>. QED  BY <1>15, <2>1, <2>2, <2>3
<1>17. Set(d)
  <2>1. Set(Open(item, "for", {}))
    BY <1>8, <1>12, <1>16 DEF turn, idx
  <2>2. Open(item, "for", {}) = d
    BY <1>3 DEF Open, With, CtxType
  <2>. QED  BY <2>1, <2>2
<1>18. PushLoop(r)
  <2>1. PushLoop(Loop(item, idx.heights, c))
    BY <1>8, <1>12, <1>16 DEF turn, idx
  <2>. QED  BY <1>13, <2>1 DEF idx
<1>19. /\ r \in LoopType /\ r.context = Len(ctxs) /\ r.start = H2
       /\ r.scope_depth = y /\ r.local_count = Len(l)
       /\ r.outer_local_count = Len(c.locals) /\ r.breaks = {} /\ r.continues = {}
  <2>1. Len(ctxs) \in Nat
    BY <1>2, NowFacts
  <2>2. item.scope_depth = y /\ item.locals = l /\ Len(l) \in Nat
    <3>1. item.scope_depth = y /\ item.locals = l
      BY SMTT(30), <1>31, WithType
    <3>2. Len(l) \in Nat
      BY <1>3, <1>4
    <3>. QED  BY <3>1, <3>2
  <2>. HIDE DEF item
  <2>. QED  BY <1>3, <1>5, <1>6, <2>1, <2>2, LoopFacts
<1>20. s \in OpenType /\ s.node = "for" /\ s.jump = {} /\ s.end = {}
  BY DEF OpenType, Node, Heights
<1>21. n \in Mark /\ n.depth = y /\ n.locals = Len(l) /\ n.loops = k + 1
  <2>1. Len(l) \in Nat
    BY <1>3, <1>4
  <2>. QED  BY <1>3, <1>6, <2>1 DEF Mark
<1>22. n.dead = m.dead
  OBVIOUS
<1>23. d.kind = c.kind /\ d.locals = l
  BY <1>3 DEF With, CtxType
<1>. HIDE DEF k, s, n, d, r, item
<1>24. \A q : Level(d, n, q) = Level(c, m, q) /\ Level(c, n, q) = Level(c, m, q)
  BY <1>22, <1>23 DEF Level, Base
<1>25. LoopOK(d, s.node, m, n, r)
  <2>1. x = m.depth + 1 /\ y = m.depth + 2
    BY <1>3 DEF x, y
  <2>2. n.locals = m.locals + 3 /\ n.locals >= m.locals + 3 /\ r.local_count = m.locals + 3
    BY <1>3, <1>4, <1>19, <1>21
  <2>3. Split(d.locals, m.depth + 1, m.locals + 2)
    BY <1>3, <1>4, <1>23, <2>1
  <2>4. r.start \subseteq Level(d, n, m.locals + 2)
    BY <1>3, <1>5, <1>19, <1>24
  <2>. QED  BY <1>3, <1>19, <1>20, <1>24, <2>1, <2>2, <2>3, <2>4 DEF LoopOK
<1>26. n.depth = c.scope_depth + Scopes(s.node) /\ s.node \in Loopy
  BY <1>20, <1>21 DEF Scopes, Loopy, y
<1>27. n.dead = (m.dead \/ s.node \in {"up", "down"})
  BY <1>3, <1>20, <1>22
<1>28. H3 \subseteq Level(c, n, Len(l)) /\ Grows(c.locals, l, c.scope_depth, n.depth)
       /\ n.loops = Len(loop_stack) + 1
  BY <1>4, <1>5, <1>10, <1>21, <1>24
<1>29. c.kind = "module" => l = <<>>
  BY <1>4
<1>30. s \in OpenType /\ n \in Mark /\ H3 \in Heights /\ r \in LoopType /\ n.locals = Len(l)
       /\ r.context = Len(ctxs)
  BY <1>5, <1>19, <1>20, <1>21
<1>. QED  BY <1>2, <1>10, <1>17, <1>18, <1>20, <1>25, <1>26, <1>27, <1>28, <1>29, <1>30, LoopInv

LEMMA HiddenOne ==
  ASSUME NEW c \in CtxType, NEW d \in Nat, NEW l \in Seq(LocalType), NEW h \in Heights,
         NEW o \in Seq(OpenType), NEW w, w = With(c, d, l, h, o),
         NEW v, v = With(c, d, Append(l, Slot(d, h)), Shift(h, 1), o)
  PROVE  Hidden({w}) = {v}
<1>1. compileExpr(w) = {Emit(w, 1)} /\ addLocal(Emit(w, 1)) = v
  BY DeclareFacts
<1>2. UNION {compileExpr(x) : x \in {w}} = {Emit(w, 1)}
  BY <1>1
<1>. QED  BY <1>1, <1>2 DEF Hidden

LEMMA RangeLocals ==
  ASSUME SafeShapes, NEW below, NEW mk, Now(below, mk), CanDeclare(3), NEW c, c = Cur,
         NEW x, x = c.scope_depth + 1
  PROVE  Range3 = {With(c, x, Three(c, x), Shift(c.heights, 3), c.open)}
<1>. DEFINE H == c.heights
            H1 == Shift(H, 1)
            H2 == Shift(H, 2)
            H3 == Shift(H, 3)
<1>1. /\ c \in CtxType /\ H \in Heights /\ c.scope_depth \in Nat
      /\ c.locals \in Seq(LocalType) /\ c.open \in Seq(OpenType)
  BY HereFacts
<1>2. /\ One(c) \in Seq(LocalType) /\ Two(c) \in Seq(LocalType)
      /\ \A a \in 1..3 : Shift(H, a) \in Heights
      /\ Shift(H1, 1) = H2 /\ Shift(H2, 1) = H3
  <2>1. x \in {c.scope_depth + 1, c.scope_depth + 2} /\ Here(mk) = Here(mk)
    OBVIOUS
  <2>. QED  BY <2>1, ThreeFacts
<1>3. /\ One(c) = Append(c.locals, Slot(x, H)) /\ Two(c) = Append(One(c), Slot(x, H1))
      /\ Three(c, x) = Append(Two(c), Slot(x, H2))
  BY DEF One, Two, Three
<1>4. x \in Nat /\ H1 \in Heights /\ H2 \in Heights /\ H3 \in Heights
  BY <1>1, <1>2
<1>5. beginScope(c) = With(c, x, c.locals, H, c.open)
  BY <1>1 DEF beginScope, With, CtxType
<1>. HIDE DEF H, H1, H2, H3
<1>. DEFINE l0 == c.locals
            l1 == One(c)
            l2 == Two(c)
            l3 == Three(c, x)
            o == c.open
            w0 == With(c, x, l0, H, o)
            w1 == With(c, x, l1, H1, o)
            w2 == With(c, x, l2, H2, o)
            w3 == With(c, x, l3, H3, o)
<1>6. /\ l0 \in Seq(LocalType) /\ l1 \in Seq(LocalType) /\ l2 \in Seq(LocalType)
      /\ o \in Seq(OpenType)
  BY <1>1, <1>2
<1>7. w0 = With(c, x, l0, H, o) /\ w1 = With(c, x, Append(l0, Slot(x, H)), Shift(H, 1), o)
  BY <1>3 DEF H1
<1>8. w1 = With(c, x, l1, H1, o) /\ w2 = With(c, x, Append(l1, Slot(x, H1)), Shift(H1, 1), o)
  BY <1>2, <1>3
<1>9. w2 = With(c, x, l2, H2, o) /\ w3 = With(c, x, Append(l2, Slot(x, H2)), Shift(H2, 1), o)
  BY <1>2, <1>3
<1>10. Range3 = Hidden(Hidden(Hidden({w0})))
  BY <1>5 DEF Range3
<1>11. w3 = With(c, x, Three(c, x), Shift(c.heights, 3), c.open)
  BY DEF H3, H
<1>. HIDE DEF l0, l1, l2, l3, o, w0, w1, w2, w3
<1>12. Hidden({w0}) = {w1}
  <2>1. c \in CtxType /\ x \in Nat /\ l0 \in Seq(LocalType) /\ H \in Heights /\ o \in Seq(OpenType)
    BY <1>1, <1>4, <1>6
  <2>. QED  BY <1>7, <2>1, HiddenOne
<1>13. Hidden({w1}) = {w2}
  <2>1. c \in CtxType /\ x \in Nat /\ l1 \in Seq(LocalType) /\ H1 \in Heights /\ o \in Seq(OpenType)
    BY <1>1, <1>4, <1>6
  <2>. QED  BY <1>8, <2>1, HiddenOne
<1>14. Hidden({w2}) = {w3}
  <2>1. c \in CtxType /\ x \in Nat /\ l2 \in Seq(LocalType) /\ H2 \in Heights /\ o \in Seq(OpenType)
    BY <1>1, <1>4, <1>6
  <2>. QED  BY <1>9, <2>1, HiddenOne
<1>. QED  BY <1>10, <1>11, <1>12, <1>13, <1>14

\* A numeric for begins; its loop up if that is one of two.
LEMMA RangeBegin ==
  ASSUME SafeShapes, NEW below, NEW mk, Now(below, mk), CanDeclare(3), NEW c, c = Cur,
         NEW node \in {"range", "up"}, node = "up" => c.heights = {},
         NEW x, x = c.scope_depth + 1,
         NEW w, w = With(c, x, Three(c, x), Shift(c.heights, 3), c.open),
         Set(Open(w, node, {})), PushLoop(Loop(w, Shift(c.heights, 3), c))
  PROVE  Inv'
<1>. DEFINE m == Here(mk)
            H == c.heights
            H3 == Shift(H, 3)
            l == Three(c, x)
            k == Len(loop_stack)
            s == [node |-> node, jump |-> {}, end |-> {}]
            n == [depth |-> x, locals |-> Len(l), loops |-> k + 1, dead |-> (m.dead \/ node = "up")]
            d == With(c, x, l, H3, Append(c.open, s))
            r == Loop(w, H3, c)
<1>1. /\ c \in CtxType /\ H \in Heights
      /\ c.scope_depth \in Nat /\ Len(c.locals) \in Nat /\ k \in Nat
      /\ c.locals \in Seq(LocalType) /\ c.open \in Seq(OpenType)
      /\ m.depth = c.scope_depth /\ m.locals = Len(c.locals) /\ m.dead \in BOOLEAN
  BY HereFacts
<1>2. /\ l \in Seq(LocalType)
      /\ Grows(c.locals, l, c.scope_depth, x)
      /\ Len(l) = Len(c.locals) + 3
      /\ c.kind # "module"
      /\ H3 \in Heights /\ H3 \subseteq Level(c, m, Len(c.locals) + 3)
  <2>1. x \in {c.scope_depth + 1, c.scope_depth + 2} /\ m = Here(mk)
    OBVIOUS
  <2>. HIDE DEF m
  <2>. QED  BY <2>1, ThreeFacts
<1>3. node = "up" => H3 = {}
  BY DEF Shift
<1>4. x \in Nat /\ x = m.depth + 1 /\ Len(l) \in Nat
  BY <1>1, <1>2
<1>5. w.scope_depth = x /\ w.locals = l
  BY <1>1 DEF With, CtxType
<1>6. Set(d)
  <2>1. Open(w, node, {}) = d
    BY <1>1 DEF Open, With, CtxType
  <2>. QED  BY <2>1
<1>7. PushLoop(r) /\ m = Here(mk) /\ d = With(c, n.depth, l, H3, Append(c.open, s))
      /\ k = Len(loop_stack)
  OBVIOUS
<1>8. s \in OpenType /\ s.node = node /\ s.jump = {} /\ s.end = {}
  BY DEF OpenType, Node, Heights
<1>9. n \in Mark /\ n.depth = x /\ n.locals = Len(l) /\ n.loops = k + 1
  BY <1>1, <1>4 DEF Mark
<1>10. n.dead = (m.dead \/ node = "up")
  OBVIOUS
<1>11. d.kind = c.kind
  BY <1>1 DEF With, CtxType
<1>. HIDE DEF m, H3, H, l, k, s, n, d
<1>12. /\ r \in LoopType /\ r.context = Len(ctxs) /\ r.start = H3
       /\ r.scope_depth = x /\ r.local_count = Len(l)
       /\ r.outer_local_count = Len(c.locals) /\ r.breaks = {} /\ r.continues = {}
  <2>1. /\ Len(ctxs) \in Nat /\ H3 \in Heights /\ w.scope_depth \in Nat /\ Len(w.locals) \in Nat
        /\ Len(c.locals) \in Nat
    BY <1>1, <1>2, <1>4, <1>5, NowFacts
  <2>. QED  BY <1>5, <2>1, LoopFacts
<1>. HIDE DEF r
<1>13. H3 \subseteq Level(d, n, Len(l)) /\ H3 \subseteq Level(c, n, Len(l))
  <2>1. CASE node = "up"
    BY <1>3, <2>1
  <2>2. CASE node = "range"
    <3>1. n.dead = m.dead
      BY <1>1, <1>10, <2>2
    <3>2. Level(d, n, Len(l)) = Level(c, m, Len(l)) /\ Level(c, n, Len(l)) = Level(c, m, Len(l))
      BY <1>11, <3>1 DEF Level, Base
    <3>. QED  BY <1>2, <3>2
  <2>. QED  BY <2>1, <2>2
<1>14. LoopOK(d, s.node, m, n, r)
  <2>1. n.locals = m.locals + 3 /\ r.local_count = m.locals + 3
    BY <1>1, <1>2, <1>9, <1>12
  <2>2. r.start \union r.continues \subseteq Level(d, n, m.locals + 3)
    BY <1>1, <1>2, <1>12, <1>13
  <2>. QED  BY <1>1, <1>4, <1>8, <1>12, <2>1, <2>2 DEF LoopOK
<1>15. n.depth = c.scope_depth + Scopes(s.node) /\ s.node \in Loopy
  BY <1>8, <1>9 DEF Scopes, Loopy
<1>16. n.dead = (m.dead \/ s.node \in {"up", "down"})
  BY <1>1, <1>8, <1>10
<1>17. /\ c.kind = "module" => l = <<>>
       /\ n.loops = Len(loop_stack) + 1 /\ Grows(c.locals, l, c.scope_depth, n.depth)
  BY <1>2, <1>7, <1>9
<1>18. s \in OpenType /\ n \in Mark /\ H3 \in Heights /\ r \in LoopType /\ n.locals = Len(l)
       /\ r.context = Len(ctxs)
  BY <1>2, <1>8, <1>9, <1>12
<1>. QED  BY <1>6, <1>7, <1>8, <1>13, <1>14, <1>15, <1>16, <1>17, <1>18, LoopInv

LEMMA TurnSame ==
  ASSUME NEW c \in CtxType, NEW d \in Nat, NEW l \in Seq(LocalType), NEW h \in Heights,
         NEW o \in Seq(OpenType), NEW w, w = With(c, d, l, h, o)
  PROVE  w.heights = h /\ Turn(w) = w /\ Only(w, Popped(Binary(w.heights))) = w
<1>1. w.heights = h /\ w.heights \in Heights
  BY DEF With, CtxType
<1>2. Popped(Binary(h)) = h
  BY FormFacts, ShiftBack
<1>3. Only(w, h) = w
  BY DEF Only, With, CtxType
<1>. QED  BY <1>1, <1>2, <1>3 DEF Turn

LEMMA ForRangeInv ==
  ASSUME Inv, SafeShapes, ForRange
  PROVE  Inv'
<1>1. Compiling /\ CanDeclare(3)
  BY DEF ForRange, CanNest
<1>2. PICK below, mk : Now(below, mk)
  BY <1>1, InvNow
<1>. DEFINE c == Cur
            x == c.scope_depth + 1
            h == Shift(c.heights, 3)
            w == With(c, x, Three(c, x), h, c.open)
<1>3. /\ c \in CtxType /\ c.heights \in Heights /\ x \in Nat /\ c.open \in Seq(OpenType)
  BY <1>2, HereFacts
<1>4. c = Cur /\ x = c.scope_depth + 1 /\ w = With(c, x, Three(c, x), h, c.open)
      /\ h = Shift(c.heights, 3)
  OBVIOUS
<1>5. PICK e \in Range3 : Set(Open(Turn(e), "range", {})) /\ PushLoop(Loop(e, e.heights, c))
  BY DEF ForRange
<1>. HIDE DEF c, x, w, h
<1>6. Range3 = {w}
  BY <1>1, <1>2, <1>4, RangeLocals
<1>7. Three(c, x) \in Seq(LocalType) /\ h \in Heights
  <2>1. x \in {c.scope_depth + 1, c.scope_depth + 2} /\ 3 \in 1..3
    BY <1>4
  <2>. QED  BY <1>1, <1>2, <1>4, <2>1, ThreeFacts
<1>8. w.heights = h /\ Turn(w) = w
  BY <1>3, <1>4, <1>7, TurnSame
<1>9. Set(Open(w, "range", {})) /\ PushLoop(Loop(w, Shift(c.heights, 3), c))
  BY <1>4, <1>5, <1>6, <1>8
<1>. QED  BY <1>1, <1>2, <1>4, <1>9, RangeBegin

LEMMA ForStepInv ==
  ASSUME Inv, SafeShapes, ForStep
  PROVE  Inv'
<1>1. Compiling /\ CanDeclare(3) /\ Cur.heights = {}
  BY DEF ForStep, CanNest, SafeShapes
<1>2. PICK below, mk : Now(below, mk)
  BY <1>1, InvNow
<1>. DEFINE c == Cur
            x == c.scope_depth + 1
            h == Shift(c.heights, 3)
            w == With(c, x, Three(c, x), h, c.open)
<1>3. /\ c \in CtxType /\ c.heights \in Heights /\ x \in Nat /\ c.open \in Seq(OpenType)
  BY <1>2, HereFacts
<1>4. c = Cur /\ x = c.scope_depth + 1 /\ w = With(c, x, Three(c, x), h, c.open)
      /\ h = Shift(c.heights, 3) /\ c.heights = {}
  BY <1>1
<1>5. PICK e \in Range3 :
        LET down == Binary(e.heights)
            up   == Only(e, Popped(down))
        IN  Set(Open(Turn(up), "up", down)) /\ PushLoop(Loop(up, up.heights, c))
  BY DEF ForStep
<1>. HIDE DEF c, x, w, h
<1>6. Range3 = {w}
  BY <1>1, <1>2, <1>4, RangeLocals
<1>7. Three(c, x) \in Seq(LocalType) /\ h \in Heights
  <2>1. x \in {c.scope_depth + 1, c.scope_depth + 2} /\ 3 \in 1..3
    BY <1>4
  <2>. QED  BY <1>1, <1>2, <1>4, <2>1, ThreeFacts
<1>8. w.heights = h /\ Turn(w) = w /\ Only(w, Popped(Binary(w.heights))) = w
  BY <1>3, <1>4, <1>7, TurnSame
<1>9. h = {} /\ Binary(h) = {}
  <2>1. h = {}
    BY <1>4 DEF Shift
  <2>2. Binary(h) = Shift(h, 1)
    BY <1>7, FormFacts
  <2>. QED  BY <2>1, <2>2 DEF Shift
<1>10. Set(Open(w, "up", {})) /\ PushLoop(Loop(w, Shift(c.heights, 3), c))
  BY <1>4, <1>5, <1>6, <1>8, <1>9
<1>. QED  BY <1>1, <1>2, <1>4, <1>10, RangeBegin

\* The hidden variables of a loop in one instruction are gone after it.
LEMMA JitForRangeInv ==
  ASSUME Inv, SafeShapes, JitForRange
  PROVE  Inv'
<1>1. Compiling /\ CanDeclare(3) /\ loop_stack' = loop_stack /\ import_stack' = import_stack
  BY DEF JitForRange, SameLoops, SameImports
<1>2. PICK below, mk : Now(below, mk)
  BY <1>1, InvNow
<1>. DEFINE c == Cur
            x == c.scope_depth + 1
            H == c.heights
            h == Shift(H, 3)
            l == Three(c, x)
            w == With(c, x, l, h, c.open)
<1>3. /\ c \in CtxType /\ H \in Heights /\ x \in Nat /\ c.open \in Seq(OpenType)
      /\ c.scope_depth \in Nat /\ c.locals \in Seq(LocalType) /\ Len(c.locals) \in Nat
      /\ Split(c.locals, c.scope_depth, Len(c.locals))
  BY <1>2, HereFacts
<1>4. c = Cur /\ x = c.scope_depth + 1 /\ w = With(c, x, Three(c, x), h, c.open)
      /\ h = Shift(c.heights, 3) /\ H = c.heights /\ l = Three(c, x)
      /\ \E e \in Range3 : Set(endScope(e))
  BY DEF JitForRange
<1>. HIDE DEF c, x, w, h, H, l
<1>5. Set(endScope(w))
  <2>1. Range3 = {w}
    BY <1>1, <1>2, <1>4, RangeLocals
  <2>. QED  BY <1>4, <2>1
<1>6. /\ l \in Seq(LocalType) /\ h \in Heights /\ Grows(c.locals, l, c.scope_depth, x)
      /\ Len(l) = Len(c.locals) + 3
  <2>1. x \in {c.scope_depth + 1, c.scope_depth + 2} /\ 3 \in 1..3
    BY <1>4
  <2>. QED  BY <1>1, <1>2, <1>4, <2>1, ThreeFacts
<1>7. /\ w \in CtxType /\ w.scope_depth = x /\ w.locals = l /\ w.heights = h /\ w.open = c.open
  <2>1. c \in CtxType /\ x \in Nat /\ l \in Seq(LocalType) /\ h \in Heights /\ c.open \in Seq(OpenType)
        /\ w = With(c, x, l, h, c.open)
    BY <1>3, <1>4, <1>6
  <2>. QED  BY <2>1, WithType
<1>8. Split(l, c.scope_depth, Len(c.locals))
  <2>1. c.scope_depth \in Int /\ x \in Int /\ c.scope_depth <= c.scope_depth
    BY <1>3
  <2>. QED  BY <1>3, <1>6, <2>1, SplitMore
<1>9. x - 1 = c.scope_depth /\ Len(c.locals) - Len(l) = -3
  BY <1>3, <1>4, <1>6
<1>10. SubSeq(l, 1, Len(c.locals)) = c.locals
  <2>. DEFINE a == SubSeq(l, 1, Len(c.locals))
              b == c.locals
  <2>1. Len(c.locals) \in 0..Len(l)
    BY <1>3, <1>6
  <2>2. a \in Seq(LocalType) /\ Len(a) = Len(b) /\ \A i \in 1..Len(b) : a[i] = l[i]
    BY <1>6, <2>1, FirstPart
  <2>3. b \in Seq(LocalType) /\ \A i \in 1..Len(b) : l[i] = b[i]
    BY <1>3, <1>6 DEF Grows
  <2>. HIDE DEF a, b
  <2>4. a = b
    BY <2>2, <2>3, SeqEqual
  <2>. QED  BY <2>4 DEF a, b
<1>11. Shift(h, -3) = H
  <2>1. Shift(Shift(H, 3), -3) = Shift(H, 3 + (-3)) /\ Shift(H, 0) = H
    <3>1. (\A a, b \in Int : Shift(Shift(H, a), b) = Shift(H, a + b)) /\ Shift(H, 0) = H
      BY <1>3, ShiftFacts
    <3>2. 3 \in Int /\ -3 \in Int
      OBVIOUS
    <3>. QED  BY <3>1, <3>2, Zenon
  <2>. QED  BY <1>4, <2>1
<1>12. endScope(w) = c
  <2>1. Split(w.locals, w.scope_depth - 1, Len(c.locals))
    BY <1>7, <1>8, <1>9
  <2>2. endScope(w) = With(w, w.scope_depth - 1, SubSeq(w.locals, 1, Len(c.locals)),
                           Shift(w.heights, Len(c.locals) - Len(w.locals)), w.open)
    BY <1>7, <2>1, EndScopeFacts
  <2>3. endScope(w) = With(w, c.scope_depth, c.locals, H, c.open)
    BY <1>7, <1>9, <1>10, <1>11, <2>2
  <2>4. With(w, c.scope_depth, c.locals, H, c.open) = c
    BY <1>3, <1>4 DEF With, CtxType
  <2>. QED  BY <2>3, <2>4
<1>13. ctxs' = ctxs
  BY <1>1, <1>4, <1>5, <1>12, SetSame
<1>. QED  BY <1>1, <1>13, SameInv

-----------------------------------------------------------------------------
(* Declarations, break and continue. *)

\* Where a variable may be declared, as LetOK asks for it.
LEMMA NotBare ==
  ASSUME NEW below, NEW mk, Now(below, mk), NEW c, c = Cur, ~ BareBody, c.open # <<>>
  PROVE  /\ c.open[Len(c.open)].node \notin {"range", "up", "down"}
         /\ c.open[Len(c.open)].node = "for" => loop_stack[Len(loop_stack)].continues = {}
<1>1. c.open \in Seq(OpenType) /\ loop_stack \in Seq(LoopType)
  BY HereFacts, NowFacts
<1>2. Statement = c.open[Len(c.open)]
  BY <1>1, FrontFacts DEF Statement
<1>3. Last(loop_stack) = loop_stack[Len(loop_stack)]
  BY DEF Last
<1>. QED  BY <1>2, <1>3 DEF BareBody

LEMMA LetInv ==
  ASSUME Inv, SafeShapes, Let
  PROVE  Inv'
<1>1. Compiling /\ CanDeclare(1) /\ loop_stack' = loop_stack /\ import_stack' = import_stack
  BY DEF Let, SameLoops, SameImports
<1>2. PICK below, mk : Now(below, mk)
  BY <1>1, InvNow
<1>3. ~ BareBody /\ Cur.scope_depth > 0
  BY DEF Let, SafeShapes
<1>. DEFINE c == Cur
            m == Here(mk)
            H == c.heights
            k == Len(c.locals)
            x == c.scope_depth
            l1 == Append(c.locals, Slot(x, H))
            w == With(c, x, l1, Shift(H, 1), c.open)
<1>4. /\ c \in CtxType /\ H \in Heights /\ H \subseteq Level(c, m, k)
      /\ x \in Nat /\ c.locals \in Seq(LocalType) /\ k \in Nat /\ LocalsMax \in Nat
      /\ c.open \in Seq(OpenType) /\ c.is_const \in [Slots -> BOOLEAN]
      /\ \A p, q : Grows(c.locals, c.locals, p, q)
  BY <1>2, HereFacts
<1>5. c.kind # "module" /\ k + 1 <= LocalsMax
  BY <1>1, <1>2, DeclareRoom
<1>6. PICK const \in {"const" \in Shapes, FALSE} : \E e \in compileExpr(c) :
        LET slot == Len(e.locals)
        IN  Set([addLocal(e) EXCEPT !.is_const[slot] = @ \/ const, !.locals[slot + 1].const = const])
  BY DEF Let
<1>7. const \in BOOLEAN
  <2>1. CASE const = FALSE
    BY <2>1
  <2>2. CASE const = ("const" \in Shapes) /\ "const" \in Shapes
    <3>1. ("const" \in Shapes) = TRUE
      BY <2>2, Zenon
    <3>2. const = TRUE
      BY <2>2, <3>1, Zenon
    <3>. QED  BY <3>2
  <2>3. CASE const = ("const" \in Shapes) /\ "const" \notin Shapes
    <3>1. ("const" \in Shapes) = FALSE
      BY <2>3
    <3>2. const = FALSE
      BY <2>3, <3>1, Zenon
    <3>. QED  BY <3>2
  <2>. QED  BY <2>1, <2>2, <2>3, Zenon
<1>8. c = With(c, x, c.locals, H, c.open) /\ c = Cur /\ m = Here(mk)
  BY <1>4, WithFacts
<1>9. /\ compileExpr(c) = {Emit(c, 1)} /\ addLocal(Emit(c, 1)) = w
      /\ Slot(x, H) \in LocalType /\ Shift(H, 1) \in Heights
  BY <1>4, <1>8, DeclareFacts
<1>10. Emit(c, 1).locals = c.locals
  BY <1>4 DEF Emit, CtxType
<1>. DEFINE d == [w EXCEPT !.is_const[k] = @ \/ const, !.locals[k + 1].const = const]
            l2 == [l1 EXCEPT ![k + 1].const = const]
            a == [Slot(x, H) EXCEPT !.const = const]
<1>11. Set(d)
  BY <1>6, <1>9, <1>10
<1>12. /\ l1 \in Seq(LocalType) /\ Len(l1) = k + 1 /\ l1[k + 1] = Slot(x, H)
       /\ \A j \in 1..k : l1[j] = c.locals[j]
  BY <1>4, <1>9, AppendFacts
<1>13. a \in LocalType /\ a.depth = x /\ a.at = H
  BY <1>4, <1>7 DEF Slot, LocalType
<1>14. /\ l2 \in Seq(LocalType) /\ Len(l2) = k + 1 /\ l2[k + 1] = a
       /\ \A j \in 1..k : l2[j] = c.locals[j]
  <2>1. l2 = [l1 EXCEPT ![k + 1] = a]
    BY <1>12
  <2>2. k + 1 \in 1..Len(l1) /\ \A j \in 1..k : j \in 1..Len(l1) /\ j # k + 1
    BY <1>4, <1>12
  <2>. HIDE DEF l1, l2, a, k
  <2>3. /\ [l1 EXCEPT ![k + 1] = a] \in Seq(LocalType)
        /\ Len([l1 EXCEPT ![k + 1] = a]) = Len(l1)
        /\ \A j \in 1..Len(l1) : [l1 EXCEPT ![k + 1] = a][j] = IF j = k + 1 THEN a ELSE l1[j]
    BY <1>12, <1>13, <2>2, ExceptSeq
  <2>. QED  BY <1>12, <2>1, <2>2, <2>3
<1>. HIDE DEF l1, a
<1>15. /\ d \in CtxType /\ d.kind = c.kind /\ d.scope_depth = x /\ d.locals = l2
       /\ d.heights = Shift(H, 1) /\ d.open = c.open
  <2>1. d = [c EXCEPT !.is_const = [c.is_const EXCEPT ![k] = @ \/ const],
                      !.locals = l2, !.heights = Shift(H, 1)]
    BY <1>4 DEF With, CtxType
  <2>2. [c.is_const EXCEPT ![k] = @ \/ const] \in [Slots -> BOOLEAN]
    <3>1. k \in Slots
      BY <1>4, <1>5 DEF Slots
    <3>2. (c.is_const[k] \/ const) \in BOOLEAN
      BY <1>4, <1>7, <3>1
    <3>. HIDE DEF k
    <3>. QED  BY <1>4, <3>1, <3>2
  <2>. HIDE DEF l2, d
  <2>. QED  BY <1>4, <1>9, <1>14, <2>1, <2>2 DEF CtxType
<1>. HIDE DEF l2, d
<1>16. Grows(c.locals, l2, x - 1, x)
  <2>1. H \subseteq {k}
    <3>1. k \in Int
      BY <1>4
    <3>. HIDE DEF k, H, c, m
    <3>. QED  BY <1>4, <1>5, <3>1, SlotLevel
  <2>2. ASSUME NEW j \in Len(c.locals) + 1..Len(l2)
        PROVE  l2[j].depth > x - 1 /\ l2[j].depth <= x /\ l2[j].at \subseteq {j - 1}
    <3>1. j = k + 1 /\ j - 1 = k
      BY <1>4, <1>14
    <3>2. l2[j].depth = x /\ l2[j].at = H
      BY <1>13, <1>14, <3>1
    <3>. QED  BY <1>4, <2>1, <3>1, <3>2
  <2>3. Len(c.locals) <= Len(l2) /\ Len(l2) <= LocalsMax
    BY <1>4, <1>5, <1>14
  <2>. QED  BY <1>14, <2>2, <2>3 DEF Grows
<1>17. Shift(H, 1) \subseteq Level(c, m, Len(l2))
  BY <1>2, <1>14, LevelAt
<1>18. CtxOK(c, Len(ctxs), below[Len(ctxs)], Len(loop_stack), mk, loop_stack)
  BY <1>2 DEF Now
<1>19. c.open # <<>> =>
         /\ c.open[Len(c.open)].node \notin {"range", "up", "down"}
         /\ c.open[Len(c.open)].node = "for" => loop_stack[Len(loop_stack)].continues = {}
  BY <1>2, <1>3, NotBare
<1>20. d.heights \subseteq Level(c, mk[Len(c.open) + 1], Len(d.locals))
  BY <1>15, <1>17 DEF Here
<1>21. Grows(c.locals, d.locals, c.scope_depth - 1, c.scope_depth) /\ d.scope_depth = c.scope_depth
  BY <1>15, <1>16
<1>22. c = Cur
  OBVIOUS
<1>. HIDE DEF c
<1>23. CtxOK(d, Len(ctxs), below[Len(ctxs)], Len(loop_stack),
             [mk EXCEPT ![Len(c.open) + 1].locals = Len(d.locals)], loop_stack)
  BY <1>5, <1>15, <1>18, <1>19, <1>20, <1>21, LetOK
<1>24. loop_stack \in Seq(LoopType)
  BY <1>2, NowFacts
<1>. QED  BY <1>1, <1>2, <1>11, <1>15, <1>22, <1>23, <1>24, SetInv

\* break and continue pop what the loop has put on the stack since.
LEMMA PopsFacts ==
  ASSUME NEW below, NEW mk, Now(below, mk), NEW n \in 0..Len(Cur.locals)
  PROVE  /\ PopsTo(n) \in Heights
         /\ \A j \in 1..Len(Cur.open) + 1 : PopsTo(n) \subseteq Level(Cur, mk[j], n)
<1>. DEFINE c == Cur
            k == Len(c.locals)
            q == Len(c.open) + 1
<1>1. k \in Nat /\ c.heights \in Heights /\ q \in Nat \ {0} /\ n \in Nat
  BY HereFacts
<1>2. Cardinality(n + 1..k) = k - n
  <2>. HIDE DEF k
  <2>1. n + 1 \in Int /\ k \in Int /\ n <= k
    BY <1>1 DEF k
  <2>2. Cardinality(n + 1..k) = IF n + 1 > k THEN 0 ELSE k - (n + 1) + 1
    BY <2>1, FS_Interval
  <2>. QED  BY <2>1, <2>2
<1>3. - (k - n) = n - k /\ n - k \in Int /\ k + (n - k) = n
  BY <1>1
<1>4. PopsTo(n) = Shift(c.heights, n - k)
  BY <1>2, <1>3 DEF PopsTo
<1>5. PopsTo(n) \in Heights
  BY <1>1, <1>3, <1>4, ShiftFacts
<1>6. PopsTo(n) \subseteq Level(c, Here(mk), n)
  <2>1. Shift(Cur.heights, n - k) \subseteq Level(Cur, Here(mk), Len(Cur.locals) + (n - k))
    <3>. HIDE DEF k
    <3>. QED  BY <1>3, LevelAt
  <2>. QED  BY <1>3, <1>4, <2>1
<1>7. ASSUME NEW j \in 1..q PROVE PopsTo(n) \subseteq Level(c, mk[j], n)
  <2>1. mk[j].dead => mk[q].dead
    <3>1. CtxOK(c, Len(ctxs), below[Len(ctxs)], Len(loop_stack), mk, loop_stack)
      BY DEF Now
    <3>2. Len(mk) = q
      BY <3>1 DEF CtxOK
    <3>3. j \in 1..q /\ q \in 1..q /\ j <= q
      BY <1>1
    <3>. HIDE DEF q
    <3>. QED  BY <3>1, <3>2, <3>3 DEF CtxOK
  <2>. QED  BY <1>6, <2>1 DEF Here, Level
<1>. QED  BY <1>5, <1>7

\* A jump out of the innermost loop, or back in it.
LEMMA ExitInv ==
  ASSUME NEW below, NEW mk, Now(below, mk), NEW c, c = Cur, NEW k, k = Len(loop_stack),
         NEW r \in LoopType, r.context = Len(ctxs), k > 0,
         \A j \in 1..Len(c.open) :
           c.open[j].node \in Loopy /\ mk[j + 1].loops = k =>
             LoopOK(c, c.open[j].node, mk[j], mk[j + 1], r),
         Set(Dead(c)), loop_stack' = [loop_stack EXCEPT ![k] = r], import_stack' = import_stack,
         below[Len(ctxs)] < k
  PROVE  Inv'
<1>. DEFINE i == Len(ctxs)
            L == [loop_stack EXCEPT ![k] = r]
<1>1. CtxOK(c, i, below[i], k, mk, loop_stack)
  BY DEF Now
<1>2. k \in Nat /\ below[i] \in Nat /\ loop_stack \in Seq(LoopType)
  BY <1>1, CtxFacts, NowFacts
<1>3. /\ L \in Seq(LoopType) /\ Len(L) = k
      /\ \A j \in 1..k : L[j] = IF j = k THEN r ELSE loop_stack[j]
  <2>1. k \in 1..Len(loop_stack)
    BY <1>2
  <2>2. /\ [loop_stack EXCEPT ![k] = r] \in Seq(LoopType)
        /\ Len([loop_stack EXCEPT ![k] = r]) = Len(loop_stack)
        /\ \A j \in 1..Len(loop_stack) :
             [loop_stack EXCEPT ![k] = r][j] = IF j = k THEN r ELSE loop_stack[j]
    BY <1>2, <2>1, ExceptSeq
  <2>. QED  BY <2>2
<1>4. \A l \in 1..below[i] : L[l] = loop_stack[l]
  <2>1. \A l \in 1..below[i] : l \in 1..k /\ l # k
    BY <1>2
  <2>. QED  BY <1>3, <2>1
<1>5. \A l \in below[i] + 1..Len(L) : L[l].context = i
  <2>1. \A l \in below[i] + 1..k : loop_stack[l].context = i
    BY <1>1, SameStatements
  <2>2. \A l \in below[i] + 1..k : l \in 1..k
    BY <1>2
  <2>. QED  BY <1>3, <2>1, <2>2
<1>6. L = [loop_stack EXCEPT ![k] = r]
  OBVIOUS
<1>. HIDE DEF L
<1>7. ASSUME NEW j \in 1..Len(c.open)
      PROVE  StatementOK(c, i, c.open[j], mk[j], mk[j + 1], L)
  <2>. DEFINE a == mk[j]
              b == mk[j + 1]
              t == c.open[j]
  <2>1. StatementOK(c, i, t, a, b, loop_stack) /\ Len(c.open) \in Nat
    BY <1>1, CtxFacts
  <2>2. j \in 1..Len(c.open) + 1 /\ j + 1 \in 1..Len(c.open) + 1
    BY <2>1
  <2>3. a \in Mark /\ b \in Mark /\ a.loops \in Nat /\ below[i] <= a.loops /\ b.loops <= k
        /\ b.loops \in Nat
    BY <1>1, <2>2, CtxFacts
  <2>4. t.node \in Loopy /\ b.loops = k => LoopOK(c, t.node, a, b, r)
    OBVIOUS
  <2>. HIDE DEF a, b, t, i
  <2>5. CASE t.node \in Loopy
    <3>1. b.loops = a.loops + 1 /\ LoopOK(c, t.node, a, b, loop_stack[b.loops])
      BY <2>1, <2>5 DEF StatementOK
    <3>2. b.loops \in 1..k
      BY <1>2, <2>3, <3>1
    <3>3. LoopOK(c, t.node, a, b, L[b.loops])
      BY <1>3, <2>4, <2>5, <3>1, <3>2
    <3>4. StatementOK(c, i, t, a, b, L)
      BY <2>1, <3>3 DEF StatementOK
    <3>. QED  BY <3>4 DEF a, b, t
  <2>6. CASE t.node \notin Loopy
    <3>1. StatementOK(c, i, t, a, b, L)
      BY <2>1, <2>6 DEF StatementOK
    <3>. QED  BY <3>1 DEF a, b, t
  <2>. QED  BY <2>5, <2>6
<1>. QED  BY <1>3, <1>4, <1>5, <1>6, <1>7, DeadOK

LEMMA InLoopFacts ==
  ASSUME NEW below, NEW mk, Now(below, mk), InLoop
  PROVE  /\ Len(loop_stack) \in Nat \ {0} /\ Innermost = loop_stack[Len(loop_stack)]
         /\ Innermost \in LoopType /\ Innermost.context = Len(ctxs)
         /\ below[Len(ctxs)] < Len(loop_stack)
<1>1. loop_stack \in Seq(LoopType) /\ loop_stack # <<>> /\ Innermost.context = Len(ctxs)
  BY NowFacts DEF InLoop
<1>2. /\ Len(loop_stack) \in Nat \ {0} /\ Innermost = loop_stack[Len(loop_stack)]
      /\ Innermost \in LoopType
  BY <1>1, FrontFacts DEF Innermost
<1>3. Len(loop_stack) \in 1..Len(loop_stack)
  BY <1>2
<1>4. Len(loop_stack) \in below[Len(ctxs)] + 1..below[Len(ctxs) + 1]
  BY <1>1, <1>2, <1>3 DEF Now, InvBy
<1>5. below[Len(ctxs)] \in Nat
  <2>1. Len(ctxs) \in 1..Len(ctxs) + 1
    BY NowFacts
  <2>. QED  BY <2>1, NowFacts
<1>. QED  BY <1>1, <1>2, <1>4, <1>5

LEMMA BreakInv ==
  ASSUME Inv, Break
  PROVE  Inv'
<1>1. Compiling /\ InLoop /\ import_stack' = import_stack /\ Set(Dead(Cur))
  BY DEF Break, InLoop, SameImports
<1>2. PICK below, mk : Now(below, mk)
  BY <1>1, InvNow
<1>. DEFINE c == Cur
            k == Len(loop_stack)
            r == Innermost
            B == PopsTo(r.outer_local_count)
            r2 == [r EXCEPT !.breaks = @ \union B]
<1>3. /\ k \in Nat \ {0} /\ r = loop_stack[k] /\ r \in LoopType /\ r.context = Len(ctxs)
      /\ below[Len(ctxs)] < k
  BY <1>1, <1>2, InLoopFacts
<1>4. CtxOK(c, Len(ctxs), below[Len(ctxs)], k, mk, loop_stack)
  BY <1>2 DEF Now
<1>5. ASSUME NEW j \in 1..Len(c.open), c.open[j].node \in Loopy, mk[j + 1].loops = k
      PROVE  /\ LoopOK(c, c.open[j].node, mk[j], mk[j + 1], r)
             /\ B \in Heights /\ B \subseteq Level(c, mk[j + 1], mk[j].locals)
  <2>1. StatementOK(c, Len(ctxs), c.open[j], mk[j], mk[j + 1], loop_stack) /\ Len(c.open) \in Nat
    BY <1>4, CtxFacts
  <2>2. j \in 1..Len(c.open) + 1 /\ j + 1 \in 1..Len(c.open) + 1
    BY <2>1
  <2>3. LoopOK(c, c.open[j].node, mk[j], mk[j + 1], r)
    BY <1>3, <1>5, <2>1 DEF StatementOK
  <2>4. r.outer_local_count = mk[j].locals
    BY <2>3 DEF LoopOK
  <2>5. mk[j].locals \in 0..Len(c.locals)
    <3>1. mk[j].locals \in Nat /\ mk[j].locals <= Len(c.locals) /\ Len(c.locals) \in Nat
      BY <1>4, <2>2, CtxFacts
    <3>. QED  BY <3>1
  <2>6. PopsTo(mk[j].locals) \in Heights
        /\ \A q \in 1..Len(c.open) + 1 : PopsTo(mk[j].locals) \subseteq Level(c, mk[q], mk[j].locals)
    BY <1>2, <2>5, PopsFacts
  <2>. QED  BY <2>2, <2>3, <2>4, <2>6
<1>6. \E j \in 1..Len(c.open) : c.open[j].node \in Loopy /\ mk[j + 1].loops = k
  <2>1. k \in below[Len(ctxs)] + 1..k
    <3>1. below[Len(ctxs)] \in Nat
      BY <1>4, CtxFacts
    <3>. HIDE DEF k
    <3>. QED  BY <1>3, <3>1
  <2>. QED  BY <1>4, <2>1 DEF CtxOK
<1>7. B \in Heights
  BY <1>5, <1>6
<1>8. /\ r2 \in LoopType /\ r2.context = Len(ctxs) /\ r2.outer_local_count = r.outer_local_count
      /\ r2.breaks = r.breaks \union B /\ r2.continues = r.continues /\ r2.start = r.start
      /\ r2.scope_depth = r.scope_depth /\ r2.local_count = r.local_count
  <2>. HIDE DEF B, r
  <2>1. r.breaks \union B \in Heights
    BY <1>3, <1>7 DEF LoopType, Heights
  <2>. QED  BY <1>3, <2>1 DEF LoopType
<1>9. loop_stack' = [loop_stack EXCEPT ![k] = r2]
  BY <1>3 DEF Break, BreakTarget
<1>. HIDE DEF r2, B, r
<1>10. \A j \in 1..Len(c.open) :
         c.open[j].node \in Loopy /\ mk[j + 1].loops = k =>
           LoopOK(c, c.open[j].node, mk[j], mk[j + 1], r2)
  <2>1. TAKE j \in 1..Len(c.open)
  <2>2. HAVE c.open[j].node \in Loopy /\ mk[j + 1].loops = k
  <2>. DEFINE t == c.open[j].node
              a == mk[j]
              b == mk[j + 1]
  <2>3. LoopOK(c, t, a, b, r) /\ B \subseteq Level(c, b, a.locals)
    BY <1>5, <2>2
  <2>. HIDE DEF t, a, b, c
  <2>4. LoopOK(c, t, a, b, r2)
    BY <1>8, <2>3 DEF LoopOK
  <2>. QED  BY <2>4 DEF t, a, b
<1>11. c = Cur /\ k = Len(loop_stack) /\ k > 0
  BY <1>3
<1>. HIDE DEF c, k
<1>. QED  BY <1>1, <1>2, <1>3, <1>8, <1>9, <1>10, <1>11, ExitInv

\* continue in a for: only where no local of its body is in use, or the place it
\* jumps to would be reached with them on the stack.
LEMMA ContinueInv ==
  ASSUME Inv, SafeShapes, Continue
  PROVE  Inv'
<1>1. /\ Compiling /\ InLoop /\ import_stack' = import_stack /\ Set(Dead(Cur))
      /\ Len(Cur.locals) - Inner(Cur, Innermost.scope_depth) = Innermost.local_count
  BY DEF Continue, InLoop, SameImports, SafeShapes
<1>2. PICK below, mk : Now(below, mk)
  BY <1>1, InvNow
<1>. DEFINE c == Cur
            k == Len(loop_stack)
            r == Innermost
            B == PopsTo(r.local_count)
            r2 == [r EXCEPT !.continues = @ \union B]
<1>3. /\ k \in Nat \ {0} /\ r = loop_stack[k] /\ r \in LoopType /\ r.context = Len(ctxs)
      /\ below[Len(ctxs)] < k
  BY <1>1, <1>2, InLoopFacts
<1>4. CtxOK(c, Len(ctxs), below[Len(ctxs)], k, mk, loop_stack) /\ c \in CtxType
  BY <1>2, HereFacts DEF Now
<1>5. ASSUME NEW j \in 1..Len(c.open), c.open[j].node \in Loopy, mk[j + 1].loops = k
      PROVE  /\ LoopOK(c, c.open[j].node, mk[j], mk[j + 1], r)
             /\ B \in Heights /\ B \subseteq Level(c, mk[j + 1], r.local_count)
             /\ c.open[j].node = "for" => mk[j + 1].locals = r.local_count
  <2>. DEFINE a == mk[j]
              b == mk[j + 1]
              t == c.open[j].node
  <2>1. StatementOK(c, Len(ctxs), c.open[j], a, b, loop_stack) /\ Len(c.open) \in Nat
    BY <1>4, CtxFacts
  <2>2. j \in 1..Len(c.open) + 1 /\ j + 1 \in 1..Len(c.open) + 1
    BY <2>1
  <2>3. LoopOK(c, t, a, b, r) /\ b.depth = a.depth + Scopes(t)
    BY <1>3, <1>5, <2>1 DEF StatementOK
  <2>4. /\ a.locals \in Nat /\ b.locals \in Nat /\ a.depth \in Nat /\ b.depth \in Nat
        /\ a.locals <= Len(c.locals) /\ b.locals <= Len(c.locals) /\ Len(c.locals) \in Nat
    BY <1>4, <2>2, CtxFacts
  <2>5. Split(c.locals, b.depth, b.locals)
    <3>1. Len(mk) = Len(c.open) + 1
      BY <1>4 DEF CtxOK
    <3>. QED  BY <1>4, <2>2, <3>1 DEF CtxOK
  <2>6. t = "for" => b.locals = r.local_count
    <3>1. SUFFICES ASSUME t = "for" PROVE b.locals = r.local_count
      OBVIOUS
    <3>2. r.scope_depth = b.depth
      BY <2>3, <3>1 DEF LoopOK, Scopes
    <3>3. Inner(c, b.depth) = Len(c.locals) - b.locals
      BY <1>4, <2>5, InnerFacts
    <3>4. Len(c.locals) - Inner(c, b.depth) = r.local_count
      BY <1>1, <3>2
    <3>. HIDE DEF a, b, r, c
    <3>. QED  BY <2>4, <3>3, <3>4
  <2>7. r.local_count \in 0..Len(c.locals)
    <3>1. CASE t = "loop"
      <4>1. r.local_count = a.locals
        BY <2>3, <3>1 DEF LoopOK
      <4>. QED  BY <2>4, <4>1
    <3>2. CASE t = "for"
      BY <2>4, <2>6, <3>2
    <3>3. CASE t \in {"range", "up", "down"}
      <4>1. r.local_count = b.locals
        BY <2>3, <3>3 DEF LoopOK
      <4>. QED  BY <2>4, <4>1
    <3>. QED  BY <1>5, <3>1, <3>2, <3>3 DEF Loopy
  <2>8. B \in Heights /\ \A q \in 1..Len(c.open) + 1 : B \subseteq Level(c, mk[q], r.local_count)
    BY <1>2, <2>7, PopsFacts
  <2>. QED  BY <2>2, <2>3, <2>6, <2>8
<1>6. \E j \in 1..Len(c.open) : c.open[j].node \in Loopy /\ mk[j + 1].loops = k
  <2>1. k \in below[Len(ctxs)] + 1..k
    <3>1. below[Len(ctxs)] \in Nat
      BY <1>4, CtxFacts
    <3>. HIDE DEF k
    <3>. QED  BY <1>3, <3>1
  <2>. QED  BY <1>4, <2>1 DEF CtxOK
<1>7. B \in Heights
  BY <1>5, <1>6
<1>8. /\ r2 \in LoopType /\ r2.context = Len(ctxs) /\ r2.outer_local_count = r.outer_local_count
      /\ r2.breaks = r.breaks /\ r2.continues = r.continues \union B /\ r2.start = r.start
      /\ r2.scope_depth = r.scope_depth /\ r2.local_count = r.local_count
  <2>. HIDE DEF B, r
  <2>1. r.continues \union B \in Heights
    BY <1>3, <1>7 DEF LoopType, Heights
  <2>. QED  BY <1>3, <2>1 DEF LoopType
<1>9. loop_stack' = [loop_stack EXCEPT ![k] = r2]
  BY <1>3 DEF Continue
<1>. HIDE DEF r2, B, r
<1>10. \A j \in 1..Len(c.open) :
         c.open[j].node \in Loopy /\ mk[j + 1].loops = k =>
           LoopOK(c, c.open[j].node, mk[j], mk[j + 1], r2)
  <2>1. TAKE j \in 1..Len(c.open)
  <2>2. HAVE c.open[j].node \in Loopy /\ mk[j + 1].loops = k
  <2>. DEFINE t == c.open[j].node
              a == mk[j]
              b == mk[j + 1]
  <2>3. /\ LoopOK(c, t, a, b, r) /\ B \subseteq Level(c, b, r.local_count)
        /\ t = "for" => b.locals = r.local_count
    BY <1>5, <2>2
  <2>. HIDE DEF t, a, b, c
  <2>4. LoopOK(c, t, a, b, r2)
    BY <1>8, <2>3 DEF LoopOK
  <2>. QED  BY <2>4 DEF t, a, b
<1>11. c = Cur /\ k = Len(loop_stack) /\ k > 0
  BY <1>3
<1>. HIDE DEF c, k
<1>. QED  BY <1>1, <1>2, <1>3, <1>8, <1>9, <1>10, <1>11, ExitInv

-----------------------------------------------------------------------------
(* Statements that end. *)

\* The mark before the innermost statement.
Before(mk) == mk[Len(Cur.open)]

\* The locals that are left where it has ended.
Left(mk) == SubSeq(Cur.locals, 1, Before(mk).locals)

LEMMA LastFacts ==
  ASSUME NEW below, NEW mk, Now(below, mk), NEW c, c = Cur, c.open # <<>>,
         NEW m, m = Before(mk), NEW n, n = Here(mk), NEW s, s = Statement
  PROVE  /\ s \in OpenType /\ m \in Mark /\ n \in Mark
         /\ StatementOK(c, Len(ctxs), s, m, n, loop_stack)
         /\ m.depth \in Nat /\ m.locals \in 0..Len(c.locals) /\ m.loops \in Nat
         /\ m.loops <= Len(loop_stack) /\ below[Len(ctxs)] <= m.loops
         /\ n.depth = c.scope_depth /\ n.locals = Len(c.locals) /\ n.loops = Len(loop_stack)
         /\ Split(c.locals, m.depth, m.locals)
         /\ \A x : Level(c, n, x) \subseteq Level(c, m, x)
         /\ Left(mk) \in Seq(LocalType) /\ Len(Left(mk)) = m.locals
         /\ Front(c.open) \in Seq(OpenType)
<1>. DEFINE p == Len(c.open)
            i == Len(ctxs)
<1>1. CtxOK(c, i, below[i], Len(loop_stack), mk, loop_stack)
  BY DEF Now
<1>2. c.open \in Seq(OpenType) /\ c.locals \in Seq(LocalType) /\ Len(c.locals) \in Nat
  BY <1>1, CtxFacts
<1>3. p \in Nat \ {0} /\ s = c.open[p] /\ s \in OpenType /\ Front(c.open) \in Seq(OpenType)
  BY <1>2, FrontFacts DEF Statement
<1>4. p \in 1..p /\ p \in 1..p + 1 /\ p + 1 \in 1..p + 1 /\ p <= p + 1
  BY <1>3
<1>5. m = mk[p] /\ n = mk[p + 1]
  BY DEF Before, Here
<1>6. StatementOK(c, i, s, m, n, loop_stack)
  <2>. HIDE DEF i
  <2>. QED  BY SMTT(30), <1>1, <1>3, <1>4, <1>5, CtxFacts
<1>7. /\ m \in Mark /\ m.depth \in Nat /\ m.locals \in Nat /\ m.locals <= Len(c.locals)
      /\ m.loops \in Nat /\ m.loops <= Len(loop_stack) /\ below[i] <= m.loops
      /\ n \in Mark
  <2>. HIDE DEF i
  <2>. QED  BY <1>1, <1>4, <1>5, CtxFacts
<1>8. n.depth = c.scope_depth /\ n.locals = Len(c.locals) /\ n.loops = Len(loop_stack)
  BY HereFacts
<1>9. Split(c.locals, m.depth, m.locals) /\ (m.dead => n.dead)
  <2>1. Len(mk) = p + 1
    BY <1>1 DEF CtxOK
  <2>. HIDE DEF p, i
  <2>. QED  BY <1>1, <1>4, <1>5, <2>1 DEF CtxOK
<1>10. \A x : Level(c, n, x) \subseteq Level(c, m, x)
  BY <1>9 DEF Level
<1>11. m.locals \in 0..Len(c.locals)
  BY <1>2, <1>7
<1>12. Left(mk) \in Seq(LocalType) /\ Len(Left(mk)) = m.locals
  <2>1. Left(mk) = SubSeq(c.locals, 1, m.locals)
    BY DEF Left
  <2>. QED  BY <1>2, <1>11, <2>1, FirstPart
<1>. QED  BY <1>3, <1>6, <1>7, <1>8, <1>9, <1>10, <1>11, <1>12

LEMMA EndInv ==
  ASSUME NEW below, NEW mk, Now(below, mk), NEW c, c = Cur, c.open # <<>>, NEW m, m = Before(mk),
         NEW h \in Heights, h \subseteq Level(c, m, m.locals), NEW L \in Seq(LoopType),
         Len(L) = m.loops, \A j \in 1..m.loops : L[j] = loop_stack[j],
         NEW l, l = Left(mk),
         Set(With(c, m.depth, l, h, Front(c.open))),
         loop_stack' = L, import_stack' = import_stack
  PROVE  Inv'
<1>. DEFINE i == Len(ctxs)
            d == With(c, m.depth, l, h, Front(c.open))
<1>1. CtxOK(c, i, below[i], Len(loop_stack), mk, loop_stack) /\ c \in CtxType
  BY HereFacts DEF Now
<1>2. m.loops \in Nat /\ below[i] <= m.loops /\ below[i] \in Nat
  <2>1. Here(mk) = Here(mk) /\ Statement = Statement
    OBVIOUS
  <2>. QED  BY <1>1, <2>1, LastFacts, CtxFacts
<1>3. /\ \A j \in below[i] + 1..m.loops : L[j] = loop_stack[j]
      /\ \A j \in 1..below[i] : L[j] = loop_stack[j]
  <2>. HIDE DEF i
  <2>1. /\ \A j \in below[i] + 1..m.loops : j \in 1..m.loops
        /\ \A j \in 1..below[i] : j \in 1..m.loops
    BY <1>2
  <2>. QED  BY <2>1
<1>4. m = mk[Len(c.open)] /\ l = SubSeq(c.locals, 1, mk[Len(c.open)].locals)
  BY DEF Before, Left
<1>5. d.kind = c.kind
  BY <1>1 DEF With, CtxType
<1>6. CtxOK(d, i, below[i], Len(L), Front(mk), L)
  <2>1. \A j \in below[i] + 1..mk[Len(c.open)].loops : L[j] = loop_stack[j]
    BY <1>3, <1>4
  <2>2. h \subseteq Level(c, mk[Len(c.open)], mk[Len(c.open)].locals)
    BY <1>4
  <2>. HIDE DEF i
  <2>3. CtxOK(With(c, mk[Len(c.open)].depth, SubSeq(c.locals, 1, mk[Len(c.open)].locals), h,
                    Front(c.open)),
               i, below[i], mk[Len(c.open)].loops, Front(mk), L)
    BY <1>1, <2>1, <2>2, CloseOK
  <2>. QED  BY <1>4, <2>3
<1>7. Set(d)
  OBVIOUS
<1>. HIDE DEF d
<1>. QED  BY <1>3, <1>5, <1>6, <1>7, SetInv

\* A statement goes on with another block.
LEMMA ReopenInv ==
  ASSUME NEW below, NEW mk, Now(below, mk), NEW c, c = Cur, c.open # <<>>, NEW m, m = Before(mk),
         NEW s \in OpenType, NEW n \in Mark, NEW l, NEW h \in Heights, NEW L \in Seq(LoopType),
         NEW d, d = With(c, n.depth, l, h, Append(Front(c.open), s)),
         Grows(Left(mk), l, m.depth, n.depth), n.locals = Len(l),
         c.kind = "module" => l = <<>>,
         h \subseteq Level(c, n, Len(l)),
         StatementOK(d, Len(ctxs), s, m, n, L),
         Len(L) = n.loops,
         \A j \in 1..m.loops : L[j] = loop_stack[j],
         s.node \in Loopy => L[m.loops + 1].context = Len(ctxs),
         Set(d), loop_stack' = L, import_stack' = import_stack
  PROVE  Inv'
<1>. DEFINE i == Len(ctxs)
            o == Front(c.open)
            c1 == With(c, m.depth, Left(mk), {}, o)
            ms == Front(mk)
<1>1. CtxOK(c, i, below[i], Len(loop_stack), mk, loop_stack) /\ c \in CtxType
  BY HereFacts DEF Now
<1>2. /\ m.loops \in Nat /\ below[i] <= m.loops /\ below[i] \in Nat /\ m.depth \in Nat
      /\ Left(mk) \in Seq(LocalType) /\ o \in Seq(OpenType) /\ m \in Mark
  <2>1. Here(mk) = Here(mk) /\ Statement = Statement
    OBVIOUS
  <2>. QED  BY <1>1, <2>1, LastFacts, CtxFacts
<1>3. /\ \A j \in below[i] + 1..m.loops : L[j] = loop_stack[j]
      /\ \A j \in 1..below[i] : L[j] = loop_stack[j]
  <2>. HIDE DEF i
  <2>1. /\ \A j \in below[i] + 1..m.loops : j \in 1..m.loops
        /\ \A j \in 1..below[i] : j \in 1..m.loops
    BY <1>2
  <2>. QED  BY <2>1
<1>4. m = mk[Len(c.open)] /\ Left(mk) = SubSeq(c.locals, 1, mk[Len(c.open)].locals)
  BY DEF Before, Left
<1>5. /\ c1 \in CtxType /\ c1.kind = c.kind /\ c1.scope_depth = m.depth /\ c1.locals = Left(mk)
      /\ c1.open = o /\ With(c1, n.depth, l, h, Append(o, s)) = d
      /\ Base(c1) = Base(c)
  <2>1. {} \in Heights
    BY DEF Heights
  <2>2. /\ c1 \in CtxType /\ c1.kind = c.kind /\ c1.scope_depth = m.depth /\ c1.locals = Left(mk)
        /\ c1.open = o /\ Base(c1) = Base(c)
    <3>. HIDE DEF o
    <3>. QED  BY SMTT(30), <1>1, <1>2, <2>1, WithType
  <2>3. With(c1, n.depth, l, h, Append(o, s)) = d
    BY <1>1 DEF With, CtxType
  <2>. QED  BY <2>2, <2>3
<1>6. d.kind = c.kind
  BY <1>1 DEF With, CtxType
<1>7. CtxOK(c1, i, below[i], m.loops, ms, loop_stack)
  <2>1. \A j \in below[i] + 1..mk[Len(c.open)].loops : loop_stack[j] = loop_stack[j]
    OBVIOUS
  <2>2. {} \subseteq Level(c, mk[Len(c.open)], mk[Len(c.open)].locals) /\ {} \in Heights
    BY DEF Heights
  <2>. HIDE DEF i
  <2>3. CtxOK(With(c, mk[Len(c.open)].depth, SubSeq(c.locals, 1, mk[Len(c.open)].locals), {},
                    Front(c.open)),
               i, below[i], mk[Len(c.open)].loops, Front(mk), loop_stack)
    BY <1>1, <2>1, <2>2, CloseOK
  <2>. QED  BY <1>4, <2>3
<1>8. ms[Len(o) + 1] = m
  <2>1. c.open \in Seq(OpenType) /\ mk \in Seq(Mark) /\ Len(mk) = Len(c.open) + 1 /\ Len(c.open) \in Nat
    BY <1>1, CtxFacts
  <2>2. Len(o) = Len(c.open) - 1 /\ Len(c.open) \in Nat \ {0}
    BY <2>1, FrontFacts
  <2>3. mk # <<>>
    BY <2>1, EmptySeq
  <2>4. \A j \in 1..Len(mk) - 1 : ms[j] = mk[j]
    BY <2>1, <2>3, FrontFacts
  <2>5. Len(o) + 1 = Len(c.open) /\ Len(c.open) \in 1..Len(mk) - 1
    BY <2>1, <2>2
  <2>. QED  BY <1>4, <2>4, <2>5
<1>9. CtxOK(d, i, below[i], Len(L), Append(ms, n), L)
  <2>1. /\ h \subseteq Level(c1, n, Len(l))
        /\ Grows(c1.locals, l, c1.scope_depth, n.depth)
        /\ c1.kind = "module" => l = <<>>
    BY <1>5 DEF Level
  <2>2. /\ StatementOK(With(c1, n.depth, l, h, Append(c1.open, s)), i, s, ms[Len(c1.open) + 1], n, L)
        /\ s.node \in Loopy => L[m.loops + 1].context = i
    BY <1>5, <1>8
  <2>. HIDE DEF i, c1, ms
  <2>3. CtxOK(With(c1, n.depth, l, h, Append(c1.open, s)), i, below[i], n.loops, Append(ms, n), L)
    BY ZenonT(60), <1>3, <1>7, <2>1, <2>2, OpenOK
  <2>. QED  BY <1>5, <2>3
<1>. HIDE DEF c1, ms, o
<1>10. CtxOK(d, Len(ctxs), below[Len(ctxs)], Len(L), Append(ms, n), L)
  BY <1>9
<1>. QED  BY <1>3, <1>6, <1>10, SetInv

LEMMA GrowsLeft ==
  ASSUME NEW below, NEW mk, Now(below, mk), NEW c, c = Cur, c.open # <<>>, NEW m, m = Before(mk),
         NEW e, NEW w \in m.locals..Len(c.locals), Split(c.locals, e, w), NEW x \in Nat, e \in Nat, e <= x
  PROVE  Grows(Left(mk), SubSeq(c.locals, 1, w), m.depth, x)
<1>. DEFINE l == SubSeq(c.locals, 1, w)
<1>1. /\ m.locals \in 0..Len(c.locals) /\ Split(c.locals, m.depth, m.locals)
      /\ Left(mk) \in Seq(LocalType) /\ Len(Left(mk)) = m.locals
  <2>1. Here(mk) = Here(mk) /\ Statement = Statement
    OBVIOUS
  <2>. QED  BY <2>1, LastFacts
<1>2. /\ c.locals \in Seq(LocalType) /\ Len(c.locals) \in Nat /\ Len(c.locals) <= LocalsMax
      /\ LocalsMax \in Nat
  BY HereFacts
<1>3. w \in 0..Len(c.locals) /\ m.locals <= w
  BY <1>1, <1>2
<1>4. l \in Seq(LocalType) /\ Len(l) = w /\ \A k \in 1..w : l[k] = c.locals[k]
  BY <1>2, <1>3, FirstPart
<1>5. Left(mk) = SubSeq(c.locals, 1, m.locals)
  BY DEF Left
<1>6. \A k \in 1..m.locals : Left(mk)[k] = c.locals[k]
  BY <1>1, <1>2, <1>5, FirstPart
<1>7. \A k \in 1..Len(c.locals) : c.locals[k].at \subseteq {k - 1}
  BY DEF Now, CtxOK
<1>. HIDE DEF l
<1>8. ASSUME NEW k \in m.locals + 1..w
      PROVE  l[k].depth > m.depth /\ l[k].depth <= x /\ l[k].at \subseteq {k - 1}
  <2>1. k \in 1..Len(c.locals) /\ k \in 1..w /\ k > m.locals /\ ~ (k > w)
    BY <1>1, <1>2, <1>3
  <2>2. l[k] = c.locals[k] /\ c.locals[k].depth \in Nat
    BY <1>2, <1>4, <2>1, DepthType
  <2>3. c.locals[k].depth > m.depth /\ ~ (c.locals[k].depth > e)
    BY <1>1, <2>1 DEF Split
  <2>4. c.locals[k].depth <= x
    BY <2>2, <2>3
  <2>. QED  BY <1>7, <2>1, <2>2, <2>3, <2>4
<1>9. \A k \in 1..Len(Left(mk)) : l[k] = Left(mk)[k]
  <2>1. \A k \in 1..m.locals : k \in 1..w
    BY <1>1, <1>2, <1>3
  <2>. QED  BY <1>1, <1>4, <1>6, <2>1
<1>10. Len(Left(mk)) <= Len(l) /\ Len(l) <= LocalsMax
  BY <1>1, <1>2, <1>3, <1>4
<1>11. Grows(Left(mk), l, m.depth, x)
  BY <1>1, <1>4, <1>8, <1>9, <1>10 DEF Grows
<1>. QED  BY <1>11 DEF l

LEMMA EndOne ==
  ASSUME NEW below, NEW mk, Now(below, mk), NEW c, c = Cur, c.open # <<>>, NEW m, m = Before(mk),
         NEW n, n = Here(mk), Scopes(Statement.node) = 1,
         NEW h \in Heights, h \subseteq Level(c, n, Len(c.locals)), NEW w,
         w = With(c, c.scope_depth, c.locals, h, c.open)
  PROVE  \E h2 \in Heights :
           /\ endScope(w) = With(c, m.depth, Left(mk), h2, c.open)
           /\ h2 \subseteq Level(c, n, m.locals) /\ h2 \subseteq Level(c, m, m.locals)
           /\ endScope(w).heights = h2
<1>1. /\ StatementOK(c, Len(ctxs), Statement, m, n, loop_stack)
      /\ m.depth \in Nat /\ m.locals \in 0..Len(c.locals)
      /\ n.depth = c.scope_depth /\ Split(c.locals, m.depth, m.locals)
      /\ \A x : Level(c, n, x) \subseteq Level(c, m, x)
      /\ Left(mk) \in Seq(LocalType)
  BY LastFacts
<1>2. /\ c \in CtxType /\ c.scope_depth \in Nat /\ c.locals \in Seq(LocalType)
      /\ Len(c.locals) \in Nat /\ c.open \in Seq(OpenType)
  BY HereFacts
<1>3. c.scope_depth - 1 = m.depth
  <2>1. c.scope_depth = m.depth + 1
    BY <1>1 DEF StatementOK
  <2>. QED  BY <1>1, <2>1
<1>4. w \in CtxType /\ w.scope_depth = c.scope_depth /\ w.locals = c.locals /\ w.heights = h
      /\ w.open = c.open
  BY <1>2 DEF With, CtxType
<1>. DEFINE a == m.locals - Len(c.locals)
            h2 == Shift(h, a)
<1>5. a \in Int /\ Len(c.locals) + a = m.locals /\ Len(c.locals) \in Int
  BY <1>1, <1>2
<1>6. h2 \in Heights /\ h2 \subseteq Level(c, n, m.locals)
  <2>. HIDE DEF a
  <2>1. Shift(h, a) \subseteq Level(c, n, Len(c.locals) + a)
    BY <1>5, LevelShift
  <2>. QED  BY <1>5, <2>1, ShiftFacts
<1>7. endScope(w) = With(w, m.depth, Left(mk), h2, c.open)
  <2>1. Split(w.locals, w.scope_depth - 1, m.locals)
    BY <1>1, <1>3, <1>4
  <2>2. endScope(w) = With(w, w.scope_depth - 1, SubSeq(w.locals, 1, m.locals),
                           Shift(w.heights, m.locals - Len(w.locals)), w.open)
    BY <1>4, <2>1, EndScopeFacts
  <2>3. Left(mk) = SubSeq(c.locals, 1, m.locals)
    BY DEF Left
  <2>. QED  BY <1>3, <1>4, <2>2, <2>3
<1>. HIDE DEF h2
<1>8. endScope(w) = With(c, m.depth, Left(mk), h2, c.open) /\ endScope(w).heights = h2
  <2>1. With(w, m.depth, Left(mk), h2, c.open) = With(c, m.depth, Left(mk), h2, c.open)
    BY <1>2 DEF With, CtxType
  <2>2. With(c, m.depth, Left(mk), h2, c.open).heights = h2
    BY <1>2 DEF With, CtxType
  <2>. QED  BY <1>7, <2>1, <2>2
<1>. QED  BY <1>1, <1>6, <1>8

\* What the end of a block in a scope of its own can rely on.
LEMMA InFacts ==
  ASSUME NEW below, NEW mk, Now(below, mk), NEW node, In(node)
  PROVE  /\ Cur.open # <<>> /\ Statement.node = node
         /\ Statement.jump \in Heights /\ Statement.end \in Heights
         /\ Popped(Statement.jump) \in Heights
         /\ Here(mk).dead = (Before(mk).dead \/ node \in {"up", "down"})
         /\ Here(mk).dead \in BOOLEAN /\ Before(mk).dead \in BOOLEAN
         /\ node \notin Loopy => Before(mk).loops = Len(loop_stack)
         /\ node \in Loopy => Before(mk).loops = Len(loop_stack) - 1 /\ loop_stack # <<>>
<1>1. Cur.open # <<>> /\ Statement.node = node
  BY DEF In
<1>. DEFINE m == Before(mk)
            n == Here(mk)
            s == Statement
<1>2. /\ s \in OpenType /\ m \in Mark /\ n \in Mark
      /\ StatementOK(Cur, Len(ctxs), s, m, n, loop_stack)
      /\ m.loops \in Nat /\ n.loops = Len(loop_stack)
  BY <1>1, LastFacts
<1>3. s.jump \in Heights /\ s.end \in Heights
  BY <1>2 DEF OpenType
<1>. HIDE DEF m, n, s
<1>4. Popped(s.jump) \in Heights
  <2>1. -1 \in Int
    OBVIOUS
  <2>. QED  BY <1>3, <2>1, ShiftFacts DEF Popped
<1>5. n.dead = (m.dead \/ s.node \in {"up", "down"})
  BY <1>2 DEF StatementOK
<1>6. n.dead \in BOOLEAN /\ m.dead \in BOOLEAN
  BY <1>2 DEF Mark
<1>7. n.loops = m.loops + (IF s.node \in Loopy THEN 1 ELSE 0)
  BY <1>2 DEF StatementOK
<1>8. s.node \notin Loopy => m.loops = Len(loop_stack)
  BY <1>2, <1>7
<1>9. ASSUME s.node \in Loopy PROVE m.loops = Len(loop_stack) - 1 /\ loop_stack # <<>>
  <2>1. Len(loop_stack) = m.loops + 1
    BY <1>2, <1>7, <1>9
  <2>2. loop_stack \in Seq(LoopType)
    BY NowFacts
  <2>. QED  BY <1>2, <2>1, <2>2, EmptySeq
<1>. QED  BY <1>1, <1>3, <1>4, <1>5, <1>6, <1>8, <1>9 DEF m, n, s

LEMMA EndPlain ==
  ASSUME Inv, NEW node \in {"if", "else", "catch"}, In(node), NEW j,
         node = "if" => j = Popped(Statement.jump), node # "if" => j = Statement.end,
         Set(Close(Patch(endScope(Cur), j))), loop_stack' = loop_stack, import_stack' = import_stack
  PROVE  Inv'
<1>1. PICK below, mk : Now(below, mk)
  BY InvNow DEF In
<1>. DEFINE c == Cur
            m == Before(mk)
            n == Here(mk)
            s == Statement
            l == Left(mk)
            o == Front(c.open)
<1>2. /\ c.open # <<>> /\ s.node = node /\ s.end \in Heights /\ Popped(s.jump) \in Heights
      /\ m.loops = Len(loop_stack)
  BY <1>1, InFacts DEF Loopy
<1>3. /\ c \in CtxType /\ c.scope_depth \in Nat /\ c.locals \in Seq(LocalType) /\ c.heights \in Heights
      /\ Len(c.locals) \in Nat /\ c.heights \subseteq Level(c, n, Len(c.locals))
      /\ loop_stack \in Seq(LoopType)
  BY <1>1, HereFacts, NowFacts
<1>4. /\ StatementOK(c, Len(ctxs), s, m, n, loop_stack)
      /\ m.locals \in 0..Len(c.locals) /\ m.depth \in Nat
      /\ \A x : Level(c, n, x) \subseteq Level(c, m, x)
  BY <1>1, <1>2, LastFacts
<1>5. c = Cur /\ m = Before(mk) /\ n = Here(mk) /\ s = Statement /\ l = Left(mk)
  OBVIOUS
<1>6. c = With(c, c.scope_depth, c.locals, c.heights, c.open)
  BY <1>3, WithFacts
<1>. HIDE DEF c, m, n, s, l, o
<1>7. Scopes(s.node) = 1
  BY <1>2 DEF Scopes
<1>8. PICK h2 \in Heights :
        endScope(c) = With(c, m.depth, l, h2, c.open) /\ h2 \subseteq Level(c, m, m.locals)
  BY <1>1, <1>2, <1>3, <1>5, <1>6, <1>7, EndOne
<1>9. j \in Heights /\ j \subseteq Level(c, m, m.locals)
  <2>1. CASE node = "if"
    <3>1. s.jump \subseteq Level(c, n, m.locals + 1)
      BY <1>2, <1>4, <2>1 DEF StatementOK
    <3>2. m.locals + 1 \in Int /\ -1 \in Int /\ m.locals + 1 + (-1) = m.locals
      BY <1>3, <1>4
    <3>3. Shift(s.jump, -1) \subseteq Level(c, n, m.locals + 1 + (-1))
      BY <3>1, <3>2, LevelShift
    <3>. QED  BY <1>2, <1>4, <1>5, <2>1, <3>2, <3>3 DEF Popped
  <2>2. CASE node # "if"
    <3>1. s.end \subseteq Level(c, n, m.locals)
      BY <1>2, <1>4, <2>2 DEF StatementOK
    <3>. QED  BY <1>2, <1>4, <1>5, <2>2, <3>1
  <2>. QED  BY <2>1, <2>2
<1>10. Set(With(c, m.depth, l, h2 \union j, Front(c.open)))
  <2>1. Close(Patch(With(c, m.depth, l, h2, c.open), j)) = With(c, m.depth, l, h2 \union j, Front(c.open))
    BY <1>3 DEF Close, Patch, With, CtxType
  <2>. QED  BY <1>5, <1>8, <2>1
<1>11. h2 \union j \in Heights /\ h2 \union j \subseteq Level(c, m, m.locals)
  BY <1>8, <1>9 DEF Heights
<1>12. Len(loop_stack) = m.loops /\ \A q \in 1..m.loops : loop_stack[q] = loop_stack[q]
  BY <1>2
<1>. QED  BY <1>1, <1>2, <1>3, <1>5, <1>10, <1>11, <1>12, EndInv

LEMMA EndIfInv ==
  ASSUME Inv, EndIf
  PROVE  Inv'
<1>1. loop_stack' = loop_stack /\ import_stack' = import_stack
  BY DEF EndIf, SameLoops, SameImports
<1>2. \/ In("if") /\ Set(Close(Patch(endScope(Cur), Popped(Statement.jump))))
      \/ In("else") /\ Set(Close(Patch(endScope(Cur), Statement.end)))
  BY DEF EndIf
<1>. QED  BY <1>1, <1>2, EndPlain

LEMMA EndTryInv ==
  ASSUME Inv, EndTry
  PROVE  Inv'
<1>1. loop_stack' = loop_stack /\ import_stack' = import_stack
  BY DEF EndTry, SameLoops, SameImports
<1>2. In("catch") /\ Set(Close(Patch(endScope(Cur), Statement.end)))
  BY DEF EndTry
<1>. QED  BY <1>1, <1>2, EndPlain

\* The else of an if, the catch of a try: the block before has ended with the
\* heights e.
LEMMA SecondBlock ==
  ASSUME NEW below, NEW mk, Now(below, mk), NEW c, c = Cur, c.open # <<>>, NEW m, m = Before(mk),
         m.loops = Len(loop_stack), m.dead \in BOOLEAN,
         NEW node \in {"else", "catch"}, NEW l, NEW h \in Heights, NEW e \in Heights,
         NEW d, d = With(c, m.depth + 1, l, h, Append(Front(c.open), [node |-> node, jump |-> {}, end |-> e])),
         Grows(Left(mk), l, m.depth, m.depth + 1), c.kind = "module" => l = <<>>,
         h \subseteq Level(c, m, Len(l)), e \subseteq Level(c, m, m.locals),
         Set(d), loop_stack' = loop_stack, import_stack' = import_stack
  PROVE  Inv'
<1>. DEFINE s == [node |-> node, jump |-> {}, end |-> e]
            n == [depth |-> m.depth + 1, locals |-> Len(l), loops |-> Len(loop_stack), dead |-> m.dead]
<1>1. m.depth \in Nat /\ m.locals \in Nat /\ Len(loop_stack) \in Nat /\ loop_stack \in Seq(LoopType)
      /\ c \in CtxType
  <2>1. Here(mk) = Here(mk) /\ Statement = Statement
    OBVIOUS
  <2>2. m \in Mark
    BY <2>1, LastFacts
  <2>. QED  BY <2>2, HereFacts, NowFacts DEF Mark
<1>2. Len(l) \in Nat
  BY LenProperties DEF Grows
<1>3. n \in Mark /\ n.depth = m.depth + 1 /\ n.locals = Len(l) /\ n.loops = Len(loop_stack)
  BY <1>1, <1>2 DEF Mark
<1>4. n.dead = m.dead
  OBVIOUS
<1>5. s \in OpenType /\ s.node = node /\ s.jump = {} /\ s.end = e
  BY DEF OpenType, Node, Heights
<1>6. d = With(c, n.depth, l, h, Append(Front(c.open), s))
  OBVIOUS
<1>. HIDE DEF s, n
<1>7. d.kind = c.kind
  BY <1>1, <1>6 DEF With, CtxType
<1>8. \A x : Level(d, n, x) = Level(c, m, x) /\ Level(c, n, x) = Level(c, m, x)
  BY <1>4, <1>7 DEF Level, Base
<1>9. n.dead = (m.dead \/ s.node \in {"up", "down"})
  BY <1>4, <1>5
<1>10. StatementOK(d, Len(ctxs), s, m, n, loop_stack)
  <2>1. s.node \notin Loopy /\ Scopes(s.node) = 1
    BY <1>5 DEF Scopes, Loopy
  <2>2. n.loops = m.loops + (IF s.node \in Loopy THEN 1 ELSE 0)
    BY <1>1, <1>3, <2>1
  <2>3. s.end \subseteq Level(d, n, m.locals)
    BY <1>5, <1>8
  <2>. QED  BY <1>3, <1>5, <1>9, <2>1, <2>2, <2>3 DEF StatementOK
<1>11. /\ Grows(Left(mk), l, m.depth, n.depth) /\ h \subseteq Level(c, n, Len(l))
       /\ Len(loop_stack) = n.loops
       /\ \A j \in 1..m.loops : loop_stack[j] = loop_stack[j]
       /\ s.node \in Loopy => loop_stack[m.loops + 1].context = Len(ctxs)
  BY <1>3, <1>5, <1>8 DEF Loopy
<1>. QED  BY SMTT(60), <1>1, <1>3, <1>5, <1>6, <1>10, <1>11, ReopenInv

LEMMA ElseInv ==
  ASSUME Inv, Else
  PROVE  Inv'
<1>1. loop_stack' = loop_stack /\ import_stack' = import_stack /\ In("if") /\ Compiling
  BY DEF Else, SameLoops, SameImports, In
<1>2. PICK below, mk : Now(below, mk)
  BY <1>1, InvNow
<1>. DEFINE c == Cur
            m == Before(mk)
            n == Here(mk)
            s == Statement
            l == Left(mk)
            h == Popped(s.jump)
<1>3. /\ c.open # <<>> /\ s.node = "if" /\ h \in Heights /\ m.dead \in BOOLEAN
      /\ m.loops = Len(loop_stack)
  BY <1>1, <1>2, InFacts DEF Loopy
<1>4. /\ c \in CtxType /\ c.scope_depth \in Nat /\ c.locals \in Seq(LocalType) /\ c.heights \in Heights
      /\ Len(c.locals) \in Nat /\ c.heights \subseteq Level(c, n, Len(c.locals))
  BY <1>2, HereFacts
<1>5. /\ StatementOK(c, Len(ctxs), s, m, n, loop_stack)
      /\ m.locals \in 0..Len(c.locals) /\ m.depth \in Nat /\ Split(c.locals, m.depth, m.locals)
      /\ l \in Seq(LocalType) /\ Len(l) = m.locals
      /\ \A x : Level(c, n, x) \subseteq Level(c, m, x)
  BY <1>2, <1>3, LastFacts
<1>6. c = Cur /\ m = Before(mk) /\ n = Here(mk) /\ s = Statement /\ l = Left(mk)
      /\ h = Popped(s.jump) /\ l = SubSeq(c.locals, 1, m.locals)
  BY DEF Left
<1>7. c = With(c, c.scope_depth, c.locals, c.heights, c.open)
  BY <1>4, WithFacts
<1>8. Set(Reopen(beginScope(Only(endScope(c), h)), "else", {}, endScope(c).heights))
  BY DEF Else
<1>. HIDE DEF c, m, n, s, l, h
<1>9. Scopes(s.node) = 1
  BY <1>3 DEF Scopes
<1>10. PICK e \in Heights :
        /\ endScope(c) = With(c, m.depth, l, e, c.open) /\ e \subseteq Level(c, m, m.locals)
        /\ endScope(c).heights = e
  <2>1. c.open # <<>> /\ c.heights \in Heights /\ c.heights \subseteq Level(c, n, Len(c.locals))
    BY <1>3, <1>4
  <2>2. c = Cur /\ m = Before(mk) /\ n = Here(mk) /\ Scopes(Statement.node) = 1 /\ l = Left(mk)
    BY <1>6, <1>9
  <2>. QED  BY <1>2, <1>7, <2>1, <2>2, EndOne
<1>11. h \subseteq Level(c, m, Len(l))
  <2>1. s.jump \subseteq Level(c, n, m.locals + 1)
    BY <1>3, <1>5 DEF StatementOK
  <2>2. m.locals + 1 \in Int /\ -1 \in Int /\ m.locals + 1 + (-1) = m.locals
    BY <1>4, <1>5
  <2>3. Shift(s.jump, -1) \subseteq Level(c, n, m.locals + 1 + (-1))
    BY <2>1, <2>2, LevelShift
  <2>. QED  BY <1>5, <1>6, <2>2, <2>3 DEF Popped
<1>. DEFINE d == With(c, m.depth + 1, l, h,
                      Append(Front(c.open), [node |-> "else", jump |-> {}, end |-> e]))
<1>12. Set(d)
  <2>1. Reopen(beginScope(Only(With(c, m.depth, l, e, c.open), h)), "else", {}, e) = d
    BY <1>4 DEF Reopen, beginScope, Only, With, CtxType
  <2>. QED  BY <1>8, <1>10, <2>1
<1>13. Grows(l, l, m.depth, m.depth + 1)
  <2>1. Len(l) \in Nat /\ Len(l) <= LocalsMax
    <3>1. Len(c.locals) <= LocalsMax /\ LocalsMax \in Nat
      BY <1>2, <1>6, HereFacts
    <3>. QED  BY <1>4, <1>5, <3>1
  <2>. QED  BY <1>5, <2>1 DEF Grows
<1>14. c.kind = "module" => l = <<>>
  <2>1. SUFFICES ASSUME c.kind = "module" PROVE l = <<>>
    OBVIOUS
  <2>2. c.locals = <<>>
    BY <1>2, <1>6, <2>1, HereFacts
  <2>3. Len(l) = 0
    <3>1. Len(c.locals) = 0
      BY <2>2
    <3>. QED  BY <1>5, <3>1
  <2>. QED  BY <1>5, <2>3, EmptySeq
<1>15. d = With(c, m.depth + 1, l, h, Append(Front(c.open), [node |-> "else", jump |-> {}, end |-> e]))
  OBVIOUS
<1>. HIDE DEF d
<1>16. /\ c.open # <<>> /\ m.loops = Len(loop_stack) /\ m.dead \in BOOLEAN /\ h \in Heights
       /\ c = Cur /\ m = Before(mk)
       /\ Grows(Left(mk), l, m.depth, m.depth + 1)
  BY <1>3, <1>6, <1>13
<1>. QED  BY <1>1, <1>2, <1>10, <1>11, <1>12, <1>14, <1>15, <1>16, SecondBlock

LEMMA CatchInv ==
  ASSUME Inv, SafeShapes, Catch
  PROVE  Inv'
<1>1. loop_stack' = loop_stack /\ import_stack' = import_stack /\ In("try") /\ Compiling /\ CanDeclare(1)
  BY DEF Catch, SameLoops, SameImports, In
<1>2. PICK below, mk : Now(below, mk)
  BY <1>1, InvNow
<1>. DEFINE c == Cur
            m == Before(mk)
            n == Here(mk)
            s == Statement
            l == Left(mk)
            h == s.jump
            at == Popped(h)
            x == m.depth + 1
            l2 == Append(l, Slot(x, at))
<1>3. /\ c.open # <<>> /\ s.node = "try" /\ h \in Heights /\ at \in Heights /\ m.dead \in BOOLEAN
      /\ m.loops = Len(loop_stack)
  BY <1>1, <1>2, InFacts DEF Loopy
<1>4. /\ c \in CtxType /\ c.scope_depth \in Nat /\ c.locals \in Seq(LocalType) /\ c.heights \in Heights
      /\ Len(c.locals) \in Nat /\ c.heights \subseteq Level(c, n, Len(c.locals))
      /\ LocalsMax \in Nat
  BY <1>2, HereFacts
<1>5. /\ StatementOK(c, Len(ctxs), s, m, n, loop_stack)
      /\ m.locals \in 0..Len(c.locals) /\ m.depth \in Nat /\ Split(c.locals, m.depth, m.locals)
      /\ l \in Seq(LocalType) /\ Len(l) = m.locals
      /\ \A q : Level(c, n, q) \subseteq Level(c, m, q)
  BY <1>2, <1>3, LastFacts
<1>6. c = Cur /\ m = Before(mk) /\ n = Here(mk) /\ s = Statement /\ l = Left(mk)
      /\ h = s.jump /\ at = Popped(h) /\ x = m.depth + 1
  OBVIOUS
<1>7. c = With(c, c.scope_depth, c.locals, c.heights, c.open)
  BY <1>4, WithFacts
<1>8. Set(Reopen(addLocal(beginScope(Only(endScope(c), h))), "catch", {}, endScope(c).heights))
  BY DEF Catch
<1>. HIDE DEF c, m, n, s, l, h, at, x
<1>9. Scopes(s.node) = 1 /\ c.kind # "module" /\ Len(c.locals) + 1 <= LocalsMax
  BY <1>1, <1>2, <1>3, <1>6, DeclareRoom DEF Scopes
<1>10. PICK e \in Heights :
        /\ endScope(c) = With(c, m.depth, l, e, c.open) /\ e \subseteq Level(c, m, m.locals)
        /\ endScope(c).heights = e
  BY <1>2, <1>3, <1>4, <1>6, <1>7, <1>9, EndOne
<1>11. h \subseteq Level(c, m, m.locals + 1) /\ at \subseteq {m.locals}
  <2>1. h \subseteq Level(c, n, m.locals + 1)
    BY <1>3, <1>5, <1>6 DEF StatementOK
  <2>2. m.locals + 1 \in Int /\ -1 \in Int /\ m.locals + 1 + (-1) = m.locals /\ m.locals \in Int
    BY <1>4, <1>5
  <2>3. Shift(h, -1) \subseteq Level(c, n, m.locals + 1 + (-1))
    BY <2>1, <2>2, LevelShift
  <2>4. at \subseteq Level(c, n, m.locals)
    BY <1>6, <2>2, <2>3 DEF Popped
  <2>5. at \subseteq {m.locals}
    BY <1>9, <2>2, <2>4, SlotLevel
  <2>. QED  BY <1>5, <2>1, <2>5
<1>. DEFINE d == With(c, x, l2, h,
                      Append(Front(c.open), [node |-> "catch", jump |-> {}, end |-> e]))
<1>12. Set(d)
  <2>1. Reopen(addLocal(beginScope(Only(With(c, m.depth, l, e, c.open), h))), "catch", {}, e) = d
    BY ZenonT(60), <1>4, <1>6 DEF Reopen, beginScope, addLocal, Local, Only, With, CtxType, Slot
  <2>. QED  BY <1>8, <1>10, <2>1
<1>13. Grows(l, l2, m.depth, x) /\ Len(l2) = m.locals + 1
  <2>1. Len(l) \in Nat /\ Len(l) < LocalsMax
    BY <1>4, <1>5, <1>9
  <2>2. Grows(l, l, m.depth, x)
    BY <1>5, <2>1, <1>4 DEF Grows
  <2>3. m.depth \in Int /\ x \in Int /\ x \in Nat /\ m.depth < x /\ x <= x
    BY <1>5, <1>6
  <2>4. at \subseteq {Len(l)}
    BY <1>5, <1>11
  <2>5. Grows(l, Append(l, Slot(x, at)), m.depth, x) /\ Len(Append(l, Slot(x, at))) = Len(l) + 1
    BY <1>3, <1>5, <2>1, <2>2, <2>3, <2>4, GrowsOne
  <2>. QED  BY <1>5, <2>5
<1>14. h \subseteq Level(c, m, Len(l2)) /\ (c.kind = "module" => l2 = <<>>)
  BY <1>9, <1>11, <1>13
<1>15. /\ d = With(c, m.depth + 1, l2, h, Append(Front(c.open), [node |-> "catch", jump |-> {}, end |-> e]))
       /\ Grows(Left(mk), l2, m.depth, m.depth + 1)
  BY <1>6, <1>13
<1>. HIDE DEF d, l2
<1>. QED  BY <1>1, <1>2, <1>3, <1>6, <1>10, <1>12, <1>14, <1>15, SecondBlock

LEMMA LoopLast ==
  ASSUME NEW below, NEW mk, Now(below, mk), NEW node \in Loopy, In(node), NEW c, c = Cur,
         NEW m, m = Before(mk), NEW n, n = Here(mk), NEW r, r = Innermost
  PROVE  /\ r \in LoopType /\ LoopOK(c, node, m, n, r)
         /\ r.start \in Heights /\ r.breaks \in Heights /\ r.continues \in Heights
         /\ Front(loop_stack) \in Seq(LoopType) /\ Len(Front(loop_stack)) = m.loops
         /\ \A j \in 1..m.loops : Front(loop_stack)[j] = loop_stack[j]
<1>. DEFINE s == Statement
            k == Len(loop_stack)
<1>1. c.open # <<>> /\ s.node = node /\ m.loops = k - 1 /\ loop_stack # <<>>
      /\ loop_stack \in Seq(LoopType)
  BY InFacts, NowFacts
<1>2. StatementOK(c, Len(ctxs), s, m, n, loop_stack) /\ n.loops = k
  BY <1>1, LastFacts
<1>3. /\ k \in Nat \ {0} /\ r = loop_stack[k] /\ r \in LoopType
      /\ Front(loop_stack) \in Seq(LoopType) /\ Len(Front(loop_stack)) = k - 1
      /\ \A j \in 1..k - 1 : Front(loop_stack)[j] = loop_stack[j]
  BY <1>1, FrontFacts DEF Innermost
<1>4. LoopOK(c, node, m, n, r)
  BY <1>1, <1>2, <1>3 DEF StatementOK
<1>5. r.start \in Heights /\ r.breaks \in Heights /\ r.continues \in Heights
  BY <1>3 DEF LoopType
<1>. QED  BY <1>1, <1>3, <1>4, <1>5

\* A loop ends.
LEMMA PopEnd ==
  ASSUME NEW below, NEW mk, Now(below, mk), NEW node \in Loopy, In(node), NEW c, c = Cur,
         NEW m, m = Before(mk), NEW h \in Heights, h \subseteq Level(c, m, m.locals),
         NEW l, l = Left(mk), Set(With(c, m.depth, l, h, Front(c.open))), PopLoop
  PROVE  Inv'
<1>1. c.open # <<>>
  BY InFacts
<1>2. /\ Front(loop_stack) \in Seq(LoopType) /\ Len(Front(loop_stack)) = m.loops
      /\ \A j \in 1..m.loops : Front(loop_stack)[j] = loop_stack[j]
  <2>1. Here(mk) = Here(mk) /\ Innermost = Innermost
    OBVIOUS
  <2>. QED  BY <2>1, LoopLast
<1>3. loop_stack' = Front(loop_stack) /\ import_stack' = import_stack
  BY DEF PopLoop, SameImports
<1>. DEFINE L == Front(loop_stack)
<1>. HIDE DEF L
<1>. QED  BY <1>1, <1>2, <1>3, EndInv DEF L

LEMMA EndWhileInv ==
  ASSUME Inv, EndWhile
  PROVE  Inv'
<1>1. In("loop") /\ Compiling /\ PopLoop
  BY DEF EndWhile, In
<1>2. PICK below, mk : Now(below, mk)
  BY <1>1, InvNow
<1>. DEFINE c == Cur
            m == Before(mk)
            n == Here(mk)
            s == Statement
            l == Left(mk)
            r == Innermost
<1>3. c.open # <<>> /\ s.node = "loop" /\ Scopes(s.node) = 1
  <2>1. c.open # <<>> /\ s.node = "loop"
    BY <1>1, <1>2, InFacts
  <2>. QED  BY <2>1 DEF Scopes
<1>4. /\ c \in CtxType /\ c.scope_depth \in Nat /\ c.locals \in Seq(LocalType) /\ c.heights \in Heights
      /\ Len(c.locals) \in Nat /\ c.heights \subseteq Level(c, n, Len(c.locals))
      /\ c.open \in Seq(OpenType)
  BY <1>2, HereFacts
<1>5. /\ m.depth \in Nat /\ l \in Seq(LocalType)
      /\ \A x : Level(c, n, x) \subseteq Level(c, m, x)
  BY <1>2, <1>3, LastFacts
<1>6. /\ r \in LoopType /\ LoopOK(c, "loop", m, n, r)
      /\ r.start \in Heights /\ r.breaks \in Heights /\ r.continues \in Heights
  BY <1>1, <1>2, LoopLast DEF Loopy
<1>7. c = Cur /\ m = Before(mk) /\ n = Here(mk) /\ l = Left(mk) /\ s = Statement /\ r = Innermost
  OBVIOUS
<1>8. c = With(c, c.scope_depth, c.locals, c.heights, c.open)
  BY <1>4, WithFacts
<1>9. LET d == Patch(endScope(c), r.continues)
      IN  Set(Close(Patch(Only(d, Popped(Value(Heads(d)))), r.breaks)))
  BY DEF EndWhile
<1>10. \A d : Heads(d) = r.start \union d.heights
  BY DEF Heads
<1>. HIDE DEF c, m, n, s, l, r
<1>11. PICK e \in Heights :
        /\ endScope(c) = With(c, m.depth, l, e, c.open) /\ e \subseteq Level(c, n, m.locals)
  <2>1. c.open # <<>> /\ c.heights \in Heights /\ c.heights \subseteq Level(c, n, Len(c.locals))
    BY <1>3, <1>4
  <2>2. c = Cur /\ m = Before(mk) /\ n = Here(mk) /\ Scopes(Statement.node) = 1 /\ l = Left(mk)
    BY <1>3, <1>7
  <2>. QED  BY <1>2, <1>8, <2>1, <2>2, EndOne
<1>. DEFINE d == Patch(endScope(c), r.continues)
            g == r.start \union (e \union r.continues)
            h == g \union r.breaks
<1>12. g \in Heights /\ h \in Heights /\ h \subseteq Level(c, m, m.locals)
  <2>1. g \in Heights /\ h \in Heights
    BY <1>6, <1>11 DEF Heights
  <2>2. r.breaks \subseteq Level(c, n, m.locals) /\ r.start \union r.continues \subseteq Level(c, n, m.locals)
    BY <1>6 DEF LoopOK
  <2>. QED  BY <1>5, <1>11, <2>1, <2>2
<1>13. d = With(c, m.depth, l, e \union r.continues, c.open) /\ d.heights = e \union r.continues
  BY <1>4, <1>11 DEF Patch, With, CtxType
<1>14. Popped(Value(Heads(d))) = g
  <2>1. Heads(d) = g
    BY <1>10, <1>13
  <2>. HIDE DEF g
  <2>. QED  BY <1>12, <2>1, ShiftBack DEF Popped, Value
<1>15. Set(Close(Patch(Only(d, g), r.breaks)))
  BY <1>9, <1>14
<1>16. Close(Patch(Only(With(c, m.depth, l, e \union r.continues, c.open), g), r.breaks)) =
         With(c, m.depth, l, h, Front(c.open))
  BY <1>4 DEF Close, Patch, Only, With, CtxType
<1>17. Set(With(c, m.depth, l, h, Front(c.open)))
  BY <1>13, <1>15, <1>16
<1>. HIDE DEF d, g, h
<1>18. "loop" \in Loopy
  BY DEF Loopy
<1>. QED  BY <1>1, <1>2, <1>7, <1>12, <1>17, <1>18, PopEnd

LEMMA LoopExitFacts ==
  ASSUME NEW below, NEW mk, Now(below, mk), NEW node \in {"range", "up", "down"}, In(node),
         NEW c, c = Cur, NEW n, n = Here(mk)
  PROVE  \E g \in Heights : /\ LoopExit = With(c, c.scope_depth, c.locals, g, c.open)
                            /\ g \subseteq Level(c, n, Len(c.locals))
<1>. DEFINE r == Innermost
            m == Before(mk)
            g == r.start \union (c.heights \union r.continues)
            body == Patch(c, r.continues)
<1>1. /\ c \in CtxType /\ c.heights \in Heights /\ c.heights \subseteq Level(c, n, Len(c.locals))
      /\ n.locals = Len(c.locals)
  BY HereFacts
<1>2. /\ r \in LoopType /\ LoopOK(c, node, m, n, r)
      /\ r.start \in Heights /\ r.breaks \in Heights /\ r.continues \in Heights
  <2>1. node \in Loopy
    BY DEF Loopy
  <2>. QED  BY <2>1, LoopLast
<1>3. r = Innermost
  OBVIOUS
<1>. HIDE DEF m, r
<1>4. g \in Heights /\ g \subseteq Level(c, n, Len(c.locals))
  <2>1. g \in Heights
    BY <1>1, <1>2 DEF Heights
  <2>2. r.start \union r.continues \subseteq Level(c, n, Len(c.locals))
    BY <1>1, <1>2 DEF LoopOK
  <2>. QED  BY <1>1, <2>1, <2>2
<1>5. body = With(c, c.scope_depth, c.locals, c.heights \union r.continues, c.open)
      /\ body.heights = c.heights \union r.continues
  BY <1>1 DEF Patch, With, CtxType
<1>6. Popped(Binary(Heads(body))) = g
  <2>1. Heads(body) = g
    BY <1>3, <1>5 DEF Heads
  <2>. HIDE DEF g, body
  <2>2. Binary(g) = Shift(g, 1) /\ Popped(Shift(g, 1)) = Shift(Shift(g, 1), -1)
    BY <1>4, FormFacts DEF Popped
  <2>. QED  BY <1>4, <2>1, <2>2, ShiftBack
<1>7. LoopExit = Only(body, g)
  BY <1>3, <1>6 DEF LoopExit
<1>8. Only(With(c, c.scope_depth, c.locals, c.heights \union r.continues, c.open), g) =
        With(c, c.scope_depth, c.locals, g, c.open)
  BY <1>1 DEF Only, With, CtxType
<1>9. LoopExit = With(c, c.scope_depth, c.locals, g, c.open)
  BY <1>5, <1>7, <1>8
<1>. HIDE DEF g
<1>. QED  BY <1>4, <1>9

LEMMA EndForRangeInv ==
  ASSUME Inv, EndForRange
  PROVE  Inv'
<1>1. In("range") /\ Compiling /\ PopLoop
  BY DEF EndForRange, In
<1>2. PICK below, mk : Now(below, mk)
  BY <1>1, InvNow
<1>. DEFINE c == Cur
            m == Before(mk)
            n == Here(mk)
            s == Statement
            l == Left(mk)
            r == Innermost
<1>3. c.open # <<>> /\ s.node = "range" /\ Scopes(s.node) = 1
  <2>1. c.open # <<>> /\ s.node = "range"
    BY <1>1, <1>2, InFacts
  <2>. QED  BY <2>1 DEF Scopes
<1>4. c \in CtxType
  BY <1>2, HereFacts
<1>5. \A x : Level(c, n, x) \subseteq Level(c, m, x)
  BY <1>2, <1>3, LastFacts
<1>6. r.breaks \in Heights /\ LoopOK(c, "range", m, n, r)
  BY <1>1, <1>2, LoopLast DEF Loopy
<1>7. c = Cur /\ m = Before(mk) /\ n = Here(mk) /\ l = Left(mk) /\ s = Statement /\ r = Innermost
  OBVIOUS
<1>8. Set(Close(Patch(endScope(LoopExit), r.breaks)))
  BY DEF EndForRange
<1>. HIDE DEF c, m, n, s, l, r
<1>9. PICK g \in Heights : LoopExit = With(c, c.scope_depth, c.locals, g, c.open)
                           /\ g \subseteq Level(c, n, Len(c.locals))
  BY <1>1, <1>2, <1>7, LoopExitFacts
<1>10. PICK e \in Heights :
        /\ endScope(LoopExit) = With(c, m.depth, l, e, c.open) /\ e \subseteq Level(c, n, m.locals)
  <2>1. c = Cur /\ m = Before(mk) /\ n = Here(mk) /\ Scopes(Statement.node) = 1 /\ l = Left(mk)
    BY <1>3, <1>7
  <2>. QED  BY <1>2, <1>3, <1>9, <2>1, EndOne
<1>. DEFINE h == e \union r.breaks
<1>11. h \in Heights /\ h \subseteq Level(c, m, m.locals)
  <2>1. h \in Heights
    BY <1>6, <1>10 DEF Heights
  <2>2. r.breaks \subseteq Level(c, n, m.locals)
    BY <1>6 DEF LoopOK
  <2>. QED  BY <1>5, <1>10, <2>1, <2>2
<1>12. Close(Patch(With(c, m.depth, l, e, c.open), r.breaks)) = With(c, m.depth, l, h, Front(c.open))
  BY <1>4 DEF Close, Patch, With, CtxType
<1>13. Set(With(c, m.depth, l, h, Front(c.open)))
  BY <1>8, <1>10, <1>12
<1>. HIDE DEF h
<1>14. "range" \in Loopy
  BY DEF Loopy
<1>. QED  BY <1>1, <1>2, <1>7, <1>11, <1>13, <1>14, PopEnd

\* The end of either loop of a numeric for that no execution reaches.
LEMMA DeadExit ==
  ASSUME NEW below, NEW mk, Now(below, mk), NEW node \in {"up", "down"}, In(node),
         NEW c, c = Cur
  PROVE  /\ Patch(LoopExit, Innermost.breaks) = With(c, c.scope_depth, c.locals, {}, c.open)
         /\ Here(mk).dead = TRUE
<1>. DEFINE n == Here(mk)
            m == Before(mk)
            r == Innermost
<1>1. n.dead = TRUE
  <2>1. n.dead = (m.dead \/ node \in {"up", "down"})
    BY InFacts
  <2>. QED  BY <2>1
<1>2. \A x : Level(c, n, x) = {}
  BY <1>1 DEF Level
<1>3. LoopOK(c, node, m, n, r)
  <2>1. node \in Loopy
    BY DEF Loopy
  <2>. QED  BY <2>1, LoopLast
<1>4. r.breaks = {}
  BY <1>2, <1>3 DEF LoopOK
<1>5. n = Here(mk)
  OBVIOUS
<1>. HIDE DEF n, m, r
<1>6. PICK g \in Heights : LoopExit = With(c, c.scope_depth, c.locals, g, c.open)
                           /\ g \subseteq Level(c, n, Len(c.locals))
  BY <1>5, LoopExitFacts
<1>7. g = {}
  BY <1>2, <1>6
<1>8. Patch(With(c, c.scope_depth, c.locals, {}, c.open), {}) = With(c, c.scope_depth, c.locals, {}, c.open)
  BY HereFacts DEF Patch, With, CtxType
<1>. QED  BY <1>1, <1>4, <1>6, <1>7, <1>8 DEF r, n

\* The loop up has ended, and the one down begins with the same hidden locals.
LEMMA ForDownInv ==
  ASSUME Inv, ForDown
  PROVE  Inv'
<1>1. In("up") /\ Compiling /\ import_stack' = import_stack
  BY DEF ForDown, In, SameImports
<1>2. PICK below, mk : Now(below, mk)
  BY <1>1, InvNow
<1>. DEFINE c == Cur
            m == Before(mk)
            n == Here(mk)
            s == Statement
            l == c.locals
            r == Innermost
            s2 == [node |-> "down", jump |-> {}, end |-> {}]
            up == With(c, c.scope_depth, l, {}, c.open)
            hidden == [c EXCEPT !.locals = SubSeq(@, 1, r.outer_local_count)]
            r2 == Loop(up, {}, hidden)
            L == Append(Front(loop_stack), r2)
            d == With(c, n.depth, l, {}, Append(Front(c.open), s2))
<1>3. /\ c.open # <<>> /\ s.node = "up" /\ m.loops = Len(loop_stack) - 1
      /\ n.dead \in BOOLEAN /\ m.dead \in BOOLEAN
  BY <1>1, <1>2, InFacts DEF Loopy
<1>4. /\ c \in CtxType /\ c.scope_depth \in Nat /\ l \in Seq(LocalType) /\ Len(l) \in Nat
      /\ n \in Mark /\ n.depth = c.scope_depth /\ n.locals = Len(l) /\ n.loops = Len(loop_stack)
      /\ c.open \in Seq(OpenType) /\ (c.kind = "module" => l = <<>>)
      /\ Split(l, c.scope_depth, Len(l)) /\ Len(loop_stack) \in Nat
  BY <1>2, HereFacts
<1>5. /\ StatementOK(c, Len(ctxs), s, m, n, loop_stack)
      /\ m.locals \in 0..Len(l) /\ m.depth \in Nat /\ m.loops \in Nat
      /\ Len(Left(mk)) = m.locals /\ Front(c.open) \in Seq(OpenType)
  BY <1>2, <1>3, LastFacts
<1>6. /\ LoopOK(c, "up", m, n, r)
      /\ Front(loop_stack) \in Seq(LoopType) /\ Len(Front(loop_stack)) = m.loops
      /\ \A j \in 1..m.loops : Front(loop_stack)[j] = loop_stack[j]
  BY <1>1, <1>2, LoopLast DEF Loopy
<1>7. c = Cur /\ m = Before(mk) /\ n = Here(mk) /\ s = Statement /\ r = Innermost
  OBVIOUS
<1>8. /\ r.outer_local_count = m.locals /\ n.locals = m.locals + 3
      /\ s.jump = {} /\ n.depth = m.depth + 1
      /\ n.loops = m.loops + 1
  <2>1. n.depth = m.depth + Scopes("up") /\ Scopes("up") = 1
    BY <1>3, <1>5 DEF StatementOK, Scopes
  <2>. QED  BY SMTT(30), <1>3, <1>4, <1>5, <1>6, <2>1 DEF StatementOK, LoopOK
<1>9. n.dead = TRUE /\ Patch(LoopExit, r.breaks) = up
  BY <1>1, <1>2, DeadExit
<1>10. up.heights = {} /\ Turn(up) = up /\ {} \in Heights /\ up.scope_depth = c.scope_depth
       /\ up.locals = l
  <2>1. {} \in Heights
    BY DEF Heights
  <2>2. up.heights = {} /\ Turn(up) = up
    BY <1>4, <2>1, TurnSame
  <2>3. up.scope_depth = c.scope_depth /\ up.locals = l
    BY <1>4 DEF With, CtxType
  <2>. QED  BY <2>1, <2>2, <2>3
<1>11. Only(up, Popped({})) = up
  <2>1. Popped({}) = {}
    BY DEF Popped, Shift
  <2>2. Only(up, {}) = up
    BY <1>4 DEF Only, With, CtxType
  <2>. QED  BY <2>1, <2>2
<1>12. Reopen(up, "down", {}, {}) = d
  BY <1>4 DEF Reopen, With, CtxType
<1>13. Set(d) /\ loop_stack' = L
  BY <1>8, <1>9, <1>10, <1>11, <1>12 DEF ForDown
<1>14. Len(hidden.locals) = m.locals
  <2>1. hidden.locals = Left(mk)
    BY <1>4, <1>8 DEF Left, CtxType
  <2>. QED  BY <1>5, <2>1
<1>15. s2 \in OpenType /\ s2.node = "down" /\ s2.jump = {} /\ s2.end = {}
  BY DEF OpenType, Node, Heights
<1>16. d = With(c, n.depth, l, {}, Append(Front(c.open), s2)) /\ L = Append(Front(loop_stack), r2)
       /\ r2 = Loop(up, {}, hidden)
  OBVIOUS
<1>17. d.locals = l
  BY <1>4 DEF With, CtxType
<1>. HIDE DEF c, m, n, s, l, r, s2, up, hidden, r2, L, d
<1>18. /\ r2 \in LoopType /\ r2.context = Len(ctxs) /\ r2.start = {}
       /\ r2.scope_depth = c.scope_depth /\ r2.local_count = Len(l)
       /\ r2.outer_local_count = m.locals /\ r2.breaks = {} /\ r2.continues = {}
  <2>1. /\ Len(ctxs) \in Nat /\ {} \in Heights /\ up.scope_depth \in Nat /\ Len(up.locals) \in Nat
        /\ Len(hidden.locals) \in Nat
    BY <1>2, <1>4, <1>5, <1>10, <1>14, NowFacts
  <2>. QED  BY <1>10, <1>14, <1>16, <2>1, LoopFacts
<1>19. /\ L \in Seq(LoopType) /\ Len(L) = n.loops /\ L[n.loops] = r2
       /\ \A j \in 1..m.loops : L[j] = loop_stack[j]
  BY <1>6, <1>8, <1>16, <1>18, AppendFacts
<1>20. Grows(Left(mk), l, m.depth, n.depth)
  <2>1. Len(l) \in m.locals..Len(l) /\ c.scope_depth <= c.scope_depth /\ l = c.locals
    BY <1>4, <1>5 DEF l
  <2>2. Grows(Left(mk), SubSeq(c.locals, 1, Len(l)), m.depth, n.depth)
    BY <1>2, <1>3, <1>4, <1>7, <2>1, GrowsLeft
  <2>3. SubSeq(l, 1, Len(l)) = l
    <3>. DEFINE a == SubSeq(l, 1, Len(l))
    <3>1. Len(l) \in 0..Len(l)
      BY <1>4
    <3>2. a \in Seq(LocalType) /\ Len(a) = Len(l) /\ \A i \in 1..Len(l) : a[i] = l[i]
      BY <1>4, <3>1, FirstPart
    <3>. HIDE DEF a
    <3>3. a = l
      BY <1>4, <3>2, SeqEqual
    <3>. QED  BY <3>3 DEF a
  <2>. QED  BY <2>1, <2>2, <2>3
<1>21. StatementOK(d, Len(ctxs), s2, m, n, L)
  <2>1. LoopOK(d, s2.node, m, n, L[n.loops])
    BY <1>4, <1>8, <1>15, <1>18, <1>19 DEF LoopOK
  <2>2. n.depth = m.depth + Scopes(s2.node) /\ s2.node \in Loopy
    BY <1>8, <1>15 DEF Scopes, Loopy
  <2>3. n.dead = (m.dead \/ s2.node \in {"up", "down"})
    BY <1>3, <1>9, <1>15
  <2>. QED  BY <1>8, <1>15, <2>1, <2>2, <2>3 DEF StatementOK
<1>22. /\ c.open # <<>> /\ c = Cur /\ m = Before(mk) /\ s2 \in OpenType /\ n \in Mark /\ {} \in Heights
       /\ L \in Seq(LoopType) /\ d = With(c, n.depth, l, {}, Append(Front(c.open), s2))
       /\ n.locals = Len(l) /\ (c.kind = "module" => l = <<>>) /\ {} \subseteq Level(c, n, Len(l))
       /\ Len(L) = n.loops /\ (\A j \in 1..m.loops : L[j] = loop_stack[j])
       /\ (s2.node \in Loopy => L[m.loops + 1].context = Len(ctxs))
       /\ Set(d) /\ loop_stack' = L
  BY <1>3, <1>4, <1>7, <1>8, <1>10, <1>13, <1>15, <1>16, <1>18, <1>19
<1>. QED  BY <1>1, <1>2, <1>20, <1>21, <1>22, ReopenInv

LEMMA EndForStepInv ==
  ASSUME Inv, EndForStep
  PROVE  Inv'
<1>1. In("down") /\ Compiling /\ PopLoop
  BY DEF EndForStep, In
<1>2. PICK below, mk : Now(below, mk)
  BY <1>1, InvNow
<1>. DEFINE c == Cur
            m == Before(mk)
            n == Here(mk)
            s == Statement
            l == Left(mk)
            w == With(c, c.scope_depth, c.locals, {}, c.open)
<1>3. c.open # <<>> /\ s.node = "down" /\ Scopes(s.node) = 1
  <2>1. c.open # <<>> /\ s.node = "down"
    BY <1>1, <1>2, InFacts
  <2>. QED  BY <2>1 DEF Scopes
<1>4. c \in CtxType /\ {} \in Heights /\ {} \subseteq Level(c, n, Len(c.locals))
  BY <1>2, HereFacts DEF Heights
<1>5. s.end = {}
  <2>1. StatementOK(c, Len(ctxs), s, m, n, loop_stack)
    BY <1>2, <1>3, LastFacts
  <2>. QED  BY <1>3, <2>1 DEF StatementOK
<1>6. c = Cur /\ m = Before(mk) /\ n = Here(mk) /\ l = Left(mk) /\ s = Statement
      /\ w = With(c, c.scope_depth, c.locals, {}, c.open)
  OBVIOUS
<1>7. Patch(LoopExit, Innermost.breaks) = w
  BY <1>1, <1>2, DeadExit
<1>8. Set(Close(Patch(endScope(w), {})))
  BY <1>5, <1>7 DEF EndForStep
<1>. HIDE DEF c, m, n, s, l, w
<1>9. PICK e \in Heights :
        endScope(w) = With(c, m.depth, l, e, c.open) /\ e \subseteq Level(c, m, m.locals)
  <2>1. Scopes(Statement.node) = 1
    BY <1>3, <1>6
  <2>. QED  BY <1>2, <1>3, <1>4, <1>6, <2>1, EndOne
<1>10. Close(Patch(With(c, m.depth, l, e, c.open), {})) = With(c, m.depth, l, e, Front(c.open))
  BY <1>4 DEF Close, Patch, With, CtxType
<1>11. Set(With(c, m.depth, l, e, Front(c.open)))
  BY <1>8, <1>9, <1>10
<1>12. "down" \in Loopy
  BY DEF Loopy
<1>. QED  BY <1>1, <1>2, <1>6, <1>9, <1>11, <1>12, PopEnd

\* Of the locals of a statement with two scopes, m the mark before it, the inner
\* scope leaves the first w.
Cuts(c, m, w) ==
  /\ c \in CtxType /\ m \in Mark
  /\ Split(c.locals, m.depth, m.locals) /\ Split(c.locals, m.depth + 1, w)

\* The context after the inner scope, and after the outer.
Mid(c, m, w, h) == With(c, m.depth + 1, SubSeq(c.locals, 1, w), h, c.open)
Out(c, m, h) == With(c, m.depth, SubSeq(c.locals, 1, m.locals), h, c.open)

Full(c, n, h) == h \subseteq Level(c, n, Len(c.locals))

LEMMA CutsFacts ==
  ASSUME NEW c, NEW m, NEW w, Cuts(c, m, w)
  PROVE  /\ c.locals \in Seq(LocalType) /\ c.open \in Seq(OpenType) /\ c.scope_depth \in Nat
         /\ Len(c.locals) \in Nat /\ m.depth \in Nat /\ m.locals \in 0..w
         /\ w \in 0..Len(c.locals) /\ w \in m.locals..Len(c.locals) /\ m.locals \in 0..Len(c.locals)
         /\ SubSeq(c.locals, 1, w) \in Seq(LocalType) /\ Len(SubSeq(c.locals, 1, w)) = w
         /\ SubSeq(SubSeq(c.locals, 1, w), 1, m.locals) = SubSeq(c.locals, 1, m.locals)
         /\ Split(SubSeq(c.locals, 1, w), m.depth, m.locals)
<1>. DEFINE ls == c.locals
            d == m.depth
            k == m.locals
<1>1. /\ ls \in Seq(LocalType) /\ c.open \in Seq(OpenType) /\ c.scope_depth \in Nat
      /\ Len(ls) \in Nat /\ d \in Nat
  BY LenProperties DEF Cuts, CtxType, Mark
<1>2. Split(ls, d, k) /\ Split(ls, d + 1, w)
  BY DEF Cuts
<1>. HIDE DEF ls, d, k
<1>3. k \in 0..Len(ls) /\ w \in 0..Len(ls)
  BY <1>2 DEF Split
<1>4. ASSUME w < k PROVE FALSE
  <2>1. w + 1 \in 1..Len(ls) /\ w + 1 > w /\ ~ (w + 1 > k)
    BY <1>1, <1>3, <1>4
  <2>2. ls[w + 1].depth > d + 1 /\ ~ (ls[w + 1].depth > d)
    BY <1>2, <2>1 DEF Split
  <2>3. ls[w + 1].depth \in Nat
    BY <1>1, <2>1, DepthType
  <2>. QED  BY <1>1, <2>2, <2>3
<1>5. k \in 0..w /\ w \in k..Len(ls)
  BY <1>1, <1>3, <1>4
<1>6. SubSeq(ls, 1, w) \in Seq(LocalType) /\ Len(SubSeq(ls, 1, w)) = w
  BY <1>1, <1>3, FirstPart
<1>7. SubSeq(SubSeq(ls, 1, w), 1, k) = SubSeq(ls, 1, k)
  BY <1>1, <1>3, <1>5, CutCut
<1>8. Split(SubSeq(ls, 1, w), d, k)
  BY <1>1, <1>2, <1>5, SplitCut
<1>. QED  BY <1>1, <1>3, <1>5, <1>6, <1>7, <1>8 DEF ls, d, k

LEMMA EndInner ==
  ASSUME NEW c, NEW m, NEW w, Cuts(c, m, w), c.scope_depth = m.depth + 2, NEW h \in Heights
  PROVE  \E h2 \in Heights : /\ endScope(Only(c, h)) = Mid(c, m, w, h2)
                             /\ \A n : Full(c, n, h) => h2 \subseteq Level(c, n, w)
<1>. DEFINE k == w - Len(c.locals)
            x == Only(c, h)
            h2 == Shift(h, k)
<1>1. /\ c \in CtxType /\ c.scope_depth = m.depth + 2 /\ Split(c.locals, m.depth + 1, w)
  BY DEF Cuts
<1>2. /\ c.locals \in Seq(LocalType) /\ c.open \in Seq(OpenType) /\ c.scope_depth \in Nat
      /\ Len(c.locals) \in Nat /\ m.depth \in Nat /\ w \in 0..Len(c.locals)
  BY CutsFacts
<1>3. k \in Int /\ Len(c.locals) \in Int /\ Len(c.locals) + k = w
  BY <1>2
<1>4. /\ x \in CtxType /\ x.scope_depth = m.depth + 2 /\ x.locals = c.locals /\ x.heights = h
      /\ x.open = c.open
  BY <1>1 DEF Only, CtxType
<1>5. \A a, b, e, f : With(x, a, b, e, f) = With(c, a, b, e, f)
  BY ZenonT(60), <1>1 DEF Only, With, CtxType
<1>. HIDE DEF x
<1>6. endScope(x) = With(x, m.depth + 1, SubSeq(c.locals, 1, w), h2, c.open)
  <2>1. x.scope_depth - 1 = m.depth + 1
    BY <1>2, <1>4
  <2>2. Split(x.locals, x.scope_depth - 1, w)
    BY <1>1, <1>4, <2>1
  <2>3. endScope(x) = With(x, x.scope_depth - 1, SubSeq(x.locals, 1, w),
                           Shift(x.heights, w - Len(x.locals)), x.open)
    BY <1>4, <2>2, EndScopeFacts
  <2>. QED  BY <1>4, <2>1, <2>3
<1>7. endScope(x) = Mid(c, m, w, h2)
  BY <1>5, <1>6 DEF Mid
<1>8. h2 \in Heights
  BY <1>3, ShiftFacts
<1>9. ASSUME NEW n, Full(c, n, h) PROVE h2 \subseteq Level(c, n, w)
  <2>1. h \subseteq Level(c, n, Len(c.locals))
    BY <1>9 DEF Full
  <2>2. h2 \subseteq Level(c, n, Len(c.locals) + k)
    BY <1>3, <2>1, LevelShift
  <2>. QED  BY <1>3, <2>2
<1>. HIDE DEF h2
<1>. QED  BY <1>7, <1>8, <1>9 DEF x

LEMMA EndOuter ==
  ASSUME NEW c, NEW m, NEW w, Cuts(c, m, w), NEW h \in Heights
  PROVE  \E h2 \in Heights : /\ endScope(Mid(c, m, w, h)) = Out(c, m, h2)
                             /\ \A n : h \subseteq Level(c, n, w) => h2 \subseteq Level(c, n, m.locals)
<1>. DEFINE k == m.locals - w
            x == Mid(c, m, w, h)
            l == SubSeq(c.locals, 1, w)
            h2 == Shift(h, k)
<1>1. c \in CtxType
  BY DEF Cuts
<1>2. /\ c.open \in Seq(OpenType) /\ m.depth \in Nat /\ Len(c.locals) \in Nat
      /\ w \in 0..Len(c.locals) /\ m.locals \in 0..w
      /\ l \in Seq(LocalType) /\ Len(l) = w
      /\ SubSeq(l, 1, m.locals) = SubSeq(c.locals, 1, m.locals) /\ Split(l, m.depth, m.locals)
  BY CutsFacts
<1>3. k \in Int /\ w \in Int /\ w + k = m.locals
  BY <1>2
<1>4. /\ x \in CtxType /\ x.scope_depth = m.depth + 1 /\ x.locals = l /\ x.heights = h
      /\ x.open = c.open
  <2>1. m.depth + 1 \in Nat /\ x = With(c, m.depth + 1, l, h, c.open)
    BY <1>2 DEF Mid
  <2>. HIDE DEF l
  <2>. QED  BY <1>1, <1>2, <2>1, WithType
<1>5. \A a, b, e, f : With(x, a, b, e, f) = With(c, a, b, e, f)
  <2>. DEFINE d == m.depth + 1
  <2>1. x = With(c, d, l, h, c.open)
    BY DEF Mid
  <2>. HIDE DEF x, l, d
  <2>. QED  BY ZenonT(60), <1>1, <2>1 DEF With, CtxType
<1>. HIDE DEF x, l
<1>6. endScope(x) = With(x, m.depth, SubSeq(c.locals, 1, m.locals), h2, c.open)
  <2>1. x.scope_depth - 1 = m.depth
    BY <1>2, <1>4
  <2>2. Split(x.locals, x.scope_depth - 1, m.locals)
    BY <1>2, <1>4, <2>1
  <2>3. endScope(x) = With(x, x.scope_depth - 1, SubSeq(x.locals, 1, m.locals),
                           Shift(x.heights, m.locals - Len(x.locals)), x.open)
    BY <1>4, <2>2, EndScopeFacts
  <2>4. SubSeq(x.locals, 1, m.locals) = SubSeq(c.locals, 1, m.locals)
    BY <1>2, <1>4
  <2>5. Len(x.locals) = w
    BY <1>2, <1>4
  <2>. QED  BY <1>4, <2>1, <2>3, <2>4, <2>5
<1>7. endScope(x) = Out(c, m, h2)
  BY <1>5, <1>6 DEF Out
<1>8. h2 \in Heights
  BY <1>3, ShiftFacts
<1>9. ASSUME NEW n, h \subseteq Level(c, n, w) PROVE h2 \subseteq Level(c, n, m.locals)
  <2>1. h2 \subseteq Level(c, n, w + k)
    BY <1>3, <1>9, LevelShift
  <2>. QED  BY <1>3, <2>1
<1>. HIDE DEF h2
<1>. QED  BY <1>7, <1>8, <1>9 DEF x

LEMMA EndForInv ==
  ASSUME Inv, EndFor
  PROVE  Inv'
<1>1. In("for") /\ Compiling /\ PopLoop
  BY DEF EndFor, In
<1>2. PICK below, mk : Now(below, mk)
  BY <1>1, InvNow
<1>. DEFINE c == Cur
            m == Before(mk)
            n == Here(mk)
            s == Statement
            r == Innermost
            w == m.locals + 2
            l == Left(mk)
<1>3. c.open # <<>> /\ s.node = "for" /\ Scopes(s.node) = 2
  <2>1. c.open # <<>> /\ s.node = "for"
    BY <1>1, <1>2, InFacts
  <2>. QED  BY <2>1 DEF Scopes
<1>4. /\ c \in CtxType /\ c.scope_depth \in Nat /\ c.heights \in Heights
      /\ Len(c.locals) \in Nat /\ c.heights \subseteq Level(c, n, Len(c.locals))
      /\ n.locals = Len(c.locals) /\ n.depth = c.scope_depth
  BY <1>2, HereFacts
<1>5. /\ m \in Mark /\ Split(c.locals, m.depth, m.locals)
      /\ \A k : Level(c, n, k) \subseteq Level(c, m, k)
      /\ StatementOK(c, Len(ctxs), s, m, n, loop_stack)
  BY <1>2, <1>3, LastFacts
<1>6. /\ LoopOK(c, "for", m, n, r)
      /\ r.start \in Heights /\ r.breaks \in Heights /\ r.continues \in Heights
  BY <1>1, <1>2, LoopLast DEF Loopy
<1>7. c = Cur /\ m = Before(mk) /\ l = Left(mk) /\ l = SubSeq(c.locals, 1, m.locals)
  BY DEF Left
<1>8. /\ Cuts(c, m, w) /\ c.scope_depth = m.depth + 2
      /\ r.start \subseteq Level(c, n, w) /\ r.breaks \subseteq Level(c, n, m.locals)
      /\ r.continues \subseteq Level(c, n, Len(c.locals))
  <2>1. c.scope_depth = m.depth + 2
    BY <1>3, <1>4, <1>5 DEF StatementOK
  <2>2. /\ Split(c.locals, m.depth + 1, w)
        /\ r.start \subseteq Level(c, n, w) /\ r.breaks \subseteq Level(c, n, m.locals)
        /\ r.continues \subseteq Level(c, n, m.locals + 3)
        /\ (r.continues # {} => Len(c.locals) = m.locals + 3)
    BY <1>4, <1>6 DEF LoopOK
  <2>. QED  BY <1>4, <1>5, <2>1, <2>2 DEF Cuts
<1>9. LET body == Patch(c, r.continues)
          next == endScope(Only(body, Popped(Binary(body.heights))))
          exit == endScope(Only(next, Popped(ForCondition(r.start \union next.heights))))
      IN  Set(Close(Patch(exit, r.breaks)))
  BY DEF EndFor, Heads
<1>. HIDE DEF c, m, n, s, r, w, l
<1>. DEFINE h0 == c.heights \union r.continues
            body == Patch(c, r.continues)
<1>10. h0 \in Heights /\ Full(c, n, h0)
  <2>1. h0 \in Heights
    BY <1>4, <1>6 DEF Heights
  <2>. QED  BY <1>4, <1>8, <2>1 DEF Full
<1>11. Only(body, Popped(Binary(body.heights))) = Only(c, h0)
  <2>1. body.heights = h0 /\ Only(body, h0) = Only(c, h0)
    BY <1>4 DEF Patch, Only, CtxType
  <2>. HIDE DEF h0
  <2>2. Popped(Binary(h0)) = h0
    BY <1>10, FormFacts, ShiftBack
  <2>. QED  BY <2>1, <2>2
<1>. HIDE DEF h0, body
<1>12. PICK h1 \in Heights : /\ endScope(Only(c, h0)) = Mid(c, m, w, h1)
                             /\ h1 \subseteq Level(c, n, w)
  BY <1>8, <1>10, EndInner
<1>. DEFINE h2 == r.start \union h1
            y == Mid(c, m, w, h1)
<1>13. h2 \in Heights /\ h2 \subseteq Level(c, n, w)
  <2>1. h2 \in Heights
    BY <1>6, <1>12 DEF Heights
  <2>. QED  BY <1>8, <1>12, <2>1
<1>14. Only(y, Popped(ForCondition(r.start \union y.heights))) = Mid(c, m, w, h2)
  <2>1. y.heights = h1 /\ Only(y, h2) = Mid(c, m, w, h2)
    BY <1>4 DEF Mid, Only, With, CtxType
  <2>. HIDE DEF h2
  <2>2. Popped(ForCondition(h2)) = h2
    BY <1>13, FormFacts, ShiftBack
  <2>. QED  BY <2>1, <2>2 DEF h2
<1>. HIDE DEF h2
<1>15. PICK h3 \in Heights : /\ endScope(Mid(c, m, w, h2)) = Out(c, m, h3)
                             /\ h3 \subseteq Level(c, n, m.locals)
  BY <1>8, <1>13, EndOuter
<1>. DEFINE h == h3 \union r.breaks
<1>16. h \in Heights /\ h \subseteq Level(c, m, m.locals)
  <2>1. h \in Heights
    BY <1>6, <1>15 DEF Heights
  <2>. QED  BY <1>5, <1>8, <1>15, <2>1
<1>17. Set(Close(Patch(Out(c, m, h3), r.breaks)))
  BY <1>9, <1>11, <1>12, <1>14, <1>15 DEF body, y
<1>18. Close(Patch(Out(c, m, h3), r.breaks)) = With(c, m.depth, l, h, Front(c.open))
  BY <1>4, <1>7 DEF Close, Patch, Out, With, CtxType
<1>19. Set(With(c, m.depth, l, h, Front(c.open))) /\ l = Left(mk)
  BY <1>7, <1>17, <1>18
<1>. HIDE DEF h
<1>20. "for" \in Loopy
  BY DEF Loopy
<1>. QED  BY <1>1, <1>2, <1>7, <1>16, <1>19, <1>20, PopEnd

\* What the end of a body of when, or the place before its first case, can rely
\* on.
LEMMA CaseFacts ==
  ASSUME NEW below, NEW mk, Now(below, mk), NEW node \in {"when", "is", "elseWhen"}, In(node),
         NEW c, c = Cur, NEW m, m = Before(mk), NEW s, s = Statement
  PROVE  \E w \in m.locals + 1..Len(c.locals), h \in Heights :
           /\ Cuts(c, m, w) /\ BodyEnd = Mid(c, m, w, h)
           /\ h \subseteq Level(c, m, w) /\ s.end \subseteq Level(c, m, w)
           /\ node = "is" => s.jump \subseteq Level(c, m, w + 1)
<1>. DEFINE n == Here(mk)
<1>1. /\ c.open # <<>> /\ s.node = node /\ n.dead = (m.dead \/ node \in {"up", "down"})
      /\ n.dead \in BOOLEAN /\ m.dead \in BOOLEAN
  BY InFacts
<1>2. /\ c \in CtxType /\ c.scope_depth \in Nat /\ c.locals \in Seq(LocalType) /\ c.heights \in Heights
      /\ c.open \in Seq(OpenType)
      /\ Len(c.locals) \in Nat /\ c.heights \subseteq Level(c, n, Len(c.locals))
      /\ n.locals = Len(c.locals) /\ n.depth = c.scope_depth
      /\ Split(c.locals, c.scope_depth, Len(c.locals))
  BY HereFacts
<1>3. /\ m \in Mark /\ m.locals \in Nat /\ m.depth \in Nat /\ Split(c.locals, m.depth, m.locals)
      /\ StatementOK(c, Len(ctxs), s, m, n, loop_stack)
      /\ \A x : Level(c, n, x) \subseteq Level(c, m, x)
  <2>1. n = Here(mk) /\ c.open # <<>>
    BY <1>1
  <2>. HIDE DEF n
  <2>2. /\ m \in Mark /\ m.locals \in 0..Len(c.locals) /\ m.depth \in Nat
        /\ Split(c.locals, m.depth, m.locals)
        /\ StatementOK(c, Len(ctxs), s, m, n, loop_stack)
        /\ \A x : Level(c, n, x) \subseteq Level(c, m, x)
    BY <2>1, LastFacts
  <2>3. m.locals \in Nat
    BY <2>2
  <2>. QED  BY <2>2, <2>3
<1>. HIDE DEF n
<1>4. CASE node = "when"
  <2>. DEFINE w == Len(c.locals)
              h == c.heights
  <2>1. n.depth = m.depth + 1 /\ w > m.locals /\ s.end = {}
    <3>1. Scopes(s.node) = 1
      BY <1>1, <1>4 DEF Scopes
    <3>. QED  BY <1>1, <1>2, <1>3, <1>4, <3>1 DEF StatementOK
  <2>2. w \in m.locals + 1..Len(c.locals) /\ h \in Heights /\ w \in 0..Len(c.locals)
    <3>1. m.locals \in Nat /\ w \in Nat /\ w > m.locals
      BY <1>2, <1>3, <2>1
    <3>2. h \in Heights /\ w = Len(c.locals)
      BY <1>2
    <3>. HIDE DEF w, h
    <3>. QED  BY <3>1, <3>2
  <2>3. Cuts(c, m, w)
    BY <1>2, <1>3, <2>1 DEF Cuts
  <2>4. BodyEnd = c
    BY <1>1, <1>4 DEF BodyEnd
  <2>5. c = Mid(c, m, w, h)
    <3>1. SubSeq(c.locals, 1, w) = c.locals
      <4>. DEFINE a == SubSeq(c.locals, 1, w)
                  ls == c.locals
      <4>1. w \in 0..Len(c.locals)
        BY <2>2
      <4>2. a \in Seq(LocalType) /\ Len(a) = Len(ls) /\ \A i \in 1..Len(ls) : a[i] = ls[i]
        BY <1>2, <4>1, FirstPart
      <4>3. ls \in Seq(LocalType)
        BY <1>2
      <4>. HIDE DEF a, ls
      <4>4. a = ls
        BY <4>2, <4>3, SeqEqual
      <4>. QED  BY <4>4 DEF a, ls
    <3>2. m.depth + 1 = c.scope_depth
      BY <1>2, <2>1
    <3>. HIDE DEF w
    <3>3. Mid(c, m, w, h) = With(c, c.scope_depth, c.locals, c.heights, c.open)
      BY <3>1, <3>2 DEF Mid
    <3>. QED  BY <1>2, <3>3, WithFacts
  <2>6. h \subseteq Level(c, m, w)
    BY <1>2, <1>3
  <2>. HIDE DEF w, h
  <2>7. BodyEnd = Mid(c, m, w, h)
    BY <2>4, <2>5
  <2>8. s.end \subseteq Level(c, m, w) /\ (node = "is" => s.jump \subseteq Level(c, m, w + 1))
    BY <1>4, <2>1
  <2>. QED  BY <2>2, <2>3, <2>6, <2>7, <2>8
<1>5. CASE node \in {"is", "elseWhen"}
  <2>1. n.depth = m.depth + 2
    <3>1. Scopes(s.node) = 2
      BY <1>1, <1>5 DEF Scopes
    <3>. QED  BY <1>3, <3>1 DEF StatementOK
  <2>2. PICK w \in m.locals + 1..n.locals :
          /\ Split(c.locals, m.depth + 1, w)
          /\ s.node = "is" => s.jump \subseteq Level(c, n, w + 1)
          /\ s.end \subseteq Level(c, n, w)
    BY <1>1, <1>3, <1>5 DEF StatementOK
  <2>3. Cuts(c, m, w) /\ c.scope_depth = m.depth + 2 /\ w \in m.locals + 1..Len(c.locals)
    BY <1>2, <1>3, <2>1, <2>2 DEF Cuts
  <2>4. BodyEnd = endScope(c)
    BY <1>1, <1>5 DEF BodyEnd, In
  <2>5. Only(c, c.heights) = c
    BY <1>2 DEF Only, CtxType
  <2>6. Full(c, n, c.heights)
    BY <1>2 DEF Full
  <2>7. PICK h \in Heights : endScope(Only(c, c.heights)) = Mid(c, m, w, h) /\ h \subseteq Level(c, n, w)
    BY <1>2, <2>3, <2>6, EndInner
  <2>8. BodyEnd = Mid(c, m, w, h)
    BY <2>4, <2>5, <2>7
  <2>9. h \subseteq Level(c, m, w) /\ s.end \subseteq Level(c, m, w)
    BY <1>3, <2>2, <2>7
  <2>10. node = "is" => s.jump \subseteq Level(c, m, w + 1)
    BY <1>1, <1>3, <2>2
  <2>. QED  BY <2>3, <2>8, <2>9, <2>10
<1>. QED  BY <1>4, <1>5

\* Another case begins, after a body or the subject.
LEMMA CaseInv ==
  ASSUME NEW below, NEW mk, Now(below, mk), NEW c, c = Cur, c.open # <<>>, NEW m, m = Before(mk),
         m.loops = Len(loop_stack), m.dead \in BOOLEAN,
         NEW w \in m.locals + 1..Len(c.locals), Cuts(c, m, w),
         NEW node \in {"is", "elseWhen"}, NEW jump \in Heights, NEW end \in Heights,
         NEW h \in Heights, h \subseteq Level(c, m, w), end \subseteq Level(c, m, w),
         node = "is" => jump \subseteq Level(c, m, w + 1),
         Set(Reopen(beginScope(Mid(c, m, w, h)), node, jump, end)),
         loop_stack' = loop_stack, import_stack' = import_stack
  PROVE  Inv'
<1>. DEFINE s == [node |-> node, jump |-> jump, end |-> end]
            x == m.depth + 2
            n == [depth |-> x, locals |-> w, loops |-> m.loops, dead |-> m.dead]
            l == SubSeq(c.locals, 1, w)
            d == With(c, x, l, h, Append(Front(c.open), s))
            L == loop_stack
<1>1. /\ c \in CtxType /\ Len(c.locals) \in Nat /\ c.open \in Seq(OpenType)
      /\ c.locals \in Seq(LocalType) /\ (c.kind = "module" => c.locals = <<>>)
      /\ loop_stack \in Seq(LoopType) /\ Len(loop_stack) \in Nat
  BY HereFacts, NowFacts
<1>2. /\ m.depth \in Nat /\ w \in 0..Len(c.locals) /\ w \in m.locals..Len(c.locals)
      /\ m.locals \in 0..w
      /\ l \in Seq(LocalType) /\ Len(l) = w
  BY CutsFacts
<1>3. Split(c.locals, m.depth + 1, w) /\ w # 0 /\ w \in Nat /\ w \in w..Len(c.locals)
  <2>. DEFINE a == m.locals
              b == Len(c.locals)
  <2>1. a \in 0..w /\ w \in a + 1..b /\ w \in 0..b /\ b \in Nat
    BY <1>1, <1>2
  <2>. HIDE DEF a, b
  <2>2. w # 0 /\ w \in Nat /\ w \in w..b
    BY <2>1
  <2>. QED  BY <2>2 DEF Cuts, b
<1>4. c.kind # "module"
  <2>1. SUFFICES ASSUME c.locals = <<>> PROVE FALSE
    BY <1>1
  <2>2. Len(c.locals) = 0
    BY <2>1
  <2>3. w \in 0..0
    BY <1>2, <2>2
  <2>. QED  BY <1>3, <2>3
<1>5. Split(l, m.depth + 1, w)
  <2>1. w \in w..Len(c.locals)
    BY <1>3
  <2>. QED  BY <1>1, <1>3, <2>1, SplitCut
<1>6. Grows(Left(mk), l, m.depth, x)
  <2>1. m.depth + 1 \in Nat /\ x \in Nat /\ m.depth + 1 <= x
    <3>. DEFINE a == m.depth
    <3>1. a \in Nat /\ x = a + 2
      BY <1>2
    <3>. HIDE DEF a, x
    <3>2. a + 1 \in Nat /\ x \in Nat /\ a + 1 <= x
      BY <3>1
    <3>. QED  BY <3>2 DEF a
  <2>. HIDE DEF x, l
  <2>2. Grows(Left(mk), SubSeq(c.locals, 1, w), m.depth, x)
    BY <1>2, <1>3, <2>1, GrowsLeft
  <2>. QED  BY <2>2 DEF l
<1>7. Set(d)
  <2>. HIDE DEF l
  <2>1. beginScope(Mid(c, m, w, h)) = With(c, m.depth + 1 + 1, l, h, c.open)
    <3>. DEFINE d1 == m.depth + 1
    <3>1. Mid(c, m, w, h) = With(c, d1, l, h, c.open)
      BY DEF Mid, l
    <3>2. m.depth + 1 + 1 = d1 + 1
      OBVIOUS
    <3>. HIDE DEF d1
    <3>3. beginScope(With(c, d1, l, h, c.open)) = With(c, d1 + 1, l, h, c.open)
      BY <1>1 DEF beginScope, With, CtxType
    <3>. QED  BY <3>1, <3>2, <3>3
  <2>2. m.depth + 1 + 1 = x
    <3>. DEFINE a == m.depth
    <3>1. a \in Nat
      BY <1>2
    <3>. HIDE DEF a
    <3>2. a + 1 + 1 = a + 2
      BY <3>1
    <3>. QED  BY <3>2 DEF a
  <2>. HIDE DEF x
  <2>3. Reopen(With(c, x, l, h, c.open), node, jump, end) = d
    BY <1>1 DEF Reopen, With, CtxType
  <2>. HIDE DEF d
  <2>. QED  BY <2>1, <2>2, <2>3
<1>8. s \in OpenType /\ s.node = node /\ s.jump = jump /\ s.end = end
  BY DEF OpenType, Node
<1>9. /\ n \in Mark /\ n.depth = x /\ n.locals = w /\ n.loops = m.loops /\ n.dead = m.dead
  <2>1. m.depth \in Nat /\ x = m.depth + 2 /\ w \in Nat /\ m.loops \in Nat
    BY <1>1, <1>2, <1>3
  <2>2. x \in Nat
    BY <2>1
  <2>. HIDE DEF x
  <2>. QED  BY <2>1, <2>2 DEF Mark
<1>10. x = m.depth + 2 /\ d = With(c, n.depth, l, h, Append(Front(c.open), s)) /\ L = loop_stack
  OBVIOUS
<1>11. d.kind = c.kind /\ d.locals = l
  <2>. HIDE DEF l, x
  <2>. QED  BY <1>1 DEF With, CtxType
<1>. HIDE DEF s, x, n, l, d, L
<1>12. \A k : Level(d, n, k) = Level(c, m, k) /\ Level(c, n, k) = Level(c, m, k)
  BY <1>9, <1>11 DEF Level, Base
<1>13. StatementOK(d, Len(ctxs), s, m, n, L)
  <2>1. s.node \notin Loopy /\ Scopes(s.node) = 2
    BY <1>8 DEF Loopy, Scopes
  <2>2. \E v \in m.locals + 1..n.locals :
          /\ Split(d.locals, m.depth + 1, v)
          /\ s.node = "is" => s.jump \subseteq Level(d, n, v + 1)
          /\ s.end \subseteq Level(d, n, v)
    <3>1. w \in m.locals + 1..n.locals
      <4>. DEFINE a == m.locals
                  b == Len(c.locals)
      <4>1. n.locals = w /\ w \in a + 1..b /\ a \in 0..w /\ w \in Nat
        BY <1>2, <1>3, <1>9
      <4>. HIDE DEF a, b
      <4>2. w \in a + 1..w
        BY <4>1
      <4>. QED  BY <4>1, <4>2 DEF a
    <3>2. Split(d.locals, m.depth + 1, w)
      BY <1>5, <1>11
    <3>3. s.node = "is" => s.jump \subseteq Level(d, n, w + 1)
      BY <1>8, <1>12
    <3>4. s.end \subseteq Level(d, n, w)
      BY <1>8, <1>12
    <3>. QED  BY <3>1, <3>2, <3>3, <3>4
  <2>3. n.dead = (m.dead \/ s.node \in {"up", "down"})
    BY <1>8, <1>9
  <2>4. n.depth = m.depth + Scopes(s.node) /\ n.loops = m.loops + 0
    <3>1. n.loops = m.loops /\ m.loops \in Nat /\ n.loops \in Nat
      BY <1>1, <1>9
    <3>2. n.loops = m.loops + 0
      BY <3>1
    <3>. QED  BY <1>9, <1>10, <2>1, <3>2
  <2>5. s.node \notin {"if", "else", "catch", "up", "down", "try", "when"}
    BY <1>8
  <2>. QED  BY <2>1, <2>2, <2>3, <2>4, <2>5 DEF StatementOK
<1>14. /\ Len(L) = n.loops /\ L \in Seq(LoopType) /\ (\A j \in 1..m.loops : L[j] = loop_stack[j])
       /\ loop_stack' = L /\ n.locals = Len(l) /\ h \subseteq Level(c, n, Len(l))
       /\ (c.kind = "module" => l = <<>>) /\ s \in OpenType /\ n \in Mark
       /\ Grows(Left(mk), l, m.depth, n.depth)
  BY <1>1, <1>2, <1>4, <1>6, <1>8, <1>9, <1>10, <1>12
<1>15. s.node \in Loopy => L[m.loops + 1].context = Len(ctxs)
  BY <1>8 DEF Loopy
<1>. QED  BY <1>7, <1>10, <1>13, <1>14, <1>15, ReopenInv

LEMMA MidSteps ==
  ASSUME NEW c \in CtxType, NEW m, NEW w, NEW g
  PROVE  /\ Mid(c, m, w, g).heights = g
         /\ \A k : /\ Patch(Mid(c, m, w, g), k) = Mid(c, m, w, g \union k)
                   /\ Only(Mid(c, m, w, g), k) = Mid(c, m, w, k)
                   /\ Emit(Mid(c, m, w, g), k) = Mid(c, m, w, Shift(g, k))
<1>. DEFINE d == m.depth + 1
            l == SubSeq(c.locals, 1, w)
            o == c.open
<1>1. \A h : Mid(c, m, w, h) = With(c, d, l, h, o)
  BY DEF Mid
<1>. HIDE DEF d, l, o
<1>2. With(c, d, l, g, o).heights = g
  BY WithFacts
<1>3. ASSUME NEW k
      PROVE  /\ Patch(With(c, d, l, g, o), k) = With(c, d, l, g \union k, o)
             /\ Only(With(c, d, l, g, o), k) = With(c, d, l, k, o)
             /\ Emit(With(c, d, l, g, o), k) = With(c, d, l, Shift(g, k), o)
  BY DEF Patch, Only, Emit, With, CtxType
<1>. QED  BY <1>1, <1>2, <1>3

\* What follows the subject or a case: the heights a second case begins with, and
\* those that wait for the end.
LEMMA NextFacts ==
  ASSUME NEW below, NEW mk, Now(below, mk), InCases, NEW c, c = Cur, NEW m, m = Before(mk)
  PROVE  \E w \in m.locals + 1..Len(c.locals), h \in Heights :
           /\ Cuts(c, m, w) /\ NextCase = Mid(c, m, w, h) /\ h \subseteq Level(c, m, w)
           /\ EndJumps \in Heights /\ EndJumps \subseteq Level(c, m, w)
           /\ NextCase.heights = h
<1>. DEFINE s == Statement
<1>1. PICK node \in {"when", "is"} : In(node)
  BY DEF InCases
<1>2. /\ s.node = node /\ s.end \in Heights /\ s.jump \in Heights /\ Popped(s.jump) \in Heights
  BY <1>1, InFacts
<1>3. PICK w \in m.locals + 1..Len(c.locals), h \in Heights :
           /\ Cuts(c, m, w) /\ BodyEnd = Mid(c, m, w, h)
           /\ h \subseteq Level(c, m, w) /\ s.end \subseteq Level(c, m, w)
           /\ node = "is" => s.jump \subseteq Level(c, m, w + 1)
  <2>1. s = Statement /\ node \in {"when", "is", "elseWhen"}
    OBVIOUS
  <2>. HIDE DEF s
  <2>. QED  BY <1>1, <2>1, CaseFacts
<1>4. c \in CtxType
  BY HereFacts
<1>5. \A g : Mid(c, m, w, g).heights = g /\ \A k : Only(Mid(c, m, w, g), k) = Mid(c, m, w, k)
  BY <1>4 DEF Mid, Only, With, CtxType
<1>6. BodyEnd.heights = h
  BY <1>3, <1>5
<1>7. CASE node = "when"
  <2>1. In("when")
    BY <1>1, <1>7
  <2>2. NextCase = BodyEnd /\ EndJumps = {}
    BY <2>1 DEF NextCase, BodyEnd, EndJumps
  <2>3. {} \in Heights
    BY DEF Heights
  <2>. QED  BY <1>3, <1>6, <2>2, <2>3
<1>8. CASE node = "is"
  <2>. DEFINE g == Popped(s.jump)
              e == s.end \union h
  <2>1. ~ In("when")
    BY <1>2, <1>8 DEF In
  <2>2. NextCase = Only(BodyEnd, g) /\ EndJumps = e
    BY <1>6, <2>1 DEF NextCase, EndJumps
  <2>3. NextCase = Mid(c, m, w, g) /\ NextCase.heights = g
    BY <1>3, <1>5, <2>2
  <2>4. e \in Heights /\ e \subseteq Level(c, m, w)
    <3>1. e \in Heights
      BY <1>2 DEF Heights
    <3>. QED  BY <1>3, <3>1
  <2>5. g \subseteq Level(c, m, w)
    <3>1. w \in Int /\ w + 1 \in Int /\ -1 \in Int /\ w + 1 + (-1) = w
      OBVIOUS
    <3>2. s.jump \subseteq Level(c, m, w + 1)
      BY <1>3, <1>8
    <3>3. Shift(s.jump, -1) \subseteq Level(c, m, w + 1 + (-1))
      BY <3>1, <3>2, LevelShift
    <3>. QED  BY <3>1, <3>3 DEF Popped
  <2>6. g \in Heights
    BY <1>2
  <2>. HIDE DEF g, e
  <2>. QED  BY <1>3, <2>2, <2>3, <2>4, <2>5, <2>6
<1>. QED  BY <1>7, <1>8

LEMMA InCasesFacts ==
  ASSUME NEW below, NEW mk, Now(below, mk), InWhen, NEW m, m = Before(mk)
  PROVE  Cur.open # <<>> /\ m.loops = Len(loop_stack) /\ m.dead \in BOOLEAN
<1>1. PICK node \in {"when", "is", "elseWhen"} : In(node)
  BY DEF InWhen, InCases
<1>2. node \notin Loopy
  BY DEF Loopy
<1>. QED  BY <1>1, <1>2, InFacts

LEMMA IsInv ==
  ASSUME Inv, Is
  PROVE  Inv'
<1>1. /\ InCases /\ Compiling /\ InWhen /\ loop_stack' = loop_stack /\ import_stack' = import_stack
      /\ \E match \in Matches(NextCase.heights) :
           Set(Reopen(beginScope(Only(NextCase, Popped(match))), "is", match, EndJumps))
  BY DEF Is, InCases, InWhen, In, SameLoops, SameImports
<1>2. PICK below, mk : Now(below, mk)
  BY <1>1, InvNow
<1>. DEFINE c == Cur
            m == Before(mk)
            e == EndJumps
<1>3. c = Cur /\ m = Before(mk) /\ c.open # <<>> /\ m.loops = Len(loop_stack) /\ m.dead \in BOOLEAN
  BY <1>1, <1>2, InCasesFacts
<1>4. c \in CtxType
  BY <1>2, HereFacts
<1>5. e = EndJumps
  OBVIOUS
<1>. HIDE DEF c, m, e
<1>6. PICK w \in m.locals + 1..Len(c.locals), h \in Heights :
           /\ Cuts(c, m, w) /\ NextCase = Mid(c, m, w, h) /\ h \subseteq Level(c, m, w)
           /\ EndJumps \in Heights /\ EndJumps \subseteq Level(c, m, w)
           /\ NextCase.heights = h
  BY <1>1, <1>2, <1>3, NextFacts
<1>. DEFINE j == Shift(h, 1)
<1>7. j \in Heights /\ Popped(j) = h /\ Matches(h) = {j}
  BY ShiftBack, FormFacts DEF Popped
<1>8. j \subseteq Level(c, m, w + 1)
  <2>1. w \in Int /\ 1 \in Int
    OBVIOUS
  <2>. QED  BY <1>6, <2>1, LevelShift
<1>9. Only(Mid(c, m, w, h), h) = Mid(c, m, w, h)
  BY <1>4 DEF Mid, Only, With, CtxType
<1>. HIDE DEF j
<1>10. Set(Reopen(beginScope(Mid(c, m, w, h)), "is", j, e))
  BY <1>1, <1>5, <1>6, <1>7, <1>9
<1>11. /\ e \in Heights /\ e \subseteq Level(c, m, w) /\ "is" \in {"is", "elseWhen"}
  BY <1>5, <1>6
<1>. QED  BY <1>1, <1>2, <1>3, <1>6, <1>7, <1>8, <1>10, <1>11, CaseInv

LEMMA ElseWhenInv ==
  ASSUME Inv, ElseWhen
  PROVE  Inv'
<1>1. /\ InCases /\ Compiling /\ InWhen /\ loop_stack' = loop_stack /\ import_stack' = import_stack
      /\ Set(Reopen(beginScope(NextCase), "elseWhen", {}, EndJumps))
  BY DEF ElseWhen, InCases, InWhen, In, SameLoops, SameImports
<1>2. PICK below, mk : Now(below, mk)
  BY <1>1, InvNow
<1>. DEFINE c == Cur
            m == Before(mk)
            e == EndJumps
<1>3. c = Cur /\ m = Before(mk) /\ c.open # <<>> /\ m.loops = Len(loop_stack) /\ m.dead \in BOOLEAN
  BY <1>1, <1>2, InCasesFacts
<1>4. e = EndJumps
  OBVIOUS
<1>. HIDE DEF c, m, e
<1>5. PICK w \in m.locals + 1..Len(c.locals), h \in Heights :
           /\ Cuts(c, m, w) /\ NextCase = Mid(c, m, w, h) /\ h \subseteq Level(c, m, w)
           /\ EndJumps \in Heights /\ EndJumps \subseteq Level(c, m, w)
           /\ NextCase.heights = h
  BY <1>1, <1>2, <1>3, NextFacts
<1>6. /\ e \in Heights /\ e \subseteq Level(c, m, w) /\ {} \in Heights
      /\ "elseWhen" \in {"is", "elseWhen"} /\ {} \subseteq Level(c, m, w + 1)
  BY <1>4, <1>5 DEF Heights
<1>7. Set(Reopen(beginScope(Mid(c, m, w, h)), "elseWhen", {}, e))
  BY <1>1, <1>4, <1>5
<1>. QED  BY <1>1, <1>2, <1>3, <1>5, <1>6, <1>7, CaseInv

\* The code after the last case has one value less than that of a case that fails
\* leaves: right only if no body of that case gets there too.
LEMMA EndWhenInv ==
  ASSUME Inv, SafeShapes, EndWhen
  PROVE  Inv'
<1>1. /\ InWhen /\ Compiling /\ loop_stack' = loop_stack /\ import_stack' = import_stack
      /\ In("is") => BodyEnd.heights = {}
  BY DEF EndWhen, InWhen, InCases, In, SameLoops, SameImports, SafeShapes
<1>2. PICK below, mk : Now(below, mk)
  BY <1>1, InvNow
<1>. DEFINE c == Cur
            m == Before(mk)
            s == Statement
            l == Left(mk)
<1>3. c = Cur /\ m = Before(mk) /\ c.open # <<>> /\ m.loops = Len(loop_stack) /\ s = Statement
      /\ l = Left(mk) /\ l = SubSeq(c.locals, 1, m.locals)
  BY <1>1, <1>2, InCasesFacts DEF Left
<1>4. c \in CtxType /\ loop_stack \in Seq(LoopType)
  BY <1>2, HereFacts, NowFacts
<1>5. PICK node \in {"when", "is", "elseWhen"} : In(node)
  BY <1>1 DEF InWhen, InCases
<1>6. s.node = node /\ s.end \in Heights /\ s.jump \in Heights /\ Popped(s.jump) \in Heights
  BY <1>2, <1>5, InFacts
<1>7. LET last == IF In("is") THEN Emit(Patch(BodyEnd, s.jump), -1) ELSE BodyEnd
      IN  Set(Close(endScope(Patch(last, s.end))))
  BY DEF EndWhen
<1>. HIDE DEF c, m, s, l
<1>8. PICK w \in m.locals + 1..Len(c.locals), b \in Heights :
           /\ Cuts(c, m, w) /\ BodyEnd = Mid(c, m, w, b)
           /\ b \subseteq Level(c, m, w) /\ s.end \subseteq Level(c, m, w)
           /\ node = "is" => s.jump \subseteq Level(c, m, w + 1)
  BY ZenonT(40), <1>2, <1>3, <1>5, CaseFacts
<1>9. \A g : /\ Mid(c, m, w, g).heights = g
             /\ \A k : /\ Patch(Mid(c, m, w, g), k) = Mid(c, m, w, g \union k)
                       /\ Emit(Mid(c, m, w, g), k) = Mid(c, m, w, Shift(g, k))
  BY <1>4, MidSteps
<1>10. PICK g \in Heights :
         /\ (IF In("is") THEN Emit(Patch(BodyEnd, s.jump), -1) ELSE BodyEnd) = Mid(c, m, w, g)
         /\ g \subseteq Level(c, m, w)
  <2>1. CASE node = "is"
    <3>. DEFINE k == Popped(s.jump)
    <3>1. In("is") /\ b = {}
      BY <1>1, <1>5, <1>8, <1>9, <2>1
    <3>2. Patch(BodyEnd, s.jump) = Mid(c, m, w, s.jump)
      BY <1>8, <1>9, <3>1
    <3>3. Emit(Patch(BodyEnd, s.jump), -1) = Mid(c, m, w, k)
      BY <1>9, <3>2 DEF Popped
    <3>4. k \subseteq Level(c, m, w)
      <4>1. w \in Int /\ w + 1 \in Int /\ -1 \in Int /\ w + 1 + (-1) = w
        OBVIOUS
      <4>2. s.jump \subseteq Level(c, m, w + 1)
        BY <1>8, <2>1
      <4>3. Shift(s.jump, -1) \subseteq Level(c, m, w + 1 + (-1))
        BY <4>1, <4>2, LevelShift
      <4>. QED  BY <4>1, <4>3 DEF Popped
    <3>. HIDE DEF k
    <3>5. k \in Heights
      BY <1>6 DEF k
    <3>. QED  BY <3>1, <3>3, <3>4, <3>5
  <2>2. CASE node # "is"
    <3>1. ~ In("is")
      BY <1>3, <1>6, <2>2 DEF In
    <3>. QED  BY <1>8, <3>1
  <2>. QED  BY <2>1, <2>2
<1>. DEFINE e == g \union s.end
<1>11. e \in Heights /\ e \subseteq Level(c, m, w)
  <2>1. e \in Heights
    BY <1>6 DEF Heights
  <2>. QED  BY <1>8, <1>10, <2>1
<1>12. Set(Close(endScope(Mid(c, m, w, e))))
  BY <1>7, <1>9, <1>10
<1>. HIDE DEF e
<1>13. PICK h \in Heights : endScope(Mid(c, m, w, e)) = Out(c, m, h) /\ h \subseteq Level(c, m, m.locals)
  BY <1>8, <1>11, EndOuter
<1>14. Close(Out(c, m, h)) = With(c, m.depth, l, h, Front(c.open))
  BY <1>3, <1>4 DEF Close, Out, With, CtxType
<1>15. Set(With(c, m.depth, l, h, Front(c.open)))
  BY <1>12, <1>13, <1>14
<1>16. Len(loop_stack) = m.loops /\ \A j \in 1..m.loops : loop_stack[j] = loop_stack[j]
  BY <1>3
<1>. QED  BY <1>1, <1>2, <1>3, <1>4, <1>13, <1>15, <1>16, EndInv

-----------------------------------------------------------------------------
(* Contexts begin and end. *)

LEMMA EmptyInv ==
  ASSUME ctxs' = <<>>, loop_stack' = <<>>, Len(import_stack') = 0
  PROVE  Inv'
<1>. DEFINE cs == ctxs'
            L == loop_stack'
            b == <<0>>
<1>1. cs \in Seq(CtxType) /\ Len(cs) = 0
  OBVIOUS
<1>2. L \in Seq(LoopType) /\ Len(L) = 0
  OBVIOUS
<1>3. b \in Seq(Nat) /\ Len(b) = 1 /\ b[1] = 0
  OBVIOUS
<1>. HIDE DEF b
<1>4. Modules(cs) = {}
  BY <1>1 DEF Modules
<1>5. Len(import_stack') = Cardinality(Modules(cs))
  BY <1>4, FS_EmptySet
<1>6. \A i, j \in 1..1 : i <= j => b[i] <= b[j]
  <2>1. \A i, j \in 1..1 : i = 1 /\ j = 1
    OBVIOUS
  <2>. QED  BY <1>3, <2>1
<1>7. InvBy(b)'
  BY <1>1, <1>2, <1>3, <1>6 DEF InvBy
<1>. QED  BY <1>1, <1>2, <1>5, <1>7 DEF Inv

\* What there is of the invariant without a context.
LEMMA NoContext ==
  ASSUME Inv, ctxs = <<>>
  PROVE  loop_stack = <<>> /\ Len(import_stack) = 0
<1>1. /\ Len(ctxs) = 0 /\ loop_stack \in Seq(LoopType)
      /\ Len(import_stack) = Cardinality(Modules(ctxs))
  BY DEF Inv
<1>2. Modules(ctxs) = {}
  BY <1>1 DEF Modules
<1>3. PICK below : InvBy(below)
  BY DEF Inv
<1>4. below[0 + 1] = Len(loop_stack) /\ below[1] = 0
  BY <1>1, <1>3 DEF InvBy
<1>5. Len(loop_stack) = 0
  BY <1>4
<1>6. Len(import_stack) = 0
  BY <1>1, <1>2, FS_EmptySet
<1>. QED  BY <1>1, <1>5, <1>6, EmptySeq

\* The current context has no open statement, and so no loop.
LEMMA Closed ==
  ASSUME NEW below, NEW mk, Now(below, mk), Cur.open = <<>>
  PROVE  below[Len(ctxs)] = Len(loop_stack)
<1>. DEFINE lo == below[Len(ctxs)]
            hi == Len(loop_stack)
<1>1. CtxOK(Cur, Len(ctxs), lo, hi, mk, loop_stack)
  BY DEF Now
<1>2. Len(Cur.open) = 0
  OBVIOUS
<1>. HIDE DEF lo, hi
<1>3. mk[1].loops = lo /\ mk[Len(Cur.open) + 1].loops = hi
  BY <1>1, CtxFacts
<1>4. 0 + 1 = 1
  OBVIOUS
<1>5. lo = hi
  BY <1>2, <1>3, <1>4
<1>. QED  BY <1>5 DEF lo, hi

LEMMA KindFacts ==
  ASSUME NEW below, NEW mk, Now(below, mk)
  PROVE  Cur.kind = "script" <=> Len(ctxs) = 1
<1>1. Len(ctxs) \in 1..Len(ctxs) /\ Cur = ctxs[Len(ctxs)]
  BY NowFacts
<1>2. \A i \in 1..Len(ctxs) : ctxs[i].kind = "script" <=> i = 1
  BY DEF Now, InvBy
<1>. QED  BY <1>1, <1>2

LEMMA EndCompileInv ==
  ASSUME Inv, EndCompile
  PROVE  Inv'
<1>1. /\ Compiling /\ Cur.kind = "script" /\ Cur.open = <<>> /\ ctxs' = <<>>
      /\ loop_stack' = loop_stack /\ import_stack' = import_stack
  BY DEF EndCompile, SameLoops, SameImports
<1>2. PICK below, mk : Now(below, mk)
  BY <1>1, InvNow
<1>3. Len(ctxs) = 1
  BY <1>1, <1>2, KindFacts
<1>4. below[1] = 0 /\ below[Len(ctxs)] = Len(loop_stack)
  BY <1>1, <1>2, Closed, NowFacts
<1>5. loop_stack' = <<>>
  <2>1. Len(loop_stack) = 0 /\ loop_stack \in Seq(LoopType)
    BY <1>2, <1>3, <1>4, NowFacts
  <2>. QED  BY <1>1, <2>1, EmptySeq
<1>6. Len(import_stack') = 0
  <2>1. Cur = ctxs[1]
    BY <1>2, <1>3, NowFacts
  <2>2. Modules(ctxs) = {}
    <3>1. \A i \in 1..1 : ctxs[i].kind = "script"
      BY <1>1, <2>1
    <3>. QED  BY <1>3, <3>1 DEF Modules
  <2>3. Len(import_stack) = Cardinality(Modules(ctxs))
    BY DEF Inv
  <2>. QED  BY <1>1, <2>2, <2>3, FS_EmptySet
<1>. QED  BY <1>1, <1>5, <1>6, EmptyInv

\* The contexts with one more.
LEMMA PushInv ==
  ASSUME Inv, NEW f \in CtxType, NEW mk, NEW k, k = Len(loop_stack),
         CtxOK(f, Len(ctxs) + 1, k, k, mk, loop_stack),
         f.kind = "script" <=> Len(ctxs) = 0,
         ctxs' = Append(ctxs, f), loop_stack' = loop_stack,
         f.kind = "module" => Len(import_stack') = Len(import_stack) + 1,
         f.kind # "module" => Len(import_stack') = Len(import_stack)
  PROVE  Inv'
<1>. DEFINE cs == Append(ctxs, f)
            n == Len(ctxs)
            L == loop_stack
<1>1. PICK below : InvBy(below)
  BY DEF Inv
<1>2. /\ ctxs \in Seq(CtxType) /\ loop_stack \in Seq(LoopType) /\ n \in Nat /\ k \in Nat
      /\ Len(import_stack) = Cardinality(Modules(ctxs))
  BY LenProperties DEF Inv
<1>3. /\ cs \in Seq(CtxType) /\ Len(cs) = n + 1 /\ cs[n + 1] = f
      /\ \A i \in 1..n : cs[i] = ctxs[i]
  BY <1>2, AppendFacts
<1>4. /\ below \in Seq(Nat) /\ Len(below) = n + 1 /\ below[1] = 0 /\ below[n + 1] = k
      /\ \A i, j \in 1..n + 1 : i <= j => below[i] <= below[j]
      /\ \A i \in 1..n : /\ ctxs[i].kind = "script" <=> i = 1
                         /\ \E ms : CtxOK(ctxs[i], i, below[i], below[i + 1], ms, L)
      /\ \A l \in 1..k : L[l].context \in 1..n
                         /\ l \in below[L[l].context] + 1..below[L[l].context + 1]
  BY <1>1 DEF InvBy
<1>. DEFINE b == Append(below, k)
<1>5. /\ b \in Seq(Nat) /\ Len(b) = n + 2 /\ b[n + 2] = k
      /\ \A i \in 1..n + 1 : b[i] = below[i]
  <2>1. /\ b \in Seq(Nat) /\ Len(b) = Len(below) + 1 /\ b[Len(below) + 1] = k
        /\ \A i \in 1..Len(below) : b[i] = below[i]
    BY <1>2, <1>4, AppendFacts
  <2>2. n + 1 + 1 = n + 2
    BY <1>2
  <2>. QED  BY <1>4, <2>1, <2>2
<1>. HIDE DEF b
<1>6. \A i \in 1..n + 1 : below[i] \in Nat
  BY <1>4, LenProperties
<1>7. \A i, j \in 1..n + 2 : i <= j => b[i] <= b[j]
  <2>. SUFFICES ASSUME NEW i \in 1..n + 2, NEW j \in 1..n + 2, i <= j PROVE b[i] <= b[j]
    OBVIOUS
  <2>1. CASE j \in 1..n + 1
    <3>1. i \in 1..n + 1
      BY <1>2, <2>1
    <3>. QED  BY <1>4, <1>5, <2>1, <3>1
  <2>2. CASE j = n + 2 /\ i \in 1..n + 1
    <3>1. n + 1 \in 1..n + 1 /\ i <= n + 1
      BY <1>2, <2>2
    <3>2. below[i] <= below[n + 1]
      BY <1>4, <2>2, <3>1
    <3>. QED  BY <1>4, <1>5, <2>2, <3>2
  <2>3. CASE j = n + 2 /\ i = n + 2
    BY <1>2, <1>5, <2>3
  <2>. QED  BY <1>2, <2>1, <2>2, <2>3
<1>. DEFINE M == Modules(ctxs)
<1>8. Len(import_stack') = Cardinality(Modules(cs))
  <2>1. IsFiniteSet(M)
    <3>1. IsFiniteSet(1..n)
      BY <1>2, FS_Interval
    <3>2. M \subseteq 1..n
      BY DEF Modules
    <3>. HIDE DEF M
    <3>. QED  BY <3>1, <3>2, FS_Subset
  <2>2. n + 1 \notin M
    BY <1>2 DEF Modules
  <2>3. \A i : i \in 1..n + 1 <=> i \in 1..n \/ i = n + 1
    BY <1>2
  <2>4. CASE f.kind = "module"
    <3>1. Modules(cs) = M \union {n + 1}
      BY <1>3, <2>3, <2>4 DEF Modules
    <3>. HIDE DEF M
    <3>2. Cardinality(M \union {n + 1}) = Cardinality(M) + 1
      BY <2>1, <2>2, FS_AddElement
    <3>. QED  BY <1>2, <2>4, <3>1, <3>2 DEF M
  <2>5. CASE f.kind # "module"
    <3>1. Modules(cs) = M
      BY <1>3, <2>3, <2>5 DEF Modules
    <3>. QED  BY <1>2, <2>5, <3>1
  <2>. QED  BY <2>4, <2>5
<1>9. \A i \in 1..n + 1 : /\ cs[i].kind = "script" <=> i = 1
                          /\ \E ms : CtxOK(cs[i], i, b[i], b[i + 1], ms, L)
  <2>. TAKE i \in 1..n + 1
  <2>1. CASE i \in 1..n
    <3>1. cs[i] = ctxs[i] /\ i \in 1..n + 1 /\ i + 1 \in 1..n + 1
      BY <1>2, <1>3, <2>1
    <3>2. b[i] = below[i] /\ b[i + 1] = below[i + 1]
      BY <1>5, <3>1
    <3>. QED  BY <1>4, <2>1, <3>1, <3>2
  <2>2. CASE i = n + 1
    <3>1. n + 1 \in 1..n + 1 /\ n + 1 + 1 = n + 2
      BY <1>2
    <3>2. cs[i] = f /\ b[i] = k /\ b[i + 1] = k
      BY <1>3, <1>4, <1>5, <2>2, <3>1
    <3>3. CtxOK(f, i, k, k, mk, L)
      BY <2>2
    <3>4. i = 1 <=> n = 0
      BY <1>2, <2>2
    <3>. QED  BY <3>2, <3>3, <3>4
  <2>. QED  BY <1>2, <2>1, <2>2
<1>10. \A l \in 1..k : L[l].context \in 1..n + 1 /\ l \in b[L[l].context] + 1..b[L[l].context + 1]
  <2>. TAKE l \in 1..k
  <2>. DEFINE x == L[l].context
  <2>1. x \in 1..n /\ l \in below[x] + 1..below[x + 1]
    BY <1>4
  <2>. HIDE DEF x
  <2>2. x \in 1..n + 1 /\ x + 1 \in 1..n + 1
    BY <1>2, <2>1
  <2>3. l \in b[x] + 1..b[x + 1]
    BY <1>5, <2>1, <2>2
  <2>. QED  BY <2>2, <2>3 DEF x
<1>11. b[1] = 0
  <2>1. 1 \in 1..n + 1
    BY <1>2
  <2>. QED  BY <1>4, <1>5, <2>1
<1>12. n + 1 + 1 = n + 2
  BY <1>2
<1>13. /\ cs \in Seq(CtxType) /\ cs = ctxs' /\ L \in Seq(LoopType) /\ L = loop_stack'
       /\ b \in Seq(Nat) /\ Len(b) = Len(cs) + 1 /\ b[1] = 0 /\ b[Len(cs) + 1] = Len(L)
       /\ Len(cs) = n + 1 /\ Len(cs) + 1 = n + 2 /\ Len(L) = k
  BY <1>2, <1>3, <1>5, <1>11, <1>12
<1>. HIDE DEF cs, n, L, M
<1>14. \A i, j \in 1..Len(cs) + 1 : i <= j => b[i] <= b[j]
  BY <1>7, <1>13
<1>15. \A i \in 1..Len(cs) :
         /\ cs[i].kind = "script" <=> i = 1
         /\ \E ms : CtxOK(cs[i], i, b[i], b[i + 1], ms, L)
  BY <1>9, <1>13
<1>16. \A l \in 1..Len(L) :
         L[l].context \in 1..Len(cs) /\ l \in b[L[l].context] + 1..b[L[l].context + 1]
  BY <1>10, <1>13
<1>. QED  BY ZenonT(60), <1>8, <1>13, <1>14, <1>15, <1>16, InvFrom

\* The contexts without the current one, which has no open statement.
LEMMA PopInv ==
  ASSUME Inv, Compiling, Cur.kind # "script", Cur.open = <<>>,
         ctxs' = Front(ctxs), loop_stack' = loop_stack,
         Cur.kind = "module" => Len(import_stack') = Len(import_stack) - 1,
         Cur.kind # "module" => Len(import_stack') = Len(import_stack)
  PROVE  Inv'
<1>. DEFINE cs == Front(ctxs)
            n == Len(ctxs)
            k == Len(loop_stack)
            L == loop_stack
<1>1. PICK below, mk : Now(below, mk)
  BY InvNow
<1>2. /\ ctxs \in Seq(CtxType) /\ loop_stack \in Seq(LoopType) /\ n \in Nat \ {0} /\ k \in Nat
      /\ Cur = ctxs[n]
      /\ cs \in Seq(CtxType) /\ Len(cs) = n - 1 /\ \A i \in 1..n - 1 : cs[i] = ctxs[i]
      /\ below \in Seq(Nat) /\ Len(below) = n + 1 /\ below[1] = 0
      /\ \A i \in 1..n + 1 : below[i] \in Nat
  BY <1>1, NowFacts
<1>3. below[n] = k /\ n # 1
  BY <1>1, Closed, KindFacts
<1>4. /\ below[n + 1] = k
      /\ \A i, j \in 1..n + 1 : i <= j => below[i] <= below[j]
      /\ \A i \in 1..n : /\ ctxs[i].kind = "script" <=> i = 1
                         /\ \E ms : CtxOK(ctxs[i], i, below[i], below[i + 1], ms, L)
      /\ \A l \in 1..k : L[l].context \in 1..n
                         /\ l \in below[L[l].context] + 1..below[L[l].context + 1]
      /\ Len(import_stack) = Cardinality(Modules(ctxs))
  BY <1>1 DEF Now, InvBy
<1>. DEFINE b == SubSeq(below, 1, n)
<1>5. b \in Seq(Nat) /\ Len(b) = n /\ \A i \in 1..n : b[i] = below[i]
  <2>1. n \in 0..Len(below)
    BY <1>2
  <2>. QED  BY <1>2, <2>1, FirstPart
<1>. HIDE DEF b
<1>6. n - 1 + 1 = n /\ n \in 1..n /\ 1 \in 1..n
  BY <1>2
<1>. DEFINE M == Modules(ctxs)
<1>7. Len(import_stack') = Cardinality(Modules(cs))
  <2>1. IsFiniteSet(M)
    <3>1. IsFiniteSet(1..n)
      BY <1>2, FS_Interval
    <3>2. M \subseteq 1..n
      BY DEF Modules
    <3>. HIDE DEF M
    <3>. QED  BY <3>1, <3>2, FS_Subset
  <2>2. \A i : i \in 1..n - 1 <=> i \in 1..n /\ i # n
    BY <1>2
  <2>3. Modules(cs) = M \ {n}
    BY <1>2, <2>2 DEF Modules
  <2>4. CASE Cur.kind = "module"
    <3>1. n \in M
      BY <1>2, <1>6, <2>4 DEF Modules
    <3>. HIDE DEF M
    <3>2. Cardinality(M \ {n}) = Cardinality(M) - 1
      BY <2>1, <3>1, FS_RemoveElement
    <3>. QED  BY <1>4, <2>3, <2>4, <3>2 DEF M
  <2>5. CASE Cur.kind # "module"
    <3>1. n \notin M
      BY <1>2, <2>5 DEF Modules
    <3>2. M \ {n} = M
      BY <3>1
    <3>. QED  BY <1>4, <2>3, <2>5, <3>2
  <2>. QED  BY <2>4, <2>5
<1>8. \A i, j \in 1..n : i <= j => b[i] <= b[j]
  <2>1. \A i \in 1..n : i \in 1..n + 1
    BY <1>2
  <2>. QED  BY <1>4, <1>5, <2>1
<1>9. \A i \in 1..n - 1 : /\ cs[i].kind = "script" <=> i = 1
                          /\ \E ms : CtxOK(cs[i], i, b[i], b[i + 1], ms, L)
  <2>. TAKE i \in 1..n - 1
  <2>1. i \in 1..n /\ i + 1 \in 1..n
    BY <1>2
  <2>2. cs[i] = ctxs[i] /\ b[i] = below[i] /\ b[i + 1] = below[i + 1]
    BY <1>2, <1>5, <2>1
  <2>. QED  BY <1>4, <2>1, <2>2
<1>10. \A l \in 1..k : L[l].context \in 1..n - 1 /\ l \in b[L[l].context] + 1..b[L[l].context + 1]
  <2>. TAKE l \in 1..k
  <2>. DEFINE x == L[l].context
  <2>1. x \in 1..n /\ l \in below[x] + 1..below[x + 1]
    BY <1>4
  <2>. HIDE DEF x
  <2>2. x # n
    <3>1. SUFFICES ASSUME x = n PROVE FALSE
      OBVIOUS
    <3>2. l \in k + 1..k
      BY <1>3, <1>4, <2>1, <3>1
    <3>. QED  BY <1>2, <3>2
  <2>3. x \in 1..n - 1 /\ x + 1 \in 1..n
    BY <1>2, <2>1, <2>2
  <2>4. b[x] = below[x] /\ b[x + 1] = below[x + 1]
    BY <1>5, <2>1, <2>3
  <2>. QED  BY <2>1, <2>3, <2>4 DEF x
<1>11. /\ cs \in Seq(CtxType) /\ cs = ctxs' /\ L \in Seq(LoopType) /\ L = loop_stack'
       /\ b \in Seq(Nat) /\ Len(b) = Len(cs) + 1 /\ b[1] = 0 /\ b[Len(cs) + 1] = Len(L)
       /\ Len(cs) = n - 1 /\ Len(cs) + 1 = n /\ Len(L) = k
  BY <1>2, <1>3, <1>5, <1>6
<1>. HIDE DEF cs, n, L, k, M
<1>12. \A i, j \in 1..Len(cs) + 1 : i <= j => b[i] <= b[j]
  BY <1>8, <1>11
<1>13. \A i \in 1..Len(cs) :
         /\ cs[i].kind = "script" <=> i = 1
         /\ \E ms : CtxOK(cs[i], i, b[i], b[i + 1], ms, L)
  BY <1>9, <1>11
<1>14. \A l \in 1..Len(L) :
         L[l].context \in 1..Len(cs) /\ l \in b[L[l].context] + 1..b[L[l].context + 1]
  BY <1>10, <1>11
<1>. QED  BY ZenonT(60), <1>7, <1>11, <1>12, <1>13, <1>14, InvFrom

LEMMA CompileErrorInv ==
  ASSUME CompileError
  PROVE  Inv'
<1>1. ctxs' = <<>> /\ loop_stack' = <<>> /\ import_stack' = <<>>
  BY DEF CompileError
<1>2. Len(import_stack') = 0
  BY <1>1
<1>. QED  BY <1>1, <1>2, EmptyInv

LEMMA ContextFacts ==
  ASSUME NEW kind \in {"script", "function", "module"}, NEW n \in Nat, NEW depth \in Nat,
         NEW arity \in Nat, NEW g \in Garbage,
         IF kind = "module" THEN arity = n ELSE arity + 1 = n
  PROVE  LET f == Context(kind, n, depth, arity, g) IN
         /\ f \in CtxType /\ f.kind = kind /\ f.scope_depth = depth /\ f.open = <<>>
         /\ Len(f.locals) = n /\ f.heights = {Base(f) + n}
         /\ \A k \in 1..n : f.locals[k].depth = depth /\ f.locals[k].at = {k - 1}
<1>. DEFINE l == [i \in 1..n |-> [depth |-> depth, const |-> FALSE, at |-> {i - 1}]]
            f == Context(kind, n, depth, arity, g)
<1>1. l \in Seq(LocalType) /\ Len(l) = n
  <2>1. \A i \in 1..n : l[i] \in LocalType
    <3>1. \A i \in 1..n : i - 1 \in Int
      OBVIOUS
    <3>. QED  BY <3>1 DEF LocalType, Heights
  <2>2. l \in [1..n -> LocalType]
    BY <2>1
  <2>. HIDE DEF l
  <2>. QED  BY <2>2
<1>2. \A k \in 1..n : l[k].depth = depth /\ l[k].at = {k - 1}
  OBVIOUS
<1>3. g \in [Slots -> BOOLEAN]
  <2>1. g \in [Slots -> BOOLEAN] \/ g = [s \in Slots |-> FALSE]
    BY DEF Garbage
  <2>. QED  BY <2>1
<1>4. {1 + arity} \in Heights /\ <<>> \in Seq(OpenType)
  BY DEF Heights
<1>5. f = [kind |-> kind, scope_depth |-> depth, locals |-> l, is_const |-> g,
           heights |-> {1 + arity}, open |-> <<>>]
  BY DEF Context
<1>. HIDE DEF l, f
<1>6. f \in CtxType
  BY <1>1, <1>3, <1>4, <1>5 DEF CtxType
<1>7. /\ f.kind = kind /\ f.scope_depth = depth /\ f.open = <<>> /\ f.locals = l
      /\ f.heights = {1 + arity}
  BY <1>5
<1>8. 1 + arity = Base(f) + n
  BY <1>7 DEF Base
<1>. QED  BY <1>1, <1>2, <1>6, <1>7, <1>8 DEF f

\* A context that begins has no open statement: one place, with all its locals.
LEMMA NewOK ==
  ASSUME NEW f \in CtxType, NEW n \in Nat, n <= LocalsMax, NEW d, f.scope_depth = d,
         Len(f.locals) = n, f.open = <<>>, f.heights \subseteq {Base(f) + n},
         f.kind = "module" => n = 0,
         \A k \in 1..n : f.locals[k].depth = d /\ f.locals[k].at \subseteq {k - 1},
         NEW i, NEW lo \in Nat, NEW L
  PROVE  \E mk : CtxOK(f, i, lo, lo, mk, L)
<1>. DEFINE m == [depth |-> d, locals |-> n, loops |-> lo, dead |-> FALSE]
            mk == <<m>>
<1>1. d \in Nat /\ f.locals \in Seq(LocalType)
  BY DEF CtxType
<1>2. m \in Mark /\ m.depth = d /\ m.locals = n /\ m.loops = lo /\ m.dead = FALSE
  BY <1>1 DEF Mark
<1>. HIDE DEF m
<1>3. mk \in Seq(Mark) /\ Len(mk) = 1 /\ mk[1] = m
  BY <1>2
<1>4. Len(f.open) = 0
  OBVIOUS
<1>. HIDE DEF mk
<1>5. f.kind = "module" => f.locals = <<>>
  BY <1>1, EmptySeq
<1>6. f.heights \subseteq Level(f, m, n)
  BY <1>2 DEF Level
<1>7. Split(f.locals, d, n)
  <2>1. \A k \in 1..n : ~ (f.locals[k].depth > d) /\ ~ (k > n)
    BY <1>1
  <2>. QED  BY <2>1 DEF Split
<1>8. \A j \in 1..1 : j = 1
  OBVIOUS
<1>9. /\ \A j \in 1..Len(mk) : Split(f.locals, mk[j].depth, mk[j].locals)
      /\ \A j, k \in 1..Len(mk) : j <= k =>
           /\ mk[j].depth <= mk[k].depth /\ mk[j].locals <= mk[k].locals
           /\ mk[j].loops <= mk[k].loops /\ (mk[j].dead => mk[k].dead)
  BY <1>1, <1>2, <1>3, <1>7, <1>8
<1>10. /\ \A j \in 1..Len(f.open) : StatementOK(f, i, f.open[j], mk[j], mk[j + 1], L)
       /\ \A l \in lo + 1..lo :
            /\ L[l].context = i
            /\ \E j \in 1..Len(f.open) : f.open[j].node \in Loopy /\ mk[j + 1].loops = l
  BY <1>4
<1>11. CtxOK(f, i, lo, lo, mk, L)
  BY <1>2, <1>3, <1>4, <1>5, <1>6, <1>9, <1>10 DEF CtxOK
<1>. QED  BY <1>11

LEMMA CompileInv ==
  ASSUME Inv, Compile
  PROVE  Inv'
<1>1. /\ ctxs = <<>> /\ loop_stack' = <<>> /\ import_stack' = <<>>
      /\ \E g \in Garbage : ctxs' = <<Script(g)>>
  BY DEF Compile, Compiling
<1>2. PICK g \in Garbage : ctxs' = <<Script(g)>>
  BY <1>1
<1>. DEFINE f == Script(g)
<1>3. /\ f \in CtxType /\ f.kind = "script" /\ f.scope_depth = 0 /\ f.open = <<>>
      /\ Len(f.locals) = 1 /\ f.heights = {Base(f) + 1}
      /\ \A k \in 1..1 : f.locals[k].depth = 0 /\ f.locals[k].at = {k - 1}
  <2>. DEFINE one == 1
              zero == 0
              c == Context("script", one, zero, zero, g)
  <2>1. one \in Nat /\ zero \in Nat /\ zero + 1 = one
    OBVIOUS
  <2>2. c = Script(g)
    BY DEF Script
  <2>. HIDE DEF one, zero
  <2>3. /\ c \in CtxType /\ c.kind = "script" /\ c.scope_depth = zero /\ c.open = <<>>
        /\ Len(c.locals) = one /\ c.heights = {Base(c) + one}
        /\ \A k \in 1..one : c.locals[k].depth = zero /\ c.locals[k].at = {k - 1}
    BY <2>1, ContextFacts
  <2>. HIDE DEF c
  <2>. QED  BY <2>2, <2>3 DEF one, zero
<1>. HIDE DEF f
<1>4. 1 <= LocalsMax
  BY CompilerAssumption
<1>5. /\ Len(ctxs) = 0 /\ Len(loop_stack) = 0
      /\ loop_stack' = loop_stack /\ Len(import_stack') = Len(import_stack)
  BY <1>1, NoContext
<1>6. \E mk : CtxOK(f, Len(ctxs) + 1, Len(loop_stack), Len(loop_stack), mk, loop_stack)
  BY ZenonT(40), <1>3, <1>4, <1>5, NewOK
<1>7. ctxs' = Append(ctxs, f)
  BY <1>1, <1>2 DEF f
<1>. QED  BY <1>3, <1>5, <1>6, <1>7, PushInv

LEMMA FunctionInv ==
  ASSUME Inv, Function
  PROVE  Inv'
<1>1. /\ Compiling /\ loop_stack' = loop_stack /\ import_stack' = import_stack
      /\ \E n \in 0 .. ArityMax, g \in Garbage :
           \E heights \in {FunctionOf(n, g).heights, Default(FunctionOf(n, g).heights)} :
             ctxs' = Append(ctxs, Only(FunctionOf(n, g), heights))
  BY DEF Function, CanNest, SameLoops, SameImports
<1>2. PICK n \in 0 .. ArityMax, g \in Garbage :
           \E heights \in {FunctionOf(n, g).heights, Default(FunctionOf(n, g).heights)} :
             ctxs' = Append(ctxs, Only(FunctionOf(n, g), heights))
  BY <1>1
<1>. DEFINE f == FunctionOf(n, g)
            k == n + 1
<1>3. k \in Nat /\ n \in Nat /\ k <= LocalsMax
  BY CompilerAssumption
<1>4. /\ f \in CtxType /\ f.kind = "function" /\ f.scope_depth = 1 /\ f.open = <<>>
      /\ Len(f.locals) = k /\ f.heights = {Base(f) + k}
      /\ \A j \in 1..k : f.locals[j].depth = 1 /\ f.locals[j].at = {j - 1}
  BY <1>3, ContextFacts DEF FunctionOf
<1>. HIDE DEF f, k
<1>5. Default(f.heights) = f.heights /\ Only(f, f.heights) = f
  <2>1. f.heights \in Heights
    BY <1>4 DEF CtxType
  <2>2. Only(f, f.heights) = f
    BY <1>4 DEF Only, CtxType
  <2>. QED  BY <2>1, <2>2, FormFacts
<1>6. ctxs' = Append(ctxs, f)
  BY <1>2, <1>5 DEF f
<1>7. PICK below, ms : Now(below, ms)
  BY <1>1, InvNow
<1>8. Len(ctxs) \in Nat \ {0} /\ Len(loop_stack) \in Nat
  BY <1>7, NowFacts
<1>9. \E mk : CtxOK(f, Len(ctxs) + 1, Len(loop_stack), Len(loop_stack), mk, loop_stack)
  BY <1>3, <1>4, <1>8, NewOK
<1>10. Len(import_stack') = Len(import_stack)
  BY <1>1
<1>. QED  BY <1>1, <1>4, <1>6, <1>8, <1>9, <1>10, PushInv

LEMMA ImportKeepsInv ==
  ASSUME Inv, ImportInv, NEW m \in Module, Import(m)
  PROVE  Inv'
<1>1. Compiling /\ loop_stack' = loop_stack
  BY DEF Import
<1>2. CASE m \in imported_modules
  <2>1. ctxs' = ctxs /\ import_stack' = import_stack
    BY <1>2 DEF Import
  <2>. QED  BY <1>1, <2>1, SameInv
<1>3. CASE m \notin imported_modules
  <2>1. import_stack' = Append(import_stack, m) /\ \E g \in Garbage : ctxs' = Append(ctxs, ModuleContext(g))
    BY <1>3 DEF Import
  <2>2. PICK g \in Garbage : ctxs' = Append(ctxs, ModuleContext(g))
    BY <2>1
  <2>. DEFINE f == ModuleContext(g)
  <2>3. /\ f \in CtxType /\ f.kind = "module" /\ f.scope_depth = 0 /\ f.open = <<>>
        /\ Len(f.locals) = 0 /\ f.heights = {Base(f) + 0}
        /\ \A j \in 1..0 : f.locals[j].depth = 0 /\ f.locals[j].at = {j - 1}
    BY ContextFacts DEF ModuleContext
  <2>4. ctxs' = Append(ctxs, f)
    BY <2>2
  <2>. HIDE DEF f
  <2>5. PICK below, ms : Now(below, ms)
    BY <1>1, InvNow
  <2>6. Len(ctxs) \in Nat \ {0} /\ Len(loop_stack) \in Nat /\ 0 <= LocalsMax
    BY <2>5, NowFacts, CompilerAssumption
  <2>7. \E mk : CtxOK(f, Len(ctxs) + 1, Len(loop_stack), Len(loop_stack), mk, loop_stack)
    BY <2>3, <2>6, NewOK
  <2>8. Len(import_stack') = Len(import_stack) + 1
    <3>1. import_stack \in Seq(Module)
      BY DEF ImportInv
    <3>. QED  BY <2>1, <3>1, AppendFacts
  <2>. QED  BY <1>1, <2>3, <2>4, <2>6, <2>7, <2>8, PushInv
<1>. QED  BY <1>2, <1>3

\* What calls a function or module leaves the context around it as it was.
LEMMA LastSame ==
  ASSUME NEW S, NEW s \in Seq(S), s # <<>>
  PROVE  Append(Front(s), Last(s)) = s
<1>. DEFINE n == Len(s)
            f == Front(s)
            a == Append(f, Last(s))
<1>1. /\ n \in Nat \ {0} /\ f \in Seq(S) /\ Len(f) = n - 1 /\ \A i \in 1..n - 1 : f[i] = s[i]
      /\ Last(s) = s[n] /\ Last(s) \in S
  BY FrontFacts
<1>. HIDE DEF f, n
<1>2. /\ a \in Seq(S) /\ Len(a) = n - 1 + 1 /\ \A i \in 1..n - 1 : a[i] = f[i]
      /\ a[n - 1 + 1] = Last(s)
  BY <1>1, AppendFacts
<1>3. n - 1 + 1 = n /\ \A i \in 1..n : i = n \/ i \in 1..n - 1
  BY <1>1
<1>. HIDE DEF a
<1>4. a = s
  <2>1. Len(a) = Len(s) /\ \A i \in 1..Len(a) : a[i] = s[i]
    BY <1>1, <1>2, <1>3 DEF n
  <2>. QED  BY <1>2, <2>1, SeqEqual
<1>. QED  BY <1>4 DEF a, f

\* The contexts around the current one, if that is no script.
LEMMA OuterFacts ==
  ASSUME Inv, Compiling, Cur.kind # "script"
  PROVE  LET outer == Front(ctxs) IN
         /\ Last(outer) \in CtxType
         /\ Append(Front(outer), Last(outer)) = outer
<1>. DEFINE outer == Front(ctxs)
<1>1. PICK below, mk : Now(below, mk)
  BY InvNow
<1>2. outer \in Seq(CtxType) /\ Len(outer) # 0
  <2>1. Len(ctxs) \in Nat \ {0} /\ Front(ctxs) \in Seq(CtxType)
        /\ Len(Front(ctxs)) = Len(ctxs) - 1
    BY <1>1, NowFacts
  <2>2. Len(ctxs) # 1
    BY <1>1, KindFacts
  <2>. QED  BY <2>1, <2>2
<1>. HIDE DEF outer
<1>3. outer # <<>>
  BY <1>2
<1>4. Last(outer) \in CtxType /\ Append(Front(outer), Last(outer)) = outer
  BY <1>2, <1>3, FrontFacts, LastSame
<1>. QED  BY <1>4 DEF outer

LEMMA EndFunctionInv ==
  ASSUME Inv, EndFunction
  PROVE  Inv'
<1>1. /\ Compiling /\ Cur.kind = "function" /\ Cur.open = <<>>
      /\ loop_stack' = loop_stack /\ import_stack' = import_stack
      /\ ctxs' = Append(Front(Front(ctxs)), Emit(Emit(Last(Front(ctxs)), 1), -1))
  BY DEF EndFunction, SameLoops, SameImports
<1>. DEFINE c == Last(Front(ctxs))
<1>2. c \in CtxType /\ Append(Front(Front(ctxs)), c) = Front(ctxs)
  BY <1>1, OuterFacts
<1>. HIDE DEF c
<1>3. Emit(Emit(c, 1), -1) = c
  <2>1. 1 \in Int /\ -1 \in Int /\ 1 + (-1) = 0
    OBVIOUS
  <2>2. Emit(Emit(c, 1), -1) = Emit(c, 1 + (-1)) /\ Emit(c, 0) = c
    BY <1>2, <2>1, EmitFacts
  <2>. QED  BY <2>1, <2>2
<1>4. ctxs' = Front(ctxs)
  BY <1>1, <1>2, <1>3 DEF c
<1>5. Len(import_stack') = Len(import_stack)
  BY <1>1
<1>. QED  BY <1>1, <1>4, <1>5, PopInv

LEMMA EndImportKeepsInv ==
  ASSUME Inv, ImportInv, EndImport
  PROVE  Inv'
<1>1. /\ Compiling /\ Cur.kind = "module" /\ Cur.open = <<>>
      /\ loop_stack' = loop_stack /\ import_stack' = Front(import_stack)
      /\ ctxs' = Append(Front(Front(ctxs)),
                        Only(Last(Front(ctxs)), Popped(Call(Last(Front(ctxs)).heights, 0))))
  BY DEF EndImport
<1>. DEFINE c == Last(Front(ctxs))
<1>2. c \in CtxType /\ Append(Front(Front(ctxs)), c) = Front(ctxs)
  BY <1>1, OuterFacts
<1>. HIDE DEF c
<1>3. Only(c, Popped(Call(c.heights, 0))) = c
  <2>. DEFINE h == c.heights
  <2>1. h \in Heights
    BY <1>2 DEF CtxType
  <2>2. Only(c, h) = c
    BY <1>2 DEF Only, CtxType
  <2>. HIDE DEF h
  <2>3. Call(h, 0) = Shift(h, 1) /\ Shift(Shift(h, 1), -1) = h
    <3>1. 0 \in 0..2
      OBVIOUS
    <3>. QED  BY <2>1, <3>1, FormFacts, ShiftBack
  <2>. QED  BY <2>2, <2>3 DEF Popped, h
<1>4. ctxs' = Front(ctxs)
  BY <1>1, <1>2, <1>3 DEF c
<1>5. Len(import_stack') = Len(import_stack) - 1
  <2>1. import_stack \in Seq(Module)
    BY DEF ImportInv
  <2>2. import_stack # <<>>
    <3>1. PICK below, mk : Now(below, mk)
      BY <1>1, InvNow
    <3>2. Len(ctxs) \in Modules(ctxs)
      <4>1. Len(ctxs) \in Nat \ {0} /\ Cur = ctxs[Len(ctxs)]
        BY <3>1, NowFacts
      <4>. QED  BY <1>1, <4>1 DEF Modules
    <3>3. IsFiniteSet(Modules(ctxs))
      <4>1. IsFiniteSet(1..Len(ctxs))
        <5>1. 1 \in Int /\ Len(ctxs) \in Int
          BY <3>1, NowFacts
        <5>. QED  BY <5>1, FS_Interval
      <4>2. Modules(ctxs) \subseteq 1..Len(ctxs)
        BY DEF Modules
      <4>. QED  BY <4>1, <4>2, FS_Subset
    <3>4. Cardinality(Modules(ctxs)) # 0
      BY <3>2, <3>3, FS_EmptySet
    <3>5. Len(import_stack) = Cardinality(Modules(ctxs))
      BY DEF Inv
    <3>. QED  BY <3>4, <3>5
  <2>. QED  BY <1>1, <2>1, <2>2, FrontFacts
<1>. QED  BY <1>1, <1>4, <1>5, PopInv

LEMMA InitInv ==
  ASSUME Init
  PROVE  Inv
<1>1. ctxs = <<>> /\ loop_stack = <<>> /\ import_stack = <<>>
  BY DEF Init
<1>. DEFINE b == <<0>>
<1>2. /\ ctxs \in Seq(CtxType) /\ Len(ctxs) = 0
      /\ loop_stack \in Seq(LoopType) /\ Len(loop_stack) = 0 /\ Len(import_stack) = 0
  BY <1>1
<1>3. b \in Seq(Nat) /\ Len(b) = 1 /\ b[1] = 0
  OBVIOUS
<1>. HIDE DEF b
<1>4. Len(import_stack) = Cardinality(Modules(ctxs))
  <2>1. Modules(ctxs) = {}
    BY <1>2 DEF Modules
  <2>. QED  BY <1>2, <2>1, FS_EmptySet
<1>5. \A i, j \in 1..1 : i <= j => b[i] <= b[j]
  <2>1. \A i, j \in 1..1 : i = 1 /\ j = 1
    OBVIOUS
  <2>. QED  BY <1>3, <2>1
<1>6. InvBy(b)
  BY <1>2, <1>3, <1>5 DEF InvBy
<1>. QED  BY <1>2, <1>4, <1>6 DEF Inv

-----------------------------------------------------------------------------
(* The properties. *)

\* What holds of each context.
LEMMA InvContext ==
  ASSUME Inv, NEW i \in DOMAIN ctxs
  PROVE  /\ i \in 1..Len(ctxs) /\ ctxs[i].kind = "script" <=> i = 1
         /\ \E lo, hi, mk :
              /\ CtxOK(ctxs[i], i, lo, hi, mk, loop_stack) /\ hi <= Len(loop_stack)
              /\ \A l \in 1..Len(loop_stack) :
                   loop_stack[l].context = i => l \in lo + 1..hi
<1>1. ctxs \in Seq(CtxType) /\ i \in 1..Len(ctxs) /\ Len(ctxs) \in Nat
  <2>1. ctxs \in Seq(CtxType)
    BY DEF Inv
  <2>. QED  BY <2>1, LenProperties
<1>2. PICK below : InvBy(below)
  BY DEF Inv
<1>3. /\ ctxs[i].kind = "script" <=> i = 1
      /\ \E mk : CtxOK(ctxs[i], i, below[i], below[i + 1], mk, loop_stack)
  BY <1>1, <1>2 DEF InvBy
<1>4. below[i + 1] <= Len(loop_stack)
  <2>1. i + 1 \in 1..Len(ctxs) + 1 /\ Len(ctxs) + 1 \in 1..Len(ctxs) + 1 /\ i + 1 <= Len(ctxs) + 1
    BY <1>1
  <2>. QED  BY <1>2, <2>1 DEF InvBy
<1>5. \A l \in 1..Len(loop_stack) :
        loop_stack[l].context = i => l \in below[i] + 1..below[i + 1]
  BY <1>2 DEF InvBy
<1>. QED  BY <1>1, <1>3, <1>4, <1>5

\* A record of a loop for each loop statement that is open.
LEMMA LoopsMatch ==
  ASSUME NEW c, NEW i, NEW lo, NEW hi, NEW mk, CtxOK(c, i, lo, hi, mk, loop_stack),
         loop_stack \in Seq(LoopType), hi <= Len(loop_stack),
         \A l \in 1..Len(loop_stack) : loop_stack[l].context = i => l \in lo + 1..hi
  PROVE  Cardinality({l \in DOMAIN loop_stack : loop_stack[l].context = i}) =
         Cardinality({k \in DOMAIN c.open : c.open[k].node \in Loopy})
<1>. DEFINE A == {l \in DOMAIN loop_stack : loop_stack[l].context = i}
            B == {k \in DOMAIN c.open : c.open[k].node \in Loopy}
            n == Len(c.open)
            f == [k \in B |-> mk[k + 1].loops]
<1>1. /\ n \in Nat /\ c.open \in Seq(OpenType) /\ lo \in Nat /\ hi \in Nat
      /\ \A j \in 1..n + 1 : mk[j].loops \in Nat /\ lo <= mk[j].loops /\ mk[j].loops <= hi
      /\ \A j \in 1..n : StatementOK(c, i, c.open[j], mk[j], mk[j + 1], loop_stack)
      /\ Len(mk) = n + 1
  BY CtxFacts
<1>2. /\ \A j, k \in 1..n + 1 : j <= k => mk[j].loops <= mk[k].loops
      /\ \A l \in lo + 1..hi :
           /\ loop_stack[l].context = i
           /\ \E j \in 1..n : c.open[j].node \in Loopy /\ mk[j + 1].loops = l
  BY <1>1 DEF CtxOK
<1>3. DOMAIN c.open = 1..n /\ DOMAIN loop_stack = 1..Len(loop_stack) /\ Len(loop_stack) \in Nat
  BY <1>1, LenProperties
<1>4. A = lo + 1..hi
  <2>1. \A l \in lo + 1..hi : l \in 1..Len(loop_stack)
    BY <1>1, <1>3
  <2>. QED  BY <1>2, <1>3, <2>1
<1>5. B \subseteq 1..n /\ IsFiniteSet(B)
  <2>1. B \subseteq 1..n
    BY <1>3
  <2>2. IsFiniteSet(1..n)
    BY <1>1, FS_Interval
  <2>. HIDE DEF B
  <2>. QED  BY <2>1, <2>2, FS_Subset
<1>6. \A k \in B : k \in 1..n /\ k + 1 \in 1..n + 1 /\ k \in 1..n + 1
                   /\ mk[k + 1].loops = mk[k].loops + 1
  <2>. TAKE k \in B
  <2>1. k \in 1..n /\ c.open[k].node \in Loopy
    BY <1>3
  <2>2. mk[k + 1].loops = mk[k].loops + 1
    BY <1>1, <2>1 DEF StatementOK
  <2>. QED  BY <1>1, <2>1, <2>2
<1>7. \A j \in 1..n : c.open[j].node \in Loopy => j \in B
  BY <1>3
<1>. HIDE DEF A, B, n
<1>8. f \in Bijection(B, A)
  <2>1. \A k \in B : f[k] = mk[k + 1].loops /\ f[k] \in A
    <3>. TAKE k \in B
    <3>. DEFINE a == mk[k].loops
                b == mk[k + 1].loops
    <3>1. b = a + 1 /\ a \in Nat /\ lo <= a /\ b <= hi
      BY <1>1, <1>6
    <3>2. b \in lo + 1..hi
      <4>. HIDE DEF a, b
      <4>. QED  BY <1>1, <3>1
    <3>. QED  BY <1>4, <3>2
  <2>2. \A j, k \in B : j < k => f[j] < f[k]
    <3>. TAKE j, k \in B
    <3>. HAVE j < k
    <3>1. j + 1 \in 1..n + 1 /\ k \in 1..n + 1 /\ j + 1 <= k
      BY <1>6
    <3>2. mk[j + 1].loops <= mk[k].loops /\ mk[j + 1].loops \in Nat /\ mk[k].loops \in Nat
      BY <1>1, <1>2, <3>1
    <3>3. mk[k + 1].loops = mk[k].loops + 1
      BY <1>6
    <3>. QED  BY <2>1, <3>2, <3>3
  <2>3. \A l \in A : \E k \in B : f[k] = l
    BY <1>2, <1>4, <1>7, <2>1
  <2>4. f \in Injection(B, A)
    <3>1. f \in [B -> A]
      BY <2>1
    <3>2. \A j, k \in B : f[j] = f[k] => j = k
      <4>1. \A j, k \in B : j \in Int /\ k \in Int
        BY <1>6
      <4>2. \A j, k \in B : j < k \/ k < j \/ j = k
        BY <4>1
      <4>3. \A j \in B : f[j] \in Int
        BY <1>1, <1>6, <2>1
      <4>. QED  BY <2>2, <4>2, <4>3
    <3>. QED  BY <3>1, <3>2 DEF Injection, IsInjective
  <2>5. f \in Surjection(B, A)
    BY <2>1, <2>3 DEF Surjection
  <2>. QED  BY <2>4, <2>5 DEF Bijection
<1>9. Cardinality(B) = Cardinality(A)
  <2>. HIDE DEF f
  <2>. QED  BY <1>5, <1>8, FS_Bijection DEF ExistsBijection
<1>. QED  BY <1>9 DEF A, B

LEMMA InvType ==
  ASSUME Inv, ImportInv
  PROVE  TypeOK
<1>1. ASSUME NEW i \in DOMAIN ctxs
      PROVE  /\ ctxs[i].kind = "script" <=> i = 1
             /\ Len(ctxs[i].locals) <= LocalsMax
             /\ ctxs[i].scope_depth \in Nat
             /\ ctxs[i].is_const \in [Slots -> BOOLEAN]
             /\ Cardinality({l \in DOMAIN loop_stack : loop_stack[l].context = i}) =
                Cardinality({k \in DOMAIN ctxs[i].open : ctxs[i].open[k].node \in Loopy})
  <2>1. PICK lo, hi, mk :
              /\ CtxOK(ctxs[i], i, lo, hi, mk, loop_stack) /\ hi <= Len(loop_stack)
              /\ \A l \in 1..Len(loop_stack) :
                   loop_stack[l].context = i => l \in lo + 1..hi
    BY <1>1, InvContext
  <2>2. /\ Len(ctxs[i].locals) <= LocalsMax /\ ctxs[i].scope_depth \in Nat
        /\ ctxs[i].is_const \in [Slots -> BOOLEAN]
    BY <2>1, CtxFacts
  <2>3. loop_stack \in Seq(LoopType)
    BY DEF Inv
  <2>4. Cardinality({l \in DOMAIN loop_stack : loop_stack[l].context = i}) =
        Cardinality({k \in DOMAIN ctxs[i].open : ctxs[i].open[k].node \in Loopy})
    BY <2>1, <2>3, LoopsMatch
  <2>. QED  BY <1>1, <2>2, <2>4, InvContext
<1>2. Len(import_stack) = Cardinality({i \in DOMAIN ctxs : ctxs[i].kind = "module"})
  <2>1. ctxs \in Seq(CtxType) /\ Len(import_stack) = Cardinality(Modules(ctxs))
    BY DEF Inv
  <2>2. DOMAIN ctxs = 1..Len(ctxs)
    BY <2>1, LenProperties
  <2>. QED  BY <2>1, <2>2 DEF Modules
<1>3. Range(import_stack) \subseteq imported_modules /\ imported_modules \subseteq Module
  BY DEF ImportInv
<1>. QED  BY <1>1, <1>2, <1>3 DEF TypeOK, Loopy

LEMMA InvBalanced ==
  ASSUME Inv
  PROVE  Balanced /\ SlotsHoldLocals
<1>1. ASSUME NEW i \in DOMAIN ctxs
      PROVE  /\ ctxs[i].heights \subseteq {Base(ctxs[i]) + Len(ctxs[i].locals)}
             /\ \A k \in DOMAIN ctxs[i].locals : ctxs[i].locals[k].at \subseteq {k - 1}
  <2>. DEFINE c == ctxs[i]
  <2>1. PICK lo, hi, mk : CtxOK(c, i, lo, hi, mk, loop_stack)
    BY <1>1, InvContext
  <2>. HIDE DEF c
  <2>2. c.locals \in Seq(LocalType) /\ c.heights \subseteq Level(c, mk[Len(c.open) + 1], Len(c.locals))
    BY <2>1, CtxFacts
  <2>3. c.heights \subseteq {Base(c) + Len(c.locals)}
    BY <2>2 DEF Level
  <2>4. DOMAIN c.locals = 1..Len(c.locals)
    BY <2>2, LenProperties
  <2>5. \A k \in DOMAIN c.locals : c.locals[k].at \subseteq {k - 1}
    BY <2>1, <2>4 DEF CtxOK
  <2>. QED  BY <2>3, <2>5 DEF c
<1>. QED  BY <1>1 DEF Balanced, SlotsHoldLocals

LEMMA InvStep ==
  ASSUME SafeShapes, Inv, ImportInv, [Next]_vars
  PROVE  Inv'
<1>1. CASE Compile \/ EndCompile \/ CompileError
  BY <1>1, CompileInv, EndCompileInv, CompileErrorInv
<1>2. CASE LetGlobal \/ Assign \/ CompoundAssign \/ SetIndex \/ PrintStmt \/ ExprStmt \/ ReplExprStmt
  BY <1>2, LeafInv
<1>3. CASE Let \/ Return
  BY <1>3, LetInv, ReturnInv
<1>4. CASE If \/ Else \/ EndIf
  BY <1>4, IfInv, ElseInv, EndIfInv
<1>5. CASE While \/ EndWhile \/ Break \/ Continue
  BY <1>5, WhileInv, EndWhileInv, BreakInv, ContinueInv
<1>6. CASE For \/ EndFor \/ ForRange \/ EndForRange \/ JitForRange
  BY <1>6, ForInv, EndForInv, ForRangeInv, EndForRangeInv, JitForRangeInv
<1>7. CASE ForStep \/ ForDown \/ EndForStep
  BY <1>7, ForStepInv, ForDownInv, EndForStepInv
<1>8. CASE When \/ Is \/ ElseWhen \/ EndWhen
  BY <1>8, WhenInv, IsInv, ElseWhenInv, EndWhenInv
<1>9. CASE Try \/ Catch \/ EndTry
  BY <1>9, TryInv, CatchInv, EndTryInv
<1>10. CASE Function \/ EndFunction
  BY <1>10, FunctionInv, EndFunctionInv
<1>11. ASSUME NEW m \in Module, Import(m) PROVE Inv'
  BY <1>11, ImportKeepsInv
<1>12. CASE EndImport
  BY <1>12, EndImportKeepsInv
<1>13. CASE UNCHANGED vars
  <2>1. ctxs' = ctxs /\ loop_stack' = loop_stack /\ import_stack' = import_stack
    BY <1>13 DEF vars
  <2>. QED  BY <2>1, SameInv
<1>. QED
  BY <1>1, <1>2, <1>3, <1>4, <1>5, <1>6, <1>7, <1>8, <1>9, <1>10, <1>11, <1>12, <1>13 DEF Next

LEMMA Always == SafeShapes => (Spec => [](Inv /\ ImportInv))
<1>. SUFFICES ASSUME SafeShapes PROVE Spec => [](Inv /\ ImportInv)
  OBVIOUS
<1>1. Init => Inv /\ ImportInv
  BY InitInv DEF Init, ImportInv, AcyclicImports, Compiling, Range
<1>2. Inv /\ ImportInv /\ [Next]_vars => Inv' /\ ImportInv'
  BY InvStep, ImportInvStep
<1>. QED  BY <1>1, <1>2, PTL DEF Spec

(* The contexts, the loops and the imports in progress match, however deep a
   program nests its functions, modules and loops: each context has as many
   records on loop_stack as it has loop statements open, and import_stack has
   a file for each context of a module. *)
THEOREM CompilerType == SafeShapes => (Spec => []TypeOK)
<1>1. Inv /\ ImportInv => TypeOK
  BY InvType
<1>. QED  BY <1>1, Always, PTL

(* The compiler's count of locals is the height of the frame wherever two
   statements meet, on every path to that place: the pops of every scope,
   break, continue, case and catch are as many as the locals that end there. *)
THEOREM StackBalanced == SafeShapes => (Spec => []Balanced)
<1>1. Inv => Balanced
  BY InvBalanced
<1>. QED  BY <1>1, Always, PTL

(* OP_GET_LOCAL and OP_SET_LOCAL use the slot into which the value of that very
   local was put, for every local of every function that is being compiled. *)
THEOREM LocalsInSlots == SafeShapes => (Spec => []SlotsHoldLocals)
<1>1. Inv => SlotsHoldLocals
  BY InvBalanced
<1>. QED  BY <1>1, Always, PTL
=============================================================================
