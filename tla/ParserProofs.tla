----------------------------- MODULE ParserProofs -----------------------------
(***************************************************************************)
(* Theorems about Parser, for texts nested as deep as one likes.  The      *)
(* invariant relates what the parse functions have yet to do (calls) to    *)
(* what the grammar still expects (expected): first what each part is owed *)
(* by the grammar, then how the grammar takes a token, then each branch of *)
(* each parse function.                                                    *)
(***************************************************************************)
EXTENDS Parser, SequencesExt, SequenceTheorems, FiniteSetTheorems, TLAPS

-----------------------------------------------------------------------------
(***************************************************************************)
(* Sequences of parts and of symbols are taken apart and put together at   *)
(* their front.                                                            *)
(***************************************************************************)
LEMMA ConsFacts ==
  ASSUME NEW S, NEW x \in S, NEW c \in Seq(S)
  PROVE  /\ Cons(x, c) \in Seq(S)
         /\ Len(Cons(x, c)) = Len(c) + 1
         /\ Cons(x, c)[1] = x
         /\ \A i \in 1..Len(c) : Cons(x, c)[i + 1] = c[i]
         /\ Cons(x, c) # <<>>
         /\ Head(Cons(x, c)) = x
         /\ Tail(Cons(x, c)) = c
<1>1. /\ Cons(x, c) \in Seq(S)
      /\ Len(Cons(x, c)) = Len(c) + 1
      /\ \A i \in 1..Len(c) + 1 : Cons(x, c)[i] = IF i <= 1 THEN x ELSE c[i - 1]
  <2>1. <<x>> \in Seq(S) /\ Len(<<x>>) = 1 /\ <<x>>[1] = x
    OBVIOUS
  <2>. QED  BY <2>1, ConcatProperties DEF Cons
<1>2. Len(c) \in Nat
  BY LenProperties
<1>3. Cons(x, c)[1] = x
  BY <1>1, <1>2
<1>4. \A i \in 1..Len(c) : Cons(x, c)[i + 1] = c[i]
  BY <1>1, <1>2
<1>5. Cons(x, c) # <<>>
  BY <1>1, <1>2
<1>6. Head(Cons(x, c)) = x
  BY <1>1, <1>3, <1>5
<1>7. Tail(Cons(x, c)) = c
  <2>. DEFINE d == Cons(x, c)
  <2>1. Tail(d) \in Seq(S) /\ Len(Tail(d)) = Len(d) - 1
          /\ \A i \in 1..Len(Tail(d)) : Tail(d)[i] = d[i + 1]
    BY <1>1, <1>5, HeadTailProperties
  <2>. HIDE DEF d
  <2>2. Len(Tail(d)) = Len(c)
    BY <1>1, <1>2, <2>1 DEF d
  <2>3. \A i \in 1..Len(c) : Tail(d)[i] = c[i]
    BY <1>4, <2>1, <2>2 DEF d
  <2>4. Tail(d) = c
    BY <2>1, <2>2, <2>3, SeqEqual
  <2>. QED  BY <2>4 DEF d
<1>. QED  BY <1>1, <1>3, <1>4, <1>5, <1>6, <1>7

LEMMA HeadAndTail ==
  ASSUME NEW S, NEW c \in Seq(S), c # <<>>
  PROVE  /\ Head(c) \in S /\ Tail(c) \in Seq(S)
         /\ c = Cons(Head(c), Tail(c))
<1>. DEFINE x == Head(c)
            t == Tail(c)
            d == Cons(x, t)
<1>1. x \in S /\ t \in Seq(S) /\ Len(t) = Len(c) - 1 /\ \A i \in 1..Len(t) : t[i] = c[i + 1]
  BY HeadTailProperties
<1>2. Len(c) \in Nat \ {0} /\ x = c[1]
  BY LenProperties, EmptySeq
<1>. HIDE DEF x, t
<1>3. d \in Seq(S) /\ Len(d) = Len(t) + 1 /\ d[1] = x /\ \A i \in 1..Len(t) : d[i + 1] = t[i]
  <2>1. x \in S /\ t \in Seq(S)
    BY <1>1
  <2>2. Cons(x, t) \in Seq(S) /\ Len(Cons(x, t)) = Len(t) + 1 /\ Cons(x, t)[1] = x
    BY ONLY <2>1, ConsFacts
  <2>3. \A i \in 1..Len(t) : Cons(x, t)[i + 1] = t[i]
    BY ONLY <2>1, ConsFacts
  <2>. QED  BY ONLY <2>2, <2>3
<1>. HIDE DEF d
<1>4. Len(d) = Len(c)
  BY <1>1, <1>2, <1>3
<1>5. ASSUME NEW i \in 1..Len(c) PROVE d[i] = c[i]
  <2>1. CASE i = 1
    BY <2>1, <1>2, <1>3
  <2>2. CASE i # 1
    <3>1. i - 1 \in 1..Len(t) /\ (i - 1) + 1 = i
      BY <2>2, <1>1, <1>2
    <3>. QED  BY <3>1, <1>1, <1>3
  <2>. QED  BY <2>1, <2>2
<1>6. d = c
  BY <1>3, <1>4, <1>5, SeqEqual
<1>. QED  BY <1>1, <1>6 DEF d, x, t

Fronts(a, s, t) == Len(t) = Len(s) + 1 /\ t[1] = a /\ \A i \in 1..Len(s) : t[i + 1] = s[i]

LEMMA ConcatFront ==
  ASSUME NEW S, NEW r \in Seq(S), NEW a \in S, NEW s \in Seq(S), NEW t \in Seq(S),
         Fronts(a, s, t)
  PROVE  t \o r = Cons(a, s \o r)
<1>. USE DEF Fronts
<1>1. <<a>> \in Seq(S)
  OBVIOUS
<1>2. (<<a>> \o s) \o r = Cons(a, s \o r)
  BY <1>1, ConcatAssociative DEF Cons
<1>3. Cons(a, s) \in Seq(S) /\ Len(Cons(a, s)) = Len(s) + 1 /\ Cons(a, s)[1] = a
  BY ConsFacts
<1>4. \A i \in 1..Len(s) : Cons(a, s)[i + 1] = s[i]
  BY ConsFacts
<1>5. ASSUME NEW i \in 1..Len(t) PROVE t[i] = Cons(a, s)[i]
  <2>1. Len(s) \in Nat
    BY LenProperties
  <2>2. CASE i = 1
    BY <2>2, <1>3
  <2>3. CASE i # 1
    <3>1. i - 1 \in 1..Len(s) /\ (i - 1) + 1 = i
      BY <2>1, <2>3
    <3>. QED  BY <3>1, <1>4
  <2>. QED  BY <2>2, <2>3
<1>6. t = Cons(a, s)
  BY <1>3, <1>5, SeqEqual
<1>. QED  BY <1>2, <1>6 DEF Cons

FiveFirst(a, b, c, d, e, r) ==
  <<a, b, c, d, e>> \o r = Cons(a, Cons(b, Cons(c, Cons(d, Cons(e, r)))))

Unfolds(S, r) ==
  /\ <<>> \o r = r
  /\ \A a \in S : <<a>> \o r = Cons(a, r)
  /\ \A a, b \in S : <<a, b>> \o r = Cons(a, Cons(b, r))
  /\ \A a, b, c \in S : <<a, b, c>> \o r = Cons(a, Cons(b, Cons(c, r)))
  /\ \A a, b, c, d \in S : <<a, b, c, d>> \o r = Cons(a, Cons(b, Cons(c, Cons(d, r))))
  /\ \A a, b, c, d, e \in S : FiveFirst(a, b, c, d, e, r)

LEMMA Unfold ==
  ASSUME NEW S, NEW r \in Seq(S)
  PROVE  Unfolds(S, r)
<1>1. <<>> \o r = r
  BY ConcatEmptySeq
<1>2. \A a \in S : <<a>> \o r = Cons(a, r)
  BY DEF Cons
<1>3. ASSUME NEW a \in S, NEW b \in S
      PROVE  <<a, b>> \o r =
               Cons(a, Cons(b, r))
  <2>. DEFINE t == <<a, b>>
              s == <<b>>
  <2>1. s \in Seq(S) /\ t \in Seq(S)
    OBVIOUS
  <2>2. Fronts(a, s, t)
    BY DEF Fronts
  <2>3. s \o r = Cons(b, r)
    BY ONLY <1>2, r \in Seq(S), b \in S
  <2>4. t \o r = Cons(a, s \o r)
    <3>. HIDE DEF t, s
    <3>. QED  BY ONLY <2>1, <2>2, a \in S, r \in Seq(S), ConcatFront
  <2>5. t \o r = Cons(a, Cons(b, r))
    <3>. HIDE DEF t, s
    <3>. QED  BY ONLY <2>3, <2>4
  <2>. QED  BY ONLY <2>5
<1>4. ASSUME NEW a \in S, NEW b \in S, NEW c \in S
      PROVE  <<a, b, c>> \o r =
               Cons(a, Cons(b, Cons(c, r)))
  <2>. DEFINE t == <<a, b, c>>
              s == <<b, c>>
  <2>1. s \in Seq(S) /\ t \in Seq(S)
    OBVIOUS
  <2>2. Fronts(a, s, t)
    BY DEF Fronts
  <2>3. s \o r = Cons(b, Cons(c, r))
    BY ONLY <1>3, r \in Seq(S), b \in S, c \in S
  <2>4. t \o r = Cons(a, s \o r)
    <3>. HIDE DEF t, s
    <3>. QED  BY ONLY <2>1, <2>2, a \in S, r \in Seq(S), ConcatFront
  <2>5. t \o r = Cons(a, Cons(b, Cons(c, r)))
    <3>. HIDE DEF t, s
    <3>. QED  BY ONLY <2>3, <2>4
  <2>. QED  BY ONLY <2>5
<1>5. ASSUME NEW a \in S, NEW b \in S, NEW c \in S, NEW d \in S
      PROVE  <<a, b, c, d>> \o r =
               Cons(a, Cons(b, Cons(c, Cons(d, r))))
  <2>. DEFINE t == <<a, b, c, d>>
              s == <<b, c, d>>
  <2>1. s \in Seq(S) /\ t \in Seq(S)
    OBVIOUS
  <2>2. Fronts(a, s, t)
    BY DEF Fronts
  <2>3. s \o r = Cons(b, Cons(c, Cons(d, r)))
    BY ONLY <1>4, r \in Seq(S), b \in S, c \in S, d \in S
  <2>4. t \o r = Cons(a, s \o r)
    <3>. HIDE DEF t, s
    <3>. QED  BY ONLY <2>1, <2>2, a \in S, r \in Seq(S), ConcatFront
  <2>5. t \o r = Cons(a, Cons(b, Cons(c, Cons(d, r))))
    <3>. HIDE DEF t, s
    <3>. QED  BY ONLY <2>3, <2>4
  <2>. QED  BY ONLY <2>5
<1>6. ASSUME NEW a \in S, NEW b \in S, NEW c \in S, NEW d \in S, NEW e \in S
      PROVE  <<a, b, c, d, e>> \o r =
               Cons(a, Cons(b, Cons(c, Cons(d, Cons(e, r)))))
  <2>. DEFINE t == <<a, b, c, d, e>>
              s == <<b, c, d, e>>
  <2>1. s \in Seq(S) /\ t \in Seq(S)
    OBVIOUS
  <2>2. Fronts(a, s, t)
    BY DEF Fronts
  <2>3. s \o r = Cons(b, Cons(c, Cons(d, Cons(e, r))))
    BY ONLY <1>5, r \in Seq(S), b \in S, c \in S, d \in S, e \in S
  <2>4. t \o r = Cons(a, s \o r)
    <3>. HIDE DEF t, s
    <3>. QED  BY ONLY <2>1, <2>2, a \in S, r \in Seq(S), ConcatFront
  <2>5. t \o r = Cons(a, Cons(b, Cons(c, Cons(d, Cons(e, r)))))
    <3>. HIDE DEF t, s
    <3>. QED  BY ONLY <2>3, <2>4
  <2>. QED  BY ONLY <2>5
<1>. QED  BY <1>1, <1>2, <1>3, <1>4, <1>5, <1>6 DEF Unfolds, FiveFirst

-----------------------------------------------------------------------------
(***************************************************************************)
(* Counting the parts of a kind.                                           *)
(***************************************************************************)
Marked(S, c) == {i \in DOMAIN c : c[i] \in S}
HowMany(S, c) == Cardinality(Marked(S, c))

\* Tokens, parts of parse functions and symbols of the grammar.
Word ==
  {"newline", "end", "else", "then", "catch", "in", "=", "+=", "+", ")", "]", "comma", "/", "(",
   "[", "ident", "eof", "program", "nextStmt", "parseStmt", "parseBlock", "caseStart",
   "caseBody", "skipNewlines", "expectNewline", "parseExpr", "number", "string", "operators",
   "items", "moreItems", "exprWithLeft", "branches", "cases", "range", "params", "value",
   "importPath", "fromPath", "tryBody", "handlerBody", "from", "nameStmt", "recover", "calm",
   "element", "arguments", "elseStmt", "elseBlock", "bound", "to", "increment", "step",
   "defaults", "default", "dueDefault", "moreDefaults", "moreParams", "alias", "imports",
   "slash", "segment", "as", "aliasName", "import", "firstName", "moreNames", "name", "is",
   "moreValues", "extra", "expr", "path", "line", "statements", "guarded", "names", "action",
   "body", "one", "calls", "indices", "otherwise", "orOne", "segments", "astray", "let",
   "print", "break", "return", "if", "loop", "for", "function", "try", "when"}

LEMMA HowManyFacts ==
  ASSUME NEW S, NEW x \in Word, NEW c \in Seq(Word)
  PROVE  /\ HowMany(S, c) \in Nat
         /\ IsFiniteSet(Marked(S, c))
         /\ HowMany(S, Cons(x, c)) = HowMany(S, c) + (IF x \in S THEN 1 ELSE 0)
<1>. DEFINE d == Cons(x, c)
            A == Marked(S, c)
            B == Marked(S, d)
            C == {i \in 2..Len(c) + 1 : c[i - 1] \in S}
<1>1. Len(c) \in Nat /\ DOMAIN c = 1..Len(c)
  BY LenProperties
<1>2. Len(d) = Len(c) + 1 /\ DOMAIN d = 1..Len(c) + 1 /\ d[1] = x
        /\ \A i \in 1..Len(c) : d[i + 1] = c[i]
  <2>1. d \in Seq(Word) /\ Len(d) = Len(c) + 1 /\ d[1] = x
    BY ConsFacts
  <2>2. \A i \in 1..Len(c) : Cons(x, c)[i + 1] = c[i]
    BY ConsFacts
  <2>. HIDE DEF d
  <2>3. DOMAIN d = 1..Len(d)
    BY <2>1, LenProperties
  <2>. QED  BY <2>1, <2>2, <2>3 DEF d
<1>. HIDE DEF d
<1>3. A \subseteq 1..Len(c) /\ B \subseteq 1..Len(c) + 1
  BY <1>1, <1>2 DEF Marked
<1>4. IsFiniteSet(A) /\ IsFiniteSet(C)
  <2>1. IsFiniteSet(1..Len(c)) /\ IsFiniteSet(2..Len(c) + 1)
    BY <1>1, FS_Interval
  <2>2. C \subseteq 2..Len(c) + 1
    OBVIOUS
  <2>. QED  BY <1>3, <2>1, <2>2, FS_Subset
<1>5. Cardinality(C) = Cardinality(A)
  <2>. DEFINE g == [i \in A |-> i + 1]
  <2>1. g \in [A -> C]
    BY <1>1, <1>3 DEF Marked
  <2>2. \A i, j \in A : g[i] = g[j] => i = j
    BY <1>1, <1>3
  <2>3. \A k \in C : \E i \in A : g[i] = k
    <3>1. SUFFICES ASSUME NEW k \in C PROVE k - 1 \in A /\ (k - 1) + 1 = k
      OBVIOUS
    <3>. QED  BY <3>1, <1>1 DEF Marked
  <2>4. g \in Bijection(A, C)
    <3>. HIDE DEF g, A, C
    <3>. QED  BY <2>1, <2>2, <2>3 DEF Bijection, Injection, Surjection, IsInjective
  <2>. HIDE DEF g, A, C
  <2>. QED  BY <1>4, <2>4, FS_Bijection DEF ExistsBijection
<1>6. ASSUME NEW i PROVE i \in B <=> i \in C \/ (i = 1 /\ x \in S)
  <2>1. i \in B <=> i \in 1..Len(c) + 1 /\ d[i] \in S
    BY <1>2 DEF Marked
  <2>2. CASE i = 1
    BY <2>1, <2>2, <1>1, <1>2
  <2>3. CASE i \in 2..Len(c) + 1
    <3>1. i - 1 \in 1..Len(c) /\ (i - 1) + 1 = i /\ i \in 1..Len(c) + 1 /\ i # 1
      BY <2>3, <1>1
    <3>2. d[i] = c[i - 1]
      BY <3>1, <1>2
    <3>. QED  BY <2>1, <2>3, <3>1, <3>2
  <2>4. CASE i # 1 /\ i \notin 2..Len(c) + 1
    <3>1. i \notin 1..Len(c) + 1
      BY <2>4, <1>1
    <3>. QED  BY <2>1, <2>4, <3>1
  <2>. QED  BY <2>2, <2>3, <2>4
<1>7. 1 \notin C
  OBVIOUS
<1>. HIDE DEF A, B, C
<1>8. Cardinality(B) = Cardinality(A) + (IF x \in S THEN 1 ELSE 0)
  <2>1. Cardinality(A) \in Nat
    BY <1>4, FS_CardinalityType
  <2>2. CASE x \in S
    <3>1. B = C \cup {1}
      BY <2>2, <1>6
    <3>2. Cardinality(C \cup {1}) = Cardinality(C) + 1
      BY <1>4, <1>7, FS_AddElement
    <3>. QED  BY <2>2, <3>1, <3>2, <1>5
  <2>3. CASE x \notin S
    <3>1. B = C
      BY <2>3, <1>6
    <3>. QED  BY <2>1, <2>3, <3>1, <1>5
  <2>. QED  BY <2>2, <2>3
<1>9. Cardinality(A) \in Nat
  BY <1>4, FS_CardinalityType
<1>. QED  BY <1>4, <1>8, <1>9 DEF A, B, d, HowMany

LEMMA NoneMarked ==
  ASSUME NEW S
  PROVE  HowMany(S, <<>>) = 0
<1>1. Marked(S, <<>>) = {}
  BY DEF Marked
<1>. QED  BY ONLY <1>1, FS_EmptySet DEF HowMany

-----------------------------------------------------------------------------
(***************************************************************************)
(* The parts of parse functions that are in progress.  What is inside a    *)
(* part of an if or a for that may yet open its block is an expression, or *)
(* the name before a range.                                                *)
(***************************************************************************)
Closing == {"end", ")", "]"}
Branching == {"branches", "range", "bound", "increment"}
Inside == {"parseExpr", "operators", "items", "moreItems", ")", "]", "ident"}

\* Parts that are done with as soon as they are on top.
Fleeting == {"parseStmt", "moreParams", "recover", "calm", "aliasName"}

\* Part y may come next after part x.
Follows(x, y) ==
  /\ y \notin Fleeting
  /\ x = "nextStmt" => y = "program"
  /\ x = "parseBlock" => y \in {"elseBlock", "end"}
  /\ x \in {"elseBlock", "elseStmt", "handlerBody", "cases", "caseStart"} => y = "end"
  /\ x = "tryBody" => y = "catch"
  /\ x = "caseBody" => y \in {"cases", "end"}
  /\ x = "skipNewlines" => y \in {"tryBody", "handlerBody"}
  /\ x \in {"items", "moreItems"} => y \in {")", "]"}
  /\ x \in {"params", "default", "dueDefault", "moreParams", "moreDefaults", "defaults"} => y = ")"

Orderly(c) ==
  /\ \A i \in 1..Len(c) : c[i] = "program" <=> i = Len(c)
  /\ \A i \in 1..Len(c) - 1 : Follows(c[i], c[i + 1])
  /\ \A i \in 1..Len(c) : c[i] \in Branching => \A j \in 1..i - 1 : c[j] \in Inside

Unbranched(c) == \A i \in 1..Len(c) : c[i] \notin Branching

\* Blocks and brackets that are open or may be opened without a token.
Weight(c) == HowMany(Closing \cup Branching, c)
Weigh(x) == IF x \in Closing \cup Branching THEN 1 ELSE 0

(***************************************************************************)
(* What the grammar has for each part.  A body of try or catch that has a  *)
(* statement already goes on like any other.                               *)
(***************************************************************************)
Owed(x) ==
  CASE x \in {"program", "parseBlock"} -> <<"statements">>
    [] x \in {"nextStmt", "skipNewlines", "recover", "calm", "aliasName"} -> <<>>
    [] x = "parseStmt" -> <<"one">>
    [] x \in {"expectNewline", "alias"} -> <<"line">>
    [] x = "parseExpr" -> <<"expr">>
    [] x = "moreParams" -> <<"default">>
    [] x = "dueDefault" -> <<"=", "expr", "moreDefaults">>
    [] x = "nameStmt" -> <<"action", "line">>
    [] x = "element" -> <<"element", "line">>
    [] x = "arguments" -> <<"calls", "line">>
    [] x = "exprWithLeft" -> <<"indices">>
    [] x = "elseStmt" -> <<"orOne">>
    [] x = "elseBlock" -> <<"otherwise">>
    [] x = "bound" -> <<"to", "expr", "increment">> \o Body
    [] x = "increment" -> <<"increment">> \o Body
    [] x = "importPath" -> <<"path", "line">>
    [] x = "fromPath" -> <<"path">> \o <<"import", "ident", "names", "line">>
    [] x = "imports" -> <<"import", "ident", "names", "line">>
    [] x = "firstName" -> <<"ident", "names", "line">>
    [] x = "moreNames" -> <<"names">>
    [] x = "slash" -> <<"segments">>
    [] x \in {"tryBody", "handlerBody"} -> <<"guarded">>
    [] x = "caseStart" -> <<"cases">>
    [] x = "caseBody" -> <<"body">>
    [] OTHER -> <<x>>

OwedAt(c, i) == IF i > 1 /\ c[i - 1] = "skipNewlines" THEN <<"statements">> ELSE Owed(c[i])

\* s is what the grammar has for all the parts of c: f[i] for those from the i-th on.
Spells(c, s) ==
  \E f \in [1..Len(c) + 1 -> Seq(Word)] :
     /\ f[1] = s
     /\ f[Len(c) + 1] = <<>>
     /\ \A i \in 1..Len(c) : f[i] = OwedAt(c, i) \o f[i + 1]

(***************************************************************************)
(* Parts c in good order, their symbols s, their weight, and whether none  *)
(* of them branches.                                                       *)
(***************************************************************************)
Owing(c, s, n, unbranched) ==
  /\ c \in Seq(Word) /\ s \in Seq(Word)
  /\ Orderly(c)
  /\ Spells(c, s)
  /\ Weight(c) = n
  /\ unbranched => Unbranched(c)

LEMMA Words ==
  /\ "newline" \in Word /\ "end" \in Word /\ "else" \in Word /\ "then" \in Word
  /\ "catch" \in Word /\ "in" \in Word /\ "=" \in Word /\ "+=" \in Word /\ "+" \in Word
  /\ ")" \in Word /\ "]" \in Word /\ "comma" \in Word /\ "/" \in Word /\ "(" \in Word
  /\ "[" \in Word /\ "ident" \in Word /\ "eof" \in Word /\ "program" \in Word
  /\ "nextStmt" \in Word /\ "parseStmt" \in Word /\ "parseBlock" \in Word
  /\ "caseStart" \in Word /\ "caseBody" \in Word /\ "skipNewlines" \in Word
  /\ "expectNewline" \in Word /\ "parseExpr" \in Word /\ "number" \in Word /\ "string" \in Word
  /\ "operators" \in Word /\ "items" \in Word /\ "moreItems" \in Word
  /\ "exprWithLeft" \in Word /\ "branches" \in Word /\ "cases" \in Word /\ "range" \in Word
  /\ "params" \in Word /\ "value" \in Word /\ "importPath" \in Word /\ "fromPath" \in Word
  /\ "tryBody" \in Word /\ "handlerBody" \in Word /\ "from" \in Word /\ "nameStmt" \in Word
  /\ "recover" \in Word /\ "calm" \in Word /\ "element" \in Word /\ "arguments" \in Word
  /\ "elseStmt" \in Word /\ "elseBlock" \in Word /\ "bound" \in Word /\ "to" \in Word
  /\ "increment" \in Word /\ "step" \in Word /\ "defaults" \in Word /\ "default" \in Word
  /\ "dueDefault" \in Word /\ "moreDefaults" \in Word /\ "moreParams" \in Word
  /\ "alias" \in Word /\ "imports" \in Word /\ "slash" \in Word /\ "segment" \in Word
  /\ "as" \in Word /\ "aliasName" \in Word /\ "import" \in Word /\ "firstName" \in Word
  /\ "moreNames" \in Word /\ "name" \in Word /\ "is" \in Word /\ "moreValues" \in Word
  /\ "extra" \in Word /\ "expr" \in Word /\ "path" \in Word /\ "line" \in Word
  /\ "statements" \in Word /\ "guarded" \in Word /\ "names" \in Word /\ "action" \in Word
  /\ "body" \in Word /\ "one" \in Word /\ "calls" \in Word /\ "indices" \in Word
  /\ "otherwise" \in Word /\ "orOne" \in Word /\ "segments" \in Word /\ "astray" \in Word
  /\ "let" \in Word /\ "print" \in Word /\ "break" \in Word /\ "return" \in Word
  /\ "if" \in Word /\ "loop" \in Word /\ "for" \in Word /\ "function" \in Word
  /\ "try" \in Word /\ "when" \in Word
  BY SMTT(20) DEF Word

LEMMA Tuples ==
  ASSUME NEW S
  PROVE  /\ <<>> \in Seq(S)
         /\ \A a \in S : <<a>> \in Seq(S)
         /\ \A a, b \in S : <<a, b>> \in Seq(S)
         /\ \A a, b, c \in S : <<a, b, c>> \in Seq(S)
         /\ \A a, b, c, d \in S : <<a, b, c, d>> \in Seq(S)
         /\ \A a, b, c, d, e \in S : <<a, b, c, d, e>> \in Seq(S)
  OBVIOUS

LEMMA OwedFacts ==
  ASSUME NEW x \in Word
  PROVE  Owed(x) \in Seq(Word)
<1>1. \A s, t \in Seq(Word) : s \o t \in Seq(Word)
  BY ConcatProperties
<1>2. /\ <<"to", "expr", "increment">> \o Body \in Seq(Word)
      /\ <<"increment">> \o Body \in Seq(Word)
      /\ <<"path">> \o <<"import", "ident", "names", "line">> \in Seq(Word)
  BY <1>1, Tuples, Words DEF Body
<1>. QED  BY <1>2, Tuples, Words DEF Owed

LEMMA OrderlyCons ==
  ASSUME NEW x \in Word, NEW c \in Seq(Word), c # <<>>, Orderly(c),
         x # "program", Follows(x, Head(c)), Unbranched(c) \/ x \in Inside
  PROVE  /\ Orderly(Cons(x, c))
         /\ Unbranched(c) /\ x \notin Branching => Unbranched(Cons(x, c))
<1>. DEFINE d == Cons(x, c)
<1>1. Len(c) \in Nat \ {0} /\ Head(c) = c[1]
  BY LenProperties, EmptySeq
<1>2. Len(d) = Len(c) + 1 /\ d[1] = x
  BY ConsFacts
<1>3. \A i \in 1..Len(c) : d[i + 1] = c[i]
  BY ConsFacts
<1>. HIDE DEF d
<1>4. ASSUME NEW i \in 2..Len(d) PROVE i - 1 \in 1..Len(c) /\ d[i] = c[i - 1]
  <2>1. i - 1 \in 1..Len(c) /\ (i - 1) + 1 = i
    BY <1>1, <1>2
  <2>. QED  BY <2>1, <1>3
<1>5. ASSUME NEW i \in 1..Len(d) PROVE d[i] = "program" <=> i = Len(d)
  <2>1. CASE i = 1
    BY <2>1, <1>1, <1>2
  <2>2. CASE i # 1
    <3>1. i \in 2..Len(d)
      BY <2>2, <1>1, <1>2
    <3>2. c[i - 1] = "program" <=> i - 1 = Len(c)
      BY <3>1, <1>4 DEF Orderly
    <3>. QED  BY <3>1, <3>2, <1>1, <1>2, <1>4
  <2>. QED  BY <2>1, <2>2
<1>6. ASSUME NEW i \in 1..Len(d) - 1 PROVE Follows(d[i], d[i + 1])
  <2>1. i + 1 \in 2..Len(d) /\ (i + 1) - 1 = i
    BY <1>1, <1>2
  <2>2. d[i + 1] = c[i] /\ i \in 1..Len(c)
    BY <2>1, <1>3, <1>4
  <2>3. CASE i = 1
    BY <2>2, <2>3, <1>1, <1>2
  <2>4. CASE i # 1
    <3>1. i \in 2..Len(d) /\ i - 1 \in 1..Len(c) - 1 /\ (i - 1) + 1 = i
      BY <2>4, <1>1, <1>2
    <3>2. d[i] = c[i - 1]
      BY <3>1, <1>4
    <3>3. Follows(c[i - 1], c[i])
      BY <3>1 DEF Orderly
    <3>. QED  BY <3>2, <3>3, <2>2
  <2>. QED  BY <2>3, <2>4
<1>7. ASSUME NEW i \in 1..Len(d), d[i] \in Branching, NEW j \in 1..i - 1 PROVE d[j] \in Inside
  <2>1. i \in 2..Len(d)
    BY <1>1, <1>2
  <2>2. c[i - 1] \in Branching /\ i - 1 \in 1..Len(c)
    BY <2>1, <1>4, <1>7
  <2>3. CASE j = 1
    <3>1. ~ Unbranched(c)
      BY <2>2 DEF Unbranched
    <3>. QED  BY <2>3, <3>1, <1>2
  <2>4. CASE j # 1
    <3>1. j \in 2..Len(d) /\ j - 1 \in 1..(i - 1) - 1
      BY <2>1, <2>4, <1>1, <1>2
    <3>2. c[j - 1] \in Inside
      BY <3>1, <2>2 DEF Orderly
    <3>. QED  BY <3>1, <3>2, <1>4
  <2>. QED  BY <2>3, <2>4
<1>8. ASSUME Unbranched(c), x \notin Branching, NEW i \in 1..Len(d) PROVE d[i] \notin Branching
  <2>1. CASE i = 1
    BY <2>1, <1>2, <1>8
  <2>2. CASE i # 1
    <3>1. i \in 2..Len(d)
      BY <2>2, <1>1, <1>2
    <3>. QED  BY <3>1, <1>4, <1>8 DEF Unbranched
  <2>. QED  BY <2>1, <2>2
<1>9. Orderly(d)
  BY <1>5, <1>6, <1>7 DEF Orderly
<1>10. Unbranched(c) /\ x \notin Branching => Unbranched(d)
  BY <1>8 DEF Unbranched
<1>. QED  BY <1>9, <1>10 DEF d

LEMMA OrderlyTail ==
  ASSUME NEW x \in Word, NEW c \in Seq(Word), Orderly(Cons(x, c))
  PROVE  /\ Orderly(c)
         /\ c = <<>> <=> x = "program"
         /\ c # <<>> => Follows(x, Head(c))
         /\ x \notin Inside \/ Unbranched(Cons(x, c)) => Unbranched(c)
<1>. DEFINE d == Cons(x, c)
<1>1. Len(c) \in Nat /\ (c = <<>> <=> Len(c) = 0) /\ (c # <<>> => Head(c) = c[1])
  BY LenProperties, EmptySeq
<1>2. Len(d) = Len(c) + 1 /\ d[1] = x
  BY ConsFacts
<1>3. \A i \in 1..Len(c) : d[i + 1] = c[i]
  BY ConsFacts
<1>4. Orderly(d)
  OBVIOUS
<1>. HIDE DEF d
<1>5. \A i \in 1..Len(c) : i + 1 \in 1..Len(d) /\ i + 1 # 1
  BY <1>1, <1>2
<1>6. ASSUME NEW i \in 1..Len(c) PROVE c[i] = "program" <=> i = Len(c)
  <2>1. d[i + 1] = "program" <=> i + 1 = Len(d)
    BY <1>4, <1>5 DEF Orderly
  <2>. QED  BY <2>1, <1>1, <1>2, <1>3
<1>7. ASSUME NEW i \in 1..Len(c) - 1 PROVE Follows(c[i], c[i + 1])
  <2>1. i + 1 \in 1..Len(d) - 1 /\ i \in 1..Len(c) /\ i + 1 \in 1..Len(c)
    BY <1>1, <1>2
  <2>2. Follows(d[i + 1], d[(i + 1) + 1])
    BY <2>1, <1>4 DEF Orderly
  <2>. QED  BY <2>1, <2>2, <1>3
<1>8. ASSUME NEW i \in 1..Len(c), c[i] \in Branching PROVE \A j \in 1..(i + 1) - 1 : d[j] \in Inside
  <2>1. d[i + 1] \in Branching
    BY <1>3, <1>8
  <2>. QED  BY <2>1, <1>4, <1>5 DEF Orderly
<1>9. ASSUME NEW i \in 1..Len(c), c[i] \in Branching, NEW j \in 1..i - 1 PROVE c[j] \in Inside
  <2>1. j + 1 \in 1..(i + 1) - 1 /\ j \in 1..Len(c)
    BY <1>1
  <2>. QED  BY <2>1, <1>3, <1>8, <1>9
<1>10. c = <<>> <=> x = "program"
  <2>1. 1 \in 1..Len(d)
    BY <1>1, <1>2
  <2>2. x = "program" <=> 1 = Len(d)
    BY <2>1, <1>2, <1>4 DEF Orderly
  <2>. QED  BY <2>2, <1>1, <1>2
<1>11. ASSUME c # <<>> PROVE Follows(x, Head(c))
  <2>1. 1 \in 1..Len(d) - 1 /\ 1 \in 1..Len(c)
    BY <1>1, <1>2, <1>11
  <2>2. Follows(d[1], d[1 + 1])
    BY <2>1, <1>4 DEF Orderly
  <2>. QED  BY <2>1, <2>2, <1>1, <1>2, <1>3, <1>11
<1>12. ASSUME x \notin Inside PROVE Unbranched(c)
  <2>. SUFFICES ASSUME NEW i \in 1..Len(c), c[i] \in Branching PROVE FALSE
    BY DEF Unbranched
  <2>1. 1 \in 1..(i + 1) - 1
    BY <1>1
  <2>. QED  BY <2>1, <1>2, <1>8, <1>12
<1>13. ASSUME Unbranched(d) PROVE Unbranched(c)
  BY <1>3, <1>5, <1>13 DEF Unbranched
<1>14. Orderly(c)
  BY <1>6, <1>7, <1>9 DEF Orderly
<1>. QED  BY <1>10, <1>11, <1>12, <1>13, <1>14 DEF d

LEMMA SpellsCons ==
  ASSUME NEW x \in Word, NEW c \in Seq(Word), NEW s \in Seq(Word), Spells(c, s),
         x # "skipNewlines"
  PROVE  Spells(Cons(x, c), Owed(x) \o s)
<1>. DEFINE d == Cons(x, c)
<1>1. PICK f \in [1..Len(c) + 1 -> Seq(Word)] :
        /\ f[1] = s /\ f[Len(c) + 1] = <<>>
        /\ \A i \in 1..Len(c) : f[i] = OwedAt(c, i) \o f[i + 1]
  BY DEF Spells
<1>2. Len(c) \in Nat
  BY LenProperties
<1>3. Len(d) = Len(c) + 1 /\ d[1] = x
  BY ConsFacts
<1>4. \A i \in 1..Len(c) : d[i + 1] = c[i]
  BY ConsFacts
<1>5. Owed(x) \in Seq(Word) /\ Owed(x) \o s \in Seq(Word)
  BY OwedFacts, ConcatProperties
<1>. HIDE DEF d
<1>. DEFINE g == [i \in 1..Len(d) + 1 |-> IF i = 1 THEN Owed(x) \o s ELSE f[i - 1]]
<1>6. \A i \in 2..Len(d) + 1 : i - 1 \in 1..Len(c) + 1
  BY <1>2, <1>3
<1>7. g \in [1..Len(d) + 1 -> Seq(Word)]
  BY <1>1, <1>5, <1>6, <1>2, <1>3
<1>8. g[1] = Owed(x) \o s /\ \A i \in 2..Len(d) + 1 : g[i] = f[i - 1]
  BY <1>2, <1>3
<1>. HIDE DEF g
<1>9. g[Len(d) + 1] = <<>>
  BY <1>1, <1>2, <1>3, <1>8
<1>10. ASSUME NEW i \in 1..Len(d) PROVE g[i] = OwedAt(d, i) \o g[i + 1]
  <2>1. CASE i = 1
    <3>1. OwedAt(d, 1) = Owed(x)
      BY <1>3 DEF OwedAt
    <3>2. g[1 + 1] = s
      BY <1>1, <1>2, <1>3, <1>8
    <3>. QED  BY <2>1, <3>1, <3>2, <1>8
  <2>2. CASE i # 1
    <3>1. i - 1 \in 1..Len(c) /\ (i - 1) + 1 = i /\ (i + 1) - 1 = i
          /\ i \in 2..Len(d) + 1 /\ i + 1 \in 2..Len(d) + 1
      BY <2>2, <1>2, <1>3
    <3>2. g[i] = f[i - 1] /\ g[i + 1] = f[i] /\ d[i] = c[i - 1]
      BY <3>1, <1>4, <1>8
    <3>3. f[i - 1] = OwedAt(c, i - 1) \o f[i]
      BY <3>1, <1>1
    <3>4. OwedAt(c, i - 1) = OwedAt(d, i)
      <4>1. CASE i = 2
        BY <4>1, <3>1, <3>2, <1>3 DEF OwedAt
      <4>2. CASE i # 2
        <5>1. i - 2 \in 1..Len(c) /\ (i - 2) + 1 = i - 1 /\ (i - 1) - 1 = i - 2 /\ i - 1 > 1
                /\ i > 1
          BY <4>2, <3>1, <2>2, <1>2
        <5>2. d[i - 1] = c[i - 2]
          BY <5>1, <1>4
        <5>. QED  BY <5>1, <5>2, <3>2 DEF OwedAt
      <4>. QED  BY <4>1, <4>2
    <3>. QED  BY <3>2, <3>3, <3>4
  <2>. QED  BY <2>1, <2>2
<1>11. Spells(d, Owed(x) \o s)
  BY <1>7, <1>8, <1>9, <1>10 DEF Spells
<1>. QED  BY <1>11 DEF d

LEMMA SpellsTail ==
  ASSUME NEW x \in Word, NEW c \in Seq(Word), NEW s \in Seq(Word), Spells(Cons(x, c), s),
         x # "skipNewlines"
  PROVE  \E r \in Seq(Word) : s = Owed(x) \o r /\ Spells(c, r)
<1>. DEFINE d == Cons(x, c)
<1>1. PICK f \in [1..Len(d) + 1 -> Seq(Word)] :
        /\ f[1] = s /\ f[Len(d) + 1] = <<>>
        /\ \A i \in 1..Len(d) : f[i] = OwedAt(d, i) \o f[i + 1]
  BY DEF Spells
<1>2. Len(c) \in Nat
  BY LenProperties
<1>3. Len(d) = Len(c) + 1 /\ d[1] = x
  BY ConsFacts
<1>4. \A i \in 1..Len(c) : d[i + 1] = c[i]
  BY ConsFacts
<1>. HIDE DEF d
<1>. DEFINE g == [i \in 1..Len(c) + 1 |-> f[i + 1]]
<1>5. \A i \in 1..Len(c) + 1 : i + 1 \in 1..Len(d) + 1
  BY <1>2, <1>3
<1>6. g \in [1..Len(c) + 1 -> Seq(Word)]
  BY <1>1, <1>5
<1>7. \A i \in 1..Len(c) + 1 : g[i] = f[i + 1]
  OBVIOUS
<1>. HIDE DEF g
<1>8. g[Len(c) + 1] = <<>>
  BY <1>1, <1>2, <1>3, <1>7
<1>9. s = Owed(x) \o g[1]
  <2>1. 1 \in 1..Len(d) /\ 1 \in 1..Len(c) + 1
    BY <1>2, <1>3
  <2>2. OwedAt(d, 1) = Owed(x)
    BY <1>3 DEF OwedAt
  <2>3. f[1] = OwedAt(d, 1) \o f[1 + 1]
    BY <1>1, <2>1
  <2>. QED  BY <1>1, <1>7, <2>1, <2>2, <2>3
<1>10. ASSUME NEW i \in 1..Len(c) PROVE g[i] = OwedAt(c, i) \o g[i + 1]
  <2>1. i + 1 \in 1..Len(d) /\ i \in 1..Len(c) + 1 /\ i + 1 \in 1..Len(c) + 1
    BY <1>2, <1>3
  <2>2. f[i + 1] = OwedAt(d, i + 1) \o f[(i + 1) + 1]
    BY <1>1, <2>1
  <2>3. OwedAt(d, i + 1) = OwedAt(c, i)
    <3>1. d[i + 1] = c[i] /\ i + 1 > 1 /\ (i + 1) - 1 = i
      BY <1>2, <1>4
    <3>2. CASE i = 1
      BY <3>1, <3>2, <1>3 DEF OwedAt
    <3>3. CASE i # 1
      <4>1. i - 1 \in 1..Len(c) /\ (i - 1) + 1 = i /\ i > 1
        BY <3>3, <1>2
      <4>2. d[i] = c[i - 1]
        BY <4>1, <1>4
      <4>. QED  BY <3>1, <4>1, <4>2 DEF OwedAt
    <3>. QED  BY <3>2, <3>3
  <2>. QED  BY <2>1, <2>2, <2>3, <1>7
<1>11. g[1] \in Seq(Word)
  <2>1. 1 \in 1..Len(c) + 1
    BY <1>2
  <2>. QED  BY <1>6, <2>1
<1>12. Spells(c, g[1])
  BY <1>6, <1>8, <1>10 DEF Spells
<1>. QED  BY <1>9, <1>11, <1>12

\* The body of try or catch whose first statement is behind.
LEMMA SpellsBody ==
  ASSUME NEW b \in {"tryBody", "handlerBody"}, NEW c \in Seq(Word), NEW s \in Seq(Word)
  PROVE  Spells(Cons("skipNewlines", Cons(b, c)), s)
           <=> \E r \in Seq(Word) : s = Cons("statements", r) /\ Spells(c, r)
<1>. DEFINE k == Cons(b, c)
            d == Cons("skipNewlines", k)
<1>1. b \in Word /\ "skipNewlines" \in Word /\ b # "skipNewlines"
  BY Words
<1>2. Len(c) \in Nat
  BY LenProperties
<1>3. k \in Seq(Word) /\ Len(k) = Len(c) + 1 /\ k[1] = b
  BY <1>1, ConsFacts
<1>4. \A i \in 1..Len(c) : k[i + 1] = c[i]
  BY <1>1, ConsFacts
<1>. HIDE DEF k
<1>5. Len(d) = Len(k) + 1 /\ d[1] = "skipNewlines"
  BY <1>1, <1>3, ConsFacts
<1>6. \A i \in 1..Len(k) : d[i + 1] = k[i]
  <2>1. ASSUME NEW x \in Word, NEW e \in Seq(Word)
        PROVE  \A i \in 1..Len(e) : Cons(x, e)[i + 1] = e[i]
    BY ConsFacts
  <2>. QED  BY <2>1, <1>1, <1>3
<1>. HIDE DEF d
<1>7. OwedAt(d, 1) = <<>> /\ OwedAt(d, 2) = <<"statements">>
  <2>1. Owed("skipNewlines") = <<>>
    BY DEF Owed
  <2>. QED  BY <2>1, <1>5 DEF OwedAt
<1>8. ASSUME NEW i \in 1..Len(c) PROVE OwedAt(d, i + 2) = OwedAt(c, i)
  <2>1. i + 1 \in 1..Len(k) /\ (i + 1) + 1 = i + 2 /\ i + 2 > 1 /\ (i + 2) - 1 = i + 1
          /\ i \in 1..Len(k)
    BY <1>2, <1>3
  <2>2. d[i + 2] = c[i] /\ d[i + 1] = k[i]
    BY <2>1, <1>4, <1>6
  <2>3. CASE i = 1
    BY <2>1, <2>2, <2>3, <1>1, <1>3 DEF OwedAt
  <2>4. CASE i # 1
    <3>1. i - 1 \in 1..Len(c) /\ (i - 1) + 1 = i /\ i > 1
      BY <2>4, <1>2
    <3>2. k[i] = c[i - 1]
      BY <3>1, <1>4
    <3>. QED  BY <2>1, <2>2, <3>1, <3>2 DEF OwedAt
  <2>. QED  BY <2>3, <2>4
<1>9. ASSUME NEW r \in Seq(Word), s = Cons("statements", r), Spells(c, r) PROVE Spells(d, s)
  <2>1. PICK f \in [1..Len(c) + 1 -> Seq(Word)] :
          /\ f[1] = r /\ f[Len(c) + 1] = <<>>
          /\ \A i \in 1..Len(c) : f[i] = OwedAt(c, i) \o f[i + 1]
    BY <1>9 DEF Spells
  <2>. DEFINE g == [i \in 1..Len(d) + 1 |-> IF i <= 2 THEN s ELSE f[i - 2]]
  <2>2. \A i \in 3..Len(d) + 1 : i - 2 \in 1..Len(c) + 1 /\ i \in 1..Len(d) + 1
    BY <1>2, <1>3, <1>5
  <2>3. \A i \in 1..Len(d) + 1 : i <= 2 \/ i \in 3..Len(d) + 1
    BY <1>2, <1>3, <1>5
  <2>4. g \in [1..Len(d) + 1 -> Seq(Word)]
    BY <2>1, <2>2, <2>3
  <2>5. g[1] = s /\ g[2] = s /\ \A i \in 3..Len(d) + 1 : g[i] = f[i - 2]
    BY <2>2, <1>2, <1>3, <1>5
  <2>. HIDE DEF g
  <2>6. g[Len(d) + 1] = <<>>
    BY <2>1, <2>5, <1>2, <1>3, <1>5
  <2>7. ASSUME NEW i \in 1..Len(d) PROVE g[i] = OwedAt(d, i) \o g[i + 1]
    <3>1. CASE i = 1
      <4>1. <<>> \o s = s
        BY ConcatEmptySeq
      <4>. QED  BY <3>1, <4>1, <2>5, <1>7
    <3>2. CASE i = 2
      <4>1. <<"statements">> \o r = s
        BY <1>9 DEF Cons
      <4>2. g[2 + 1] = r
        <5>1. 2 + 1 \in 3..Len(d) + 1 /\ (2 + 1) - 2 = 1
          BY <1>2, <1>3, <1>5
        <5>. QED  BY <5>1, <2>1, <2>5
      <4>. QED  BY <3>2, <4>1, <4>2, <2>5, <1>7
    <3>3. CASE i \notin {1, 2}
      <4>1. i - 2 \in 1..Len(c) /\ (i - 2) + 2 = i /\ i \in 3..Len(d) + 1 /\ i + 1 \in 3..Len(d) + 1
            /\ (i + 1) - 2 = (i - 2) + 1
        BY <3>3, <1>2, <1>3, <1>5
      <4>2. f[i - 2] = OwedAt(c, i - 2) \o f[(i - 2) + 1]
        BY <4>1, <2>1
      <4>3. OwedAt(c, i - 2) = OwedAt(d, i)
        BY <4>1, <1>8
      <4>4. g[i] = f[i - 2] /\ g[i + 1] = f[(i + 1) - 2]
        BY <4>1, <2>5
      <4>. QED  BY <4>1, <4>2, <4>3, <4>4
    <3>. QED  BY <3>1, <3>2, <3>3
  <2>. QED  BY <2>4, <2>5, <2>6, <2>7 DEF Spells
<1>10. ASSUME Spells(d, s) PROVE \E r \in Seq(Word) : s = Cons("statements", r) /\ Spells(c, r)
  <2>1. PICK f \in [1..Len(d) + 1 -> Seq(Word)] :
          /\ f[1] = s /\ f[Len(d) + 1] = <<>>
          /\ \A i \in 1..Len(d) : f[i] = OwedAt(d, i) \o f[i + 1]
    BY <1>10 DEF Spells
  <2>. DEFINE g == [i \in 1..Len(c) + 1 |-> f[i + 2]]
  <2>2. \A i \in 1..Len(c) + 1 : i + 2 \in 1..Len(d) + 1
    BY <1>2, <1>3, <1>5
  <2>3. g \in [1..Len(c) + 1 -> Seq(Word)]
    BY <2>1, <2>2
  <2>4. \A i \in 1..Len(c) + 1 : g[i] = f[i + 2]
    OBVIOUS
  <2>. HIDE DEF g
  <2>5. g[Len(c) + 1] = <<>>
    BY <2>1, <2>4, <1>2, <1>3, <1>5
  <2>6. 1 \in 1..Len(d) /\ 2 \in 1..Len(d) /\ 1 \in 1..Len(c) + 1
    BY <1>2, <1>3, <1>5
  <2>7. g[1] \in Seq(Word) /\ f[1 + 1] \in Seq(Word) /\ g[1] = f[2 + 1]
    <3>1. 1 + 1 \in 1..Len(d) + 1 /\ 1 + 2 = 2 + 1
      BY <1>2, <1>3, <1>5
    <3>. QED  BY <3>1, <2>1, <2>3, <2>4, <2>6
  <2>8. s = <<>> \o f[1 + 1] /\ f[2] = <<"statements">> \o f[2 + 1]
    BY <2>1, <2>6, <1>7
  <2>9. s = Cons("statements", g[1])
    <3>1. s = f[1 + 1]
      BY <2>7, <2>8, ConcatEmptySeq
    <3>. QED  BY <3>1, <2>7, <2>8 DEF Cons
  <2>10. ASSUME NEW i \in 1..Len(c) PROVE g[i] = OwedAt(c, i) \o g[i + 1]
    <3>1. i + 2 \in 1..Len(d) /\ i \in 1..Len(c) + 1 /\ i + 1 \in 1..Len(c) + 1
          /\ (i + 2) + 1 = (i + 1) + 2
      BY <1>2, <1>3, <1>5
    <3>2. f[i + 2] = OwedAt(d, i + 2) \o f[(i + 2) + 1]
      BY <2>1, <3>1
    <3>3. OwedAt(d, i + 2) = OwedAt(c, i)
      BY <1>8
    <3>. QED  BY <3>1, <3>2, <3>3, <2>4
  <2>11. Spells(c, g[1])
    BY <2>3, <2>5, <2>10 DEF Spells
  <2>. QED  BY <2>7, <2>9, <2>11
<1>11. Spells(d, s) <=> \E r \in Seq(Word) : s = Cons("statements", r) /\ Spells(c, r)
  BY <1>9, <1>10
<1>. QED  BY <1>11 DEF d, k

-----------------------------------------------------------------------------
(***************************************************************************)
(* One part more, and one part less.                                       *)
(***************************************************************************)
Top(c, x) == c # <<>> /\ Head(c) = x

LEMMA Weights ==
  ASSUME NEW x \in Word, NEW c \in Seq(Word)
  PROVE  Weight(c) \in Nat /\ Weight(Cons(x, c)) = Weight(c) + Weigh(x)
<1>. DEFINE S == Closing \cup Branching
<1>1. HowMany(S, c) \in Nat /\ HowMany(S, Cons(x, c)) = HowMany(S, c) + (IF x \in S THEN 1 ELSE 0)
  <2>. HIDE DEF S
  <2>. QED  BY HowManyFacts
<1>. QED  BY <1>1 DEF Weight, Weigh

LEMMA Push ==
  ASSUME NEW x \in Word, NEW y, NEW c, NEW s, NEW n, NEW u \in BOOLEAN,
         Owing(c, s, n, u), Top(c, y), Follows(x, y),
         x \notin {"program", "skipNewlines"}, u \/ x \in Inside
  PROVE  /\ Owing(Cons(x, c), Owed(x) \o s, n + Weigh(x), u /\ x \notin Branching)
         /\ Top(Cons(x, c), x)
<1>1. c \in Seq(Word) /\ s \in Seq(Word) /\ Orderly(c) /\ Spells(c, s) /\ Weight(c) = n
      /\ (u => Unbranched(c)) /\ c # <<>> /\ Head(c) = y
  BY DEF Owing, Top
<1>2. Cons(x, c) \in Seq(Word) /\ Cons(x, c) # <<>> /\ Head(Cons(x, c)) = x
  BY <1>1, ConsFacts
<1>3. Owed(x) \o s \in Seq(Word)
  BY <1>1, OwedFacts, ConcatProperties
<1>4. Orderly(Cons(x, c)) /\ (Unbranched(c) /\ x \notin Branching => Unbranched(Cons(x, c)))
  BY <1>1, OrderlyCons
<1>5. Spells(Cons(x, c), Owed(x) \o s)
  BY <1>1, SpellsCons
<1>6. Weight(Cons(x, c)) = n + Weigh(x)
  BY <1>1, Weights
<1>. QED  BY <1>1, <1>2, <1>3, <1>4, <1>5, <1>6 DEF Owing, Top

LEMMA PushBody ==
  ASSUME NEW b \in {"tryBody", "handlerBody"}, NEW c, NEW s, NEW n, NEW r,
         Owing(Cons(b, c), s, n, TRUE), c \in Seq(Word), r \in Seq(Word), Spells(c, r)
  PROVE  /\ Owing(Cons("skipNewlines", Cons(b, c)), Cons("statements", r), n, TRUE)
         /\ Top(Cons("skipNewlines", Cons(b, c)), "skipNewlines")
<1>. DEFINE d == Cons(b, c)
            k == "skipNewlines"
<1>1. b \in Word /\ k \in Word /\ "statements" \in Word
  BY Words
<1>2. d \in Seq(Word) /\ d # <<>> /\ Head(d) = b
  BY <1>1, ConsFacts
<1>3. Follows(k, b) /\ k \notin Branching /\ Weigh(k) = 0 /\ k # "program"
  <2>1. k \notin Branching /\ Weigh(k) = 0 /\ k # "program"
    BY DEF Branching, Closing, Weigh
  <2>2. b \notin Fleeting
    BY DEF Fleeting
  <2>3. Follows(k, b)
    BY <2>2 DEF Follows
  <2>. QED  BY <2>1, <2>3
<1>4. Spells(Cons(k, d), Cons("statements", r))
  <2>1. Cons("statements", r) \in Seq(Word)
    BY <1>1, ConsFacts
  <2>. QED  BY <2>1, SpellsBody
<1>5. Orderly(d) /\ Unbranched(d) /\ Weight(d) = n
  BY DEF Owing
<1>6. n \in Nat
  BY <1>1, <1>2, <1>5, Weights
<1>. HIDE DEF d, k
<1>7. Cons(k, d) \in Seq(Word) /\ Cons(k, d) # <<>> /\ Head(Cons(k, d)) = k
  BY <1>1, <1>2, ConsFacts
<1>8. Orderly(Cons(k, d)) /\ Unbranched(Cons(k, d))
  BY <1>1, <1>2, <1>3, <1>5, OrderlyCons
<1>9. Weight(Cons(k, d)) = n
  <2>1. Weight(Cons(k, d)) = Weight(d) + Weigh(k)
    BY <1>1, <1>2, Weights
  <2>. QED  BY <2>1, <1>3, <1>5, <1>6
<1>10. Cons("statements", r) \in Seq(Word)
  BY <1>1, ConsFacts
<1>11. Owing(Cons(k, d), Cons("statements", r), n, TRUE) /\ Top(Cons(k, d), k)
  BY <1>4, <1>7, <1>8, <1>9, <1>10 DEF Owing, Top
<1>. QED  BY <1>11 DEF k, d

LEMMA Pop ==
  ASSUME NEW h, NEW c, NEW s, NEW n, NEW u \in BOOLEAN, Owing(c, s, n, u), Top(c, h),
         h # "skipNewlines"
  PROVE  /\ h \in Word /\ c = Cons(h, Tail(c))
         /\ (h = "program" <=> Tail(c) = <<>>)
         /\ h # "program" => \E y \in Word : Top(Tail(c), y) /\ Follows(h, y)
         /\ \E r \in Seq(Word), m \in Nat :
              /\ s = Owed(h) \o r
              /\ n = m + Weigh(h)
              /\ Owing(Tail(c), r, m, u \/ h \notin Inside)
<1>. DEFINE e == Tail(c)
<1>1. c \in Seq(Word) /\ s \in Seq(Word) /\ Orderly(c) /\ Spells(c, s) /\ Weight(c) = n
      /\ (u => Unbranched(c)) /\ c # <<>> /\ Head(c) = h
  BY DEF Owing, Top
<1>2. h \in Word /\ e \in Seq(Word) /\ c = Cons(h, e)
  BY <1>1, HeadAndTail
<1>. HIDE DEF e
<1>3. /\ Orderly(e) /\ (e = <<>> <=> h = "program") /\ (e # <<>> => Follows(h, Head(e)))
      /\ (h \notin Inside \/ Unbranched(Cons(h, e)) => Unbranched(e))
  BY <1>1, <1>2, OrderlyTail
<1>4. PICK r \in Seq(Word) : s = Owed(h) \o r /\ Spells(e, r)
  BY <1>1, <1>2, SpellsTail
<1>5. Weight(e) \in Nat /\ n = Weight(e) + Weigh(h)
  BY <1>1, <1>2, Weights
<1>6. Owing(e, r, Weight(e), u \/ h \notin Inside)
  BY <1>1, <1>2, <1>3, <1>4 DEF Owing
<1>7. ASSUME h # "program" PROVE \E y \in Word : Top(e, y) /\ Follows(h, y)
  <2>1. Head(e) \in Word /\ Top(e, Head(e)) /\ Follows(h, Head(e))
    BY <1>2, <1>3, <1>7, HeadAndTail DEF Top
  <2>. QED  BY <2>1
<1>. QED  BY <1>2, <1>3, <1>4, <1>5, <1>6, <1>7 DEF e

LEMMA PopBody ==
  ASSUME NEW c, NEW s, NEW n, NEW u \in BOOLEAN, Owing(c, s, n, u), Top(c, "skipNewlines")
  PROVE  /\ c = Cons("skipNewlines", Tail(c))
         /\ \E b \in {"tryBody", "handlerBody"} : Top(Tail(c), b)
         /\ \E r \in Seq(Word), v \in BOOLEAN :
              /\ v /\ s = Cons("statements", r)
              /\ Owing(Tail(c), Cons("guarded", r), n, v)
<1>. DEFINE k == "skipNewlines"
            e == Tail(c)
            g == Tail(e)
<1>1. c \in Seq(Word) /\ s \in Seq(Word) /\ Orderly(c) /\ Spells(c, s) /\ Weight(c) = n
      /\ c # <<>> /\ Head(c) = k
  BY DEF Owing, Top
<1>2. k \in Word /\ e \in Seq(Word) /\ c = Cons(k, e)
  BY <1>1, HeadAndTail, Words
<1>3. k \notin Inside /\ Weigh(k) = 0 /\ k # "program"
  BY DEF Inside, Closing, Branching, Weigh
<1>. HIDE DEF e
<1>4. Orderly(e) /\ Unbranched(e) /\ e # <<>> /\ Follows(k, Head(e))
  <2>. HIDE DEF k
  <2>. QED  BY <1>1, <1>2, <1>3, OrderlyTail
<1>5. Head(e) \in {"tryBody", "handlerBody"}
  BY <1>4 DEF Follows
<1>6. e = Cons(Head(e), g) /\ g \in Seq(Word)
  BY <1>2, <1>4, HeadAndTail
<1>. HIDE DEF g
<1>7. PICK r \in Seq(Word) : s = Cons("statements", r) /\ Spells(g, r)
  <2>1. Spells(Cons("skipNewlines", Cons(Head(e), g)), s)
    BY <1>1, <1>2, <1>6
  <2>. QED  BY <2>1, <1>1, <1>5, <1>6, SpellsBody
<1>8. Spells(e, Cons("guarded", r)) /\ Cons("guarded", r) \in Seq(Word)
  <2>1. Head(e) \in Word /\ Head(e) # "skipNewlines" /\ Owed(Head(e)) = <<"guarded">>
    BY <1>5, Words DEF Owed
  <2>2. Spells(Cons(Head(e), g), Owed(Head(e)) \o r)
    BY <2>1, <1>6, <1>7, SpellsCons
  <2>3. Cons("guarded", r) \in Seq(Word)
    BY <1>7, ConsFacts, Words
  <2>. QED  BY <2>1, <2>2, <2>3, <1>6 DEF Cons
<1>9. Weight(e) = n
  <2>1. Weight(e) \in Nat /\ Weight(Cons(k, e)) = Weight(e) + Weigh(k)
    <3>. HIDE DEF k
    <3>. QED  BY <1>2, Weights
  <2>. QED  BY <2>1, <1>1, <1>2, <1>3
<1>10. Owing(e, Cons("guarded", r), n, TRUE)
  BY <1>2, <1>4, <1>8, <1>9 DEF Owing
<1>11. Top(e, Head(e))
  BY <1>4 DEF Top
<1>12. \E v \in BOOLEAN : v /\ Owing(e, Cons("guarded", r), n, v)
  BY <1>10
<1>. QED  BY <1>2, <1>5, <1>7, <1>11, <1>12 DEF e

\* At most one part branches, so the weight is hardly more than the depth.
LEMMA DepthFacts ==
  ASSUME NEW c, NEW s, NEW n, NEW u \in BOOLEAN, Owing(c, s, n, u)
  PROVE  n \in Nat /\ Depth(c) \in Nat /\ Depth(c) <= n /\ n <= Depth(c) + 1
<1>. DEFINE A == Marked(Closing, c)
            B == Marked(Branching, c)
            C == Marked(Closing \cup Branching, c)
<1>1. c \in Seq(Word) /\ Orderly(c) /\ Weight(c) = n
  BY DEF Owing
<1>2. "end" \in Word
  BY Words
<1>3. IsFiniteSet(A) /\ IsFiniteSet(B) /\ IsFiniteSet(C)
  BY <1>1, <1>2, HowManyFacts
<1>4. C = A \cup B /\ A \subseteq C
  BY DEF Marked
<1>5. \A i, j \in B : i = j
  <2>1. ASSUME NEW i \in B, NEW j \in B, i < j PROVE FALSE
    <3>1. DOMAIN c = 1..Len(c) /\ Len(c) \in Nat
      BY <1>1, LenProperties
    <3>2. i \in 1..j - 1 /\ j \in 1..Len(c) /\ c[j] \in Branching /\ c[i] \in Branching
      BY <2>1, <3>1 DEF Marked
    <3>3. c[i] \in Inside
      BY <3>2, <1>1 DEF Orderly
    <3>. QED  BY <3>2, <3>3 DEF Inside, Branching
  <2>2. \A i \in B : i \in Nat
    <3>1. DOMAIN c = 1..Len(c) /\ Len(c) \in Nat
      BY <1>1, LenProperties
    <3>. QED  BY <3>1 DEF Marked
  <2>3. SUFFICES ASSUME NEW i \in B, NEW j \in B, i # j PROVE FALSE
    OBVIOUS
  <2>4. i < j \/ j < i
    BY <2>2, <2>3
  <2>. QED  BY <2>1, <2>3, <2>4
<1>6. Cardinality(B) \in {0, 1}
  <2>1. CASE B = {}
    BY <2>1, FS_EmptySet
  <2>2. CASE B # {}
    <3>1. PICK i \in B : TRUE
      BY <2>2
    <3>2. B = {i}
      BY <3>1, <1>5
    <3>. HIDE DEF B
    <3>. QED  BY <3>2, FS_Singleton
  <2>. QED  BY <2>1, <2>2
<1>. HIDE DEF A, B, C
<1>7. Cardinality(A) \in Nat /\ Cardinality(C) \in Nat /\ Cardinality(A) <= Cardinality(C)
  BY <1>3, <1>4, FS_CardinalityType, FS_Subset
<1>8. Cardinality(C) <= Cardinality(A) + Cardinality(B)
  <2>1. Cardinality(C) = Cardinality(A) + Cardinality(B) - Cardinality(A \cap B)
    BY <1>3, <1>4, FS_Union
  <2>2. Cardinality(A \cap B) \in Nat
    BY <1>3, FS_Intersection, FS_CardinalityType
  <2>. QED  BY <2>1, <2>2, <1>6, <1>7
<1>9. n = Cardinality(C) /\ Depth(c) = Cardinality(A)
  <2>1. n = Cardinality(C)
    BY <1>1 DEF Weight, HowMany, C
  <2>2. {i \in DOMAIN c : c[i] \in {"end", ")", "]"}} = A
    BY DEF A, Marked, Closing
  <2>. QED  BY <2>1, <2>2 DEF Depth
<1>. QED  BY <1>6, <1>7, <1>8, <1>9

-----------------------------------------------------------------------------
(***************************************************************************)
(* What the grammar makes of the next token: symbol by symbol.             *)
(***************************************************************************)
\* Derived is Derive without the forms of With.
Meets(s, k, t, repl) ==
  /\ \A j \in 1..k - 1 : MayBeEmpty(s[j], t) /\ Rule(s[j], t, repl) = <<>>
  /\ Rule(s[k], t, repl) # <<>>

Derived(s, t, repl) ==
  LET ks == {k \in 1..Len(s) : Meets(s, k, t, repl)} IN
  IF t = "eof" THEN IF \A i \in 1..Len(s) : MayBeEmpty(s[i], t) THEN s ELSE Astray
  ELSE IF ks = {} THEN Astray
  ELSE Rule(s[Only(ks)], t, repl)[1] \o SubSeq(s, Only(ks) + 1, Len(s))

LEMMA NoForms ==
  ASSUME With = {}, NEW x \in Word, NEW t, NEW repl
  PROVE  Becomes(x, t, repl) = Rule(x, t, repl)
<1>1. x # "origin"
  BY DEF Word
<1>. QED  BY <1>1 DEF Becomes

LEMMA DerivedIsDerive ==
  ASSUME With = {}, NEW s \in Seq(Word), NEW t, NEW repl
  PROVE  Derive(s, t, repl) = Derived(s, t, repl)
<1>. DEFINE b == [i \in 1..Len(s) |-> Becomes(s[i], t, repl)]
            ks == {k \in 1..Len(s) :
                     /\ b[k] # <<>>
                     /\ \A j \in 1..k - 1 : MayBeEmpty(s[j], t) /\ b[j] = <<>>}
            ms == {k \in 1..Len(s) : Meets(s, k, t, repl)}
<1>1. \A i \in 1..Len(s) : b[i] = Rule(s[i], t, repl)
  BY NoForms
<1>2. Derive(s, t, repl) =
        IF t = "eof" THEN IF \A i \in 1..Len(s) : MayBeEmpty(s[i], t) THEN s ELSE Astray
        ELSE IF ks = {} THEN Astray
        ELSE b[Only(ks)][1] \o SubSeq(s, Only(ks) + 1, Len(s))
  BY DEF Derive
<1>. HIDE DEF b
<1>3. ks = ms
  <2>1. \A k \in 1..Len(s) : \A j \in 1..k - 1 : j \in 1..Len(s)
    OBVIOUS
  <2>. QED  BY <1>1, <2>1 DEF Meets
<1>4. ms # {} => Only(ms) \in 1..Len(s)
  BY DEF Only
<1>. QED  BY <1>1, <1>2, <1>3, <1>4 DEF Derived

Ends(s) == \A i \in DOMAIN s : MayBeEmpty(s[i], "eof")

Outcome(s, t, repl) ==
  IF t = "eof" THEN (IF Ends(s) THEN <<>> ELSE Astray) ELSE Derived(s, t, repl)

Starters(s, t, repl) == {k \in 1..Len(s) : Meets(s, k, t, repl)}

LEMMA OneStarter ==
  ASSUME NEW s \in Seq(Word), NEW t, NEW repl,
         NEW k \in Starters(s, t, repl), NEW m \in Starters(s, t, repl)
  PROVE  k = m
<1>1. Len(s) \in Nat
  BY LenProperties
<1>2. k \in Nat /\ m \in Nat /\ Meets(s, k, t, repl) /\ Meets(s, m, t, repl) /\ k >= 1 /\ m >= 1
  BY <1>1 DEF Starters
<1>3. ASSUME k < m PROVE FALSE
  <2>1. k \in 1..m - 1
    BY <1>2, <1>3
  <2>. QED  BY <2>1, <1>2 DEF Meets
<1>4. ASSUME m < k PROVE FALSE
  <2>1. m \in 1..k - 1
    BY <1>2, <1>4
  <2>. QED  BY <2>1, <1>2 DEF Meets
<1>. QED  BY <1>2, <1>3, <1>4

LEMMA DeriveFacts ==
  ASSUME NEW s \in Seq(Word), NEW t, NEW repl, t # "eof"
  PROVE  /\ Starters(s, t, repl) = {} => Derived(s, t, repl) = Astray
         /\ \A k \in Starters(s, t, repl) :
              Derived(s, t, repl) = Rule(s[k], t, repl)[1] \o SubSeq(s, k + 1, Len(s))
<1>. DEFINE ks == {k \in 1..Len(s) : Meets(s, k, t, repl)}
<1>1. ks = Starters(s, t, repl)
  BY DEF Starters
<1>2. Derived(s, t, repl) = IF ks = {} THEN Astray
          ELSE Rule(s[Only(ks)], t, repl)[1] \o SubSeq(s, Only(ks) + 1, Len(s))
  BY DEF Derived
<1>. HIDE DEF ks
<1>3. ASSUME NEW k \in ks PROVE k = Only(ks)
  <2>1. Only(ks) \in ks
    BY DEF Only
  <2>. QED  BY <2>1, <1>1, OneStarter
<1>4. ASSUME NEW k \in ks
      PROVE  Derived(s, t, repl) = Rule(s[k], t, repl)[1] \o SubSeq(s, k + 1, Len(s))
  BY <1>2, <1>3, <1>4
<1>. QED  BY <1>1, <1>2, <1>4

LEMMA OutcomeCons ==
  ASSUME NEW x \in Word, NEW r \in Seq(Word), NEW t, NEW repl,
         t = "eof" => Rule(x, t, repl) = <<>>
  PROVE  Outcome(Cons(x, r), t, repl) =
           IF Rule(x, t, repl) # <<>> THEN Rule(x, t, repl)[1] \o r
           ELSE IF MayBeEmpty(x, t) THEN Outcome(r, t, repl) ELSE Astray
<1>. DEFINE s == Cons(x, r)
<1>1. Len(r) \in Nat /\ DOMAIN r = 1..Len(r)
  BY LenProperties
<1>2. s \in Seq(Word) /\ Len(s) = Len(r) + 1 /\ s[1] = x
  BY ConsFacts
<1>3. \A i \in 1..Len(r) : s[i + 1] = r[i]
  BY ConsFacts
<1>4. Tail(s) = r /\ s # <<>>
  BY ConsFacts
<1>. HIDE DEF s
<1>5. DOMAIN s = 1..Len(r) + 1
  BY <1>2, LenProperties
<1>6. CASE t = "eof"
  <2>1. Ends(s) <=> MayBeEmpty(x, t) /\ Ends(r)
    <3>1. ASSUME Ends(s) PROVE MayBeEmpty(x, t) /\ Ends(r)
      <4>1. MayBeEmpty(x, t)
        BY <3>1, <1>1, <1>2, <1>5, <1>6 DEF Ends
      <4>2. ASSUME NEW i \in DOMAIN r PROVE MayBeEmpty(r[i], "eof")
        <5>1. i \in 1..Len(r) /\ i + 1 \in 1..Len(r) + 1
          BY <1>1
        <5>. QED  BY <5>1, <3>1, <1>3, <1>5 DEF Ends
      <4>. QED  BY <4>1, <4>2 DEF Ends
    <3>2. ASSUME MayBeEmpty(x, t), Ends(r), NEW i \in DOMAIN s PROVE MayBeEmpty(s[i], "eof")
      <4>1. CASE i = 1
        BY <4>1, <3>2, <1>2, <1>6
      <4>2. CASE i # 1
        <5>1. i - 1 \in 1..Len(r) /\ (i - 1) + 1 = i
          BY <4>2, <1>1, <1>5
        <5>. QED  BY <5>1, <3>2, <1>1, <1>3 DEF Ends
      <4>. QED  BY <4>1, <4>2
    <3>. QED  BY <3>1, <3>2 DEF Ends
  <2>2. Rule(x, t, repl) = <<>>
    BY <1>6
  <2>. QED  BY <2>1, <2>2, <1>6 DEF Outcome, s
<1>7. CASE t # "eof"
  <2>1. Outcome(s, t, repl) = Derived(s, t, repl) /\ Outcome(r, t, repl) = Derived(r, t, repl)
    BY <1>7 DEF Outcome
  <2>2. CASE Rule(x, t, repl) # <<>>
    <3>1. 1 \in Starters(s, t, repl)
      BY <2>2, <1>1, <1>2 DEF Starters, Meets
    <3>2. Derived(s, t, repl) = Rule(s[1], t, repl)[1] \o SubSeq(s, 1 + 1, Len(s))
      BY <3>1, <1>2, <1>7, DeriveFacts
    <3>3. SubSeq(s, 1 + 1, Len(s)) = r
      BY <1>2, <1>4, TailIsSubSeq
    <3>. QED  BY <2>1, <2>2, <3>2, <3>3, <1>2 DEF s
  <2>3. CASE Rule(x, t, repl) = <<>> /\ ~ MayBeEmpty(x, t)
    <3>1. ASSUME NEW k \in Starters(s, t, repl) PROVE FALSE
      <4>1. k \in 1..Len(s) /\ Meets(s, k, t, repl)
        BY DEF Starters
      <4>2. CASE k = 1
        BY <4>1, <4>2, <2>3, <1>2 DEF Meets
      <4>3. CASE k # 1
        <5>1. 1 \in 1..k - 1
          BY <4>1, <4>3, <1>1, <1>2
        <5>. QED  BY <5>1, <4>1, <2>3, <1>2 DEF Meets
      <4>. QED  BY <4>2, <4>3
    <3>2. Derived(s, t, repl) = Astray
      BY <3>1, <1>2, <1>7, DeriveFacts
    <3>. QED  BY <2>1, <2>3, <3>2 DEF s
  <2>4. CASE Rule(x, t, repl) = <<>> /\ MayBeEmpty(x, t)
    <3>1. ASSUME NEW k \in Starters(s, t, repl)
          PROVE k - 1 \in Starters(r, t, repl) /\ k \in 2..Len(r) + 1
      <4>1. k \in 1..Len(r) + 1 /\ Meets(s, k, t, repl)
        BY <1>2 DEF Starters
      <4>2. k # 1
        BY <4>1, <2>4, <1>2 DEF Meets
      <4>3. k \in 2..Len(r) + 1 /\ k - 1 \in 1..Len(r) /\ (k - 1) + 1 = k
        BY <4>1, <4>2, <1>1
      <4>4. s[k] = r[k - 1]
        BY <4>3, <1>3
      <4>5. ASSUME NEW j \in 1..(k - 1) - 1 PROVE MayBeEmpty(r[j], t) /\ Rule(r[j], t, repl) = <<>>
        <5>1. j + 1 \in 1..k - 1 /\ j \in 1..Len(r)
          BY <4>3, <1>1
        <5>2. s[j + 1] = r[j]
          BY <5>1, <1>3
        <5>. QED  BY <5>1, <5>2, <4>1 DEF Meets
      <4>. QED  BY <4>1, <4>3, <4>4, <4>5 DEF Starters, Meets
    <3>2. ASSUME NEW k \in Starters(r, t, repl)
          PROVE k + 1 \in Starters(s, t, repl) /\ k \in 1..Len(r)
      <4>1. k \in 1..Len(r) /\ Meets(r, k, t, repl)
        BY DEF Starters
      <4>2. s[k + 1] = r[k] /\ k + 1 \in 1..Len(s)
        BY <4>1, <1>1, <1>2, <1>3
      <4>3. ASSUME NEW j \in 1..(k + 1) - 1 PROVE MayBeEmpty(s[j], t) /\ Rule(s[j], t, repl) = <<>>
        <5>1. CASE j = 1
          BY <5>1, <2>4, <1>2
        <5>2. CASE j # 1
          <6>1. j - 1 \in 1..k - 1 /\ j - 1 \in 1..Len(r) /\ (j - 1) + 1 = j
            BY <5>2, <4>1, <1>1
          <6>2. s[j] = r[j - 1]
            BY <6>1, <1>3
          <6>. QED  BY <6>1, <6>2, <4>1 DEF Meets
        <5>. QED  BY <5>1, <5>2
      <4>. QED  BY <4>1, <4>2, <4>3 DEF Starters, Meets
    <3>3. CASE Starters(r, t, repl) = {}
      <4>1. Starters(s, t, repl) = {}
        BY <3>1, <3>3
      <4>. QED  BY <4>1, <3>3, <2>1, <2>4, <1>2, <1>7, DeriveFacts DEF s
    <3>4. CASE Starters(r, t, repl) # {}
      <4>1. PICK k \in Starters(r, t, repl) : TRUE
        BY <3>4
      <4>2. k + 1 \in Starters(s, t, repl) /\ k \in 1..Len(r)
        BY <3>2
      <4>3. Derived(r, t, repl) = Rule(r[k], t, repl)[1] \o SubSeq(r, k + 1, Len(r))
        BY <1>7, DeriveFacts
      <4>4. Derived(s, t, repl) = Rule(s[k + 1], t, repl)[1] \o SubSeq(s, (k + 1) + 1, Len(s))
        BY <4>2, <1>2, <1>7, DeriveFacts
      <4>5. SubSeq(s, (k + 1) + 1, Len(s)) = SubSeq(r, k + 1, Len(r))
        <5>. DEFINE a == SubSeq(s, (k + 1) + 1, Len(s))
                    b == SubSeq(r, k + 1, Len(r))
        <5>1. \A i \in (k + 1) + 1..Len(s) : i - 1 \in 1..Len(r) /\ (i - 1) + 1 = i
                /\ s[i] = r[i - 1]
          BY <4>2, <1>1, <1>2, <1>3
        <5>2. \A i \in 1..Len(r) : r[i] \in Word
          BY <1>1, ElementOfSeq
        <5>3. /\ a \in Seq(Word) /\ Len(a) =
                 (IF (k + 1) + 1 <= Len(s) THEN Len(s) - ((k + 1) + 1) + 1 ELSE 0)
              /\ \A i \in 1..Len(s) - ((k + 1) + 1) + 1 : a[i] = s[(k + 1) + 1 + i - 1]
          <6>1. \A i \in (k + 1) + 1..Len(s) : s[i] \in Word
            BY <5>1, <5>2
          <6>2. (k + 1) + 1 \in Int /\ Len(s) \in Int
            BY <4>2, <1>1, <1>2
          <6>. QED  BY <6>1, <6>2, SubSeqProperties
        <5>4. /\ b \in Seq(Word) /\ Len(b) = (IF k + 1 <= Len(r) THEN Len(r) - (k + 1) + 1 ELSE 0)
              /\ \A i \in 1..Len(r) - (k + 1) + 1 : b[i] = r[k + 1 + i - 1]
          <6>1. \A i \in k + 1..Len(r) : r[i] \in Word
            BY <5>2, <4>2, <1>1
          <6>2. k + 1 \in Int /\ Len(r) \in Int
            BY <4>2, <1>1, <1>2
          <6>. QED  BY <6>1, <6>2, SubSeqProperties
        <5>. HIDE DEF a, b
        <5>5. Len(a) = Len(b) /\ Len(b) \in Nat /\ Len(b) = Len(r) - k
          <6>. DEFINE l == Len(r)
                      v == Len(s)
                      w == Len(a)
                      z == Len(b)
          <6>1. k \in 1..l /\ l \in Nat /\ v = l + 1
            BY <4>2, <1>1, <1>2
          <6>2. w = (IF (k + 1) + 1 <= v THEN v - ((k + 1) + 1) + 1 ELSE 0)
            BY <5>3
          <6>3. z = (IF k + 1 <= l THEN l - (k + 1) + 1 ELSE 0)
            BY <5>4
          <6>. HIDE DEF l, v, w, z
          <6>4. w = z /\ z \in Nat /\ z = l - k
            BY ONLY <6>1, <6>2, <6>3
          <6>. QED  BY <6>4 DEF l, w, z
        <5>6. ASSUME NEW i \in 1..Len(b) PROVE a[i] = b[i]
          <6>1. /\ i \in 1..Len(s) - ((k + 1) + 1) + 1 /\ i \in 1..Len(r) - (k + 1) + 1
                /\ (k + 1) + 1 + i - 1 = (k + i) + 1 /\ k + 1 + i - 1 = k + i /\ k + i \in 1..Len(r)
            BY <5>5, <4>2, <1>1, <1>2
          <6>2. s[(k + i) + 1] = r[k + i]
            BY <6>1, <1>3
          <6>. QED  BY <6>1, <6>2, <5>3, <5>4
        <5>7. a = b
          BY <5>3, <5>4, <5>5, <5>6, SeqEqual
        <5>. QED  BY <5>7 DEF a, b
      <4>6. s[k + 1] = r[k]
        BY <4>2, <1>3
      <4>. QED  BY <4>3, <4>4, <4>5, <4>6, <2>1, <2>4 DEF s
    <3>. QED  BY <3>3, <3>4
  <2>. QED  BY <2>2, <2>3, <2>4
<1>. QED  BY <1>6, <1>7

LEMMA Associative ==
  ASSUME NEW s \in Seq(Word), NEW t \in Seq(Word), NEW u \in Seq(Word)
  PROVE  (s \o t) \o u = s \o (t \o u)
  BY ConcatAssociative

LEMMA Spread ==
  ASSUME NEW r \in Seq(Word)
  PROVE  /\ <<>> \o r = r
         /\ \A a \in Word : <<a>> \o r = Cons(a, r)
         /\ \A a, b \in Word : <<a, b>> \o r = Cons(a, Cons(b, r))
         /\ \A a, b, c \in Word : <<a, b, c>> \o r = Cons(a, Cons(b, Cons(c, r)))
         /\ \A a, b, c, d \in Word :
              <<a, b, c, d>> \o r = Cons(a, Cons(b, Cons(c, Cons(d, r))))
         /\ \A a, b, c, d, e \in Word : FiveFirst(a, b, c, d, e, r)
<1>1. Unfolds(Word, r)
  BY Unfold
<1>. QED  BY ONLY <1>1 DEF Unfolds

LEMMA Symbols ==
  ASSUME NEW r \in Seq(Word)
  PROVE  /\ <<"expr">> \o r = Cons("expr", r)
         /\ <<"items", ")", "operators">> \o r =
              Cons("items", Cons(")", Cons("operators", r)))
         /\ <<"expr", "]", "operators">> \o r =
              Cons("expr", Cons("]", Cons("operators", r)))
         /\ <<"items">> \o r = Cons("items", r)
         /\ <<"expr", "]", "element">> \o r = Cons("expr", Cons("]", Cons("element", r)))
         /\ <<"items", ")", "calls">> \o r = Cons("items", Cons(")", Cons("calls", r)))
         /\ <<"expr", "]", "indices">> \o r = Cons("expr", Cons("]", Cons("indices", r)))
         /\ <<"statements", "otherwise", "end", "line">> \o r =
              Cons("statements", Cons("otherwise", Cons("end", Cons("line", r))))
         /\ <<"one", "orOne", "end", "line">> \o r =
              Cons("one", Cons("orOne", Cons("end", Cons("line", r))))
         /\ <<"line">> \o r = Cons("line", r)
         /\ <<"line", "statements">> \o r = Cons("line", Cons("statements", r))
         /\ <<"one">> \o r = Cons("one", r)
         /\ <<"default">> \o r = Cons("default", r)
         /\ <<"expr", "moreDefaults">> \o r = Cons("expr", Cons("moreDefaults", r))
         /\ <<"params">> \o r = Cons("params", r)
         /\ <<"defaults">> \o r = Cons("defaults", r)
         /\ <<"=", "expr", "moreDefaults">> \o r =
              Cons("=", Cons("expr", Cons("moreDefaults", r)))
         /\ <<"segments">> \o r = Cons("segments", r)
         /\ <<"segment">> \o r = Cons("segment", r)
         /\ <<"name">> \o r = Cons("name", r)
         /\ <<"names">> \o r = Cons("names", r)
         /\ <<"cases">> \o r = Cons("cases", r)
         /\ <<"expr", "moreValues", "line", "body", "cases">> \o r =
              Cons("expr", Cons("moreValues", Cons("line", Cons("body", Cons("cases", r)))))
         /\ <<"line", "body">> \o r = Cons("line", Cons("body", r))
         /\ <<"extra">> \o r = Cons("extra", r)
         /\ <<"statements">> \o r = Cons("statements", r)
         /\ <<"body">> \o r = Cons("body", r)
         /\ <<"one", "statements">> \o r = Cons("one", Cons("statements", r))
         /\ Body \o r = Cons("line", Cons("statements", Cons("end", Cons("line", r))))
         /\ (<<"expr">> \o Body) \o r =
              Cons("expr", Cons("line", Cons("statements", Cons("end", Cons("line", r)))))
         /\ (<<"expr", "to", "expr", "increment">> \o Body) \o r =
              Cons("expr", Cons("to", Cons("expr",
                  Cons("increment", Cons("line",
                      Cons("statements", Cons("end", Cons("line", r))))))))
<1>1. \A a \in Word : <<a>> \o r = Cons(a, r)
  BY Spread
<1>2. \A a, b \in Word : <<a, b>> \o r = Cons(a, Cons(b, r))
  BY Spread
<1>3. \A a, b, c \in Word : <<a, b, c>> \o r = Cons(a, Cons(b, Cons(c, r)))
  BY Spread
<1>4. \A a, b, c, d \in Word : <<a, b, c, d>> \o r = Cons(a, Cons(b, Cons(c, Cons(d, r))))
  BY Spread
<1>5. \A a, b, c, d, e \in Word : FiveFirst(a, b, c, d, e, r)
  BY Spread
<1>6. /\ <<"expr">> \o r = Cons("expr", r)
      /\ <<"items">> \o r = Cons("items", r)
      /\ <<"line">> \o r = Cons("line", r)
      /\ <<"one">> \o r = Cons("one", r)
      /\ <<"default">> \o r = Cons("default", r)
      /\ <<"params">> \o r = Cons("params", r)
  BY <1>1, Words
<1>7. /\ <<"defaults">> \o r = Cons("defaults", r)
      /\ <<"segments">> \o r = Cons("segments", r)
      /\ <<"segment">> \o r = Cons("segment", r)
      /\ <<"name">> \o r = Cons("name", r)
      /\ <<"names">> \o r = Cons("names", r)
      /\ <<"cases">> \o r = Cons("cases", r)
  BY <1>1, Words
<1>8. /\ <<"extra">> \o r = Cons("extra", r)
      /\ <<"statements">> \o r = Cons("statements", r)
      /\ <<"body">> \o r = Cons("body", r)
  BY <1>1, Words
<1>9. /\ <<"line", "statements">> \o r = Cons("line", Cons("statements", r))
      /\ <<"expr", "moreDefaults">> \o r = Cons("expr", Cons("moreDefaults", r))
      /\ <<"line", "body">> \o r = Cons("line", Cons("body", r))
      /\ <<"one", "statements">> \o r = Cons("one", Cons("statements", r))
  BY <1>2, Words
<1>10. <<"items", ")", "operators">> \o r = Cons("items", Cons(")", Cons("operators", r)))
  <2>1. "items" \in Word /\ ")" \in Word /\ "operators" \in Word
    BY Words
  <2>. QED  BY ONLY <2>1, <1>3
<1>11. <<"expr", "]", "operators">> \o r = Cons("expr", Cons("]", Cons("operators", r)))
  <2>1. "expr" \in Word /\ "]" \in Word /\ "operators" \in Word
    BY Words
  <2>. QED  BY ONLY <2>1, <1>3
<1>12. <<"expr", "]", "element">> \o r = Cons("expr", Cons("]", Cons("element", r)))
  <2>1. "expr" \in Word /\ "]" \in Word /\ "element" \in Word
    BY Words
  <2>. QED  BY ONLY <2>1, <1>3
<1>13. <<"items", ")", "calls">> \o r = Cons("items", Cons(")", Cons("calls", r)))
  <2>1. "items" \in Word /\ ")" \in Word /\ "calls" \in Word
    BY Words
  <2>. QED  BY ONLY <2>1, <1>3
<1>14. <<"expr", "]", "indices">> \o r = Cons("expr", Cons("]", Cons("indices", r)))
  <2>1. "expr" \in Word /\ "]" \in Word /\ "indices" \in Word
    BY Words
  <2>. QED  BY ONLY <2>1, <1>3
<1>15. <<"=", "expr", "moreDefaults">> \o r =
           Cons("=", Cons("expr", Cons("moreDefaults", r)))
  <2>1. "=" \in Word /\ "expr" \in Word /\ "moreDefaults" \in Word
    BY Words
  <2>. QED  BY ONLY <2>1, <1>3
<1>16. <<"statements", "otherwise", "end", "line">> \o r =
           Cons("statements", Cons("otherwise", Cons("end", Cons("line", r))))
  <2>. DEFINE a == "statements"
              b == "otherwise"
              c == "end"
              d == "line"
  <2>1. a \in Word /\ b \in Word /\ c \in Word /\ d \in Word
    BY Words
  <2>. HIDE DEF a, b, c, d
  <2>2. <<a, b, c, d>> \o r = Cons(a, Cons(b, Cons(c, Cons(d, r))))
    BY ONLY <2>1, <1>4
  <2>. QED  BY <2>2 DEF a, b, c, d
<1>17. <<"one", "orOne", "end", "line">> \o r =
           Cons("one", Cons("orOne", Cons("end", Cons("line", r))))
  <2>. DEFINE a == "one"
              b == "orOne"
              c == "end"
              d == "line"
  <2>1. a \in Word /\ b \in Word /\ c \in Word /\ d \in Word
    BY Words
  <2>. HIDE DEF a, b, c, d
  <2>2. <<a, b, c, d>> \o r = Cons(a, Cons(b, Cons(c, Cons(d, r))))
    BY ONLY <2>1, <1>4
  <2>. QED  BY <2>2 DEF a, b, c, d
<1>18. Body \o r = Cons("line", Cons("statements", Cons("end", Cons("line", r))))
  <2>1. "line" \in Word /\ "statements" \in Word /\ "end" \in Word
    BY Words
  <2>2. <<"line", "statements", "end", "line">> \o r =
          Cons("line", Cons("statements", Cons("end", Cons("line", r))))
    BY ONLY <2>1, <1>4
  <2>. QED  BY ONLY <2>2 DEF Body
<1>19. <<"expr", "moreValues", "line", "body", "cases">> \o r =
           Cons("expr", Cons("moreValues", Cons("line", Cons("body", Cons("cases", r)))))
  <2>. DEFINE a == "expr"
              b == "moreValues"
              c == "line"
              d == "body"
              e == "cases"
  <2>1. a \in Word /\ b \in Word /\ c \in Word /\ d \in Word /\ e \in Word
    BY Words
  <2>. HIDE DEF a, b, c, d, e
  <2>2. FiveFirst(a, b, c, d, e, r)
    BY ONLY <2>1, <1>5
  <2>. QED  BY <2>2 DEF FiveFirst, a, b, c, d, e
<1>. DEFINE z == Body \o r
<1>20. Body \in Seq(Word) /\ z \in Seq(Word)
  <2>1. Body \in Seq(Word)
    BY Tuples, Words DEF Body
  <2>. QED  BY <2>1, ConcatProperties
<1>21. z = Cons("line", Cons("statements", Cons("end", Cons("line", r))))
  BY <1>18
<1>22. (<<"expr">> \o Body) \o r = Cons("expr", z)
  <2>1. <<"expr">> \in Seq(Word)
    BY Tuples, Words
  <2>2. (<<"expr">> \o Body) \o r = <<"expr">> \o z
    BY ONLY <2>1, <1>20, r \in Seq(Word), Associative DEF z
  <2>3. \A a \in Word : <<a>> \o z = Cons(a, z)
    <3>. HIDE DEF z
    <3>. QED  BY <1>20, Spread
  <2>4. <<"expr">> \o z = Cons("expr", z)
    <3>1. "expr" \in Word
      BY Words
    <3>. HIDE DEF z
    <3>. QED  BY ONLY <2>3, <3>1
  <2>. QED  BY ONLY <2>2, <2>4
<1>23. (<<"expr", "to", "expr", "increment">> \o Body) \o r =
         Cons("expr", Cons("to", Cons("expr", Cons("increment", z))))
  <2>1. <<"expr", "to", "expr", "increment">> \in Seq(Word)
    BY Tuples, Words
  <2>2. (<<"expr", "to", "expr", "increment">> \o Body) \o r =
          <<"expr", "to", "expr", "increment">> \o z
    BY ONLY <2>1, <1>20, r \in Seq(Word), Associative DEF z
  <2>3. \A a, b, c, d \in Word : <<a, b, c, d>> \o z = Cons(a, Cons(b, Cons(c, Cons(d, z))))
    <3>. HIDE DEF z
    <3>. QED  BY <1>20, Spread
  <2>4. <<"expr", "to", "expr", "increment">> \o z =
          Cons("expr", Cons("to", Cons("expr", Cons("increment", z))))
    <3>1. "expr" \in Word /\ "to" \in Word /\ "increment" \in Word
      BY Words
    <3>. HIDE DEF z
    <3>. QED  BY ONLY <2>3, <3>1
  <2>. QED  BY ONLY <2>2, <2>4
<1>. QED  BY <1>6, <1>7, <1>8, <1>9, <1>10, <1>11, <1>12, <1>13, <1>14, <1>15, <1>16, <1>17,
             <1>18, <1>19, <1>22, <1>23, <1>21

LEMMA SinglePart ==
  ASSUME NEW r \in Seq(Word)
  PROVE  /\ <<"operators">> \o r = Cons("operators", r)
         /\ <<"parseExpr">> \o r = Cons("parseExpr", r)
         /\ <<"items">> \o r = Cons("items", r)
         /\ <<"importPath">> \o r = Cons("importPath", r)
         /\ <<"fromPath">> \o r = Cons("fromPath", r)
         /\ <<"expectNewline">> \o r = Cons("expectNewline", r)
         /\ <<"nameStmt">> \o r = Cons("nameStmt", r)
         /\ <<"recover">> \o r = Cons("recover", r)
         /\ <<"calm">> \o r = Cons("calm", r)
         /\ <<"arguments">> \o r = Cons("arguments", r)
         /\ <<"parseStmt">> \o r = Cons("parseStmt", r)
         /\ <<"moreParams">> \o r = Cons("moreParams", r)
<1>1. \A a \in Word : <<a>> \o r = Cons(a, r)
  BY Spread
<1>2. /\ <<"operators">> \o r = Cons("operators", r)
      /\ <<"parseExpr">> \o r = Cons("parseExpr", r)
      /\ <<"items">> \o r = Cons("items", r)
      /\ <<"importPath">> \o r = Cons("importPath", r)
      /\ <<"fromPath">> \o r = Cons("fromPath", r)
      /\ <<"expectNewline">> \o r = Cons("expectNewline", r)
  BY <1>1, Words
<1>3. /\ <<"nameStmt">> \o r = Cons("nameStmt", r)
      /\ <<"recover">> \o r = Cons("recover", r)
      /\ <<"calm">> \o r = Cons("calm", r)
      /\ <<"arguments">> \o r = Cons("arguments", r)
      /\ <<"parseStmt">> \o r = Cons("parseStmt", r)
      /\ <<"moreParams">> \o r = Cons("moreParams", r)
  BY <1>1, Words
<1>. QED  BY <1>2, <1>3

LEMMA OnePart ==
  ASSUME NEW r \in Seq(Word)
  PROVE  /\ <<"moreDefaults">> \o r = Cons("moreDefaults", r)
         /\ <<"params">> \o r = Cons("params", r)
         /\ <<"defaults">> \o r = Cons("defaults", r)
         /\ <<"alias">> \o r = Cons("alias", r)
         /\ <<"imports">> \o r = Cons("imports", r)
         /\ <<"segment">> \o r = Cons("segment", r)
         /\ <<"slash">> \o r = Cons("slash", r)
         /\ <<"firstName">> \o r = Cons("firstName", r)
         /\ <<"name">> \o r = Cons("name", r)
         /\ <<"moreNames">> \o r = Cons("moreNames", r)
         /\ <<"caseStart">> \o r = Cons("caseStart", r)
         /\ <<"extra">> \o r = Cons("extra", r)
<1>1. \A a \in Word : <<a>> \o r = Cons(a, r)
  BY Spread
<1>2. /\ <<"moreDefaults">> \o r = Cons("moreDefaults", r)
      /\ <<"params">> \o r = Cons("params", r)
      /\ <<"defaults">> \o r = Cons("defaults", r)
      /\ <<"alias">> \o r = Cons("alias", r)
      /\ <<"imports">> \o r = Cons("imports", r)
      /\ <<"segment">> \o r = Cons("segment", r)
  BY <1>1, Words
<1>3. /\ <<"slash">> \o r = Cons("slash", r)
      /\ <<"firstName">> \o r = Cons("firstName", r)
      /\ <<"name">> \o r = Cons("name", r)
      /\ <<"moreNames">> \o r = Cons("moreNames", r)
      /\ <<"caseStart">> \o r = Cons("caseStart", r)
      /\ <<"extra">> \o r = Cons("extra", r)
  BY <1>1, Words
<1>. QED  BY <1>2, <1>3

LEMMA TwoParts ==
  ASSUME NEW r \in Seq(Word)
  PROVE  /\ <<"parseExpr", "moreItems">> \o r = Cons("parseExpr", Cons("moreItems", r))
         /\ <<"parseExpr", "expectNewline">> \o r =
              Cons("parseExpr", Cons("expectNewline", r))
         /\ <<"parseExpr", "branches">> \o r = Cons("parseExpr", Cons("branches", r))
         /\ <<"ident", "range">> \o r = Cons("ident", Cons("range", r))
         /\ <<"value", "expectNewline">> \o r = Cons("value", Cons("expectNewline", r))
         /\ <<"exprWithLeft", "expectNewline">> \o r =
              Cons("exprWithLeft", Cons("expectNewline", r))
         /\ <<"expectNewline", "parseBlock">> \o r =
              Cons("expectNewline", Cons("parseBlock", r))
         /\ <<"parseExpr", "bound">> \o r = Cons("parseExpr", Cons("bound", r))
         /\ <<"parseExpr", "increment">> \o r = Cons("parseExpr", Cons("increment", r))
         /\ <<"ident", "default">> \o r = Cons("ident", Cons("default", r))
         /\ <<"ident", "dueDefault">> \o r = Cons("ident", Cons("dueDefault", r))
         /\ <<"parseExpr", "moreDefaults">> \o r =
              Cons("parseExpr", Cons("moreDefaults", r))
<1>1. \A a, b \in Word : <<a, b>> \o r = Cons(a, Cons(b, r))
  BY Spread
<1>2. /\ <<"parseExpr", "moreItems">> \o r = Cons("parseExpr", Cons("moreItems", r))
      /\ <<"parseExpr", "expectNewline">> \o r = Cons("parseExpr", Cons("expectNewline", r))
      /\ <<"parseExpr", "branches">> \o r = Cons("parseExpr", Cons("branches", r))
      /\ <<"ident", "range">> \o r = Cons("ident", Cons("range", r))
      /\ <<"value", "expectNewline">> \o r = Cons("value", Cons("expectNewline", r))
      /\ <<"exprWithLeft", "expectNewline">> \o r =
           Cons("exprWithLeft", Cons("expectNewline", r))
  BY <1>1, Words
<1>3. /\ <<"expectNewline", "parseBlock">> \o r =
           Cons("expectNewline", Cons("parseBlock", r))
      /\ <<"parseExpr", "bound">> \o r = Cons("parseExpr", Cons("bound", r))
      /\ <<"parseExpr", "increment">> \o r = Cons("parseExpr", Cons("increment", r))
      /\ <<"ident", "default">> \o r = Cons("ident", Cons("default", r))
      /\ <<"ident", "dueDefault">> \o r = Cons("ident", Cons("dueDefault", r))
      /\ <<"parseExpr", "moreDefaults">> \o r = Cons("parseExpr", Cons("moreDefaults", r))
  BY <1>1, Words
<1>. QED  BY <1>2, <1>3

LEMMA PairsOfParts ==
  ASSUME NEW r \in Seq(Word)
  PROVE  /\ <<"slash", "alias">> \o r = Cons("slash", Cons("alias", r))
         /\ <<"slash", "imports">> \o r = Cons("slash", Cons("imports", r))
         /\ <<"aliasName", "expectNewline">> \o r =
              Cons("aliasName", Cons("expectNewline", r))
         /\ <<"moreNames", "expectNewline">> \o r =
              Cons("moreNames", Cons("expectNewline", r))
         /\ <<"parseStmt", "skipNewlines">> \o r =
              Cons("parseStmt", Cons("skipNewlines", r))
         /\ <<"expectNewline", "caseBody">> \o r =
              Cons("expectNewline", Cons("caseBody", r))
         /\ <<"parseExpr", "moreValues">> \o r = Cons("parseExpr", Cons("moreValues", r))
         /\ <<"parseStmt", "nextStmt">> \o r = Cons("parseStmt", Cons("nextStmt", r))
<1>1. \A a, b \in Word : <<a, b>> \o r = Cons(a, Cons(b, r))
  BY Spread
<1>2. /\ <<"slash", "alias">> \o r = Cons("slash", Cons("alias", r))
      /\ <<"slash", "imports">> \o r = Cons("slash", Cons("imports", r))
      /\ <<"aliasName", "expectNewline">> \o r = Cons("aliasName", Cons("expectNewline", r))
      /\ <<"moreNames", "expectNewline">> \o r = Cons("moreNames", Cons("expectNewline", r))
      /\ <<"parseStmt", "skipNewlines">> \o r = Cons("parseStmt", Cons("skipNewlines", r))
      /\ <<"expectNewline", "caseBody">> \o r = Cons("expectNewline", Cons("caseBody", r))
  BY <1>1, Words
<1>3. /\ <<"parseExpr", "moreValues">> \o r = Cons("parseExpr", Cons("moreValues", r))
      /\ <<"parseStmt", "nextStmt">> \o r = Cons("parseStmt", Cons("nextStmt", r))
  BY <1>1, Words
<1>. QED  BY <1>2, <1>3

LEMMA ThreeParts ==
  ASSUME NEW r \in Seq(Word)
  PROVE  /\ <<"items", "]", "operators">> \o r =
              Cons("items", Cons("]", Cons("operators", r)))
         /\ <<"parseExpr", ")", "operators">> \o r =
              Cons("parseExpr", Cons(")", Cons("operators", r)))
         /\ <<"items", ")", "operators">> \o r =
              Cons("items", Cons(")", Cons("operators", r)))
         /\ <<"parseExpr", "]", "operators">> \o r =
              Cons("parseExpr", Cons("]", Cons("operators", r)))
         /\ <<"parseExpr", "]", "exprWithLeft">> \o r =
              Cons("parseExpr", Cons("]", Cons("exprWithLeft", r)))
         /\ <<"parseExpr", "]", "element">> \o r =
              Cons("parseExpr", Cons("]", Cons("element", r)))
         /\ <<"items", ")", "arguments">> \o r =
              Cons("items", Cons(")", Cons("arguments", r)))
<1>1. \A a, b, c \in Word : <<a, b, c>> \o r = Cons(a, Cons(b, Cons(c, r)))
  BY Spread
<1>2. <<"items", "]", "operators">> \o r = Cons("items", Cons("]", Cons("operators", r)))
  <2>1. "items" \in Word /\ "]" \in Word /\ "operators" \in Word
    BY Words
  <2>. QED  BY ONLY <2>1, <1>1
<1>3. <<"parseExpr", ")", "operators">> \o r =
           Cons("parseExpr", Cons(")", Cons("operators", r)))
  <2>1. "parseExpr" \in Word /\ ")" \in Word /\ "operators" \in Word
    BY Words
  <2>. QED  BY ONLY <2>1, <1>1
<1>4. <<"items", ")", "operators">> \o r = Cons("items", Cons(")", Cons("operators", r)))
  <2>1. "items" \in Word /\ ")" \in Word /\ "operators" \in Word
    BY Words
  <2>. QED  BY ONLY <2>1, <1>1
<1>5. <<"parseExpr", "]", "operators">> \o r =
           Cons("parseExpr", Cons("]", Cons("operators", r)))
  <2>1. "parseExpr" \in Word /\ "]" \in Word /\ "operators" \in Word
    BY Words
  <2>. QED  BY ONLY <2>1, <1>1
<1>6. <<"parseExpr", "]", "exprWithLeft">> \o r =
           Cons("parseExpr", Cons("]", Cons("exprWithLeft", r)))
  <2>1. "parseExpr" \in Word /\ "]" \in Word /\ "exprWithLeft" \in Word
    BY Words
  <2>. QED  BY ONLY <2>1, <1>1
<1>7. <<"parseExpr", "]", "element">> \o r =
           Cons("parseExpr", Cons("]", Cons("element", r)))
  <2>1. "parseExpr" \in Word /\ "]" \in Word /\ "element" \in Word
    BY Words
  <2>. QED  BY ONLY <2>1, <1>1
<1>8. <<"items", ")", "arguments">> \o r = Cons("items", Cons(")", Cons("arguments", r)))
  <2>1. "items" \in Word /\ ")" \in Word /\ "arguments" \in Word
    BY Words
  <2>. QED  BY ONLY <2>1, <1>1
<1>. QED  BY <1>2, <1>3, <1>4, <1>5, <1>6, <1>7, <1>8

LEMMA ManyParts ==
  ASSUME NEW r \in Seq(Word)
  PROVE  /\ <<"ident", "=", "parseExpr", "expectNewline">> \o r =
              Cons("ident", Cons("=", Cons("parseExpr", Cons("expectNewline", r))))
         /\ <<"parseExpr", "expectNewline", "cases", "end", "expectNewline">> \o r =
              Cons("parseExpr", Cons("expectNewline",
                  Cons("cases", Cons("end", Cons("expectNewline", r)))))
         /\ <<"parseStmt", "elseStmt", "end", "expectNewline">> \o r =
              Cons("parseStmt", Cons("elseStmt", Cons("end", Cons("expectNewline", r))))
         /\ <<"expectNewline", "parseBlock", "elseBlock", "end", "expectNewline">> \o r =
              Cons("expectNewline", Cons("parseBlock",
                  Cons("elseBlock", Cons("end", Cons("expectNewline", r)))))
         /\ <<"parseExpr", "moreValues", "expectNewline", "caseBody", "cases">> \o r =
              Cons("parseExpr", Cons("moreValues",
                  Cons("expectNewline", Cons("caseBody", Cons("cases", r)))))
         /\ Block \o r =
              Cons("expectNewline", Cons("parseBlock", Cons("end", Cons("expectNewline", r))))
<1>1. \A a, b, c, d \in Word : <<a, b, c, d>> \o r = Cons(a, Cons(b, Cons(c, Cons(d, r))))
  BY Spread
<1>2. \A a, b, c, d, e \in Word : FiveFirst(a, b, c, d, e, r)
  BY Spread
<1>3. <<"ident", "=", "parseExpr", "expectNewline">> \o r =
           Cons("ident", Cons("=", Cons("parseExpr", Cons("expectNewline", r))))
  <2>. DEFINE a == "ident"
              b == "="
              c == "parseExpr"
              d == "expectNewline"
  <2>1. a \in Word /\ b \in Word /\ c \in Word /\ d \in Word
    BY Words
  <2>. HIDE DEF a, b, c, d
  <2>2. <<a, b, c, d>> \o r = Cons(a, Cons(b, Cons(c, Cons(d, r))))
    BY ONLY <2>1, <1>1
  <2>. QED  BY <2>2 DEF a, b, c, d
<1>4. <<"parseStmt", "elseStmt", "end", "expectNewline">> \o r =
           Cons("parseStmt", Cons("elseStmt", Cons("end", Cons("expectNewline", r))))
  <2>. DEFINE a == "parseStmt"
              b == "elseStmt"
              c == "end"
              d == "expectNewline"
  <2>1. a \in Word /\ b \in Word /\ c \in Word /\ d \in Word
    BY Words
  <2>. HIDE DEF a, b, c, d
  <2>2. <<a, b, c, d>> \o r = Cons(a, Cons(b, Cons(c, Cons(d, r))))
    BY ONLY <2>1, <1>1
  <2>. QED  BY <2>2 DEF a, b, c, d
<1>5. Block \o r =
           Cons("expectNewline", Cons("parseBlock", Cons("end", Cons("expectNewline", r))))
  <2>1. "expectNewline" \in Word /\ "parseBlock" \in Word /\ "end" \in Word
    BY Words
  <2>2. <<"expectNewline", "parseBlock", "end", "expectNewline">> \o r =
          Cons("expectNewline", Cons("parseBlock", Cons("end", Cons("expectNewline", r))))
    BY ONLY <2>1, <1>1
  <2>. QED  BY ONLY <2>2 DEF Block
<1>6. <<"parseExpr", "expectNewline", "cases", "end", "expectNewline">> \o r =
           Cons("parseExpr", Cons("expectNewline",
               Cons("cases", Cons("end", Cons("expectNewline", r)))))
  <2>. DEFINE a == "parseExpr"
              b == "expectNewline"
              c == "cases"
              d == "end"
              e == "expectNewline"
  <2>1. a \in Word /\ b \in Word /\ c \in Word /\ d \in Word /\ e \in Word
    BY Words
  <2>. HIDE DEF a, b, c, d, e
  <2>2. FiveFirst(a, b, c, d, e, r)
    BY ONLY <2>1, <1>2
  <2>. QED  BY <2>2 DEF FiveFirst, a, b, c, d, e
<1>7. <<"expectNewline", "parseBlock", "elseBlock", "end", "expectNewline">> \o r =
           Cons("expectNewline", Cons("parseBlock",
               Cons("elseBlock", Cons("end", Cons("expectNewline", r)))))
  <2>. DEFINE a == "expectNewline"
              b == "parseBlock"
              c == "elseBlock"
              d == "end"
              e == "expectNewline"
  <2>1. a \in Word /\ b \in Word /\ c \in Word /\ d \in Word /\ e \in Word
    BY Words
  <2>. HIDE DEF a, b, c, d, e
  <2>2. FiveFirst(a, b, c, d, e, r)
    BY ONLY <2>1, <1>2
  <2>. QED  BY <2>2 DEF FiveFirst, a, b, c, d, e
<1>8. <<"parseExpr", "moreValues", "expectNewline", "caseBody", "cases">> \o r =
           Cons("parseExpr", Cons("moreValues",
               Cons("expectNewline", Cons("caseBody", Cons("cases", r)))))
  <2>. DEFINE a == "parseExpr"
              b == "moreValues"
              c == "expectNewline"
              d == "caseBody"
              e == "cases"
  <2>1. a \in Word /\ b \in Word /\ c \in Word /\ d \in Word /\ e \in Word
    BY Words
  <2>. HIDE DEF a, b, c, d, e
  <2>2. FiveFirst(a, b, c, d, e, r)
    BY ONLY <2>1, <1>2
  <2>. QED  BY <2>2 DEF FiveFirst, a, b, c, d, e
<1>. QED  BY <1>3, <1>4, <1>5, <1>6, <1>7, <1>8

LEMMA LongParts ==
  ASSUME NEW r \in Seq(Word)
  PROVE  /\ (<<"parseExpr">> \o Block) \o r =
              Cons("parseExpr", Cons("expectNewline",
                  Cons("parseBlock", Cons("end", Cons("expectNewline", r)))))
         /\ (<<"ident", "(", "params", ")">> \o Block) \o r =
              Cons("ident", Cons("(", Cons("params", Cons(")",
                  Cons("expectNewline",
                      Cons("parseBlock", Cons("end", Cons("expectNewline", r))))))))
         /\ <<"expectNewline", "tryBody", "catch", "ident", "expectNewline", "handlerBody", "end",
             "expectNewline">> \o r =
              Cons("expectNewline", Cons("tryBody",
                  Cons("catch", Cons("ident",
                      Cons("expectNewline",
                          Cons("handlerBody", Cons("end", Cons("expectNewline", r))))))))
<1>1. \A a \in Word : <<a>> \o r = Cons(a, r)
  BY Spread
<1>2. \A a, b, c, d \in Word : <<a, b, c, d>> \o r = Cons(a, Cons(b, Cons(c, Cons(d, r))))
  BY Spread
<1>3. Block \o r =
           Cons("expectNewline", Cons("parseBlock", Cons("end", Cons("expectNewline", r))))
  <2>1. "expectNewline" \in Word /\ "parseBlock" \in Word /\ "end" \in Word
    BY Words
  <2>2. <<"expectNewline", "parseBlock", "end", "expectNewline">> \o r =
          Cons("expectNewline", Cons("parseBlock", Cons("end", Cons("expectNewline", r))))
    BY ONLY <2>1, <1>2
  <2>. QED  BY ONLY <2>2 DEF Block
<1>. DEFINE z == Block \o r
<1>4. Block \in Seq(Word) /\ z \in Seq(Word)
  <2>1. Block \in Seq(Word)
    BY Tuples, Words DEF Block
  <2>. QED  BY <2>1, ConcatProperties
<1>5. z = Cons("expectNewline", Cons("parseBlock", Cons("end", Cons("expectNewline", r))))
  BY <1>3
<1>6. (<<"parseExpr">> \o Block) \o r = Cons("parseExpr", z)
  <2>1. <<"parseExpr">> \in Seq(Word)
    BY Tuples, Words
  <2>2. (<<"parseExpr">> \o Block) \o r = <<"parseExpr">> \o z
    BY ONLY <2>1, <1>4, r \in Seq(Word), Associative DEF z
  <2>3. \A a \in Word : <<a>> \o z = Cons(a, z)
    <3>. HIDE DEF z
    <3>. QED  BY <1>4, Spread
  <2>4. <<"parseExpr">> \o z = Cons("parseExpr", z)
    <3>1. "parseExpr" \in Word
      BY Words
    <3>. HIDE DEF z
    <3>. QED  BY ONLY <2>3, <3>1
  <2>. QED  BY ONLY <2>2, <2>4
<1>7. (<<"ident", "(", "params", ")">> \o Block) \o r =
         Cons("ident", Cons("(", Cons("params", Cons(")", z))))
  <2>1. <<"ident", "(", "params", ")">> \in Seq(Word)
    BY Tuples, Words
  <2>2. (<<"ident", "(", "params", ")">> \o Block) \o r = <<"ident", "(", "params", ")">> \o z
    BY ONLY <2>1, <1>4, r \in Seq(Word), Associative DEF z
  <2>3. \A a, b, c, d \in Word : <<a, b, c, d>> \o z = Cons(a, Cons(b, Cons(c, Cons(d, z))))
    <3>. HIDE DEF z
    <3>. QED  BY <1>4, Spread
  <2>4. <<"ident", "(", "params", ")">> \o z =
          Cons("ident", Cons("(", Cons("params", Cons(")", z))))
    <3>1. "ident" \in Word /\ "(" \in Word /\ "params" \in Word /\ ")" \in Word
      BY Words
    <3>. HIDE DEF z
    <3>. QED  BY ONLY <2>3, <3>1
  <2>. QED  BY ONLY <2>2, <2>4
<1>8. <<"expectNewline", "tryBody", "catch", "ident", "expectNewline", "handlerBody", "end",
         "expectNewline">> \o r =
        Cons("expectNewline", Cons("tryBody",
            Cons("catch", Cons("ident",
                Cons("expectNewline", Cons("handlerBody",
                    Cons("end", Cons("expectNewline", r))))))))
  <2>. DEFINE a == "expectNewline"
              b == "tryBody"
              c == "catch"
              d == "ident"
              e == "handlerBody"
              f == "end"
  <2>1. a \in Word /\ b \in Word /\ c \in Word /\ d \in Word /\ e \in Word /\ f \in Word
    BY Words
  <2>. HIDE DEF a, b, c, d, e, f
  <2>. DEFINE s == <<a, b, c, d>>
              t == <<a, e, f, a>>
              q == t \o r
  <2>2. <<a, b, c, d, a, e, f, a>> = s \o t
    BY <2>1
  <2>3. s \in Seq(Word) /\ t \in Seq(Word)
    BY <2>1, Tuples
  <2>4. q = Cons(a, Cons(e, Cons(f, Cons(a, r))))
    <3>1. \A i, j, k, l \in Word : <<i, j, k, l>> \o r = Cons(i, Cons(j, Cons(k, Cons(l, r))))
      BY Spread
    <3>. QED  BY <2>1, <3>1
  <2>5. q \in Seq(Word) /\ (s \o t) \o r = s \o q
    <3>. HIDE DEF s, t
    <3>. QED  BY <2>3, ConcatProperties, Associative
  <2>6. s \o q = Cons(a, Cons(b, Cons(c, Cons(d, q))))
    <3>. HIDE DEF q
    <3>1. \A i, j, k, l \in Word : <<i, j, k, l>> \o q = Cons(i, Cons(j, Cons(k, Cons(l, q))))
      BY <2>5, Spread
    <3>. QED  BY <2>1, <3>1
  <2>. HIDE DEF s, t, q
  <2>. QED  BY <2>2, <2>4, <2>5, <2>6 DEF a, b, c, d, e, f
<1>. QED  BY <1>4, <1>5, <1>6, <1>7, <1>8

LEMMA OutcomeOperators ==
  ASSUME NEW r \in Seq(Word), NEW t, NEW repl
  PROVE  /\ t = "+" => Outcome(Cons("operators", r), t, repl) = Cons("expr", r)
         /\ t = "(" =>
              Outcome(Cons("operators", r), t, repl) =
                Cons("items", Cons(")", Cons("operators", r)))
         /\ t = "[" =>
              Outcome(Cons("operators", r), t, repl) =
                Cons("expr", Cons("]", Cons("operators", r)))
         /\ t \notin {"+", "(", "["} =>
              Outcome(Cons("operators", r), t, repl) = Outcome(r, t, repl)
<1>1. /\ t = "+" => Rule("operators", t, repl) = <<<<"expr">>>>
      /\ t = "(" => Rule("operators", t, repl) = <<<<"items", ")", "operators">>>>
      /\ t = "[" => Rule("operators", t, repl) = <<<<"expr", "]", "operators">>>>
      /\ t \notin {"+", "(", "["} => Rule("operators", t, repl) = <<>>
  BY DEF Rule
<1>2. MayBeEmpty("operators", t)
  BY DEF MayBeEmpty
<1>3. t = "eof" => Rule("operators", t, repl) = <<>>
  BY <1>1
<1>4. Outcome(Cons("operators", r), t, repl) =
        IF Rule("operators", t, repl) # <<>> THEN Rule("operators", t, repl)[1] \o r
        ELSE IF MayBeEmpty("operators", t) THEN Outcome(r, t, repl) ELSE Astray
  BY <1>3, OutcomeCons, Words
<1>5. ASSUME t = "+" PROVE Outcome(Cons("operators", r), t, repl) = Cons("expr", r)
  <2>. DEFINE a == <<"expr">>
  <2>1. Rule("operators", t, repl) = <<a>>
    BY <1>1, <1>5
  <2>2. a \o r = Cons("expr", r)
    BY Symbols
  <2>. HIDE DEF a
  <2>3. Rule("operators", t, repl) # <<>> /\ Rule("operators", t, repl)[1] = a
    BY ONLY <2>1
  <2>. QED  BY ONLY <2>2, <2>3, <1>4
<1>6. ASSUME t = "("
      PROVE  Outcome(Cons("operators", r), t, repl) =
               Cons("items", Cons(")", Cons("operators", r)))
  <2>. DEFINE a == <<"items", ")", "operators">>
  <2>1. Rule("operators", t, repl) = <<a>>
    BY <1>1, <1>6
  <2>2. a \o r = Cons("items", Cons(")", Cons("operators", r)))
    BY Symbols
  <2>. HIDE DEF a
  <2>3. Rule("operators", t, repl) # <<>> /\ Rule("operators", t, repl)[1] = a
    BY ONLY <2>1
  <2>. QED  BY ONLY <2>2, <2>3, <1>4
<1>7. ASSUME t = "["
      PROVE  Outcome(Cons("operators", r), t, repl) =
               Cons("expr", Cons("]", Cons("operators", r)))
  <2>. DEFINE a == <<"expr", "]", "operators">>
  <2>1. Rule("operators", t, repl) = <<a>>
    BY <1>1, <1>7
  <2>2. a \o r = Cons("expr", Cons("]", Cons("operators", r)))
    BY Symbols
  <2>. HIDE DEF a
  <2>3. Rule("operators", t, repl) # <<>> /\ Rule("operators", t, repl)[1] = a
    BY ONLY <2>1
  <2>. QED  BY ONLY <2>2, <2>3, <1>4
<1>8. ASSUME t \notin {"+", "(", "["}
      PROVE  Outcome(Cons("operators", r), t, repl) = Outcome(r, t, repl)
  BY <1>1, <1>2, <1>8, <1>4
<1>. QED  BY <1>5, <1>6, <1>7, <1>8

LEMMA OutcomeMoreItems ==
  ASSUME NEW r \in Seq(Word), NEW t, NEW repl
  PROVE  /\ t = "comma" => Outcome(Cons("moreItems", r), t, repl) = Cons("items", r)
         /\ t # "comma" =>
              Outcome(Cons("moreItems", r), t, repl) = Outcome(r, t, repl)
<1>1. /\ t = "comma" => Rule("moreItems", t, repl) = <<<<"items">>>>
      /\ t # "comma" => Rule("moreItems", t, repl) = <<>>
  BY DEF Rule
<1>2. MayBeEmpty("moreItems", t)
  BY DEF MayBeEmpty
<1>3. t = "eof" => Rule("moreItems", t, repl) = <<>>
  BY <1>1
<1>4. Outcome(Cons("moreItems", r), t, repl) =
        IF Rule("moreItems", t, repl) # <<>> THEN Rule("moreItems", t, repl)[1] \o r
        ELSE IF MayBeEmpty("moreItems", t) THEN Outcome(r, t, repl) ELSE Astray
  BY <1>3, OutcomeCons, Words
<1>5. ASSUME t = "comma" PROVE Outcome(Cons("moreItems", r), t, repl) = Cons("items", r)
  <2>. DEFINE a == <<"items">>
  <2>1. Rule("moreItems", t, repl) = <<a>>
    BY <1>1, <1>5
  <2>2. a \o r = Cons("items", r)
    BY Symbols
  <2>. HIDE DEF a
  <2>3. Rule("moreItems", t, repl) # <<>> /\ Rule("moreItems", t, repl)[1] = a
    BY ONLY <2>1
  <2>. QED  BY ONLY <2>2, <2>3, <1>4
<1>6. ASSUME t # "comma" PROVE Outcome(Cons("moreItems", r), t, repl) = Outcome(r, t, repl)
  BY <1>1, <1>2, <1>6, <1>4
<1>. QED  BY <1>5, <1>6

LEMMA OutcomeAction ==
  ASSUME NEW r \in Seq(Word), NEW t, NEW repl
  PROVE  /\ t \in {"=", "+="} => Outcome(Cons("action", r), t, repl) = Cons("expr", r)
         /\ t = "[" =>
              Outcome(Cons("action", r), t, repl) =
                Cons("expr", Cons("]", Cons("element", r)))
         /\ t = "(" =>
              Outcome(Cons("action", r), t, repl) =
                Cons("items", Cons(")", Cons("calls", r)))
         /\ t = "+" /\ repl => Outcome(Cons("action", r), t, repl) = Cons("expr", r)
         /\ t \notin {"=", "+=", "[", "("} /\ ~ (t = "+" /\ repl) =>
              Outcome(Cons("action", r), t, repl) = Outcome(r, t, repl)
<1>1. /\ t \in {"=", "+="} => Rule("action", t, repl) = <<<<"expr">>>>
      /\ t = "[" => Rule("action", t, repl) = <<<<"expr", "]", "element">>>>
      /\ t = "(" => Rule("action", t, repl) = <<<<"items", ")", "calls">>>>
      /\ t = "+" /\ repl => Rule("action", t, repl) = <<<<"expr">>>>
      /\ t \notin {"=", "+=", "[", "("} /\ ~ (t = "+" /\ repl) => Rule("action", t, repl) = <<>>
  BY DEF Rule
<1>2. MayBeEmpty("action", t)
  BY DEF MayBeEmpty
<1>3. t = "eof" => Rule("action", t, repl) = <<>>
  BY <1>1
<1>4. Outcome(Cons("action", r), t, repl) =
        IF Rule("action", t, repl) # <<>> THEN Rule("action", t, repl)[1] \o r
        ELSE IF MayBeEmpty("action", t) THEN Outcome(r, t, repl) ELSE Astray
  BY <1>3, OutcomeCons, Words
<1>5. ASSUME t \in {"=", "+="} PROVE Outcome(Cons("action", r), t, repl) = Cons("expr", r)
  <2>. DEFINE a == <<"expr">>
  <2>1. Rule("action", t, repl) = <<a>>
    BY <1>1, <1>5
  <2>2. a \o r = Cons("expr", r)
    BY Symbols
  <2>. HIDE DEF a
  <2>3. Rule("action", t, repl) # <<>> /\ Rule("action", t, repl)[1] = a
    BY ONLY <2>1
  <2>. QED  BY ONLY <2>2, <2>3, <1>4
<1>6. ASSUME t = "["
      PROVE  Outcome(Cons("action", r), t, repl) =
               Cons("expr", Cons("]", Cons("element", r)))
  <2>. DEFINE a == <<"expr", "]", "element">>
  <2>1. Rule("action", t, repl) = <<a>>
    BY <1>1, <1>6
  <2>2. a \o r = Cons("expr", Cons("]", Cons("element", r)))
    BY Symbols
  <2>. HIDE DEF a
  <2>3. Rule("action", t, repl) # <<>> /\ Rule("action", t, repl)[1] = a
    BY ONLY <2>1
  <2>. QED  BY ONLY <2>2, <2>3, <1>4
<1>7. ASSUME t = "("
      PROVE  Outcome(Cons("action", r), t, repl) =
               Cons("items", Cons(")", Cons("calls", r)))
  <2>. DEFINE a == <<"items", ")", "calls">>
  <2>1. Rule("action", t, repl) = <<a>>
    BY <1>1, <1>7
  <2>2. a \o r = Cons("items", Cons(")", Cons("calls", r)))
    BY Symbols
  <2>. HIDE DEF a
  <2>3. Rule("action", t, repl) # <<>> /\ Rule("action", t, repl)[1] = a
    BY ONLY <2>1
  <2>. QED  BY ONLY <2>2, <2>3, <1>4
<1>8. ASSUME t = "+" /\ repl PROVE Outcome(Cons("action", r), t, repl) = Cons("expr", r)
  <2>. DEFINE a == <<"expr">>
  <2>1. Rule("action", t, repl) = <<a>>
    BY <1>1, <1>8
  <2>2. a \o r = Cons("expr", r)
    BY Symbols
  <2>. HIDE DEF a
  <2>3. Rule("action", t, repl) # <<>> /\ Rule("action", t, repl)[1] = a
    BY ONLY <2>1
  <2>. QED  BY ONLY <2>2, <2>3, <1>4
<1>9. ASSUME t \notin {"=", "+=", "[", "("} /\ ~ (t = "+" /\ repl)
      PROVE  Outcome(Cons("action", r), t, repl) = Outcome(r, t, repl)
  BY <1>1, <1>2, <1>9, <1>4
<1>. QED  BY <1>5, <1>6, <1>7, <1>8, <1>9

LEMMA OutcomeElement ==
  ASSUME NEW r \in Seq(Word), NEW t, NEW repl
  PROVE  /\ t = "=" => Outcome(Cons("element", r), t, repl) = Cons("expr", r)
         /\ t # "=" =>
              Outcome(Cons("element", r), t, repl) = Outcome(r, t, repl)
<1>1. /\ t = "=" => Rule("element", t, repl) = <<<<"expr">>>>
      /\ t # "=" => Rule("element", t, repl) = <<>>
  BY DEF Rule
<1>2. MayBeEmpty("element", t)
  BY DEF MayBeEmpty
<1>3. t = "eof" => Rule("element", t, repl) = <<>>
  BY <1>1
<1>4. Outcome(Cons("element", r), t, repl) =
        IF Rule("element", t, repl) # <<>> THEN Rule("element", t, repl)[1] \o r
        ELSE IF MayBeEmpty("element", t) THEN Outcome(r, t, repl) ELSE Astray
  BY <1>3, OutcomeCons, Words
<1>5. ASSUME t = "=" PROVE Outcome(Cons("element", r), t, repl) = Cons("expr", r)
  <2>. DEFINE a == <<"expr">>
  <2>1. Rule("element", t, repl) = <<a>>
    BY <1>1, <1>5
  <2>2. a \o r = Cons("expr", r)
    BY Symbols
  <2>. HIDE DEF a
  <2>3. Rule("element", t, repl) # <<>> /\ Rule("element", t, repl)[1] = a
    BY ONLY <2>1
  <2>. QED  BY ONLY <2>2, <2>3, <1>4
<1>6. ASSUME t # "=" PROVE Outcome(Cons("element", r), t, repl) = Outcome(r, t, repl)
  BY <1>1, <1>2, <1>6, <1>4
<1>. QED  BY <1>5, <1>6

LEMMA OutcomeCalls ==
  ASSUME NEW r \in Seq(Word), NEW t, NEW repl
  PROVE  /\ t = "(" =>
              Outcome(Cons("calls", r), t, repl) =
                Cons("items", Cons(")", Cons("calls", r)))
         /\ t = "[" /\ repl =>
              Outcome(Cons("calls", r), t, repl) =
                Cons("expr", Cons("]", Cons("indices", r)))
         /\ t = "+" /\ repl => Outcome(Cons("calls", r), t, repl) = Cons("expr", r)
         /\ t # "(" /\ ~ (t \in {"[", "+"} /\ repl) =>
              Outcome(Cons("calls", r), t, repl) = Outcome(r, t, repl)
<1>1. /\ t = "(" => Rule("calls", t, repl) = <<<<"items", ")", "calls">>>>
      /\ t = "[" /\ repl => Rule("calls", t, repl) = <<<<"expr", "]", "indices">>>>
      /\ t = "+" /\ repl => Rule("calls", t, repl) = <<<<"expr">>>>
      /\ t # "(" /\ ~ (t \in {"[", "+"} /\ repl) => Rule("calls", t, repl) = <<>>
  BY DEF Rule
<1>2. MayBeEmpty("calls", t)
  BY DEF MayBeEmpty
<1>3. t = "eof" => Rule("calls", t, repl) = <<>>
  BY <1>1
<1>4. Outcome(Cons("calls", r), t, repl) =
        IF Rule("calls", t, repl) # <<>> THEN Rule("calls", t, repl)[1] \o r
        ELSE IF MayBeEmpty("calls", t) THEN Outcome(r, t, repl) ELSE Astray
  BY <1>3, OutcomeCons, Words
<1>5. ASSUME t = "("
      PROVE  Outcome(Cons("calls", r), t, repl) =
               Cons("items", Cons(")", Cons("calls", r)))
  <2>. DEFINE a == <<"items", ")", "calls">>
  <2>1. Rule("calls", t, repl) = <<a>>
    BY <1>1, <1>5
  <2>2. a \o r = Cons("items", Cons(")", Cons("calls", r)))
    BY Symbols
  <2>. HIDE DEF a
  <2>3. Rule("calls", t, repl) # <<>> /\ Rule("calls", t, repl)[1] = a
    BY ONLY <2>1
  <2>. QED  BY ONLY <2>2, <2>3, <1>4
<1>6. ASSUME t = "[" /\ repl
      PROVE  Outcome(Cons("calls", r), t, repl) =
               Cons("expr", Cons("]", Cons("indices", r)))
  <2>. DEFINE a == <<"expr", "]", "indices">>
  <2>1. Rule("calls", t, repl) = <<a>>
    BY <1>1, <1>6
  <2>2. a \o r = Cons("expr", Cons("]", Cons("indices", r)))
    BY Symbols
  <2>. HIDE DEF a
  <2>3. Rule("calls", t, repl) # <<>> /\ Rule("calls", t, repl)[1] = a
    BY ONLY <2>1
  <2>. QED  BY ONLY <2>2, <2>3, <1>4
<1>7. ASSUME t = "+" /\ repl PROVE Outcome(Cons("calls", r), t, repl) = Cons("expr", r)
  <2>. DEFINE a == <<"expr">>
  <2>1. Rule("calls", t, repl) = <<a>>
    BY <1>1, <1>7
  <2>2. a \o r = Cons("expr", r)
    BY Symbols
  <2>. HIDE DEF a
  <2>3. Rule("calls", t, repl) # <<>> /\ Rule("calls", t, repl)[1] = a
    BY ONLY <2>1
  <2>. QED  BY ONLY <2>2, <2>3, <1>4
<1>8. ASSUME t # "(" /\ ~ (t \in {"[", "+"} /\ repl)
      PROVE  Outcome(Cons("calls", r), t, repl) = Outcome(r, t, repl)
  BY <1>1, <1>2, <1>8, <1>4
<1>. QED  BY <1>5, <1>6, <1>7, <1>8

LEMMA OutcomeIndices ==
  ASSUME NEW r \in Seq(Word), NEW t, NEW repl
  PROVE  /\ t = "[" =>
              Outcome(Cons("indices", r), t, repl) =
                Cons("expr", Cons("]", Cons("indices", r)))
         /\ t = "+" => Outcome(Cons("indices", r), t, repl) = Cons("expr", r)
         /\ t \notin {"[", "+"} =>
              Outcome(Cons("indices", r), t, repl) = Outcome(r, t, repl)
<1>1. /\ t = "[" => Rule("indices", t, repl) = <<<<"expr", "]", "indices">>>>
      /\ t = "+" => Rule("indices", t, repl) = <<<<"expr">>>>
      /\ t \notin {"[", "+"} => Rule("indices", t, repl) = <<>>
  BY DEF Rule
<1>2. MayBeEmpty("indices", t)
  BY DEF MayBeEmpty
<1>3. t = "eof" => Rule("indices", t, repl) = <<>>
  BY <1>1
<1>4. Outcome(Cons("indices", r), t, repl) =
        IF Rule("indices", t, repl) # <<>> THEN Rule("indices", t, repl)[1] \o r
        ELSE IF MayBeEmpty("indices", t) THEN Outcome(r, t, repl) ELSE Astray
  BY <1>3, OutcomeCons, Words
<1>5. ASSUME t = "["
      PROVE  Outcome(Cons("indices", r), t, repl) =
               Cons("expr", Cons("]", Cons("indices", r)))
  <2>. DEFINE a == <<"expr", "]", "indices">>
  <2>1. Rule("indices", t, repl) = <<a>>
    BY <1>1, <1>5
  <2>2. a \o r = Cons("expr", Cons("]", Cons("indices", r)))
    BY Symbols
  <2>. HIDE DEF a
  <2>3. Rule("indices", t, repl) # <<>> /\ Rule("indices", t, repl)[1] = a
    BY ONLY <2>1
  <2>. QED  BY ONLY <2>2, <2>3, <1>4
<1>6. ASSUME t = "+" PROVE Outcome(Cons("indices", r), t, repl) = Cons("expr", r)
  <2>. DEFINE a == <<"expr">>
  <2>1. Rule("indices", t, repl) = <<a>>
    BY <1>1, <1>6
  <2>2. a \o r = Cons("expr", r)
    BY Symbols
  <2>. HIDE DEF a
  <2>3. Rule("indices", t, repl) # <<>> /\ Rule("indices", t, repl)[1] = a
    BY ONLY <2>1
  <2>. QED  BY ONLY <2>2, <2>3, <1>4
<1>7. ASSUME t \notin {"[", "+"}
      PROVE  Outcome(Cons("indices", r), t, repl) = Outcome(r, t, repl)
  BY <1>1, <1>2, <1>7, <1>4
<1>. QED  BY <1>5, <1>6, <1>7

LEMMA OutcomeBranches ==
  ASSUME NEW r \in Seq(Word), NEW t, NEW repl
  PROVE  /\ t = "newline" =>
              Outcome(Cons("branches", r), t, repl) =
                Cons("statements", Cons("otherwise", Cons("end", Cons("line", r))))
         /\ t = "then" =>
              Outcome(Cons("branches", r), t, repl) =
                Cons("one", Cons("orOne", Cons("end", Cons("line", r))))
         /\ t = "else" =>
              Outcome(Cons("branches", r), t, repl) =
                Cons("line", Cons("statements", Cons("end", Cons("line", r))))
         /\ t = "end" => Outcome(Cons("branches", r), t, repl) = Cons("line", r)
         /\ t \notin {"newline", "then", "else", "end"} =>
              Outcome(Cons("branches", r), t, repl) = Astray
<1>1. /\ t = "newline" => Rule("branches", t, repl) =
         <<<<"statements", "otherwise", "end", "line">>>>
      /\ t = "then" => Rule("branches", t, repl) = <<<<"one", "orOne", "end", "line">>>>
      /\ t = "else" => Rule("branches", t, repl) = <<Body>>
      /\ t = "end" => Rule("branches", t, repl) = <<<<"line">>>>
      /\ t \notin {"newline", "then", "else", "end"} => Rule("branches", t, repl) = <<>>
  BY DEF Rule
<1>2. ~ MayBeEmpty("branches", t)
  BY DEF MayBeEmpty
<1>3. t = "eof" => Rule("branches", t, repl) = <<>>
  BY <1>1
<1>4. Outcome(Cons("branches", r), t, repl) =
        IF Rule("branches", t, repl) # <<>> THEN Rule("branches", t, repl)[1] \o r
        ELSE IF MayBeEmpty("branches", t) THEN Outcome(r, t, repl) ELSE Astray
  BY <1>3, OutcomeCons, Words
<1>5. ASSUME t = "newline"
      PROVE  Outcome(Cons("branches", r), t, repl) =
               Cons("statements", Cons("otherwise", Cons("end", Cons("line", r))))
  <2>. DEFINE a == <<"statements", "otherwise", "end", "line">>
  <2>1. Rule("branches", t, repl) = <<a>>
    BY <1>1, <1>5
  <2>2. a \o r = Cons("statements", Cons("otherwise", Cons("end", Cons("line", r))))
    BY Symbols
  <2>. HIDE DEF a
  <2>3. Rule("branches", t, repl) # <<>> /\ Rule("branches", t, repl)[1] = a
    BY ONLY <2>1
  <2>. QED  BY ONLY <2>2, <2>3, <1>4
<1>6. ASSUME t = "then"
      PROVE  Outcome(Cons("branches", r), t, repl) =
               Cons("one", Cons("orOne", Cons("end", Cons("line", r))))
  <2>. DEFINE a == <<"one", "orOne", "end", "line">>
  <2>1. Rule("branches", t, repl) = <<a>>
    BY <1>1, <1>6
  <2>2. a \o r = Cons("one", Cons("orOne", Cons("end", Cons("line", r))))
    BY Symbols
  <2>. HIDE DEF a
  <2>3. Rule("branches", t, repl) # <<>> /\ Rule("branches", t, repl)[1] = a
    BY ONLY <2>1
  <2>. QED  BY ONLY <2>2, <2>3, <1>4
<1>7. ASSUME t = "else"
      PROVE  Outcome(Cons("branches", r), t, repl) =
               Cons("line", Cons("statements", Cons("end", Cons("line", r))))
  <2>. DEFINE a == Body
  <2>1. Rule("branches", t, repl) = <<a>>
    BY <1>1, <1>7
  <2>2. a \o r = Cons("line", Cons("statements", Cons("end", Cons("line", r))))
    BY Symbols
  <2>. HIDE DEF a
  <2>3. Rule("branches", t, repl) # <<>> /\ Rule("branches", t, repl)[1] = a
    BY ONLY <2>1
  <2>. QED  BY ONLY <2>2, <2>3, <1>4
<1>8. ASSUME t = "end" PROVE Outcome(Cons("branches", r), t, repl) = Cons("line", r)
  <2>. DEFINE a == <<"line">>
  <2>1. Rule("branches", t, repl) = <<a>>
    BY <1>1, <1>8
  <2>2. a \o r = Cons("line", r)
    BY Symbols
  <2>. HIDE DEF a
  <2>3. Rule("branches", t, repl) # <<>> /\ Rule("branches", t, repl)[1] = a
    BY ONLY <2>1
  <2>. QED  BY ONLY <2>2, <2>3, <1>4
<1>9. ASSUME t \notin {"newline", "then", "else", "end"}
      PROVE  Outcome(Cons("branches", r), t, repl) = Astray
  BY <1>1, <1>2, <1>9, <1>4
<1>. QED  BY <1>5, <1>6, <1>7, <1>8, <1>9

LEMMA OutcomeOtherwise ==
  ASSUME NEW r \in Seq(Word), NEW t, NEW repl
  PROVE  /\ t = "else" =>
              Outcome(Cons("otherwise", r), t, repl) =
                Cons("line", Cons("statements", r))
         /\ t # "else" =>
              Outcome(Cons("otherwise", r), t, repl) = Outcome(r, t, repl)
<1>1. /\ t = "else" => Rule("otherwise", t, repl) = <<<<"line", "statements">>>>
      /\ t # "else" => Rule("otherwise", t, repl) = <<>>
  BY DEF Rule
<1>2. MayBeEmpty("otherwise", t)
  BY DEF MayBeEmpty
<1>3. t = "eof" => Rule("otherwise", t, repl) = <<>>
  BY <1>1
<1>4. Outcome(Cons("otherwise", r), t, repl) =
        IF Rule("otherwise", t, repl) # <<>> THEN Rule("otherwise", t, repl)[1] \o r
        ELSE IF MayBeEmpty("otherwise", t) THEN Outcome(r, t, repl) ELSE Astray
  BY <1>3, OutcomeCons, Words
<1>5. ASSUME t = "else"
      PROVE  Outcome(Cons("otherwise", r), t, repl) =
               Cons("line", Cons("statements", r))
  <2>. DEFINE a == <<"line", "statements">>
  <2>1. Rule("otherwise", t, repl) = <<a>>
    BY <1>1, <1>5
  <2>2. a \o r = Cons("line", Cons("statements", r))
    BY Symbols
  <2>. HIDE DEF a
  <2>3. Rule("otherwise", t, repl) # <<>> /\ Rule("otherwise", t, repl)[1] = a
    BY ONLY <2>1
  <2>. QED  BY ONLY <2>2, <2>3, <1>4
<1>6. ASSUME t # "else" PROVE Outcome(Cons("otherwise", r), t, repl) = Outcome(r, t, repl)
  BY <1>1, <1>2, <1>6, <1>4
<1>. QED  BY <1>5, <1>6

LEMMA OutcomeOrOne ==
  ASSUME NEW r \in Seq(Word), NEW t, NEW repl
  PROVE  /\ t = "else" => Outcome(Cons("orOne", r), t, repl) = Cons("one", r)
         /\ t # "else" =>
              Outcome(Cons("orOne", r), t, repl) = Outcome(r, t, repl)
<1>1. /\ t = "else" => Rule("orOne", t, repl) = <<<<"one">>>>
      /\ t # "else" => Rule("orOne", t, repl) = <<>>
  BY DEF Rule
<1>2. MayBeEmpty("orOne", t)
  BY DEF MayBeEmpty
<1>3. t = "eof" => Rule("orOne", t, repl) = <<>>
  BY <1>1
<1>4. Outcome(Cons("orOne", r), t, repl) =
        IF Rule("orOne", t, repl) # <<>> THEN Rule("orOne", t, repl)[1] \o r
        ELSE IF MayBeEmpty("orOne", t) THEN Outcome(r, t, repl) ELSE Astray
  BY <1>3, OutcomeCons, Words
<1>5. ASSUME t = "else" PROVE Outcome(Cons("orOne", r), t, repl) = Cons("one", r)
  <2>. DEFINE a == <<"one">>
  <2>1. Rule("orOne", t, repl) = <<a>>
    BY <1>1, <1>5
  <2>2. a \o r = Cons("one", r)
    BY Symbols
  <2>. HIDE DEF a
  <2>3. Rule("orOne", t, repl) # <<>> /\ Rule("orOne", t, repl)[1] = a
    BY ONLY <2>1
  <2>. QED  BY ONLY <2>2, <2>3, <1>4
<1>6. ASSUME t # "else" PROVE Outcome(Cons("orOne", r), t, repl) = Outcome(r, t, repl)
  BY <1>1, <1>2, <1>6, <1>4
<1>. QED  BY <1>5, <1>6

LEMMA OutcomeRange ==
  ASSUME NEW r \in Seq(Word), NEW t, NEW repl
  PROVE  /\ t = "in" =>
              Outcome(Cons("range", r), t, repl) =
                Cons("expr", Cons("line", Cons("statements", Cons("end", Cons("line", r)))))
         /\ t = "=" =>
              Outcome(Cons("range", r), t, repl) =
                Cons("expr", Cons("to",
                    Cons("expr", Cons("increment",
                        Cons("line", Cons("statements", Cons("end", Cons("line", r))))))))
         /\ t \notin {"in", "="} =>
              Outcome(Cons("range", r), t, repl) = Astray
<1>1. /\ t = "in" => Rule("range", t, repl) = <<<<"expr">> \o Body>>
      /\ t = "=" => Rule("range", t, repl) = <<<<"expr", "to", "expr", "increment">> \o Body>>
      /\ t \notin {"in", "="} => Rule("range", t, repl) = <<>>
  BY DEF Rule
<1>2. ~ MayBeEmpty("range", t)
  BY DEF MayBeEmpty
<1>3. t = "eof" => Rule("range", t, repl) = <<>>
  BY <1>1
<1>4. Outcome(Cons("range", r), t, repl) =
        IF Rule("range", t, repl) # <<>> THEN Rule("range", t, repl)[1] \o r
        ELSE IF MayBeEmpty("range", t) THEN Outcome(r, t, repl) ELSE Astray
  BY <1>3, OutcomeCons, Words
<1>5. ASSUME t = "in"
      PROVE  Outcome(Cons("range", r), t, repl) =
               Cons("expr", Cons("line", Cons("statements", Cons("end", Cons("line", r)))))
  <2>. DEFINE a == <<"expr">> \o Body
  <2>1. Rule("range", t, repl) = <<a>>
    BY <1>1, <1>5
  <2>2. a \o r = Cons("expr", Cons("line", Cons("statements", Cons("end", Cons("line", r)))))
    BY Symbols
  <2>. HIDE DEF a
  <2>3. Rule("range", t, repl) # <<>> /\ Rule("range", t, repl)[1] = a
    BY ONLY <2>1
  <2>. QED  BY ONLY <2>2, <2>3, <1>4
<1>6. ASSUME t = "="
      PROVE  Outcome(Cons("range", r), t, repl) =
               Cons("expr", Cons("to", Cons("expr",
                   Cons("increment", Cons("line",
                       Cons("statements", Cons("end", Cons("line", r))))))))
  <2>. DEFINE a == <<"expr", "to", "expr", "increment">> \o Body
  <2>1. Rule("range", t, repl) = <<a>>
    BY <1>1, <1>6
  <2>2. a \o r = Cons("expr", Cons("to",
          Cons("expr", Cons("increment",
              Cons("line", Cons("statements", Cons("end", Cons("line", r))))))))
    BY Symbols
  <2>. HIDE DEF a
  <2>3. Rule("range", t, repl) # <<>> /\ Rule("range", t, repl)[1] = a
    BY ONLY <2>1
  <2>. QED  BY ONLY <2>2, <2>3, <1>4
<1>7. ASSUME t \notin {"in", "="} PROVE Outcome(Cons("range", r), t, repl) = Astray
  BY <1>1, <1>2, <1>7, <1>4
<1>. QED  BY <1>5, <1>6, <1>7

LEMMA OutcomeIncrement ==
  ASSUME NEW r \in Seq(Word), NEW t, NEW repl
  PROVE  /\ t = "step" => Outcome(Cons("increment", r), t, repl) = Cons("expr", r)
         /\ t # "step" =>
              Outcome(Cons("increment", r), t, repl) = Outcome(r, t, repl)
<1>1. /\ t = "step" => Rule("increment", t, repl) = <<<<"expr">>>>
      /\ t # "step" => Rule("increment", t, repl) = <<>>
  BY DEF Rule
<1>2. MayBeEmpty("increment", t)
  BY DEF MayBeEmpty
<1>3. t = "eof" => Rule("increment", t, repl) = <<>>
  BY <1>1
<1>4. Outcome(Cons("increment", r), t, repl) =
        IF Rule("increment", t, repl) # <<>> THEN Rule("increment", t, repl)[1] \o r
        ELSE IF MayBeEmpty("increment", t) THEN Outcome(r, t, repl) ELSE Astray
  BY <1>3, OutcomeCons, Words
<1>5. ASSUME t = "step" PROVE Outcome(Cons("increment", r), t, repl) = Cons("expr", r)
  <2>. DEFINE a == <<"expr">>
  <2>1. Rule("increment", t, repl) = <<a>>
    BY <1>1, <1>5
  <2>2. a \o r = Cons("expr", r)
    BY Symbols
  <2>. HIDE DEF a
  <2>3. Rule("increment", t, repl) # <<>> /\ Rule("increment", t, repl)[1] = a
    BY ONLY <2>1
  <2>. QED  BY ONLY <2>2, <2>3, <1>4
<1>6. ASSUME t # "step" PROVE Outcome(Cons("increment", r), t, repl) = Outcome(r, t, repl)
  BY <1>1, <1>2, <1>6, <1>4
<1>. QED  BY <1>5, <1>6

LEMMA OutcomeParams ==
  ASSUME NEW r \in Seq(Word), NEW t, NEW repl
  PROVE  /\ t \in Names => Outcome(Cons("params", r), t, repl) = Cons("default", r)
         /\ t \notin Names =>
              Outcome(Cons("params", r), t, repl) = Outcome(r, t, repl)
<1>1. /\ t \in Names => Rule("params", t, repl) = <<<<"default">>>>
      /\ t \notin Names => Rule("params", t, repl) = <<>>
  BY DEF Rule
<1>2. MayBeEmpty("params", t)
  BY DEF MayBeEmpty
<1>3. t = "eof" => Rule("params", t, repl) = <<>>
  BY <1>1 DEF Names
<1>4. Outcome(Cons("params", r), t, repl) =
        IF Rule("params", t, repl) # <<>> THEN Rule("params", t, repl)[1] \o r
        ELSE IF MayBeEmpty("params", t) THEN Outcome(r, t, repl) ELSE Astray
  BY <1>3, OutcomeCons, Words
<1>5. ASSUME t \in Names PROVE Outcome(Cons("params", r), t, repl) = Cons("default", r)
  <2>. DEFINE a == <<"default">>
  <2>1. Rule("params", t, repl) = <<a>>
    BY <1>1, <1>5
  <2>2. a \o r = Cons("default", r)
    BY Symbols
  <2>. HIDE DEF a
  <2>3. Rule("params", t, repl) # <<>> /\ Rule("params", t, repl)[1] = a
    BY ONLY <2>1
  <2>. QED  BY ONLY <2>2, <2>3, <1>4
<1>6. ASSUME t \notin Names PROVE Outcome(Cons("params", r), t, repl) = Outcome(r, t, repl)
  BY <1>1, <1>2, <1>6, <1>4
<1>. QED  BY <1>5, <1>6

LEMMA OutcomeDefault ==
  ASSUME NEW r \in Seq(Word), NEW t, NEW repl
  PROVE  /\ t = "=" =>
              Outcome(Cons("default", r), t, repl) =
                Cons("expr", Cons("moreDefaults", r))
         /\ t = "comma" => Outcome(Cons("default", r), t, repl) = Cons("params", r)
         /\ t \notin {"=", "comma"} =>
              Outcome(Cons("default", r), t, repl) = Outcome(r, t, repl)
<1>1. /\ t = "=" => Rule("default", t, repl) = <<<<"expr", "moreDefaults">>>>
      /\ t = "comma" => Rule("default", t, repl) = <<<<"params">>>>
      /\ t \notin {"=", "comma"} => Rule("default", t, repl) = <<>>
  BY DEF Rule
<1>2. MayBeEmpty("default", t)
  BY DEF MayBeEmpty
<1>3. t = "eof" => Rule("default", t, repl) = <<>>
  BY <1>1
<1>4. Outcome(Cons("default", r), t, repl) =
        IF Rule("default", t, repl) # <<>> THEN Rule("default", t, repl)[1] \o r
        ELSE IF MayBeEmpty("default", t) THEN Outcome(r, t, repl) ELSE Astray
  BY <1>3, OutcomeCons, Words
<1>5. ASSUME t = "="
      PROVE  Outcome(Cons("default", r), t, repl) =
               Cons("expr", Cons("moreDefaults", r))
  <2>. DEFINE a == <<"expr", "moreDefaults">>
  <2>1. Rule("default", t, repl) = <<a>>
    BY <1>1, <1>5
  <2>2. a \o r = Cons("expr", Cons("moreDefaults", r))
    BY Symbols
  <2>. HIDE DEF a
  <2>3. Rule("default", t, repl) # <<>> /\ Rule("default", t, repl)[1] = a
    BY ONLY <2>1
  <2>. QED  BY ONLY <2>2, <2>3, <1>4
<1>6. ASSUME t = "comma" PROVE Outcome(Cons("default", r), t, repl) = Cons("params", r)
  <2>. DEFINE a == <<"params">>
  <2>1. Rule("default", t, repl) = <<a>>
    BY <1>1, <1>6
  <2>2. a \o r = Cons("params", r)
    BY Symbols
  <2>. HIDE DEF a
  <2>3. Rule("default", t, repl) # <<>> /\ Rule("default", t, repl)[1] = a
    BY ONLY <2>1
  <2>. QED  BY ONLY <2>2, <2>3, <1>4
<1>7. ASSUME t \notin {"=", "comma"}
      PROVE  Outcome(Cons("default", r), t, repl) = Outcome(r, t, repl)
  BY <1>1, <1>2, <1>7, <1>4
<1>. QED  BY <1>5, <1>6, <1>7

LEMMA OutcomeMoreDefaults ==
  ASSUME NEW r \in Seq(Word), NEW t, NEW repl
  PROVE  /\ t = "comma" => Outcome(Cons("moreDefaults", r), t, repl) = Cons("defaults", r)
         /\ t # "comma" =>
              Outcome(Cons("moreDefaults", r), t, repl) = Outcome(r, t, repl)
<1>1. /\ t = "comma" => Rule("moreDefaults", t, repl) = <<<<"defaults">>>>
      /\ t # "comma" => Rule("moreDefaults", t, repl) = <<>>
  BY DEF Rule
<1>2. MayBeEmpty("moreDefaults", t)
  BY DEF MayBeEmpty
<1>3. t = "eof" => Rule("moreDefaults", t, repl) = <<>>
  BY <1>1
<1>4. Outcome(Cons("moreDefaults", r), t, repl) =
        IF Rule("moreDefaults", t, repl) # <<>> THEN Rule("moreDefaults", t, repl)[1] \o r
        ELSE IF MayBeEmpty("moreDefaults", t) THEN Outcome(r, t, repl) ELSE Astray
  BY <1>3, OutcomeCons, Words
<1>5. ASSUME t = "comma" PROVE Outcome(Cons("moreDefaults", r), t, repl) = Cons("defaults", r)
  <2>. DEFINE a == <<"defaults">>
  <2>1. Rule("moreDefaults", t, repl) = <<a>>
    BY <1>1, <1>5
  <2>2. a \o r = Cons("defaults", r)
    BY Symbols
  <2>. HIDE DEF a
  <2>3. Rule("moreDefaults", t, repl) # <<>> /\ Rule("moreDefaults", t, repl)[1] = a
    BY ONLY <2>1
  <2>. QED  BY ONLY <2>2, <2>3, <1>4
<1>6. ASSUME t # "comma" PROVE Outcome(Cons("moreDefaults", r), t, repl) = Outcome(r, t, repl)
  BY <1>1, <1>2, <1>6, <1>4
<1>. QED  BY <1>5, <1>6

LEMMA OutcomeDefaults ==
  ASSUME NEW r \in Seq(Word), NEW t, NEW repl
  PROVE  /\ t \in Names =>
              Outcome(Cons("defaults", r), t, repl) =
                Cons("=", Cons("expr", Cons("moreDefaults", r)))
         /\ t \notin Names =>
              Outcome(Cons("defaults", r), t, repl) = Outcome(r, t, repl)
<1>1. /\ t \in Names => Rule("defaults", t, repl) = <<<<"=", "expr", "moreDefaults">>>>
      /\ t \notin Names => Rule("defaults", t, repl) = <<>>
  BY DEF Rule
<1>2. MayBeEmpty("defaults", t)
  BY DEF MayBeEmpty
<1>3. t = "eof" => Rule("defaults", t, repl) = <<>>
  BY <1>1 DEF Names
<1>4. Outcome(Cons("defaults", r), t, repl) =
        IF Rule("defaults", t, repl) # <<>> THEN Rule("defaults", t, repl)[1] \o r
        ELSE IF MayBeEmpty("defaults", t) THEN Outcome(r, t, repl) ELSE Astray
  BY <1>3, OutcomeCons, Words
<1>5. ASSUME t \in Names
      PROVE  Outcome(Cons("defaults", r), t, repl) =
               Cons("=", Cons("expr", Cons("moreDefaults", r)))
  <2>. DEFINE a == <<"=", "expr", "moreDefaults">>
  <2>1. Rule("defaults", t, repl) = <<a>>
    BY <1>1, <1>5
  <2>2. a \o r = Cons("=", Cons("expr", Cons("moreDefaults", r)))
    BY Symbols
  <2>. HIDE DEF a
  <2>3. Rule("defaults", t, repl) # <<>> /\ Rule("defaults", t, repl)[1] = a
    BY ONLY <2>1
  <2>. QED  BY ONLY <2>2, <2>3, <1>4
<1>6. ASSUME t \notin Names PROVE Outcome(Cons("defaults", r), t, repl) = Outcome(r, t, repl)
  BY <1>1, <1>2, <1>6, <1>4
<1>. QED  BY <1>5, <1>6

LEMMA OutcomePath ==
  ASSUME NEW r \in Seq(Word), NEW t, NEW repl
  PROVE  /\ t = "string" => Outcome(Cons("path", r), t, repl) = r
         /\ t \in Names => Outcome(Cons("path", r), t, repl) = Cons("segments", r)
         /\ t # "string" /\ t \notin Names =>
              Outcome(Cons("path", r), t, repl) = Astray
<1>1. /\ t = "string" => Rule("path", t, repl) = <<<<>>>>
      /\ t \in Names => Rule("path", t, repl) = <<<<"segments">>>>
      /\ t # "string" /\ t \notin Names => Rule("path", t, repl) = <<>>
  BY DEF Rule, Names
<1>2. ~ MayBeEmpty("path", t)
  BY DEF MayBeEmpty
<1>3. t = "eof" => Rule("path", t, repl) = <<>>
  BY <1>1 DEF Names
<1>4. Outcome(Cons("path", r), t, repl) =
        IF Rule("path", t, repl) # <<>> THEN Rule("path", t, repl)[1] \o r
        ELSE IF MayBeEmpty("path", t) THEN Outcome(r, t, repl) ELSE Astray
  BY <1>3, OutcomeCons, Words
<1>5. ASSUME t = "string" PROVE Outcome(Cons("path", r), t, repl) = r
  <2>. DEFINE a == <<>>
  <2>1. Rule("path", t, repl) = <<a>>
    BY <1>1, <1>5
  <2>2. a \o r = r
    BY Symbols, Spread
  <2>. HIDE DEF a
  <2>3. Rule("path", t, repl) # <<>> /\ Rule("path", t, repl)[1] = a
    BY ONLY <2>1
  <2>. QED  BY ONLY <2>2, <2>3, <1>4
<1>6. ASSUME t \in Names PROVE Outcome(Cons("path", r), t, repl) = Cons("segments", r)
  <2>. DEFINE a == <<"segments">>
  <2>1. Rule("path", t, repl) = <<a>>
    BY <1>1, <1>6
  <2>2. a \o r = Cons("segments", r)
    BY Symbols
  <2>. HIDE DEF a
  <2>3. Rule("path", t, repl) # <<>> /\ Rule("path", t, repl)[1] = a
    BY ONLY <2>1
  <2>. QED  BY ONLY <2>2, <2>3, <1>4
<1>7. ASSUME t # "string" /\ t \notin Names PROVE Outcome(Cons("path", r), t, repl) = Astray
  BY <1>1, <1>2, <1>7, <1>4
<1>. QED  BY <1>5, <1>6, <1>7

LEMMA OutcomeSegments ==
  ASSUME NEW r \in Seq(Word), NEW t, NEW repl
  PROVE  /\ t = "/" => Outcome(Cons("segments", r), t, repl) = Cons("segment", r)
         /\ t # "/" =>
              Outcome(Cons("segments", r), t, repl) = Outcome(r, t, repl)
<1>1. /\ t = "/" => Rule("segments", t, repl) = <<<<"segment">>>>
      /\ t # "/" => Rule("segments", t, repl) = <<>>
  BY DEF Rule
<1>2. MayBeEmpty("segments", t)
  BY DEF MayBeEmpty
<1>3. t = "eof" => Rule("segments", t, repl) = <<>>
  BY <1>1
<1>4. Outcome(Cons("segments", r), t, repl) =
        IF Rule("segments", t, repl) # <<>> THEN Rule("segments", t, repl)[1] \o r
        ELSE IF MayBeEmpty("segments", t) THEN Outcome(r, t, repl) ELSE Astray
  BY <1>3, OutcomeCons, Words
<1>5. ASSUME t = "/" PROVE Outcome(Cons("segments", r), t, repl) = Cons("segment", r)
  <2>. DEFINE a == <<"segment">>
  <2>1. Rule("segments", t, repl) = <<a>>
    BY <1>1, <1>5
  <2>2. a \o r = Cons("segment", r)
    BY Symbols
  <2>. HIDE DEF a
  <2>3. Rule("segments", t, repl) # <<>> /\ Rule("segments", t, repl)[1] = a
    BY ONLY <2>1
  <2>. QED  BY ONLY <2>2, <2>3, <1>4
<1>6. ASSUME t # "/" PROVE Outcome(Cons("segments", r), t, repl) = Outcome(r, t, repl)
  BY <1>1, <1>2, <1>6, <1>4
<1>. QED  BY <1>5, <1>6

LEMMA OutcomeSegment ==
  ASSUME NEW r \in Seq(Word), NEW t, NEW repl
  PROVE  /\ t \in Names => Outcome(Cons("segment", r), t, repl) = Cons("segments", r)
         /\ t \notin Names =>
              Outcome(Cons("segment", r), t, repl) = Outcome(r, t, repl)
<1>1. /\ t \in Names => Rule("segment", t, repl) = <<<<"segments">>>>
      /\ t \notin Names => Rule("segment", t, repl) = <<>>
  BY DEF Rule
<1>2. MayBeEmpty("segment", t)
  BY DEF MayBeEmpty
<1>3. t = "eof" => Rule("segment", t, repl) = <<>>
  BY <1>1 DEF Names
<1>4. Outcome(Cons("segment", r), t, repl) =
        IF Rule("segment", t, repl) # <<>> THEN Rule("segment", t, repl)[1] \o r
        ELSE IF MayBeEmpty("segment", t) THEN Outcome(r, t, repl) ELSE Astray
  BY <1>3, OutcomeCons, Words
<1>5. ASSUME t \in Names PROVE Outcome(Cons("segment", r), t, repl) = Cons("segments", r)
  <2>. DEFINE a == <<"segments">>
  <2>1. Rule("segment", t, repl) = <<a>>
    BY <1>1, <1>5
  <2>2. a \o r = Cons("segments", r)
    BY Symbols
  <2>. HIDE DEF a
  <2>3. Rule("segment", t, repl) # <<>> /\ Rule("segment", t, repl)[1] = a
    BY ONLY <2>1
  <2>. QED  BY ONLY <2>2, <2>3, <1>4
<1>6. ASSUME t \notin Names PROVE Outcome(Cons("segment", r), t, repl) = Outcome(r, t, repl)
  BY <1>1, <1>2, <1>6, <1>4
<1>. QED  BY <1>5, <1>6

LEMMA OutcomeNames ==
  ASSUME NEW r \in Seq(Word), NEW t, NEW repl
  PROVE  /\ t = "comma" => Outcome(Cons("names", r), t, repl) = Cons("name", r)
         /\ t # "comma" =>
              Outcome(Cons("names", r), t, repl) = Outcome(r, t, repl)
<1>1. /\ t = "comma" => Rule("names", t, repl) = <<<<"name">>>>
      /\ t # "comma" => Rule("names", t, repl) = <<>>
  BY DEF Rule
<1>2. MayBeEmpty("names", t)
  BY DEF MayBeEmpty
<1>3. t = "eof" => Rule("names", t, repl) = <<>>
  BY <1>1
<1>4. Outcome(Cons("names", r), t, repl) =
        IF Rule("names", t, repl) # <<>> THEN Rule("names", t, repl)[1] \o r
        ELSE IF MayBeEmpty("names", t) THEN Outcome(r, t, repl) ELSE Astray
  BY <1>3, OutcomeCons, Words
<1>5. ASSUME t = "comma" PROVE Outcome(Cons("names", r), t, repl) = Cons("name", r)
  <2>. DEFINE a == <<"name">>
  <2>1. Rule("names", t, repl) = <<a>>
    BY <1>1, <1>5
  <2>2. a \o r = Cons("name", r)
    BY Symbols
  <2>. HIDE DEF a
  <2>3. Rule("names", t, repl) # <<>> /\ Rule("names", t, repl)[1] = a
    BY ONLY <2>1
  <2>. QED  BY ONLY <2>2, <2>3, <1>4
<1>6. ASSUME t # "comma" PROVE Outcome(Cons("names", r), t, repl) = Outcome(r, t, repl)
  BY <1>1, <1>2, <1>6, <1>4
<1>. QED  BY <1>5, <1>6

LEMMA OutcomeName ==
  ASSUME NEW r \in Seq(Word), NEW t, NEW repl
  PROVE  /\ t \in Names => Outcome(Cons("name", r), t, repl) = Cons("names", r)
         /\ t \notin Names =>
              Outcome(Cons("name", r), t, repl) = Outcome(r, t, repl)
<1>1. /\ t \in Names => Rule("name", t, repl) = <<<<"names">>>>
      /\ t \notin Names => Rule("name", t, repl) = <<>>
  BY DEF Rule
<1>2. MayBeEmpty("name", t)
  BY DEF MayBeEmpty
<1>3. t = "eof" => Rule("name", t, repl) = <<>>
  BY <1>1 DEF Names
<1>4. Outcome(Cons("name", r), t, repl) =
        IF Rule("name", t, repl) # <<>> THEN Rule("name", t, repl)[1] \o r
        ELSE IF MayBeEmpty("name", t) THEN Outcome(r, t, repl) ELSE Astray
  BY <1>3, OutcomeCons, Words
<1>5. ASSUME t \in Names PROVE Outcome(Cons("name", r), t, repl) = Cons("names", r)
  <2>. DEFINE a == <<"names">>
  <2>1. Rule("name", t, repl) = <<a>>
    BY <1>1, <1>5
  <2>2. a \o r = Cons("names", r)
    BY Symbols
  <2>. HIDE DEF a
  <2>3. Rule("name", t, repl) # <<>> /\ Rule("name", t, repl)[1] = a
    BY ONLY <2>1
  <2>. QED  BY ONLY <2>2, <2>3, <1>4
<1>6. ASSUME t \notin Names PROVE Outcome(Cons("name", r), t, repl) = Outcome(r, t, repl)
  BY <1>1, <1>2, <1>6, <1>4
<1>. QED  BY <1>5, <1>6

LEMMA OutcomeCases ==
  ASSUME NEW r \in Seq(Word), NEW t, NEW repl
  PROVE  /\ t = "newline" => Outcome(Cons("cases", r), t, repl) = Cons("cases", r)
         /\ t = "is" =>
              Outcome(Cons("cases", r), t, repl) =
                Cons("expr", Cons("moreValues", Cons("line", Cons("body", Cons("cases", r)))))
         /\ t = "else" => Outcome(Cons("cases", r), t, repl) = Cons("line", Cons("body", r))
         /\ t \notin {"newline", "is", "else"} =>
              Outcome(Cons("cases", r), t, repl) = Outcome(r, t, repl)
<1>1. /\ t = "newline" => Rule("cases", t, repl) = <<<<"cases">>>>
      /\ t = "is" => Rule("cases", t, repl) = <<<<"expr", "moreValues", "line", "body", "cases">>>>
      /\ t = "else" => Rule("cases", t, repl) = <<<<"line", "body">>>>
      /\ t \notin {"newline", "is", "else"} => Rule("cases", t, repl) = <<>>
  BY DEF Rule
<1>2. MayBeEmpty("cases", t)
  BY DEF MayBeEmpty
<1>3. t = "eof" => Rule("cases", t, repl) = <<>>
  BY <1>1
<1>4. Outcome(Cons("cases", r), t, repl) =
        IF Rule("cases", t, repl) # <<>> THEN Rule("cases", t, repl)[1] \o r
        ELSE IF MayBeEmpty("cases", t) THEN Outcome(r, t, repl) ELSE Astray
  BY <1>3, OutcomeCons, Words
<1>5. ASSUME t = "newline" PROVE Outcome(Cons("cases", r), t, repl) = Cons("cases", r)
  <2>. DEFINE a == <<"cases">>
  <2>1. Rule("cases", t, repl) = <<a>>
    BY <1>1, <1>5
  <2>2. a \o r = Cons("cases", r)
    BY Symbols
  <2>. HIDE DEF a
  <2>3. Rule("cases", t, repl) # <<>> /\ Rule("cases", t, repl)[1] = a
    BY ONLY <2>1
  <2>. QED  BY ONLY <2>2, <2>3, <1>4
<1>6. ASSUME t = "is"
      PROVE  Outcome(Cons("cases", r), t, repl) =
               Cons("expr", Cons("moreValues", Cons("line", Cons("body", Cons("cases", r)))))
  <2>. DEFINE a == <<"expr", "moreValues", "line", "body", "cases">>
  <2>1. Rule("cases", t, repl) = <<a>>
    BY <1>1, <1>6
  <2>2. a \o r = Cons("expr", Cons("moreValues", Cons("line", Cons("body", Cons("cases", r)))))
    BY Symbols
  <2>. HIDE DEF a
  <2>3. Rule("cases", t, repl) # <<>> /\ Rule("cases", t, repl)[1] = a
    BY ONLY <2>1
  <2>. QED  BY ONLY <2>2, <2>3, <1>4
<1>7. ASSUME t = "else" PROVE Outcome(Cons("cases", r), t, repl) = Cons("line", Cons("body", r))
  <2>. DEFINE a == <<"line", "body">>
  <2>1. Rule("cases", t, repl) = <<a>>
    BY <1>1, <1>7
  <2>2. a \o r = Cons("line", Cons("body", r))
    BY Symbols
  <2>. HIDE DEF a
  <2>3. Rule("cases", t, repl) # <<>> /\ Rule("cases", t, repl)[1] = a
    BY ONLY <2>1
  <2>. QED  BY ONLY <2>2, <2>3, <1>4
<1>8. ASSUME t \notin {"newline", "is", "else"}
      PROVE  Outcome(Cons("cases", r), t, repl) = Outcome(r, t, repl)
  BY <1>1, <1>2, <1>8, <1>4
<1>. QED  BY <1>5, <1>6, <1>7, <1>8

LEMMA OutcomeMoreValues ==
  ASSUME NEW r \in Seq(Word), NEW t, NEW repl
  PROVE  /\ t = "comma" => Outcome(Cons("moreValues", r), t, repl) = Cons("extra", r)
         /\ t # "comma" =>
              Outcome(Cons("moreValues", r), t, repl) = Outcome(r, t, repl)
<1>1. /\ t = "comma" => Rule("moreValues", t, repl) = <<<<"extra">>>>
      /\ t # "comma" => Rule("moreValues", t, repl) = <<>>
  BY DEF Rule
<1>2. MayBeEmpty("moreValues", t)
  BY DEF MayBeEmpty
<1>3. t = "eof" => Rule("moreValues", t, repl) = <<>>
  BY <1>1
<1>4. Outcome(Cons("moreValues", r), t, repl) =
        IF Rule("moreValues", t, repl) # <<>> THEN Rule("moreValues", t, repl)[1] \o r
        ELSE IF MayBeEmpty("moreValues", t) THEN Outcome(r, t, repl) ELSE Astray
  BY <1>3, OutcomeCons, Words
<1>5. ASSUME t = "comma" PROVE Outcome(Cons("moreValues", r), t, repl) = Cons("extra", r)
  <2>. DEFINE a == <<"extra">>
  <2>1. Rule("moreValues", t, repl) = <<a>>
    BY <1>1, <1>5
  <2>2. a \o r = Cons("extra", r)
    BY Symbols
  <2>. HIDE DEF a
  <2>3. Rule("moreValues", t, repl) # <<>> /\ Rule("moreValues", t, repl)[1] = a
    BY ONLY <2>1
  <2>. QED  BY ONLY <2>2, <2>3, <1>4
<1>6. ASSUME t # "comma" PROVE Outcome(Cons("moreValues", r), t, repl) = Outcome(r, t, repl)
  BY <1>1, <1>2, <1>6, <1>4
<1>. QED  BY <1>5, <1>6

LEMMA OutcomeIdent ==
  ASSUME NEW r \in Seq(Word), NEW t, NEW repl
  PROVE  /\ t \in Names => Outcome(Cons("ident", r), t, repl) = r
         /\ t \notin Names =>
              Outcome(Cons("ident", r), t, repl) = Astray
<1>1. /\ t \in Names => Rule("ident", t, repl) = <<<<>>>>
      /\ t \notin Names => Rule("ident", t, repl) = <<>>
  BY DEF Rule
<1>2. ~ MayBeEmpty("ident", t)
  BY DEF MayBeEmpty
<1>3. t = "eof" => Rule("ident", t, repl) = <<>>
  BY <1>1 DEF Names
<1>4. Outcome(Cons("ident", r), t, repl) =
        IF Rule("ident", t, repl) # <<>> THEN Rule("ident", t, repl)[1] \o r
        ELSE IF MayBeEmpty("ident", t) THEN Outcome(r, t, repl) ELSE Astray
  BY <1>3, OutcomeCons, Words
<1>5. ASSUME t \in Names PROVE Outcome(Cons("ident", r), t, repl) = r
  <2>. DEFINE a == <<>>
  <2>1. Rule("ident", t, repl) = <<a>>
    BY <1>1, <1>5
  <2>2. a \o r = r
    BY Symbols, Spread
  <2>. HIDE DEF a
  <2>3. Rule("ident", t, repl) # <<>> /\ Rule("ident", t, repl)[1] = a
    BY ONLY <2>1
  <2>. QED  BY ONLY <2>2, <2>3, <1>4
<1>6. ASSUME t \notin Names PROVE Outcome(Cons("ident", r), t, repl) = Astray
  BY <1>1, <1>2, <1>6, <1>4
<1>. QED  BY <1>5, <1>6

LEMMA OutcomeLineEnd ==
  ASSUME NEW r \in Seq(Word), NEW t, NEW repl
  PROVE  /\ t = "newline" => Outcome(Cons("line", r), t, repl) = r
         /\ t \in {"end", "else", "eof"} => Outcome(Cons("line", r), t, repl) = Outcome(r, t, repl)
         /\ t \notin {"newline", "end", "else", "eof"} => Outcome(Cons("line", r), t, repl) = Astray
<1>1. /\ t = "newline" => Rule("line", t, repl) = <<<<>>>>
      /\ t # "newline" => Rule("line", t, repl) = <<>>
  BY DEF Rule
<1>2. MayBeEmpty("line", t) <=> t \in {"end", "else", "eof"}
  BY DEF MayBeEmpty
<1>3. t = "eof" => Rule("line", t, repl) = <<>>
  BY <1>1
<1>4. Outcome(Cons("line", r), t, repl) =
        IF Rule("line", t, repl) # <<>> THEN Rule("line", t, repl)[1] \o r
        ELSE IF MayBeEmpty("line", t) THEN Outcome(r, t, repl) ELSE Astray
  BY <1>3, OutcomeCons, Words
<1>5. ASSUME t = "newline" PROVE Outcome(Cons("line", r), t, repl) = r
  <2>. DEFINE a == <<>>
  <2>1. Rule("line", t, repl) = <<a>>
    BY <1>1, <1>5
  <2>2. a \o r = r
    BY Symbols, Spread
  <2>. HIDE DEF a
  <2>. DEFINE u == Rule("line", t, repl)
  <2>3. u = <<a>>
    BY <2>1
  <2>. HIDE DEF u
  <2>4. u # <<>> /\ u[1] = a
    BY ONLY <2>3
  <2>. QED  BY ONLY <2>2, <2>4, <1>4 DEF u
<1>6. ASSUME t \in {"end", "else", "eof"}
      PROVE  Outcome(Cons("line", r), t, repl) = Outcome(r, t, repl)
  BY <1>1, <1>2, <1>6, <1>4
<1>7. ASSUME t \notin {"newline", "end", "else", "eof"}
      PROVE  Outcome(Cons("line", r), t, repl) = Astray
  BY <1>1, <1>2, <1>7, <1>4
<1>. QED  BY <1>5, <1>6, <1>7

LEMMA TokenFacts ==
  /\ DOMAIN Simple = {"let", "print", "break", "return", "import"}
  /\ DOMAIN Compound = {"if", "loop", "for", "function", "try", "when"}
  /\ Names = {"ident", "to", "step", "is", "as", "from"}
  /\ Primaries = {"ident", "to", "step", "is", "as", "from", "number", "string", "(", "["}
  BY DEF Simple, Compound, Names, Primaries

LEMMA StatementSymbols ==
  ASSUME NEW r \in Seq(Word)
  PROVE  /\ <<"ident", "=", "expr">> \o r = Cons("ident", Cons("=", Cons("expr", r)))
         /\ <<"expr">> \o r = Cons("expr", r)
         /\ <<"value">> \o r = Cons("value", r)
         /\ <<"path">> \o r = Cons("path", r)
         /\ <<"expr", "branches">> \o r = Cons("expr", Cons("branches", r))
         /\ <<"ident", "range">> \o r = Cons("ident", Cons("range", r))
         /\ <<"action", "line">> \o r = Cons("action", Cons("line", r))
         /\ <<"expr", "line", "cases", "end", "line">> \o r =
              Cons("expr", Cons("line", Cons("cases", Cons("end", Cons("line", r)))))
         /\ <<"path", "import", "ident", "names", "line">> \o r =
              Cons("path", Cons("import", Cons("ident", Cons("names", Cons("line", r)))))
         /\ <<"operators">> \o r = Cons("operators", r)
         /\ <<"items", "]", "operators">> \o r =
              Cons("items", Cons("]", Cons("operators", r)))
         /\ <<"expr", ")", "operators">> \o r =
              Cons("expr", Cons(")", Cons("operators", r)))
         /\ Body \o r = Cons("line", Cons("statements", Cons("end", Cons("line", r))))
         /\ (<<"expr">> \o Body) \o r =
              Cons("expr", Cons("line", Cons("statements", Cons("end", Cons("line", r)))))
         /\ (<<"ident", "(", "params", ")">> \o Body) \o r =
              Cons("ident", Cons("(", Cons("params", Cons(")",
                  Cons("line", Cons("statements", Cons("end", Cons("line", r))))))))
         /\ <<"line", "guarded", "catch", "ident", "line", "guarded", "end", "line">> \o r =
              Cons("line", Cons("guarded",
                  Cons("catch", Cons("ident",
                      Cons("line", Cons("guarded", Cons("end", Cons("line", r))))))))
<1>1. \A a \in Word : <<a>> \o r = Cons(a, r)
  BY Spread
<1>2. \A a, b \in Word : <<a, b>> \o r = Cons(a, Cons(b, r))
  BY Spread
<1>3. \A a, b, c \in Word : <<a, b, c>> \o r = Cons(a, Cons(b, Cons(c, r)))
  BY Spread
<1>4. \A a, b, c, d \in Word : <<a, b, c, d>> \o r = Cons(a, Cons(b, Cons(c, Cons(d, r))))
  BY Spread
<1>5. \A a, b, c, d, e \in Word : FiveFirst(a, b, c, d, e, r)
  BY Spread
<1>6. /\ <<"expr">> \o r = Cons("expr", r)
      /\ <<"value">> \o r = Cons("value", r)
      /\ <<"path">> \o r = Cons("path", r)
      /\ <<"operators">> \o r = Cons("operators", r)
  BY <1>1, Words
<1>7. /\ <<"expr", "branches">> \o r = Cons("expr", Cons("branches", r))
      /\ <<"ident", "range">> \o r = Cons("ident", Cons("range", r))
      /\ <<"action", "line">> \o r = Cons("action", Cons("line", r))
  BY <1>2, Words
<1>8. <<"ident", "=", "expr">> \o r = Cons("ident", Cons("=", Cons("expr", r)))
  <2>1. "ident" \in Word /\ "=" \in Word /\ "expr" \in Word
    BY Words
  <2>. QED  BY ONLY <2>1, <1>3
<1>9. <<"items", "]", "operators">> \o r = Cons("items", Cons("]", Cons("operators", r)))
  <2>1. "items" \in Word /\ "]" \in Word /\ "operators" \in Word
    BY Words
  <2>. QED  BY ONLY <2>1, <1>3
<1>10. <<"expr", ")", "operators">> \o r = Cons("expr", Cons(")", Cons("operators", r)))
  <2>1. "expr" \in Word /\ ")" \in Word /\ "operators" \in Word
    BY Words
  <2>. QED  BY ONLY <2>1, <1>3
<1>11. Body \o r = Cons("line", Cons("statements", Cons("end", Cons("line", r))))
  <2>1. "line" \in Word /\ "statements" \in Word /\ "end" \in Word
    BY Words
  <2>2. <<"line", "statements", "end", "line">> \o r =
          Cons("line", Cons("statements", Cons("end", Cons("line", r))))
    BY ONLY <2>1, <1>4
  <2>. QED  BY ONLY <2>2 DEF Body
<1>12. <<"expr", "line", "cases", "end", "line">> \o r =
           Cons("expr", Cons("line", Cons("cases", Cons("end", Cons("line", r)))))
  <2>. DEFINE a == "expr"
              b == "line"
              c == "cases"
              d == "end"
              e == "line"
  <2>1. a \in Word /\ b \in Word /\ c \in Word /\ d \in Word /\ e \in Word
    BY Words
  <2>. HIDE DEF a, b, c, d, e
  <2>2. FiveFirst(a, b, c, d, e, r)
    BY ONLY <2>1, <1>5
  <2>. QED  BY <2>2 DEF FiveFirst, a, b, c, d, e
<1>13. <<"path", "import", "ident", "names", "line">> \o r =
           Cons("path", Cons("import", Cons("ident", Cons("names", Cons("line", r)))))
  <2>. DEFINE a == "path"
              b == "import"
              c == "ident"
              d == "names"
              e == "line"
  <2>1. a \in Word /\ b \in Word /\ c \in Word /\ d \in Word /\ e \in Word
    BY Words
  <2>. HIDE DEF a, b, c, d, e
  <2>2. FiveFirst(a, b, c, d, e, r)
    BY ONLY <2>1, <1>5
  <2>. QED  BY <2>2 DEF FiveFirst, a, b, c, d, e
<1>. DEFINE z == Body \o r
<1>14. Body \in Seq(Word) /\ z \in Seq(Word)
  <2>1. Body \in Seq(Word)
    BY Tuples, Words DEF Body
  <2>. QED  BY <2>1, ConcatProperties
<1>15. z = Cons("line", Cons("statements", Cons("end", Cons("line", r))))
  BY <1>11
<1>16. (<<"expr">> \o Body) \o r = Cons("expr", z)
  <2>1. <<"expr">> \in Seq(Word)
    BY Tuples, Words
  <2>2. (<<"expr">> \o Body) \o r = <<"expr">> \o z
    BY ONLY <2>1, <1>14, r \in Seq(Word), Associative DEF z
  <2>3. \A a \in Word : <<a>> \o z = Cons(a, z)
    <3>. HIDE DEF z
    <3>. QED  BY <1>14, Spread
  <2>4. <<"expr">> \o z = Cons("expr", z)
    <3>1. "expr" \in Word
      BY Words
    <3>. HIDE DEF z
    <3>. QED  BY ONLY <2>3, <3>1
  <2>. QED  BY ONLY <2>2, <2>4
<1>17. (<<"ident", "(", "params", ")">> \o Body) \o r =
         Cons("ident", Cons("(", Cons("params", Cons(")", z))))
  <2>1. <<"ident", "(", "params", ")">> \in Seq(Word)
    BY Tuples, Words
  <2>2. (<<"ident", "(", "params", ")">> \o Body) \o r = <<"ident", "(", "params", ")">> \o z
    BY ONLY <2>1, <1>14, r \in Seq(Word), Associative DEF z
  <2>3. \A a, b, c, d \in Word : <<a, b, c, d>> \o z = Cons(a, Cons(b, Cons(c, Cons(d, z))))
    <3>. HIDE DEF z
    <3>. QED  BY <1>14, Spread
  <2>4. <<"ident", "(", "params", ")">> \o z =
          Cons("ident", Cons("(", Cons("params", Cons(")", z))))
    <3>1. "ident" \in Word /\ "(" \in Word /\ "params" \in Word /\ ")" \in Word
      BY Words
    <3>. HIDE DEF z
    <3>. QED  BY ONLY <2>3, <3>1
  <2>. QED  BY ONLY <2>2, <2>4
<1>18. <<"line", "guarded", "catch", "ident", "line", "guarded", "end", "line">> \o r =
        Cons("line", Cons("guarded", Cons("catch",
            Cons("ident", Cons("line", Cons("guarded", Cons("end", Cons("line", r))))))))
  <2>. DEFINE a == "line"
              b == "guarded"
              c == "catch"
              d == "ident"
              e == "end"
  <2>1. a \in Word /\ b \in Word /\ c \in Word /\ d \in Word /\ e \in Word
    BY Words
  <2>. HIDE DEF a, b, c, d, e
  <2>. DEFINE s == <<a, b, c, d>>
              t == <<a, b, e, a>>
              q == t \o r
  <2>2. <<a, b, c, d, a, b, e, a>> = s \o t
    BY <2>1
  <2>3. s \in Seq(Word) /\ t \in Seq(Word)
    BY <2>1, Tuples
  <2>4. q = Cons(a, Cons(b, Cons(e, Cons(a, r))))
    <3>1. \A i, j, k, l \in Word : <<i, j, k, l>> \o r = Cons(i, Cons(j, Cons(k, Cons(l, r))))
      BY Spread
    <3>. QED  BY <2>1, <3>1
  <2>5. q \in Seq(Word) /\ (s \o t) \o r = s \o q
    <3>. HIDE DEF s, t
    <3>. QED  BY <2>3, ConcatProperties, Associative
  <2>6. s \o q = Cons(a, Cons(b, Cons(c, Cons(d, q))))
    <3>. HIDE DEF q
    <3>1. \A i, j, k, l \in Word : <<i, j, k, l>> \o q = Cons(i, Cons(j, Cons(k, Cons(l, q))))
      BY <2>5, Spread
    <3>. QED  BY <2>1, <3>1
  <2>. HIDE DEF s, t, q
  <2>. QED  BY <2>2, <2>4, <2>5, <2>6 DEF a, b, c, d, e
<1>. QED  BY <1>6, <1>7, <1>8, <1>9, <1>10, <1>11, <1>12, <1>13, <1>16, <1>17, <1>15, <1>18

LEMMA AppendFront ==
  ASSUME NEW s \in Seq(Word), NEW x \in Word, NEW r \in Seq(Word)
  PROVE  /\ Append(s, x) \in Seq(Word)
         /\ Append(s, x) \o r = s \o Cons(x, r)
<1>1. Append(s, x) = s \o <<x>> /\ <<x>> \in Seq(Word)
  BY AppendIsConcat
<1>2. (s \o <<x>>) \o r = s \o (<<x>> \o r)
  BY <1>1, Associative
<1>3. s \o <<x>> \in Seq(Word)
  BY <1>1, ConcatProperties
<1>. QED  BY <1>1, <1>2, <1>3 DEF Cons

LEMMA AfterPrimaryFacts ==
  ASSUME NEW t
  PROVE  /\ t \notin {"(", "["} => AfterPrimary(t) = <<"operators">>
         /\ t = "[" => AfterPrimary(t) = <<"items", "]", "operators">>
         /\ t = "(" => AfterPrimary(t) = <<"expr", ")", "operators">>
         /\ AfterPrimary(t) \in Seq(Word)
<1>1. /\ t \notin {"(", "["} => AfterPrimary(t) = <<"operators">>
      /\ t = "[" => AfterPrimary(t) = <<"items", "]", "operators">>
      /\ t = "(" => AfterPrimary(t) = <<"expr", ")", "operators">>
  BY DEF AfterPrimary
<1>2. /\ <<"operators">> \in Seq(Word)
      /\ <<"items", "]", "operators">> \in Seq(Word)
      /\ <<"expr", ")", "operators">> \in Seq(Word)
  BY Tuples, Words
<1>3. AfterPrimary(t) \in Seq(Word)
  <2>1. CASE t \notin {"(", "["}
    BY <2>1, <1>1, <1>2
  <2>2. CASE t = "["
    BY <2>2, <1>1, <1>2
  <2>3. CASE t = "("
    BY <2>3, <1>1, <1>2
  <2>. QED  BY <2>1, <2>2, <2>3
<1>. QED  BY <1>1, <1>3

LEMMA StatementForms ==
  ASSUME NEW repl
  PROVE  /\ Statement("let") = Append(<<"ident", "=", "expr">>, "line")
         /\ Statement("print") = Append(<<"expr">>, "line")
         /\ Statement("break") = Append(<<>>, "line")
         /\ Statement("return") = Append(<<"value">>, "line")
         /\ Statement("import") = Append(<<"path">>, "line")
         /\ Statement("if") = <<"expr", "branches">>
         /\ Statement("for") = <<"ident", "range">>
         /\ Statement("when") = <<"expr", "line", "cases", "end", "line">>
         /\ Statement("loop") = <<"expr">> \o Body
         /\ Statement("function") = <<"ident", "(", "params", ")">> \o Body
         /\ Statement("try") =
              <<"line", "guarded", "catch", "ident", "line", "guarded", "end", "line">>
         /\ Statement("from") = <<"path", "import", "ident", "names", "line">>
         /\ \A t \in Names \ {"from"} : Statement(t) = <<"action", "line">>
         /\ repl => \A t \in {"number", "string", "(", "["} :
                      Statement(t) = AfterPrimary(t) \o <<"line">>
<1>1. Statement("let") = Append(<<"ident", "=", "expr">>, "line")
  BY TokenFacts DEF Statement, Simple
<1>2. Statement("print") = Append(<<"expr">>, "line")
  BY TokenFacts DEF Statement, Simple
<1>3. Statement("break") = Append(<<>>, "line")
  BY TokenFacts DEF Statement, Simple
<1>4. Statement("return") = Append(<<"value">>, "line")
  BY TokenFacts DEF Statement, Simple
<1>5. Statement("import") = Append(<<"path">>, "line")
  BY TokenFacts DEF Statement, Simple
<1>6. Statement("if") = <<"expr", "branches">>
  BY TokenFacts DEF Statement, Compound
<1>7. Statement("for") = <<"ident", "range">>
  BY TokenFacts DEF Statement, Compound
<1>8. Statement("when") = <<"expr", "line", "cases", "end", "line">>
  BY TokenFacts DEF Statement, Compound
<1>9. Statement("loop") = <<"expr">> \o Body
  BY TokenFacts DEF Statement, Compound
<1>10. Statement("function") = <<"ident", "(", "params", ")">> \o Body
  BY TokenFacts DEF Statement, Compound
<1>11. Statement("try") =
        <<"line", "guarded", "catch", "ident", "line", "guarded", "end", "line">>
  BY TokenFacts DEF Statement, Compound
<1>12. /\ "from" \notin DOMAIN Simple /\ "from" \notin DOMAIN Compound
       /\ \A t \in Names \cup {"number", "string",
           "(", "["} : t \notin DOMAIN Simple /\ t \notin DOMAIN Compound
       /\ \A t \in {"number", "string", "(", "["} : t \notin Names /\ t # "from" /\ t \in Primaries
  BY TokenFacts
<1>13. Statement("from") = <<"path", "import", "ident", "names", "line">>
  BY <1>12 DEF Statement
<1>14. \A t \in Names \ {"from"} : Statement(t) = <<"action", "line">>
  BY <1>12 DEF Statement
<1>15. repl => \A t \in {"number", "string", "(", "["} :
                Statement(t) = AfterPrimary(t) \o <<"line">>
  BY <1>12 DEF Statement
<1>. QED  BY <1>1, <1>2, <1>3, <1>4, <1>5, <1>6, <1>7, <1>8, <1>9, <1>10, <1>11, <1>12, <1>13,
             <1>14, <1>15

LEMMA StatementFacts ==
  ASSUME NEW r \in Seq(Word), NEW repl
  PROVE  /\ Statement("let") \o r = Cons("ident", Cons("=", Cons("expr", Cons("line", r))))
         /\ Statement("print") \o r = Cons("expr", Cons("line", r))
         /\ Statement("break") \o r = Cons("line", r)
         /\ Statement("return") \o r = Cons("value", Cons("line", r))
         /\ Statement("import") \o r = Cons("path", Cons("line", r))
         /\ Statement("if") \o r = Cons("expr", Cons("branches", r))
         /\ Statement("for") \o r = Cons("ident", Cons("range", r))
         /\ Statement("when") \o r =
              Cons("expr", Cons("line", Cons("cases", Cons("end", Cons("line", r)))))
         /\ Statement("loop") \o r =
              Cons("expr", Cons("line", Cons("statements", Cons("end", Cons("line", r)))))
         /\ Statement("function") \o r =
              Cons("ident", Cons("(", Cons("params", Cons(")",
                  Cons("line", Cons("statements", Cons("end", Cons("line", r))))))))
         /\ Statement("try") \o r =
              Cons("line", Cons("guarded",
                  Cons("catch", Cons("ident",
                      Cons("line", Cons("guarded", Cons("end", Cons("line", r))))))))
         /\ Statement("from") \o r =
              Cons("path", Cons("import", Cons("ident", Cons("names", Cons("line", r)))))
         /\ \A t \in Names \ {"from"} : Statement(t) \o r = Cons("action", Cons("line", r))
         /\ repl => \A t \in {"number", "string"} : Statement(t) \o r =
                      Cons("operators", Cons("line", r))
         /\ repl => Statement("[") \o r =
                      Cons("items", Cons("]", Cons("operators", Cons("line", r))))
         /\ repl => Statement("(") \o r =
                      Cons("expr", Cons(")", Cons("operators", Cons("line", r))))
<1>. DEFINE z == Cons("line", r)
<1>1. z \in Seq(Word) /\ z = Cons("line", r)
  BY ConsFacts, Words
<1>. HIDE DEF z
<1>2. ASSUME NEW s \in Seq(Word) PROVE Append(s, "line") \o r = s \o z
  <2>. DEFINE e == "line"
  <2>1. e \in Word
    BY Words
  <2>2. z = Cons(e, r)
    BY DEF z
  <2>. HIDE DEF e
  <2>3. Append(s, e) \o r = s \o z
    BY <2>1, <2>2, AppendFront
  <2>. QED  BY <2>3 DEF e
<1>3. Statement("let") \o r = Cons("ident", Cons("=", Cons("expr", z)))
  <2>. DEFINE s == <<"ident", "=", "expr">>
  <2>1. s \in Seq(Word)
    BY Tuples, Words
  <2>2. s \o z = Cons("ident", Cons("=", Cons("expr", z)))
    BY <1>1, StatementSymbols
  <2>3. Statement("let") = Append(s, "line")
    BY StatementForms
  <2>. HIDE DEF s
  <2>4. Append(s, "line") \o r = s \o z
    BY <2>1, <1>2
  <2>. QED  BY <2>2, <2>3, <2>4
<1>4. Statement("print") \o r = Cons("expr", z)
  <2>. DEFINE s == <<"expr">>
  <2>1. s \in Seq(Word)
    BY Tuples, Words
  <2>2. s \o z = Cons("expr", z)
    BY <1>1, StatementSymbols
  <2>3. Statement("print") = Append(s, "line")
    BY StatementForms
  <2>. HIDE DEF s
  <2>4. Append(s, "line") \o r = s \o z
    BY <2>1, <1>2
  <2>. QED  BY <2>2, <2>3, <2>4
<1>5. Statement("break") \o r = z
  <2>. DEFINE s == <<>>
  <2>1. s \in Seq(Word)
    BY Tuples, Words
  <2>2. s \o z = z
    BY <1>1, Spread
  <2>3. Statement("break") = Append(s, "line")
    BY StatementForms
  <2>. HIDE DEF s
  <2>4. Append(s, "line") \o r = s \o z
    BY <2>1, <1>2
  <2>. QED  BY <2>2, <2>3, <2>4
<1>6. Statement("return") \o r = Cons("value", z)
  <2>. DEFINE s == <<"value">>
  <2>1. s \in Seq(Word)
    BY Tuples, Words
  <2>2. s \o z = Cons("value", z)
    BY <1>1, StatementSymbols
  <2>3. Statement("return") = Append(s, "line")
    BY StatementForms
  <2>. HIDE DEF s
  <2>4. Append(s, "line") \o r = s \o z
    BY <2>1, <1>2
  <2>. QED  BY <2>2, <2>3, <2>4
<1>7. Statement("import") \o r = Cons("path", z)
  <2>. DEFINE s == <<"path">>
  <2>1. s \in Seq(Word)
    BY Tuples, Words
  <2>2. s \o z = Cons("path", z)
    BY <1>1, StatementSymbols
  <2>3. Statement("import") = Append(s, "line")
    BY StatementForms
  <2>. HIDE DEF s
  <2>4. Append(s, "line") \o r = s \o z
    BY <2>1, <1>2
  <2>. QED  BY <2>2, <2>3, <2>4
<1>8. Statement("if") \o r = Cons("expr", Cons("branches", r))
  <2>. DEFINE s == <<"expr", "branches">>
  <2>1. Statement("if") = s
    BY StatementForms
  <2>2. s \o r = Cons("expr", Cons("branches", r))
    BY StatementSymbols
  <2>. HIDE DEF s
  <2>. QED  BY <2>1, <2>2
<1>9. Statement("for") \o r = Cons("ident", Cons("range", r))
  <2>. DEFINE s == <<"ident", "range">>
  <2>1. Statement("for") = s
    BY StatementForms
  <2>2. s \o r = Cons("ident", Cons("range", r))
    BY StatementSymbols
  <2>. HIDE DEF s
  <2>. QED  BY <2>1, <2>2
<1>10. Statement("when") \o r =
        Cons("expr", Cons("line", Cons("cases", Cons("end", Cons("line", r)))))
  <2>. DEFINE s == <<"expr", "line", "cases", "end", "line">>
  <2>1. Statement("when") = s
    BY StatementForms
  <2>2. s \o r = Cons("expr", Cons("line", Cons("cases", Cons("end", Cons("line", r)))))
    BY StatementSymbols
  <2>. HIDE DEF s
  <2>. QED  BY <2>1, <2>2
<1>11. Statement("loop") \o r =
        Cons("expr", Cons("line", Cons("statements", Cons("end", Cons("line", r)))))
  <2>. DEFINE s == <<"expr">> \o Body
  <2>1. Statement("loop") = s
    BY StatementForms
  <2>2. s \o r = Cons("expr", Cons("line", Cons("statements", Cons("end", Cons("line", r)))))
    BY StatementSymbols
  <2>. HIDE DEF s
  <2>. QED  BY <2>1, <2>2
<1>12. Statement("function") \o r =
        Cons("ident", Cons("(", Cons("params", Cons(")",
            Cons("line", Cons("statements", Cons("end", Cons("line", r))))))))
  <2>. DEFINE s == <<"ident", "(", "params", ")">> \o Body
  <2>1. Statement("function") = s
    BY StatementForms
  <2>2. s \o r = Cons("ident", Cons("(",
          Cons("params", Cons(")", Cons("line",
              Cons("statements", Cons("end", Cons("line", r))))))))
    BY StatementSymbols
  <2>. HIDE DEF s
  <2>. QED  BY <2>1, <2>2
<1>13. Statement("try") \o r =
        Cons("line", Cons("guarded", Cons("catch",
            Cons("ident", Cons("line", Cons("guarded", Cons("end", Cons("line", r))))))))
  <2>. DEFINE s == <<"line", "guarded", "catch", "ident", "line", "guarded", "end", "line">>
  <2>1. Statement("try") = s
    BY StatementForms
  <2>2. s \o r = Cons("line", Cons("guarded",
          Cons("catch", Cons("ident", Cons("line",
              Cons("guarded", Cons("end", Cons("line", r))))))))
    BY StatementSymbols
  <2>. HIDE DEF s
  <2>. QED  BY <2>1, <2>2
<1>14. Statement("from") \o r =
        Cons("path", Cons("import", Cons("ident", Cons("names", Cons("line", r)))))
  <2>. DEFINE s == <<"path", "import", "ident", "names", "line">>
  <2>1. Statement("from") = s
    BY StatementForms
  <2>2. s \o r = Cons("path", Cons("import", Cons("ident", Cons("names", Cons("line", r)))))
    BY StatementSymbols
  <2>. HIDE DEF s
  <2>. QED  BY <2>1, <2>2
<1>15. ASSUME NEW t \in Names \ {"from"}
      PROVE  Statement(t) \o r = Cons("action", Cons("line", r))
  <2>. DEFINE s == <<"action", "line">>
  <2>1. Statement(t) = s
    BY StatementForms
  <2>2. s \o r = Cons("action", Cons("line", r))
    BY StatementSymbols
  <2>. HIDE DEF s
  <2>. QED  BY <2>1, <2>2
<1>16. ASSUME repl, NEW t \in {"number", "string", "(", "["}
      PROVE  Statement(t) \o r = AfterPrimary(t) \o z
  <2>. DEFINE e == <<"line">>
              a == AfterPrimary(t)
  <2>1. Statement(t) = a \o e
    BY <1>16, StatementForms
  <2>2. a \in Seq(Word) /\ e \in Seq(Word)
    BY AfterPrimaryFacts, Tuples, Words
  <2>3. e \o r = z
    BY DEF z, Cons
  <2>. HIDE DEF a, e
  <2>4. (a \o e) \o r = a \o (e \o r)
    BY <2>2, Associative
  <2>5. Statement(t) \o r = a \o z
    BY <2>1, <2>3, <2>4
  <2>. QED  BY <2>5 DEF a
<1>17. ASSUME repl, NEW t \in {"number", "string"}
      PROVE  Statement(t) \o r = Cons("operators", z)
  <2>. DEFINE s == <<"operators">>
  <2>1. AfterPrimary(t) = s
    BY AfterPrimaryFacts
  <2>2. s \o z = Cons("operators", z)
    BY <1>1, StatementSymbols
  <2>3. Statement(t) \o r = AfterPrimary(t) \o z
    BY <1>16, <1>17
  <2>. HIDE DEF s
  <2>. QED  BY <2>1, <2>2, <2>3
<1>18. ASSUME repl
      PROVE  Statement("[") \o r = Cons("items", Cons("]", Cons("operators", z)))
  <2>. DEFINE s == <<"items", "]", "operators">>
  <2>1. AfterPrimary("[") = s
    BY AfterPrimaryFacts
  <2>2. s \o z = Cons("items", Cons("]", Cons("operators", z)))
    BY <1>1, StatementSymbols
  <2>3. Statement("[") \o r = AfterPrimary("[") \o z
    BY <1>16, <1>18
  <2>. HIDE DEF s
  <2>. QED  BY <2>1, <2>2, <2>3
<1>19. ASSUME repl
      PROVE  Statement("(") \o r = Cons("expr", Cons(")", Cons("operators", z)))
  <2>. DEFINE s == <<"expr", ")", "operators">>
  <2>1. AfterPrimary("(") = s
    BY AfterPrimaryFacts
  <2>2. s \o z = Cons("expr", Cons(")", Cons("operators", z)))
    BY <1>1, StatementSymbols
  <2>3. Statement("(") \o r = AfterPrimary("(") \o z
    BY <1>16, <1>19
  <2>. HIDE DEF s
  <2>. QED  BY <2>1, <2>2, <2>3
<1>. QED  BY <1>3, <1>4, <1>5, <1>6, <1>7, <1>8, <1>9, <1>10, <1>11, <1>12, <1>13, <1>14, <1>15,
             <1>17, <1>18, <1>19, <1>1

LEMMA StarterFacts ==
  ASSUME NEW repl \in BOOLEAN
  PROVE  /\ StartsStatement(repl) =
              {"let", "print", "break", "return", "import", "if", "loop", "for", "function", "try",
               "when", "ident", "to", "step", "is", "as", "from"}
               \cup (IF repl THEN {"number", "string", "(", "["} ELSE {})
         /\ \A t \in StartsStatement(repl) : Statement(t) \in Seq(Word)
<1>1. StartsStatement(repl) =
        {"let", "print", "break", "return", "import", "if", "loop", "for", "function", "try",
         "when", "ident", "to", "step", "is", "as", "from"}
         \cup (IF repl THEN {"number", "string", "(", "["} ELSE {})
  BY TokenFacts DEF StartsStatement
<1>2. Body \in Seq(Word)
  BY Tuples, Words DEF Body
<1>3. \A a, b \in Seq(Word) : a \o b \in Seq(Word)
  BY ConcatProperties
<1>4. \A a \in Seq(Word) : Append(a, "line") \in Seq(Word)
  BY AppendFront, Words
<1>5. Statement("let") \in Seq(Word)
  <2>1. <<"ident", "=", "expr">> \in Seq(Word)
    BY Tuples, Words
  <2>. QED  BY <2>1, <1>4, StatementForms
<1>6. Statement("print") \in Seq(Word)
  <2>1. <<"expr">> \in Seq(Word)
    BY Tuples, Words
  <2>. QED  BY <2>1, <1>4, StatementForms
<1>7. Statement("break") \in Seq(Word)
  <2>1. <<>> \in Seq(Word)
    BY Tuples, Words
  <2>. QED  BY <2>1, <1>4, StatementForms
<1>8. Statement("return") \in Seq(Word)
  <2>1. <<"value">> \in Seq(Word)
    BY Tuples, Words
  <2>. QED  BY <2>1, <1>4, StatementForms
<1>9. Statement("import") \in Seq(Word)
  <2>1. <<"path">> \in Seq(Word)
    BY Tuples, Words
  <2>. QED  BY <2>1, <1>4, StatementForms
<1>10. Statement("if") \in Seq(Word)
  <2>1. <<"expr", "branches">> \in Seq(Word)
    BY Tuples, Words
  <2>. QED  BY <2>1, StatementForms
<1>11. Statement("for") \in Seq(Word)
  <2>1. <<"ident", "range">> \in Seq(Word)
    BY Tuples, Words
  <2>. QED  BY <2>1, StatementForms
<1>12. Statement("when") \in Seq(Word)
  <2>1. <<"expr", "line", "cases", "end", "line">> \in Seq(Word)
    BY Tuples, Words
  <2>. QED  BY <2>1, StatementForms
<1>13. Statement("loop") \in Seq(Word)
  <2>1. <<"expr">> \in Seq(Word)
    BY Tuples, Words
  <2>. QED  BY <2>1, <1>2, <1>3, StatementForms
<1>14. Statement("function") \in Seq(Word)
  <2>1. <<"ident", "(", "params", ")">> \in Seq(Word)
    BY Tuples, Words
  <2>. QED  BY <2>1, <1>2, <1>3, StatementForms
<1>15. Statement("try") \in Seq(Word)
  <2>. DEFINE a == "line"
              b == "guarded"
              c == "catch"
              d == "ident"
              e == "end"
              s == <<a, b, c, d, a, b, e, a>>
  <2>1. a \in Word /\ b \in Word /\ c \in Word /\ d \in Word /\ e \in Word
    BY Words
  <2>2. Statement("try") = s
    BY StatementForms
  <2>. HIDE DEF a, b, c, d, e
  <2>3. s \in Seq(Word)
    BY <2>1
  <2>. HIDE DEF s
  <2>. QED  BY <2>2, <2>3
<1>16. Statement("from") \in Seq(Word)
  <2>1. <<"path", "import", "ident", "names", "line">> \in Seq(Word)
    BY Tuples, Words
  <2>. QED  BY <2>1, StatementForms
<1>17. \A t \in Names \ {"from"} : Statement(t) \in Seq(Word)
  <2>1. <<"action", "line">> \in Seq(Word)
    BY Tuples, Words
  <2>. QED  BY <2>1, StatementForms
<1>18. ASSUME repl, NEW t \in {"number", "string", "(", "["} PROVE Statement(t) \in Seq(Word)
  <2>. DEFINE e == <<"line">>
              a == AfterPrimary(t)
  <2>1. Statement(t) = a \o e
    BY <1>18, StatementForms
  <2>2. a \in Seq(Word) /\ e \in Seq(Word)
    BY AfterPrimaryFacts, Tuples, Words
  <2>. HIDE DEF a, e
  <2>. QED  BY <2>1, <2>2, ConcatProperties
<1>19. \A t \in StartsStatement(repl) : Statement(t) \in Seq(Word)
  BY <1>1, <1>5, <1>6, <1>7, <1>8, <1>9, <1>10, <1>11, <1>12, <1>13, <1>14, <1>15, <1>16, <1>17,
      <1>18, TokenFacts
<1>. QED  BY <1>1, <1>19

\* A token is owed: there is no other way on.
LEMMA OutcomeToken ==
  ASSUME NEW x \in Tokens \ {"ident"}, NEW r \in Seq(Word), NEW t, NEW repl
  PROVE  Outcome(Cons(x, r), t, repl) = IF t = x THEN r ELSE Astray
<1>1. x \in Word /\ x # "eof"
  <2>1. x \in {"to", "step", "is", "as", "from", "number", "string",
          "(", "[", "let", "print", "break",
              "return", "import", "if", "loop", "for", "function", "try", "when", "newline", "end",
              "else", "then", "catch", "in", "=", "+=", "+", ")", "]", "comma", "/"}
    BY TokenFacts DEF Tokens
  <2>. QED  BY ONLY <2>1, Words
<1>2. x \notin {"statements", "body", "guarded", "line", "expr", "value", "operators", "items",
              "moreItems", "action", "element", "calls", "indices", "branches", "otherwise",
              "one", "orOne", "range", "increment", "params", "default", "moreDefaults",
              "defaults", "path", "segments", "segment", "names", "name", "cases",
              "moreValues", "extra", "ident", "suffix", "target", "anyValue", "asName", "origin"}
  BY TokenFacts DEF Tokens
<1>3. Rule(x, t, repl) = IF t = x THEN <<<<>>>> ELSE <<>>
  BY <1>2 DEF Rule
<1>4. ~ MayBeEmpty(x, t)
  BY <1>2 DEF MayBeEmpty
<1>5. Outcome(Cons(x, r), t, repl) =
        IF Rule(x, t, repl) # <<>> THEN Rule(x, t, repl)[1] \o r
        ELSE IF MayBeEmpty(x, t) THEN Outcome(r, t, repl) ELSE Astray
  BY <1>1, <1>3, OutcomeCons
<1>6. <<>> \o r = r
  BY Spread
<1>7. CASE t = x
  BY <1>3, <1>5, <1>6, <1>7
<1>8. CASE t # x
  BY <1>3, <1>4, <1>5, <1>8
<1>. QED  BY <1>7, <1>8

LEMMA OutcomeNone ==
  ASSUME NEW t, NEW repl
  PROVE  Outcome(<<>>, t, repl) = IF t = "eof" THEN <<>> ELSE Astray
<1>1. CASE t = "eof"
  BY <1>1 DEF Outcome, Ends
<1>2. CASE t # "eof"
  <2>1. <<>> \in Seq(Word) /\ Starters(<<>>, t, repl) = {}
    BY Tuples DEF Starters
  <2>2. Derived(<<>>, t, repl) = Astray
    BY <1>2, <2>1, DeriveFacts
  <2>. QED  BY <1>2, <2>2 DEF Outcome
<1>. QED  BY <1>1, <1>2
LEMMA OutcomeExpr ==
  ASSUME NEW r \in Seq(Word), NEW t, NEW repl
  PROVE  /\ t \in Primaries => Outcome(Cons("expr", r), t, repl) = AfterPrimary(t) \o r
         /\ t \in Names \cup {"number", "string"} =>
              Outcome(Cons("expr", r), t, repl) = Cons("operators", r)
         /\ t = "[" => Outcome(Cons("expr", r), t, repl) =
                         Cons("items", Cons("]", Cons("operators", r)))
         /\ t = "(" => Outcome(Cons("expr", r), t, repl) =
                         Cons("expr", Cons(")", Cons("operators", r)))
         /\ t \notin Primaries => Outcome(Cons("expr", r), t, repl) = Astray
<1>1. /\ t \in Primaries => Rule("expr", t, repl) = <<AfterPrimary(t)>>
      /\ t \notin Primaries => Rule("expr", t, repl) = <<>>
  BY DEF Rule
<1>2. ~ MayBeEmpty("expr", t)
  BY DEF MayBeEmpty
<1>3. t = "eof" => Rule("expr", t, repl) = <<>>
  BY <1>1, TokenFacts
<1>4. Outcome(Cons("expr", r), t, repl) =
        IF Rule("expr", t, repl) # <<>> THEN Rule("expr", t, repl)[1] \o r
        ELSE IF MayBeEmpty("expr", t) THEN Outcome(r, t, repl) ELSE Astray
  BY <1>3, OutcomeCons, Words
<1>5. ASSUME t \in Primaries PROVE Outcome(Cons("expr", r), t, repl) = AfterPrimary(t) \o r
  <2>. DEFINE a == AfterPrimary(t)
  <2>1. Rule("expr", t, repl) = <<a>>
    BY <1>1, <1>5
  <2>. HIDE DEF a
  <2>2. Rule("expr", t, repl) # <<>> /\ Rule("expr", t, repl)[1] = a
    BY ONLY <2>1
  <2>. QED  BY <2>2, <1>4 DEF a
<1>6. ASSUME t \notin Primaries PROVE Outcome(Cons("expr", r), t, repl) = Astray
  BY <1>1, <1>2, <1>4, <1>6
<1>7. ASSUME t \in Names \cup {"number", "string"}
      PROVE  Outcome(Cons("expr", r), t, repl) = Cons("operators", r)
  <2>. DEFINE s == <<"operators">>
  <2>1. t \in Primaries /\ AfterPrimary(t) = s
    BY <1>7, AfterPrimaryFacts, TokenFacts
  <2>2. s \o r = Cons("operators", r)
    BY StatementSymbols
  <2>. HIDE DEF s
  <2>. QED  BY <1>5, <2>1, <2>2
<1>8. ASSUME t = "["
      PROVE  Outcome(Cons("expr", r), t, repl) = Cons("items", Cons("]", Cons("operators", r)))
  <2>. DEFINE s == <<"items", "]", "operators">>
  <2>1. t \in Primaries /\ AfterPrimary(t) = s
    BY <1>8, AfterPrimaryFacts, TokenFacts
  <2>2. s \o r = Cons("items", Cons("]", Cons("operators", r)))
    BY StatementSymbols
  <2>. HIDE DEF s
  <2>. QED  BY <1>5, <2>1, <2>2
<1>9. ASSUME t = "("
      PROVE  Outcome(Cons("expr", r), t, repl) = Cons("expr", Cons(")", Cons("operators", r)))
  <2>. DEFINE s == <<"expr", ")", "operators">>
  <2>1. t \in Primaries /\ AfterPrimary(t) = s
    BY <1>9, AfterPrimaryFacts, TokenFacts
  <2>2. s \o r = Cons("expr", Cons(")", Cons("operators", r)))
    BY StatementSymbols
  <2>. HIDE DEF s
  <2>. QED  BY <1>5, <2>1, <2>2
<1>. QED  BY <1>5, <1>6, <1>7, <1>8, <1>9

LEMMA OutcomeItems ==
  ASSUME NEW r \in Seq(Word), NEW t, NEW repl
  PROVE  /\ t \in Primaries =>
              Outcome(Cons("items", r), t, repl) =
                Outcome(Cons("expr", Cons("moreItems", r)), t, repl)
         /\ t \notin Primaries =>
              Outcome(Cons("items", r), t, repl) = Outcome(r, t, repl)
<1>1. /\ t \in Primaries => Rule("items", t, repl) = <<AfterPrimary(t) \o <<"moreItems">>>>
      /\ t \notin Primaries => Rule("items", t, repl) = <<>>
  BY DEF Rule
<1>2. MayBeEmpty("items", t)
  BY DEF MayBeEmpty
<1>3. t = "eof" => Rule("items", t, repl) = <<>>
  BY <1>1, TokenFacts
<1>4. Outcome(Cons("items", r), t, repl) =
        IF Rule("items", t, repl) # <<>> THEN Rule("items", t, repl)[1] \o r
        ELSE IF MayBeEmpty("items", t) THEN Outcome(r, t, repl) ELSE Astray
  BY <1>3, OutcomeCons, Words
<1>5. ASSUME t \in Primaries
      PROVE  Outcome(Cons("items", r), t, repl) =
               Outcome(Cons("expr", Cons("moreItems", r)), t, repl)
  <2>. DEFINE z == Cons("moreItems", r)
              b == <<"moreItems">>
              s == AfterPrimary(t)
              a == s \o b
  <2>1. z \in Seq(Word) /\ b \in Seq(Word) /\ s \in Seq(Word)
    BY ConsFacts, Words, Tuples, AfterPrimaryFacts
  <2>2. b \o r = z
    BY DEF Cons
  <2>3. Rule("items", t, repl) = <<a>>
    BY <1>1, <1>5
  <2>. HIDE DEF z, b, s
  <2>4. a \o r = s \o z
    <3>1. (s \o b) \o r = s \o (b \o r)
      BY <2>1, Associative
    <3>. QED  BY <2>2, <3>1
  <2>5. Outcome(Cons("expr", z), t, repl) = s \o z
    BY <1>5, <2>1, OutcomeExpr DEF s
  <2>. HIDE DEF a
  <2>6. Rule("items", t, repl) # <<>> /\ Rule("items", t, repl)[1] = a
    BY ONLY <2>3
  <2>7. Outcome(Cons("items", r), t, repl) = a \o r
    BY <2>6, <1>4
  <2>. QED  BY <2>4, <2>5, <2>7 DEF z
<1>6. ASSUME t \notin Primaries PROVE Outcome(Cons("items", r), t, repl) = Outcome(r, t, repl)
  BY <1>1, <1>2, <1>4, <1>6, TokenFacts
<1>. QED  BY <1>5, <1>6

LEMMA OutcomeExtra ==
  ASSUME NEW r \in Seq(Word), NEW t, NEW repl
  PROVE  /\ t \in Primaries =>
              Outcome(Cons("extra", r), t, repl) =
                Outcome(Cons("expr", Cons("moreValues", r)), t, repl)
         /\ t \in {"newline", "eof"} =>
              Outcome(Cons("extra", r), t, repl) = Outcome(r, t, repl)
         /\ t \notin Primaries \cup {"newline", "eof"} =>
              Outcome(Cons("extra", r), t, repl) = Astray
<1>1. /\ t \in Primaries => Rule("extra", t, repl) = <<AfterPrimary(t) \o <<"moreValues">>>>
      /\ t \notin Primaries => Rule("extra", t, repl) = <<>>
  BY DEF Rule
<1>2. MayBeEmpty("extra", t) <=> t \in {"newline", "eof"}
  BY DEF MayBeEmpty
<1>3. t = "eof" => Rule("extra", t, repl) = <<>>
  BY <1>1, TokenFacts
<1>4. Outcome(Cons("extra", r), t, repl) =
        IF Rule("extra", t, repl) # <<>> THEN Rule("extra", t, repl)[1] \o r
        ELSE IF MayBeEmpty("extra", t) THEN Outcome(r, t, repl) ELSE Astray
  BY <1>3, OutcomeCons, Words
<1>5. ASSUME t \in Primaries
      PROVE  Outcome(Cons("extra", r), t, repl) =
               Outcome(Cons("expr", Cons("moreValues", r)), t, repl)
  <2>. DEFINE z == Cons("moreValues", r)
              b == <<"moreValues">>
              s == AfterPrimary(t)
              a == s \o b
  <2>1. z \in Seq(Word) /\ b \in Seq(Word) /\ s \in Seq(Word)
    BY ConsFacts, Words, Tuples, AfterPrimaryFacts
  <2>2. b \o r = z
    BY DEF Cons
  <2>3. Rule("extra", t, repl) = <<a>>
    BY <1>1, <1>5
  <2>. HIDE DEF z, b, s
  <2>4. a \o r = s \o z
    <3>1. (s \o b) \o r = s \o (b \o r)
      BY <2>1, Associative
    <3>. QED  BY <2>2, <3>1
  <2>5. Outcome(Cons("expr", z), t, repl) = s \o z
    BY <1>5, <2>1, OutcomeExpr DEF s
  <2>. HIDE DEF a
  <2>6. Rule("extra", t, repl) # <<>> /\ Rule("extra", t, repl)[1] = a
    BY ONLY <2>3
  <2>7. Outcome(Cons("extra", r), t, repl) = a \o r
    BY <2>6, <1>4
  <2>. QED  BY <2>4, <2>5, <2>7 DEF z
<1>6. ASSUME t \in {"newline", "eof"} PROVE Outcome(Cons("extra", r), t, repl) = Outcome(r, t, repl)
  BY <1>1, <1>2, <1>4, <1>6, TokenFacts
<1>7. ASSUME t \notin Primaries \cup {"newline", "eof"}
      PROVE Outcome(Cons("extra", r), t, repl) = Astray
  BY <1>1, <1>2, <1>4, <1>7, TokenFacts
<1>. QED  BY <1>5, <1>6, <1>7

LEMMA OutcomeValue ==
  ASSUME NEW r \in Seq(Word), NEW t, NEW repl
  PROVE  /\ t \in Primaries =>
              Outcome(Cons("value", r), t, repl) =
                Outcome(Cons("expr", r), t, repl)
         /\ t \in {"newline", "eof"} =>
              Outcome(Cons("value", r), t, repl) = Outcome(r, t, repl)
         /\ t \notin Primaries \cup {"newline", "eof"} =>
              Outcome(Cons("value", r), t, repl) = Astray
<1>1. /\ t \in Primaries => Rule("value", t, repl) = <<AfterPrimary(t)>>
      /\ t \notin Primaries => Rule("value", t, repl) = <<>>
  BY DEF Rule
<1>2. MayBeEmpty("value", t) <=> t \in {"newline", "eof"}
  BY DEF MayBeEmpty
<1>3. t = "eof" => Rule("value", t, repl) = <<>>
  BY <1>1, TokenFacts
<1>4. Outcome(Cons("value", r), t, repl) =
        IF Rule("value", t, repl) # <<>> THEN Rule("value", t, repl)[1] \o r
        ELSE IF MayBeEmpty("value", t) THEN Outcome(r, t, repl) ELSE Astray
  BY <1>3, OutcomeCons, Words
<1>5. ASSUME t \in Primaries
      PROVE  Outcome(Cons("value", r), t, repl) = Outcome(Cons("expr", r), t, repl)
  <2>. DEFINE a == AfterPrimary(t)
  <2>1. Rule("value", t, repl) = <<a>>
    BY <1>1, <1>5
  <2>2. Outcome(Cons("expr", r), t, repl) = a \o r
    BY <1>5, OutcomeExpr
  <2>. HIDE DEF a
  <2>3. Rule("value", t, repl) # <<>> /\ Rule("value", t, repl)[1] = a
    BY ONLY <2>1
  <2>. QED  BY <2>2, <2>3, <1>4
<1>6. ASSUME t \in {"newline", "eof"} PROVE Outcome(Cons("value", r), t, repl) = Outcome(r, t, repl)
  BY <1>1, <1>2, <1>4, <1>6, TokenFacts
<1>7. ASSUME t \notin Primaries \cup {"newline", "eof"}
      PROVE Outcome(Cons("value", r), t, repl) = Astray
  BY <1>1, <1>2, <1>4, <1>7, TokenFacts
<1>. QED  BY <1>5, <1>6, <1>7

LEMMA OutcomeOne ==
  ASSUME NEW r \in Seq(Word), NEW t, NEW repl \in BOOLEAN
  PROVE  /\ t = "newline" => Outcome(Cons("one", r), t, repl) = Cons("one", r)
         /\ t \in StartsStatement(repl) =>
              Outcome(Cons("one", r), t, repl) = Statement(t) \o r
         /\ t \notin StartsStatement(repl) \cup {"newline"} =>
              Outcome(Cons("one", r), t, repl) = Astray
<1>1. /\ t = "newline" => Rule("one", t, repl) = <<<<"one">>>>
      /\ t \in StartsStatement(repl) => Rule("one", t, repl) = <<Statement(t)>>
      /\ t \notin StartsStatement(repl) \cup {"newline"} => Rule("one", t, repl) = <<>>
  BY StarterFacts DEF Rule
<1>2. ~ MayBeEmpty("one", t)
  BY DEF MayBeEmpty
<1>3. t = "eof" => Rule("one", t, repl) = <<>>
  BY <1>1, StarterFacts
<1>4. Outcome(Cons("one", r), t, repl) =
        IF Rule("one", t, repl) # <<>> THEN Rule("one", t, repl)[1] \o r
        ELSE IF MayBeEmpty("one", t) THEN Outcome(r, t, repl) ELSE Astray
  BY <1>3, OutcomeCons, Words
<1>5. ASSUME t = "newline" PROVE Outcome(Cons("one", r), t, repl) = Cons("one", r)
  <2>. DEFINE a == <<"one">>
  <2>1. Rule("one", t, repl) = <<a>>
    BY <1>1, <1>5
  <2>2. a \o r = Cons("one", r)
    BY DEF Cons
  <2>. HIDE DEF a
  <2>3. Rule("one", t, repl) # <<>> /\ Rule("one", t, repl)[1] = a
    BY ONLY <2>1
  <2>. QED  BY <2>2, <2>3, <1>4
<1>6. ASSUME t \in StartsStatement(repl)
      PROVE  Outcome(Cons("one", r), t, repl) = Statement(t) \o r
  <2>. DEFINE a == Statement(t)
  <2>1. Rule("one", t, repl) = <<a>>
    BY <1>1, <1>6
  <2>. HIDE DEF a
  <2>2. Rule("one", t, repl) # <<>> /\ Rule("one", t, repl)[1] = a
    BY ONLY <2>1
  <2>. QED  BY <2>2, <1>4 DEF a
<1>7. ASSUME t \notin StartsStatement(repl) \cup {"newline"}
      PROVE  Outcome(Cons("one", r), t, repl) = Astray
  BY <1>1, <1>2, <1>4, <1>7
<1>. QED  BY <1>5, <1>6, <1>7

LEMMA OutcomeStatements ==
  ASSUME NEW r \in Seq(Word), NEW t, NEW repl \in BOOLEAN
  PROVE  /\ t = "newline" =>
              Outcome(Cons("statements", r), t, repl) = Cons("statements", r)
         /\ t \in StartsStatement(repl) =>
              Outcome(Cons("statements", r), t, repl) =
                  Outcome(Cons("one", Cons("statements", r)), t, repl)
         /\ t \notin StartsStatement(repl) \cup {"newline"} =>
              Outcome(Cons("statements", r), t, repl) = Outcome(r, t, repl)
<1>1. /\ t = "newline" => Rule("statements", t, repl) = <<<<"statements">>>>
      /\ t \in StartsStatement(repl) => Rule("statements", t, repl) =
          <<Statement(t) \o <<"statements">>>>
      /\ t \notin StartsStatement(repl) \cup {"newline"} => Rule("statements", t, repl) = <<>>
  BY StarterFacts DEF Rule
<1>2. MayBeEmpty("statements", t)
  BY DEF MayBeEmpty
<1>3. t = "eof" => Rule("statements", t, repl) = <<>>
  BY <1>1, StarterFacts
<1>4. Outcome(Cons("statements", r), t, repl) =
        IF Rule("statements", t, repl) # <<>> THEN Rule("statements", t, repl)[1] \o r
        ELSE IF MayBeEmpty("statements", t) THEN Outcome(r, t, repl) ELSE Astray
  BY <1>3, OutcomeCons, Words
<1>5. ASSUME t = "newline" PROVE Outcome(Cons("statements", r), t, repl) = Cons("statements", r)
  <2>. DEFINE a == <<"statements">>
  <2>1. Rule("statements", t, repl) = <<a>>
    BY <1>1, <1>5
  <2>2. a \o r = Cons("statements", r)
    BY Symbols
  <2>. HIDE DEF a
  <2>3. Rule("statements", t, repl) # <<>> /\ Rule("statements", t, repl)[1] = a
    BY ONLY <2>1
  <2>. QED  BY <2>2, <2>3, <1>4
<1>6. ASSUME t \in StartsStatement(repl)
      PROVE  Outcome(Cons("statements", r), t, repl) =
          Outcome(Cons("one", Cons("statements", r)), t, repl)
  <2>. DEFINE z == Cons("statements", r)
              b == <<"statements">>
              s == Statement(t)
              a == s \o b
  <2>1. z \in Seq(Word) /\ b \in Seq(Word)
    BY ConsFacts, Words, Tuples
  <2>2. s \in Seq(Word) /\ t \in StartsStatement(repl)
    BY <1>6, StarterFacts
  <2>3. b \o r = z
    BY DEF Cons
  <2>4. Rule("statements", t, repl) = <<a>>
    BY <1>1, <1>6
  <2>. HIDE DEF z, b, s
  <2>5. a \o r = s \o z
    <3>1. (s \o b) \o r = s \o (b \o r)
      BY <2>1, <2>2, Associative
    <3>. QED  BY <2>3, <3>1
  <2>6. Outcome(Cons("one", z), t, repl) = s \o z
    BY <2>1, <2>2, OutcomeOne DEF s
  <2>. HIDE DEF a
  <2>7. Rule("statements", t, repl) # <<>> /\ Rule("statements", t, repl)[1] = a
    BY ONLY <2>4
  <2>8. Outcome(Cons("statements", r), t, repl) = a \o r
    BY <2>7, <1>4
  <2>. QED  BY <2>5, <2>6, <2>8 DEF z
<1>7. ASSUME t \notin StartsStatement(repl) \cup {"newline"}
      PROVE  Outcome(Cons("statements", r), t, repl) = Outcome(r, t, repl)
  BY <1>1, <1>2, <1>4, <1>7
<1>. QED  BY <1>5, <1>6, <1>7

LEMMA OutcomeBody ==
  ASSUME NEW r \in Seq(Word), NEW t, NEW repl \in BOOLEAN
  PROVE  /\ t = "newline" =>
              Outcome(Cons("body", r), t, repl) = Cons("body", r)
         /\ t \in (StartsStatement(repl) \ {"is"}) =>
              Outcome(Cons("body", r), t, repl) = Outcome(Cons("one", Cons("body", r)), t, repl)
         /\ t \notin (StartsStatement(repl) \ {"is"}) \cup {"newline"} =>
              Outcome(Cons("body", r), t, repl) = Outcome(r, t, repl)
<1>1. /\ t = "newline" => Rule("body", t, repl) = <<<<"body">>>>
      /\ t \in (StartsStatement(repl) \ {"is"}) => Rule("body", t, repl) =
          <<Statement(t) \o <<"body">>>>
      /\ t \notin (StartsStatement(repl) \ {"is"}) \cup {"newline"} => Rule("body", t, repl) = <<>>
  BY StarterFacts DEF Rule
<1>2. MayBeEmpty("body", t)
  BY DEF MayBeEmpty
<1>3. t = "eof" => Rule("body", t, repl) = <<>>
  BY <1>1, StarterFacts
<1>4. Outcome(Cons("body", r), t, repl) =
        IF Rule("body", t, repl) # <<>> THEN Rule("body", t, repl)[1] \o r
        ELSE IF MayBeEmpty("body", t) THEN Outcome(r, t, repl) ELSE Astray
  BY <1>3, OutcomeCons, Words
<1>5. ASSUME t = "newline" PROVE Outcome(Cons("body", r), t, repl) = Cons("body", r)
  <2>. DEFINE a == <<"body">>
  <2>1. Rule("body", t, repl) = <<a>>
    BY <1>1, <1>5
  <2>2. a \o r = Cons("body", r)
    BY Symbols
  <2>. HIDE DEF a
  <2>3. Rule("body", t, repl) # <<>> /\ Rule("body", t, repl)[1] = a
    BY ONLY <2>1
  <2>. QED  BY <2>2, <2>3, <1>4
<1>6. ASSUME t \in (StartsStatement(repl) \ {"is"})
      PROVE  Outcome(Cons("body", r), t, repl) = Outcome(Cons("one", Cons("body", r)), t, repl)
  <2>. DEFINE z == Cons("body", r)
              b == <<"body">>
              s == Statement(t)
              a == s \o b
  <2>1. z \in Seq(Word) /\ b \in Seq(Word)
    BY ConsFacts, Words, Tuples
  <2>2. s \in Seq(Word) /\ t \in StartsStatement(repl)
    BY <1>6, StarterFacts
  <2>3. b \o r = z
    BY DEF Cons
  <2>4. Rule("body", t, repl) = <<a>>
    BY <1>1, <1>6
  <2>. HIDE DEF z, b, s
  <2>5. a \o r = s \o z
    <3>1. (s \o b) \o r = s \o (b \o r)
      BY <2>1, <2>2, Associative
    <3>. QED  BY <2>3, <3>1
  <2>6. Outcome(Cons("one", z), t, repl) = s \o z
    BY <2>1, <2>2, OutcomeOne DEF s
  <2>. HIDE DEF a
  <2>7. Rule("body", t, repl) # <<>> /\ Rule("body", t, repl)[1] = a
    BY ONLY <2>4
  <2>8. Outcome(Cons("body", r), t, repl) = a \o r
    BY <2>7, <1>4
  <2>. QED  BY <2>5, <2>6, <2>8 DEF z
<1>7. ASSUME t \notin (StartsStatement(repl) \ {"is"}) \cup {"newline"}
      PROVE  Outcome(Cons("body", r), t, repl) = Outcome(r, t, repl)
  BY <1>1, <1>2, <1>4, <1>7
<1>. QED  BY <1>5, <1>6, <1>7

LEMMA OutcomeGuarded ==
  ASSUME NEW r \in Seq(Word), NEW t, NEW repl \in BOOLEAN
  PROVE  /\ t = "newline" =>
              Outcome(Cons("guarded", r), t, repl) = Cons("one", Cons("statements", r))
         /\ t \in StartsStatement(repl) =>
              Outcome(Cons("guarded", r), t, repl) =
                  Outcome(Cons("one", Cons("statements", r)), t, repl)
         /\ t \notin StartsStatement(repl) \cup {"newline"} =>
              Outcome(Cons("guarded", r), t, repl) = Outcome(r, t, repl)
<1>1. /\ t = "newline" => Rule("guarded", t, repl) = <<<<"one", "statements">>>>
      /\ t \in StartsStatement(repl) => Rule("guarded", t, repl) =
          <<Statement(t) \o <<"statements">>>>
      /\ t \notin StartsStatement(repl) \cup {"newline"} => Rule("guarded", t, repl) = <<>>
  BY StarterFacts DEF Rule
<1>2. MayBeEmpty("guarded", t)
  BY DEF MayBeEmpty
<1>3. t = "eof" => Rule("guarded", t, repl) = <<>>
  BY <1>1, StarterFacts
<1>4. Outcome(Cons("guarded", r), t, repl) =
        IF Rule("guarded", t, repl) # <<>> THEN Rule("guarded", t, repl)[1] \o r
        ELSE IF MayBeEmpty("guarded", t) THEN Outcome(r, t, repl) ELSE Astray
  BY <1>3, OutcomeCons, Words
<1>5. ASSUME t = "newline" PROVE Outcome(Cons("guarded", r), t, repl) =
        Cons("one", Cons("statements", r))
  <2>. DEFINE a == <<"one", "statements">>
  <2>1. Rule("guarded", t, repl) = <<a>>
    BY <1>1, <1>5
  <2>2. a \o r = Cons("one", Cons("statements", r))
    BY Symbols
  <2>. HIDE DEF a
  <2>3. Rule("guarded", t, repl) # <<>> /\ Rule("guarded", t, repl)[1] = a
    BY ONLY <2>1
  <2>. QED  BY <2>2, <2>3, <1>4
<1>6. ASSUME t \in StartsStatement(repl)
      PROVE  Outcome(Cons("guarded", r), t, repl) =
          Outcome(Cons("one", Cons("statements", r)), t, repl)
  <2>. DEFINE z == Cons("statements", r)
              b == <<"statements">>
              s == Statement(t)
              a == s \o b
  <2>1. z \in Seq(Word) /\ b \in Seq(Word)
    BY ConsFacts, Words, Tuples
  <2>2. s \in Seq(Word) /\ t \in StartsStatement(repl)
    BY <1>6, StarterFacts
  <2>3. b \o r = z
    BY DEF Cons
  <2>4. Rule("guarded", t, repl) = <<a>>
    BY <1>1, <1>6
  <2>. HIDE DEF z, b, s
  <2>5. a \o r = s \o z
    <3>1. (s \o b) \o r = s \o (b \o r)
      BY <2>1, <2>2, Associative
    <3>. QED  BY <2>3, <3>1
  <2>6. Outcome(Cons("one", z), t, repl) = s \o z
    BY <2>1, <2>2, OutcomeOne DEF s
  <2>. HIDE DEF a
  <2>7. Rule("guarded", t, repl) # <<>> /\ Rule("guarded", t, repl)[1] = a
    BY ONLY <2>4
  <2>8. Outcome(Cons("guarded", r), t, repl) = a \o r
    BY <2>7, <1>4
  <2>. QED  BY <2>5, <2>6, <2>8 DEF z
<1>7. ASSUME t \notin StartsStatement(repl) \cup {"newline"}
      PROVE  Outcome(Cons("guarded", r), t, repl) = Outcome(r, t, repl)
  BY <1>1, <1>2, <1>4, <1>7
<1>. QED  BY <1>5, <1>6, <1>7

-----------------------------------------------------------------------------
(***************************************************************************)
(* The inductive invariant: the symbols the grammar has for the parts in   *)
(* progress are, once the current token is taken from them, what it        *)
(* expects; after an error nothing is.                                     *)
(***************************************************************************)
Typed(q) == /\ q \in [current : Tokens \cup {"eof"}, had_error : BOOLEAN, panic_mode : BOOLEAN,
                      repl_mode : BOOLEAN]
            /\ q.panic_mode => q.had_error

\* A part that may be on top whatever the token is.
Ready(c) ==
  \/ c # <<>> /\ Head(c) \notin Fleeting
  \/ Top(c, "parseStmt") /\ \E x \in {"end", "elseStmt", "skipNewlines"} : Top(Tail(c), x)

Settled(q, c) ==
  \/ Ready(c)
  \/ c = <<>> /\ q.current = "eof"
  \/ Top(c, "moreParams") /\ q.current # "="
  \/ Top(c, "parseStmt") /\ q.current \notin {"newline", "eof"}
  \/ c # <<>> /\ Head(c) \in {"recover", "calm", "aliasName"} /\ q.had_error

Agrees(q, s, e, astray) ==
  IF q.had_error \/ astray THEN e = Astray
  ELSE Outcome(s, q.current, q.repl_mode) = IF q.current = "eof" /\ e # Astray THEN <<>> ELSE e

\* Of what is weighed no more than the bound is open.
Bounded(q, n) == n <= Nesting + 3 /\ (q.current \in Openers => n <= Nesting + 1)

Tracks(q, c, e, astray, s, n, u) ==
  /\ u \in BOOLEAN
  /\ Owing(c, s, n, u)
  /\ Bounded(q, n)
  /\ With = {} => Agrees(q, s, e, astray)

Sound(q, c, e, astray) ==
  /\ Typed(q)
  /\ astray \in BOOLEAN
  /\ Settled(q, c)
  /\ \E s, n, u : Tracks(q, c, e, astray, s, n, u)

Inv == Sound(p, calls, expected, strays) /\ read \in BOOLEAN

\* Nothing went wrong so far.
Clean == With = {} /\ ~ p.had_error /\ ~ strays

LEMMA ErrorAtFacts ==
  ASSUME NEW q, Typed(q)
  PROVE  /\ Typed(ErrorAt(q))
         /\ ErrorAt(q).had_error
         /\ ErrorAt(q).current = q.current
         /\ ErrorAt(q).repl_mode = q.repl_mode
<1>1. CASE q.panic_mode
  BY <1>1 DEF ErrorAt, Typed
<1>2. CASE ~ q.panic_mode
  BY <1>2 DEF ErrorAt, Typed
<1>. QED  BY <1>1, <1>2

LEMMA ReadFacts ==
  ASSUME NEW q, NEW bad \in BOOLEAN, NEW t \in Tokens \cup {"eof"}, Typed(q)
  PROVE  /\ Typed(Read(q, bad, t))
         /\ Read(q, bad, t).current = t
         /\ Read(q, bad, t).repl_mode = q.repl_mode
         /\ Read(q, bad, t).had_error = (bad \/ q.had_error)
<1>. DEFINE r == IF bad THEN ErrorAt(q) ELSE q
<1>1. Typed(r) /\ r.repl_mode = q.repl_mode /\ r.had_error = (bad \/ q.had_error)
  <2>1. q.had_error \in BOOLEAN
    BY DEF Typed
  <2>2. CASE bad
    <3>1. ErrorAt(q).had_error \in BOOLEAN
      BY ErrorAtFacts DEF Typed
    <3>. QED  BY <2>2, <3>1, ErrorAtFacts
  <2>3. CASE ~ bad
    BY <2>1, <2>3
  <2>. QED  BY <2>2, <2>3
<1>2. Read(q, bad, t) = [r EXCEPT !.current = t]
  BY DEF Read
<1>. HIDE DEF r
<1>. QED  BY <1>1, <1>2 DEF Typed

LEMMA AstrayFacts ==
  ASSUME NEW t \in Tokens \cup {"eof"}, NEW repl
  PROVE  /\ Derived(Astray, t, repl) = Astray
         /\ With = {} => Derive(Astray, t, repl) = Astray
         /\ ~ Ends(Astray)
         /\ Astray # <<>>
<1>1. Astray \in Seq(Word) /\ Astray # <<>> /\ Len(Astray) = 1 /\ Astray[1] = "astray"
  <2>. DEFINE a == "astray"
  <2>1. a \in Word
    BY Words
  <2>. HIDE DEF a
  <2>2. <<a>> \in Seq(Word) /\ <<a>> # <<>> /\ Len(<<a>>) = 1 /\ <<a>>[1] = a
    BY <2>1
  <2>. QED  BY <2>2 DEF Astray, a
<1>2. ~ MayBeEmpty("astray", t) /\ ~ MayBeEmpty("astray", "eof")
  BY DEF MayBeEmpty
<1>3. t # "astray"
  BY TokenFacts DEF Tokens
<1>4. Rule("astray", t, repl) = <<>>
  BY <1>3 DEF Rule
<1>5. ~ Ends(Astray)
  BY <1>1, <1>2 DEF Ends
<1>6. Derived(Astray, t, repl) = Astray
  <2>1. CASE t = "eof"
    <3>1. ~ \A i \in 1..Len(Astray) : MayBeEmpty(Astray[i], t)
      BY <1>1, <1>2
    <3>. QED  BY <2>1, <3>1 DEF Derived
  <2>2. CASE t # "eof"
    <3>1. Starters(Astray, t, repl) = {}
      BY <1>1, <1>4 DEF Starters, Meets
    <3>. QED  BY <1>1, <2>2, <3>1, DeriveFacts
  <2>. QED  BY <2>1, <2>2
<1>. QED  BY <1>1, <1>5, <1>6, DerivedIsDerive

\* A sequence of symbols goes on with the next token as the invariant says.
LEMMA DerivedOutcome ==
  ASSUME NEW s \in Seq(Word), NEW t \in Tokens \cup {"eof"}, NEW repl
  PROVE  Outcome(s, t, repl) =
           IF t = "eof" /\ Derived(s, t, repl) # Astray THEN <<>> ELSE Derived(s, t, repl)
<1>1. CASE t # "eof"
  BY <1>1 DEF Outcome
<1>2. CASE t = "eof"
  <2>1. Derived(s, t, repl) = IF Ends(s) THEN s ELSE Astray
    <3>1. DOMAIN s = 1..Len(s)
      OBVIOUS
    <3>. QED  BY <1>2, <3>1 DEF Derived, Ends
  <2>2. Ends(s) => s # Astray
    BY AstrayFacts
  <2>. QED  BY <1>2, <2>1, <2>2 DEF Outcome
<1>. QED  BY <1>1, <1>2

-----------------------------------------------------------------------------
(***************************************************************************)
(* What the kinds of steps keep: to go on without a token, to take one, to *)
(* report an error.                                                        *)
(***************************************************************************)
LEMMA Turned ==
  ASSUME Inv, NEW s, NEW n, NEW u, Tracks(p, calls, expected, strays, s, n, u),
         NEW d, NEW a, NEW m, NEW v \in BOOLEAN, Owing(d, a, m, v), m <= n, Settled(p, d),
         Clean => Outcome(s, p.current, p.repl_mode) = Outcome(a, p.current, p.repl_mode),
         Turn(d)
  PROVE  Inv'
<1>1. p' = p /\ calls' = d /\ read' = FALSE /\ expected' = expected /\ strays' = strays
  BY DEF Turn, Stay
<1>2. n \in Nat /\ m \in Nat
  BY DepthFacts DEF Tracks
<1>3. Bounded(p, m)
  BY <1>2, NestingAssumption DEF Tracks, Bounded
<1>4. With = {} => Agrees(p, a, expected, strays)
  BY DEF Tracks, Agrees, Clean
<1>5. Tracks(p, d, expected, strays, a, m, v)
  BY <1>3, <1>4 DEF Tracks
<1>6. Sound(p, d, expected, strays)
  BY <1>5 DEF Inv, Sound
<1>. QED  BY <1>1, <1>6 DEF Inv

\* Calmed: the same with panic mode ended.
LEMMA Calmed ==
  ASSUME Inv, NEW s, NEW n, NEW u, Tracks(p, calls, expected, strays, s, n, u),
         NEW d, NEW a, NEW m, NEW v \in BOOLEAN, Owing(d, a, m, v), m <= n, Ready(d),
         Clean => Outcome(s, p.current, p.repl_mode) = Outcome(a, p.current, p.repl_mode),
         Stay([p EXCEPT !.panic_mode = FALSE], d)
  PROVE  Inv'
<1>. DEFINE q == [p EXCEPT !.panic_mode = FALSE]
<1>1. p' = q /\ calls' = d /\ read' = FALSE /\ expected' = expected /\ strays' = strays
  BY DEF Stay
<1>2. /\ Typed(q)
      /\ q.current = p.current /\ q.had_error = p.had_error /\ q.repl_mode = p.repl_mode
  BY DEF Inv, Sound, Typed
<1>. HIDE DEF q
<1>3. n \in Nat /\ m \in Nat
  BY DepthFacts DEF Tracks
<1>4. Bounded(q, m)
  BY <1>2, <1>3, NestingAssumption DEF Tracks, Bounded
<1>5. With = {} => Agrees(q, a, expected, strays)
  BY <1>2 DEF Tracks, Agrees, Clean
<1>6. Tracks(q, d, expected, strays, a, m, v)
  BY <1>4, <1>5 DEF Tracks
<1>7. Sound(q, d, expected, strays)
  BY <1>2, <1>6 DEF Inv, Sound, Settled
<1>. QED  BY <1>1, <1>7 DEF Inv

\* Where no program goes on, nothing is expected any more.
LEMMA NothingExpected ==
  ASSUME NEW s, NEW n, NEW u, Tracks(p, calls, expected, strays, s, n, u), With = {},
         Clean => Outcome(s, p.current, p.repl_mode) = Astray
  PROVE  expected = Astray
<1>1. Agrees(p, s, expected, strays)
  BY DEF Tracks
<1>2. CASE p.had_error \/ strays
  BY <1>1, <1>2 DEF Agrees
<1>3. CASE ~ (p.had_error \/ strays)
  <2>1. Astray = IF p.current = "eof" /\ expected # Astray THEN <<>> ELSE expected
    BY <1>1, <1>3 DEF Agrees, Clean
  <2>2. Astray # <<>>
    BY AstrayFacts
  <2>. QED  BY <2>1, <2>2
<1>. QED  BY <1>2, <1>3

LEMMA Complained ==
  ASSUME Inv, NEW s, NEW n, NEW u, Tracks(p, calls, expected, strays, s, n, u),
         NEW d, NEW a, NEW m, NEW v \in BOOLEAN, Owing(d, a, m, v), m <= n, Ready(d),
         Clean => Outcome(s, p.current, p.repl_mode) = Astray,
         Complain(d)
  PROVE  Inv'
<1>. DEFINE q == ErrorAt(p)
<1>1. p' = q /\ calls' = d /\ read' = FALSE /\ expected' = expected /\ strays' = strays
  BY DEF Complain, Stay
<1>2. Typed(q) /\ q.had_error /\ q.current = p.current
  BY ErrorAtFacts DEF Inv, Sound
<1>. HIDE DEF q
<1>3. n \in Nat /\ m \in Nat
  BY DepthFacts DEF Tracks
<1>4. Bounded(q, m)
  BY <1>2, <1>3, NestingAssumption DEF Tracks, Bounded
<1>5. With = {} => Agrees(q, a, expected, strays)
  BY <1>2, NothingExpected DEF Agrees
<1>6. Tracks(q, d, expected, strays, a, m, v)
  BY <1>4, <1>5 DEF Tracks
<1>7. Sound(q, d, expected, strays)
  BY <1>2, <1>6 DEF Inv, Sound, Settled
<1>. QED  BY <1>1, <1>7 DEF Inv

\* The next token, whoever reports an error about the current one.
LEMMA Advanced ==
  ASSUME Inv, NEW s, NEW n, NEW u, Tracks(p, calls, expected, strays, s, n, u),
         NEW d, NEW a, NEW m, NEW v \in BOOLEAN, Owing(d, a, m, v),
         m <= n \/ (p.current \in Openers /\ m <= n + 2),
         NEW q \in {p, ErrorAt(p)}, p.current # "eof", Advance(q, d)
  PROVE  /\ Typed(p') /\ calls' = d /\ read' = TRUE
         /\ p'.repl_mode = p.repl_mode
         /\ Bounded(p', m)
         /\ \/ p'.had_error /\ expected' = Astray
            \/ /\ p'.had_error = q.had_error
               /\ expected' = Derive(expected, p'.current, p.repl_mode)
<1>1. Typed(q) /\ q.repl_mode = p.repl_mode /\ q.current = p.current /\ q.had_error \in BOOLEAN
  BY ErrorAtFacts DEF Inv, Sound, Typed
<1>2. PICK t \in Supply(d), bad \in BOOLEAN :
         /\ p' = Read(q, bad, t)
         /\ expected' = IF bad THEN Astray ELSE Derive(expected, t, p.repl_mode)
  BY DEF Advance
<1>3. t \in Tokens \cup {"eof"} /\ (t \in Openers => MayOpen(d))
  BY <1>2, TokenFacts DEF Supply, Openers
<1>4. /\ Typed(p') /\ p'.current = t /\ p'.repl_mode = p.repl_mode
      /\ p'.had_error = (bad \/ q.had_error)
  <2>1. /\ Typed(Read(q, bad, t)) /\ Read(q, bad, t).current = t
        /\ Read(q, bad, t).repl_mode = q.repl_mode
        /\ Read(q, bad, t).had_error = (bad \/ q.had_error)
    BY ONLY <1>1, <1>3, bad \in BOOLEAN, ReadFacts
  <2>2. p' = Read(q, bad, t)
    BY <1>2
  <2>. QED  BY <1>1, <2>1, <2>2
<1>5. calls' = d /\ read' = TRUE
  BY DEF Advance
<1>6. n \in Nat /\ m \in Nat /\ Depth(d) \in Nat /\ m <= Depth(d) + 1
  BY DepthFacts DEF Tracks
<1>7. Bounded(p', m)
  <2>1. m <= Nesting + 3
    BY <1>6, NestingAssumption DEF Tracks, Bounded
  <2>2. ASSUME t \in Openers PROVE m <= Nesting + 1
    <3>1. Depth(d) < Nesting + 1
      BY <1>3, <1>6, <2>2, NestingAssumption DEF MayOpen
    <3>. QED  BY <3>1, <1>6, NestingAssumption
  <2>. QED  BY <1>4, <2>1, <2>2 DEF Bounded
<1>8. CASE bad
  BY <1>2, <1>4, <1>5, <1>7, <1>8
<1>9. CASE ~ bad
  BY <1>1, <1>2, <1>4, <1>5, <1>7, <1>9
<1>. QED  BY <1>8, <1>9

LEMMA Taken ==
  ASSUME Inv, NEW s, NEW n, NEW u, Tracks(p, calls, expected, strays, s, n, u),
         NEW d, NEW a, NEW m, NEW v \in BOOLEAN, Owing(d, a, m, v),
         m <= n \/ (p.current \in Openers /\ m <= n + 2),
         p.current # "eof",
         Ready(d) \/ (p.had_error /\ d # <<>> /\ Head(d) \in {"recover", "calm", "aliasName"}),
         Clean => Outcome(s, p.current, p.repl_mode) = a,
         Take(d)
  PROVE  Inv'
<1>1. Advance(p, d) /\ strays' = strays
  BY DEF Take
<1>2. /\ Typed(p') /\ calls' = d /\ read' = TRUE
      /\ p'.repl_mode = p.repl_mode
      /\ Bounded(p', m)
      /\ \/ p'.had_error /\ expected' = Astray
         \/ /\ p'.had_error = p.had_error
            /\ expected' = Derive(expected, p'.current, p.repl_mode)
  BY <1>1, Advanced
<1>3. ASSUME With = {} PROVE Agrees(p', a, expected', strays')
  <2>0. p'.current \in Tokens \cup {"eof"}
    BY <1>2 DEF Typed
  <2>1. CASE p'.had_error /\ expected' = Astray
    BY <2>1 DEF Agrees
  <2>2. CASE /\ p'.had_error = p.had_error
             /\ expected' = Derive(expected, p'.current, p.repl_mode)
    <3>1. Agrees(p, s, expected, strays)
      BY <1>3 DEF Tracks
    <3>2. CASE p.had_error \/ strays
      <4>1. expected = Astray
        BY <3>1, <3>2 DEF Agrees
      <4>2. expected' = Astray
        BY <1>3, <4>1, <2>0, <2>2, AstrayFacts
      <4>. QED  BY <1>1, <2>2, <3>2, <4>2 DEF Agrees
    <3>3. CASE ~ (p.had_error \/ strays)
      <4>1. expected = a
        BY <1>3, <3>1, <3>3 DEF Agrees, Clean
      <4>2. a \in Seq(Word)
        BY DEF Owing
      <4>3. Outcome(a, p'.current, p.repl_mode) =
              IF p'.current = "eof" /\ expected' # Astray THEN <<>> ELSE expected'
        <5>1. expected' = Derived(a, p'.current, p.repl_mode)
          BY <1>3, <2>2, <4>1, <4>2, DerivedIsDerive
        <5>. QED  BY <2>0, <4>2, <5>1, DerivedOutcome
      <4>. QED  BY <1>1, <1>2, <2>2, <3>3, <4>3 DEF Agrees
    <3>. QED  BY <3>2, <3>3
  <2>. QED  BY <1>2, <2>1, <2>2
<1>4. p.had_error => p'.had_error
  BY <1>2
<1>5. Settled(p', d)
  BY <1>4 DEF Settled
<1>6. Tracks(p', d, expected', strays', a, m, v)
  BY <1>2, <1>3 DEF Tracks
<1>7. Sound(p', d, expected', strays')
  BY <1>1, <1>2, <1>5, <1>6 DEF Inv, Sound
<1>. QED  BY <1>2, <1>7 DEF Inv

\* The current token is refused and taken all the same.
LEMMA TakenRefused ==
  ASSUME Inv, NEW s, NEW n, NEW u, Tracks(p, calls, expected, strays, s, n, u),
         NEW d, NEW a, NEW m, NEW v \in BOOLEAN, Owing(d, a, m, v), m <= n,
         p.current # "eof", NEW q \in {p, ErrorAt(p)}, strays' \in BOOLEAN,
         Clean => Outcome(s, p.current, p.repl_mode) = Astray,
         \/ q = p /\ strays' /\ Ready(d)
         \/ q = ErrorAt(p) /\ strays' = strays
            /\ (Ready(d) \/ (d # <<>> /\ Head(d) \in {"recover", "calm", "aliasName"})),
         Advance(q, d)
  PROVE  Inv'
<1>1. /\ Typed(p') /\ calls' = d /\ read' = TRUE
      /\ p'.repl_mode = p.repl_mode
      /\ Bounded(p', m)
      /\ \/ p'.had_error /\ expected' = Astray
         \/ /\ p'.had_error = q.had_error
            /\ expected' = Derive(expected, p'.current, p.repl_mode)
  BY Advanced
<1>2. p'.had_error \/ strays'
  BY <1>1, ErrorAtFacts DEF Inv, Sound
<1>3. With = {} => expected' = Astray
  <2>1. p'.current \in Tokens \cup {"eof"}
    BY <1>1 DEF Typed
  <2>2. With = {} => expected = Astray
    BY NothingExpected
  <2>. QED  BY <1>1, <2>1, <2>2, AstrayFacts
<1>4. With = {} => Agrees(p', a, expected', strays')
  BY <1>2, <1>3 DEF Agrees
<1>5. Settled(p', d)
  BY <1>1, ErrorAtFacts DEF Inv, Sound, Settled
<1>6. Tracks(p', d, expected', strays', a, m, v)
  BY <1>1, <1>4 DEF Tracks
<1>7. Sound(p', d, expected', strays')
  BY <1>1, <1>5, <1>6 DEF Sound
<1>. QED  BY <1>1, <1>7 DEF Inv

LEMMA OwedSymbols ==
  ASSUME NEW r \in Seq(Word)
  PROVE  /\ <<"=", "expr", "moreDefaults">> \o r =
              Cons("=", Cons("expr", Cons("moreDefaults", r)))
         /\ <<"action", "line">> \o r = Cons("action", Cons("line", r))
         /\ <<"element", "line">> \o r = Cons("element", Cons("line", r))
         /\ <<"calls", "line">> \o r = Cons("calls", Cons("line", r))
         /\ <<"path", "line">> \o r = Cons("path", Cons("line", r))
         /\ <<"path", "import", "ident", "names", "line">> \o r =
              Cons("path", Cons("import", Cons("ident", Cons("names", Cons("line", r)))))
         /\ <<"import", "ident", "names", "line">> \o r =
              Cons("import", Cons("ident", Cons("names", Cons("line", r))))
         /\ <<"ident", "names", "line">> \o r = Cons("ident", Cons("names", Cons("line", r)))
         /\ Body \o r = Cons("line", Cons("statements", Cons("end", Cons("line", r))))
         /\ (<<"to", "expr", "increment">> \o Body) \o r =
              Cons("to", Cons("expr", Cons("increment",
                  Cons("line", Cons("statements", Cons("end", Cons("line", r)))))))
         /\ (<<"increment">> \o Body) \o r =
              Cons("increment", Cons("line", Cons("statements", Cons("end", Cons("line", r)))))
<1>1. \A a, b \in Word : <<a, b>> \o r = Cons(a, Cons(b, r))
  BY Spread
<1>2. \A a, b, c \in Word : <<a, b, c>> \o r = Cons(a, Cons(b, Cons(c, r)))
  BY Spread
<1>3. \A a, b, c, d \in Word : <<a, b, c, d>> \o r = Cons(a, Cons(b, Cons(c, Cons(d, r))))
  BY Spread
<1>4. \A a, b, c, d, e \in Word : FiveFirst(a, b, c, d, e, r)
  BY Spread
<1>5. /\ <<"action", "line">> \o r = Cons("action", Cons("line", r))
      /\ <<"element", "line">> \o r = Cons("element", Cons("line", r))
      /\ <<"calls", "line">> \o r = Cons("calls", Cons("line", r))
      /\ <<"path", "line">> \o r = Cons("path", Cons("line", r))
  BY <1>1, Words
<1>6. <<"=", "expr", "moreDefaults">> \o r =
           Cons("=", Cons("expr", Cons("moreDefaults", r)))
  <2>1. "=" \in Word /\ "expr" \in Word /\ "moreDefaults" \in Word
    BY Words
  <2>. QED  BY ONLY <2>1, <1>2
<1>7. <<"ident", "names", "line">> \o r = Cons("ident", Cons("names", Cons("line", r)))
  <2>1. "ident" \in Word /\ "names" \in Word /\ "line" \in Word
    BY Words
  <2>. QED  BY ONLY <2>1, <1>2
<1>8. <<"import", "ident", "names", "line">> \o r =
           Cons("import", Cons("ident", Cons("names", Cons("line", r))))
  <2>. DEFINE a == "import"
              b == "ident"
              c == "names"
              d == "line"
  <2>1. a \in Word /\ b \in Word /\ c \in Word /\ d \in Word
    BY Words
  <2>. HIDE DEF a, b, c, d
  <2>2. <<a, b, c, d>> \o r = Cons(a, Cons(b, Cons(c, Cons(d, r))))
    BY ONLY <2>1, <1>3
  <2>. QED  BY <2>2 DEF a, b, c, d
<1>9. Body \o r = Cons("line", Cons("statements", Cons("end", Cons("line", r))))
  <2>1. "line" \in Word /\ "statements" \in Word /\ "end" \in Word
    BY Words
  <2>2. <<"line", "statements", "end", "line">> \o r =
          Cons("line", Cons("statements", Cons("end", Cons("line", r))))
    BY ONLY <2>1, <1>3
  <2>. QED  BY ONLY <2>2 DEF Body
<1>10. <<"path", "import", "ident", "names", "line">> \o r =
           Cons("path", Cons("import", Cons("ident", Cons("names", Cons("line", r)))))
  <2>. DEFINE a == "path"
              b == "import"
              c == "ident"
              d == "names"
              e == "line"
  <2>1. a \in Word /\ b \in Word /\ c \in Word /\ d \in Word /\ e \in Word
    BY Words
  <2>. HIDE DEF a, b, c, d, e
  <2>2. FiveFirst(a, b, c, d, e, r)
    BY ONLY <2>1, <1>4
  <2>. QED  BY <2>2 DEF FiveFirst, a, b, c, d, e
<1>. DEFINE z == Body \o r
<1>11. Body \in Seq(Word) /\ z \in Seq(Word)
  <2>1. Body \in Seq(Word)
    BY Tuples, Words DEF Body
  <2>. QED  BY <2>1, ConcatProperties
<1>12. z = Cons("line", Cons("statements", Cons("end", Cons("line", r))))
  BY <1>9
<1>13. (<<"to", "expr", "increment">> \o Body) \o r = Cons("to", Cons("expr", Cons("increment", z)))
  <2>1. <<"to", "expr", "increment">> \in Seq(Word)
    BY Tuples, Words
  <2>2. (<<"to", "expr", "increment">> \o Body) \o r = <<"to", "expr", "increment">> \o z
    BY ONLY <2>1, <1>11, r \in Seq(Word), Associative DEF z
  <2>3. \A a, b, c \in Word : <<a, b, c>> \o z = Cons(a, Cons(b, Cons(c, z)))
    <3>. HIDE DEF z
    <3>. QED  BY <1>11, Spread
  <2>4. <<"to", "expr", "increment">> \o z = Cons("to", Cons("expr", Cons("increment", z)))
    <3>1. "to" \in Word /\ "expr" \in Word /\ "increment" \in Word
      BY Words
    <3>. HIDE DEF z
    <3>. QED  BY ONLY <2>3, <3>1
  <2>. QED  BY ONLY <2>2, <2>4
<1>14. (<<"increment">> \o Body) \o r = Cons("increment", z)
  <2>1. <<"increment">> \in Seq(Word)
    BY Tuples, Words
  <2>2. (<<"increment">> \o Body) \o r = <<"increment">> \o z
    BY ONLY <2>1, <1>11, r \in Seq(Word), Associative DEF z
  <2>3. \A a \in Word : <<a>> \o z = Cons(a, z)
    <3>. HIDE DEF z
    <3>. QED  BY <1>11, Spread
  <2>4. <<"increment">> \o z = Cons("increment", z)
    <3>1. "increment" \in Word
      BY Words
    <3>. HIDE DEF z
    <3>. QED  BY ONLY <2>3, <3>1
  <2>. QED  BY ONLY <2>2, <2>4
<1>. QED  BY <1>5, <1>6, <1>7, <1>8, <1>9, <1>10, <1>13, <1>14, <1>12

LEMMA OwedForms ==
  ASSUME NEW r \in Seq(Word)
  PROVE  /\ Owed("program") \o r = Cons("statements", r)
         /\ Owed("parseBlock") \o r = Cons("statements", r)
         /\ Owed("nextStmt") \o r = r
         /\ Owed("recover") \o r = r
         /\ Owed("calm") \o r = r
         /\ Owed("aliasName") \o r = r
         /\ Owed("parseStmt") \o r = Cons("one", r)
         /\ Owed("expectNewline") \o r = Cons("line", r)
         /\ Owed("alias") \o r = Cons("line", r)
         /\ Owed("parseExpr") \o r = Cons("expr", r)
         /\ Owed("moreParams") \o r = Cons("default", r)
         /\ Owed("dueDefault") \o r = Cons("=", Cons("expr", Cons("moreDefaults", r)))
         /\ Owed("nameStmt") \o r = Cons("action", Cons("line", r))
         /\ Owed("element") \o r = Cons("element", Cons("line", r))
         /\ Owed("arguments") \o r = Cons("calls", Cons("line", r))
         /\ Owed("exprWithLeft") \o r = Cons("indices", r)
         /\ Owed("elseStmt") \o r = Cons("orOne", r)
         /\ Owed("elseBlock") \o r = Cons("otherwise", r)
         /\ Owed("bound") \o r =
              Cons("to", Cons("expr", Cons("increment",
                  Cons("line", Cons("statements", Cons("end", Cons("line", r)))))))
         /\ Owed("increment") \o r =
              Cons("increment", Cons("line", Cons("statements", Cons("end", Cons("line", r)))))
         /\ Owed("importPath") \o r = Cons("path", Cons("line", r))
         /\ Owed("fromPath") \o r =
              Cons("path", Cons("import", Cons("ident", Cons("names", Cons("line", r)))))
         /\ Owed("imports") \o r =
              Cons("import", Cons("ident", Cons("names", Cons("line", r))))
         /\ Owed("firstName") \o r = Cons("ident", Cons("names", Cons("line", r)))
         /\ Owed("moreNames") \o r = Cons("names", r)
         /\ Owed("slash") \o r = Cons("segments", r)
         /\ Owed("tryBody") \o r = Cons("guarded", r)
         /\ Owed("handlerBody") \o r = Cons("guarded", r)
         /\ Owed("caseStart") \o r = Cons("cases", r)
         /\ Owed("caseBody") \o r = Cons("body", r)
         /\ Owed("operators") \o r = Cons("operators", r)
         /\ Owed("items") \o r = Cons("items", r)
         /\ Owed("moreItems") \o r = Cons("moreItems", r)
         /\ Owed("branches") \o r = Cons("branches", r)
         /\ Owed("range") \o r = Cons("range", r)
         /\ Owed("params") \o r = Cons("params", r)
         /\ Owed("default") \o r = Cons("default", r)
         /\ Owed("moreDefaults") \o r = Cons("moreDefaults", r)
         /\ Owed("defaults") \o r = Cons("defaults", r)
         /\ Owed("cases") \o r = Cons("cases", r)
         /\ Owed("moreValues") \o r = Cons("moreValues", r)
         /\ Owed("extra") \o r = Cons("extra", r)
         /\ Owed("value") \o r = Cons("value", r)
         /\ Owed("name") \o r = Cons("name", r)
         /\ Owed("segment") \o r = Cons("segment", r)
         /\ Owed("ident") \o r = Cons("ident", r)
         /\ Owed("=") \o r = Cons("=", r)
         /\ Owed("(") \o r = Cons("(", r)
         /\ Owed(")") \o r = Cons(")", r)
         /\ Owed("]") \o r = Cons("]", r)
         /\ Owed("end") \o r = Cons("end", r)
         /\ Owed("catch") \o r = Cons("catch", r)
<1>1. <<>> \o r = r /\ \A a \in Word : <<a>> \o r = Cons(a, r)
  BY Spread
<1>2. /\ Owed("program") = <<"statements">>
      /\ Owed("parseBlock") = <<"statements">>
      /\ Owed("nextStmt") = <<>>
      /\ Owed("recover") = <<>>
      /\ Owed("calm") = <<>>
      /\ Owed("aliasName") = <<>>
  BY DEF Owed
<1>3. /\ Owed("program") \o r = Cons("statements", r)
      /\ Owed("parseBlock") \o r = Cons("statements", r)
      /\ Owed("nextStmt") \o r = r
      /\ Owed("recover") \o r = r
      /\ Owed("calm") \o r = r
      /\ Owed("aliasName") \o r = r
  BY <1>1, <1>2, Words
<1>4. /\ Owed("parseStmt") = <<"one">>
      /\ Owed("expectNewline") = <<"line">>
      /\ Owed("alias") = <<"line">>
      /\ Owed("parseExpr") = <<"expr">>
      /\ Owed("moreParams") = <<"default">>
      /\ Owed("exprWithLeft") = <<"indices">>
  BY DEF Owed
<1>5. /\ Owed("parseStmt") \o r = Cons("one", r)
      /\ Owed("expectNewline") \o r = Cons("line", r)
      /\ Owed("alias") \o r = Cons("line", r)
      /\ Owed("parseExpr") \o r = Cons("expr", r)
      /\ Owed("moreParams") \o r = Cons("default", r)
      /\ Owed("exprWithLeft") \o r = Cons("indices", r)
  BY <1>1, <1>4, Words
<1>6. /\ Owed("elseStmt") = <<"orOne">>
      /\ Owed("elseBlock") = <<"otherwise">>
      /\ Owed("moreNames") = <<"names">>
      /\ Owed("slash") = <<"segments">>
      /\ Owed("tryBody") = <<"guarded">>
      /\ Owed("handlerBody") = <<"guarded">>
  BY DEF Owed
<1>7. /\ Owed("elseStmt") \o r = Cons("orOne", r)
      /\ Owed("elseBlock") \o r = Cons("otherwise", r)
      /\ Owed("moreNames") \o r = Cons("names", r)
      /\ Owed("slash") \o r = Cons("segments", r)
      /\ Owed("tryBody") \o r = Cons("guarded", r)
      /\ Owed("handlerBody") \o r = Cons("guarded", r)
  BY <1>1, <1>6, Words
<1>8. /\ Owed("caseStart") = <<"cases">>
      /\ Owed("caseBody") = <<"body">>
      /\ Owed("operators") = <<"operators">>
      /\ Owed("items") = <<"items">>
      /\ Owed("moreItems") = <<"moreItems">>
      /\ Owed("branches") = <<"branches">>
  BY DEF Owed
<1>9. /\ Owed("caseStart") \o r = Cons("cases", r)
      /\ Owed("caseBody") \o r = Cons("body", r)
      /\ Owed("operators") \o r = Cons("operators", r)
      /\ Owed("items") \o r = Cons("items", r)
      /\ Owed("moreItems") \o r = Cons("moreItems", r)
      /\ Owed("branches") \o r = Cons("branches", r)
  BY <1>1, <1>8, Words
<1>10. /\ Owed("range") = <<"range">>
       /\ Owed("params") = <<"params">>
       /\ Owed("default") = <<"default">>
       /\ Owed("moreDefaults") = <<"moreDefaults">>
       /\ Owed("defaults") = <<"defaults">>
       /\ Owed("cases") = <<"cases">>
  BY DEF Owed
<1>11. /\ Owed("range") \o r = Cons("range", r)
       /\ Owed("params") \o r = Cons("params", r)
       /\ Owed("default") \o r = Cons("default", r)
       /\ Owed("moreDefaults") \o r = Cons("moreDefaults", r)
       /\ Owed("defaults") \o r = Cons("defaults", r)
       /\ Owed("cases") \o r = Cons("cases", r)
  BY <1>1, <1>10, Words
<1>12. /\ Owed("moreValues") = <<"moreValues">>
       /\ Owed("extra") = <<"extra">>
       /\ Owed("value") = <<"value">>
       /\ Owed("name") = <<"name">>
       /\ Owed("segment") = <<"segment">>
       /\ Owed("ident") = <<"ident">>
  BY DEF Owed
<1>13. /\ Owed("moreValues") \o r = Cons("moreValues", r)
       /\ Owed("extra") \o r = Cons("extra", r)
       /\ Owed("value") \o r = Cons("value", r)
       /\ Owed("name") \o r = Cons("name", r)
       /\ Owed("segment") \o r = Cons("segment", r)
       /\ Owed("ident") \o r = Cons("ident", r)
  BY <1>1, <1>12, Words
<1>14. /\ Owed("=") = <<"=">>
       /\ Owed("(") = <<"(">>
       /\ Owed(")") = <<")">>
       /\ Owed("]") = <<"]">>
       /\ Owed("end") = <<"end">>
       /\ Owed("catch") = <<"catch">>
  BY DEF Owed
<1>15. /\ Owed("=") \o r = Cons("=", r)
       /\ Owed("(") \o r = Cons("(", r)
       /\ Owed(")") \o r = Cons(")", r)
       /\ Owed("]") \o r = Cons("]", r)
       /\ Owed("end") \o r = Cons("end", r)
       /\ Owed("catch") \o r = Cons("catch", r)
  BY <1>1, <1>14, Words
<1>16. Owed("dueDefault") \o r = Cons("=", Cons("expr", Cons("moreDefaults", r)))
  <2>. DEFINE s == <<"=", "expr", "moreDefaults">>
  <2>1. Owed("dueDefault") = s
    BY DEF Owed
  <2>2. s \o r = Cons("=", Cons("expr", Cons("moreDefaults", r)))
    BY OwedSymbols
  <2>. HIDE DEF s
  <2>. QED  BY <2>1, <2>2
<1>17. Owed("nameStmt") \o r = Cons("action", Cons("line", r))
  <2>. DEFINE s == <<"action", "line">>
  <2>1. Owed("nameStmt") = s
    BY DEF Owed
  <2>2. s \o r = Cons("action", Cons("line", r))
    BY OwedSymbols
  <2>. HIDE DEF s
  <2>. QED  BY <2>1, <2>2
<1>18. Owed("element") \o r = Cons("element", Cons("line", r))
  <2>. DEFINE s == <<"element", "line">>
  <2>1. Owed("element") = s
    BY DEF Owed
  <2>2. s \o r = Cons("element", Cons("line", r))
    BY OwedSymbols
  <2>. HIDE DEF s
  <2>. QED  BY <2>1, <2>2
<1>19. Owed("arguments") \o r = Cons("calls", Cons("line", r))
  <2>. DEFINE s == <<"calls", "line">>
  <2>1. Owed("arguments") = s
    BY DEF Owed
  <2>2. s \o r = Cons("calls", Cons("line", r))
    BY OwedSymbols
  <2>. HIDE DEF s
  <2>. QED  BY <2>1, <2>2
<1>20. Owed("bound") \o r =
        Cons("to", Cons("expr", Cons("increment",
            Cons("line", Cons("statements", Cons("end", Cons("line", r)))))))
  <2>. DEFINE s == <<"to", "expr", "increment">> \o Body
  <2>1. Owed("bound") = s
    BY DEF Owed
  <2>2. s \o r = Cons("to", Cons("expr",
          Cons("increment", Cons("line", Cons("statements", Cons("end", Cons("line", r)))))))
    BY OwedSymbols
  <2>. HIDE DEF s
  <2>. QED  BY <2>1, <2>2
<1>21. Owed("increment") \o r =
        Cons("increment", Cons("line", Cons("statements", Cons("end", Cons("line", r)))))
  <2>. DEFINE s == <<"increment">> \o Body
  <2>1. Owed("increment") = s
    BY DEF Owed
  <2>2. s \o r = Cons("increment", Cons("line", Cons("statements", Cons("end", Cons("line", r)))))
    BY OwedSymbols
  <2>. HIDE DEF s
  <2>. QED  BY <2>1, <2>2
<1>22. Owed("importPath") \o r = Cons("path", Cons("line", r))
  <2>. DEFINE s == <<"path", "line">>
  <2>1. Owed("importPath") = s
    BY DEF Owed
  <2>2. s \o r = Cons("path", Cons("line", r))
    BY OwedSymbols
  <2>. HIDE DEF s
  <2>. QED  BY <2>1, <2>2
<1>23. Owed("fromPath") \o r =
        Cons("path", Cons("import", Cons("ident", Cons("names", Cons("line", r)))))
  <2>. DEFINE a == "path"
              b == "import"
              c == "ident"
              d == "names"
              e == "line"
  <2>1. a \in Word /\ b \in Word /\ c \in Word /\ d \in Word /\ e \in Word
    BY Words
  <2>2. Owed("fromPath") = <<a>> \o <<b, c, d, e>>
    BY DEF Owed
  <2>. HIDE DEF a, b, c, d, e
  <2>. DEFINE s == <<a>>
              t == <<b, c, d, e>>
              z == t \o r
  <2>3. s \in Seq(Word) /\ t \in Seq(Word)
    BY <2>1, Tuples
  <2>4. z = Cons(b, Cons(c, Cons(d, Cons(e, r))))
    <3>1. \A i, j, k, l \in Word : <<i, j, k, l>> \o r = Cons(i, Cons(j, Cons(k, Cons(l, r))))
      BY Spread
    <3>. QED  BY <2>1, <3>1
  <2>5. s \o z = Cons(a, z)
    BY DEF Cons
  <2>. HIDE DEF s, t
  <2>6. (s \o t) \o r = s \o z
    BY <2>3, Associative
  <2>. HIDE DEF z
  <2>. QED  BY <2>2, <2>4, <2>5, <2>6 DEF a, b, c, d, e, s, t
<1>24. Owed("imports") \o r = Cons("import", Cons("ident", Cons("names", Cons("line", r))))
  <2>. DEFINE s == <<"import", "ident", "names", "line">>
  <2>1. Owed("imports") = s
    BY DEF Owed
  <2>2. s \o r = Cons("import", Cons("ident", Cons("names", Cons("line", r))))
    BY OwedSymbols
  <2>. HIDE DEF s
  <2>. QED  BY <2>1, <2>2
<1>25. Owed("firstName") \o r = Cons("ident", Cons("names", Cons("line", r)))
  <2>. DEFINE s == <<"ident", "names", "line">>
  <2>1. Owed("firstName") = s
    BY DEF Owed
  <2>2. s \o r = Cons("ident", Cons("names", Cons("line", r)))
    BY OwedSymbols
  <2>. HIDE DEF s
  <2>. QED  BY <2>1, <2>2
<1>. QED  BY <1>3, <1>5, <1>7, <1>9, <1>11, <1>13, <1>15, <1>16, <1>17, <1>18, <1>19, <1>20,
              <1>21, <1>22, <1>23, <1>24, <1>25

\* Parts c with y on top, which stays there whatever the token is.
Held(c, y, s, n, u) == u \in BOOLEAN /\ Owing(c, s, n, u) /\ Top(c, y) /\ y \notin Fleeting

LEMMA PushPlain ==
  ASSUME NEW x \in Word \ {"program", "skipNewlines"}, x \notin Closing \cup Branching,
         NEW y, NEW c, NEW s, NEW n, NEW u, Held(c, y, s, n, u), Follows(x, y), u \/ x \in Inside,
         NEW z, Owed(x) \o s = z
  PROVE  /\ Owing(Cons(x, c), z, n, u) /\ Top(Cons(x, c), x)
         /\ x \notin Fleeting => Held(Cons(x, c), x, z, n, u)
<1>1. u \in BOOLEAN /\ Owing(c, s, n, u) /\ Top(c, y)
  BY DEF Held
<1>2. n \in Nat
  BY <1>1, DepthFacts
<1>3. Owing(Cons(x, c), Owed(x) \o s, n + Weigh(x), u /\ x \notin Branching) /\ Top(Cons(x, c), x)
  BY <1>1, Push
<1>4. n + Weigh(x) = n /\ (u /\ x \notin Branching) = u
  BY <1>1, <1>2 DEF Weigh
<1>. QED  BY <1>1, <1>3, <1>4 DEF Held

LEMMA PushClosing ==
  ASSUME NEW x \in Word \ {"program", "skipNewlines"}, x \in Closing, x \notin Branching,
         NEW y, NEW c, NEW s, NEW n, NEW u, Held(c, y, s, n, u), Follows(x, y), u \/ x \in Inside,
         NEW z, Owed(x) \o s = z
  PROVE  /\ Owing(Cons(x, c), z, n + 1, u) /\ Top(Cons(x, c), x)
         /\ x \notin Fleeting => Held(Cons(x, c), x, z, n + 1, u)
<1>1. u \in BOOLEAN /\ Owing(c, s, n, u) /\ Top(c, y)
  BY DEF Held
<1>2. Owing(Cons(x, c), Owed(x) \o s, n + Weigh(x), u /\ x \notin Branching) /\ Top(Cons(x, c), x)
  BY <1>1, Push
<1>3. Weigh(x) = 1 /\ (u /\ x \notin Branching) = u
  BY <1>1 DEF Weigh
<1>. QED  BY <1>1, <1>2, <1>3 DEF Held

LEMMA PushBranching ==
  ASSUME NEW x \in Word \ {"program", "skipNewlines"}, x \in Branching, x \notin Fleeting,
         NEW y, NEW c, NEW s, NEW n, Held(c, y, s, n, TRUE), Follows(x, y), NEW z, Owed(x) \o s = z
  PROVE  Held(Cons(x, c), x, z, n + 1, FALSE)
<1>1. Owing(c, s, n, TRUE) /\ Top(c, y)
  BY DEF Held
<1>2. Owing(Cons(x, c), Owed(x) \o s, n + Weigh(x), TRUE /\ x \notin Branching)
        /\ Top(Cons(x, c), x)
  BY <1>1, Push
<1>3. Weigh(x) = 1 /\ (TRUE /\ x \notin Branching) = FALSE
  BY DEF Weigh
<1>. QED  BY <1>2, <1>3 DEF Held

LEMMA PushParseBlock ==
  ASSUME NEW y, NEW c, NEW s, NEW n, Held(c, y, s, n, TRUE),
         y \in {"elseBlock", "end"}
  PROVE  Held(Cons("parseBlock", c), "parseBlock", Cons("statements", s), n, TRUE)
<1>. DEFINE x == "parseBlock"
<1>1. x \in Word \ {"program", "skipNewlines"}
  BY Words
<1>2. x \notin Closing \cup Branching /\ x \notin Fleeting
  BY DEF Closing, Branching, Fleeting
<1>3. Follows(x, y)
  BY DEF Held, Follows
<1>4. Owed(x) \o s = Cons("statements", s)
  BY OwedForms DEF Held, Owing
<1>. HIDE DEF x
<1>. QED  BY <1>1, <1>2, <1>3, <1>4, PushPlain DEF x

LEMMA PushNextStmt ==
  ASSUME NEW y, NEW c, NEW s, NEW n, Held(c, y, s, n, TRUE),
         y \in {"program"}
  PROVE  Held(Cons("nextStmt", c), "nextStmt", s, n, TRUE)
<1>. DEFINE x == "nextStmt"
<1>1. x \in Word \ {"program", "skipNewlines"}
  BY Words
<1>2. x \notin Closing \cup Branching /\ x \notin Fleeting
  BY DEF Closing, Branching, Fleeting
<1>3. Follows(x, y)
  BY DEF Held, Follows
<1>4. Owed(x) \o s = s
  BY OwedForms DEF Held, Owing
<1>. HIDE DEF x
<1>. QED  BY <1>1, <1>2, <1>3, <1>4, PushPlain DEF x

LEMMA PushRecover ==
  ASSUME NEW y, NEW c, NEW s, NEW n, Held(c, y, s, n, TRUE)
  PROVE  /\ Owing(Cons("recover", c), s, n, TRUE)
         /\ Top(Cons("recover", c), "recover")
<1>. DEFINE x == "recover"
<1>1. x \in Word \ {"program", "skipNewlines"}
  BY Words
<1>2. x \notin Closing \cup Branching
  BY DEF Closing, Branching
<1>3. Follows(x, y)
  BY DEF Held, Follows
<1>4. Owed(x) \o s = s
  BY OwedForms DEF Held, Owing
<1>. HIDE DEF x
<1>. QED  BY <1>1, <1>2, <1>3, <1>4, PushPlain DEF x

LEMMA PushCalm ==
  ASSUME NEW y, NEW c, NEW s, NEW n, Held(c, y, s, n, TRUE)
  PROVE  /\ Owing(Cons("calm", c), s, n, TRUE)
         /\ Top(Cons("calm", c), "calm")
<1>. DEFINE x == "calm"
<1>1. x \in Word \ {"program", "skipNewlines"}
  BY Words
<1>2. x \notin Closing \cup Branching
  BY DEF Closing, Branching
<1>3. Follows(x, y)
  BY DEF Held, Follows
<1>4. Owed(x) \o s = s
  BY OwedForms DEF Held, Owing
<1>. HIDE DEF x
<1>. QED  BY <1>1, <1>2, <1>3, <1>4, PushPlain DEF x

LEMMA PushAliasName ==
  ASSUME NEW y, NEW c, NEW s, NEW n, Held(c, y, s, n, TRUE)
  PROVE  /\ Owing(Cons("aliasName", c), s, n, TRUE)
         /\ Top(Cons("aliasName", c), "aliasName")
<1>. DEFINE x == "aliasName"
<1>1. x \in Word \ {"program", "skipNewlines"}
  BY Words
<1>2. x \notin Closing \cup Branching
  BY DEF Closing, Branching
<1>3. Follows(x, y)
  BY DEF Held, Follows
<1>4. Owed(x) \o s = s
  BY OwedForms DEF Held, Owing
<1>. HIDE DEF x
<1>. QED  BY <1>1, <1>2, <1>3, <1>4, PushPlain DEF x

LEMMA PushParseStmt ==
  ASSUME NEW y, NEW c, NEW s, NEW n, Held(c, y, s, n, TRUE)
  PROVE  /\ Owing(Cons("parseStmt", c), Cons("one", s), n, TRUE)
         /\ Top(Cons("parseStmt", c), "parseStmt")
<1>. DEFINE x == "parseStmt"
<1>1. x \in Word \ {"program", "skipNewlines"}
  BY Words
<1>2. x \notin Closing \cup Branching
  BY DEF Closing, Branching
<1>3. Follows(x, y)
  BY DEF Held, Follows
<1>4. Owed(x) \o s = Cons("one", s)
  BY OwedForms DEF Held, Owing
<1>. HIDE DEF x
<1>. QED  BY <1>1, <1>2, <1>3, <1>4, PushPlain DEF x

LEMMA PushExpectNewline ==
  ASSUME NEW y, NEW c, NEW s, NEW n, Held(c, y, s, n, TRUE)
  PROVE  Held(Cons("expectNewline", c), "expectNewline", Cons("line", s), n, TRUE)
<1>. DEFINE x == "expectNewline"
<1>1. x \in Word \ {"program", "skipNewlines"}
  BY Words
<1>2. x \notin Closing \cup Branching /\ x \notin Fleeting
  BY DEF Closing, Branching, Fleeting
<1>3. Follows(x, y)
  BY DEF Held, Follows
<1>4. Owed(x) \o s = Cons("line", s)
  BY OwedForms DEF Held, Owing
<1>. HIDE DEF x
<1>. QED  BY <1>1, <1>2, <1>3, <1>4, PushPlain DEF x

LEMMA PushAlias ==
  ASSUME NEW y, NEW c, NEW s, NEW n, Held(c, y, s, n, TRUE)
  PROVE  Held(Cons("alias", c), "alias", Cons("line", s), n, TRUE)
<1>. DEFINE x == "alias"
<1>1. x \in Word \ {"program", "skipNewlines"}
  BY Words
<1>2. x \notin Closing \cup Branching /\ x \notin Fleeting
  BY DEF Closing, Branching, Fleeting
<1>3. Follows(x, y)
  BY DEF Held, Follows
<1>4. Owed(x) \o s = Cons("line", s)
  BY OwedForms DEF Held, Owing
<1>. HIDE DEF x
<1>. QED  BY <1>1, <1>2, <1>3, <1>4, PushPlain DEF x

LEMMA PushParseExpr ==
  ASSUME NEW y, NEW c, NEW s, NEW n, NEW u, Held(c, y, s, n, u)
  PROVE  Held(Cons("parseExpr", c), "parseExpr", Cons("expr", s), n, u)
<1>. DEFINE x == "parseExpr"
<1>1. x \in Word \ {"program", "skipNewlines"}
  BY Words
<1>2. x \notin Closing \cup Branching /\ x \in Inside /\ x \notin Fleeting
  BY DEF Closing, Branching, Inside, Fleeting
<1>3. Follows(x, y)
  BY DEF Held, Follows
<1>4. Owed(x) \o s = Cons("expr", s)
  BY OwedForms DEF Held, Owing
<1>. HIDE DEF x
<1>. QED  BY <1>1, <1>2, <1>3, <1>4, PushPlain DEF x

LEMMA PushMoreParams ==
  ASSUME NEW y, NEW c, NEW s, NEW n, Held(c, y, s, n, TRUE),
         y \in {")"}
  PROVE  /\ Owing(Cons("moreParams", c), Cons("default", s), n, TRUE)
         /\ Top(Cons("moreParams", c), "moreParams")
<1>. DEFINE x == "moreParams"
<1>1. x \in Word \ {"program", "skipNewlines"}
  BY Words
<1>2. x \notin Closing \cup Branching
  BY DEF Closing, Branching
<1>3. Follows(x, y)
  BY DEF Held, Follows
<1>4. Owed(x) \o s = Cons("default", s)
  BY OwedForms DEF Held, Owing
<1>. HIDE DEF x
<1>. QED  BY <1>1, <1>2, <1>3, <1>4, PushPlain DEF x

LEMMA PushDueDefault ==
  ASSUME NEW y, NEW c, NEW s, NEW n, Held(c, y, s, n, TRUE),
         y \in {")"}
  PROVE  Held(Cons("dueDefault", c), "dueDefault",
              Cons("=", Cons("expr", Cons("moreDefaults", s))), n, TRUE)
<1>. DEFINE x == "dueDefault"
<1>1. x \in Word \ {"program", "skipNewlines"}
  BY Words
<1>2. x \notin Closing \cup Branching /\ x \notin Fleeting
  BY DEF Closing, Branching, Fleeting
<1>3. Follows(x, y)
  BY DEF Held, Follows
<1>4. Owed(x) \o s = Cons("=", Cons("expr", Cons("moreDefaults", s)))
  BY OwedForms DEF Held, Owing
<1>. HIDE DEF x
<1>. QED  BY <1>1, <1>2, <1>3, <1>4, PushPlain DEF x

LEMMA PushNameStmt ==
  ASSUME NEW y, NEW c, NEW s, NEW n, Held(c, y, s, n, TRUE)
  PROVE  Held(Cons("nameStmt", c), "nameStmt", Cons("action", Cons("line", s)), n, TRUE)
<1>. DEFINE x == "nameStmt"
<1>1. x \in Word \ {"program", "skipNewlines"}
  BY Words
<1>2. x \notin Closing \cup Branching /\ x \notin Fleeting
  BY DEF Closing, Branching, Fleeting
<1>3. Follows(x, y)
  BY DEF Held, Follows
<1>4. Owed(x) \o s = Cons("action", Cons("line", s))
  BY OwedForms DEF Held, Owing
<1>. HIDE DEF x
<1>. QED  BY <1>1, <1>2, <1>3, <1>4, PushPlain DEF x

LEMMA PushElement ==
  ASSUME NEW y, NEW c, NEW s, NEW n, Held(c, y, s, n, TRUE)
  PROVE  Held(Cons("element", c), "element", Cons("element", Cons("line", s)), n, TRUE)
<1>. DEFINE x == "element"
<1>1. x \in Word \ {"program", "skipNewlines"}
  BY Words
<1>2. x \notin Closing \cup Branching /\ x \notin Fleeting
  BY DEF Closing, Branching, Fleeting
<1>3. Follows(x, y)
  BY DEF Held, Follows
<1>4. Owed(x) \o s = Cons("element", Cons("line", s))
  BY OwedForms DEF Held, Owing
<1>. HIDE DEF x
<1>. QED  BY <1>1, <1>2, <1>3, <1>4, PushPlain DEF x

LEMMA PushArguments ==
  ASSUME NEW y, NEW c, NEW s, NEW n, Held(c, y, s, n, TRUE)
  PROVE  Held(Cons("arguments", c), "arguments", Cons("calls", Cons("line", s)), n, TRUE)
<1>. DEFINE x == "arguments"
<1>1. x \in Word \ {"program", "skipNewlines"}
  BY Words
<1>2. x \notin Closing \cup Branching /\ x \notin Fleeting
  BY DEF Closing, Branching, Fleeting
<1>3. Follows(x, y)
  BY DEF Held, Follows
<1>4. Owed(x) \o s = Cons("calls", Cons("line", s))
  BY OwedForms DEF Held, Owing
<1>. HIDE DEF x
<1>. QED  BY <1>1, <1>2, <1>3, <1>4, PushPlain DEF x

LEMMA PushExprWithLeft ==
  ASSUME NEW y, NEW c, NEW s, NEW n, Held(c, y, s, n, TRUE)
  PROVE  Held(Cons("exprWithLeft", c), "exprWithLeft", Cons("indices", s), n, TRUE)
<1>. DEFINE x == "exprWithLeft"
<1>1. x \in Word \ {"program", "skipNewlines"}
  BY Words
<1>2. x \notin Closing \cup Branching /\ x \notin Fleeting
  BY DEF Closing, Branching, Fleeting
<1>3. Follows(x, y)
  BY DEF Held, Follows
<1>4. Owed(x) \o s = Cons("indices", s)
  BY OwedForms DEF Held, Owing
<1>. HIDE DEF x
<1>. QED  BY <1>1, <1>2, <1>3, <1>4, PushPlain DEF x

LEMMA PushElseStmt ==
  ASSUME NEW y, NEW c, NEW s, NEW n, Held(c, y, s, n, TRUE),
         y \in {"end"}
  PROVE  Held(Cons("elseStmt", c), "elseStmt", Cons("orOne", s), n, TRUE)
<1>. DEFINE x == "elseStmt"
<1>1. x \in Word \ {"program", "skipNewlines"}
  BY Words
<1>2. x \notin Closing \cup Branching /\ x \notin Fleeting
  BY DEF Closing, Branching, Fleeting
<1>3. Follows(x, y)
  BY DEF Held, Follows
<1>4. Owed(x) \o s = Cons("orOne", s)
  BY OwedForms DEF Held, Owing
<1>. HIDE DEF x
<1>. QED  BY <1>1, <1>2, <1>3, <1>4, PushPlain DEF x

LEMMA PushElseBlock ==
  ASSUME NEW y, NEW c, NEW s, NEW n, Held(c, y, s, n, TRUE),
         y \in {"end"}
  PROVE  Held(Cons("elseBlock", c), "elseBlock", Cons("otherwise", s), n, TRUE)
<1>. DEFINE x == "elseBlock"
<1>1. x \in Word \ {"program", "skipNewlines"}
  BY Words
<1>2. x \notin Closing \cup Branching /\ x \notin Fleeting
  BY DEF Closing, Branching, Fleeting
<1>3. Follows(x, y)
  BY DEF Held, Follows
<1>4. Owed(x) \o s = Cons("otherwise", s)
  BY OwedForms DEF Held, Owing
<1>. HIDE DEF x
<1>. QED  BY <1>1, <1>2, <1>3, <1>4, PushPlain DEF x

LEMMA PushBound ==
  ASSUME NEW y, NEW c, NEW s, NEW n, Held(c, y, s, n, TRUE)
  PROVE  Held(Cons("bound", c), "bound",
              Cons("to", Cons("expr", Cons("increment",
                  Cons("line", Cons("statements", Cons("end", Cons("line", s))))))), n + 1, FALSE)
<1>. DEFINE x == "bound"
<1>1. x \in Word \ {"program", "skipNewlines"}
  BY Words
<1>2. x \in Branching /\ x \notin Fleeting
  BY DEF Closing, Branching, Fleeting
<1>3. Follows(x, y)
  BY DEF Held, Follows
<1>4. Owed(x) \o s = Cons("to", Cons("expr",
        Cons("increment", Cons("line", Cons("statements", Cons("end", Cons("line", s)))))))
  BY OwedForms DEF Held, Owing
<1>. HIDE DEF x
<1>. QED  BY <1>1, <1>2, <1>3, <1>4, PushBranching DEF x

LEMMA PushIncrement ==
  ASSUME NEW y, NEW c, NEW s, NEW n, Held(c, y, s, n, TRUE)
  PROVE  Held(Cons("increment", c), "increment",
              Cons("increment", Cons("line", Cons("statements", Cons("end", Cons("line", s))))),
                  n + 1, FALSE)
<1>. DEFINE x == "increment"
<1>1. x \in Word \ {"program", "skipNewlines"}
  BY Words
<1>2. x \in Branching /\ x \notin Fleeting
  BY DEF Closing, Branching, Fleeting
<1>3. Follows(x, y)
  BY DEF Held, Follows
<1>4. Owed(x) \o s = Cons("increment", Cons("line",
        Cons("statements", Cons("end", Cons("line", s)))))
  BY OwedForms DEF Held, Owing
<1>. HIDE DEF x
<1>. QED  BY <1>1, <1>2, <1>3, <1>4, PushBranching DEF x

LEMMA PushImportPath ==
  ASSUME NEW y, NEW c, NEW s, NEW n, Held(c, y, s, n, TRUE)
  PROVE  Held(Cons("importPath", c), "importPath", Cons("path", Cons("line", s)), n, TRUE)
<1>. DEFINE x == "importPath"
<1>1. x \in Word \ {"program", "skipNewlines"}
  BY Words
<1>2. x \notin Closing \cup Branching /\ x \notin Fleeting
  BY DEF Closing, Branching, Fleeting
<1>3. Follows(x, y)
  BY DEF Held, Follows
<1>4. Owed(x) \o s = Cons("path", Cons("line", s))
  BY OwedForms DEF Held, Owing
<1>. HIDE DEF x
<1>. QED  BY <1>1, <1>2, <1>3, <1>4, PushPlain DEF x

LEMMA PushFromPath ==
  ASSUME NEW y, NEW c, NEW s, NEW n, Held(c, y, s, n, TRUE)
  PROVE  Held(Cons("fromPath", c), "fromPath",
              Cons("path", Cons("import", Cons("ident", Cons("names", Cons("line", s))))), n, TRUE)
<1>. DEFINE x == "fromPath"
<1>1. x \in Word \ {"program", "skipNewlines"}
  BY Words
<1>2. x \notin Closing \cup Branching /\ x \notin Fleeting
  BY DEF Closing, Branching, Fleeting
<1>3. Follows(x, y)
  BY DEF Held, Follows
<1>4. Owed(x) \o s = Cons("path", Cons("import", Cons("ident", Cons("names", Cons("line", s)))))
  BY OwedForms DEF Held, Owing
<1>. HIDE DEF x
<1>. QED  BY <1>1, <1>2, <1>3, <1>4, PushPlain DEF x

LEMMA PushImports ==
  ASSUME NEW y, NEW c, NEW s, NEW n, Held(c, y, s, n, TRUE)
  PROVE  Held(Cons("imports", c), "imports",
              Cons("import", Cons("ident", Cons("names", Cons("line", s)))), n, TRUE)
<1>. DEFINE x == "imports"
<1>1. x \in Word \ {"program", "skipNewlines"}
  BY Words
<1>2. x \notin Closing \cup Branching /\ x \notin Fleeting
  BY DEF Closing, Branching, Fleeting
<1>3. Follows(x, y)
  BY DEF Held, Follows
<1>4. Owed(x) \o s = Cons("import", Cons("ident", Cons("names", Cons("line", s))))
  BY OwedForms DEF Held, Owing
<1>. HIDE DEF x
<1>. QED  BY <1>1, <1>2, <1>3, <1>4, PushPlain DEF x

LEMMA PushFirstName ==
  ASSUME NEW y, NEW c, NEW s, NEW n, Held(c, y, s, n, TRUE)
  PROVE  Held(Cons("firstName", c), "firstName",
              Cons("ident", Cons("names", Cons("line", s))), n, TRUE)
<1>. DEFINE x == "firstName"
<1>1. x \in Word \ {"program", "skipNewlines"}
  BY Words
<1>2. x \notin Closing \cup Branching /\ x \notin Fleeting
  BY DEF Closing, Branching, Fleeting
<1>3. Follows(x, y)
  BY DEF Held, Follows
<1>4. Owed(x) \o s = Cons("ident", Cons("names", Cons("line", s)))
  BY OwedForms DEF Held, Owing
<1>. HIDE DEF x
<1>. QED  BY <1>1, <1>2, <1>3, <1>4, PushPlain DEF x

LEMMA PushMoreNames ==
  ASSUME NEW y, NEW c, NEW s, NEW n, Held(c, y, s, n, TRUE)
  PROVE  Held(Cons("moreNames", c), "moreNames", Cons("names", s), n, TRUE)
<1>. DEFINE x == "moreNames"
<1>1. x \in Word \ {"program", "skipNewlines"}
  BY Words
<1>2. x \notin Closing \cup Branching /\ x \notin Fleeting
  BY DEF Closing, Branching, Fleeting
<1>3. Follows(x, y)
  BY DEF Held, Follows
<1>4. Owed(x) \o s = Cons("names", s)
  BY OwedForms DEF Held, Owing
<1>. HIDE DEF x
<1>. QED  BY <1>1, <1>2, <1>3, <1>4, PushPlain DEF x

LEMMA PushSlash ==
  ASSUME NEW y, NEW c, NEW s, NEW n, Held(c, y, s, n, TRUE)
  PROVE  Held(Cons("slash", c), "slash", Cons("segments", s), n, TRUE)
<1>. DEFINE x == "slash"
<1>1. x \in Word \ {"program", "skipNewlines"}
  BY Words
<1>2. x \notin Closing \cup Branching /\ x \notin Fleeting
  BY DEF Closing, Branching, Fleeting
<1>3. Follows(x, y)
  BY DEF Held, Follows
<1>4. Owed(x) \o s = Cons("segments", s)
  BY OwedForms DEF Held, Owing
<1>. HIDE DEF x
<1>. QED  BY <1>1, <1>2, <1>3, <1>4, PushPlain DEF x

LEMMA PushTryBody ==
  ASSUME NEW y, NEW c, NEW s, NEW n, Held(c, y, s, n, TRUE),
         y \in {"catch"}
  PROVE  Held(Cons("tryBody", c), "tryBody", Cons("guarded", s), n, TRUE)
<1>. DEFINE x == "tryBody"
<1>1. x \in Word \ {"program", "skipNewlines"}
  BY Words
<1>2. x \notin Closing \cup Branching /\ x \notin Fleeting
  BY DEF Closing, Branching, Fleeting
<1>3. Follows(x, y)
  BY DEF Held, Follows
<1>4. Owed(x) \o s = Cons("guarded", s)
  BY OwedForms DEF Held, Owing
<1>. HIDE DEF x
<1>. QED  BY <1>1, <1>2, <1>3, <1>4, PushPlain DEF x

LEMMA PushHandlerBody ==
  ASSUME NEW y, NEW c, NEW s, NEW n, Held(c, y, s, n, TRUE),
         y \in {"end"}
  PROVE  Held(Cons("handlerBody", c), "handlerBody", Cons("guarded", s), n, TRUE)
<1>. DEFINE x == "handlerBody"
<1>1. x \in Word \ {"program", "skipNewlines"}
  BY Words
<1>2. x \notin Closing \cup Branching /\ x \notin Fleeting
  BY DEF Closing, Branching, Fleeting
<1>3. Follows(x, y)
  BY DEF Held, Follows
<1>4. Owed(x) \o s = Cons("guarded", s)
  BY OwedForms DEF Held, Owing
<1>. HIDE DEF x
<1>. QED  BY <1>1, <1>2, <1>3, <1>4, PushPlain DEF x

LEMMA PushCaseStart ==
  ASSUME NEW y, NEW c, NEW s, NEW n, Held(c, y, s, n, TRUE),
         y \in {"end"}
  PROVE  Held(Cons("caseStart", c), "caseStart", Cons("cases", s), n, TRUE)
<1>. DEFINE x == "caseStart"
<1>1. x \in Word \ {"program", "skipNewlines"}
  BY Words
<1>2. x \notin Closing \cup Branching /\ x \notin Fleeting
  BY DEF Closing, Branching, Fleeting
<1>3. Follows(x, y)
  BY DEF Held, Follows
<1>4. Owed(x) \o s = Cons("cases", s)
  BY OwedForms DEF Held, Owing
<1>. HIDE DEF x
<1>. QED  BY <1>1, <1>2, <1>3, <1>4, PushPlain DEF x

LEMMA PushCaseBody ==
  ASSUME NEW y, NEW c, NEW s, NEW n, Held(c, y, s, n, TRUE),
         y \in {"cases", "end"}
  PROVE  Held(Cons("caseBody", c), "caseBody", Cons("body", s), n, TRUE)
<1>. DEFINE x == "caseBody"
<1>1. x \in Word \ {"program", "skipNewlines"}
  BY Words
<1>2. x \notin Closing \cup Branching /\ x \notin Fleeting
  BY DEF Closing, Branching, Fleeting
<1>3. Follows(x, y)
  BY DEF Held, Follows
<1>4. Owed(x) \o s = Cons("body", s)
  BY OwedForms DEF Held, Owing
<1>. HIDE DEF x
<1>. QED  BY <1>1, <1>2, <1>3, <1>4, PushPlain DEF x

LEMMA PushOperators ==
  ASSUME NEW y, NEW c, NEW s, NEW n, NEW u, Held(c, y, s, n, u)
  PROVE  Held(Cons("operators", c), "operators", Cons("operators", s), n, u)
<1>. DEFINE x == "operators"
<1>1. x \in Word \ {"program", "skipNewlines"}
  BY Words
<1>2. x \notin Closing \cup Branching /\ x \in Inside /\ x \notin Fleeting
  BY DEF Closing, Branching, Inside, Fleeting
<1>3. Follows(x, y)
  BY DEF Held, Follows
<1>4. Owed(x) \o s = Cons("operators", s)
  BY OwedForms DEF Held, Owing
<1>. HIDE DEF x
<1>. QED  BY <1>1, <1>2, <1>3, <1>4, PushPlain DEF x

LEMMA PushItems ==
  ASSUME NEW y, NEW c, NEW s, NEW n, NEW u, Held(c, y, s, n, u),
         y \in {")", "]"}
  PROVE  Held(Cons("items", c), "items", Cons("items", s), n, u)
<1>. DEFINE x == "items"
<1>1. x \in Word \ {"program", "skipNewlines"}
  BY Words
<1>2. x \notin Closing \cup Branching /\ x \in Inside /\ x \notin Fleeting
  BY DEF Closing, Branching, Inside, Fleeting
<1>3. Follows(x, y)
  BY DEF Held, Follows
<1>4. Owed(x) \o s = Cons("items", s)
  BY OwedForms DEF Held, Owing
<1>. HIDE DEF x
<1>. QED  BY <1>1, <1>2, <1>3, <1>4, PushPlain DEF x

LEMMA PushMoreItems ==
  ASSUME NEW y, NEW c, NEW s, NEW n, NEW u, Held(c, y, s, n, u),
         y \in {")", "]"}
  PROVE  Held(Cons("moreItems", c), "moreItems", Cons("moreItems", s), n, u)
<1>. DEFINE x == "moreItems"
<1>1. x \in Word \ {"program", "skipNewlines"}
  BY Words
<1>2. x \notin Closing \cup Branching /\ x \in Inside /\ x \notin Fleeting
  BY DEF Closing, Branching, Inside, Fleeting
<1>3. Follows(x, y)
  BY DEF Held, Follows
<1>4. Owed(x) \o s = Cons("moreItems", s)
  BY OwedForms DEF Held, Owing
<1>. HIDE DEF x
<1>. QED  BY <1>1, <1>2, <1>3, <1>4, PushPlain DEF x

LEMMA PushBranches ==
  ASSUME NEW y, NEW c, NEW s, NEW n, Held(c, y, s, n, TRUE)
  PROVE  Held(Cons("branches", c), "branches", Cons("branches", s), n + 1, FALSE)
<1>. DEFINE x == "branches"
<1>1. x \in Word \ {"program", "skipNewlines"}
  BY Words
<1>2. x \in Branching /\ x \notin Fleeting
  BY DEF Closing, Branching, Fleeting
<1>3. Follows(x, y)
  BY DEF Held, Follows
<1>4. Owed(x) \o s = Cons("branches", s)
  BY OwedForms DEF Held, Owing
<1>. HIDE DEF x
<1>. QED  BY <1>1, <1>2, <1>3, <1>4, PushBranching DEF x

LEMMA PushRange ==
  ASSUME NEW y, NEW c, NEW s, NEW n, Held(c, y, s, n, TRUE)
  PROVE  Held(Cons("range", c), "range", Cons("range", s), n + 1, FALSE)
<1>. DEFINE x == "range"
<1>1. x \in Word \ {"program", "skipNewlines"}
  BY Words
<1>2. x \in Branching /\ x \notin Fleeting
  BY DEF Closing, Branching, Fleeting
<1>3. Follows(x, y)
  BY DEF Held, Follows
<1>4. Owed(x) \o s = Cons("range", s)
  BY OwedForms DEF Held, Owing
<1>. HIDE DEF x
<1>. QED  BY <1>1, <1>2, <1>3, <1>4, PushBranching DEF x

LEMMA PushParams ==
  ASSUME NEW y, NEW c, NEW s, NEW n, Held(c, y, s, n, TRUE),
         y \in {")"}
  PROVE  Held(Cons("params", c), "params", Cons("params", s), n, TRUE)
<1>. DEFINE x == "params"
<1>1. x \in Word \ {"program", "skipNewlines"}
  BY Words
<1>2. x \notin Closing \cup Branching /\ x \notin Fleeting
  BY DEF Closing, Branching, Fleeting
<1>3. Follows(x, y)
  BY DEF Held, Follows
<1>4. Owed(x) \o s = Cons("params", s)
  BY OwedForms DEF Held, Owing
<1>. HIDE DEF x
<1>. QED  BY <1>1, <1>2, <1>3, <1>4, PushPlain DEF x

LEMMA PushDefault ==
  ASSUME NEW y, NEW c, NEW s, NEW n, Held(c, y, s, n, TRUE),
         y \in {")"}
  PROVE  Held(Cons("default", c), "default", Cons("default", s), n, TRUE)
<1>. DEFINE x == "default"
<1>1. x \in Word \ {"program", "skipNewlines"}
  BY Words
<1>2. x \notin Closing \cup Branching /\ x \notin Fleeting
  BY DEF Closing, Branching, Fleeting
<1>3. Follows(x, y)
  BY DEF Held, Follows
<1>4. Owed(x) \o s = Cons("default", s)
  BY OwedForms DEF Held, Owing
<1>. HIDE DEF x
<1>. QED  BY <1>1, <1>2, <1>3, <1>4, PushPlain DEF x

LEMMA PushMoreDefaults ==
  ASSUME NEW y, NEW c, NEW s, NEW n, Held(c, y, s, n, TRUE),
         y \in {")"}
  PROVE  Held(Cons("moreDefaults", c), "moreDefaults", Cons("moreDefaults", s), n, TRUE)
<1>. DEFINE x == "moreDefaults"
<1>1. x \in Word \ {"program", "skipNewlines"}
  BY Words
<1>2. x \notin Closing \cup Branching /\ x \notin Fleeting
  BY DEF Closing, Branching, Fleeting
<1>3. Follows(x, y)
  BY DEF Held, Follows
<1>4. Owed(x) \o s = Cons("moreDefaults", s)
  BY OwedForms DEF Held, Owing
<1>. HIDE DEF x
<1>. QED  BY <1>1, <1>2, <1>3, <1>4, PushPlain DEF x

LEMMA PushDefaults ==
  ASSUME NEW y, NEW c, NEW s, NEW n, Held(c, y, s, n, TRUE),
         y \in {")"}
  PROVE  Held(Cons("defaults", c), "defaults", Cons("defaults", s), n, TRUE)
<1>. DEFINE x == "defaults"
<1>1. x \in Word \ {"program", "skipNewlines"}
  BY Words
<1>2. x \notin Closing \cup Branching /\ x \notin Fleeting
  BY DEF Closing, Branching, Fleeting
<1>3. Follows(x, y)
  BY DEF Held, Follows
<1>4. Owed(x) \o s = Cons("defaults", s)
  BY OwedForms DEF Held, Owing
<1>. HIDE DEF x
<1>. QED  BY <1>1, <1>2, <1>3, <1>4, PushPlain DEF x

LEMMA PushCases ==
  ASSUME NEW y, NEW c, NEW s, NEW n, Held(c, y, s, n, TRUE),
         y \in {"end"}
  PROVE  Held(Cons("cases", c), "cases", Cons("cases", s), n, TRUE)
<1>. DEFINE x == "cases"
<1>1. x \in Word \ {"program", "skipNewlines"}
  BY Words
<1>2. x \notin Closing \cup Branching /\ x \notin Fleeting
  BY DEF Closing, Branching, Fleeting
<1>3. Follows(x, y)
  BY DEF Held, Follows
<1>4. Owed(x) \o s = Cons("cases", s)
  BY OwedForms DEF Held, Owing
<1>. HIDE DEF x
<1>. QED  BY <1>1, <1>2, <1>3, <1>4, PushPlain DEF x

LEMMA PushMoreValues ==
  ASSUME NEW y, NEW c, NEW s, NEW n, Held(c, y, s, n, TRUE)
  PROVE  Held(Cons("moreValues", c), "moreValues", Cons("moreValues", s), n, TRUE)
<1>. DEFINE x == "moreValues"
<1>1. x \in Word \ {"program", "skipNewlines"}
  BY Words
<1>2. x \notin Closing \cup Branching /\ x \notin Fleeting
  BY DEF Closing, Branching, Fleeting
<1>3. Follows(x, y)
  BY DEF Held, Follows
<1>4. Owed(x) \o s = Cons("moreValues", s)
  BY OwedForms DEF Held, Owing
<1>. HIDE DEF x
<1>. QED  BY <1>1, <1>2, <1>3, <1>4, PushPlain DEF x

LEMMA PushExtra ==
  ASSUME NEW y, NEW c, NEW s, NEW n, Held(c, y, s, n, TRUE)
  PROVE  Held(Cons("extra", c), "extra", Cons("extra", s), n, TRUE)
<1>. DEFINE x == "extra"
<1>1. x \in Word \ {"program", "skipNewlines"}
  BY Words
<1>2. x \notin Closing \cup Branching /\ x \notin Fleeting
  BY DEF Closing, Branching, Fleeting
<1>3. Follows(x, y)
  BY DEF Held, Follows
<1>4. Owed(x) \o s = Cons("extra", s)
  BY OwedForms DEF Held, Owing
<1>. HIDE DEF x
<1>. QED  BY <1>1, <1>2, <1>3, <1>4, PushPlain DEF x

LEMMA PushValue ==
  ASSUME NEW y, NEW c, NEW s, NEW n, Held(c, y, s, n, TRUE)
  PROVE  Held(Cons("value", c), "value", Cons("value", s), n, TRUE)
<1>. DEFINE x == "value"
<1>1. x \in Word \ {"program", "skipNewlines"}
  BY Words
<1>2. x \notin Closing \cup Branching /\ x \notin Fleeting
  BY DEF Closing, Branching, Fleeting
<1>3. Follows(x, y)
  BY DEF Held, Follows
<1>4. Owed(x) \o s = Cons("value", s)
  BY OwedForms DEF Held, Owing
<1>. HIDE DEF x
<1>. QED  BY <1>1, <1>2, <1>3, <1>4, PushPlain DEF x

LEMMA PushName ==
  ASSUME NEW y, NEW c, NEW s, NEW n, Held(c, y, s, n, TRUE)
  PROVE  Held(Cons("name", c), "name", Cons("name", s), n, TRUE)
<1>. DEFINE x == "name"
<1>1. x \in Word \ {"program", "skipNewlines"}
  BY Words
<1>2. x \notin Closing \cup Branching /\ x \notin Fleeting
  BY DEF Closing, Branching, Fleeting
<1>3. Follows(x, y)
  BY DEF Held, Follows
<1>4. Owed(x) \o s = Cons("name", s)
  BY OwedForms DEF Held, Owing
<1>. HIDE DEF x
<1>. QED  BY <1>1, <1>2, <1>3, <1>4, PushPlain DEF x

LEMMA PushSegment ==
  ASSUME NEW y, NEW c, NEW s, NEW n, Held(c, y, s, n, TRUE)
  PROVE  Held(Cons("segment", c), "segment", Cons("segment", s), n, TRUE)
<1>. DEFINE x == "segment"
<1>1. x \in Word \ {"program", "skipNewlines"}
  BY Words
<1>2. x \notin Closing \cup Branching /\ x \notin Fleeting
  BY DEF Closing, Branching, Fleeting
<1>3. Follows(x, y)
  BY DEF Held, Follows
<1>4. Owed(x) \o s = Cons("segment", s)
  BY OwedForms DEF Held, Owing
<1>. HIDE DEF x
<1>. QED  BY <1>1, <1>2, <1>3, <1>4, PushPlain DEF x

LEMMA PushIdent ==
  ASSUME NEW y, NEW c, NEW s, NEW n, NEW u, Held(c, y, s, n, u)
  PROVE  Held(Cons("ident", c), "ident", Cons("ident", s), n, u)
<1>. DEFINE x == "ident"
<1>1. x \in Word \ {"program", "skipNewlines"}
  BY Words
<1>2. x \notin Closing \cup Branching /\ x \in Inside /\ x \notin Fleeting
  BY DEF Closing, Branching, Inside, Fleeting
<1>3. Follows(x, y)
  BY DEF Held, Follows
<1>4. Owed(x) \o s = Cons("ident", s)
  BY OwedForms DEF Held, Owing
<1>. HIDE DEF x
<1>. QED  BY <1>1, <1>2, <1>3, <1>4, PushPlain DEF x

LEMMA PushEquals ==
  ASSUME NEW y, NEW c, NEW s, NEW n, Held(c, y, s, n, TRUE)
  PROVE  Held(Cons("=", c), "=", Cons("=", s), n, TRUE)
<1>. DEFINE x == "="
<1>1. x \in Word \ {"program", "skipNewlines"}
  BY Words
<1>2. x \notin Closing \cup Branching /\ x \notin Fleeting
  BY DEF Closing, Branching, Fleeting
<1>3. Follows(x, y)
  BY DEF Held, Follows
<1>4. Owed(x) \o s = Cons("=", s)
  BY OwedForms DEF Held, Owing
<1>. HIDE DEF x
<1>. QED  BY <1>1, <1>2, <1>3, <1>4, PushPlain DEF x

LEMMA PushOpen ==
  ASSUME NEW y, NEW c, NEW s, NEW n, Held(c, y, s, n, TRUE)
  PROVE  Held(Cons("(", c), "(", Cons("(", s), n, TRUE)
<1>. DEFINE x == "("
<1>1. x \in Word \ {"program", "skipNewlines"}
  BY Words
<1>2. x \notin Closing \cup Branching /\ x \notin Fleeting
  BY DEF Closing, Branching, Fleeting
<1>3. Follows(x, y)
  BY DEF Held, Follows
<1>4. Owed(x) \o s = Cons("(", s)
  BY OwedForms DEF Held, Owing
<1>. HIDE DEF x
<1>. QED  BY <1>1, <1>2, <1>3, <1>4, PushPlain DEF x

LEMMA PushClose ==
  ASSUME NEW y, NEW c, NEW s, NEW n, NEW u, Held(c, y, s, n, u)
  PROVE  Held(Cons(")", c), ")", Cons(")", s), n + 1, u)
<1>. DEFINE x == ")"
<1>1. x \in Word \ {"program", "skipNewlines"}
  BY Words
<1>2. x \in Closing /\ x \notin Branching /\ x \in Inside /\ x \notin Fleeting
  BY DEF Closing, Branching, Inside, Fleeting
<1>3. Follows(x, y)
  BY DEF Held, Follows
<1>4. Owed(x) \o s = Cons(")", s)
  BY OwedForms DEF Held, Owing
<1>. HIDE DEF x
<1>. QED  BY <1>1, <1>2, <1>3, <1>4, PushClosing DEF x

LEMMA PushIndex ==
  ASSUME NEW y, NEW c, NEW s, NEW n, NEW u, Held(c, y, s, n, u)
  PROVE  Held(Cons("]", c), "]", Cons("]", s), n + 1, u)
<1>. DEFINE x == "]"
<1>1. x \in Word \ {"program", "skipNewlines"}
  BY Words
<1>2. x \in Closing /\ x \notin Branching /\ x \in Inside /\ x \notin Fleeting
  BY DEF Closing, Branching, Inside, Fleeting
<1>3. Follows(x, y)
  BY DEF Held, Follows
<1>4. Owed(x) \o s = Cons("]", s)
  BY OwedForms DEF Held, Owing
<1>. HIDE DEF x
<1>. QED  BY <1>1, <1>2, <1>3, <1>4, PushClosing DEF x

LEMMA PushEnd ==
  ASSUME NEW y, NEW c, NEW s, NEW n, Held(c, y, s, n, TRUE)
  PROVE  Held(Cons("end", c), "end", Cons("end", s), n + 1, TRUE)
<1>. DEFINE x == "end"
<1>1. x \in Word \ {"program", "skipNewlines"}
  BY Words
<1>2. x \in Closing /\ x \notin Branching /\ x \notin Fleeting
  BY DEF Closing, Branching, Fleeting
<1>3. Follows(x, y)
  BY DEF Held, Follows
<1>4. Owed(x) \o s = Cons("end", s)
  BY OwedForms DEF Held, Owing
<1>. HIDE DEF x
<1>. QED  BY <1>1, <1>2, <1>3, <1>4, PushClosing DEF x

LEMMA PushCatch ==
  ASSUME NEW y, NEW c, NEW s, NEW n, Held(c, y, s, n, TRUE)
  PROVE  Held(Cons("catch", c), "catch", Cons("catch", s), n, TRUE)
<1>. DEFINE x == "catch"
<1>1. x \in Word \ {"program", "skipNewlines"}
  BY Words
<1>2. x \notin Closing \cup Branching /\ x \notin Fleeting
  BY DEF Closing, Branching, Fleeting
<1>3. Follows(x, y)
  BY DEF Held, Follows
<1>4. Owed(x) \o s = Cons("catch", s)
  BY OwedForms DEF Held, Owing
<1>. HIDE DEF x
<1>. QED  BY <1>1, <1>2, <1>3, <1>4, PushPlain DEF x

\* What is below part h, and what the grammar has for it.
LEMMA Beneath ==
  ASSUME NEW h, NEW c, NEW s, NEW n, NEW w \in BOOLEAN, Owing(c, s, n, w), Top(c, h),
         h \notin {"program", "skipNewlines"}
  PROVE  /\ h \in Word /\ c = Cons(h, Tail(c))
         /\ \E y, r, m, u :
              /\ Held(Tail(c), y, r, m, u)
              /\ s = Owed(h) \o r /\ n = m + Weigh(h)
              /\ Follows(h, y)
              /\ u = (w \/ h \notin Inside)
<1>1. /\ h \in Word /\ c = Cons(h, Tail(c))
      /\ \E y \in Word : Top(Tail(c), y) /\ Follows(h, y)
      /\ \E r \in Seq(Word), m \in Nat :
           /\ s = Owed(h) \o r
           /\ n = m + Weigh(h)
           /\ Owing(Tail(c), r, m, w \/ h \notin Inside)
  BY Pop
<1>2. PICK y \in Word : Top(Tail(c), y) /\ Follows(h, y)
  BY <1>1
<1>3. PICK r \in Seq(Word), m \in Nat :
         /\ s = Owed(h) \o r
         /\ n = m + Weigh(h)
         /\ Owing(Tail(c), r, m, w \/ h \notin Inside)
  BY <1>1
<1>4. Held(Tail(c), y, r, m, w \/ h \notin Inside)
  BY <1>2, <1>3 DEF Held, Follows
<1>. QED  BY <1>1, <1>2, <1>3, <1>4

\* The part h of calls that is on top, with c below it and y the next.
Facing(h, c, y, s, r, n, m, u) ==
  /\ calls = Cons(h, c) /\ c = Rest
  /\ \E w : Tracks(p, calls, expected, strays, s, n, w)
  /\ Held(c, y, r, m, u)
  /\ s = Owed(h) \o r
  /\ n = m + Weigh(h)
  /\ Follows(h, y)
  /\ h \notin Inside => u = TRUE
  /\ c \in Seq(Word) /\ r \in Seq(Word) /\ n \in Nat /\ m \in Nat

LEMMA Faced ==
  ASSUME Inv, NEW h, Doing(h), h \notin {"program", "skipNewlines"}
  PROVE  \E c, y, s, r, n, m, u : Facing(h, c, y, s, r, n, m, u)
<1>1. PICK s, n, w : Tracks(p, calls, expected, strays, s, n, w)
  BY DEF Inv, Sound
<1>2. w \in BOOLEAN /\ Owing(calls, s, n, w) /\ Top(calls, h)
  BY <1>1 DEF Tracks, Doing, Top
<1>3. /\ calls = Cons(h, Rest)
      /\ \E y, r, m, u :
           /\ Held(Rest, y, r, m, u)
           /\ s = Owed(h) \o r /\ n = m + Weigh(h)
           /\ Follows(h, y)
           /\ u = (w \/ h \notin Inside)
  BY <1>2, Beneath DEF Rest
<1>4. PICK y, r, m, u :
           /\ Held(Rest, y, r, m, u)
           /\ s = Owed(h) \o r /\ n = m + Weigh(h)
           /\ Follows(h, y)
           /\ u = (w \/ h \notin Inside)
  BY <1>3
<1>5. Rest \in Seq(Word) /\ r \in Seq(Word) /\ n \in Nat /\ m \in Nat
  BY <1>2, <1>4, DepthFacts DEF Held, Owing
<1>6. Facing(h, Rest, y, s, r, n, m, u)
  BY <1>1, <1>3, <1>4, <1>5 DEF Facing
<1>. QED  BY <1>6

LEMMA HeldReady ==
  ASSUME NEW c, NEW y, NEW s, NEW n, NEW u, Held(c, y, s, n, u)
  PROVE  u \in BOOLEAN /\ Owing(c, s, n, u) /\ Ready(c) /\ n \in Nat
<1>1. u \in BOOLEAN /\ Owing(c, s, n, u) /\ Ready(c)
  BY DEF Held, Ready, Top
<1>. QED  BY <1>1, DepthFacts

LEMMA TurnedTo ==
  ASSUME Inv, NEW h, NEW c, NEW y, NEW s, NEW r, NEW n, NEW m, NEW u,
         Facing(h, c, y, s, r, n, m, u),
         NEW d, NEW z, NEW a, NEW k, NEW v, Held(d, z, a, k, v), k <= n,
         Clean => Outcome(s, p.current, p.repl_mode) = Outcome(a, p.current, p.repl_mode),
         Turn(d)
  PROVE  Inv'
<1>1. PICK w : Tracks(p, calls, expected, strays, s, n, w)
  BY DEF Facing
<1>2. v \in BOOLEAN /\ Owing(d, a, k, v) /\ Settled(p, d)
  BY HeldReady DEF Settled
<1>. QED  BY <1>1, <1>2, Turned

LEMMA ComplainedTo ==
  ASSUME Inv, NEW h, NEW c, NEW y, NEW s, NEW r, NEW n, NEW m, NEW u,
         Facing(h, c, y, s, r, n, m, u),
         NEW d, NEW z, NEW a, NEW k, NEW v, Held(d, z, a, k, v), k <= n,
         Clean => Outcome(s, p.current, p.repl_mode) = Astray,
         Complain(d)
  PROVE  Inv'
<1>1. PICK w : Tracks(p, calls, expected, strays, s, n, w)
  BY DEF Facing
<1>2. v \in BOOLEAN /\ Owing(d, a, k, v) /\ Ready(d)
  BY HeldReady
<1>. QED  BY <1>1, <1>2, Complained

\* A token may be taken, and parts that weigh k are to follow it.
Room(k, n) == p.current # "eof" /\ (k <= n \/ (p.current \in Openers /\ k <= n + 2))

LEMMA TakenTo ==
  ASSUME Inv, NEW h, NEW c, NEW y, NEW s, NEW r, NEW n, NEW m, NEW u,
         Facing(h, c, y, s, r, n, m, u),
         NEW d, NEW z, NEW a, NEW k, NEW v, Held(d, z, a, k, v),
         Room(k, n),
         Clean => Outcome(s, p.current, p.repl_mode) = a,
         Take(d)
  PROVE  Inv'
<1>1. PICK w : Tracks(p, calls, expected, strays, s, n, w)
  BY DEF Facing
<1>2. v \in BOOLEAN /\ Owing(d, a, k, v) /\ Ready(d)
  BY HeldReady
<1>. QED  BY <1>1, <1>2, Taken DEF Room

LEMMA OpenerFacts ==
  Openers = {"if", "loop", "for", "function", "try", "when", "(", "[", "then"}
  BY TokenFacts DEF Openers

\* A token that closes is due.
LEMMA ClosingDue ==
  ASSUME NEW c, NEW y \in {")", "]", "end", "catch"}, NEW r, NEW m, NEW u, Held(c, y, r, m, u),
         NEW t, NEW repl, t # y
  PROVE  Outcome(r, t, repl) = Astray
<1>1. y \notin {"program", "skipNewlines"} /\ y \in Tokens \ {"ident"}
  BY DEF Tokens
<1>2. PICK q \in Seq(Word) : r = Owed(y) \o q
  BY <1>1, Beneath DEF Held, Owing
<1>3. r = Cons(y, q)
  <2>1. /\ Owed(")") \o q = Cons(")", q) /\ Owed("]") \o q = Cons("]", q)
        /\ Owed("end") \o q = Cons("end", q) /\ Owed("catch") \o q = Cons("catch", q)
    BY OwedForms
  <2>. QED  BY <1>2, <2>1
<1>. QED  BY <1>1, <1>3, OutcomeToken


LEMMA TurnedOn ==
  ASSUME Inv, NEW h, NEW c, NEW y, NEW s, NEW r, NEW n, NEW m, NEW u,
         Facing(h, c, y, s, r, n, m, u),
         NEW d, NEW x, NEW a, NEW k, NEW v \in BOOLEAN, Owing(d, a, k, v) /\ Top(d, x), k <= n,
         Settled(p, d),
         Clean => Outcome(s, p.current, p.repl_mode) = Outcome(a, p.current, p.repl_mode),
         Turn(d)
  PROVE  Inv'
<1>1. PICK w : Tracks(p, calls, expected, strays, s, n, w)
  BY DEF Facing
<1>. QED  BY <1>1, Turned

LEMMA TakenOn ==
  ASSUME Inv, NEW h, NEW c, NEW y, NEW s, NEW r, NEW n, NEW m, NEW u,
         Facing(h, c, y, s, r, n, m, u),
         NEW d, NEW x, NEW a, NEW k, NEW v \in BOOLEAN, Owing(d, a, k, v) /\ Top(d, x),
         Room(k, n),
         Ready(d) \/ (p.had_error /\ d # <<>> /\ Head(d) \in {"recover", "calm", "aliasName"}),
         Clean => Outcome(s, p.current, p.repl_mode) = a,
         Take(d)
  PROVE  Inv'
<1>1. PICK w : Tracks(p, calls, expected, strays, s, n, w)
  BY DEF Facing
<1>. QED  BY <1>1, Taken DEF Room

\* A statement may be due at a blank line or the end of the file if it is
\* not one of a list.
LEMMA StmtReady ==
  ASSUME NEW c, NEW y \in {"end", "elseStmt", "skipNewlines"}, NEW s, NEW n, NEW u,
         Held(c, y, s, n, u)
  PROVE  Ready(Cons("parseStmt", c))
<1>. DEFINE x == "parseStmt"
<1>1. x \in Word /\ c \in Seq(Word) /\ Top(c, y)
  BY Words DEF Held, Owing
<1>. HIDE DEF x
<1>2. Cons(x, c) # <<>> /\ Head(Cons(x, c)) = x /\ Tail(Cons(x, c)) = c
  BY ONLY <1>1, ConsFacts
<1>. QED  BY <1>1, <1>2 DEF x, Ready, Top

LEMMA Conses ==
  \A x \in Word : \A r \in Seq(Word) : Cons(x, r) \in Seq(Word)
<1>. SUFFICES ASSUME NEW x \in Word, NEW r \in Seq(Word) PROVE Cons(x, r) \in Seq(Word)
  OBVIOUS
<1>. QED  BY ConsFacts

LEMMA Modes ==
  ASSUME Inv
  PROVE  p.repl_mode \in BOOLEAN /\ p.had_error \in BOOLEAN /\ strays \in BOOLEAN
         /\ p.current \in Tokens \cup {"eof"}
BY DEF Inv, Sound, Typed

LEMMA PathParts ==
  ASSUME NEW r \in Seq(Word)
  PROVE  /\ (<<"slash">> \o <<"alias">>) \o r = Cons("slash", Cons("alias", r))
         /\ (<<"slash">> \o <<"imports">>) \o r = Cons("slash", Cons("imports", r))
<1>1. \A a, b \in Word : (<<a>> \o <<b>>) \o r = Cons(a, Cons(b, r))
  <2>. SUFFICES ASSUME NEW a \in Word, NEW b \in Word
                PROVE  (<<a>> \o <<b>>) \o r = Cons(a, Cons(b, r))
    BY Zenon
  <2>1. <<a>> \in Seq(Word) /\ <<b>> \in Seq(Word)
    OBVIOUS
  <2>2. (<<a>> \o <<b>>) \o r = <<a>> \o (<<b>> \o r)
    BY <2>1, Associative
  <2>. QED  BY <2>2 DEF Cons
<1>. QED  BY <1>1, Words

LEMMA Second ==
  ASSUME NEW x \in Word, NEW c \in Seq(Word), c # <<>>
  PROVE  Cons(x, c)[2] = Head(c)
<1>1. Len(c) \in Nat /\ Len(c) # 0 /\ c[1] = Head(c)
  OBVIOUS
<1>2. <<x>> \in Seq(Word) /\ Len(<<x>>) = 1
  OBVIOUS
<1>3. (<<x>> \o c)[2] = c[1]
  BY <1>1, <1>2
<1>. QED  BY <1>1, <1>3 DEF Cons

LEMMA StepPrimary ==
  ASSUME Inv, parsePrimary
  PROVE  Inv'
<1>1. PICK c, y, s, r, n, m, u : Facing("parseExpr", c, y, s, r, n, m, u)
  BY Faced DEF parsePrimary
<1>2. /\ s = Cons("expr", r)
      /\ c = Rest /\ c \in Seq(Word) /\ r \in Seq(Word) /\ n = m /\ m \in Nat /\ n \in Nat
  <2>1. Weigh("parseExpr") = 0
    BY DEF Weigh, Closing, Branching
  <2>2. Owed("parseExpr") \o r = Cons("expr", r)
    BY <1>1, OwedForms DEF Facing
  <2>. QED  BY <1>1, <2>1, <2>2 DEF Facing
<1>3. Held(c, y, r, m, u)
  BY <1>1 DEF Facing
<1>4. CASE On(Names \cup {"number", "string"}, <<"operators">>)
  <2>. DEFINE d == Cons("operators", c)
              a == Cons("operators", r)
  <2>1. <<"operators">> \o c = d
    BY <1>2, SinglePart
  <2>2. p.current \in Names \cup {"number", "string"} /\ Take(d)
    BY <1>2, <1>4, <2>1 DEF On, Otherwise
  <2>3. Held(d, "operators", a, m, u)
    BY <1>3, PushOperators
  <2>4. Outcome(s, p.current, p.repl_mode) = a
    BY <1>2, <2>2, OutcomeExpr
  <2>5. Room(m, n)
    BY <1>2, <2>2, OpenerFacts, TokenFacts DEF Room
  <2>. HIDE DEF d, a
  <2>. QED  BY <1>1, <2>2, <2>3, <2>4, <2>5, TakenTo
<1>5. CASE On({"["}, <<"items", "]", "operators">>)
  <2>. DEFINE d == Cons("items", Cons("]", Cons("operators", c)))
              a == Cons("items", Cons("]", Cons("operators", r)))
  <2>1. <<"items", "]", "operators">> \o c = d
    BY <1>2, ThreeParts
  <2>2. p.current = "[" /\ Take(d)
    BY <1>2, <1>5, <2>1 DEF On, Otherwise
  <2>3. Held(Cons("operators", c), "operators", Cons("operators", r), m, u)
    BY <1>3, PushOperators
  <2>4. Held(Cons("]", Cons("operators", c)), "]", Cons("]", Cons("operators", r)), m + 1, u)
    BY <2>3, PushIndex
  <2>5. Held(d, "items", a, m + 1, u)
    BY <2>4, PushItems
  <2>6. Outcome(s, p.current, p.repl_mode) = a
    BY <1>2, <2>2, OutcomeExpr
  <2>7. Room(m + 1, n)
    BY <1>2, <2>2, OpenerFacts DEF Room
  <2>. HIDE DEF d, a
  <2>. QED  BY <1>1, <2>2, <2>5, <2>6, <2>7, TakenTo
<1>6. CASE On({"("}, <<"parseExpr", ")", "operators">>)
  <2>. DEFINE d == Cons("parseExpr", Cons(")", Cons("operators", c)))
              a == Cons("expr", Cons(")", Cons("operators", r)))
  <2>1. <<"parseExpr", ")", "operators">> \o c = d
    BY <1>2, ThreeParts
  <2>2. p.current = "(" /\ Take(d)
    BY <1>2, <1>6, <2>1 DEF On, Otherwise
  <2>3. Held(Cons("operators", c), "operators", Cons("operators", r), m, u)
    BY <1>3, PushOperators
  <2>4. Held(Cons(")", Cons("operators", c)), ")", Cons(")", Cons("operators", r)), m + 1, u)
    BY <2>3, PushClose
  <2>5. Held(d, "parseExpr", a, m + 1, u)
    BY <2>4, PushParseExpr
  <2>6. Outcome(s, p.current, p.repl_mode) = a
    BY <1>2, <2>2, OutcomeExpr
  <2>7. Room(m + 1, n)
    BY <1>2, <2>2, OpenerFacts DEF Room
  <2>. HIDE DEF d, a
  <2>. QED  BY <1>1, <2>2, <2>5, <2>6, <2>7, TakenTo
<1>7. CASE p.current \notin Primaries /\ Complain(<<"operators">> \o Rest)
  <2>. DEFINE d == Cons("operators", c)
              a == Cons("operators", r)
  <2>1. <<"operators">> \o c = d
    BY <1>2, SinglePart
  <2>2. p.current \notin Primaries /\ Complain(d)
    BY <1>2, <1>7, <2>1
  <2>3. Held(d, "operators", a, m, u)
    BY <1>3, PushOperators
  <2>4. Outcome(s, p.current, p.repl_mode) = Astray
    BY <1>2, <2>2, OutcomeExpr
  <2>5. m <= n
    BY <1>2
  <2>. HIDE DEF d, a
  <2>. QED  BY <1>1, <2>2, <2>3, <2>4, <2>5, ComplainedTo
<1>. QED  BY <1>4, <1>5, <1>6, <1>7 DEF parsePrimary, Doing

LEMMA StepCall ==
  ASSUME Inv, parseCall
  PROVE  Inv'
<1>1. PICK c, y, s, r, n, m, u : Facing("operators", c, y, s, r, n, m, u)
  BY Faced DEF parseCall
<1>2. /\ s = Cons("operators", r)
      /\ c = Rest /\ c \in Seq(Word) /\ r \in Seq(Word) /\ n = m /\ m \in Nat /\ n \in Nat
  <2>1. Weigh("operators") = 0
    BY DEF Weigh, Closing, Branching
  <2>2. Owed("operators") \o r = Cons("operators", r)
    BY <1>1, OwedForms DEF Facing
  <2>. QED  BY <1>1, <2>1, <2>2 DEF Facing
<1>3. Held(c, y, r, m, u)
  BY <1>1 DEF Facing
<1>4. CASE On({"("}, <<"items", ")", "operators">>)
  <2>. DEFINE d == Cons("items", Cons(")", Cons("operators", c)))
              a == Cons("items", Cons(")", Cons("operators", r)))
  <2>1. <<"items", ")", "operators">> \o c = d
    BY <1>2, ThreeParts
  <2>2. p.current = "(" /\ Take(d)
    BY <1>2, <1>4, <2>1 DEF On, Otherwise
  <2>3. Held(Cons("operators", c), "operators", Cons("operators", r), m, u)
    BY <1>3, PushOperators
  <2>4. Held(Cons(")", Cons("operators", c)), ")", Cons(")", Cons("operators", r)), m + 1, u)
    BY <2>3, PushClose
  <2>5. Held(d, "items", a, m + 1, u)
    BY <2>4, PushItems
  <2>6. Outcome(s, p.current, p.repl_mode) = a
    BY <1>2, <2>2, OutcomeOperators
  <2>7. Room(m + 1, n)
    BY <1>2, <2>2, OpenerFacts DEF Room
  <2>. HIDE DEF d, a
  <2>. QED  BY <1>1, <2>2, <2>5, <2>6, <2>7, TakenTo
<1>5. CASE On({"["}, <<"parseExpr", "]", "operators">>)
  <2>. DEFINE d == Cons("parseExpr", Cons("]", Cons("operators", c)))
              a == Cons("expr", Cons("]", Cons("operators", r)))
  <2>1. <<"parseExpr", "]", "operators">> \o c = d
    BY <1>2, ThreeParts
  <2>2. p.current = "[" /\ Take(d)
    BY <1>2, <1>5, <2>1 DEF On, Otherwise
  <2>3. Held(Cons("operators", c), "operators", Cons("operators", r), m, u)
    BY <1>3, PushOperators
  <2>4. Held(Cons("]", Cons("operators", c)), "]", Cons("]", Cons("operators", r)), m + 1, u)
    BY <2>3, PushIndex
  <2>5. Held(d, "parseExpr", a, m + 1, u)
    BY <2>4, PushParseExpr
  <2>6. Outcome(s, p.current, p.repl_mode) = a
    BY <1>2, <2>2, OutcomeOperators
  <2>7. Room(m + 1, n)
    BY <1>2, <2>2, OpenerFacts DEF Room
  <2>. HIDE DEF d, a
  <2>. QED  BY <1>1, <2>2, <2>5, <2>6, <2>7, TakenTo
<1>6. CASE On({"+"}, <<"parseExpr">>)
  <2>. DEFINE d == Cons("parseExpr", c)
              a == Cons("expr", r)
  <2>1. <<"parseExpr">> \o c = d
    BY <1>2, SinglePart
  <2>2. p.current = "+" /\ Take(d)
    BY <1>2, <1>6, <2>1 DEF On, Otherwise
  <2>3. Held(d, "parseExpr", a, m, u)
    BY <1>3, PushParseExpr
  <2>4. Outcome(s, p.current, p.repl_mode) = a
    BY <1>2, <2>2, OutcomeOperators
  <2>5. Room(m, n)
    BY <1>2, <2>2, OpenerFacts DEF Room
  <2>. HIDE DEF d, a
  <2>. QED  BY <1>1, <2>2, <2>3, <2>4, <2>5, TakenTo
<1>7. CASE Otherwise({"(", "[", "+"}, <<>>)
  <2>. DEFINE d == c
              a == r
  <2>1. <<>> \o c = d
    BY <1>2, Spread
  <2>2. p.current \notin {"(", "[", "+"} /\ Turn(d)
    BY <1>2, <1>7, <2>1 DEF On, Otherwise
  <2>3. Held(d, y, a, m, u)
    BY <1>3
  <2>4. Outcome(s, p.current, p.repl_mode) = Outcome(a, p.current, p.repl_mode)
    BY <1>2, <2>2, OutcomeOperators
  <2>5. m <= n
    BY <1>2
  <2>. HIDE DEF d, a
  <2>. QED  BY <1>1, <2>2, <2>3, <2>4, <2>5, TurnedTo
<1>. QED  BY <1>4, <1>5, <1>6, <1>7 DEF parseCall, Doing

LEMMA StepExprWithLeft ==
  ASSUME Inv, parseExprWithLeft
  PROVE  Inv'
<1>1. PICK c, y, s, r, n, m, u : Facing("exprWithLeft", c, y, s, r, n, m, u)
  BY Faced DEF parseExprWithLeft
<1>2. /\ s = Cons("indices", r)
      /\ c = Rest /\ c \in Seq(Word) /\ r \in Seq(Word) /\ n = m /\ m \in Nat /\ n \in Nat
  <2>1. Weigh("exprWithLeft") = 0
    BY DEF Weigh, Closing, Branching
  <2>2. Owed("exprWithLeft") \o r = Cons("indices", r)
    BY <1>1, OwedForms DEF Facing
  <2>. QED  BY <1>1, <2>1, <2>2 DEF Facing
<1>3. Held(c, y, r, m, TRUE)
  BY <1>1 DEF Facing, Inside
<1>4. CASE On({"["}, <<"parseExpr", "]", "exprWithLeft">>)
  <2>. DEFINE d == Cons("parseExpr", Cons("]", Cons("exprWithLeft", c)))
              a == Cons("expr", Cons("]", Cons("indices", r)))
  <2>1. <<"parseExpr", "]", "exprWithLeft">> \o c = d
    BY <1>2, ThreeParts
  <2>2. p.current = "[" /\ Take(d)
    BY <1>2, <1>4, <2>1 DEF On, Otherwise
  <2>3. Held(Cons("exprWithLeft", c), "exprWithLeft", Cons("indices", r), m, TRUE)
    BY <1>3, PushExprWithLeft, Zenon
  <2>4. Held(Cons("]", Cons("exprWithLeft", c)), "]",
             Cons("]", Cons("indices", r)), m + 1, TRUE)
    BY <2>3, PushIndex
  <2>5. Held(d, "parseExpr", a, m + 1, TRUE)
    BY <2>4, PushParseExpr
  <2>6. Outcome(s, p.current, p.repl_mode) = a
    BY <1>2, <2>2, OutcomeIndices
  <2>7. Room(m + 1, n)
    BY <1>2, <2>2, OpenerFacts DEF Room
  <2>. HIDE DEF d, a
  <2>. QED  BY <1>1, <2>2, <2>5, <2>6, <2>7, TakenTo
<1>5. CASE On({"+"}, <<"parseExpr">>)
  <2>. DEFINE d == Cons("parseExpr", c)
              a == Cons("expr", r)
  <2>1. <<"parseExpr">> \o c = d
    BY <1>2, SinglePart
  <2>2. p.current = "+" /\ Take(d)
    BY <1>2, <1>5, <2>1 DEF On, Otherwise
  <2>3. Held(d, "parseExpr", a, m, TRUE)
    BY <1>3, PushParseExpr, Zenon
  <2>4. Outcome(s, p.current, p.repl_mode) = a
    BY <1>2, <2>2, OutcomeIndices
  <2>5. Room(m, n)
    BY <1>2, <2>2, OpenerFacts DEF Room
  <2>. HIDE DEF d, a
  <2>. QED  BY <1>1, <2>2, <2>3, <2>4, <2>5, TakenTo
<1>6. CASE Otherwise({"[", "+"}, <<>>)
  <2>. DEFINE d == c
              a == r
  <2>1. <<>> \o c = d
    BY <1>2, Spread
  <2>2. p.current \notin {"[", "+"} /\ Turn(d)
    BY <1>2, <1>6, <2>1 DEF On, Otherwise
  <2>3. Held(d, y, a, m, TRUE)
    BY <1>3, Zenon
  <2>4. Outcome(s, p.current, p.repl_mode) = Outcome(a, p.current, p.repl_mode)
    BY <1>2, <2>2, OutcomeIndices
  <2>5. m <= n
    BY <1>2
  <2>. HIDE DEF d, a
  <2>. QED  BY <1>1, <2>2, <2>3, <2>4, <2>5, TurnedTo
<1>. QED  BY <1>4, <1>5, <1>6 DEF parseExprWithLeft, Doing

LEMMA StepMoreItems ==
  ASSUME Inv, parseItems, Doing("moreItems")
  PROVE  Inv'
<1>1. PICK c, y, s, r, n, m, u : Facing("moreItems", c, y, s, r, n, m, u)
  BY Faced
<1>2. /\ s = Cons("moreItems", r)
      /\ c = Rest /\ c \in Seq(Word) /\ r \in Seq(Word) /\ n = m /\ m \in Nat /\ n \in Nat
  <2>1. Weigh("moreItems") = 0
    BY DEF Weigh, Closing, Branching
  <2>2. Owed("moreItems") \o r = Cons("moreItems", r)
    BY <1>1, OwedForms DEF Facing
  <2>. QED  BY <1>1, <2>1, <2>2 DEF Facing
<1>3. Held(c, y, r, m, u) /\ y \in {")", "]"}
  BY <1>1 DEF Facing, Follows
<1>4. CASE On({"comma"}, <<"items">>)
  <2>. DEFINE d == Cons("items", c)
              a == Cons("items", r)
  <2>1. <<"items">> \o c = d
    BY <1>2, SinglePart
  <2>2. p.current = "comma" /\ Take(d)
    BY <1>2, <1>4, <2>1 DEF On, Otherwise
  <2>3. Held(d, "items", a, m, u)
    BY <1>3, PushItems
  <2>4. Outcome(s, p.current, p.repl_mode) = a
    BY <1>2, <2>2, OutcomeMoreItems
  <2>5. Room(m, n)
    BY <1>2, <2>2, OpenerFacts DEF Room
  <2>. HIDE DEF d, a
  <2>. QED  BY <1>1, <2>2, <2>3, <2>4, <2>5, TakenTo
<1>5. CASE Otherwise({"comma"}, <<>>)
  <2>. DEFINE d == c
              a == r
  <2>1. <<>> \o c = d
    BY <1>2, Spread
  <2>2. p.current # "comma" /\ Turn(d)
    BY <1>2, <1>5, <2>1 DEF On, Otherwise
  <2>3. Held(d, y, a, m, u)
    BY <1>3
  <2>4. Outcome(s, p.current, p.repl_mode) = Outcome(a, p.current, p.repl_mode)
    BY <1>2, <2>2, OutcomeMoreItems
  <2>5. m <= n
    BY <1>2
  <2>. HIDE DEF d, a
  <2>. QED  BY <1>1, <2>2, <2>3, <2>4, <2>5, TurnedTo
<1>. QED  BY <1>4, <1>5 DEF parseItems, Doing

LEMMA StepNameStmt ==
  ASSUME Inv, nameStmt, Doing("nameStmt")
  PROVE  Inv'
<1>1. PICK c, y, s, r, n, m, u : Facing("nameStmt", c, y, s, r, n, m, u)
  BY Faced
<1>2. /\ s = Cons("action", Cons("line", r))
      /\ c = Rest /\ c \in Seq(Word) /\ r \in Seq(Word) /\ n = m /\ m \in Nat /\ n \in Nat
  <2>1. Weigh("nameStmt") = 0
    BY DEF Weigh, Closing, Branching
  <2>2. Owed("nameStmt") \o r = Cons("action", Cons("line", r))
    BY <1>1, OwedForms DEF Facing
  <2>. QED  BY <1>1, <2>1, <2>2 DEF Facing
<1>3. Held(c, y, r, m, TRUE)
  BY <1>1 DEF Facing, Inside
<1>4. CASE On({"=", "+="}, <<"parseExpr", "expectNewline">>)
  <2>. DEFINE d == Cons("parseExpr", Cons("expectNewline", c))
              a == Cons("expr", Cons("line", r))
  <2>1. <<"parseExpr", "expectNewline">> \o c = d
    BY <1>2, TwoParts
  <2>2. p.current \in {"=", "+="} /\ Take(d)
    BY <1>2, <1>4, <2>1 DEF On, Otherwise
  <2>3. Held(Cons("expectNewline", c), "expectNewline", Cons("line", r), m, TRUE)
    BY <1>3, PushExpectNewline, Zenon
  <2>4. Held(d, "parseExpr", a, m, TRUE)
    BY <2>3, PushParseExpr, Zenon
  <2>5. Outcome(s, p.current, p.repl_mode) = a
    <3>. DEFINE z == Cons("line", r)
    <3>1. z \in Seq(Word)
      BY <1>2, ConsFacts, Words
    <3>. HIDE DEF z
    <3>2. Outcome(Cons("action", z), p.current, p.repl_mode) = Cons("expr", z)
      BY <1>2, <2>2, <3>1, OutcomeAction
    <3>. QED  BY <1>2, <3>2 DEF z
  <2>6. Room(m, n)
    BY <1>2, <2>2, OpenerFacts DEF Room
  <2>. HIDE DEF d, a
  <2>. QED  BY <1>1, <2>2, <2>4, <2>5, <2>6, TakenTo
<1>5. CASE On({"["}, <<"parseExpr", "]", "element">>)
  <2>. DEFINE d == Cons("parseExpr", Cons("]", Cons("element", c)))
              a == Cons("expr", Cons("]", Cons("element", Cons("line", r))))
  <2>1. <<"parseExpr", "]", "element">> \o c = d
    BY <1>2, ThreeParts
  <2>2. p.current = "[" /\ Take(d)
    BY <1>2, <1>5, <2>1 DEF On, Otherwise
  <2>3. Held(Cons("element", c), "element", Cons("element", Cons("line", r)), m, TRUE)
    BY <1>3, PushElement, Zenon
  <2>4. Held(Cons("]", Cons("element", c)), "]",
             Cons("]", Cons("element", Cons("line", r))), m + 1, TRUE)
    BY <2>3, PushIndex
  <2>5. Held(d, "parseExpr", a, m + 1, TRUE)
    BY <2>4, PushParseExpr
  <2>6. Outcome(s, p.current, p.repl_mode) = a
    <3>. DEFINE z == Cons("line", r)
    <3>1. z \in Seq(Word)
      BY <1>2, ConsFacts, Words
    <3>. HIDE DEF z
    <3>2. Outcome(Cons("action", z), p.current, p.repl_mode) =
            Cons("expr", Cons("]", Cons("element", z)))
      BY <1>2, <2>2, <3>1, OutcomeAction
    <3>. QED  BY <1>2, <3>2 DEF z
  <2>7. Room(m + 1, n)
    BY <1>2, <2>2, OpenerFacts DEF Room
  <2>. HIDE DEF d, a
  <2>. QED  BY <1>1, <2>2, <2>5, <2>6, <2>7, TakenTo
<1>6. CASE Otherwise({"=", "+=", "["}, <<"arguments">>)
  <2>. DEFINE d == Cons("arguments", c)
              a == Cons("calls", Cons("line", r))
  <2>1. <<"arguments">> \o c = d
    BY <1>2, SinglePart
  <2>2. p.current \notin {"=", "+=", "["} /\ Turn(d)
    BY <1>2, <1>6, <2>1 DEF On, Otherwise
  <2>3. Held(d, "arguments", a, m, TRUE)
    BY <1>3, PushArguments, Zenon
  <2>4. Outcome(s, p.current, p.repl_mode) = Outcome(a, p.current, p.repl_mode)
    <3>. DEFINE z == Cons("line", r)
    <3>1. z \in Seq(Word)
      BY <1>2, ConsFacts, Words
    <3>. HIDE DEF z
    <3>2. Outcome(Cons("action", z), p.current, p.repl_mode) =
            Outcome(Cons("calls", z), p.current, p.repl_mode)
      BY <1>2, <2>2, <3>1, OutcomeAction, OutcomeCalls
    <3>. QED  BY <1>2, <3>2 DEF z
  <2>5. m <= n
    BY <1>2
  <2>. HIDE DEF d, a
  <2>. QED  BY <1>1, <2>2, <2>3, <2>4, <2>5, TurnedTo
<1>. QED  BY <1>4, <1>5, <1>6 DEF nameStmt, Doing

LEMMA StepElement ==
  ASSUME Inv, nameStmt, Doing("element")
  PROVE  Inv'
<1>1. PICK c, y, s, r, n, m, u : Facing("element", c, y, s, r, n, m, u)
  BY Faced
<1>2. /\ s = Cons("element", Cons("line", r))
      /\ c = Rest /\ c \in Seq(Word) /\ r \in Seq(Word) /\ n = m /\ m \in Nat /\ n \in Nat
  <2>1. Weigh("element") = 0
    BY DEF Weigh, Closing, Branching
  <2>2. Owed("element") \o r = Cons("element", Cons("line", r))
    BY <1>1, OwedForms DEF Facing
  <2>. QED  BY <1>1, <2>1, <2>2 DEF Facing
<1>3. Held(c, y, r, m, TRUE)
  BY <1>1 DEF Facing, Inside
<1>4. CASE On({"="}, <<"parseExpr", "expectNewline">>)
  <2>. DEFINE d == Cons("parseExpr", Cons("expectNewline", c))
              a == Cons("expr", Cons("line", r))
  <2>1. <<"parseExpr", "expectNewline">> \o c = d
    BY <1>2, TwoParts
  <2>2. p.current = "=" /\ Take(d)
    BY <1>2, <1>4, <2>1 DEF On, Otherwise
  <2>3. Held(Cons("expectNewline", c), "expectNewline", Cons("line", r), m, TRUE)
    BY <1>3, PushExpectNewline, Zenon
  <2>4. Held(d, "parseExpr", a, m, TRUE)
    BY <2>3, PushParseExpr, Zenon
  <2>5. Outcome(s, p.current, p.repl_mode) = a
    <3>. DEFINE z == Cons("line", r)
    <3>1. z \in Seq(Word)
      BY <1>2, ConsFacts, Words
    <3>. HIDE DEF z
    <3>2. Outcome(Cons("element", z), p.current, p.repl_mode) = Cons("expr", z)
      BY <1>2, <2>2, <3>1, OutcomeElement
    <3>. QED  BY <1>2, <3>2 DEF z
  <2>6. Room(m, n)
    BY <1>2, <2>2, OpenerFacts DEF Room
  <2>. HIDE DEF d, a
  <2>. QED  BY <1>1, <2>2, <2>4, <2>5, <2>6, TakenTo
<1>5. CASE Otherwise({"="}, <<"expectNewline">>)
  <2>. DEFINE d == Cons("expectNewline", c)
              a == Cons("line", r)
  <2>1. <<"expectNewline">> \o c = d
    BY <1>2, SinglePart
  <2>2. p.current # "=" /\ Turn(d)
    BY <1>2, <1>5, <2>1 DEF On, Otherwise
  <2>3. Held(d, "expectNewline", a, m, TRUE)
    BY <1>3, PushExpectNewline, Zenon
  <2>4. Outcome(s, p.current, p.repl_mode) = Outcome(a, p.current, p.repl_mode)
    <3>. DEFINE z == Cons("line", r)
    <3>1. z \in Seq(Word)
      BY <1>2, ConsFacts, Words
    <3>. HIDE DEF z
    <3>2. Outcome(Cons("element", z), p.current, p.repl_mode) = Outcome(z, p.current, p.repl_mode)
      BY <1>2, <2>2, <3>1, OutcomeElement
    <3>. QED  BY <1>2, <3>2 DEF z
  <2>5. m <= n
    BY <1>2
  <2>. HIDE DEF d, a
  <2>. QED  BY <1>1, <2>2, <2>3, <2>4, <2>5, TurnedTo
<1>. QED  BY <1>4, <1>5 DEF nameStmt, Doing

LEMMA StepArguments ==
  ASSUME Inv, nameStmt, Doing("arguments")
  PROVE  Inv'
<1>1. PICK c, y, s, r, n, m, u : Facing("arguments", c, y, s, r, n, m, u)
  BY Faced
<1>2. /\ s = Cons("calls", Cons("line", r))
      /\ c = Rest /\ c \in Seq(Word) /\ r \in Seq(Word) /\ n = m /\ m \in Nat /\ n \in Nat
  <2>1. Weigh("arguments") = 0
    BY DEF Weigh, Closing, Branching
  <2>2. Owed("arguments") \o r = Cons("calls", Cons("line", r))
    BY <1>1, OwedForms DEF Facing
  <2>. QED  BY <1>1, <2>1, <2>2 DEF Facing
<1>3. Held(c, y, r, m, TRUE)
  BY <1>1 DEF Facing, Inside
<1>4. CASE On({"("}, <<"items", ")", "arguments">>)
  <2>. DEFINE d == Cons("items", Cons(")", Cons("arguments", c)))
              a == Cons("items", Cons(")", Cons("calls", Cons("line", r))))
  <2>1. <<"items", ")", "arguments">> \o c = d
    BY <1>2, ThreeParts
  <2>2. p.current = "(" /\ Take(d)
    BY <1>2, <1>4, <2>1 DEF On, Otherwise
  <2>3. Held(Cons("arguments", c), "arguments", Cons("calls", Cons("line", r)), m, TRUE)
    BY <1>3, PushArguments, Zenon
  <2>4. Held(Cons(")", Cons("arguments", c)), ")",
             Cons(")", Cons("calls", Cons("line", r))), m + 1, TRUE)
    BY <2>3, PushClose
  <2>5. Held(d, "items", a, m + 1, TRUE)
    BY <2>4, PushItems
  <2>6. Outcome(s, p.current, p.repl_mode) = a
    <3>. DEFINE z == Cons("line", r)
    <3>1. z \in Seq(Word)
      BY <1>2, ConsFacts, Words
    <3>. HIDE DEF z
    <3>2. Outcome(Cons("calls", z), p.current, p.repl_mode) =
            Cons("items", Cons(")", Cons("calls", z)))
      BY <1>2, <2>2, <3>1, OutcomeCalls
    <3>. QED  BY <1>2, <3>2 DEF z
  <2>7. Room(m + 1, n)
    BY <1>2, <2>2, OpenerFacts DEF Room
  <2>. HIDE DEF d, a
  <2>. QED  BY <1>1, <2>2, <2>5, <2>6, <2>7, TakenTo
<1>5. CASE p.repl_mode /\ Otherwise({"("}, <<"exprWithLeft", "expectNewline">>)
  <2>. DEFINE d == Cons("exprWithLeft", Cons("expectNewline", c))
              a == Cons("indices", Cons("line", r))
  <2>1. <<"exprWithLeft", "expectNewline">> \o c = d
    BY <1>2, TwoParts
  <2>2. p.repl_mode /\ p.current # "(" /\ Turn(d)
    BY <1>2, <1>5, <2>1 DEF On, Otherwise
  <2>3. Held(Cons("expectNewline", c), "expectNewline", Cons("line", r), m, TRUE)
    BY <1>3, PushExpectNewline, Zenon
  <2>4. Held(d, "exprWithLeft", a, m, TRUE)
    BY <2>3, PushExprWithLeft, Zenon
  <2>5. Outcome(s, p.current, p.repl_mode) = Outcome(a, p.current, p.repl_mode)
    <3>. DEFINE z == Cons("line", r)
    <3>1. z \in Seq(Word)
      BY <1>2, ConsFacts, Words
    <3>. HIDE DEF z
    <3>5. p.repl_mode = TRUE
      BY <2>2, Modes
    <3>2. CASE p.current = "["
      BY <1>2, <3>5, <3>1, <3>2, OutcomeCalls, OutcomeIndices DEF z
    <3>3. CASE p.current = "+"
      BY <1>2, <3>5, <3>1, <3>3, OutcomeCalls, OutcomeIndices DEF z
    <3>4. CASE p.current \notin {"[", "+"}
      <4>1. Outcome(Cons("calls", z), p.current, p.repl_mode) = Outcome(z, p.current, p.repl_mode)
        <5>1. p.current # "(" /\ ~ (p.current \in {"[", "+"} /\ p.repl_mode)
          BY <2>2, <3>4
        <5>2. \A t, repl : t # "(" /\ ~ (t \in {"[", "+"} /\ repl) =>
                Outcome(Cons("calls", z), t, repl) = Outcome(z, t, repl)
          BY <3>1, OutcomeCalls
        <5>. QED  BY <5>1, <5>2
      <4>2. Outcome(Cons("indices", z), p.current, p.repl_mode) = Outcome(z, p.current, p.repl_mode)
        BY <3>1, <3>4, OutcomeIndices
      <4>. QED  BY <1>2, <4>1, <4>2 DEF z
    <3>. QED  BY <3>2, <3>3, <3>4
  <2>6. m <= n
    BY <1>2
  <2>. HIDE DEF d, a
  <2>. QED  BY <1>1, <2>2, <2>4, <2>5, <2>6, TurnedTo
<1>6. CASE ~ p.repl_mode /\ Otherwise({"("}, <<"expectNewline">>)
  <2>. DEFINE d == Cons("expectNewline", c)
              a == Cons("line", r)
  <2>1. <<"expectNewline">> \o c = d
    BY <1>2, SinglePart
  <2>2. ~ p.repl_mode /\ p.current # "(" /\ Turn(d)
    BY <1>2, <1>6, <2>1 DEF On, Otherwise
  <2>3. Held(d, "expectNewline", a, m, TRUE)
    BY <1>3, PushExpectNewline, Zenon
  <2>4. Outcome(s, p.current, p.repl_mode) = Outcome(a, p.current, p.repl_mode)
    <3>. DEFINE z == Cons("line", r)
    <3>1. z \in Seq(Word)
      BY <1>2, ConsFacts, Words
    <3>. HIDE DEF z
    <3>2. Outcome(Cons("calls", z), p.current, p.repl_mode) =
            Outcome(z, p.current, p.repl_mode)
      BY <1>2, <2>2, <3>1, OutcomeCalls
    <3>. QED  BY <1>2, <3>2 DEF z
  <2>5. m <= n
    BY <1>2
  <2>. HIDE DEF d, a
  <2>. QED  BY <1>1, <2>2, <2>3, <2>4, <2>5, TurnedTo
<1>. QED  BY <1>4, <1>5, <1>6 DEF nameStmt, Doing

LEMMA StepElseBlock ==
  ASSUME Inv, parseIfStmt, Doing("elseBlock")
  PROVE  Inv'
<1>1. PICK c, y, s, r, n, m, u : Facing("elseBlock", c, y, s, r, n, m, u)
  BY Faced
<1>2. /\ s = Cons("otherwise", r)
      /\ c = Rest /\ c \in Seq(Word) /\ r \in Seq(Word) /\ n = m /\ m \in Nat /\ n \in Nat
  <2>1. Weigh("elseBlock") = 0
    BY DEF Weigh, Closing, Branching
  <2>2. Owed("elseBlock") \o r = Cons("otherwise", r)
    BY <1>1, OwedForms DEF Facing
  <2>. QED  BY <1>1, <2>1, <2>2 DEF Facing
<1>3. Held(c, y, r, m, TRUE) /\ y \in {"end"}
  BY <1>1 DEF Facing, Inside, Follows
<1>4. CASE On({"else"}, <<"expectNewline", "parseBlock">>)
  <2>. DEFINE d == Cons("expectNewline", Cons("parseBlock", c))
              a == Cons("line", Cons("statements", r))
  <2>1. <<"expectNewline", "parseBlock">> \o c = d
    BY <1>2, TwoParts
  <2>2. p.current = "else" /\ Take(d)
    BY <1>2, <1>4, <2>1 DEF On, Otherwise
  <2>3. Held(Cons("parseBlock", c), "parseBlock", Cons("statements", r), m, TRUE)
    BY <1>3, PushParseBlock, Zenon
  <2>4. Held(d, "expectNewline", a, m, TRUE)
    BY <2>3, PushExpectNewline, Zenon
  <2>5. Outcome(s, p.current, p.repl_mode) = a
    BY <1>2, <2>2, OutcomeOtherwise
  <2>6. Room(m, n)
    BY <1>2, <2>2, OpenerFacts DEF Room
  <2>. HIDE DEF d, a
  <2>. QED  BY <1>1, <2>2, <2>4, <2>5, <2>6, TakenTo
<1>5. CASE Otherwise({"else"}, <<>>)
  <2>. DEFINE d == c
              a == r
  <2>1. <<>> \o c = d
    BY <1>2, Spread
  <2>2. p.current # "else" /\ Turn(d)
    BY <1>2, <1>5, <2>1 DEF On, Otherwise
  <2>3. Held(d, y, a, m, TRUE)
    BY <1>3, Zenon
  <2>4. Outcome(s, p.current, p.repl_mode) = Outcome(a, p.current, p.repl_mode)
    BY <1>2, <2>2, OutcomeOtherwise
  <2>5. m <= n
    BY <1>2
  <2>. HIDE DEF d, a
  <2>. QED  BY <1>1, <2>2, <2>3, <2>4, <2>5, TurnedTo
<1>. QED  BY <1>4, <1>5 DEF parseIfStmt, Doing

LEMMA StepMoreDefaults ==
  ASSUME Inv, parseFunctionDecl, Doing("moreDefaults")
  PROVE  Inv'
<1>1. PICK c, y, s, r, n, m, u : Facing("moreDefaults", c, y, s, r, n, m, u)
  BY Faced
<1>2. /\ s = Cons("moreDefaults", r)
      /\ c = Rest /\ c \in Seq(Word) /\ r \in Seq(Word) /\ n = m /\ m \in Nat /\ n \in Nat
  <2>1. Weigh("moreDefaults") = 0
    BY DEF Weigh, Closing, Branching
  <2>2. Owed("moreDefaults") \o r = Cons("moreDefaults", r)
    BY <1>1, OwedForms DEF Facing
  <2>. QED  BY <1>1, <2>1, <2>2 DEF Facing
<1>3. Held(c, y, r, m, TRUE) /\ y \in {")"}
  BY <1>1 DEF Facing, Inside, Follows
<1>4. CASE On({"comma"}, <<"defaults">>)
  <2>. DEFINE d == Cons("defaults", c)
              a == Cons("defaults", r)
  <2>1. <<"defaults">> \o c = d
    BY <1>2, OnePart
  <2>2. p.current = "comma" /\ Take(d)
    BY <1>2, <1>4, <2>1 DEF On, Otherwise
  <2>3. Held(d, "defaults", a, m, TRUE)
    BY <1>3, PushDefaults, Zenon
  <2>4. Outcome(s, p.current, p.repl_mode) = a
    BY <1>2, <2>2, OutcomeMoreDefaults
  <2>5. Room(m, n)
    BY <1>2, <2>2, OpenerFacts DEF Room
  <2>. HIDE DEF d, a
  <2>. QED  BY <1>1, <2>2, <2>3, <2>4, <2>5, TakenTo
<1>5. CASE Otherwise({"comma"}, <<>>)
  <2>. DEFINE d == c
              a == r
  <2>1. <<>> \o c = d
    BY <1>2, Spread
  <2>2. p.current # "comma" /\ Turn(d)
    BY <1>2, <1>5, <2>1 DEF On, Otherwise
  <2>3. Held(d, y, a, m, TRUE)
    BY <1>3, Zenon
  <2>4. Outcome(s, p.current, p.repl_mode) = Outcome(a, p.current, p.repl_mode)
    BY <1>2, <2>2, OutcomeMoreDefaults
  <2>5. m <= n
    BY <1>2
  <2>. HIDE DEF d, a
  <2>. QED  BY <1>1, <2>2, <2>3, <2>4, <2>5, TurnedTo
<1>. QED  BY <1>4, <1>5 DEF parseFunctionDecl, Doing

LEMMA StepSlash ==
  ASSUME Inv, parsePath, Doing("slash")
  PROVE  Inv'
<1>1. PICK c, y, s, r, n, m, u : Facing("slash", c, y, s, r, n, m, u)
  BY Faced
<1>2. /\ s = Cons("segments", r)
      /\ c = Rest /\ c \in Seq(Word) /\ r \in Seq(Word) /\ n = m /\ m \in Nat /\ n \in Nat
  <2>1. Weigh("slash") = 0
    BY DEF Weigh, Closing, Branching
  <2>2. Owed("slash") \o r = Cons("segments", r)
    BY <1>1, OwedForms DEF Facing
  <2>. QED  BY <1>1, <2>1, <2>2 DEF Facing
<1>3. Held(c, y, r, m, TRUE)
  BY <1>1 DEF Facing, Inside
<1>4. CASE On({"/"}, <<"segment">>)
  <2>. DEFINE d == Cons("segment", c)
              a == Cons("segment", r)
  <2>1. <<"segment">> \o c = d
    BY <1>2, OnePart
  <2>2. p.current = "/" /\ Take(d)
    BY <1>2, <1>4, <2>1 DEF On, Otherwise
  <2>3. Held(d, "segment", a, m, TRUE)
    BY <1>3, PushSegment, Zenon
  <2>4. Outcome(s, p.current, p.repl_mode) = a
    BY <1>2, <2>2, OutcomeSegments
  <2>5. Room(m, n)
    BY <1>2, <2>2, OpenerFacts DEF Room
  <2>. HIDE DEF d, a
  <2>. QED  BY <1>1, <2>2, <2>3, <2>4, <2>5, TakenTo
<1>5. CASE Otherwise({"/"}, <<>>)
  <2>. DEFINE d == c
              a == r
  <2>1. <<>> \o c = d
    BY <1>2, Spread
  <2>2. p.current # "/" /\ Turn(d)
    BY <1>2, <1>5, <2>1 DEF On, Otherwise
  <2>3. Held(d, y, a, m, TRUE)
    BY <1>3, Zenon
  <2>4. Outcome(s, p.current, p.repl_mode) = Outcome(a, p.current, p.repl_mode)
    BY <1>2, <2>2, OutcomeSegments
  <2>5. m <= n
    BY <1>2
  <2>. HIDE DEF d, a
  <2>. QED  BY <1>1, <2>2, <2>3, <2>4, <2>5, TurnedTo
<1>. QED  BY <1>4, <1>5 DEF parsePath, Doing

LEMMA StepSegment ==
  ASSUME Inv, parsePath, Doing("segment")
  PROVE  Inv'
<1>1. PICK c, y, s, r, n, m, u : Facing("segment", c, y, s, r, n, m, u)
  BY Faced
<1>2. /\ s = Cons("segment", r)
      /\ c = Rest /\ c \in Seq(Word) /\ r \in Seq(Word) /\ n = m /\ m \in Nat /\ n \in Nat
  <2>1. Weigh("segment") = 0
    BY DEF Weigh, Closing, Branching
  <2>2. Owed("segment") \o r = Cons("segment", r)
    BY <1>1, OwedForms DEF Facing
  <2>. QED  BY <1>1, <2>1, <2>2 DEF Facing
<1>3. Held(c, y, r, m, TRUE)
  BY <1>1 DEF Facing, Inside
<1>4. CASE On(Names, <<"slash">>)
  <2>. DEFINE d == Cons("slash", c)
              a == Cons("segments", r)
  <2>1. <<"slash">> \o c = d
    BY <1>2, OnePart
  <2>2. p.current \in Names /\ Take(d)
    BY <1>2, <1>4, <2>1 DEF On, Otherwise
  <2>3. Held(d, "slash", a, m, TRUE)
    BY <1>3, PushSlash, Zenon
  <2>4. Outcome(s, p.current, p.repl_mode) = a
    BY <1>2, <2>2, OutcomeSegment
  <2>5. Room(m, n)
    BY <1>2, <2>2, OpenerFacts, TokenFacts DEF Room
  <2>. HIDE DEF d, a
  <2>. QED  BY <1>1, <2>2, <2>3, <2>4, <2>5, TakenTo
<1>5. CASE Otherwise(Names, <<>>)
  <2>. DEFINE d == c
              a == r
  <2>1. <<>> \o c = d
    BY <1>2, Spread
  <2>2. p.current \notin Names /\ Turn(d)
    BY <1>2, <1>5, <2>1 DEF On, Otherwise
  <2>3. Held(d, y, a, m, TRUE)
    BY <1>3, Zenon
  <2>4. Outcome(s, p.current, p.repl_mode) = Outcome(a, p.current, p.repl_mode)
    BY <1>2, <2>2, OutcomeSegment
  <2>5. m <= n
    BY <1>2
  <2>. HIDE DEF d, a
  <2>. QED  BY <1>1, <2>2, <2>3, <2>4, <2>5, TurnedTo
<1>. QED  BY <1>4, <1>5 DEF parsePath, Doing

LEMMA StepMoreNames ==
  ASSUME Inv, parseFromImportStmt, Doing("moreNames")
  PROVE  Inv'
<1>1. PICK c, y, s, r, n, m, u : Facing("moreNames", c, y, s, r, n, m, u)
  BY Faced
<1>2. /\ s = Cons("names", r)
      /\ c = Rest /\ c \in Seq(Word) /\ r \in Seq(Word) /\ n = m /\ m \in Nat /\ n \in Nat
  <2>1. Weigh("moreNames") = 0
    BY DEF Weigh, Closing, Branching
  <2>2. Owed("moreNames") \o r = Cons("names", r)
    BY <1>1, OwedForms DEF Facing
  <2>. QED  BY <1>1, <2>1, <2>2 DEF Facing
<1>3. Held(c, y, r, m, TRUE)
  BY <1>1 DEF Facing, Inside
<1>4. CASE On({"comma"}, <<"name">>)
  <2>. DEFINE d == Cons("name", c)
              a == Cons("name", r)
  <2>1. <<"name">> \o c = d
    BY <1>2, OnePart
  <2>2. p.current = "comma" /\ Take(d)
    BY <1>2, <1>4, <2>1 DEF On, Otherwise
  <2>3. Held(d, "name", a, m, TRUE)
    BY <1>3, PushName, Zenon
  <2>4. Outcome(s, p.current, p.repl_mode) = a
    BY <1>2, <2>2, OutcomeNames
  <2>5. Room(m, n)
    BY <1>2, <2>2, OpenerFacts DEF Room
  <2>. HIDE DEF d, a
  <2>. QED  BY <1>1, <2>2, <2>3, <2>4, <2>5, TakenTo
<1>5. CASE Otherwise({"comma"}, <<>>)
  <2>. DEFINE d == c
              a == r
  <2>1. <<>> \o c = d
    BY <1>2, Spread
  <2>2. p.current # "comma" /\ Turn(d)
    BY <1>2, <1>5, <2>1 DEF On, Otherwise
  <2>3. Held(d, y, a, m, TRUE)
    BY <1>3, Zenon
  <2>4. Outcome(s, p.current, p.repl_mode) = Outcome(a, p.current, p.repl_mode)
    BY <1>2, <2>2, OutcomeNames
  <2>5. m <= n
    BY <1>2
  <2>. HIDE DEF d, a
  <2>. QED  BY <1>1, <2>2, <2>3, <2>4, <2>5, TurnedTo
<1>. QED  BY <1>4, <1>5 DEF parseFromImportStmt, Doing

LEMMA StepName ==
  ASSUME Inv, parseFromImportStmt, Doing("name")
  PROVE  Inv'
<1>1. PICK c, y, s, r, n, m, u : Facing("name", c, y, s, r, n, m, u)
  BY Faced
<1>2. /\ s = Cons("name", r)
      /\ c = Rest /\ c \in Seq(Word) /\ r \in Seq(Word) /\ n = m /\ m \in Nat /\ n \in Nat
  <2>1. Weigh("name") = 0
    BY DEF Weigh, Closing, Branching
  <2>2. Owed("name") \o r = Cons("name", r)
    BY <1>1, OwedForms DEF Facing
  <2>. QED  BY <1>1, <2>1, <2>2 DEF Facing
<1>3. Held(c, y, r, m, TRUE)
  BY <1>1 DEF Facing, Inside
<1>4. CASE On(Names, <<"moreNames">>)
  <2>. DEFINE d == Cons("moreNames", c)
              a == Cons("names", r)
  <2>1. <<"moreNames">> \o c = d
    BY <1>2, OnePart
  <2>2. p.current \in Names /\ Take(d)
    BY <1>2, <1>4, <2>1 DEF On, Otherwise
  <2>3. Held(d, "moreNames", a, m, TRUE)
    BY <1>3, PushMoreNames, Zenon
  <2>4. Outcome(s, p.current, p.repl_mode) = a
    BY <1>2, <2>2, OutcomeName
  <2>5. Room(m, n)
    BY <1>2, <2>2, OpenerFacts, TokenFacts DEF Room
  <2>. HIDE DEF d, a
  <2>. QED  BY <1>1, <2>2, <2>3, <2>4, <2>5, TakenTo
<1>5. CASE Otherwise(Names, <<>>)
  <2>. DEFINE d == c
              a == r
  <2>1. <<>> \o c = d
    BY <1>2, Spread
  <2>2. p.current \notin Names /\ Turn(d)
    BY <1>2, <1>5, <2>1 DEF On, Otherwise
  <2>3. Held(d, y, a, m, TRUE)
    BY <1>3, Zenon
  <2>4. Outcome(s, p.current, p.repl_mode) = Outcome(a, p.current, p.repl_mode)
    BY <1>2, <2>2, OutcomeName
  <2>5. m <= n
    BY <1>2
  <2>. HIDE DEF d, a
  <2>. QED  BY <1>1, <2>2, <2>3, <2>4, <2>5, TurnedTo
<1>. QED  BY <1>4, <1>5 DEF parseFromImportStmt, Doing

LEMMA StepMoreValues ==
  ASSUME Inv, parseWhen, Doing("moreValues")
  PROVE  Inv'
<1>1. PICK c, y, s, r, n, m, u : Facing("moreValues", c, y, s, r, n, m, u)
  BY Faced
<1>2. /\ s = Cons("moreValues", r)
      /\ c = Rest /\ c \in Seq(Word) /\ r \in Seq(Word) /\ n = m /\ m \in Nat /\ n \in Nat
  <2>1. Weigh("moreValues") = 0
    BY DEF Weigh, Closing, Branching
  <2>2. Owed("moreValues") \o r = Cons("moreValues", r)
    BY <1>1, OwedForms DEF Facing
  <2>. QED  BY <1>1, <2>1, <2>2 DEF Facing
<1>3. Held(c, y, r, m, TRUE)
  BY <1>1 DEF Facing, Inside
<1>4. CASE On({"comma"}, <<"extra">>)
  <2>. DEFINE d == Cons("extra", c)
              a == Cons("extra", r)
  <2>1. <<"extra">> \o c = d
    BY <1>2, OnePart
  <2>2. p.current = "comma" /\ Take(d)
    BY <1>2, <1>4, <2>1 DEF On, Otherwise
  <2>3. Held(d, "extra", a, m, TRUE)
    BY <1>3, PushExtra, Zenon
  <2>4. Outcome(s, p.current, p.repl_mode) = a
    BY <1>2, <2>2, OutcomeMoreValues
  <2>5. Room(m, n)
    BY <1>2, <2>2, OpenerFacts DEF Room
  <2>. HIDE DEF d, a
  <2>. QED  BY <1>1, <2>2, <2>3, <2>4, <2>5, TakenTo
<1>5. CASE Otherwise({"comma"}, <<>>)
  <2>. DEFINE d == c
              a == r
  <2>1. <<>> \o c = d
    BY <1>2, Spread
  <2>2. p.current # "comma" /\ Turn(d)
    BY <1>2, <1>5, <2>1 DEF On, Otherwise
  <2>3. Held(d, y, a, m, TRUE)
    BY <1>3, Zenon
  <2>4. Outcome(s, p.current, p.repl_mode) = Outcome(a, p.current, p.repl_mode)
    BY <1>2, <2>2, OutcomeMoreValues
  <2>5. m <= n
    BY <1>2
  <2>. HIDE DEF d, a
  <2>. QED  BY <1>1, <2>2, <2>3, <2>4, <2>5, TurnedTo
<1>. QED  BY <1>4, <1>5 DEF parseWhen, Doing

LEMMA StepItems ==
  ASSUME Inv, parseItems, Doing("items")
  PROVE  Inv'
<1>1. PICK c, y, s, r, n, m, u : Facing("items", c, y, s, r, n, m, u)
  BY Faced
<1>2. /\ s = Cons("items", r)
      /\ c = Rest /\ c \in Seq(Word) /\ r \in Seq(Word) /\ n = m /\ m \in Nat /\ n \in Nat
  <2>1. Weigh("items") = 0
    BY DEF Weigh, Closing, Branching
  <2>2. Owed("items") \o r = Cons("items", r)
    BY <1>1, OwedForms DEF Facing
  <2>. QED  BY <1>1, <2>1, <2>2 DEF Facing
<1>3. Held(c, y, r, m, u) /\ y \in {")", "]"}
  BY <1>1 DEF Facing, Follows
<1>4. calls[2] = y
  <2>. DEFINE x == "items"
  <2>1. x \in Word /\ c \in Seq(Word) /\ c # <<>> /\ Head(c) = y /\ calls = Cons(x, c)
    BY <1>1, <1>2, <1>3, Words DEF Facing, Held, Top
  <2>. HIDE DEF x
  <2>2. Cons(x, c)[2] = Head(c)
    BY ONLY <2>1, Second
  <2>. QED  BY ONLY <2>1, <2>2
<1>5. CASE p.current \in {calls[2], "eof"} /\ Turn(Rest)
  <2>. DEFINE d == c
              a == r
  <2>1. p.current \in {y, "eof"} /\ Turn(d)
    BY <1>2, <1>5, <1>4
  <2>2. Held(d, y, a, m, u)
    BY <1>3
  <2>3. Outcome(s, p.current, p.repl_mode) = Outcome(a, p.current, p.repl_mode)
    BY <1>2, <2>1, <1>3, OutcomeItems, TokenFacts
  <2>4. m <= n
    BY <1>2
  <2>. HIDE DEF d, a
  <2>. QED  BY <1>1, <2>1, <2>2, <2>3, <2>4, TurnedTo
<1>6. CASE p.current \notin {calls[2], "eof"} /\ Turn(<<"parseExpr", "moreItems">> \o Rest)
  <2>. DEFINE d == Cons("parseExpr", Cons("moreItems", c))
              a == Cons("expr", Cons("moreItems", r))
  <2>1. <<"parseExpr", "moreItems">> \o c = d
    BY <1>2, TwoParts
  <2>2. p.current \notin {y, "eof"} /\ Turn(d)
    BY <1>2, <1>6, <2>1, <1>4
  <2>3. Held(Cons("moreItems", c), "moreItems", Cons("moreItems", r), m, u)
    BY <1>3, PushMoreItems
  <2>4. Held(d, "parseExpr", a, m, u)
    BY <2>3, PushParseExpr
  <2>5. Outcome(s, p.current, p.repl_mode) = Outcome(a, p.current, p.repl_mode)
    <3>1. CASE p.current \in Primaries
      BY <1>2, <3>1, OutcomeItems
    <3>2. CASE p.current \notin Primaries
      <4>. DEFINE z == Cons("moreItems", r)
      <4>1. z \in Seq(Word)
        BY <1>2, Conses, Words
      <4>. HIDE DEF z
      <4>2. Outcome(Cons("expr", z), p.current, p.repl_mode) = Astray
        BY <3>2, <4>1, OutcomeExpr
      <4>3. Outcome(s, p.current, p.repl_mode) = Outcome(r, p.current, p.repl_mode)
        BY <1>2, <3>2, OutcomeItems
      <4>4. Outcome(r, p.current, p.repl_mode) = Astray
        BY <1>3, <2>2, ClosingDue
      <4>. QED  BY <4>2, <4>3, <4>4 DEF z
    <3>. QED  BY <3>1, <3>2
  <2>6. m <= n
    BY <1>2
  <2>. HIDE DEF d, a
  <2>. QED  BY <1>1, <2>2, <2>4, <2>5, <2>6, TurnedTo
<1>. QED  BY <1>5, <1>6, <1>4 DEF parseItems, Doing

LEMMA StepElseStmt ==
  ASSUME Inv, parseIfStmt, Doing("elseStmt")
  PROVE  Inv'
<1>1. PICK c, y, s, r, n, m, u : Facing("elseStmt", c, y, s, r, n, m, u)
  BY Faced
<1>2. /\ s = Cons("orOne", r)
      /\ c = Rest /\ c \in Seq(Word) /\ r \in Seq(Word) /\ n = m /\ m \in Nat /\ n \in Nat
  <2>1. Weigh("elseStmt") = 0
    BY DEF Weigh, Closing, Branching
  <2>2. Owed("elseStmt") \o r = Cons("orOne", r)
    BY <1>1, OwedForms DEF Facing
  <2>. QED  BY <1>1, <2>1, <2>2 DEF Facing
<1>3. Held(c, y, r, m, TRUE) /\ y \in {"end"}
  BY <1>1 DEF Facing, Inside, Follows
<1>4. CASE On({"else"}, <<"parseStmt">>)
  <2>. DEFINE d == Cons("parseStmt", c)
              a == Cons("one", r)
  <2>1. <<"parseStmt">> \o c = d
    BY <1>2, SinglePart
  <2>2. p.current = "else" /\ Take(d)
    BY <1>2, <1>4, <2>1 DEF On, Otherwise
  <2>3. Owing(d, a, m, TRUE) /\ Top(d, "parseStmt")
    BY <1>3, PushParseStmt, Zenon
  <2>4. Outcome(s, p.current, p.repl_mode) = a
    BY <1>2, <2>2, OutcomeOrOne
  <2>5. Room(m, n)
    BY <1>2, <2>2, OpenerFacts DEF Room
  <2>6. Ready(d)
    BY <1>3, StmtReady, Zenon
  <2>. HIDE DEF d, a
  <2>. QED  BY <1>1, <2>2, <2>3, <2>4, <2>5, <2>6, TakenOn
<1>5. CASE Otherwise({"else"}, <<>>)
  <2>. DEFINE d == c
              a == r
  <2>1. <<>> \o c = d
    BY <1>2, Spread
  <2>2. p.current # "else" /\ Turn(d)
    BY <1>2, <1>5, <2>1 DEF On, Otherwise
  <2>3. Held(d, y, a, m, TRUE)
    BY <1>3, Zenon
  <2>4. Outcome(s, p.current, p.repl_mode) = Outcome(a, p.current, p.repl_mode)
    BY <1>2, <2>2, OutcomeOrOne
  <2>5. m <= n
    BY <1>2
  <2>. HIDE DEF d, a
  <2>. QED  BY <1>1, <2>2, <2>3, <2>4, <2>5, TurnedTo
<1>. QED  BY <1>4, <1>5 DEF parseIfStmt, Doing

LEMMA StepBranches ==
  ASSUME Inv, parseIfStmt, Doing("branches")
  PROVE  Inv'
<1>1. PICK c, y, s, r, n, m, u : Facing("branches", c, y, s, r, n, m, u)
  BY Faced
<1>2. /\ s = Cons("branches", r)
      /\ c = Rest /\ c \in Seq(Word) /\ r \in Seq(Word) /\ n = m + 1 /\ m \in Nat /\ n \in Nat
  <2>1. Weigh("branches") = 1
    BY DEF Weigh, Closing, Branching
  <2>2. Owed("branches") \o r = Cons("branches", r)
    BY <1>1, OwedForms DEF Facing
  <2>. QED  BY <1>1, <2>1, <2>2 DEF Facing
<1>3. Held(c, y, r, m, TRUE)
  BY <1>1 DEF Facing, Inside
<1>4. CASE On({"then"}, <<"parseStmt", "elseStmt", "end", "expectNewline">>)
  <2>. DEFINE d == Cons("parseStmt", Cons("elseStmt", Cons("end", Cons("expectNewline", c))))
              a == Cons("one", Cons("orOne", Cons("end", Cons("line", r))))
  <2>1. <<"parseStmt", "elseStmt", "end", "expectNewline">> \o c = d
    BY <1>2, ManyParts
  <2>2. p.current = "then" /\ Take(d)
    BY <1>2, <1>4, <2>1 DEF On, Otherwise
  <2>3. Held(Cons("expectNewline", c), "expectNewline", Cons("line", r), m, TRUE)
    BY <1>3, PushExpectNewline, Zenon
  <2>4. Held(Cons("end", Cons("expectNewline", c)), "end",
             Cons("end", Cons("line", r)), m + 1, TRUE)
    BY <2>3, PushEnd
  <2>5. Held(Cons("elseStmt", Cons("end", Cons("expectNewline", c))), "elseStmt",
             Cons("orOne", Cons("end", Cons("line", r))), m + 1, TRUE)
    BY <2>4, PushElseStmt
  <2>6. Owing(d, a, m + 1, TRUE) /\ Top(d, "parseStmt")
    BY <2>5, PushParseStmt
  <2>7. Outcome(s, p.current, p.repl_mode) = a
    BY <1>2, <2>2, OutcomeBranches
  <2>8. Room(m + 1, n)
    BY <1>2, <2>2, OpenerFacts DEF Room
  <2>9. Ready(d)
    BY <2>5, StmtReady
  <2>. HIDE DEF d, a
  <2>. QED  BY <1>1, <2>2, <2>6, <2>7, <2>8, <2>9, TakenOn
<1>5. CASE Otherwise({"then"}, <<"expectNewline", "parseBlock", "elseBlock", "end",
        "expectNewline">>)
  <2>. DEFINE d == Cons("expectNewline",
         Cons("parseBlock", Cons("elseBlock", Cons("end", Cons("expectNewline", c)))))
              a == Cons("line", Cons("statements", Cons("otherwise", Cons("end", Cons("line", r)))))
  <2>1. <<"expectNewline", "parseBlock", "elseBlock", "end", "expectNewline">> \o c = d
    BY <1>2, ManyParts
  <2>2. p.current # "then" /\ Turn(d)
    BY <1>2, <1>5, <2>1 DEF On, Otherwise
  <2>3. Held(Cons("expectNewline", c), "expectNewline", Cons("line", r), m, TRUE)
    BY <1>3, PushExpectNewline, Zenon
  <2>4. Held(Cons("end", Cons("expectNewline", c)), "end",
             Cons("end", Cons("line", r)), m + 1, TRUE)
    BY <2>3, PushEnd
  <2>5. Held(Cons("elseBlock", Cons("end", Cons("expectNewline", c))), "elseBlock",
             Cons("otherwise", Cons("end", Cons("line", r))), m + 1, TRUE)
    BY <2>4, PushElseBlock
  <2>6. Held(Cons("parseBlock", Cons("elseBlock", Cons("end", Cons("expectNewline", c)))),
          "parseBlock",
             Cons("statements", Cons("otherwise", Cons("end", Cons("line", r)))), m + 1, TRUE)
    BY <2>5, PushParseBlock
  <2>7. Held(d, "expectNewline", a, m + 1, TRUE)
    BY <2>6, PushExpectNewline
  <2>8. Outcome(s, p.current, p.repl_mode) = Outcome(a, p.current, p.repl_mode)
    <3>. DEFINE z == Cons("line", r)
                e == Cons("end", z)
                f == Cons("otherwise", e)
                g == Cons("statements", f)
    <3>1. z \in Seq(Word) /\ e \in Seq(Word) /\ f \in Seq(Word) /\ g \in Seq(Word)
      <4>1. z \in Seq(Word)
        BY <1>2, Conses, Words
      <4>2. e \in Seq(Word)
        BY <4>1, Conses, Words
      <4>3. f \in Seq(Word)
        BY <4>2, Conses, Words
      <4>4. g \in Seq(Word)
        BY <4>3, Conses, Words
      <4>. QED  BY <4>1, <4>2, <4>3, <4>4
    <3>2. p.repl_mode \in BOOLEAN
      BY Modes
    <3>3. /\ p.current = "newline" => Outcome(s, p.current, p.repl_mode) = g
          /\ p.current = "else" =>
               Outcome(s, p.current, p.repl_mode) = Cons("line", Cons("statements", e))
          /\ p.current = "end" => Outcome(s, p.current, p.repl_mode) = z
          /\ p.current \notin {"newline", "else", "end"} =>
               Outcome(s, p.current, p.repl_mode) = Astray
      BY <1>2, <2>2, OutcomeBranches
    <3>. HIDE DEF z, e, f, g
    <3>4. /\ p.current = "newline" => Outcome(Cons("line", g), p.current, p.repl_mode) = g
          /\ p.current \in {"end", "else", "eof"} =>
               Outcome(Cons("line", g), p.current, p.repl_mode) =
                 Outcome(g, p.current, p.repl_mode)
          /\ p.current \notin {"newline", "end", "else", "eof"} =>
               Outcome(Cons("line", g), p.current, p.repl_mode) = Astray
      BY <3>1, OutcomeLineEnd
    <3>5. p.current \in {"end", "else", "eof"} =>
            Outcome(g, p.current, p.repl_mode) = Outcome(f, p.current, p.repl_mode)
      <4>1. p.current \in {"end", "else", "eof"} =>
              p.current \notin StartsStatement(p.repl_mode) \cup {"newline"}
        BY <3>2, StarterFacts
      <4>. QED  BY <3>1, <3>2, <4>1, OutcomeStatements DEF g
    <3>6. /\ p.current = "else" =>
               Outcome(f, p.current, p.repl_mode) = Cons("line", Cons("statements", e))
          /\ p.current # "else" =>
               Outcome(f, p.current, p.repl_mode) = Outcome(e, p.current, p.repl_mode)
      BY <3>1, OutcomeOtherwise DEF f
    <3>7. Outcome(e, p.current, p.repl_mode) = IF p.current = "end" THEN z ELSE Astray
      <4>1. "end" \in Tokens \ {"ident"}
        BY DEF Tokens
      <4>. QED  BY <3>1, <4>1, OutcomeToken DEF e
    <3>8. Outcome(s, p.current, p.repl_mode) = Outcome(Cons("line", g), p.current, p.repl_mode)
      BY <3>3, <3>4, <3>5, <3>6, <3>7
    <3>. QED  BY <3>8 DEF g, f, e, z
  <2>9. m + 1 <= n
    BY <1>2
  <2>. HIDE DEF d, a
  <2>. QED  BY <1>1, <2>2, <2>7, <2>8, <2>9, TurnedTo
<1>. QED  BY <1>4, <1>5 DEF parseIfStmt, Doing

LEMMA StepRange ==
  ASSUME Inv, parseForStmt, Doing("range")
  PROVE  Inv'
<1>1. PICK c, y, s, r, n, m, u : Facing("range", c, y, s, r, n, m, u)
  BY Faced
<1>2. /\ s = Cons("range", r)
      /\ c = Rest /\ c \in Seq(Word) /\ r \in Seq(Word) /\ n = m + 1 /\ m \in Nat /\ n \in Nat
  <2>1. Weigh("range") = 1
    BY DEF Weigh, Closing, Branching
  <2>2. Owed("range") \o r = Cons("range", r)
    BY <1>1, OwedForms DEF Facing
  <2>. QED  BY <1>1, <2>1, <2>2 DEF Facing
<1>3. Held(c, y, r, m, TRUE)
  BY <1>1 DEF Facing, Inside
<1>4. CASE On({"="}, <<"parseExpr", "bound">>)
  <2>. DEFINE d == Cons("parseExpr", Cons("bound", c))
              a == Cons("expr", Cons("to",
                  Cons("expr", Cons("increment",
                      Cons("line", Cons("statements", Cons("end", Cons("line", r))))))))
  <2>1. <<"parseExpr", "bound">> \o c = d
    BY <1>2, TwoParts
  <2>2. p.current = "=" /\ Take(d)
    BY <1>2, <1>4, <2>1 DEF On, Otherwise
  <2>3. Held(Cons("bound", c), "bound",
             Cons("to", Cons("expr", Cons("increment",
                 Cons("line", Cons("statements", Cons("end", Cons("line", r))))))), m + 1, FALSE)
    BY <1>3, PushBound
  <2>4. Held(d, "parseExpr", a, m + 1, FALSE)
    BY <2>3, PushParseExpr
  <2>5. Outcome(s, p.current, p.repl_mode) = a
    BY <1>2, <2>2, OutcomeRange
  <2>6. Room(m + 1, n)
    BY <1>2, <2>2, OpenerFacts DEF Room
  <2>. HIDE DEF d, a
  <2>. QED  BY <1>1, <2>2, <2>4, <2>5, <2>6, TakenTo
<1>5. CASE On({"in"}, <<"parseExpr">> \o Block)
  <2>. DEFINE d == Cons("parseExpr", Cons("expectNewline",
         Cons("parseBlock", Cons("end", Cons("expectNewline", c)))))
              a == Cons("expr", Cons("line", Cons("statements", Cons("end", Cons("line", r)))))
  <2>1. (<<"parseExpr">> \o Block) \o c = d
    BY <1>2, LongParts
  <2>2. p.current = "in" /\ Take(d)
    BY <1>2, <1>5, <2>1 DEF On, Otherwise
  <2>3. Held(Cons("expectNewline", c), "expectNewline", Cons("line", r), m, TRUE)
    BY <1>3, PushExpectNewline, Zenon
  <2>4. Held(Cons("end", Cons("expectNewline", c)), "end",
             Cons("end", Cons("line", r)), m + 1, TRUE)
    BY <2>3, PushEnd
  <2>5. Held(Cons("parseBlock", Cons("end", Cons("expectNewline", c))), "parseBlock",
             Cons("statements", Cons("end", Cons("line", r))), m + 1, TRUE)
    BY <2>4, PushParseBlock
  <2>6. Held(Cons("expectNewline", Cons("parseBlock", Cons("end", Cons("expectNewline", c)))),
          "expectNewline",
             Cons("line", Cons("statements", Cons("end", Cons("line", r)))), m + 1, TRUE)
    BY <2>5, PushExpectNewline
  <2>7. Held(d, "parseExpr", a, m + 1, TRUE)
    BY <2>6, PushParseExpr
  <2>8. Outcome(s, p.current, p.repl_mode) = a
    BY <1>2, <2>2, OutcomeRange
  <2>9. Room(m + 1, n)
    BY <1>2, <2>2, OpenerFacts DEF Room
  <2>. HIDE DEF d, a
  <2>. QED  BY <1>1, <2>2, <2>7, <2>8, <2>9, TakenTo
<1>6. CASE p.current \notin {"=", "in"} /\ Complain(Rest)
  <2>. DEFINE d == c
              a == r
  <2>1. p.current \notin {"=", "in"} /\ Complain(d)
    BY <1>2, <1>6
  <2>2. Held(d, y, a, m, TRUE)
    BY <1>3, Zenon
  <2>3. Outcome(s, p.current, p.repl_mode) = Astray
    BY <1>2, <2>1, OutcomeRange
  <2>4. m <= n
    BY <1>2
  <2>. HIDE DEF d, a
  <2>. QED  BY <1>1, <2>1, <2>2, <2>3, <2>4, ComplainedTo
<1>. QED  BY <1>4, <1>5, <1>6 DEF parseForStmt, Doing

LEMMA StepBound ==
  ASSUME Inv, parseForStmt, Doing("bound")
  PROVE  Inv'
<1>1. PICK c, y, s, r, n, m, u : Facing("bound", c, y, s, r, n, m, u)
  BY Faced
<1>2. /\ s = Cons("to", Cons("expr", Cons("increment",
         Cons("line", Cons("statements", Cons("end", Cons("line", r)))))))
      /\ c = Rest /\ c \in Seq(Word) /\ r \in Seq(Word) /\ n = m + 1 /\ m \in Nat /\ n \in Nat
  <2>1. Weigh("bound") = 1
    BY DEF Weigh, Closing, Branching
  <2>2. Owed("bound") \o r = Cons("to",
          Cons("expr", Cons("increment",
              Cons("line", Cons("statements", Cons("end", Cons("line", r)))))))
    BY <1>1, OwedForms DEF Facing
  <2>. QED  BY <1>1, <2>1, <2>2 DEF Facing
<1>3. Held(c, y, r, m, TRUE)
  BY <1>1 DEF Facing, Inside
<1>4. CASE On({"to"}, <<"parseExpr", "increment">>)
  <2>. DEFINE d == Cons("parseExpr", Cons("increment", c))
              a == Cons("expr", Cons("increment",
                  Cons("line", Cons("statements", Cons("end", Cons("line", r))))))
  <2>1. <<"parseExpr", "increment">> \o c = d
    BY <1>2, TwoParts
  <2>2. p.current = "to" /\ Take(d)
    BY <1>2, <1>4, <2>1 DEF On, Otherwise
  <2>3. Held(Cons("increment", c), "increment",
             Cons("increment", Cons("line", Cons("statements", Cons("end", Cons("line", r))))),
                 m + 1, FALSE)
    BY <1>3, PushIncrement
  <2>4. Held(d, "parseExpr", a, m + 1, FALSE)
    BY <2>3, PushParseExpr
  <2>5. Outcome(s, p.current, p.repl_mode) = a
    <3>. DEFINE z == Cons("expr", Cons("increment",
           Cons("line", Cons("statements", Cons("end", Cons("line", r))))))
    <3>1. z \in Seq(Word)
      BY <1>2, Conses, Words
    <3>2. s = Cons("to", z)
      BY <1>2
    <3>3. "to" \in Tokens \ {"ident"}
      BY TokenFacts DEF Tokens
    <3>. HIDE DEF z
    <3>4. Outcome(s, p.current, p.repl_mode) = IF p.current = "to" THEN z ELSE Astray
      BY <3>1, <3>2, <3>3, OutcomeToken
    <3>. QED  BY <3>4, <2>2 DEF z
  <2>6. Room(m + 1, n)
    BY <1>2, <2>2, OpenerFacts DEF Room
  <2>. HIDE DEF d, a
  <2>. QED  BY <1>1, <2>2, <2>4, <2>5, <2>6, TakenTo
<1>5. CASE p.current \notin {"to"} /\ Complain(Rest)
  <2>. DEFINE d == c
              a == r
  <2>1. p.current # "to" /\ Complain(d)
    BY <1>2, <1>5
  <2>2. Held(d, y, a, m, TRUE)
    BY <1>3, Zenon
  <2>3. Outcome(s, p.current, p.repl_mode) = Astray
    <3>. DEFINE z == Cons("expr", Cons("increment",
           Cons("line", Cons("statements", Cons("end", Cons("line", r))))))
    <3>1. z \in Seq(Word)
      BY <1>2, Conses, Words
    <3>2. s = Cons("to", z)
      BY <1>2
    <3>3. "to" \in Tokens \ {"ident"}
      BY TokenFacts DEF Tokens
    <3>. HIDE DEF z
    <3>4. Outcome(s, p.current, p.repl_mode) = IF p.current = "to" THEN z ELSE Astray
      BY <3>1, <3>2, <3>3, OutcomeToken
    <3>. QED  BY <3>4, <2>1 DEF z
  <2>4. m <= n
    BY <1>2
  <2>. HIDE DEF d, a
  <2>. QED  BY <1>1, <2>1, <2>2, <2>3, <2>4, ComplainedTo
<1>. QED  BY <1>4, <1>5 DEF parseForStmt, Doing, Due

LEMMA StepIncrement ==
  ASSUME Inv, parseForStmt, Doing("increment")
  PROVE  Inv'
<1>1. PICK c, y, s, r, n, m, u : Facing("increment", c, y, s, r, n, m, u)
  BY Faced
<1>2. /\ s = Cons("increment", Cons("line", Cons("statements", Cons("end", Cons("line", r)))))
      /\ c = Rest /\ c \in Seq(Word) /\ r \in Seq(Word) /\ n = m + 1 /\ m \in Nat /\ n \in Nat
  <2>1. Weigh("increment") = 1
    BY DEF Weigh, Closing, Branching
  <2>2. Owed("increment") \o r = Cons("increment",
          Cons("line", Cons("statements", Cons("end", Cons("line", r)))))
    BY <1>1, OwedForms DEF Facing
  <2>. QED  BY <1>1, <2>1, <2>2 DEF Facing
<1>3. Held(c, y, r, m, TRUE)
  BY <1>1 DEF Facing, Inside
<1>4. CASE On({"step"}, <<"parseExpr">> \o Block)
  <2>. DEFINE d == Cons("parseExpr", Cons("expectNewline",
         Cons("parseBlock", Cons("end", Cons("expectNewline", c)))))
              a == Cons("expr", Cons("line", Cons("statements", Cons("end", Cons("line", r)))))
  <2>1. (<<"parseExpr">> \o Block) \o c = d
    BY <1>2, LongParts
  <2>2. p.current = "step" /\ Take(d)
    BY <1>2, <1>4, <2>1 DEF On, Otherwise
  <2>3. Held(Cons("expectNewline", c), "expectNewline", Cons("line", r), m, TRUE)
    BY <1>3, PushExpectNewline, Zenon
  <2>4. Held(Cons("end", Cons("expectNewline", c)), "end",
             Cons("end", Cons("line", r)), m + 1, TRUE)
    BY <2>3, PushEnd
  <2>5. Held(Cons("parseBlock", Cons("end", Cons("expectNewline", c))), "parseBlock",
             Cons("statements", Cons("end", Cons("line", r))), m + 1, TRUE)
    BY <2>4, PushParseBlock
  <2>6. Held(Cons("expectNewline", Cons("parseBlock", Cons("end", Cons("expectNewline", c)))),
          "expectNewline",
             Cons("line", Cons("statements", Cons("end", Cons("line", r)))), m + 1, TRUE)
    BY <2>5, PushExpectNewline
  <2>7. Held(d, "parseExpr", a, m + 1, TRUE)
    BY <2>6, PushParseExpr
  <2>8. Outcome(s, p.current, p.repl_mode) = a
    <3>. DEFINE z == Cons("line", Cons("statements", Cons("end", Cons("line", r))))
    <3>1. z \in Seq(Word)
      BY <1>2, Conses, Words
    <3>2. s = Cons("increment", z)
      BY <1>2
    <3>. HIDE DEF z
    <3>3. Outcome(s, p.current, p.repl_mode) = Cons("expr", z)
      BY <3>1, <3>2, <2>2, OutcomeIncrement
    <3>. QED  BY <3>3 DEF z
  <2>9. Room(m + 1, n)
    BY <1>2, <2>2, OpenerFacts DEF Room
  <2>. HIDE DEF d, a
  <2>. QED  BY <1>1, <2>2, <2>7, <2>8, <2>9, TakenTo
<1>5. CASE Otherwise({"step"}, Block)
  <2>. DEFINE d == Cons("expectNewline", Cons("parseBlock", Cons("end", Cons("expectNewline", c))))
              a == Cons("line", Cons("statements", Cons("end", Cons("line", r))))
  <2>1. Block \o c = d
    BY <1>2, ManyParts
  <2>2. p.current # "step" /\ Turn(d)
    BY <1>2, <1>5, <2>1 DEF On, Otherwise
  <2>3. Held(Cons("expectNewline", c), "expectNewline", Cons("line", r), m, TRUE)
    BY <1>3, PushExpectNewline, Zenon
  <2>4. Held(Cons("end", Cons("expectNewline", c)), "end",
             Cons("end", Cons("line", r)), m + 1, TRUE)
    BY <2>3, PushEnd
  <2>5. Held(Cons("parseBlock", Cons("end", Cons("expectNewline", c))), "parseBlock",
             Cons("statements", Cons("end", Cons("line", r))), m + 1, TRUE)
    BY <2>4, PushParseBlock
  <2>6. Held(d, "expectNewline", a, m + 1, TRUE)
    BY <2>5, PushExpectNewline
  <2>7. Outcome(s, p.current, p.repl_mode) = Outcome(a, p.current, p.repl_mode)
    <3>. DEFINE z == Cons("line", Cons("statements", Cons("end", Cons("line", r))))
    <3>1. z \in Seq(Word)
      BY <1>2, Conses, Words
    <3>2. s = Cons("increment", z)
      BY <1>2
    <3>. HIDE DEF z
    <3>3. Outcome(s, p.current, p.repl_mode) = Outcome(z, p.current, p.repl_mode)
      BY <3>1, <3>2, <2>2, OutcomeIncrement
    <3>. QED  BY <3>3 DEF z
  <2>8. m + 1 <= n
    BY <1>2
  <2>. HIDE DEF d, a
  <2>. QED  BY <1>1, <2>2, <2>6, <2>7, <2>8, TurnedTo
<1>. QED  BY <1>4, <1>5 DEF parseForStmt, Doing

LEMMA StepParams ==
  ASSUME Inv, parseFunctionDecl, Doing("params")
  PROVE  Inv'
<1>1. PICK c, y, s, r, n, m, u : Facing("params", c, y, s, r, n, m, u)
  BY Faced
<1>2. /\ s = Cons("params", r)
      /\ c = Rest /\ c \in Seq(Word) /\ r \in Seq(Word) /\ n = m /\ m \in Nat /\ n \in Nat
  <2>1. Weigh("params") = 0
    BY DEF Weigh, Closing, Branching
  <2>2. Owed("params") \o r = Cons("params", r)
    BY <1>1, OwedForms DEF Facing
  <2>. QED  BY <1>1, <2>1, <2>2 DEF Facing
<1>3. Held(c, y, r, m, TRUE) /\ y \in {")"}
  BY <1>1 DEF Facing, Inside, Follows
<1>4. CASE p.current \in {")", "eof"} /\ Turn(Rest)
  <2>. DEFINE d == c
              a == r
  <2>1. p.current \in {")", "eof"} /\ Turn(d)
    BY <1>2, <1>4
  <2>2. Held(d, y, a, m, TRUE)
    BY <1>3, Zenon
  <2>3. Outcome(s, p.current, p.repl_mode) = Outcome(a, p.current, p.repl_mode)
    BY <1>2, <2>1, OutcomeParams, TokenFacts
  <2>4. m <= n
    BY <1>2
  <2>. HIDE DEF d, a
  <2>. QED  BY <1>1, <2>1, <2>2, <2>3, <2>4, TurnedTo
<1>5. CASE p.current \notin {")", "eof"} /\ Turn(<<"ident", "default">> \o Rest)
  <2>. DEFINE d == Cons("ident", Cons("default", c))
              a == Cons("ident", Cons("default", r))
  <2>1. <<"ident", "default">> \o c = d
    BY <1>2, TwoParts
  <2>2. p.current \notin {")", "eof"} /\ Turn(d)
    BY <1>2, <1>5, <2>1
  <2>3. Held(Cons("default", c), "default", Cons("default", r), m, TRUE)
    BY <1>3, PushDefault, Zenon
  <2>4. Held(d, "ident", a, m, TRUE)
    BY <2>3, PushIdent, Zenon
  <2>5. Outcome(s, p.current, p.repl_mode) = Outcome(a, p.current, p.repl_mode)
    <3>. DEFINE z == Cons("default", r)
    <3>1. z \in Seq(Word)
      BY <1>2, Conses, Words
    <3>2. p.current \in Names => Outcome(s, p.current, p.repl_mode) = z
      BY <1>2, OutcomeParams
    <3>3. p.current \notin Names => Outcome(s, p.current, p.repl_mode) = Astray
      <4>1. Outcome(r, p.current, p.repl_mode) = Astray
        BY <1>3, <2>2, ClosingDue
      <4>. QED  BY <1>2, <4>1, OutcomeParams
    <3>. HIDE DEF z
    <3>4. Outcome(Cons("ident", z), p.current, p.repl_mode) =
            IF p.current \in Names THEN z ELSE Astray
      BY <3>1, OutcomeIdent
    <3>. QED  BY <3>2, <3>3, <3>4 DEF z
  <2>6. m <= n
    BY <1>2
  <2>. HIDE DEF d, a
  <2>. QED  BY <1>1, <2>2, <2>4, <2>5, <2>6, TurnedTo
<1>. QED  BY <1>4, <1>5 DEF parseFunctionDecl, Doing

LEMMA StepDefaults ==
  ASSUME Inv, parseFunctionDecl, Doing("defaults")
  PROVE  Inv'
<1>1. PICK c, y, s, r, n, m, u : Facing("defaults", c, y, s, r, n, m, u)
  BY Faced
<1>2. /\ s = Cons("defaults", r)
      /\ c = Rest /\ c \in Seq(Word) /\ r \in Seq(Word) /\ n = m /\ m \in Nat /\ n \in Nat
  <2>1. Weigh("defaults") = 0
    BY DEF Weigh, Closing, Branching
  <2>2. Owed("defaults") \o r = Cons("defaults", r)
    BY <1>1, OwedForms DEF Facing
  <2>. QED  BY <1>1, <2>1, <2>2 DEF Facing
<1>3. Held(c, y, r, m, TRUE) /\ y \in {")"}
  BY <1>1 DEF Facing, Inside, Follows
<1>4. CASE p.current \in {")", "eof"} /\ Turn(Rest)
  <2>. DEFINE d == c
              a == r
  <2>1. p.current \in {")", "eof"} /\ Turn(d)
    BY <1>2, <1>4
  <2>2. Held(d, y, a, m, TRUE)
    BY <1>3, Zenon
  <2>3. Outcome(s, p.current, p.repl_mode) = Outcome(a, p.current, p.repl_mode)
    BY <1>2, <2>1, OutcomeDefaults, TokenFacts
  <2>4. m <= n
    BY <1>2
  <2>. HIDE DEF d, a
  <2>. QED  BY <1>1, <2>1, <2>2, <2>3, <2>4, TurnedTo
<1>5. CASE p.current \notin {")", "eof"} /\ Turn(<<"ident", "dueDefault">> \o Rest)
  <2>. DEFINE d == Cons("ident", Cons("dueDefault", c))
              a == Cons("ident", Cons("=", Cons("expr", Cons("moreDefaults", r))))
  <2>1. <<"ident", "dueDefault">> \o c = d
    BY <1>2, TwoParts
  <2>2. p.current \notin {")", "eof"} /\ Turn(d)
    BY <1>2, <1>5, <2>1
  <2>3. Held(Cons("dueDefault", c), "dueDefault",
             Cons("=", Cons("expr", Cons("moreDefaults", r))), m, TRUE)
    BY <1>3, PushDueDefault, Zenon
  <2>4. Held(d, "ident", a, m, TRUE)
    BY <2>3, PushIdent, Zenon
  <2>5. Outcome(s, p.current, p.repl_mode) = Outcome(a, p.current, p.repl_mode)
    <3>. DEFINE z == Cons("=", Cons("expr", Cons("moreDefaults", r)))
    <3>1. z \in Seq(Word)
      BY <1>2, Conses, Words
    <3>2. p.current \in Names => Outcome(s, p.current, p.repl_mode) = z
      BY <1>2, OutcomeDefaults
    <3>3. p.current \notin Names => Outcome(s, p.current, p.repl_mode) = Astray
      <4>1. Outcome(r, p.current, p.repl_mode) = Astray
        BY <1>3, <2>2, ClosingDue
      <4>. QED  BY <1>2, <4>1, OutcomeDefaults
    <3>. HIDE DEF z
    <3>4. Outcome(Cons("ident", z), p.current, p.repl_mode) =
            IF p.current \in Names THEN z ELSE Astray
      BY <3>1, OutcomeIdent
    <3>. QED  BY <3>2, <3>3, <3>4 DEF z
  <2>6. m <= n
    BY <1>2
  <2>. HIDE DEF d, a
  <2>. QED  BY <1>1, <2>2, <2>4, <2>5, <2>6, TurnedTo
<1>. QED  BY <1>4, <1>5 DEF parseFunctionDecl, Doing

LEMMA StepDefault ==
  ASSUME Inv, parseFunctionDecl, Doing("default")
  PROVE  Inv'
<1>1. PICK c, y, s, r, n, m, u : Facing("default", c, y, s, r, n, m, u)
  BY Faced
<1>2. /\ s = Cons("default", r)
      /\ c = Rest /\ c \in Seq(Word) /\ r \in Seq(Word) /\ n = m /\ m \in Nat /\ n \in Nat
  <2>1. Weigh("default") = 0
    BY DEF Weigh, Closing, Branching
  <2>2. Owed("default") \o r = Cons("default", r)
    BY <1>1, OwedForms DEF Facing
  <2>. QED  BY <1>1, <2>1, <2>2 DEF Facing
<1>3. Held(c, y, r, m, TRUE) /\ y \in {")"}
  BY <1>1 DEF Facing, Inside, Follows
<1>4. CASE On({"="}, <<"parseExpr", "moreDefaults">>)
  <2>. DEFINE d == Cons("parseExpr", Cons("moreDefaults", c))
              a == Cons("expr", Cons("moreDefaults", r))
  <2>1. <<"parseExpr", "moreDefaults">> \o c = d
    BY <1>2, TwoParts
  <2>2. p.current = "=" /\ Take(d)
    BY <1>2, <1>4, <2>1 DEF On, Otherwise
  <2>3. Held(Cons("moreDefaults", c), "moreDefaults", Cons("moreDefaults", r), m, TRUE)
    BY <1>3, PushMoreDefaults, Zenon
  <2>4. Held(d, "parseExpr", a, m, TRUE)
    BY <2>3, PushParseExpr, Zenon
  <2>5. Outcome(s, p.current, p.repl_mode) = a
    BY <1>2, <2>2, OutcomeDefault
  <2>6. Room(m, n)
    BY <1>2, <2>2, OpenerFacts DEF Room
  <2>. HIDE DEF d, a
  <2>. QED  BY <1>1, <2>2, <2>4, <2>5, <2>6, TakenTo
<1>5. CASE Otherwise({"="}, <<"moreParams">>)
  <2>. DEFINE d == Cons("moreParams", c)
              a == Cons("default", r)
  <2>1. <<"moreParams">> \o c = d
    BY <1>2, SinglePart
  <2>2. p.current # "=" /\ Turn(d)
    BY <1>2, <1>5, <2>1 DEF On, Otherwise
  <2>3. Owing(d, a, m, TRUE) /\ Top(d, "moreParams")
    BY <1>3, PushMoreParams, Zenon
  <2>4. Outcome(s, p.current, p.repl_mode) = Outcome(a, p.current, p.repl_mode)
    BY <1>2, <2>2, OutcomeDefault
  <2>5. m <= n
    BY <1>2
  <2>6. Settled(p, d)
    BY <2>2, <2>3 DEF Settled
  <2>. HIDE DEF d, a
  <2>. QED  BY <1>1, <2>2, <2>3, <2>4, <2>5, <2>6, TurnedOn
<1>. QED  BY <1>4, <1>5 DEF parseFunctionDecl, Doing

LEMMA StepMoreParams ==
  ASSUME Inv, parseFunctionDecl, Doing("moreParams")
  PROVE  Inv'
<1>1. PICK c, y, s, r, n, m, u : Facing("moreParams", c, y, s, r, n, m, u)
  BY Faced
<1>2. /\ s = Cons("default", r)
      /\ c = Rest /\ c \in Seq(Word) /\ r \in Seq(Word) /\ n = m /\ m \in Nat /\ n \in Nat
  <2>1. Weigh("moreParams") = 0
    BY DEF Weigh, Closing, Branching
  <2>2. Owed("moreParams") \o r = Cons("default", r)
    BY <1>1, OwedForms DEF Facing
  <2>. QED  BY <1>1, <2>1, <2>2 DEF Facing
<1>3. Held(c, y, r, m, TRUE) /\ y \in {")"}
  BY <1>1 DEF Facing, Inside, Follows
<1>4. p.current # "="
  BY DEF Inv, Sound, Settled, Ready, Fleeting, Doing, Top
<1>5. CASE On({"comma"}, <<"params">>)
  <2>. DEFINE d == Cons("params", c)
              a == Cons("params", r)
  <2>1. <<"params">> \o c = d
    BY <1>2, OnePart
  <2>2. p.current = "comma" /\ Take(d)
    BY <1>2, <1>5, <2>1 DEF On, Otherwise
  <2>3. Held(d, "params", a, m, TRUE)
    BY <1>3, PushParams, Zenon
  <2>4. Outcome(s, p.current, p.repl_mode) = a
    BY <1>2, <2>2, OutcomeDefault
  <2>5. Room(m, n)
    BY <1>2, <2>2, OpenerFacts DEF Room
  <2>. HIDE DEF d, a
  <2>. QED  BY <1>1, <2>2, <2>3, <2>4, <2>5, TakenTo
<1>6. CASE Otherwise({"comma"}, <<>>)
  <2>. DEFINE d == c
              a == r
  <2>1. <<>> \o c = d
    BY <1>2, Spread
  <2>2. p.current # "comma" /\ Turn(d)
    BY <1>2, <1>6, <2>1 DEF On, Otherwise
  <2>3. Held(d, y, a, m, TRUE)
    BY <1>3, Zenon
  <2>4. Outcome(s, p.current, p.repl_mode) = Outcome(a, p.current, p.repl_mode)
    BY <1>2, <2>2, <1>4, OutcomeDefault
  <2>5. m <= n
    BY <1>2
  <2>. HIDE DEF d, a
  <2>. QED  BY <1>1, <2>2, <2>3, <2>4, <2>5, TurnedTo
<1>. QED  BY <1>5, <1>6 DEF parseFunctionDecl, Doing

LEMMA StepDueDefault ==
  ASSUME Inv, parseFunctionDecl, Doing("dueDefault")
  PROVE  Inv'
<1>1. PICK c, y, s, r, n, m, u : Facing("dueDefault", c, y, s, r, n, m, u)
  BY Faced
<1>2. /\ s = Cons("=", Cons("expr", Cons("moreDefaults", r)))
      /\ c = Rest /\ c \in Seq(Word) /\ r \in Seq(Word) /\ n = m /\ m \in Nat /\ n \in Nat
  <2>1. Weigh("dueDefault") = 0
    BY DEF Weigh, Closing, Branching
  <2>2. Owed("dueDefault") \o r = Cons("=", Cons("expr", Cons("moreDefaults", r)))
    BY <1>1, OwedForms DEF Facing
  <2>. QED  BY <1>1, <2>1, <2>2 DEF Facing
<1>3. Held(c, y, r, m, TRUE) /\ y \in {")"}
  BY <1>1 DEF Facing, Inside, Follows
<1>4. CASE On({"="}, <<"parseExpr", "moreDefaults">>)
  <2>. DEFINE d == Cons("parseExpr", Cons("moreDefaults", c))
              a == Cons("expr", Cons("moreDefaults", r))
  <2>1. <<"parseExpr", "moreDefaults">> \o c = d
    BY <1>2, TwoParts
  <2>2. p.current = "=" /\ Take(d)
    BY <1>2, <1>4, <2>1 DEF On, Otherwise
  <2>3. Held(Cons("moreDefaults", c), "moreDefaults", Cons("moreDefaults", r), m, TRUE)
    BY <1>3, PushMoreDefaults, Zenon
  <2>4. Held(d, "parseExpr", a, m, TRUE)
    BY <2>3, PushParseExpr, Zenon
  <2>5. Outcome(s, p.current, p.repl_mode) = a
    <3>. DEFINE z == Cons("expr", Cons("moreDefaults", r))
    <3>1. z \in Seq(Word)
      BY <1>2, Conses, Words
    <3>2. s = Cons("=", z)
      BY <1>2
    <3>3. "=" \in Tokens \ {"ident"}
      BY TokenFacts DEF Tokens
    <3>. HIDE DEF z
    <3>4. Outcome(s, p.current, p.repl_mode) = IF p.current = "=" THEN z ELSE Astray
      BY <3>1, <3>2, <3>3, OutcomeToken
    <3>. QED  BY <3>4, <2>2 DEF z
  <2>6. Room(m, n)
    BY <1>2, <2>2, OpenerFacts DEF Room
  <2>. HIDE DEF d, a
  <2>. QED  BY <1>1, <2>2, <2>4, <2>5, <2>6, TakenTo
<1>5. CASE p.current # "=" /\ Complain(<<"moreDefaults">> \o Rest)
  <2>. DEFINE d == Cons("moreDefaults", c)
              a == Cons("moreDefaults", r)
  <2>1. <<"moreDefaults">> \o c = d
    BY <1>2, OnePart
  <2>2. p.current # "=" /\ Complain(d)
    BY <1>2, <1>5, <2>1
  <2>3. Held(d, "moreDefaults", a, m, TRUE)
    BY <1>3, PushMoreDefaults, Zenon
  <2>4. Outcome(s, p.current, p.repl_mode) = Astray
    <3>. DEFINE z == Cons("expr", Cons("moreDefaults", r))
    <3>1. z \in Seq(Word)
      BY <1>2, Conses, Words
    <3>2. s = Cons("=", z)
      BY <1>2
    <3>3. "=" \in Tokens \ {"ident"}
      BY TokenFacts DEF Tokens
    <3>. HIDE DEF z
    <3>4. Outcome(s, p.current, p.repl_mode) = IF p.current = "=" THEN z ELSE Astray
      BY <3>1, <3>2, <3>3, OutcomeToken
    <3>. QED  BY <3>4, <2>2 DEF z
  <2>5. m <= n
    BY <1>2
  <2>. HIDE DEF d, a
  <2>. QED  BY <1>1, <2>2, <2>3, <2>4, <2>5, ComplainedTo
<1>. QED  BY <1>4, <1>5 DEF parseFunctionDecl, Doing

LEMMA StepValue ==
  ASSUME Inv, parseReturnStmt
  PROVE  Inv'
<1>1. PICK c, y, s, r, n, m, u : Facing("value", c, y, s, r, n, m, u)
  BY Faced DEF parseReturnStmt
<1>2. /\ s = Cons("value", r)
      /\ c = Rest /\ c \in Seq(Word) /\ r \in Seq(Word) /\ n = m /\ m \in Nat /\ n \in Nat
  <2>1. Weigh("value") = 0
    BY DEF Weigh, Closing, Branching
  <2>2. Owed("value") \o r = Cons("value", r)
    BY <1>1, OwedForms DEF Facing
  <2>. QED  BY <1>1, <2>1, <2>2 DEF Facing
<1>3. Held(c, y, r, m, TRUE)
  BY <1>1 DEF Facing, Inside
<1>4. CASE Otherwise({"newline", "eof"}, <<"parseExpr">>)
  <2>. DEFINE d == Cons("parseExpr", c)
              a == Cons("expr", r)
  <2>1. <<"parseExpr">> \o c = d
    BY <1>2, SinglePart
  <2>2. p.current \notin {"newline", "eof"} /\ Turn(d)
    BY <1>2, <1>4, <2>1 DEF On, Otherwise
  <2>3. Held(d, "parseExpr", a, m, TRUE)
    BY <1>3, PushParseExpr, Zenon
  <2>4. Clean => Outcome(s, p.current, p.repl_mode) = Outcome(a, p.current, p.repl_mode)
    BY <1>2, <2>2, OutcomeValue, OutcomeExpr DEF Clean
  <2>5. m <= n
    BY <1>2
  <2>. HIDE DEF d, a
  <2>. QED  BY <1>1, <2>2, <2>3, <2>4, <2>5, TurnedTo
<1>5. CASE p.current \in {"newline", "eof"} /\ Turn(Rest)
  <2>. DEFINE d == c
              a == r
  <2>1. p.current \in {"newline", "eof"} /\ Turn(d)
    BY <1>2, <1>5
  <2>2. Held(d, y, a, m, TRUE)
    BY <1>3, Zenon
  <2>3. Clean => Outcome(s, p.current, p.repl_mode) = Outcome(a, p.current, p.repl_mode)
    BY <1>2, <2>1, OutcomeValue DEF Clean
  <2>4. m <= n
    BY <1>2
  <2>. HIDE DEF d, a
  <2>. QED  BY <1>1, <2>1, <2>2, <2>3, <2>4, TurnedTo
<1>. QED  BY <1>4, <1>5 DEF parseReturnStmt, Doing

LEMMA StepImportPath ==
  ASSUME Inv, parsePath, Doing("importPath")
  PROVE  Inv'
<1>1. PICK c, y, s, r, n, m, u : Facing("importPath", c, y, s, r, n, m, u)
  BY Faced
<1>2. /\ s = Cons("path", Cons("line", r))
      /\ c = Rest /\ c \in Seq(Word) /\ r \in Seq(Word) /\ n = m /\ m \in Nat /\ n \in Nat
  <2>1. Weigh("importPath") = 0
    BY DEF Weigh, Closing, Branching
  <2>2. Owed("importPath") \o r = Cons("path", Cons("line", r))
    BY <1>1, OwedForms DEF Facing
  <2>. QED  BY <1>1, <2>1, <2>2 DEF Facing
<1>3. Held(c, y, r, m, TRUE)
  BY <1>1 DEF Facing, Inside
<1>4. CASE On({"string"}, <<"alias">>)
  <2>. DEFINE d == Cons("alias", c)
              a == Cons("line", r)
  <2>1. <<"alias">> \o c = d
    BY <1>2, OnePart
  <2>2. p.current = "string" /\ Take(d)
    BY <1>2, <1>4, <2>1 DEF On, Otherwise
  <2>3. Held(d, "alias", a, m, TRUE)
    BY <1>3, PushAlias, Zenon
  <2>4. Outcome(s, p.current, p.repl_mode) = a
    <3>. DEFINE z == Cons("line", r)
    <3>1. z \in Seq(Word)
      BY <1>2, Conses, Words
    <3>2. s = Cons("path", z)
      BY <1>2
    <3>. HIDE DEF z
    <3>3. Outcome(s, p.current, p.repl_mode) = z
      BY <3>1, <3>2, <2>2, OutcomePath
    <3>. QED  BY <3>3 DEF z
  <2>5. Room(m, n)
    BY <1>2, <2>2, OpenerFacts DEF Room
  <2>. HIDE DEF d, a
  <2>. QED  BY <1>1, <2>2, <2>3, <2>4, <2>5, TakenTo
<1>5. CASE On(Names, <<"slash">> \o <<"alias">>)
  <2>. DEFINE d == Cons("slash", Cons("alias", c))
              a == Cons("segments", Cons("line", r))
  <2>1. (<<"slash">> \o <<"alias">>) \o c = d
    BY <1>2, PathParts
  <2>2. p.current \in Names /\ Take(d)
    BY <1>2, <1>5, <2>1 DEF On, Otherwise
  <2>3. Held(Cons("alias", c), "alias", Cons("line", r), m, TRUE)
    BY <1>3, PushAlias, Zenon
  <2>4. Held(d, "slash", a, m, TRUE)
    BY <2>3, PushSlash, Zenon
  <2>5. Outcome(s, p.current, p.repl_mode) = a
    <3>. DEFINE z == Cons("line", r)
    <3>1. z \in Seq(Word)
      BY <1>2, Conses, Words
    <3>2. s = Cons("path", z)
      BY <1>2
    <3>. HIDE DEF z
    <3>3. Outcome(s, p.current, p.repl_mode) = Cons("segments", z)
      BY <3>1, <3>2, <2>2, OutcomePath
    <3>. QED  BY <3>3 DEF z
  <2>6. Room(m, n)
    BY <1>2, <2>2, OpenerFacts, TokenFacts DEF Room
  <2>. HIDE DEF d, a
  <2>. QED  BY <1>1, <2>2, <2>4, <2>5, <2>6, TakenTo
<1>6. CASE p.current \notin Names \cup {"string"} /\ Complain(Rest)
  <2>. DEFINE d == c
              a == r
  <2>1. p.current \notin Names \cup {"string"} /\ Complain(d)
    BY <1>2, <1>6
  <2>2. Held(d, y, a, m, TRUE)
    BY <1>3, Zenon
  <2>3. Outcome(s, p.current, p.repl_mode) = Astray
    <3>. DEFINE z == Cons("line", r)
    <3>1. z \in Seq(Word)
      BY <1>2, Conses, Words
    <3>2. s = Cons("path", z)
      BY <1>2
    <3>. HIDE DEF z
    <3>3. Outcome(s, p.current, p.repl_mode) = Astray
      BY <3>1, <3>2, <2>1, OutcomePath
    <3>. QED  BY <3>3 DEF z
  <2>4. m <= n
    BY <1>2
  <2>. HIDE DEF d, a
  <2>. QED  BY <1>1, <2>1, <2>2, <2>3, <2>4, ComplainedTo
<1>. QED  BY <1>4, <1>5, <1>6 DEF parsePath, Doing

LEMMA StepFromPath ==
  ASSUME Inv, parsePath, Doing("fromPath")
  PROVE  Inv'
<1>1. PICK c, y, s, r, n, m, u : Facing("fromPath", c, y, s, r, n, m, u)
  BY Faced
<1>2. /\ s = Cons("path", Cons("import", Cons("ident", Cons("names", Cons("line", r)))))
      /\ c = Rest /\ c \in Seq(Word) /\ r \in Seq(Word) /\ n = m /\ m \in Nat /\ n \in Nat
  <2>1. Weigh("fromPath") = 0
    BY DEF Weigh, Closing, Branching
  <2>2. Owed("fromPath") \o r = Cons("path",
          Cons("import", Cons("ident", Cons("names", Cons("line", r)))))
    BY <1>1, OwedForms DEF Facing
  <2>. QED  BY <1>1, <2>1, <2>2 DEF Facing
<1>3. Held(c, y, r, m, TRUE)
  BY <1>1 DEF Facing, Inside
<1>4. CASE On({"string"}, <<"imports">>)
  <2>. DEFINE d == Cons("imports", c)
              a == Cons("import", Cons("ident", Cons("names", Cons("line", r))))
  <2>1. <<"imports">> \o c = d
    BY <1>2, OnePart
  <2>2. p.current = "string" /\ Take(d)
    BY <1>2, <1>4, <2>1 DEF On, Otherwise
  <2>3. Held(d, "imports", a, m, TRUE)
    BY <1>3, PushImports, Zenon
  <2>4. Outcome(s, p.current, p.repl_mode) = a
    <3>. DEFINE z == Cons("import", Cons("ident", Cons("names", Cons("line", r))))
    <3>1. z \in Seq(Word)
      BY <1>2, Conses, Words
    <3>2. s = Cons("path", z)
      BY <1>2
    <3>. HIDE DEF z
    <3>3. Outcome(s, p.current, p.repl_mode) = z
      BY <3>1, <3>2, <2>2, OutcomePath
    <3>. QED  BY <3>3 DEF z
  <2>5. Room(m, n)
    BY <1>2, <2>2, OpenerFacts DEF Room
  <2>. HIDE DEF d, a
  <2>. QED  BY <1>1, <2>2, <2>3, <2>4, <2>5, TakenTo
<1>5. CASE On(Names, <<"slash">> \o <<"imports">>)
  <2>. DEFINE d == Cons("slash", Cons("imports", c))
              a == Cons("segments", Cons("import", Cons("ident", Cons("names", Cons("line", r)))))
  <2>1. (<<"slash">> \o <<"imports">>) \o c = d
    BY <1>2, PathParts
  <2>2. p.current \in Names /\ Take(d)
    BY <1>2, <1>5, <2>1 DEF On, Otherwise
  <2>3. Held(Cons("imports", c), "imports",
             Cons("import", Cons("ident", Cons("names", Cons("line", r)))), m, TRUE)
    BY <1>3, PushImports, Zenon
  <2>4. Held(d, "slash", a, m, TRUE)
    BY <2>3, PushSlash, Zenon
  <2>5. Outcome(s, p.current, p.repl_mode) = a
    <3>. DEFINE z == Cons("import", Cons("ident", Cons("names", Cons("line", r))))
    <3>1. z \in Seq(Word)
      BY <1>2, Conses, Words
    <3>2. s = Cons("path", z)
      BY <1>2
    <3>. HIDE DEF z
    <3>3. Outcome(s, p.current, p.repl_mode) = Cons("segments", z)
      BY <3>1, <3>2, <2>2, OutcomePath
    <3>. QED  BY <3>3 DEF z
  <2>6. Room(m, n)
    BY <1>2, <2>2, OpenerFacts, TokenFacts DEF Room
  <2>. HIDE DEF d, a
  <2>. QED  BY <1>1, <2>2, <2>4, <2>5, <2>6, TakenTo
<1>6. CASE p.current \notin Names \cup {"string"} /\ Complain(Rest)
  <2>. DEFINE d == c
              a == r
  <2>1. p.current \notin Names \cup {"string"} /\ Complain(d)
    BY <1>2, <1>6
  <2>2. Held(d, y, a, m, TRUE)
    BY <1>3, Zenon
  <2>3. Outcome(s, p.current, p.repl_mode) = Astray
    <3>. DEFINE z == Cons("import", Cons("ident", Cons("names", Cons("line", r))))
    <3>1. z \in Seq(Word)
      BY <1>2, Conses, Words
    <3>2. s = Cons("path", z)
      BY <1>2
    <3>. HIDE DEF z
    <3>3. Outcome(s, p.current, p.repl_mode) = Astray
      BY <3>1, <3>2, <2>1, OutcomePath
    <3>. QED  BY <3>3 DEF z
  <2>4. m <= n
    BY <1>2
  <2>. HIDE DEF d, a
  <2>. QED  BY <1>1, <2>1, <2>2, <2>3, <2>4, ComplainedTo
<1>. QED  BY <1>4, <1>5, <1>6 DEF parsePath, Doing

LEMMA StepImports ==
  ASSUME Inv, parseFromImportStmt, Doing("imports")
  PROVE  Inv'
<1>1. PICK c, y, s, r, n, m, u : Facing("imports", c, y, s, r, n, m, u)
  BY Faced
<1>2. /\ s = Cons("import", Cons("ident", Cons("names", Cons("line", r))))
      /\ c = Rest /\ c \in Seq(Word) /\ r \in Seq(Word) /\ n = m /\ m \in Nat /\ n \in Nat
  <2>1. Weigh("imports") = 0
    BY DEF Weigh, Closing, Branching
  <2>2. Owed("imports") \o r = Cons("import", Cons("ident", Cons("names", Cons("line", r))))
    BY <1>1, OwedForms DEF Facing
  <2>. QED  BY <1>1, <2>1, <2>2 DEF Facing
<1>3. Held(c, y, r, m, TRUE)
  BY <1>1 DEF Facing, Inside
<1>4. CASE On({"import"}, <<"firstName">>)
  <2>. DEFINE d == Cons("firstName", c)
              a == Cons("ident", Cons("names", Cons("line", r)))
  <2>1. <<"firstName">> \o c = d
    BY <1>2, OnePart
  <2>2. p.current = "import" /\ Take(d)
    BY <1>2, <1>4, <2>1 DEF On, Otherwise
  <2>3. Held(d, "firstName", a, m, TRUE)
    BY <1>3, PushFirstName, Zenon
  <2>4. Outcome(s, p.current, p.repl_mode) = a
    <3>. DEFINE z == Cons("ident", Cons("names", Cons("line", r)))
    <3>1. z \in Seq(Word)
      BY <1>2, Conses, Words
    <3>2. s = Cons("import", z)
      BY <1>2
    <3>3. "import" \in Tokens \ {"ident"}
      BY TokenFacts DEF Tokens
    <3>. HIDE DEF z
    <3>4. Outcome(s, p.current, p.repl_mode) = IF p.current = "import" THEN z ELSE Astray
      BY <3>1, <3>2, <3>3, OutcomeToken
    <3>. QED  BY <3>4, <2>2 DEF z
  <2>5. Room(m, n)
    BY <1>2, <2>2, OpenerFacts DEF Room
  <2>. HIDE DEF d, a
  <2>. QED  BY <1>1, <2>2, <2>3, <2>4, <2>5, TakenTo
<1>5. CASE p.current \notin {"import"} /\ Complain(Rest)
  <2>. DEFINE d == c
              a == r
  <2>1. p.current # "import" /\ Complain(d)
    BY <1>2, <1>5
  <2>2. Held(d, y, a, m, TRUE)
    BY <1>3, Zenon
  <2>3. Outcome(s, p.current, p.repl_mode) = Astray
    <3>. DEFINE z == Cons("ident", Cons("names", Cons("line", r)))
    <3>1. z \in Seq(Word)
      BY <1>2, Conses, Words
    <3>2. s = Cons("import", z)
      BY <1>2
    <3>3. "import" \in Tokens \ {"ident"}
      BY TokenFacts DEF Tokens
    <3>. HIDE DEF z
    <3>4. Outcome(s, p.current, p.repl_mode) = IF p.current = "import" THEN z ELSE Astray
      BY <3>1, <3>2, <3>3, OutcomeToken
    <3>. QED  BY <3>4, <2>1 DEF z
  <2>4. m <= n
    BY <1>2
  <2>. HIDE DEF d, a
  <2>. QED  BY <1>1, <2>1, <2>2, <2>3, <2>4, ComplainedTo
<1>. QED  BY <1>4, <1>5 DEF parseFromImportStmt, Doing, Due

LEMMA StepFirstName ==
  ASSUME Inv, parseFromImportStmt, Doing("firstName")
  PROVE  Inv'
<1>1. PICK c, y, s, r, n, m, u : Facing("firstName", c, y, s, r, n, m, u)
  BY Faced
<1>2. /\ s = Cons("ident", Cons("names", Cons("line", r)))
      /\ c = Rest /\ c \in Seq(Word) /\ r \in Seq(Word) /\ n = m /\ m \in Nat /\ n \in Nat
  <2>1. Weigh("firstName") = 0
    BY DEF Weigh, Closing, Branching
  <2>2. Owed("firstName") \o r = Cons("ident", Cons("names", Cons("line", r)))
    BY <1>1, OwedForms DEF Facing
  <2>. QED  BY <1>1, <2>1, <2>2 DEF Facing
<1>3. Held(c, y, r, m, TRUE)
  BY <1>1 DEF Facing, Inside
<1>4. CASE On(Names, <<"moreNames", "expectNewline">>)
  <2>. DEFINE d == Cons("moreNames", Cons("expectNewline", c))
              a == Cons("names", Cons("line", r))
  <2>1. <<"moreNames", "expectNewline">> \o c = d
    BY <1>2, PairsOfParts
  <2>2. p.current \in Names /\ Take(d)
    BY <1>2, <1>4, <2>1 DEF On, Otherwise
  <2>3. Held(Cons("expectNewline", c), "expectNewline", Cons("line", r), m, TRUE)
    BY <1>3, PushExpectNewline, Zenon
  <2>4. Held(d, "moreNames", a, m, TRUE)
    BY <2>3, PushMoreNames, Zenon
  <2>5. Outcome(s, p.current, p.repl_mode) = a
    <3>. DEFINE z == Cons("names", Cons("line", r))
    <3>1. z \in Seq(Word)
      BY <1>2, Conses, Words
    <3>2. s = Cons("ident", z)
      BY <1>2
    <3>. HIDE DEF z
    <3>3. Outcome(s, p.current, p.repl_mode) = z
      BY <3>1, <3>2, <2>2, OutcomeIdent
    <3>. QED  BY <3>3 DEF z
  <2>6. Room(m, n)
    BY <1>2, <2>2, OpenerFacts, TokenFacts DEF Room
  <2>. HIDE DEF d, a
  <2>. QED  BY <1>1, <2>2, <2>4, <2>5, <2>6, TakenTo
<1>5. CASE p.current \notin Names /\ Complain(Rest)
  <2>. DEFINE d == c
              a == r
  <2>1. p.current \notin Names /\ Complain(d)
    BY <1>2, <1>5
  <2>2. Held(d, y, a, m, TRUE)
    BY <1>3, Zenon
  <2>3. Outcome(s, p.current, p.repl_mode) = Astray
    <3>. DEFINE z == Cons("names", Cons("line", r))
    <3>1. z \in Seq(Word)
      BY <1>2, Conses, Words
    <3>2. s = Cons("ident", z)
      BY <1>2
    <3>. HIDE DEF z
    <3>3. Outcome(s, p.current, p.repl_mode) = Astray
      BY <3>1, <3>2, <2>1, OutcomeIdent
    <3>. QED  BY <3>3 DEF z
  <2>4. m <= n
    BY <1>2
  <2>. HIDE DEF d, a
  <2>. QED  BY <1>1, <2>1, <2>2, <2>3, <2>4, ComplainedTo
<1>. QED  BY <1>4, <1>5 DEF parseFromImportStmt, Doing, Due

LEMMA StepCases ==
  ASSUME Inv, parseWhen, Doing("cases")
  PROVE  Inv'
<1>1. PICK c, y, s, r, n, m, u : Facing("cases", c, y, s, r, n, m, u)
  BY Faced
<1>2. /\ s = Cons("cases", r)
      /\ c = Rest /\ c \in Seq(Word) /\ r \in Seq(Word) /\ n = m /\ m \in Nat /\ n \in Nat
  <2>1. Weigh("cases") = 0
    BY DEF Weigh, Closing, Branching
  <2>2. Owed("cases") \o r = Cons("cases", r)
    BY <1>1, OwedForms DEF Facing
  <2>. QED  BY <1>1, <2>1, <2>2 DEF Facing
<1>3. Held(c, y, r, m, TRUE) /\ y \in {"end"}
  BY <1>1 DEF Facing, Inside, Follows
<1>4. CASE p.current \in {"end", "eof"} /\ Turn(Rest)
  <2>. DEFINE d == c
              a == r
  <2>1. p.current \in {"end", "eof"} /\ Turn(d)
    BY <1>2, <1>4
  <2>2. Held(d, y, a, m, TRUE)
    BY <1>3, Zenon
  <2>3. Outcome(s, p.current, p.repl_mode) = Outcome(a, p.current, p.repl_mode)
    BY <1>2, <2>1, OutcomeCases
  <2>4. m <= n
    BY <1>2
  <2>. HIDE DEF d, a
  <2>. QED  BY <1>1, <2>1, <2>2, <2>3, <2>4, TurnedTo
<1>5. CASE p.current \notin {"end", "eof"} /\ Turn(<<"caseStart">> \o Rest)
  <2>. DEFINE d == Cons("caseStart", c)
              a == Cons("cases", r)
  <2>1. <<"caseStart">> \o c = d
    BY <1>2, OnePart
  <2>2. p.current \notin {"end", "eof"} /\ Turn(d)
    BY <1>2, <1>5, <2>1
  <2>3. Held(d, "caseStart", a, m, TRUE)
    BY <1>3, PushCaseStart, Zenon
  <2>4. Outcome(s, p.current, p.repl_mode) = Outcome(a, p.current, p.repl_mode)
    BY <1>2, <2>2, Spread
  <2>5. m <= n
    BY <1>2
  <2>. HIDE DEF d, a
  <2>. QED  BY <1>1, <2>2, <2>3, <2>4, <2>5, TurnedTo
<1>. QED  BY <1>4, <1>5 DEF parseWhen, Doing

LEMMA StepCaseStart ==
  ASSUME Inv, parseWhen, Doing("caseStart")
  PROVE  Inv'
<1>1. PICK c, y, s, r, n, m, u : Facing("caseStart", c, y, s, r, n, m, u)
  BY Faced
<1>2. /\ s = Cons("cases", r)
      /\ c = Rest /\ c \in Seq(Word) /\ r \in Seq(Word) /\ n = m /\ m \in Nat /\ n \in Nat
  <2>1. Weigh("caseStart") = 0
    BY DEF Weigh, Closing, Branching
  <2>2. Owed("caseStart") \o r = Cons("cases", r)
    BY <1>1, OwedForms DEF Facing
  <2>. QED  BY <1>1, <2>1, <2>2 DEF Facing
<1>3. Held(c, y, r, m, TRUE) /\ y \in {"end"}
  BY <1>1 DEF Facing, Inside, Follows
<1>4. CASE p.current = "end" /\ Turn(Rest)
  <2>. DEFINE d == c
              a == r
  <2>1. p.current = "end" /\ Turn(d)
    BY <1>2, <1>4
  <2>2. Held(d, y, a, m, TRUE)
    BY <1>3, Zenon
  <2>3. Outcome(s, p.current, p.repl_mode) = Outcome(a, p.current, p.repl_mode)
    BY <1>2, <2>1, OutcomeCases
  <2>4. m <= n
    BY <1>2
  <2>. HIDE DEF d, a
  <2>. QED  BY <1>1, <2>1, <2>2, <2>3, <2>4, TurnedTo
<1>5. CASE On({"is"}, <<"parseExpr", "moreValues", "expectNewline", "caseBody", "cases">>)
  <2>. DEFINE d == Cons("parseExpr", Cons("moreValues",
         Cons("expectNewline", Cons("caseBody", Cons("cases", c)))))
              a == Cons("expr", Cons("moreValues", Cons("line", Cons("body", Cons("cases", r)))))
  <2>1. <<"parseExpr", "moreValues", "expectNewline", "caseBody", "cases">> \o c = d
    BY <1>2, ManyParts
  <2>2. p.current = "is" /\ Take(d)
    BY <1>2, <1>5, <2>1 DEF On, Otherwise
  <2>3. Held(Cons("cases", c), "cases", Cons("cases", r), m, TRUE)
    BY <1>3, PushCases, Zenon
  <2>4. Held(Cons("caseBody", Cons("cases", c)), "caseBody",
             Cons("body", Cons("cases", r)), m, TRUE)
    BY <2>3, PushCaseBody, Zenon
  <2>5. Held(Cons("expectNewline", Cons("caseBody", Cons("cases", c))), "expectNewline",
             Cons("line", Cons("body", Cons("cases", r))), m, TRUE)
    BY <2>4, PushExpectNewline, Zenon
  <2>6. Held(Cons("moreValues", Cons("expectNewline", Cons("caseBody", Cons("cases", c)))),
          "moreValues",
             Cons("moreValues", Cons("line", Cons("body", Cons("cases", r)))), m, TRUE)
    BY <2>5, PushMoreValues, Zenon
  <2>7. Held(d, "parseExpr", a, m, TRUE)
    BY <2>6, PushParseExpr, Zenon
  <2>8. Outcome(s, p.current, p.repl_mode) = a
    BY <1>2, <2>2, OutcomeCases
  <2>9. Room(m, n)
    BY <1>2, <2>2, OpenerFacts DEF Room
  <2>. HIDE DEF d, a
  <2>. QED  BY <1>1, <2>2, <2>7, <2>8, <2>9, TakenTo
<1>6. CASE On({"else"}, <<"expectNewline", "caseBody">>)
  <2>. DEFINE d == Cons("expectNewline", Cons("caseBody", c))
              a == Cons("line", Cons("body", r))
  <2>1. <<"expectNewline", "caseBody">> \o c = d
    BY <1>2, PairsOfParts
  <2>2. p.current = "else" /\ Take(d)
    BY <1>2, <1>6, <2>1 DEF On, Otherwise
  <2>3. Held(Cons("caseBody", c), "caseBody", Cons("body", r), m, TRUE)
    BY <1>3, PushCaseBody, Zenon
  <2>4. Held(d, "expectNewline", a, m, TRUE)
    BY <2>3, PushExpectNewline, Zenon
  <2>5. Outcome(s, p.current, p.repl_mode) = a
    BY <1>2, <2>2, OutcomeCases
  <2>6. Room(m, n)
    BY <1>2, <2>2, OpenerFacts DEF Room
  <2>. HIDE DEF d, a
  <2>. QED  BY <1>1, <2>2, <2>4, <2>5, <2>6, TakenTo
<1>7. CASE p.current \notin {"newline", "end", "is", "else"} /\ Complain(Rest)
  <2>. DEFINE d == c
              a == r
  <2>1. p.current \notin {"newline", "end", "is", "else"} /\ Complain(d)
    BY <1>2, <1>7
  <2>2. Held(d, y, a, m, TRUE)
    BY <1>3, Zenon
  <2>3. Outcome(s, p.current, p.repl_mode) = Astray
    <3>1. Outcome(r, p.current, p.repl_mode) = Astray
      BY <1>3, <2>1, ClosingDue
    <3>. QED  BY <1>2, <2>1, <3>1, OutcomeCases
  <2>4. m <= n
    BY <1>2
  <2>. HIDE DEF d, a
  <2>. QED  BY <1>1, <2>1, <2>2, <2>3, <2>4, ComplainedTo
<1>. QED  BY <1>4, <1>5, <1>6, <1>7 DEF parseWhen, Doing

LEMMA StepExtra ==
  ASSUME Inv, parseWhen, Doing("extra")
  PROVE  Inv'
<1>1. PICK c, y, s, r, n, m, u : Facing("extra", c, y, s, r, n, m, u)
  BY Faced
<1>2. /\ s = Cons("extra", r)
      /\ c = Rest /\ c \in Seq(Word) /\ r \in Seq(Word) /\ n = m /\ m \in Nat /\ n \in Nat
  <2>1. Weigh("extra") = 0
    BY DEF Weigh, Closing, Branching
  <2>2. Owed("extra") \o r = Cons("extra", r)
    BY <1>1, OwedForms DEF Facing
  <2>. QED  BY <1>1, <2>1, <2>2 DEF Facing
<1>3. Held(c, y, r, m, TRUE)
  BY <1>1 DEF Facing, Inside
<1>4. CASE p.current \in {"newline", "eof"} /\ Turn(Rest)
  <2>. DEFINE d == c
              a == r
  <2>1. p.current \in {"newline", "eof"} /\ Turn(d)
    BY <1>2, <1>4
  <2>2. Held(d, y, a, m, TRUE)
    BY <1>3, Zenon
  <2>3. Outcome(s, p.current, p.repl_mode) = Outcome(a, p.current, p.repl_mode)
    BY <1>2, <2>1, OutcomeExtra
  <2>4. m <= n
    BY <1>2
  <2>. HIDE DEF d, a
  <2>. QED  BY <1>1, <2>1, <2>2, <2>3, <2>4, TurnedTo
<1>5. CASE p.current \notin {"newline", "eof"} /\ Turn(<<"parseExpr", "moreValues">> \o Rest)
  <2>. DEFINE d == Cons("parseExpr", Cons("moreValues", c))
              a == Cons("expr", Cons("moreValues", r))
  <2>1. <<"parseExpr", "moreValues">> \o c = d
    BY <1>2, PairsOfParts
  <2>2. p.current \notin {"newline", "eof"} /\ Turn(d)
    BY <1>2, <1>5, <2>1
  <2>3. Held(Cons("moreValues", c), "moreValues", Cons("moreValues", r), m, TRUE)
    BY <1>3, PushMoreValues, Zenon
  <2>4. Held(d, "parseExpr", a, m, TRUE)
    BY <2>3, PushParseExpr, Zenon
  <2>5. Outcome(s, p.current, p.repl_mode) = Outcome(a, p.current, p.repl_mode)
    <3>. DEFINE z == Cons("moreValues", r)
    <3>1. z \in Seq(Word)
      BY <1>2, Conses, Words
    <3>2. /\ p.current \in Primaries =>
               Outcome(s, p.current, p.repl_mode) = Outcome(Cons("expr", z), p.current, p.repl_mode)
          /\ p.current \notin Primaries => Outcome(s, p.current, p.repl_mode) = Astray
      BY <1>2, <2>2, OutcomeExtra
    <3>. HIDE DEF z
    <3>3. p.current \notin Primaries => Outcome(Cons("expr", z), p.current, p.repl_mode) = Astray
      BY <3>1, OutcomeExpr
    <3>. QED  BY <3>2, <3>3 DEF z
  <2>6. m <= n
    BY <1>2
  <2>. HIDE DEF d, a
  <2>. QED  BY <1>1, <2>2, <2>4, <2>5, <2>6, TurnedTo
<1>. QED  BY <1>4, <1>5 DEF parseWhen, Doing


LEMMA RefusedOn ==
  ASSUME Inv, NEW h, NEW c, NEW y, NEW s, NEW r, NEW n, NEW m, NEW u,
         Facing(h, c, y, s, r, n, m, u),
         NEW d, NEW x \in {"recover", "aliasName"}, NEW a, NEW k, NEW v \in BOOLEAN,
         Owing(d, a, k, v) /\ Top(d, x), k <= n,
         p.current # "eof",
         Clean => Outcome(s, p.current, p.repl_mode) = Astray,
         Advance(ErrorAt(p), d), UNCHANGED strays
  PROVE  Inv'
<1>1. PICK w : Tracks(p, calls, expected, strays, s, n, w)
  BY DEF Facing
<1>2. strays' \in BOOLEAN /\ strays' = strays
  BY Modes
<1>3. d # <<>> /\ Head(d) \in {"recover", "calm", "aliasName"}
  BY DEF Top
<1>4. ErrorAt(p) \in {p, ErrorAt(p)}
  OBVIOUS
<1>. QED  BY <1>1, <1>2, <1>3, <1>4, TakenRefused

\* At the end of a block nothing but what ends it goes on.
LEMMA EndDue ==
  ASSUME NEW c, NEW y \in {"elseBlock", "elseStmt", "cases", "end"}, NEW r, NEW m, NEW u,
         Held(c, y, r, m, u), NEW t, NEW repl, t \notin {"end", "else", "is", "newline"}
  PROVE  Outcome(r, t, repl) = Astray
<1>1. CASE y = "end"
  BY <1>1, ClosingDue
<1>2. CASE y # "end"
  <2>1. y \notin {"program", "skipNewlines"} /\ u \in BOOLEAN /\ Owing(c, r, m, u) /\ Top(c, y)
    BY DEF Held
  <2>2. PICK z, q, k, v : Held(Tail(c), z, q, k, v) /\ r = Owed(y) \o q /\ Follows(y, z)
    BY <2>1, Beneath
  <2>3. z = "end" /\ q \in Seq(Word)
    BY <1>2, <2>2 DEF Follows, Held, Owing
  <2>4. Outcome(q, t, repl) = Astray
    BY <2>2, <2>3, ClosingDue
  <2>5. /\ Owed("elseBlock") \o q = Cons("otherwise", q) /\ Owed("elseStmt") \o q = Cons("orOne", q)
        /\ Owed("cases") \o q = Cons("cases", q)
    BY <2>3, OwedForms
  <2>6. r = Owed(y) \o q
    BY <2>2
  <2>7. r \in {Cons("otherwise", q), Cons("orOne", q), Cons("cases", q)}
    BY <1>2, <2>5, <2>6
  <2>8. t \notin {"else", "newline", "is"}
    OBVIOUS
  <2>9. Outcome(r, t, repl) = Outcome(q, t, repl)
    BY <2>3, <2>7, <2>8, OutcomeOtherwise, OutcomeOrOne, OutcomeCases
  <2>. QED  BY <2>4, <2>9
<1>. QED  BY <1>1, <1>2

\* The whole program.
LEMMA ProgramFacts ==
  ASSUME NEW c, NEW s, NEW n, NEW u \in BOOLEAN, Owing(c, s, n, u), Top(c, "program")
  PROVE  /\ c = Cons("program", <<>>) /\ Tail(c) = <<>>
         /\ s = Cons("statements", <<>>)
         /\ \E v \in BOOLEAN : Owing(<<>>, <<>>, n, v)
         /\ \E v \in BOOLEAN : v /\ Owing(c, s, n, v)
<1>1. c = Cons("program", Tail(c)) /\ Tail(c) = <<>>
  BY Pop
<1>2. PICK r \in Seq(Word), m \in Nat :
          /\ s = Owed("program") \o r /\ n = m + Weigh("program")
          /\ Owing(Tail(c), r, m, u \/ "program" \notin Inside)
  BY Pop
<1>3. r = <<>>
  <2>1. Spells(<<>>, r)
    BY <1>1, <1>2 DEF Owing
  <2>. QED  BY <2>1 DEF Spells
<1>4. n = m
  <2>1. Weigh("program") = 0
    BY DEF Weigh, Closing, Branching
  <2>. QED  BY <1>2, <2>1
<1>5. s = Cons("statements", <<>>)
  BY <1>2, <1>3, OwedForms
<1>6. \E v \in BOOLEAN : Owing(<<>>, <<>>, n, v)
  <2>. DEFINE v == u \/ "program" \notin Inside
  <2>1. v \in BOOLEAN
    OBVIOUS
  <2>. HIDE DEF v
  <2>2. Owing(Tail(c), r, m, v)
    BY <1>2 DEF v
  <2>. QED  BY <1>1, <1>3, <1>4, <2>1, <2>2
<1>7. \E v \in BOOLEAN : v /\ Owing(c, s, n, v)
  <2>. DEFINE x == "program"
  <2>1. x \in Word /\ <<>> \in Seq(Word) /\ Len(<<>>) = 0
    BY Words
  <2>2. Unbranched(c)
    <3>1. Len(c) = 1 /\ c[1] = x
      <4>1. c = Cons(x, <<>>)
        BY <1>1
      <4>. HIDE DEF x
      <4>2. Len(Cons(x, <<>>)) = Len(<<>>) + 1 /\ Cons(x, <<>>)[1] = x
        BY ONLY <2>1, ConsFacts
      <4>. QED  BY <2>1, <4>1, <4>2
    <3>2. "program" \notin Branching
      BY DEF Branching
    <3>. QED  BY <3>1, <3>2 DEF Unbranched
  <2>3. Owing(c, s, n, TRUE)
    BY <2>2 DEF Owing
  <2>. QED  BY <2>3
<1>. QED  BY <1>1, <1>5, <1>6, <1>7

\* After a body of try or catch, what ends it is due.
LEMMA BodyDue ==
  ASSUME NEW c, NEW r, NEW m, NEW u, Held(c, "skipNewlines", r, m, u),
         NEW repl \in BOOLEAN
  PROVE  Outcome(r, "eof", repl) = Astray
<1>1. u \in BOOLEAN /\ Owing(c, r, m, u) /\ Top(c, "skipNewlines")
  BY DEF Held
<1>2. PICK b \in {"tryBody", "handlerBody"} : Top(Tail(c), b)
  BY <1>1, PopBody
<1>3. PICK q \in Seq(Word), w \in BOOLEAN :
        w /\ r = Cons("statements", q) /\ Owing(Tail(c), Cons("guarded", q), m, w)
  BY <1>1, PopBody
<1>4. b \notin {"program", "skipNewlines"}
  OBVIOUS
<1>. DEFINE g == Cons("guarded", q)
<1>. HIDE DEF g
<1>5. PICK y, z, k, v : Held(Tail(Tail(c)), y, z, k, v) /\ g = Owed(b) \o z /\ Follows(b, y)
  <2>1. Owing(Tail(c), g, m, w)
    BY <1>3 DEF g
  <2>. QED  BY <1>2, <1>4, <2>1, Beneath
<1>6. y \in {"catch", "end"} /\ z \in Seq(Word)
  BY <1>5 DEF Follows, Held, Owing
<1>7. z = q
  <2>1. Owed("tryBody") \o z = Cons("guarded", z) /\ Owed("handlerBody") \o z = Cons("guarded", z)
    BY <1>6, OwedForms
  <2>2. Cons("guarded", q) = Cons("guarded", z)
    BY <1>5, <2>1 DEF g
  <2>. DEFINE x == "guarded"
  <2>3. x \in Word
    BY Words
  <2>. HIDE DEF x
  <2>4. Tail(Cons(x, q)) = q /\ Tail(Cons(x, z)) = z
    <3>1. Tail(Cons(x, q)) = q
      BY ONLY <2>3, <1>3, <1>6, ConsFacts, Zenon
    <3>2. Tail(Cons(x, z)) = z
      BY ONLY <2>3, <1>3, <1>6, ConsFacts, Zenon
    <3>. QED  BY <3>1, <3>2
  <2>. QED  BY <2>2, <2>4 DEF x
<1>8. Outcome(z, "eof", repl) = Astray
  BY <1>5, <1>6, ClosingDue
<1>9. "eof" \notin StartsStatement(repl) \cup {"newline"}
  BY StarterFacts
<1>. QED  BY <1>3, <1>7, <1>8, <1>9, OutcomeStatements

\* Blank lines where statements, or cases, may begin.
LEMMA BlankLine ==
  ASSUME NEW c, NEW s, NEW n, NEW u \in BOOLEAN, Owing(c, s, n, u),
         NEW h \in {"program", "nextStmt", "parseStmt", "parseBlock", "caseStart", "caseBody",
                    "skipNewlines"},
         Top(c, h), NEW repl \in BOOLEAN
  PROVE  Outcome(s, "newline", repl) = s
<1>1. CASE h = "program"
  <2>1. s = Cons("statements", <<>>) /\ <<>> \in Seq(Word)
    BY <1>1, ProgramFacts
  <2>. QED  BY <2>1, OutcomeStatements
<1>2. CASE h = "skipNewlines"
  <2>1. PICK r \in Seq(Word) : s = Cons("statements", r)
    BY <1>2, PopBody
  <2>. QED  BY <2>1, OutcomeStatements
<1>3. CASE h \notin {"program", "skipNewlines"}
  <2>1. PICK y, r, m, v : Held(Tail(c), y, r, m, v) /\ s = Owed(h) \o r /\ Follows(h, y)
    BY <1>3, Beneath
  <2>2. r \in Seq(Word) /\ s = Owed(h) \o r
    BY <2>1 DEF Held, Owing
  <2>3. /\ Owed("nextStmt") \o r = r /\ Owed("parseStmt") \o r = Cons("one", r)
        /\ Owed("parseBlock") \o r = Cons("statements", r)
        /\ Owed("caseStart") \o r = Cons("cases", r) /\ Owed("caseBody") \o r = Cons("body", r)
    BY <2>2, OwedForms
  <2>4. CASE h = "nextStmt"
    <3>1. y = "program" /\ v \in BOOLEAN /\ Owing(Tail(c), r, m, v) /\ Top(Tail(c), y)
      BY <2>1, <2>4 DEF Follows, Held
    <3>2. s = Cons("statements", <<>>) /\ <<>> \in Seq(Word)
      BY <2>2, <2>3, <2>4, <3>1, ProgramFacts
    <3>. QED  BY <3>2, OutcomeStatements
  <2>5. CASE h # "nextStmt"
    <3>1. s \in {Cons("one", r), Cons("statements", r), Cons("cases", r), Cons("body", r)}
      BY <1>3, <2>2, <2>3, <2>5
    <3>2. /\ Outcome(Cons("one", r), "newline", repl) = Cons("one", r)
          /\ Outcome(Cons("statements", r), "newline", repl) = Cons("statements", r)
      BY <2>2, OutcomeOne, OutcomeStatements
    <3>3. /\ Outcome(Cons("cases", r), "newline", repl) = Cons("cases", r)
          /\ Outcome(Cons("body", r), "newline", repl) = Cons("body", r)
      BY <2>2, OutcomeCases, OutcomeBody
    <3>. QED  BY <3>1, <3>2, <3>3
  <2>. QED  BY <2>4, <2>5
<1>. QED  BY <1>1, <1>2, <1>3

LEMMA StepExpectNewline ==
  ASSUME Inv, expectNewline
  PROVE  Inv'
<1>1. PICK c, y, s, r, n, m, u : Facing("expectNewline", c, y, s, r, n, m, u)
  BY Faced DEF expectNewline
<1>2. /\ s = Cons("line", r)
      /\ c = Rest /\ c \in Seq(Word) /\ r \in Seq(Word) /\ n = m /\ m \in Nat /\ n \in Nat
  <2>1. Weigh("expectNewline") = 0
    BY DEF Weigh, Closing, Branching
  <2>2. Owed("expectNewline") \o r = Cons("line", r)
    BY <1>1, OwedForms DEF Facing
  <2>. QED  BY <1>1, <2>1, <2>2 DEF Facing
<1>3. Held(c, y, r, m, TRUE)
  BY <1>1 DEF Facing, Inside
<1>4. CASE On({"newline"}, <<>>)
  <2>. DEFINE d == c
              a == r
  <2>1. <<>> \o c = d
    BY <1>2, Spread
  <2>2. p.current = "newline" /\ Take(d)
    BY <1>2, <1>4, <2>1 DEF On, Otherwise
  <2>3. Held(d, y, a, m, TRUE)
    BY <1>3, Zenon
  <2>4. Outcome(s, p.current, p.repl_mode) = a
    BY <1>2, <2>2, OutcomeLineEnd
  <2>5. Room(m, n)
    BY <1>2, <2>2, OpenerFacts DEF Room
  <2>. HIDE DEF d, a
  <2>. QED  BY <1>1, <2>2, <2>3, <2>4, <2>5, TakenTo
<1>5. CASE p.current \in {"eof", "end", "else"} /\ Turn(Rest)
  <2>. DEFINE d == c
              a == r
  <2>1. p.current \in {"eof", "end", "else"} /\ Turn(d)
    BY <1>2, <1>5
  <2>2. Held(d, y, a, m, TRUE)
    BY <1>3, Zenon
  <2>3. Outcome(s, p.current, p.repl_mode) = Outcome(a, p.current, p.repl_mode)
    BY <1>2, <2>1, OutcomeLineEnd
  <2>4. m <= n
    BY <1>2
  <2>. HIDE DEF d, a
  <2>. QED  BY <1>1, <2>1, <2>2, <2>3, <2>4, TurnedTo
<1>6. CASE p.current \notin {"newline", "eof", "end", "else"} /\ Complain(Rest)
  <2>. DEFINE d == c
              a == r
  <2>1. p.current \notin {"newline", "eof", "end", "else"} /\ Complain(d)
    BY <1>2, <1>6
  <2>2. Held(d, y, a, m, TRUE)
    BY <1>3, Zenon
  <2>3. Outcome(s, p.current, p.repl_mode) = Astray
    BY <1>2, <2>1, OutcomeLineEnd
  <2>4. m <= n
    BY <1>2
  <2>. HIDE DEF d, a
  <2>. QED  BY <1>1, <2>1, <2>2, <2>3, <2>4, ComplainedTo
<1>. QED  BY <1>4, <1>5, <1>6 DEF expectNewline, Doing

LEMMA StepToken ==
  ASSUME Inv, expect, NEW x \in Tokens, Doing(x)
  PROVE  Inv'
<1>. DEFINE S == IF x = "ident" THEN Names ELSE {x}
<1>1. x \notin {"program", "skipNewlines"} /\ Owed(x) = <<x>> /\ x \in Word
  <2>1. Tokens = {"ident", "to", "step", "is", "as", "from", "number", "string",
          "(", "[", "let", "print",
                  "break", "return", "import", "if", "loop", "for", "function", "try", "when",
                  "newline", "end", "else", "then", "catch", "in", "=", "+=", "+", ")", "]",
                      "comma", "/"}
    BY TokenFacts DEF Tokens
  <2>2. x \notin {"program", "skipNewlines"} /\ Owed(x) = <<x>>
    BY <2>1 DEF Owed
  <2>3. x \in Word
    BY <2>1 DEF Word
  <2>. QED  BY <2>2, <2>3
<1>2. PICK c, y, s, r, n, m, u : Facing(x, c, y, s, r, n, m, u)
  BY <1>1, Faced
<1>3. /\ c = Rest /\ c \in Seq(Word) /\ r \in Seq(Word) /\ n \in Nat /\ m \in Nat
      /\ s = Cons(x, r) /\ m <= n
  <2>1. Weigh(x) \in Nat
    BY DEF Weigh
  <2>2. /\ c = Rest /\ c \in Seq(Word) /\ r \in Seq(Word) /\ n \in Nat /\ m \in Nat
        /\ s = Owed(x) \o r /\ n = m + Weigh(x)
    BY <1>2 DEF Facing
  <2>3. s = Cons(x, r)
    BY <1>1, <2>2 DEF Cons
  <2>. QED  BY <2>1, <2>2, <2>3
<1>4. Held(c, y, r, m, u)
  BY <1>2 DEF Facing
<1>5. Outcome(s, p.current, p.repl_mode) = IF p.current \in S THEN r ELSE Astray
  <2>1. CASE x = "ident"
    BY <1>3, <2>1, OutcomeIdent
  <2>2. CASE x # "ident"
    BY <1>3, <2>2, OutcomeToken
  <2>. QED  BY <2>1, <2>2
<1>6. "eof" \notin S
  BY TokenFacts DEF Tokens
<1>7. On(S, <<>>) \/ (p.current \notin S /\ Complain(Rest))
  BY DEF expect, Due, Doing
<1>8. <<>> \o c = c
  BY <1>3, Spread
<1>. HIDE DEF S
<1>9. CASE On(S, <<>>)
  <2>1. p.current \in S /\ Take(c)
    BY <1>3, <1>8, <1>9 DEF On
  <2>2. Room(m, n)
    BY <1>3, <1>6, <2>1 DEF Room
  <2>3. Outcome(s, p.current, p.repl_mode) = r
    BY <1>5, <2>1
  <2>. QED  BY <1>2, <1>3, <1>4, <2>1, <2>2, <2>3, TakenTo
<1>10. CASE p.current \notin S /\ Complain(Rest)
  <2>1. Complain(c)
    BY <1>3, <1>10
  <2>2. Outcome(s, p.current, p.repl_mode) = Astray
    BY <1>5, <1>10
  <2>. QED  BY <1>2, <1>3, <1>4, <2>1, <2>2, ComplainedTo
<1>. QED  BY <1>7, <1>9, <1>10

LEMMA StepAlias ==
  ASSUME Inv, parseImportStmt, Doing("alias")
  PROVE  Inv'
<1>1. PICK c, y, s, r, n, m, u : Facing("alias", c, y, s, r, n, m, u)
  BY Faced
<1>2. /\ s = Cons("line", r)
      /\ c = Rest /\ c \in Seq(Word) /\ r \in Seq(Word) /\ n = m /\ m \in Nat /\ n \in Nat
  <2>1. Weigh("alias") = 0
    BY DEF Weigh, Closing, Branching
  <2>2. Owed("alias") \o r = Cons("line", r)
    BY <1>1, OwedForms DEF Facing
  <2>. QED  BY <1>1, <2>1, <2>2 DEF Facing
<1>3. Held(c, y, r, m, TRUE)
  BY <1>1 DEF Facing, Inside
<1>4. CASE p.current = "as" /\ Advance(ErrorAt(p), <<"aliasName", "expectNewline">> \o Rest)
             /\ UNCHANGED strays
  <2>. DEFINE d == Cons("aliasName", Cons("expectNewline", c))
              a == Cons("line", r)
  <2>1. <<"aliasName", "expectNewline">> \o c = d
    BY <1>2, PairsOfParts
  <2>2. p.current = "as" /\ Advance(ErrorAt(p), d) /\ UNCHANGED strays
    BY <1>2, <1>4, <2>1
  <2>3. Held(Cons("expectNewline", c), "expectNewline", a, m, TRUE)
    BY <1>3, PushExpectNewline, Zenon
  <2>4. Owing(d, a, m, TRUE) /\ Top(d, "aliasName")
    BY <2>3, PushAliasName, Zenon
  <2>5. Outcome(s, p.current, p.repl_mode) = Astray
    BY <1>2, <2>2, OutcomeLineEnd
  <2>6. m <= n /\ p.current # "eof"
    BY <1>2, <2>2
  <2>. HIDE DEF d, a
  <2>. QED  BY <1>1, <2>2, <2>4, <2>5, <2>6, RefusedOn
<1>5. CASE Otherwise({"as"}, <<"expectNewline">>)
  <2>. DEFINE d == Cons("expectNewline", c)
              a == Cons("line", r)
  <2>1. <<"expectNewline">> \o c = d
    BY <1>2, SinglePart
  <2>2. p.current # "as" /\ Turn(d)
    BY <1>2, <1>5, <2>1 DEF On, Otherwise
  <2>3. Held(d, "expectNewline", a, m, TRUE)
    BY <1>3, PushExpectNewline, Zenon
  <2>4. Outcome(s, p.current, p.repl_mode) = Outcome(a, p.current, p.repl_mode)
    BY <1>2, <2>2, Spread
  <2>5. m <= n
    BY <1>2
  <2>. HIDE DEF d, a
  <2>. QED  BY <1>1, <2>2, <2>3, <2>4, <2>5, TurnedTo
<1>. QED  BY <1>4, <1>5 DEF parseImportStmt, Doing

LEMMA StepAliasName ==
  ASSUME Inv, parseImportStmt, Doing("aliasName")
  PROVE  Inv'
<1>1. PICK c, y, s, r, n, m, u : Facing("aliasName", c, y, s, r, n, m, u)
  BY Faced
<1>2. /\ s = r
      /\ c = Rest /\ c \in Seq(Word) /\ r \in Seq(Word) /\ n = m /\ m \in Nat /\ n \in Nat
  <2>1. Weigh("aliasName") = 0
    BY DEF Weigh, Closing, Branching
  <2>2. Owed("aliasName") \o r = r
    BY <1>1, OwedForms DEF Facing
  <2>. QED  BY <1>1, <2>1, <2>2 DEF Facing
<1>3. Held(c, y, r, m, TRUE)
  BY <1>1 DEF Facing, Inside
<1>4. ~ Clean
  BY DEF Inv, Sound, Settled, Ready, Fleeting, Doing, Top, Clean
<1>5. CASE On(Names, <<>>)
  <2>. DEFINE d == c
              a == r
  <2>1. <<>> \o c = d
    BY <1>2, Spread
  <2>2. p.current \in Names /\ Take(d)
    BY <1>2, <1>5, <2>1 DEF On, Otherwise
  <2>3. Held(d, y, a, m, TRUE)
    BY <1>3, Zenon
  <2>4. Clean => Outcome(s, p.current, p.repl_mode) = a
    BY <1>2, <2>2, <1>4
  <2>5. Room(m, n)
    BY <1>2, <2>2, OpenerFacts, TokenFacts DEF Room
  <2>. HIDE DEF d, a
  <2>. QED  BY <1>1, <2>2, <2>3, <2>4, <2>5, TakenTo
<1>6. CASE Otherwise(Names, <<>>)
  <2>. DEFINE d == c
              a == r
  <2>1. <<>> \o c = d
    BY <1>2, Spread
  <2>2. p.current \notin Names /\ Turn(d)
    BY <1>2, <1>6, <2>1 DEF On, Otherwise
  <2>3. Held(d, y, a, m, TRUE)
    BY <1>3, Zenon
  <2>4. Clean => Outcome(s, p.current, p.repl_mode) = Outcome(a, p.current, p.repl_mode)
    BY <1>2, <2>2, <1>4
  <2>5. m <= n
    BY <1>2
  <2>. HIDE DEF d, a
  <2>. QED  BY <1>1, <2>2, <2>3, <2>4, <2>5, TurnedTo
<1>. QED  BY <1>5, <1>6 DEF parseImportStmt, Doing

LEMMA StepRecover ==
  ASSUME Inv, Recover, Doing("recover")
  PROVE  Inv'
<1>1. PICK c, y, s, r, n, m, u : Facing("recover", c, y, s, r, n, m, u)
  BY Faced
<1>2. /\ s = r
      /\ c = Rest /\ c \in Seq(Word) /\ r \in Seq(Word) /\ n = m /\ m \in Nat /\ n \in Nat
  <2>1. Weigh("recover") = 0
    BY DEF Weigh, Closing, Branching
  <2>2. Owed("recover") \o r = r
    BY <1>1, OwedForms DEF Facing
  <2>. QED  BY <1>1, <2>1, <2>2 DEF Facing
<1>3. Held(c, y, r, m, TRUE)
  BY <1>1 DEF Facing, Inside
<1>4. ~ Clean /\ p.had_error
  BY DEF Inv, Sound, Settled, Ready, Fleeting, Doing, Top, Clean
<1>5. CASE p.current \notin {"newline", "eof"} /\ Take(calls)
  <2>. DEFINE d == Cons("recover", c)
              a == r
  <2>1. calls = d
    BY <1>1 DEF Facing
  <2>2. p.current \notin {"newline", "eof"} /\ Take(d)
    BY <1>2, <1>5, <2>1
  <2>3. Owing(d, a, m, TRUE) /\ Top(d, "recover")
    BY <1>3, PushRecover, Zenon
  <2>4. Clean => Outcome(s, p.current, p.repl_mode) = a
    BY <1>2, <2>2, <1>4
  <2>5. Room(m, n)
    BY <1>2, <2>2, OpenerFacts DEF Room
  <2>6. p.had_error /\ d # <<>> /\ Head(d) \in {"recover", "calm", "aliasName"}
    BY <1>4, <2>3 DEF Top
  <2>. HIDE DEF d, a
  <2>. QED  BY <1>1, <2>2, <2>3, <2>4, <2>5, <2>6, TakenOn
<1>6. CASE p.current = "newline" /\ Take(<<"calm">> \o Rest)
  <2>. DEFINE d == Cons("calm", c)
              a == r
  <2>1. <<"calm">> \o c = d
    BY <1>2, SinglePart
  <2>2. p.current = "newline" /\ Take(d)
    BY <1>2, <1>6, <2>1
  <2>3. Owing(d, a, m, TRUE) /\ Top(d, "calm")
    BY <1>3, PushCalm, Zenon
  <2>4. Clean => Outcome(s, p.current, p.repl_mode) = a
    BY <1>2, <2>2, <1>4
  <2>5. Room(m, n)
    BY <1>2, <2>2, OpenerFacts DEF Room
  <2>6. p.had_error /\ d # <<>> /\ Head(d) \in {"recover", "calm", "aliasName"}
    BY <1>4, <2>3 DEF Top
  <2>. HIDE DEF d, a
  <2>. QED  BY <1>1, <2>2, <2>3, <2>4, <2>5, <2>6, TakenOn
<1>7. CASE p.current = "eof" /\ Turn(<<"calm">> \o Rest)
  <2>. DEFINE d == Cons("calm", c)
              a == r
  <2>1. <<"calm">> \o c = d
    BY <1>2, SinglePart
  <2>2. p.current = "eof" /\ Turn(d)
    BY <1>2, <1>7, <2>1
  <2>3. Owing(d, a, m, TRUE) /\ Top(d, "calm")
    BY <1>3, PushCalm, Zenon
  <2>4. Clean => Outcome(s, p.current, p.repl_mode) = Outcome(a, p.current, p.repl_mode)
    BY <1>2, <2>2, <1>4
  <2>5. m <= n
    BY <1>2
  <2>6. Settled(p, d)
    BY <1>4, <2>3 DEF Top, Settled
  <2>. HIDE DEF d, a
  <2>. QED  BY <1>1, <2>2, <2>3, <2>4, <2>5, <2>6, TurnedOn
<1>. QED  BY <1>5, <1>6, <1>7 DEF Recover, Doing

LEMMA StepCalm ==
  ASSUME Inv, Recover, Doing("calm")
  PROVE  Inv'
<1>1. PICK c, y, s, r, n, m, u : Facing("calm", c, y, s, r, n, m, u)
  BY Faced
<1>2. /\ c = Rest /\ c \in Seq(Word) /\ r \in Seq(Word) /\ s = r /\ n = m /\ m \in Nat
  <2>1. /\ c = Rest /\ c \in Seq(Word) /\ r \in Seq(Word) /\ s = Owed("calm") \o r
        /\ n = m + Weigh("calm") /\ m \in Nat
    BY <1>1 DEF Facing
  <2>2. Owed("calm") \o r = r
    BY <2>1, OwedForms
  <2>3. Weigh("calm") = 0
    BY DEF Weigh, Closing, Branching
  <2>. QED  BY <2>1, <2>2, <2>3
<1>3. u \in BOOLEAN /\ Owing(c, r, m, u) /\ Ready(c)
  <2>1. Held(c, y, r, m, u)
    BY <1>1 DEF Facing
  <2>. QED  BY <2>1, HeldReady
<1>4. PICK w : Tracks(p, calls, expected, strays, s, n, w)
  BY <1>1 DEF Facing
<1>5. Stay([p EXCEPT !.panic_mode = FALSE], c)
  BY <1>2 DEF Recover, Doing
<1>6. m <= n /\ Outcome(s, p.current, p.repl_mode) = Outcome(r, p.current, p.repl_mode)
  BY <1>2
<1>. QED  BY <1>3, <1>4, <1>5, <1>6, Calmed

LEMMA StepNextStmt ==
  ASSUME Inv, parse, Doing("nextStmt")
  PROVE  Inv'
<1>1. PICK c, y, s, r, n, m, u : Facing("nextStmt", c, y, s, r, n, m, u)
  BY Faced
<1>2. /\ c = Rest /\ c \in Seq(Word) /\ r \in Seq(Word) /\ s = r /\ n = m /\ m \in Nat
  <2>1. /\ c = Rest /\ c \in Seq(Word) /\ r \in Seq(Word) /\ s = Owed("nextStmt") \o r
        /\ n = m + Weigh("nextStmt") /\ m \in Nat
    BY <1>1 DEF Facing
  <2>2. Owed("nextStmt") \o r = r
    BY <2>1, OwedForms
  <2>3. Weigh("nextStmt") = 0
    BY DEF Weigh, Closing, Branching
  <2>. QED  BY <2>1, <2>2, <2>3
<1>3. u \in BOOLEAN /\ Owing(c, r, m, u) /\ Ready(c)
  <2>1. Held(c, y, r, m, u)
    BY <1>1 DEF Facing
  <2>. QED  BY <2>1, HeldReady
<1>4. PICK w : Tracks(p, calls, expected, strays, s, n, w)
  BY <1>1 DEF Facing
<1>5. Stay([p EXCEPT !.panic_mode = FALSE], c)
  BY <1>2 DEF parse, Doing
<1>6. m <= n /\ Outcome(s, p.current, p.repl_mode) = Outcome(r, p.current, p.repl_mode)
  BY <1>2
<1>. QED  BY <1>3, <1>4, <1>5, <1>6, Calmed

LEMMA StepParseBlock ==
  ASSUME Inv, parseBlock, Doing("parseBlock")
  PROVE  Inv'
<1>1. PICK c, y, s, r, n, m, u : Facing("parseBlock", c, y, s, r, n, m, u)
  BY Faced
<1>2. /\ s = Cons("statements", r)
      /\ c = Rest /\ c \in Seq(Word) /\ r \in Seq(Word) /\ n = m /\ m \in Nat /\ n \in Nat
  <2>1. Weigh("parseBlock") = 0
    BY DEF Weigh, Closing, Branching
  <2>2. Owed("parseBlock") \o r = Cons("statements", r)
    BY <1>1, OwedForms DEF Facing
  <2>. QED  BY <1>1, <2>1, <2>2 DEF Facing
<1>3. Held(c, y, r, m, TRUE) /\ y \in {"elseBlock", "end"}
  BY <1>1 DEF Facing, Inside, Follows
<1>4. CASE p.current \in {"end", "else", "eof"} /\ Turn(Rest)
  <2>. DEFINE d == c
              a == r
  <2>1. p.current \in {"end", "else", "eof"} /\ Turn(d)
    BY <1>2, <1>4
  <2>2. Held(d, y, a, m, TRUE)
    BY <1>3, Zenon
  <2>3. Outcome(s, p.current, p.repl_mode) = Outcome(a, p.current, p.repl_mode)
    <3>1. p.current \notin (StartsStatement(p.repl_mode)) \cup {"newline"}
            /\ p.repl_mode \in BOOLEAN
      BY <2>1, Modes, StarterFacts
    <3>. QED  BY <1>2, <3>1, OutcomeStatements
  <2>4. m <= n
    BY <1>2
  <2>. HIDE DEF d, a
  <2>. QED  BY <1>1, <2>1, <2>2, <2>3, <2>4, TurnedTo
<1>5. CASE p.current \notin {"end", "else", "eof", "newline"} /\ Turn(<<"parseStmt">> \o calls)
  <2>. DEFINE d == Cons("parseStmt", Cons("parseBlock", c))
              a == Cons("one", Cons("statements", r))
  <2>1. <<"parseStmt">> \o calls = d
    <3>. DEFINE z == Cons("parseBlock", c)
    <3>1. z = calls /\ z \in Seq(Word)
      BY <1>1, <1>2, Conses, Words DEF Facing
    <3>. HIDE DEF z
    <3>2. <<"parseStmt">> \o z = Cons("parseStmt", z)
      BY <3>1, SinglePart
    <3>. QED  BY <3>1, <3>2 DEF z
  <2>2. p.current \notin {"end", "else", "eof", "newline"} /\ Turn(d)
    BY <1>2, <1>5, <2>1
  <2>3. Held(Cons("parseBlock", c), "parseBlock", Cons("statements", r), m, TRUE)
    BY <1>3, PushParseBlock, Zenon
  <2>4. Owing(d, a, m, TRUE) /\ Top(d, "parseStmt")
    BY <2>3, PushParseStmt, Zenon
  <2>5. Outcome(s, p.current, p.repl_mode) = Outcome(a, p.current, p.repl_mode)
    <3>1. p.repl_mode \in BOOLEAN
      BY Modes
    <3>2. CASE p.current \in (StartsStatement(p.repl_mode))
      BY <1>2, <2>2, <3>1, <3>2, OutcomeStatements, OutcomeOne
    <3>3. CASE p.current \notin (StartsStatement(p.repl_mode)) \cup {"newline"}
      <4>1. Outcome(r, p.current, p.repl_mode) = Astray
        <5>1. p.current \notin {"end", "else", "is", "newline"}
          BY <2>2, <3>1, <3>3, StarterFacts
        <5>. QED  BY <1>3, <5>1, EndDue
      <4>2. Outcome(s, p.current, p.repl_mode) = Outcome(r, p.current, p.repl_mode)
        BY <1>2, <3>1, <3>3, OutcomeStatements
      <4>. DEFINE z == Cons("statements", r)
      <4>3. z \in Seq(Word)
        BY <1>2, Conses, Words
      <4>4. p.current \notin StartsStatement(p.repl_mode) \cup {"newline"}
        BY <2>2, <3>1, <3>3, StarterFacts
      <4>. HIDE DEF z
      <4>5. Outcome(Cons("one", z), p.current, p.repl_mode) = Astray
        BY <3>1, <4>3, <4>4, OutcomeOne
      <4>. QED  BY <4>1, <4>2, <4>5 DEF z
    <3>. QED  BY <2>2, <3>2, <3>3
  <2>6. m <= n
    BY <1>2
  <2>7. Settled(p, d)
    BY <2>2, <2>4 DEF Settled
  <2>. HIDE DEF d, a
  <2>. QED  BY <1>1, <2>2, <2>4, <2>5, <2>6, <2>7, TurnedOn
<1>. QED  BY <1>4, <1>5 DEF parseBlock, Doing, Loop

LEMMA StepCaseBody ==
  ASSUME Inv, parseWhen, Doing("caseBody")
  PROVE  Inv'
<1>1. PICK c, y, s, r, n, m, u : Facing("caseBody", c, y, s, r, n, m, u)
  BY Faced
<1>2. /\ s = Cons("body", r)
      /\ c = Rest /\ c \in Seq(Word) /\ r \in Seq(Word) /\ n = m /\ m \in Nat /\ n \in Nat
  <2>1. Weigh("caseBody") = 0
    BY DEF Weigh, Closing, Branching
  <2>2. Owed("caseBody") \o r = Cons("body", r)
    BY <1>1, OwedForms DEF Facing
  <2>. QED  BY <1>1, <2>1, <2>2 DEF Facing
<1>3. Held(c, y, r, m, TRUE) /\ y \in {"cases", "end"}
  BY <1>1 DEF Facing, Inside, Follows
<1>4. CASE p.current \in {"is", "else", "end", "eof"} /\ Turn(Rest)
  <2>. DEFINE d == c
              a == r
  <2>1. p.current \in {"is", "else", "end", "eof"} /\ Turn(d)
    BY <1>2, <1>4
  <2>2. Held(d, y, a, m, TRUE)
    BY <1>3, Zenon
  <2>3. Outcome(s, p.current, p.repl_mode) = Outcome(a, p.current, p.repl_mode)
    <3>1. p.current \notin (StartsStatement(p.repl_mode) \ {"is"}) \cup {"newline"}
            /\ p.repl_mode \in BOOLEAN
      BY <2>1, Modes, StarterFacts
    <3>. QED  BY <1>2, <3>1, OutcomeBody
  <2>4. m <= n
    BY <1>2
  <2>. HIDE DEF d, a
  <2>. QED  BY <1>1, <2>1, <2>2, <2>3, <2>4, TurnedTo
<1>5. CASE p.current \notin {"is", "else", "end", "eof", "newline"}
        /\ Turn(<<"parseStmt">> \o calls)
  <2>. DEFINE d == Cons("parseStmt", Cons("caseBody", c))
              a == Cons("one", Cons("body", r))
  <2>1. <<"parseStmt">> \o calls = d
    <3>. DEFINE z == Cons("caseBody", c)
    <3>1. z = calls /\ z \in Seq(Word)
      BY <1>1, <1>2, Conses, Words DEF Facing
    <3>. HIDE DEF z
    <3>2. <<"parseStmt">> \o z = Cons("parseStmt", z)
      BY <3>1, SinglePart
    <3>. QED  BY <3>1, <3>2 DEF z
  <2>2. p.current \notin {"is", "else", "end", "eof", "newline"} /\ Turn(d)
    BY <1>2, <1>5, <2>1
  <2>3. Held(Cons("caseBody", c), "caseBody", Cons("body", r), m, TRUE)
    BY <1>3, PushCaseBody, Zenon
  <2>4. Owing(d, a, m, TRUE) /\ Top(d, "parseStmt")
    BY <2>3, PushParseStmt, Zenon
  <2>5. Outcome(s, p.current, p.repl_mode) = Outcome(a, p.current, p.repl_mode)
    <3>1. p.repl_mode \in BOOLEAN
      BY Modes
    <3>2. CASE p.current \in (StartsStatement(p.repl_mode) \ {"is"})
      BY <1>2, <2>2, <3>1, <3>2, OutcomeBody, OutcomeOne
    <3>3. CASE p.current \notin (StartsStatement(p.repl_mode) \ {"is"}) \cup {"newline"}
      <4>1. Outcome(r, p.current, p.repl_mode) = Astray
        <5>1. p.current \notin {"end", "else", "is", "newline"}
          BY <2>2, <3>1, <3>3
        <5>. QED  BY <1>3, <5>1, EndDue
      <4>2. Outcome(s, p.current, p.repl_mode) = Outcome(r, p.current, p.repl_mode)
        BY <1>2, <3>1, <3>3, OutcomeBody
      <4>. DEFINE z == Cons("body", r)
      <4>3. z \in Seq(Word)
        BY <1>2, Conses, Words
      <4>4. p.current \notin StartsStatement(p.repl_mode) \cup {"newline"}
        BY <2>2, <3>1, <3>3, StarterFacts
      <4>. HIDE DEF z
      <4>5. Outcome(Cons("one", z), p.current, p.repl_mode) = Astray
        BY <3>1, <4>3, <4>4, OutcomeOne
      <4>. QED  BY <4>1, <4>2, <4>5 DEF z
    <3>. QED  BY <2>2, <3>2, <3>3
  <2>6. m <= n
    BY <1>2
  <2>7. Settled(p, d)
    BY <2>2, <2>4 DEF Settled
  <2>. HIDE DEF d, a
  <2>. QED  BY <1>1, <2>2, <2>4, <2>5, <2>6, <2>7, TurnedOn
<1>. QED  BY <1>4, <1>5 DEF parseWhen, Doing, Loop

LEMMA StepTryBody ==
  ASSUME Inv, parseTryStmt, Doing("tryBody")
  PROVE  Inv'
<1>1. PICK c, y, s, r, n, m, u : Facing("tryBody", c, y, s, r, n, m, u)
  BY Faced
<1>2. /\ s = Cons("guarded", r)
      /\ c = Rest /\ c \in Seq(Word) /\ r \in Seq(Word) /\ n = m /\ m \in Nat /\ n \in Nat
  <2>1. Weigh("tryBody") = 0
    BY DEF Weigh, Closing, Branching
  <2>2. Owed("tryBody") \o r = Cons("guarded", r)
    BY <1>1, OwedForms DEF Facing
  <2>. QED  BY <1>1, <2>1, <2>2 DEF Facing
<1>3. Held(c, y, r, m, TRUE) /\ y \in {"catch"}
  BY <1>1 DEF Facing, Inside, Follows
<1>4. CASE p.current \in {"catch", "eof"} /\ Turn(Rest)
  <2>. DEFINE d == c
              a == r
  <2>1. p.current \in {"catch", "eof"} /\ Turn(d)
    BY <1>2, <1>4
  <2>2. Held(d, y, a, m, TRUE)
    BY <1>3, Zenon
  <2>3. Clean => Outcome(s, p.current, p.repl_mode) = Outcome(a, p.current, p.repl_mode)
    <3>1. p.current \notin StartsStatement(p.repl_mode) \cup {"newline"} /\ p.repl_mode \in BOOLEAN
      BY <2>1, Modes, StarterFacts
    <3>. QED  BY <1>2, <3>1, OutcomeGuarded DEF Clean
  <2>4. m <= n
    BY <1>2
  <2>. HIDE DEF d, a
  <2>. QED  BY <1>1, <2>1, <2>2, <2>3, <2>4, TurnedTo
<1>5. CASE p.current \notin {"catch", "eof"} /\ Turn(<<"parseStmt", "skipNewlines">> \o calls)
  <2>. DEFINE b == Cons("tryBody", c)
              e == Cons("skipNewlines", b)
              d == Cons("parseStmt", e)
              q == Cons("statements", r)
              a == Cons("one", q)
  <2>1. p.current \notin {"catch", "eof"} /\ Turn(d)
    <3>1. b = calls /\ b \in Seq(Word)
      BY <1>1, <1>2, Conses, Words DEF Facing
    <3>. HIDE DEF b
    <3>2. <<"parseStmt", "skipNewlines">> \o b = d
      BY <3>1, PairsOfParts
    <3>. QED  BY <1>5, <3>1, <3>2
  <2>2. Held(b, "tryBody", s, m, TRUE)
    BY <1>2, <1>3, PushTryBody
  <2>3. Owing(b, s, m, TRUE) /\ Spells(c, r)
    BY <1>3, <2>2 DEF Held, Owing
  <2>4. Owing(e, q, m, TRUE) /\ Top(e, "skipNewlines")
    BY <1>2, <2>3, PushBody
  <2>5. Held(e, "skipNewlines", q, m, TRUE)
    BY <2>4, Zenon DEF Held, Fleeting
  <2>6. Owing(d, a, m, TRUE) /\ Top(d, "parseStmt")
    BY <2>5, PushParseStmt, Zenon
  <2>7. Settled(p, d)
    <3>1. Ready(d)
      BY <2>5, StmtReady, Zenon
    <3>. QED  BY <3>1 DEF Settled
  <2>8. Clean => Outcome(s, p.current, p.repl_mode) = Outcome(a, p.current, p.repl_mode)
    <3>. SUFFICES ASSUME Clean PROVE Outcome(s, p.current, p.repl_mode) =
           Outcome(a, p.current, p.repl_mode)
      OBVIOUS
    <3>1. p.repl_mode \in BOOLEAN /\ q \in Seq(Word) /\ With = {}
      BY <1>2, Modes, Conses, Words DEF Clean
    <3>2. CASE p.current = "newline"
      <4>1. Outcome(s, p.current, p.repl_mode) = a
        BY <1>2, <3>1, <3>2, OutcomeGuarded
      <4>. HIDE DEF q
      <4>2. Outcome(Cons("one", q), p.current, p.repl_mode) = Cons("one", q)
        BY <3>1, <3>2, OutcomeOne
      <4>. QED  BY <4>1, <4>2
    <3>3. CASE p.current \in StartsStatement(p.repl_mode)
      BY <1>2, <3>1, <3>3, OutcomeGuarded
    <3>4. CASE p.current \notin StartsStatement(p.repl_mode) \cup {"newline"}
      <4>1. Outcome(r, p.current, p.repl_mode) = Astray
        BY <1>3, <2>1, ClosingDue
      <4>2. Outcome(s, p.current, p.repl_mode) = Outcome(r, p.current, p.repl_mode)
        BY <1>2, <3>1, <3>4, OutcomeGuarded
      <4>. HIDE DEF q
      <4>3. Outcome(Cons("one", q), p.current, p.repl_mode) = Astray
        BY <3>1, <3>4, OutcomeOne
      <4>. QED  BY <4>1, <4>2, <4>3
    <3>. QED  BY <3>2, <3>3, <3>4
  <2>9. m <= n
    BY <1>2
  <2>. HIDE DEF d, a
  <2>. QED  BY <1>1, <2>1, <2>6, <2>7, <2>8, <2>9, TurnedOn
<1>. QED  BY <1>4, <1>5 DEF parseTryStmt, Doing, Loop

LEMMA StepHandlerBody ==
  ASSUME Inv, parseTryStmt, Doing("handlerBody")
  PROVE  Inv'
<1>1. PICK c, y, s, r, n, m, u : Facing("handlerBody", c, y, s, r, n, m, u)
  BY Faced
<1>2. /\ s = Cons("guarded", r)
      /\ c = Rest /\ c \in Seq(Word) /\ r \in Seq(Word) /\ n = m /\ m \in Nat /\ n \in Nat
  <2>1. Weigh("handlerBody") = 0
    BY DEF Weigh, Closing, Branching
  <2>2. Owed("handlerBody") \o r = Cons("guarded", r)
    BY <1>1, OwedForms DEF Facing
  <2>. QED  BY <1>1, <2>1, <2>2 DEF Facing
<1>3. Held(c, y, r, m, TRUE) /\ y \in {"end"}
  BY <1>1 DEF Facing, Inside, Follows
<1>4. CASE p.current \in {"end", "eof"} /\ Turn(Rest)
  <2>. DEFINE d == c
              a == r
  <2>1. p.current \in {"end", "eof"} /\ Turn(d)
    BY <1>2, <1>4
  <2>2. Held(d, y, a, m, TRUE)
    BY <1>3, Zenon
  <2>3. Clean => Outcome(s, p.current, p.repl_mode) = Outcome(a, p.current, p.repl_mode)
    <3>1. p.current \notin StartsStatement(p.repl_mode) \cup {"newline"} /\ p.repl_mode \in BOOLEAN
      BY <2>1, Modes, StarterFacts
    <3>. QED  BY <1>2, <3>1, OutcomeGuarded DEF Clean
  <2>4. m <= n
    BY <1>2
  <2>. HIDE DEF d, a
  <2>. QED  BY <1>1, <2>1, <2>2, <2>3, <2>4, TurnedTo
<1>5. CASE p.current \notin {"end", "eof"} /\ Turn(<<"parseStmt", "skipNewlines">> \o calls)
  <2>. DEFINE b == Cons("handlerBody", c)
              e == Cons("skipNewlines", b)
              d == Cons("parseStmt", e)
              q == Cons("statements", r)
              a == Cons("one", q)
  <2>1. p.current \notin {"end", "eof"} /\ Turn(d)
    <3>1. b = calls /\ b \in Seq(Word)
      BY <1>1, <1>2, Conses, Words DEF Facing
    <3>. HIDE DEF b
    <3>2. <<"parseStmt", "skipNewlines">> \o b = d
      BY <3>1, PairsOfParts
    <3>. QED  BY <1>5, <3>1, <3>2
  <2>2. Held(b, "handlerBody", s, m, TRUE)
    BY <1>2, <1>3, PushHandlerBody
  <2>3. Owing(b, s, m, TRUE) /\ Spells(c, r)
    BY <1>3, <2>2 DEF Held, Owing
  <2>4. Owing(e, q, m, TRUE) /\ Top(e, "skipNewlines")
    BY <1>2, <2>3, PushBody
  <2>5. Held(e, "skipNewlines", q, m, TRUE)
    BY <2>4, Zenon DEF Held, Fleeting
  <2>6. Owing(d, a, m, TRUE) /\ Top(d, "parseStmt")
    BY <2>5, PushParseStmt, Zenon
  <2>7. Settled(p, d)
    <3>1. Ready(d)
      BY <2>5, StmtReady, Zenon
    <3>. QED  BY <3>1 DEF Settled
  <2>8. Clean => Outcome(s, p.current, p.repl_mode) = Outcome(a, p.current, p.repl_mode)
    <3>. SUFFICES ASSUME Clean PROVE Outcome(s, p.current, p.repl_mode) =
           Outcome(a, p.current, p.repl_mode)
      OBVIOUS
    <3>1. p.repl_mode \in BOOLEAN /\ q \in Seq(Word) /\ With = {}
      BY <1>2, Modes, Conses, Words DEF Clean
    <3>2. CASE p.current = "newline"
      <4>1. Outcome(s, p.current, p.repl_mode) = a
        BY <1>2, <3>1, <3>2, OutcomeGuarded
      <4>. HIDE DEF q
      <4>2. Outcome(Cons("one", q), p.current, p.repl_mode) = Cons("one", q)
        BY <3>1, <3>2, OutcomeOne
      <4>. QED  BY <4>1, <4>2
    <3>3. CASE p.current \in StartsStatement(p.repl_mode)
      BY <1>2, <3>1, <3>3, OutcomeGuarded
    <3>4. CASE p.current \notin StartsStatement(p.repl_mode) \cup {"newline"}
      <4>1. Outcome(r, p.current, p.repl_mode) = Astray
        BY <1>3, <2>1, ClosingDue
      <4>2. Outcome(s, p.current, p.repl_mode) = Outcome(r, p.current, p.repl_mode)
        BY <1>2, <3>1, <3>4, OutcomeGuarded
      <4>. HIDE DEF q
      <4>3. Outcome(Cons("one", q), p.current, p.repl_mode) = Astray
        BY <3>1, <3>4, OutcomeOne
      <4>. QED  BY <4>1, <4>2, <4>3
    <3>. QED  BY <3>2, <3>3, <3>4
  <2>9. m <= n
    BY <1>2
  <2>. HIDE DEF d, a
  <2>. QED  BY <1>1, <2>1, <2>6, <2>7, <2>8, <2>9, TurnedOn
<1>. QED  BY <1>4, <1>5 DEF parseTryStmt, Doing, Loop

LEMMA StepProgram ==
  ASSUME Inv, parse, Doing("program")
  PROVE  Inv'
<1>1. PICK s, n, u : Tracks(p, calls, expected, strays, s, n, u)
  BY DEF Inv, Sound
<1>2. u \in BOOLEAN /\ Owing(calls, s, n, u) /\ Top(calls, "program")
  BY <1>1 DEF Tracks, Doing, Top
<1>3. Tail(calls) = <<>> /\ s = Cons("statements", <<>>)
  BY <1>2, ProgramFacts
<1>4. n \in Nat /\ n <= n
  BY <1>2, DepthFacts
<1>5. p.repl_mode \in BOOLEAN /\ <<>> \in Seq(Word)
  BY Modes
<1>6. CASE p.current = "eof" /\ Turn(Rest)
  <2>1. PICK v \in BOOLEAN : Owing(<<>>, <<>>, n, v)
    BY <1>2, ProgramFacts
  <2>2. Turn(<<>>) /\ Settled(p, <<>>)
    BY <1>3, <1>6 DEF Settled, Rest
  <2>3. Outcome(s, p.current, p.repl_mode) = Outcome(<<>>, p.current, p.repl_mode)
    <3>1. p.current \notin StartsStatement(p.repl_mode) \cup {"newline"}
      BY <1>5, <1>6, StarterFacts
    <3>. QED  BY <1>3, <1>5, <3>1, OutcomeStatements
  <2>. QED  BY <1>1, <1>4, <2>1, <2>2, <2>3, Turned
<1>7. CASE p.current \notin {"newline", "eof"} /\ Turn(<<"parseStmt", "nextStmt">> \o calls)
  <2>. DEFINE e == Cons("nextStmt", calls)
              d == Cons("parseStmt", e)
              a == Cons("one", s)
  <2>1. calls \in Seq(Word) /\ s \in Seq(Word)
    BY <1>2 DEF Owing
  <2>2. p.current \notin {"newline", "eof"} /\ Turn(d)
    BY <1>7, <2>1, PairsOfParts
  <2>3. Held(calls, "program", s, n, TRUE)
    <3>1. PICK v \in BOOLEAN : v /\ Owing(calls, s, n, v)
      BY <1>2, ProgramFacts
    <3>2. v = TRUE
      BY <3>1
    <3>. QED  BY <1>2, <3>1, <3>2 DEF Held, Fleeting
  <2>4. Held(e, "nextStmt", s, n, TRUE)
    BY <2>3, PushNextStmt, Zenon
  <2>5. Owing(d, a, n, TRUE) /\ Top(d, "parseStmt")
    BY <2>4, PushParseStmt, Zenon
  <2>6. Settled(p, d)
    BY <2>2, <2>5 DEF Settled
  <2>7. Outcome(s, p.current, p.repl_mode) = Outcome(a, p.current, p.repl_mode)
    <3>1. CASE p.current \in StartsStatement(p.repl_mode)
      BY <1>3, <1>5, <3>1, OutcomeStatements
    <3>2. CASE p.current \notin StartsStatement(p.repl_mode) \cup {"newline"}
      <4>1. Outcome(s, p.current, p.repl_mode) = Outcome(<<>>, p.current, p.repl_mode)
        BY <1>3, <1>5, <3>2, OutcomeStatements
      <4>2. Outcome(<<>>, p.current, p.repl_mode) = Astray
        BY <2>2, OutcomeNone
      <4>3. Outcome(a, p.current, p.repl_mode) = Astray
        BY <1>5, <2>1, <3>2, OutcomeOne
      <4>. QED  BY <4>1, <4>2, <4>3
    <3>. QED  BY <2>2, <3>1, <3>2
  <2>. HIDE DEF d, a
  <2>. QED  BY <1>1, <1>4, <2>2, <2>5, <2>6, <2>7, Turned
<1>. QED  BY <1>6, <1>7 DEF parse, Loop, Doing

LEMMA StepBlankLine ==
  ASSUME Inv, skipNewlines
  PROVE  Inv'
<1>1. PICK s, n, u : Tracks(p, calls, expected, strays, s, n, u)
  BY DEF Inv, Sound
<1>2. u \in BOOLEAN /\ Owing(calls, s, n, u)
  BY <1>1 DEF Tracks
<1>3. PICK h \in {"program", "nextStmt", "parseStmt", "parseBlock", "caseStart", "caseBody",
                  "skipNewlines"} : Top(calls, h)
  BY DEF skipNewlines, Top
<1>4. p.current = "newline" /\ Take(calls) /\ p.repl_mode \in BOOLEAN
  BY Modes DEF skipNewlines
<1>5. Ready(calls)
  <2>1. CASE h = "parseStmt"
    BY <1>3, <1>4, <2>1 DEF Inv, Sound, Settled, Top
  <2>2. CASE h # "parseStmt"
    BY <1>3, <2>2 DEF Ready, Top, Fleeting
  <2>. QED  BY <2>1, <2>2
<1>6. Outcome(s, p.current, p.repl_mode) = s
  <2>1. Outcome(s, "newline", p.repl_mode) = s
    BY <1>2, <1>3, <1>4, BlankLine
  <2>. QED  BY <1>4, <2>1
<1>7. n <= n /\ p.current # "eof"
  BY <1>2, <1>4, DepthFacts
<1>. QED  BY <1>1, <1>2, <1>4, <1>5, <1>6, <1>7, Taken

LEMMA StepSkipped ==
  ASSUME Inv, NewlinesSkipped
  PROVE  Inv'
<1>1. PICK s, n, u : Tracks(p, calls, expected, strays, s, n, u)
  BY DEF Inv, Sound
<1>2. u \in BOOLEAN /\ Owing(calls, s, n, u) /\ Top(calls, "skipNewlines")
  BY <1>1 DEF Tracks, NewlinesSkipped, Doing, Top
<1>3. PICK b \in {"tryBody", "handlerBody"} : Top(Tail(calls), b)
  BY <1>2, PopBody
<1>4. PICK r \in Seq(Word), v \in BOOLEAN :
        v /\ s = Cons("statements", r) /\ Owing(Tail(calls), Cons("guarded", r), n, v)
  BY <1>2, PopBody
<1>. DEFINE d == Tail(calls)
            g == Cons("guarded", r)
<1>5. Ready(d)
  BY <1>3 DEF Ready, Top, Fleeting
<1>6. p.current # "newline" /\ Turn(d)
  <2>1. d \in Seq(Word)
    BY <1>4 DEF Owing
  <2>2. <<>> \o d = d
    BY <2>1, Spread
  <2>. QED  BY <2>2 DEF NewlinesSkipped, Otherwise, Rest
<1>7. Settled(p, d)
  BY <1>5 DEF Settled
<1>8. Clean => Outcome(s, p.current, p.repl_mode) = Outcome(g, p.current, p.repl_mode)
  <2>. SUFFICES ASSUME Clean
                PROVE  Outcome(s, p.current, p.repl_mode) = Outcome(g, p.current, p.repl_mode)
    OBVIOUS
  <2>1. With = {} /\ p.repl_mode \in BOOLEAN
    BY Modes DEF Clean
  <2>2. CASE p.current \in StartsStatement(p.repl_mode)
    BY <1>4, <2>1, <2>2, OutcomeStatements, OutcomeGuarded
  <2>3. CASE p.current \notin StartsStatement(p.repl_mode) \cup {"newline"}
    BY <1>4, <2>1, <2>3, OutcomeStatements, OutcomeGuarded
  <2>. QED  BY <1>6, <2>2, <2>3
<1>9. n <= n
  BY <1>2, DepthFacts
<1>10. v \in BOOLEAN /\ Owing(d, g, n, v)
  BY <1>4
<1>. HIDE DEF d, g
<1>. QED  BY <1>1, <1>6, <1>7, <1>8, <1>9, <1>10, Turned

LEMMA StatementParts ==
  ASSUME NEW r \in Seq(Word)
  PROVE  /\ DOMAIN Parts = {"let", "print", "if", "when", "loop", "for", "function", "return",
                            "import", "from", "try", "break"}
         /\ Parts["let"] \o r =
              Cons("ident", Cons("=", Cons("parseExpr", Cons("expectNewline", r))))
         /\ Parts["print"] \o r = Cons("parseExpr", Cons("expectNewline", r))
         /\ Parts["if"] \o r = Cons("parseExpr", Cons("branches", r))
         /\ Parts["when"] \o r =
              Cons("parseExpr", Cons("expectNewline",
                  Cons("cases", Cons("end", Cons("expectNewline", r)))))
         /\ Parts["loop"] \o r =
              Cons("parseExpr", Cons("expectNewline",
                  Cons("parseBlock", Cons("end", Cons("expectNewline", r)))))
         /\ Parts["for"] \o r = Cons("ident", Cons("range", r))
         /\ Parts["function"] \o r =
              Cons("ident", Cons("(", Cons("params", Cons(")",
                  Cons("expectNewline",
                      Cons("parseBlock", Cons("end", Cons("expectNewline", r))))))))
         /\ Parts["return"] \o r = Cons("value", Cons("expectNewline", r))
         /\ Parts["import"] \o r = Cons("importPath", r)
         /\ Parts["from"] \o r = Cons("fromPath", r)
         /\ Parts["try"] \o r =
              Cons("expectNewline", Cons("tryBody",
                  Cons("catch", Cons("ident",
                      Cons("expectNewline",
                          Cons("handlerBody", Cons("end", Cons("expectNewline", r))))))))
         /\ Parts["break"] \o r = Cons("expectNewline", r)
<1>0. DOMAIN Parts = {"let", "print", "if", "when", "loop", "for", "function", "return",
                      "import", "from", "try", "break"}
  BY DEF Parts
<1>1. Parts["let"] \o r = Cons("ident", Cons("=", Cons("parseExpr", Cons("expectNewline", r))))
  <2>. DEFINE s == <<"ident", "=", "parseExpr", "expectNewline">>
  <2>1. Parts["let"] = s
    BY DEF Parts
  <2>2. s \o r = Cons("ident", Cons("=", Cons("parseExpr", Cons("expectNewline", r))))
    BY ManyParts
  <2>. HIDE DEF s
  <2>. QED  BY <2>1, <2>2
<1>2. Parts["print"] \o r = Cons("parseExpr", Cons("expectNewline", r))
  <2>. DEFINE s == <<"parseExpr", "expectNewline">>
  <2>1. Parts["print"] = s
    BY DEF Parts
  <2>2. s \o r = Cons("parseExpr", Cons("expectNewline", r))
    BY TwoParts
  <2>. HIDE DEF s
  <2>. QED  BY <2>1, <2>2
<1>3. Parts["if"] \o r = Cons("parseExpr", Cons("branches", r))
  <2>. DEFINE s == <<"parseExpr", "branches">>
  <2>1. Parts["if"] = s
    BY DEF Parts
  <2>2. s \o r = Cons("parseExpr", Cons("branches", r))
    BY TwoParts
  <2>. HIDE DEF s
  <2>. QED  BY <2>1, <2>2
<1>4. Parts["when"] \o r = Cons("parseExpr",
        Cons("expectNewline", Cons("cases", Cons("end", Cons("expectNewline", r)))))
  <2>. DEFINE s == <<"parseExpr", "expectNewline", "cases", "end", "expectNewline">>
  <2>1. Parts["when"] = s
    BY DEF Parts
  <2>2. s \o r = Cons("parseExpr", Cons("expectNewline",
          Cons("cases", Cons("end", Cons("expectNewline", r)))))
    BY ManyParts
  <2>. HIDE DEF s
  <2>. QED  BY <2>1, <2>2
<1>5. Parts["loop"] \o r = Cons("parseExpr",
        Cons("expectNewline", Cons("parseBlock", Cons("end", Cons("expectNewline", r)))))
  <2>. DEFINE s == <<"parseExpr">> \o Block
  <2>1. Parts["loop"] = s
    BY DEF Parts
  <2>2. s \o r = Cons("parseExpr", Cons("expectNewline",
          Cons("parseBlock", Cons("end", Cons("expectNewline", r)))))
    BY LongParts
  <2>. HIDE DEF s
  <2>. QED  BY <2>1, <2>2
<1>6. Parts["for"] \o r = Cons("ident", Cons("range", r))
  <2>. DEFINE s == <<"ident", "range">>
  <2>1. Parts["for"] = s
    BY DEF Parts
  <2>2. s \o r = Cons("ident", Cons("range", r))
    BY TwoParts
  <2>. HIDE DEF s
  <2>. QED  BY <2>1, <2>2
<1>7. Parts["function"] \o r = Cons("ident",
        Cons("(", Cons("params", Cons(")",
            Cons("expectNewline", Cons("parseBlock", Cons("end", Cons("expectNewline", r))))))))
  <2>. DEFINE s == <<"ident", "(", "params", ")">> \o Block
  <2>1. Parts["function"] = s
    BY DEF Parts
  <2>2. s \o r = Cons("ident", Cons("(",
          Cons("params", Cons(")", Cons("expectNewline",
              Cons("parseBlock", Cons("end", Cons("expectNewline", r))))))))
    BY LongParts
  <2>. HIDE DEF s
  <2>. QED  BY <2>1, <2>2
<1>8. Parts["return"] \o r = Cons("value", Cons("expectNewline", r))
  <2>. DEFINE s == <<"value", "expectNewline">>
  <2>1. Parts["return"] = s
    BY DEF Parts
  <2>2. s \o r = Cons("value", Cons("expectNewline", r))
    BY TwoParts
  <2>. HIDE DEF s
  <2>. QED  BY <2>1, <2>2
<1>9. Parts["import"] \o r = Cons("importPath", r)
  <2>. DEFINE s == <<"importPath">>
  <2>1. Parts["import"] = s
    BY DEF Parts
  <2>2. s \o r = Cons("importPath", r)
    BY SinglePart
  <2>. HIDE DEF s
  <2>. QED  BY <2>1, <2>2
<1>10. Parts["from"] \o r = Cons("fromPath", r)
  <2>. DEFINE s == <<"fromPath">>
  <2>1. Parts["from"] = s
    BY DEF Parts
  <2>2. s \o r = Cons("fromPath", r)
    BY SinglePart
  <2>. HIDE DEF s
  <2>. QED  BY <2>1, <2>2
<1>11. Parts["try"] \o r = Cons("expectNewline",
         Cons("tryBody", Cons("catch", Cons("ident",
             Cons("expectNewline", Cons("handlerBody", Cons("end", Cons("expectNewline", r))))))))
  <2>. DEFINE s == <<"expectNewline", "tryBody", "catch", "ident", "expectNewline", "handlerBody",
         "end", "expectNewline">>
  <2>1. Parts["try"] = s
    BY DEF Parts
  <2>2. s \o r = Cons("expectNewline", Cons("tryBody",
          Cons("catch", Cons("ident", Cons("expectNewline",
              Cons("handlerBody", Cons("end", Cons("expectNewline", r))))))))
    BY LongParts
  <2>. HIDE DEF s
  <2>. QED  BY <2>1, <2>2
<1>12. Parts["break"] \o r = Cons("expectNewline", r)
  <2>. DEFINE s == <<"expectNewline">>
  <2>1. Parts["break"] = s
    BY DEF Parts
  <2>2. s \o r = Cons("expectNewline", r)
    BY SinglePart
  <2>. HIDE DEF s
  <2>. QED  BY <2>1, <2>2
<1>. QED  BY <1>0, <1>1, <1>2, <1>3, <1>4, <1>5, <1>6, <1>7, <1>8, <1>9, <1>10, <1>11, <1>12

LEMMA StepStmt ==
  ASSUME Inv, parseStmt
  PROVE  Inv'
<1>1. PICK c, y, s, r, n, m, u : Facing("parseStmt", c, y, s, r, n, m, u)
  BY Faced DEF parseStmt
<1>2. /\ s = Cons("one", r)
      /\ c = Rest /\ c \in Seq(Word) /\ r \in Seq(Word) /\ n = m /\ m \in Nat /\ n \in Nat
  <2>1. Weigh("parseStmt") = 0
    BY DEF Weigh, Closing, Branching
  <2>2. Owed("parseStmt") \o r = Cons("one", r)
    BY <1>1, OwedForms DEF Facing
  <2>. QED  BY <1>1, <2>1, <2>2 DEF Facing
<1>3. Held(c, y, r, m, TRUE)
  BY <1>1 DEF Facing, Inside
<1>4. p.repl_mode \in BOOLEAN
  BY Modes
<1>5. CASE p.current = "eof" /\ Turn(Rest)
  <2>. DEFINE d == c
              a == r
  <2>1. p.current = "eof" /\ Turn(d)
    BY <1>2, <1>5
  <2>2. Held(d, y, a, m, TRUE)
    BY <1>3, Zenon
  <2>3. Outcome(s, p.current, p.repl_mode) = Outcome(a, p.current, p.repl_mode)
    <3>1. Outcome(s, p.current, p.repl_mode) = Astray
      <4>1. p.current \notin StartsStatement(p.repl_mode) \cup {"newline"}
        BY <2>1, <1>4, StarterFacts
      <4>. QED  BY <1>2, <1>4, <4>1, OutcomeOne
    <3>2. y \in {"end", "elseStmt", "skipNewlines"}
      <4>1. Top(calls, "parseStmt") /\ c = Tail(calls) /\ Top(c, y)
        BY <1>2, <1>3 DEF parseStmt, Doing, Top, Held, Rest
      <4>2. Ready(calls)
        BY <2>1, <4>1 DEF Inv, Sound, Settled, Top
      <4>3. \E x \in {"end", "elseStmt", "skipNewlines"} : Top(c, x)
        BY <4>1, <4>2 DEF Ready, Top, Fleeting
      <4>. QED  BY <4>1, <4>3 DEF Top
    <3>3. CASE y = "skipNewlines"
      <4>1. Held(c, "skipNewlines", r, m, TRUE)
        BY <1>3, <3>3, Zenon
      <4>2. Outcome(r, "eof", p.repl_mode) = Astray
        BY <1>4, <4>1, BodyDue
      <4>. QED  BY <2>1, <3>1, <4>2
    <3>4. CASE y \in {"end", "elseStmt"}
      <4>1. p.current \notin {"end", "else", "is", "newline"}
        BY <2>1
      <4>2. Outcome(r, p.current, p.repl_mode) = Astray
        BY <1>3, <3>4, <4>1, EndDue
      <4>. QED  BY <3>1, <4>2
    <3>. QED  BY <3>2, <3>3, <3>4
  <2>4. m <= n
    BY <1>2
  <2>. HIDE DEF d, a
  <2>. QED  BY <1>1, <2>1, <2>2, <2>3, <2>4, TurnedTo
<1>6. CASE p.repl_mode /\ p.current \in ExprStart /\ Turn(<<"parseExpr", "expectNewline">> \o Rest)
  <2>. DEFINE d == Cons("parseExpr", Cons("expectNewline", c))
              a == Cons("expr", Cons("line", r))
  <2>1. <<"parseExpr", "expectNewline">> \o c = d
    BY <1>2, TwoParts
  <2>2. p.repl_mode = TRUE /\ p.current \in {"number", "string", "[", "("} /\ Turn(d)
    BY <1>2, <1>6, <2>1, <1>4 DEF ExprStart
  <2>3. Held(Cons("expectNewline", c), "expectNewline", Cons("line", r), m, TRUE)
    BY <1>3, PushExpectNewline, Zenon
  <2>4. Held(d, "parseExpr", a, m, TRUE)
    BY <2>3, PushParseExpr, Zenon
  <2>5. Outcome(s, p.current, p.repl_mode) = Outcome(a, p.current, p.repl_mode)
    <3>. DEFINE z == Cons("line", r)
    <3>1. z \in Seq(Word)
      BY <1>2, Conses, Words
    <3>2. Outcome(s, p.current, p.repl_mode) = Statement(p.current) \o r
      <4>1. p.current \in StartsStatement(p.repl_mode)
        BY <2>2, <1>4, StarterFacts
      <4>. QED  BY <1>2, <1>4, <4>1, OutcomeOne
    <3>3. CASE p.current \in {"number", "string"}
      <4>1. Statement(p.current) \o r = Cons("operators", z)
        BY <2>2, <1>2, <3>3, StatementFacts
      <4>. HIDE DEF z
      <4>2. Outcome(Cons("expr", z), p.current, p.repl_mode) = Cons("operators", z)
        BY <3>1, <3>3, OutcomeExpr
      <4>. QED  BY <3>2, <4>1, <4>2 DEF z
    <3>4. CASE p.current = "["
      <4>1. Statement("[") \o r = Cons("items", Cons("]", Cons("operators", z)))
        BY <2>2, <1>2, StatementFacts
      <4>. HIDE DEF z
      <4>2. Outcome(Cons("expr", z), p.current, p.repl_mode) =
              Cons("items", Cons("]", Cons("operators", z)))
        BY <3>1, <3>4, OutcomeExpr
      <4>. QED  BY <3>2, <3>4, <4>1, <4>2 DEF z
    <3>5. CASE p.current = "("
      <4>1. Statement("(") \o r = Cons("expr", Cons(")", Cons("operators", z)))
        BY <2>2, <1>2, StatementFacts
      <4>. HIDE DEF z
      <4>2. Outcome(Cons("expr", z), p.current, p.repl_mode) =
              Cons("expr", Cons(")", Cons("operators", z)))
        BY <3>1, <3>5, OutcomeExpr
      <4>. QED  BY <3>2, <3>5, <4>1, <4>2 DEF z
    <3>. QED  BY <2>2, <3>3, <3>4, <3>5
  <2>6. m <= n
    BY <1>2
  <2>. HIDE DEF d, a
  <2>. QED  BY <1>1, <2>2, <2>4, <2>5, <2>6, TurnedTo
<1>7. CASE On({"let"}, Parts["let"])
  <2>. DEFINE d == Cons("ident", Cons("=", Cons("parseExpr", Cons("expectNewline", c))))
              a == Cons("ident", Cons("=", Cons("expr", Cons("line", r))))
  <2>1. Parts["let"] \o c = d
    BY <1>2, StatementParts
  <2>2. p.current = "let" /\ Take(d)
    BY <1>2, <1>7, <2>1 DEF On, Otherwise
  <2>3. Held(Cons("expectNewline", c), "expectNewline", Cons("line", r), m, TRUE)
    BY <1>3, PushExpectNewline, Zenon
  <2>4. Held(Cons("parseExpr", Cons("expectNewline", c)), "parseExpr",
             Cons("expr", Cons("line", r)), m, TRUE)
    BY <2>3, PushParseExpr, Zenon
  <2>5. Held(Cons("=", Cons("parseExpr", Cons("expectNewline", c))), "=",
             Cons("=", Cons("expr", Cons("line", r))), m, TRUE)
    BY <2>4, PushEquals, Zenon
  <2>6. Held(d, "ident", a, m, TRUE)
    BY <2>5, PushIdent, Zenon
  <2>7. Outcome(s, p.current, p.repl_mode) = a
    <3>1. "let" \in StartsStatement(p.repl_mode)
      BY <1>4, StarterFacts
    <3>2. Outcome(s, p.current, p.repl_mode) = Statement("let") \o r
      BY <1>2, <2>2, <1>4, <3>1, OutcomeOne
    <3>. QED  BY <1>2, <3>2, StatementFacts
  <2>8. Room(m, n)
    BY <1>2, <2>2, OpenerFacts DEF Room
  <2>. HIDE DEF d, a
  <2>. QED  BY <1>1, <2>2, <2>6, <2>7, <2>8, TakenTo
<1>8. CASE On({"print"}, Parts["print"])
  <2>. DEFINE d == Cons("parseExpr", Cons("expectNewline", c))
              a == Cons("expr", Cons("line", r))
  <2>1. Parts["print"] \o c = d
    BY <1>2, StatementParts
  <2>2. p.current = "print" /\ Take(d)
    BY <1>2, <1>8, <2>1 DEF On, Otherwise
  <2>3. Held(Cons("expectNewline", c), "expectNewline", Cons("line", r), m, TRUE)
    BY <1>3, PushExpectNewline, Zenon
  <2>4. Held(d, "parseExpr", a, m, TRUE)
    BY <2>3, PushParseExpr, Zenon
  <2>5. Outcome(s, p.current, p.repl_mode) = a
    <3>1. "print" \in StartsStatement(p.repl_mode)
      BY <1>4, StarterFacts
    <3>2. Outcome(s, p.current, p.repl_mode) = Statement("print") \o r
      BY <1>2, <2>2, <1>4, <3>1, OutcomeOne
    <3>. QED  BY <1>2, <3>2, StatementFacts
  <2>6. Room(m, n)
    BY <1>2, <2>2, OpenerFacts DEF Room
  <2>. HIDE DEF d, a
  <2>. QED  BY <1>1, <2>2, <2>4, <2>5, <2>6, TakenTo
<1>9. CASE On({"if"}, Parts["if"])
  <2>. DEFINE d == Cons("parseExpr", Cons("branches", c))
              a == Cons("expr", Cons("branches", r))
  <2>1. Parts["if"] \o c = d
    BY <1>2, StatementParts
  <2>2. p.current = "if" /\ Take(d)
    BY <1>2, <1>9, <2>1 DEF On, Otherwise
  <2>3. Held(Cons("branches", c), "branches", Cons("branches", r), m + 1, FALSE)
    BY <1>3, PushBranches
  <2>4. Held(d, "parseExpr", a, m + 1, FALSE)
    BY <2>3, PushParseExpr
  <2>5. Outcome(s, p.current, p.repl_mode) = a
    <3>1. "if" \in StartsStatement(p.repl_mode)
      BY <1>4, StarterFacts
    <3>2. Outcome(s, p.current, p.repl_mode) = Statement("if") \o r
      BY <1>2, <2>2, <1>4, <3>1, OutcomeOne
    <3>. QED  BY <1>2, <3>2, StatementFacts
  <2>6. Room(m + 1, n)
    BY <1>2, <2>2, OpenerFacts DEF Room
  <2>. HIDE DEF d, a
  <2>. QED  BY <1>1, <2>2, <2>4, <2>5, <2>6, TakenTo
<1>10. CASE On({"when"}, Parts["when"])
  <2>. DEFINE d == Cons("parseExpr", Cons("expectNewline",
         Cons("cases", Cons("end", Cons("expectNewline", c)))))
              a == Cons("expr", Cons("line", Cons("cases", Cons("end", Cons("line", r)))))
  <2>1. Parts["when"] \o c = d
    BY <1>2, StatementParts
  <2>2. p.current = "when" /\ Take(d)
    BY <1>2, <1>10, <2>1 DEF On, Otherwise
  <2>3. Held(Cons("expectNewline", c), "expectNewline", Cons("line", r), m, TRUE)
    BY <1>3, PushExpectNewline, Zenon
  <2>4. Held(Cons("end", Cons("expectNewline", c)), "end",
             Cons("end", Cons("line", r)), m + 1, TRUE)
    BY <2>3, PushEnd
  <2>5. Held(Cons("cases", Cons("end", Cons("expectNewline", c))), "cases",
             Cons("cases", Cons("end", Cons("line", r))), m + 1, TRUE)
    BY <2>4, PushCases
  <2>6. Held(Cons("expectNewline", Cons("cases", Cons("end", Cons("expectNewline", c)))),
          "expectNewline",
             Cons("line", Cons("cases", Cons("end", Cons("line", r)))), m + 1, TRUE)
    BY <2>5, PushExpectNewline
  <2>7. Held(d, "parseExpr", a, m + 1, TRUE)
    BY <2>6, PushParseExpr
  <2>8. Outcome(s, p.current, p.repl_mode) = a
    <3>1. "when" \in StartsStatement(p.repl_mode)
      BY <1>4, StarterFacts
    <3>2. Outcome(s, p.current, p.repl_mode) = Statement("when") \o r
      BY <1>2, <2>2, <1>4, <3>1, OutcomeOne
    <3>. QED  BY <1>2, <3>2, StatementFacts
  <2>9. Room(m + 1, n)
    BY <1>2, <2>2, OpenerFacts DEF Room
  <2>. HIDE DEF d, a
  <2>. QED  BY <1>1, <2>2, <2>7, <2>8, <2>9, TakenTo
<1>11. CASE On({"loop"}, Parts["loop"])
  <2>. DEFINE d == Cons("parseExpr", Cons("expectNewline",
         Cons("parseBlock", Cons("end", Cons("expectNewline", c)))))
              a == Cons("expr", Cons("line", Cons("statements", Cons("end", Cons("line", r)))))
  <2>1. Parts["loop"] \o c = d
    BY <1>2, StatementParts
  <2>2. p.current = "loop" /\ Take(d)
    BY <1>2, <1>11, <2>1 DEF On, Otherwise
  <2>3. Held(Cons("expectNewline", c), "expectNewline", Cons("line", r), m, TRUE)
    BY <1>3, PushExpectNewline, Zenon
  <2>4. Held(Cons("end", Cons("expectNewline", c)), "end",
             Cons("end", Cons("line", r)), m + 1, TRUE)
    BY <2>3, PushEnd
  <2>5. Held(Cons("parseBlock", Cons("end", Cons("expectNewline", c))), "parseBlock",
             Cons("statements", Cons("end", Cons("line", r))), m + 1, TRUE)
    BY <2>4, PushParseBlock
  <2>6. Held(Cons("expectNewline", Cons("parseBlock", Cons("end", Cons("expectNewline", c)))),
          "expectNewline",
             Cons("line", Cons("statements", Cons("end", Cons("line", r)))), m + 1, TRUE)
    BY <2>5, PushExpectNewline
  <2>7. Held(d, "parseExpr", a, m + 1, TRUE)
    BY <2>6, PushParseExpr
  <2>8. Outcome(s, p.current, p.repl_mode) = a
    <3>1. "loop" \in StartsStatement(p.repl_mode)
      BY <1>4, StarterFacts
    <3>2. Outcome(s, p.current, p.repl_mode) = Statement("loop") \o r
      BY <1>2, <2>2, <1>4, <3>1, OutcomeOne
    <3>. QED  BY <1>2, <3>2, StatementFacts
  <2>9. Room(m + 1, n)
    BY <1>2, <2>2, OpenerFacts DEF Room
  <2>. HIDE DEF d, a
  <2>. QED  BY <1>1, <2>2, <2>7, <2>8, <2>9, TakenTo
<1>12. CASE On({"for"}, Parts["for"])
  <2>. DEFINE d == Cons("ident", Cons("range", c))
              a == Cons("ident", Cons("range", r))
  <2>1. Parts["for"] \o c = d
    BY <1>2, StatementParts
  <2>2. p.current = "for" /\ Take(d)
    BY <1>2, <1>12, <2>1 DEF On, Otherwise
  <2>3. Held(Cons("range", c), "range", Cons("range", r), m + 1, FALSE)
    BY <1>3, PushRange
  <2>4. Held(d, "ident", a, m + 1, FALSE)
    BY <2>3, PushIdent
  <2>5. Outcome(s, p.current, p.repl_mode) = a
    <3>1. "for" \in StartsStatement(p.repl_mode)
      BY <1>4, StarterFacts
    <3>2. Outcome(s, p.current, p.repl_mode) = Statement("for") \o r
      BY <1>2, <2>2, <1>4, <3>1, OutcomeOne
    <3>. QED  BY <1>2, <3>2, StatementFacts
  <2>6. Room(m + 1, n)
    BY <1>2, <2>2, OpenerFacts DEF Room
  <2>. HIDE DEF d, a
  <2>. QED  BY <1>1, <2>2, <2>4, <2>5, <2>6, TakenTo
<1>13. CASE On({"function"}, Parts["function"])
  <2>. DEFINE d == Cons("ident", Cons("(",
         Cons("params", Cons(")", Cons("expectNewline",
             Cons("parseBlock", Cons("end", Cons("expectNewline", c))))))))
              a == Cons("ident", Cons("(",
                  Cons("params", Cons(")",
                      Cons("line", Cons("statements", Cons("end", Cons("line", r))))))))
  <2>1. Parts["function"] \o c = d
    BY <1>2, StatementParts
  <2>2. p.current = "function" /\ Take(d)
    BY <1>2, <1>13, <2>1 DEF On, Otherwise
  <2>3. Held(Cons("expectNewline", c), "expectNewline", Cons("line", r), m, TRUE)
    BY <1>3, PushExpectNewline, Zenon
  <2>4. Held(Cons("end", Cons("expectNewline", c)), "end",
             Cons("end", Cons("line", r)), m + 1, TRUE)
    BY <2>3, PushEnd
  <2>5. Held(Cons("parseBlock", Cons("end", Cons("expectNewline", c))), "parseBlock",
             Cons("statements", Cons("end", Cons("line", r))), m + 1, TRUE)
    BY <2>4, PushParseBlock
  <2>6. Held(Cons("expectNewline", Cons("parseBlock", Cons("end", Cons("expectNewline", c)))),
          "expectNewline",
             Cons("line", Cons("statements", Cons("end", Cons("line", r)))), m + 1, TRUE)
    BY <2>5, PushExpectNewline
  <2>7. Held(Cons(")", Cons("expectNewline",
          Cons("parseBlock", Cons("end", Cons("expectNewline", c))))), ")",
             Cons(")", Cons("line", Cons("statements", Cons("end", Cons("line", r))))), m + 1 + 1,
                 TRUE)
    BY <2>6, PushClose
  <2>8. Held(Cons("params", Cons(")", Cons("expectNewline",
          Cons("parseBlock", Cons("end", Cons("expectNewline", c)))))), "params",
             Cons("params", Cons(")", Cons("line",
                 Cons("statements", Cons("end", Cons("line", r)))))), m + 1 + 1, TRUE)
    BY <2>7, PushParams
  <2>9. Held(Cons("(", Cons("params", Cons(")",
          Cons("expectNewline", Cons("parseBlock", Cons("end", Cons("expectNewline", c))))))), "(",
             Cons("(", Cons("params", Cons(")",
                 Cons("line", Cons("statements", Cons("end", Cons("line", r))))))), m + 1 + 1, TRUE)
    BY <2>8, PushOpen
  <2>10. Held(d, "ident", a, m + 1 + 1, TRUE)
    BY <2>9, PushIdent
  <2>11. Outcome(s, p.current, p.repl_mode) = a
    <3>1. "function" \in StartsStatement(p.repl_mode)
      BY <1>4, StarterFacts
    <3>2. Outcome(s, p.current, p.repl_mode) = Statement("function") \o r
      BY <1>2, <2>2, <1>4, <3>1, OutcomeOne
    <3>. QED  BY <1>2, <3>2, StatementFacts
  <2>12. Room(m + 1 + 1, n)
    BY <1>2, <2>2, OpenerFacts DEF Room
  <2>. HIDE DEF d, a
  <2>. QED  BY <1>1, <2>2, <2>10, <2>11, <2>12, TakenTo
<1>14. CASE On({"return"}, Parts["return"])
  <2>. DEFINE d == Cons("value", Cons("expectNewline", c))
              a == Cons("value", Cons("line", r))
  <2>1. Parts["return"] \o c = d
    BY <1>2, StatementParts
  <2>2. p.current = "return" /\ Take(d)
    BY <1>2, <1>14, <2>1 DEF On, Otherwise
  <2>3. Held(Cons("expectNewline", c), "expectNewline", Cons("line", r), m, TRUE)
    BY <1>3, PushExpectNewline, Zenon
  <2>4. Held(d, "value", a, m, TRUE)
    BY <2>3, PushValue, Zenon
  <2>5. Outcome(s, p.current, p.repl_mode) = a
    <3>1. "return" \in StartsStatement(p.repl_mode)
      BY <1>4, StarterFacts
    <3>2. Outcome(s, p.current, p.repl_mode) = Statement("return") \o r
      BY <1>2, <2>2, <1>4, <3>1, OutcomeOne
    <3>. QED  BY <1>2, <3>2, StatementFacts
  <2>6. Room(m, n)
    BY <1>2, <2>2, OpenerFacts DEF Room
  <2>. HIDE DEF d, a
  <2>. QED  BY <1>1, <2>2, <2>4, <2>5, <2>6, TakenTo
<1>15. CASE On({"import"}, Parts["import"])
  <2>. DEFINE d == Cons("importPath", c)
              a == Cons("path", Cons("line", r))
  <2>1. Parts["import"] \o c = d
    BY <1>2, StatementParts
  <2>2. p.current = "import" /\ Take(d)
    BY <1>2, <1>15, <2>1 DEF On, Otherwise
  <2>3. Held(d, "importPath", a, m, TRUE)
    BY <1>3, PushImportPath, Zenon
  <2>4. Outcome(s, p.current, p.repl_mode) = a
    <3>1. "import" \in StartsStatement(p.repl_mode)
      BY <1>4, StarterFacts
    <3>2. Outcome(s, p.current, p.repl_mode) = Statement("import") \o r
      BY <1>2, <2>2, <1>4, <3>1, OutcomeOne
    <3>. QED  BY <1>2, <3>2, StatementFacts
  <2>5. Room(m, n)
    BY <1>2, <2>2, OpenerFacts DEF Room
  <2>. HIDE DEF d, a
  <2>. QED  BY <1>1, <2>2, <2>3, <2>4, <2>5, TakenTo
<1>16. CASE On({"from"}, Parts["from"])
  <2>. DEFINE d == Cons("fromPath", c)
              a == Cons("path", Cons("import", Cons("ident", Cons("names", Cons("line", r)))))
  <2>1. Parts["from"] \o c = d
    BY <1>2, StatementParts
  <2>2. p.current = "from" /\ Take(d)
    BY <1>2, <1>16, <2>1 DEF On, Otherwise
  <2>3. Held(d, "fromPath", a, m, TRUE)
    BY <1>3, PushFromPath, Zenon
  <2>4. Outcome(s, p.current, p.repl_mode) = a
    <3>1. "from" \in StartsStatement(p.repl_mode)
      BY <1>4, StarterFacts
    <3>2. Outcome(s, p.current, p.repl_mode) = Statement("from") \o r
      BY <1>2, <2>2, <1>4, <3>1, OutcomeOne
    <3>. QED  BY <1>2, <3>2, StatementFacts
  <2>5. Room(m, n)
    BY <1>2, <2>2, OpenerFacts DEF Room
  <2>. HIDE DEF d, a
  <2>. QED  BY <1>1, <2>2, <2>3, <2>4, <2>5, TakenTo
<1>17. CASE On({"try"}, Parts["try"])
  <2>. DEFINE d == Cons("expectNewline",
         Cons("tryBody", Cons("catch", Cons("ident",
             Cons("expectNewline", Cons("handlerBody", Cons("end", Cons("expectNewline", c))))))))
              a == Cons("line", Cons("guarded",
                  Cons("catch", Cons("ident",
                      Cons("line", Cons("guarded", Cons("end", Cons("line", r))))))))
  <2>1. Parts["try"] \o c = d
    BY <1>2, StatementParts
  <2>2. p.current = "try" /\ Take(d)
    BY <1>2, <1>17, <2>1 DEF On, Otherwise
  <2>3. Held(Cons("expectNewline", c), "expectNewline", Cons("line", r), m, TRUE)
    BY <1>3, PushExpectNewline, Zenon
  <2>4. Held(Cons("end", Cons("expectNewline", c)), "end",
             Cons("end", Cons("line", r)), m + 1, TRUE)
    BY <2>3, PushEnd
  <2>5. Held(Cons("handlerBody", Cons("end", Cons("expectNewline", c))), "handlerBody",
             Cons("guarded", Cons("end", Cons("line", r))), m + 1, TRUE)
    BY <2>4, PushHandlerBody
  <2>6. Held(Cons("expectNewline", Cons("handlerBody", Cons("end", Cons("expectNewline", c)))),
          "expectNewline",
             Cons("line", Cons("guarded", Cons("end", Cons("line", r)))), m + 1, TRUE)
    BY <2>5, PushExpectNewline
  <2>7. Held(Cons("ident", Cons("expectNewline",
          Cons("handlerBody", Cons("end", Cons("expectNewline", c))))), "ident",
             Cons("ident", Cons("line", Cons("guarded", Cons("end", Cons("line", r))))), m + 1,
                 TRUE)
    BY <2>6, PushIdent
  <2>8. Held(Cons("catch", Cons("ident",
          Cons("expectNewline", Cons("handlerBody", Cons("end", Cons("expectNewline", c)))))),
              "catch",
             Cons("catch", Cons("ident",
                 Cons("line", Cons("guarded", Cons("end", Cons("line", r)))))), m + 1, TRUE)
    BY <2>7, PushCatch
  <2>9. Held(Cons("tryBody", Cons("catch",
          Cons("ident", Cons("expectNewline",
              Cons("handlerBody", Cons("end", Cons("expectNewline", c))))))), "tryBody",
             Cons("guarded", Cons("catch",
                 Cons("ident", Cons("line", Cons("guarded", Cons("end", Cons("line", r))))))),
                     m + 1, TRUE)
    BY <2>8, PushTryBody
  <2>10. Held(d, "expectNewline", a, m + 1, TRUE)
    BY <2>9, PushExpectNewline
  <2>11. Outcome(s, p.current, p.repl_mode) = a
    <3>1. "try" \in StartsStatement(p.repl_mode)
      BY <1>4, StarterFacts
    <3>2. Outcome(s, p.current, p.repl_mode) = Statement("try") \o r
      BY <1>2, <2>2, <1>4, <3>1, OutcomeOne
    <3>. QED  BY <1>2, <3>2, StatementFacts
  <2>12. Room(m + 1, n)
    BY <1>2, <2>2, OpenerFacts DEF Room
  <2>. HIDE DEF d, a
  <2>. QED  BY <1>1, <2>2, <2>10, <2>11, <2>12, TakenTo
<1>18. CASE On({"break"}, Parts["break"])
  <2>. DEFINE d == Cons("expectNewline", c)
              a == Cons("line", r)
  <2>1. Parts["break"] \o c = d
    BY <1>2, StatementParts
  <2>2. p.current = "break" /\ Take(d)
    BY <1>2, <1>18, <2>1 DEF On, Otherwise
  <2>3. Held(d, "expectNewline", a, m, TRUE)
    BY <1>3, PushExpectNewline, Zenon
  <2>4. Outcome(s, p.current, p.repl_mode) = a
    <3>1. "break" \in StartsStatement(p.repl_mode)
      BY <1>4, StarterFacts
    <3>2. Outcome(s, p.current, p.repl_mode) = Statement("break") \o r
      BY <1>2, <2>2, <1>4, <3>1, OutcomeOne
    <3>. QED  BY <1>2, <3>2, StatementFacts
  <2>5. Room(m, n)
    BY <1>2, <2>2, OpenerFacts DEF Room
  <2>. HIDE DEF d, a
  <2>. QED  BY <1>1, <2>2, <2>3, <2>4, <2>5, TakenTo
<1>19. CASE On(Names \ {"from"}, <<"nameStmt">>)
  <2>. DEFINE d == Cons("nameStmt", c)
              a == Cons("action", Cons("line", r))
  <2>1. <<"nameStmt">> \o c = d
    BY <1>2, SinglePart
  <2>2. p.current \in Names \ {"from"} /\ Take(d)
    BY <1>2, <1>19, <2>1 DEF On, Otherwise
  <2>3. Held(d, "nameStmt", a, m, TRUE)
    BY <1>3, PushNameStmt, Zenon
  <2>4. Outcome(s, p.current, p.repl_mode) = a
    <3>1. p.current \in StartsStatement(p.repl_mode)
      BY <2>2, <1>4, StarterFacts, TokenFacts
    <3>2. Outcome(s, p.current, p.repl_mode) = Statement(p.current) \o r
      BY <1>2, <1>4, <3>1, OutcomeOne
    <3>. QED  BY <1>2, <2>2, <3>2, StatementFacts
  <2>5. Room(m, n)
    BY <1>2, <2>2, OpenerFacts, TokenFacts DEF Room
  <2>. HIDE DEF d, a
  <2>. QED  BY <1>1, <2>2, <2>3, <2>4, <2>5, TakenTo
<1>20. CASE p.current \in {"end", "else"} /\ Advance(p, Rest) /\ strays' = TRUE
  <2>1. p.current \in {"end", "else"} /\ Advance(p, c) /\ strays' = TRUE /\ strays' \in BOOLEAN
    BY <1>2, <1>20
  <2>2. TRUE \in BOOLEAN /\ Owing(c, r, m, TRUE) /\ Ready(c)
    BY <1>3, HeldReady
  <2>3. Outcome(s, p.current, p.repl_mode) = Astray
    <3>1. p.current \notin StartsStatement(p.repl_mode) \cup {"newline"}
      BY <2>1, <1>4, StarterFacts
    <3>. QED  BY <1>2, <1>4, <3>1, OutcomeOne
  <2>4. m <= n /\ p.current # "eof" /\ p \in {p, ErrorAt(p)}
    BY <1>2, <2>1
  <2>5. PICK w : Tracks(p, calls, expected, strays, s, n, w)
    BY <1>1 DEF Facing
  <2>. QED  BY <2>1, <2>2, <2>3, <2>4, <2>5, TakenRefused
<1>21. CASE p.current \notin {"eof", "newline", "end", "else"} \cup DOMAIN Parts \cup Names
             /\ ~ (p.repl_mode /\ p.current \in ExprStart)
             /\ Advance(ErrorAt(p), <<"recover">> \o Rest) /\ UNCHANGED strays
  <2>. DEFINE d == Cons("recover", c)
              a == r
  <2>1. <<"recover">> \o c = d
    BY <1>2, SinglePart
  <2>2. p.current \notin {"eof", "newline", "end", "else"} \cup DOMAIN Parts \cup Names
        /\ ~ (p.repl_mode /\ p.current \in ExprStart)
         /\ Advance(ErrorAt(p), d) /\ UNCHANGED strays
    BY <1>2, <1>21, <2>1
  <2>3. Owing(d, a, m, TRUE) /\ Top(d, "recover")
    BY <1>3, PushRecover, Zenon
  <2>4. Outcome(s, p.current, p.repl_mode) = Astray
    <3>1. p.current \notin StartsStatement(p.repl_mode) \cup {"newline"}
      <4>1. p.current \notin {"newline", "number", "string", "(", "["} \cup DOMAIN Parts \cup Names
            \/ (p.current \notin {"newline"} \cup DOMAIN Parts \cup Names /\ ~ p.repl_mode)
        BY <2>2 DEF ExprStart
      <4>2. DOMAIN Parts = {"let", "print", "if", "when", "loop", "for", "function", "return",
                            "import", "from", "try", "break"}
        BY <1>2, StatementParts
      <4>. QED  BY <1>4, <4>1, <4>2, StarterFacts, TokenFacts
    <3>. QED  BY <1>2, <1>4, <3>1, OutcomeOne
  <2>5. m <= n /\ p.current # "eof"
    BY <1>2, <2>2
  <2>. HIDE DEF d, a
  <2>. QED  BY <1>1, <2>2, <2>3, <2>4, <2>5, RefusedOn
<1>22. ASSUME NEW t \in DOMAIN Parts, On({t}, Parts[t]) PROVE Inv'
  <2>1. t \in {"let", "print", "if", "when", "loop", "for", "function", "return", "import",
               "from", "try", "break"}
    BY <1>2, StatementParts
  <2>. QED  BY <1>22, <2>1, <1>7, <1>8, <1>9, <1>10, <1>11, <1>12,
               <1>13, <1>14, <1>15, <1>16, <1>17, <1>18
<1>. QED  BY <1>5, <1>6, <1>19, <1>20, <1>21, <1>22 DEF parseStmt, Doing

(***************************************************************************)
(* The whole.                                                              *)
(***************************************************************************)
LEMMA AtFirst ==
  \E u \in BOOLEAN : Owing(<<"program">>, <<"statements">>, 0, u)
<1>. DEFINE x == "program"
            c == <<x>>
<1>1. x \in Word /\ c \in Seq(Word) /\ Len(c) = 1 /\ c[1] = x
  BY Words
<1>2. <<"statements">> \in Seq(Word)
  BY Words, Tuples
<1>3. Owed(x) = <<"statements">> /\ x \notin Branching /\ Weigh(x) = 0 /\ x = "program"
  BY DEF Owed, Branching, Weigh, Closing
<1>4. Weight(c) = 0
  <2>1. <<>> \in Seq(Word) /\ c = Cons(x, <<>>)
    BY <1>1 DEF Cons
  <2>2. Weight(<<>>) = 0
    BY NoneMarked DEF Weight
  <2>. HIDE DEF c, x
  <2>3. Weight(Cons(x, <<>>)) = Weight(<<>>) + Weigh(x)
    BY <1>1, <2>1, Weights
  <2>. QED  BY <1>3, <2>1, <2>2, <2>3
<1>. HIDE DEF x, c
<1>5. Orderly(c) /\ Unbranched(c)
  BY <1>1, <1>3 DEF Orderly, Unbranched
<1>6. Spells(c, <<"statements">>)
  <2>. DEFINE s == <<"statements">>
              f == [i \in 1..2 |-> IF i = 1 THEN s ELSE <<>>]
  <2>1. s \in Seq(Word) /\ s \o <<>> = s /\ <<>> \in Seq(Word) /\ OwedAt(c, 1) = s
    BY <1>1, <1>2, <1>3 DEF OwedAt
  <2>. HIDE DEF s
  <2>2. f \in [1..Len(c) + 1 -> Seq(Word)] /\ f[1] = s /\ f[Len(c) + 1] = <<>>
        /\ \A i \in 1..Len(c) : f[i] = OwedAt(c, i) \o f[i + 1]
    BY <1>1, <2>1
  <2>. HIDE DEF f
  <2>3. Spells(c, s)
    BY <2>2 DEF Spells
  <2>. QED  BY <2>3 DEF s
<1>7. Owing(c, <<"statements">>, 0, TRUE)
  BY <1>1, <1>2, <1>4, <1>5, <1>6 DEF Owing
<1>. QED  BY <1>7 DEF c, x

LEMMA InvInit ==
  ASSUME Init
  PROVE  Inv
<1>1. PICK t \in Tokens \cup {"eof"}, bad \in BOOLEAN, repl \in BOOLEAN :
        /\ p = Read(Fresh(repl), bad, t)
        /\ expected = IF bad THEN Astray ELSE Derive(Program, t, repl)
  BY DEF Init
<1>2. calls = <<"program">> /\ read = TRUE /\ strays = FALSE
  BY DEF Init
<1>3. Typed(Fresh(repl)) /\ Fresh(repl).repl_mode = repl /\ Fresh(repl).had_error = FALSE
  BY DEF Typed, Fresh, Tokens
<1>4. Typed(p) /\ p.current = t /\ p.repl_mode = repl /\ p.had_error = bad
  BY <1>1, <1>3, ReadFacts
<1>5. Settled(p, calls)
  BY <1>2 DEF Settled, Ready, Fleeting
<1>6. Bounded(p, 0)
  BY NestingAssumption DEF Bounded
<1>7. ASSUME With = {} PROVE Agrees(p, Program, expected, strays)
  <2>1. Program \in Seq(Word)
    BY Words, Tuples DEF Program
  <2>2. Outcome(Program, t, repl) =
          IF t = "eof" /\ Derive(Program, t, repl) # Astray THEN <<>> ELSE Derive(Program, t, repl)
    BY <1>7, <2>1, DerivedOutcome, DerivedIsDerive
  <2>. QED  BY <1>1, <1>2, <1>4, <2>2 DEF Agrees
<1>8. PICK u \in BOOLEAN : Owing(<<"program">>, <<"statements">>, 0, u)
  BY AtFirst
<1>9. Tracks(p, calls, expected, strays, Program, 0, u)
  BY <1>2, <1>6, <1>7, <1>8 DEF Tracks, Program
<1>. QED  BY <1>2, <1>4, <1>5, <1>9 DEF Inv, Sound

LEMMA InvStatements ==
  ASSUME Inv, parse \/ parseStmt \/ Recover \/ parseBlock \/ nameStmt \/ parseIfStmt
  PROVE  Inv'
<1>1. CASE parse
  <2>1. Doing("program") \/ Doing("nextStmt")
    BY <1>1 DEF parse
  <2>. QED  BY <1>1, <2>1, StepProgram, StepNextStmt
<1>2. CASE parseStmt
  BY <1>2, StepStmt
<1>3. CASE Recover
  <2>1. Doing("recover") \/ Doing("calm")
    BY <1>3 DEF Recover
  <2>. QED  BY <1>3, <2>1, StepRecover, StepCalm
<1>4. CASE parseBlock
  <2>1. Doing("parseBlock")
    BY <1>4 DEF parseBlock
  <2>. QED  BY <1>4, <2>1, StepParseBlock
<1>5. CASE nameStmt
  <2>1. Doing("nameStmt") \/ Doing("element") \/ Doing("arguments")
    BY <1>5 DEF nameStmt
  <2>. QED  BY <1>5, <2>1, StepNameStmt, StepElement, StepArguments
<1>6. CASE parseIfStmt
  <2>1. Doing("branches") \/ Doing("elseStmt") \/ Doing("elseBlock")
    BY <1>6 DEF parseIfStmt
  <2>. QED  BY <1>6, <2>1, StepBranches, StepElseStmt, StepElseBlock
<1>. QED  BY <1>1, <1>2, <1>3, <1>4, <1>5, <1>6

LEMMA InvParts ==
  ASSUME Inv, parseWhen \/ parseForStmt \/ parseFunctionDecl \/ parseReturnStmt
              \/ parsePath \/ parseImportStmt \/ parseFromImportStmt \/ parseTryStmt
  PROVE  Inv'
<1>1. CASE parseWhen
  <2>1. \/ Doing("cases") \/ Doing("caseStart") \/ Doing("moreValues") \/ Doing("extra")
        \/ Doing("caseBody")
    BY <1>1 DEF parseWhen
  <2>. QED  BY <1>1, <2>1, StepCases, StepCaseStart, StepMoreValues, StepExtra, StepCaseBody
<1>2. CASE parseForStmt
  <2>1. Doing("range") \/ Doing("bound") \/ Doing("increment")
    BY <1>2 DEF parseForStmt
  <2>. QED  BY <1>2, <2>1, StepRange, StepBound, StepIncrement
<1>3. CASE parseFunctionDecl
  <2>1. \/ Doing("params") \/ Doing("defaults") \/ Doing("default") \/ Doing("dueDefault")
        \/ Doing("moreParams") \/ Doing("moreDefaults")
    BY <1>3 DEF parseFunctionDecl, Doing
  <2>. QED  BY <1>3, <2>1, StepParams, StepDefaults, StepDefault, StepDueDefault,
               StepMoreParams, StepMoreDefaults
<1>4. CASE parseReturnStmt
  BY <1>4, StepValue
<1>5. CASE parsePath
  <2>1. Doing("importPath") \/ Doing("fromPath") \/ Doing("slash") \/ Doing("segment")
    BY <1>5 DEF parsePath, Doing
  <2>. QED  BY <1>5, <2>1, StepImportPath, StepFromPath, StepSlash, StepSegment
<1>6. CASE parseImportStmt
  <2>1. Doing("alias") \/ Doing("aliasName")
    BY <1>6 DEF parseImportStmt
  <2>. QED  BY <1>6, <2>1, StepAlias, StepAliasName
<1>7. CASE parseFromImportStmt
  <2>1. Doing("imports") \/ Doing("firstName") \/ Doing("moreNames") \/ Doing("name")
    BY <1>7 DEF parseFromImportStmt
  <2>. QED  BY <1>7, <2>1, StepImports, StepFirstName, StepMoreNames, StepName
<1>8. CASE parseTryStmt
  <2>1. Doing("tryBody") \/ Doing("handlerBody")
    BY <1>8 DEF parseTryStmt
  <2>. QED  BY <1>8, <2>1, StepTryBody, StepHandlerBody
<1>. QED  BY <1>1, <1>2, <1>3, <1>4, <1>5, <1>6, <1>7, <1>8

LEMMA InvHelpers ==
  ASSUME Inv, parsePrimary \/ parseCall \/ parseItems \/ parseExprWithLeft
              \/ expect \/ skipNewlines \/ NewlinesSkipped \/ expectNewline
  PROVE  Inv'
<1>1. CASE parseItems
  <2>1. Doing("items") \/ Doing("moreItems")
    BY <1>1 DEF parseItems
  <2>. QED  BY <1>1, <2>1, StepItems, StepMoreItems
<1>2. CASE expect
  <2>. DEFINE x == Head(calls)
  <2>1. x \in Tokens /\ Doing(x)
    BY <1>2 DEF expect, Doing
  <2>. HIDE DEF x
  <2>. QED  BY <1>2, <2>1, StepToken
<1>3. CASE parsePrimary \/ parseCall \/ parseExprWithLeft
  BY <1>3, StepPrimary, StepCall, StepExprWithLeft
<1>4. CASE skipNewlines \/ NewlinesSkipped \/ expectNewline
  BY <1>4, StepBlankLine, StepSkipped, StepExpectNewline
<1>. QED  BY <1>1, <1>2, <1>3, <1>4

LEMMA InvStep ==
  ASSUME Inv, [Next]_vars
  PROVE  Inv'
<1>1. CASE UNCHANGED vars
  <2>1. /\ UNCHANGED p /\ UNCHANGED calls /\ UNCHANGED expected /\ UNCHANGED strays
        /\ UNCHANGED read
    BY <1>1 DEF vars
  <2>. QED  BY <2>1 DEF Inv
<1>2. CASE Next
  BY <1>1, <1>2, InvStatements, InvParts, InvHelpers DEF Next, Stop
<1>. QED  BY <1>1, <1>2

\* What remains to be done is what the grammar expects, at every moment of
\* the parse of any text.
THEOREM Tracking == Spec => []Inv
<1>1. Init => Inv
  BY InvInit
<1>2. Inv /\ [Next]_vars => Inv'
  BY InvStep
<1>. QED  BY <1>1, <1>2, PTL DEF Spec

(***************************************************************************)
(* The parser is well-formed whatever is parsed, panic mode is never on    *)
(* without had_error, and after an error work does not pile up: no more    *)
(* than three blocks or brackets are open beyond those a text may open.    *)
(***************************************************************************)
THEOREM TypeCorrect == Spec => []TypeOK
<1>1. Inv => TypeOK
  <2>. SUFFICES ASSUME Inv PROVE TypeOK
    OBVIOUS
  <2>1. PICK s, n, u : Tracks(p, calls, expected, strays, s, n, u)
    BY DEF Inv, Sound
  <2>2. u \in BOOLEAN /\ Owing(calls, s, n, u) /\ n <= Nesting + 3
    BY <2>1 DEF Tracks, Bounded
  <2>3. Depth(calls) \in Nat /\ n \in Nat /\ Depth(calls) <= n
    BY <2>2, DepthFacts
  <2>4. Depth(calls) <= Nesting + 3
    BY <2>2, <2>3, NestingAssumption
  <2>. QED  BY <2>4 DEF Inv, Sound, Typed, TypeOK
<1>. QED  BY <1>1, Tracking, PTL

(***************************************************************************)
(* No error is reported as long as the text read so far begins a program   *)
(* of the documents that uses none of the Forms of Grammar: whatever is    *)
(* nested in what, and however deep.                                       *)
(***************************************************************************)
THEOREM ProgramsAccepted ==
  ASSUME With = {}
  PROVE  Spec => []ProgramsPass
<1>1. Inv => ProgramsPass
  BY DEF Inv, Sound, Tracks, Agrees, ProgramsPass
<1>. QED  BY <1>1, Tracking, PTL

(***************************************************************************)
(* A text that is no program has had an error reported when parse()        *)
(* returns, unless an "end" or "else" was taken for a statement.           *)
(***************************************************************************)
THEOREM ErrorsReported ==
  ASSUME With = {}
  PROVE  Spec => []ErrorsShow
<1>1. Inv => ErrorsShow
  <2>. SUFFICES ASSUME Inv, Finished, ~ p.had_error, ~ strays
                PROVE  expected # Astray
    BY DEF ErrorsShow
  <2>1. PICK s, n, u : Tracks(p, calls, expected, strays, s, n, u)
    BY DEF Inv, Sound
  <2>2. calls = <<>> /\ p.current = "eof"
    BY DEF Finished, Inv, Sound, Settled, Ready, Top
  <2>3. s = <<>>
    <3>1. Spells(<<>>, s)
      BY <2>1, <2>2 DEF Tracks, Owing
    <3>. QED  BY <3>1 DEF Spells
  <2>4. Outcome(s, p.current, p.repl_mode) = IF expected # Astray THEN <<>> ELSE expected
    BY <2>1, <2>2 DEF Tracks, Agrees
  <2>5. Outcome(s, p.current, p.repl_mode) = <<>>
    BY <2>2, <2>3, OutcomeNone
  <2>6. Astray # <<>>
    BY AstrayFacts DEF Tokens
  <2>. QED  BY <2>4, <2>5, <2>6
<1>. QED  BY <1>1, Tracking, PTL
=============================================================================
