---------------------------- MODULE Expressions -----------------------------
(***************************************************************************)
(* The expression parser of parser.cpp: the tower of functions from        *)
(* parseExpr down to parsePrimary, the comparisons it chains, and the      *)
(* second tower, parseExprWithLeft, that the REPL climbs when it has       *)
(* consumed the first name of a line already.                              *)
(*                                                                         *)
(* A text is a sequence of roles, "call" and "(" say, or "neg" and "-",    *)
(* which the parser sees as tokens ("(", "-").  Means is the tree that the *)
(* roles and the levels of the operators give a text; the parser has to    *)
(* find that tree from the tokens.  The levels are those of the documents  *)
(* (docs/dev/language.md:235, docs/dev/grammar.md:101), which the parser   *)
(* does not keep: it has ".." at the level of "+" and "-", where they have *)
(* it below; and grammar.md:110 has "not" below "==", where language.md    *)
(* and the parser have it above "*".  Disputed are the texts that are read *)
(* otherwise for it.  The texts are the well-formed ones (Parser has the   *)
(* others).  "x" is a name or a literal, "<" any comparison, "*" stands    *)
(* for its level; f-strings are left out.                                  *)
(***************************************************************************)
EXTENDS Integers, Sequences, FiniteSets, SequencesExt

CONSTANTS
  MaxTokens,   \* bound on the length of a text
  Levels       \* the operators of each level, loosest first, for Means

ASSUME MaxTokensAssumption == MaxTokens \in Nat \ {0}

VARIABLES
  text,   \* the roles of the tokens
  open,   \* what is yet to be closed, outermost first
  due     \* what comes next: "operand", "operand or close", "operator"

vars == <<text, open, due>>

-----------------------------------------------------------------------------
(***************************************************************************)
(* Texts.                                                                  *)
(***************************************************************************)
Infix == UNION ToSet(Levels)

Symbol(role) == CASE role \in {"neg", "minus"} -> "-"
                  [] role = "call" -> "("
                  [] role \in {"array", "index"} -> "["
                  [] role \in {"slice", "else"} -> ":"
                  [] OTHER -> role

Closer == [x \in {"(", "call", "array", "index", "slice"} |-> IF x \in {"(", "call"} THEN ")" ELSE "]"]

\* A text ends with everything closed before the bound.
Write(role, opened, next) ==
  /\ Len(text) + Len(opened) + (IF next = "operand" THEN 1 ELSE 0) < MaxTokens
  /\ text' = Append(text, role)
  /\ open' = opened
  /\ due' = next

Operand == due # "operator" /\ Write("x", open, "operator")
Prefix == due # "operator" /\ \E r \in {"neg", "not"} : Write(r, open, "operand")
Group == due # "operator" /\ Write("(", Append(open, "("), "operand")
Array == due # "operator" /\ Write("array", Append(open, "array"), "operand or close")
Binary == due = "operator" /\ \E r \in Infix : Write(r, open, "operand")
Call == due = "operator" /\ Write("call", Append(open, "call"), "operand or close")
Index == due = "operator" /\ Write("index", Append(open, "index"), "operand")
Question == due = "operator" /\ Write("?", Append(open, "?"), "operand")
Comma == /\ due = "operator" /\ open # <<>> /\ Last(open) \in {"call", "array"}
         /\ Write(",", open, "operand or close")
Else == /\ due = "operator" /\ open # <<>> /\ Last(open) = "?"
        /\ Write("else", Front(open), "operand")
Slice == /\ open # <<>> /\ Last(open) = "index"
         /\ due = "operator" \/ Last(text) = "index"
         /\ Write("slice", Append(Front(open), "slice"), "operand or close")
Close == /\ due \in {"operator", "operand or close"} /\ open # <<>> /\ Last(open) \in DOMAIN Closer
         /\ Last(open) = "index" => due = "operator"
         /\ Write(Closer[Last(open)], Front(open), "operator")

Init == text = <<>> /\ open = <<>> /\ due = "operand"

Next == \/ Operand \/ Prefix \/ Group \/ Array \/ Binary \/ Call \/ Index
        \/ Question \/ Comma \/ Else \/ Slice \/ Close

Spec == Init /\ [][Next]_vars

Whole == due = "operator" /\ open = <<>>

-----------------------------------------------------------------------------
(***************************************************************************)
(* What a text means.                                                      *)
(***************************************************************************)
Opens == {"(", "call", "array", "index", "?"}
Closes == {")", "]", "else"}

\* How much is open before k, counted from i.
Depth(i, k) == Cardinality({m \in i..k - 1 : text[m] \in Opens})
             - Cardinality({m \in i..k - 1 : text[m] \in Closes})

Matching(k) == Min({m \in k + 1..Len(text) : text[m] \in Closes /\ Depth(k, m) = 1})

\* The positions of i..j that are in no bracket, but for the brackets.
Outer(i, j) == {k \in i..j : Depth(i, k) = 0 /\ text[k] \notin Closes}
OuterOf(i, j, roles) == {k \in Outer(i, j) : text[k] \in roles}

\* The parts of i..j between the positions of cuts.
Parts(i, j, cuts) ==
  LET ends == SetToSortSeq(cuts \cup {i - 1, j + 1}, <)
      all == [n \in 1..Len(ends) - 1 |-> <<ends[n] + 1, ends[n + 1] - 1>>]
  IN SelectSeq(all, LAMBDA part : part[1] <= part[2])

RECURSIVE Means(_, _)

\* a < b < c is (a < b) and (b < c).
Chained(i, j, cuts) ==
  LET parts == Parts(i, j, cuts)
      tree(n) == Means(parts[n][1], parts[n][2])
      pair(n) == <<"<", tree(n), tree(n + 1)>>
  IN FoldLeft(LAMBDA acc, n : <<"and", acc, pair(n)>>, pair(1), [n \in 1..Len(parts) - 2 |-> n + 1])

Means(i, j) ==
  LET level == {n \in DOMAIN Levels : OuterOf(i, j, Levels[n]) # {}}
      ops == OuterOf(i, j, Levels[Min(level)])
      list(a, b) == LET parts == Parts(a, b, OuterOf(a, b, {","}))
                    IN [n \in DOMAIN parts |-> Means(parts[n][1], parts[n][2])]
      bracket == Max(Outer(i, j))
      inside == bracket + 1
      colon == OuterOf(inside, j - 1, {"slice"})
      bound(a, b) == IF a > b THEN <<"none">> ELSE Means(a, b)
  IN
  CASE OuterOf(i, j, {"?"}) # {} ->
         LET k == Min(OuterOf(i, j, {"?"})) IN
         <<"?", Means(i, k - 1), Means(k + 1, Matching(k) - 1), Means(Matching(k) + 1, j)>>
    [] OuterOf(i, j, {"?"}) = {} /\ level # {} ->
         IF "<" \in Levels[Min(level)] THEN Chained(i, j, ops)
         ELSE LET k == Max(ops) IN <<Symbol(text[k]), Means(i, k - 1), Means(k + 1, j)>>
    [] OuterOf(i, j, {"?"} \cup Infix) = {} ->
         CASE text[i] \in {"neg", "not"} -> <<Symbol(text[i]), Means(i + 1, j)>>
           [] i = j -> <<"x", i>>
           [] text[i] \notin {"neg", "not"} /\ i < j ->
                CASE text[bracket] = "(" -> Means(inside, j - 1)
                  [] text[bracket] = "array" -> <<"array", list(inside, j - 1)>>
                  [] text[bracket] = "call" -> <<"call", bracket, Means(i, bracket - 1), list(inside, j - 1)>>
                  [] text[bracket] = "index" ->
                       LET object == Means(i, bracket - 1) IN
                       IF colon = {} THEN <<"index", object, Means(inside, j - 1)>>
                       ELSE <<"slice", object, bound(inside, Min(colon) - 1), bound(Min(colon) + 1, j - 1)>>

\* k and m are in one operand of every operator in roles.
Together(k, m, roles) ==
  /\ k < m /\ Depth(k, m) = 0 /\ \A n \in k..m : Depth(k, n) >= 0
  /\ OuterOf(k + 1, m - 1, {"?", ",", "slice"} \cup roles) = {}

LooserThan(role) ==
  UNION {Levels[n] : n \in {m \in DOMAIN Levels : \E l \in DOMAIN Levels : l > m /\ role \in Levels[l]}}

\* Two comparisons, one after the other, of one chain: c1 and c2.
InChain(c1, c2) ==
  text[c1] = "<" /\ text[c2] = "<" /\ Together(c1, c2, LooserThan("<") \cup {"<"})

TooComplex == \E c1, c2 \in DOMAIN text : InChain(c1, c2) /\ Means(c1 + 1, c2 - 1)[1] # "x"

\* Texts that the parser reads other than the documents say: a "-" behind a
\* ".." (a .. b - c, which is (a .. b) - c to the parser), and one that only
\* language.md reads as the parser does: an operator above "and" behind a
\* "not" (not a == b, which is (not a) == b).
Disputed == \E k, m \in DOMAIN text :
  \/ text[k] = ".." /\ text[m] = "minus" /\ Together(k, m, LooserThan(".."))
  \/ text[k] = "not" /\ text[m] \in Infix \ {"and", "or"} /\ Together(k, m, {"and", "or"})

-----------------------------------------------------------------------------
(***************************************************************************)
(* The parser.  A result is the tree, the token it stopped at and whether  *)
(* no error was reported.                                                  *)
(***************************************************************************)
check(i, tokens) == i <= Len(text) /\ Symbol(text[i]) \in tokens

Result(t, i, good) == [tree |-> t, at |-> i, ok |-> good]

\* Parse("or", i) is parseOr at token i, and so on.
RECURSIVE Parse(_, _), Rest(_, _), Compared(_, _), Suffixed(_, _), Items(_, _, _)

\* The operators of a function of the tower, and the function it calls.
Tower == [or         |-> [ops |-> {"or"}, operand |-> "and"],
          and        |-> [ops |-> {"and"}, operand |-> "equality"],
          equality   |-> [ops |-> {"=="}, operand |-> "comparison"],
          comparison |-> [ops |-> {"<"}, operand |-> "addition"],
          addition   |-> [ops |-> {"-", ".."}, operand |-> "multiply"],
          multiply   |-> [ops |-> {"*"}, operand |-> "unary"]]

\* Slip: the right operand takes all that follows of the level.
SlipRest(level, left) ==
  IF ~ check(left.at, Tower[level].ops) THEN left
  ELSE LET right == Parse(level, left.at + 1) IN
       Rest(level, Result(<<Symbol(text[left.at]), left.tree, right.tree>>, right.at, left.ok /\ right.ok))

\* The loop of each of them: another operator, another operand.
Rest(level, left) ==
  IF ~ check(left.at, Tower[level].ops) THEN left
  ELSE LET right == Parse(Tower[level].operand, left.at + 1) IN
       Rest(level, Result(<<Symbol(text[left.at]), left.tree, right.tree>>, right.at, left.ok /\ right.ok))

\* Slip: any operand is cloned.
SlipClone(t) == <<t>>

cloneSimpleNode(t) == IF t[1] = "x" THEN <<t>> ELSE <<>>

\* result is the chain so far, its last operand to be compared again.
Compared(result, last) ==
  IF ~ check(result.at, {"<"}) THEN result
  ELSE LET next == Parse("addition", result.at + 1)
           clone == cloneSimpleNode(last.tree)
           longer == IF clone = <<>> THEN result.tree
                     ELSE <<"and", result.tree, <<"<", clone[1], next.tree>>>>
       IN Compared(Result(longer, next.at, result.ok /\ next.ok /\ clone # <<>>),
                   IF clone = <<>> THEN last ELSE next)

parseComparison(i) ==
  LET left == Parse("addition", i) IN
  IF ~ check(left.at, {"<"}) THEN left
  ELSE LET mid == Parse("addition", left.at + 1)
       IN Compared(Result(<<"<", left.tree, mid.tree>>, mid.at, left.ok /\ mid.ok), mid)

parseUnary(i) ==
  IF ~ check(i, {"-", "not"}) THEN Parse("call", i)
  ELSE LET operand == Parse("unary", i + 1)
       IN [operand EXCEPT !.tree = <<Symbol(text[i]), @>>]

\* Arguments or elements up to the closing token: a result whose tree is a
\* sequence of trees.
Items(close, sofar, done) ==
  IF done \/ check(sofar.at, {close}) THEN [sofar EXCEPT !.at = @ + 1]
  ELSE LET item == Parse("expr", sofar.at)
           comma == check(item.at, {","})
       IN Items(close, Result(Append(sofar.tree, item.tree), IF comma THEN item.at + 1 ELSE item.at,
                              sofar.ok /\ item.ok), ~ comma)

Indexed(object) ==
  LET none(i) == Result(<<"none">>, i, TRUE)
      start == IF check(object.at + 1, {":"}) THEN none(object.at + 1) ELSE Parse("expr", object.at + 1)
      end == IF check(start.at + 1, {"]"}) THEN none(start.at + 1) ELSE Parse("expr", start.at + 1)
  IN IF check(start.at, {":"})
     THEN Result(<<"slice", object.tree, start.tree, end.tree>>, end.at + 1, object.ok /\ start.ok /\ end.ok)
     ELSE Result(<<"index", object.tree, start.tree>>, start.at + 1, object.ok /\ start.ok)

\* The calls and indices that follow an expression.
Suffixed(expr, openers) ==
  CASE check(expr.at, openers \cap {"("}) ->
         LET args == Items(")", Result(<<>>, expr.at + 1, expr.ok), FALSE)
         IN Suffixed([args EXCEPT !.tree = <<"call", expr.at, expr.tree, @>>], openers)
    [] check(expr.at, openers \cap {"["}) -> Suffixed(Indexed(expr), openers)
    [] OTHER -> expr

parsePrimary(i) ==
  CASE check(i, {"["}) -> LET items == Items("]", Result(<<>>, i + 1, TRUE), FALSE)
                          IN [items EXCEPT !.tree = <<"array", @>>]
    [] check(i, {"("}) -> LET inner == Parse("expr", i + 1) IN [inner EXCEPT !.at = @ + 1]
    [] check(i, {"x"}) -> Result(<<"x", i>>, i + 1, TRUE)
    [] OTHER -> Result(<<"none">>, i, FALSE)

parseCall(i) == Suffixed(parsePrimary(i), {"(", "["})

parseTernary(i) ==
  LET cond == Parse("or", i) IN
  IF ~ check(cond.at, {"?"}) THEN cond
  ELSE LET then == Parse("expr", cond.at + 1)
           else == Parse("expr", then.at + 1)
       IN Result(<<"?", cond.tree, then.tree, else.tree>>, else.at, cond.ok /\ then.ok /\ else.ok)

Parse(level, i) ==
  CASE level = "expr" -> parseTernary(i)
    [] level = "comparison" -> parseComparison(i)
    [] level = "unary" -> parseUnary(i)
    [] level = "call" -> parseCall(i)
    [] level \in DOMAIN Tower \ {"comparison"} -> Rest(level, Parse(Tower[level].operand, i))

parseExpr(i) == Parse("expr", i)

(***************************************************************************)
(* The REPL's way: a name, the calls of it, and when an operator comes     *)
(* next the second tower, which has loops only.                            *)
(***************************************************************************)
\* The loops of the levels in this order, on an expression so far.
Climbed(levels, expr) ==
  LET climbed[n \in 0..Len(levels)] == IF n = 0 THEN expr ELSE Rest(levels[n], climbed[n - 1])
  IN climbed[Len(levels)]

\* Slip: the loops of two levels in the wrong order.
SlipWithLeft(left) ==
  Climbed(<<"addition", "multiply", "comparison", "equality", "and", "or">>, Suffixed(left, {"["}))

parseExprWithLeft(left) ==
  Climbed(<<"multiply", "addition", "comparison", "equality", "and", "or">>, Suffixed(left, {"["}))

ReplExpr ==
  LET name == parsePrimary(1)
      index == parseExpr(3)
      calls == Suffixed(name, {"("})
  IN CASE check(2, {"["}) -> Result(<<"index", name.tree, index.tree>>, index.at + 1,
                                    index.ok /\ check(index.at, {"]"}))
       [] check(calls.at, {"-", "*", "..", "<", "==", "and", "or", "["}) -> parseExprWithLeft(calls)
       [] OTHER -> calls

-----------------------------------------------------------------------------
(***************************************************************************)
(* Calls of a tree, by position.                                           *)
(***************************************************************************)
RECURSIVE Calls(_)
Calls(t) ==
  CASE t[1] \in {"x", "none"} -> <<>>
    [] t[1] = "array" -> FlattenSeq([n \in DOMAIN t[2] |-> Calls(t[2][n])])
    [] t[1] = "call" -> <<t[2]>> \o Calls(t[3]) \o FlattenSeq([n \in DOMAIN t[4] |-> Calls(t[4][n])])
    [] OTHER -> FlattenSeq([n \in 1..Len(t) - 1 |-> Calls(t[n + 1])])

(***************************************************************************)
(* The parser reads the whole of every expression and builds the tree that *)
(* the documented levels of the operators give it (parseExpr to            *)
(* parsePrimary), or reports an error: exactly when an operand in the      *)
(* middle of a chain of comparisons is not a name or a literal             *)
(* (cloneSimpleNode).  Disputed texts have some tree, too, another one.    *)
(***************************************************************************)
TreesAreRight ==
  Whole => LET r == parseExpr(1) IN
    /\ r.at = Len(text) + 1
    /\ r.ok = ~ TooComplex
    /\ r.ok /\ ~ Disputed => r.tree = Means(1, Len(text))

(***************************************************************************)
(* No call of the text is made twice or left out, in chains in particular: *)
(* docs/dev/language.md:231 promises that chaining evaluates every operand *)
(* exactly once.                                                           *)
(***************************************************************************)
CallsOnce ==
  Whole => LET r == parseExpr(1) IN
    r.ok => LET made == Calls(r.tree) IN
      /\ IsInjective(made)
      /\ ToSet(made) = {k \in DOMAIN text : text[k] = "call"}

Chains == \E c1, c2 \in Outer(1, Len(text)) : InChain(c1, c2)

IndexedCall == \E a, b \in Outer(1, Len(text)) :
  a < b /\ text[a] = "index" /\ text[b] = "call" /\ OuterOf(1, b, Infix) = {}

(***************************************************************************)
(* A line of the REPL that starts with a name goes through the second      *)
(* tower, which finds the trees of the first (of disputed texts, too), but *)
(* for chains of comparisons, and refuses nothing but a ternary, an index  *)
(* right behind the name (parser.cpp:745 takes it for the target of an     *)
(* assignment) and a call of something indexed.                            *)
(***************************************************************************)
Towers ==
  Whole /\ text[1] = "x" /\ ~ TooComplex /\ ~ Chains =>
    LET second == ReplExpr IN
    IF second.ok /\ second.at = Len(text) + 1
    THEN second.tree = parseExpr(1).tree
    ELSE OuterOf(1, Len(text), {"?"}) # {} \/ text[2] = "index" \/ IndexedCall
=============================================================================
