------------------------------ MODULE Grammar -------------------------------
(***************************************************************************)
(* The grammar of Nolqu as docs/dev/grammar.md and CHANGELOG.md state it,  *)
(* as a predictive recogniser: a sequence of the symbols still to come,    *)
(* and what is left of it after one more token.  It knows nothing of the   *)
(* parser; it is what the parser is compared with.  In the change log only *)
(* are the one-line if (:69), when (:167), for with "to" and "step" (:726) *)
(* and from (:3458 and language.md:494; grammar.md:84 says there is none). *)
(*                                                                         *)
(* Forms are what the documents have and the parser refuses; those of the  *)
(* set With are in the grammar (RefusedRule), the others are not:          *)
(*   "blank body"  lines of a body of try or catch that are all blank      *)
(*                 (grammar.md:88-92);                                     *)
(*   "return end"  return without a value right before "end" or "else", as *)
(*                 any statement (CHANGELOG.md:77);                        *)
(*   "expression"  any expression as a statement of a program (:94), and   *)
(*                 e[i] = v for any e, as m[0][1] = 5 (:49), where the     *)
(*                 parser has names, calls of names and name[i] (= v), and *)
(*                 in the REPL no index on a name followed by more;        *)
(*   "plain after" a parameter without a default after one with (:74-76);  *)
(*   "import as"   language.md:493, against grammar.md:84;                 *)
(*   "from name"   a statement that starts with a variable named from      *)
(*                 (CHANGELOG.md:3412).                                    *)
(* Nor is "is" a name where it starts a line in a case of when, although   *)
(* CHANGELOG.md:181 calls it freely usable.                                *)
(*                                                                         *)
(* Other departures, all in favour of the parser: a statement may end      *)
(* before "end", "else" and the end of the file (CHANGELOG.md:77,          *)
(* parser.cpp:66), blank lines may follow "then", lists may end in a comma *)
(* and module paths in a slash, "as" and "from" are names elsewhere        *)
(* (CHANGELOG.md:3412, against grammar.md:85); in the REPL, of which the   *)
(* documents say nothing, a statement may be an expression but for the     *)
(* form above.  Slices and the other operators are left to Expressions.    *)
(***************************************************************************)
EXTENDS Sequences, Naturals

CONSTANT With  \* the forms of the documents that the parser refuses and the grammar has

Forms == {"blank body", "return end", "expression", "plain after", "import as", "from name"}

ASSUME WithAssumption == With \subseteq Forms

(***************************************************************************)
(* Names: "to", "step", "is", "as" and "from" are names with a meaning of  *)
(* their own in a few places.                                              *)
(***************************************************************************)
Names == {"ident", "to", "step", "is", "as", "from"}

\* What starts an expression.
Primaries == Names \cup {"number", "string", "(", "["}

\* Statements that end with their line: what follows their first token.
Simple ==
  [let      |-> <<"ident", "=", "expr">>,
   print    |-> <<"expr">>,
   break    |-> <<>>,
   return   |-> <<"value">>,
   import   |-> <<"path">>]

\* The rest of a statement whose body goes on to "end".
Body == <<"line", "statements", "end", "line">>

\* Statements with bodies.
Compound ==
  [if       |-> <<"expr", "branches">>,
   loop     |-> <<"expr">> \o Body,
   for      |-> <<"ident", "range">>,
   function |-> <<"ident", "(", "params", ")">> \o Body,
   try      |-> <<"line", "guarded", "catch", "ident", "line", "guarded", "end", "line">>,
   when     |-> <<"expr", "line", "cases", "end", "line">>]

\* The rest of an expression whose first token was t.
AfterPrimary(t) ==
  CASE t = "(" -> <<"expr", ")", "operators">>
    [] t = "[" -> <<"items", "]", "operators">>
    [] OTHER -> <<"operators">>

(***************************************************************************)
(* One statement, up to and without the end of its line for those that do  *)
(* not end in "end".                                                       *)
(***************************************************************************)
Statement(t) ==
  CASE t \in DOMAIN Simple -> Append(Simple[t], "line")
    [] t \in DOMAIN Compound -> Compound[t]
    [] t = "from" -> <<"path", "import", "ident", "names", "line">>
    [] t \in Names \ {"from"} -> <<"action", "line">>
    [] OTHER -> AfterPrimary(t) \o <<"line">>  \* in the REPL

StartsStatement(repl) ==
  DOMAIN Simple \cup DOMAIN Compound \cup Names \cup (IF repl THEN Primaries ELSE {})

(***************************************************************************)
(* What symbol n becomes when it is met by token t: <<rest>>, or <<>> when *)
(* n does not start with t.                                                *)
(***************************************************************************)
Rule(n, t, repl) ==
  LET when(cond, rest) == IF cond THEN <<rest>> ELSE <<>> IN
  CASE n = "statements" ->
         IF t = "newline" THEN <<<<"statements">>>>
         ELSE when(t \in StartsStatement(repl), Statement(t) \o <<"statements">>)
    [] n = "body" ->                                   \* of a case of when
         IF t = "newline" THEN <<<<"body">>>>
         ELSE when(t \in StartsStatement(repl) \ {"is"}, Statement(t) \o <<"body">>)
    [] n = "guarded" ->                                \* body of try or catch
         IF t = "newline" THEN <<<<"one", "statements">>>>
         ELSE when(t \in StartsStatement(repl), Statement(t) \o <<"statements">>)
    [] n = "line" -> when(t = "newline", <<>>)
    [] n = "expr" -> when(t \in Primaries, AfterPrimary(t))
    [] n = "value" -> when(t \in Primaries, AfterPrimary(t))
    [] n = "operators" ->
         CASE t = "+" -> <<<<"expr">>>>
           [] t = "(" -> <<<<"items", ")", "operators">>>>
           [] t = "[" -> <<<<"expr", "]", "operators">>>>
           [] OTHER -> <<>>
    [] n = "items" -> when(t \in Primaries, AfterPrimary(t) \o <<"moreItems">>)
    [] n = "moreItems" -> when(t = "comma", <<"items">>)
    [] n = "action" ->                                 \* after a name
         CASE t \in {"=", "+="} -> <<<<"expr">>>>
           [] t = "[" -> <<<<"expr", "]", "element">>>>
           [] t = "(" -> <<<<"items", ")", "calls">>>>
           [] t = "+" -> when(repl, <<"expr">>)
           [] OTHER -> <<>>
    [] n = "element" -> when(t = "=", <<"expr">>)
    [] n = "calls" ->
         CASE t = "(" -> <<<<"items", ")", "calls">>>>
           [] t = "[" -> when(repl, <<"expr", "]", "indices">>)
           [] t = "+" -> when(repl, <<"expr">>)
           [] OTHER -> <<>>
    [] n = "indices" ->
         CASE t = "[" -> <<<<"expr", "]", "indices">>>>
           [] t = "+" -> <<<<"expr">>>>
           [] OTHER -> <<>>
    [] n = "branches" ->
         CASE t = "newline" -> <<<<"statements", "otherwise", "end", "line">>>>
           [] t = "then" -> <<<<"one", "orOne", "end", "line">>>>
           [] t = "else" -> <<Body>>
           [] t = "end" -> <<<<"line">>>>
           [] OTHER -> <<>>
    [] n = "otherwise" -> when(t = "else", <<"line", "statements">>)
    [] n = "one" -> IF t = "newline" THEN <<<<"one">>>>
                    ELSE when(t \in StartsStatement(repl), Statement(t))
    [] n = "orOne" -> when(t = "else", <<"one">>)
    [] n = "range" ->
         CASE t = "in" -> <<<<"expr">> \o Body>>
           [] t = "=" -> <<<<"expr", "to", "expr", "increment">> \o Body>>
           [] OTHER -> <<>>
    [] n = "increment" -> when(t = "step", <<"expr">>)
    [] n = "params" -> when(t \in Names, <<"default">>)
    [] n = "default" ->
         CASE t = "=" -> <<<<"expr", "moreDefaults">>>>
           [] t = "comma" -> <<<<"params">>>>
           [] OTHER -> <<>>
    [] n = "moreDefaults" -> when(t = "comma", <<"defaults">>)
    [] n = "defaults" -> when(t \in Names, <<"=", "expr", "moreDefaults">>)
    [] n = "path" ->
         CASE t = "string" -> <<<<>>>>
           [] t \in Names -> <<<<"segments">>>>
           [] OTHER -> <<>>
    [] n = "segments" -> when(t = "/", <<"segment">>)
    [] n = "segment" -> when(t \in Names, <<"segments">>)
    [] n = "names" -> when(t = "comma", <<"name">>)
    [] n = "name" -> when(t \in Names, <<"names">>)
    [] n = "cases" ->
         CASE t = "newline" -> <<<<"cases">>>>
           [] t = "is" -> <<<<"expr", "moreValues", "line", "body", "cases">>>>
           [] t = "else" -> <<<<"line", "body">>>>
           [] OTHER -> <<>>
    [] n = "moreValues" -> when(t = "comma", <<"extra">>)
    [] n = "extra" -> when(t \in Primaries, AfterPrimary(t) \o <<"moreValues">>)
    [] n = "ident" -> when(t \in Names, <<>>)
    [] OTHER -> when(t = n, <<>>)

(***************************************************************************)
(* The same for the forms of With.  A statement that is an expression goes *)
(* on with operators, calls and indices, and after an index maybe with an  *)
(* assignment.                                                             *)
(***************************************************************************)
Operand(t) ==
  CASE t = "(" -> <<"expr", ")", "suffix">>
    [] t = "[" -> <<"items", "]", "suffix">>
    [] OTHER -> <<"suffix">>

Suffix(t) ==
  CASE t = "+" -> <<<<"operand">>>>
    [] t = "(" -> <<<<"items", ")", "suffix">>>>
    [] t = "[" -> <<<<"expr", "]", "target">>>>
    [] OTHER -> <<>>

RefusedStatement(t) ==
  CASE t = "return" /\ "return end" \in With -> <<<<"anyValue", "line">>>>
    [] t = "import" /\ "import as" \in With -> <<<<"path", "asName", "line">>>>
    [] t = "from" /\ "from name" \in With -> <<<<"origin", "line">>>>
    [] t \in Primaries \ Names /\ "expression" \in With -> <<Append(Operand(t), "line")>>
    [] OTHER -> <<>>

\* What follows a statement that n starts with.
Following == [statements |-> <<"statements">>, body |-> <<"body">>, guarded |-> <<"statements">>,
              one |-> <<>>]

RefusedRule(n, t) ==
  CASE n \in DOMAIN Following /\ RefusedStatement(t) # <<>> ->
         <<RefusedStatement(t)[1] \o Following[n]>>
    [] n = "guarded" /\ t = "newline" /\ "blank body" \in With -> <<<<"statements">>>>
    [] n = "moreDefaults" /\ t = "comma" /\ "plain after" \in With -> <<<<"params">>>>
    [] n = "action" /\ "expression" \in With -> Suffix(t)
    [] n = "suffix" -> Suffix(t)
    [] n = "target" -> IF t = "=" THEN <<<<"expr">>>> ELSE Suffix(t)
    [] n = "operand" /\ t \in Primaries -> <<Operand(t)>>
    [] n = "anyValue" /\ t \in Primaries -> <<AfterPrimary(t)>>
    [] n = "asName" /\ t = "as" -> <<<<"ident">>>>
    [] n = "origin" /\ t = "string" -> <<<<"import", "ident", "names">>>>
    [] n = "origin" /\ t \in Names -> <<<<"segments", "import", "ident", "names">>>>
    [] OTHER -> <<>>

\* A statement after "from" that is no import goes on as one after a name.
Becomes(n, t, repl) ==
  LET refused == IF With = {} THEN <<>> ELSE RefusedRule(n, t)
  IN  IF refused # <<>> THEN refused
      ELSE Rule(IF n = "origin" THEN "action" ELSE n, t, repl)

\* Symbols that may come to nothing when t follows.
MayBeEmpty(n, t) ==
  \/ n \in {"statements", "body", "guarded", "operators", "items", "moreItems", "action",
            "element", "calls", "indices", "otherwise", "orOne", "increment", "params",
            "moreDefaults", "defaults", "default", "segments", "segment", "names", "name", "cases",
            "moreValues", "suffix", "target", "anyValue", "asName", "origin"}
  \/ n = "extra" /\ t \in {"newline", "eof"}
  \/ n = "value" /\ t \in {"newline", "eof"}
  \/ n = "line" /\ t \in {"end", "else", "eof"}

(***************************************************************************)
(* Every program is <<"statements">>.  Derive is what is still to come     *)
(* after t, or Astray when no program goes on with t: one symbol starts    *)
(* with t, and those before it come to nothing.                            *)
(***************************************************************************)
Program == <<"statements">>
Astray == <<"astray">>

\* The element of a set of one.
Only(ks) == CHOOSE k \in ks : TRUE

Derive(symbols, t, repl) ==
  LET become == [i \in 1..Len(symbols) |-> Becomes(symbols[i], t, repl)]
      ks == {k \in 1..Len(symbols) :
               /\ become[k] # <<>>
               /\ \A j \in 1..k - 1 : MayBeEmpty(symbols[j], t) /\ become[j] = <<>>}
  IN  IF t = "eof" THEN IF \A i \in 1..Len(symbols) : MayBeEmpty(symbols[i], t) THEN symbols ELSE Astray
      ELSE IF ks = {} THEN Astray
      ELSE become[Only(ks)][1] \o SubSeq(symbols, Only(ks) + 1, Len(symbols))
=============================================================================
