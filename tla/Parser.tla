------------------------------- MODULE Parser -------------------------------
(***************************************************************************)
(* The recursive-descent parser of parser.cpp at the level of statements.  *)
(* calls is the chain of parse functions in progress, flattened: what each *)
(* of them still has to do, innermost first.  An element that is a token   *)
(* is an expect() of that token; any other is named for the function or    *)
(* the part of a function it stands for.  Tokens are chosen as they are    *)
(* read, so a behaviour is the parse of any text whatsoever, of which      *)
(* Grammar follows what the documents make of it.                          *)
(*                                                                         *)
(* Of expressions, "number" and "string" stand for every primary that is   *)
(* no name, "+" for every binary operator: Expressions has their grammar.  *)
(* "let" stands for const too, "break" for continue.  Trees are not built; *)
(* what is followed is who consumes which token and what is reported.      *)
(***************************************************************************)
EXTENDS Grammar, FiniteSets

CONSTANT Nesting  \* bound: nothing is opened inside that many blocks and brackets

ASSUME NestingAssumption == Nesting \in Nat \ {0}

VARIABLES
  p,            \* the fields of Parser: current, had_error, panic_mode, repl_mode
  calls,        \* what the parse functions in progress have yet to do
  read,         \* the last step consumed a token
  expected,     \* what the grammar expects after the tokens read
  strays        \* an "end" or "else" was taken for a statement

vars == <<p, calls, read, expected, strays>>

-----------------------------------------------------------------------------
(***************************************************************************)
(* Tokens.                                                                 *)
(***************************************************************************)
Tokens == Names \cup Primaries \cup DOMAIN Simple \cup DOMAIN Compound \cup
  {"newline", "end", "else", "then", "catch", "in", "=", "+=", "+", ")", "]", "comma", "/"}

Openers == DOMAIN Compound \cup {"(", "[", "then"}

check(t) == IF t = "ident" THEN p.current \in Names ELSE p.current = t
checkOne(S) == p.current \in S

\* Slip: panic mode is entered, had_error is not set.
SlipErrorAt(q) == [q EXCEPT !.panic_mode = TRUE]

ErrorAt(q) == IF q.panic_mode THEN q ELSE [q EXCEPT !.panic_mode = TRUE, !.had_error = TRUE]

(***************************************************************************)
(* advance(): the next token, and whether characters that are no token     *)
(* came before it.  The end of the file is read over and over.             *)
(***************************************************************************)
Read(q, bad, t) ==
  LET r == IF bad THEN ErrorAt(q) ELSE q IN [r EXCEPT !.current = t]

\* How many blocks and brackets are open.
Depth(todo) == Cardinality({i \in DOMAIN todo : todo[i] \in {"end", ")", "]"}})

\* The bound; after an error it is 1.  A bracket that is due next is counted
\* when it has been read.
MayOpen(todo) ==
  Depth(todo) < (IF p.had_error THEN 1 ELSE Nesting)
                + (IF todo # <<>> /\ Head(todo) = "(" THEN 1 ELSE 0)

Supply(todo) == IF p.current = "eof" THEN {"eof"}
                ELSE {"eof"} \cup (IF MayOpen(todo) THEN Tokens ELSE Tokens \ Openers)

(***************************************************************************)
(* The current token is consumed by the parser q, and todo is what is left *)
(* to do.  Of several errors only the first counts, so one that is         *)
(* reported right after may be in q.                                       *)
(***************************************************************************)
Advance(q, todo) ==
  /\ \E t \in Supply(todo), bad \in BOOLEAN :
       /\ bad => p.current # "eof"
       /\ p' = Read(q, bad, t)
       /\ expected' = IF bad THEN Astray ELSE Derive(expected, t, p.repl_mode)
  /\ read' = TRUE
  /\ calls' = todo

Take(todo) == Advance(p, todo) /\ UNCHANGED strays

Stay(q, todo) == /\ p' = q
                 /\ calls' = todo
                 /\ read' = FALSE
                 /\ UNCHANGED <<expected, strays>>
Turn(todo) == Stay(p, todo)
Complain(todo) == Stay(ErrorAt(p), todo)


Rest == Tail(calls)
Doing(name) == calls # <<>> /\ Head(calls) = name

\* The parts of a parse function: a token of S is consumed and todo comes
\* next; nothing is consumed and todo comes next; one of S is due.
On(S, todo) == p.current \in S /\ Take(todo \o Rest)
Otherwise(S, todo) == p.current \notin S /\ Turn(todo \o Rest)

\* Slip: a token that is due and missing is passed over.
SlipDue(S, todo) == On(S, todo) \/ Otherwise(S, <<>>)

Due(S, todo) == On(S, todo) \/ (p.current \notin S /\ Complain(Rest))

\* Slip: the loops do not end with the file.
SlipLoop(stops, todo) == IF p.current \in stops \ {"eof"} THEN Turn(Rest) ELSE Turn(todo \o calls)

Loop(stops, todo) == IF p.current \in stops THEN Turn(Rest) ELSE Turn(todo \o calls)

-----------------------------------------------------------------------------
(***************************************************************************)
(* Helpers.                                                                *)
(***************************************************************************)
expect == /\ calls # <<>>
          /\ Head(calls) \in Tokens
          /\ Due(IF Head(calls) = "ident" THEN Names ELSE {Head(calls)}, <<>>)

skipNewlines == /\ calls # <<>>
                /\ Head(calls) \in {"program", "nextStmt", "parseStmt", "parseBlock",
                                    "caseStart", "caseBody", "skipNewlines"}
                /\ p.current = "newline"
                /\ Take(calls)

NewlinesSkipped == /\ Doing("skipNewlines")
                   /\ Otherwise({"newline"}, <<>>)

\* Slip: "else" does not end a statement.
SlipexpectNewline == /\ Doing("expectNewline")
                     /\ \/ On({"newline"}, <<>>)
                        \/ p.current \in {"eof", "end"} /\ Turn(Rest)
                        \/ p.current \notin {"newline", "eof", "end"} /\ Complain(Rest)

expectNewline == /\ Doing("expectNewline")
                 /\ \/ On({"newline"}, <<>>)
                    \/ p.current \in {"eof", "end", "else"} /\ Turn(Rest)
                    \/ p.current \notin {"newline", "eof", "end", "else"} /\ Complain(Rest)

-----------------------------------------------------------------------------
(***************************************************************************)
(* Expressions: a primary, then calls, indices and binary operators.  A    *)
(* token that starts no expression is reported and left where it is.       *)
(***************************************************************************)
parsePrimary == /\ Doing("parseExpr")
                /\ \/ On(Names \cup {"number", "string"}, <<"operators">>)
                   \/ On({"["}, <<"items", "]", "operators">>)
                   \/ On({"("}, <<"parseExpr", ")", "operators">>)
                   \/ p.current \notin Primaries /\ Complain(<<"operators">> \o Rest)

parseCall == /\ Doing("operators")
             /\ \/ On({"("}, <<"items", ")", "operators">>)
                \/ On({"["}, <<"parseExpr", "]", "operators">>)
                \/ On({"+"}, <<"parseExpr">>)
                \/ Otherwise({"(", "[", "+"}, <<>>)

\* The loops over arguments and elements, which end at the closing token
\* that is expected next.
parseItems == \/ /\ Doing("items")
                 /\ IF p.current \in {calls[2], "eof"} THEN Turn(Rest)
                    ELSE Turn(<<"parseExpr", "moreItems">> \o Rest)
              \/ /\ Doing("moreItems")
                 /\ On({"comma"}, <<"items">>) \/ Otherwise({"comma"}, <<>>)

parseExprWithLeft == /\ Doing("exprWithLeft")
                     /\ \/ On({"["}, <<"parseExpr", "]", "exprWithLeft">>)
                        \/ On({"+"}, <<"parseExpr">>)
                        \/ Otherwise({"[", "+"}, <<>>)

-----------------------------------------------------------------------------
(***************************************************************************)
(* Statements.                                                             *)
(***************************************************************************)
Block == <<"expectNewline", "parseBlock", "end", "expectNewline">>

\* What the parse function of each statement does after its keyword.
Parts ==
  [let      |-> <<"ident", "=", "parseExpr", "expectNewline">>,
   print    |-> <<"parseExpr", "expectNewline">>,
   if       |-> <<"parseExpr", "branches">>,
   when     |-> <<"parseExpr", "expectNewline", "cases", "end", "expectNewline">>,
   loop     |-> <<"parseExpr">> \o Block,
   for      |-> <<"ident", "range">>,
   function |-> <<"ident", "(", "params", ")">> \o Block,
   return   |-> <<"value", "expectNewline">>,
   import   |-> <<"importPath">>,
   from     |-> <<"fromPath">>,
   try      |-> <<"expectNewline", "tryBody", "catch", "ident", "expectNewline",
                  "handlerBody", "end", "expectNewline">>,
   break    |-> <<"expectNewline">>]

ExprStart == {"number", "string", "[", "("}

parseStmt ==
  /\ Doing("parseStmt")
  /\ \/ p.current = "eof" /\ Turn(Rest)
     \/ p.repl_mode /\ p.current \in ExprStart /\ Turn(<<"parseExpr", "expectNewline">> \o Rest)
     \/ \E t \in DOMAIN Parts : On({t}, Parts[t])
     \/ On(Names \ {"from"}, <<"nameStmt">>)
     \/ /\ p.current \in {"end", "else"}
        /\ Advance(p, Rest)
        /\ strays' = TRUE
     \/ /\ p.current \notin {"eof", "newline", "end", "else"} \cup DOMAIN Parts \cup Names
        /\ ~ (p.repl_mode /\ p.current \in ExprStart)
        /\ Advance(ErrorAt(p), <<"recover">> \o Rest)
        /\ UNCHANGED strays

\* The rest of a line that starts no statement is skipped.
Recover ==
  \/ /\ Doing("recover")
     /\ \/ p.current \notin {"newline", "eof"} /\ Take(calls)
        \/ p.current = "newline" /\ Take(<<"calm">> \o Rest)
        \/ p.current = "eof" /\ Turn(<<"calm">> \o Rest)
  \/ Doing("calm") /\ Stay([p EXCEPT !.panic_mode = FALSE], Rest)

nameStmt ==
  \/ /\ Doing("nameStmt")
     /\ \/ On({"=", "+="}, <<"parseExpr", "expectNewline">>)
        \/ On({"["}, <<"parseExpr", "]", "element">>)
        \/ Otherwise({"=", "+=", "["}, <<"arguments">>)
  \/ /\ Doing("element")
     /\ On({"="}, <<"parseExpr", "expectNewline">>) \/ Otherwise({"="}, <<"expectNewline">>)
  \/ /\ Doing("arguments")
     /\ \/ On({"("}, <<"items", ")", "arguments">>)
        \/ Otherwise({"("}, IF p.repl_mode THEN <<"exprWithLeft", "expectNewline">> ELSE <<"expectNewline">>)

parseIfStmt ==
  \/ /\ Doing("branches")
     /\ \/ On({"then"}, <<"parseStmt", "elseStmt", "end", "expectNewline">>)
        \/ Otherwise({"then"}, <<"expectNewline", "parseBlock", "elseBlock", "end", "expectNewline">>)
  \/ /\ Doing("elseStmt")
     /\ On({"else"}, <<"parseStmt">>) \/ Otherwise({"else"}, <<>>)
  \/ /\ Doing("elseBlock")
     /\ On({"else"}, <<"expectNewline", "parseBlock">>) \/ Otherwise({"else"}, <<>>)

parseForStmt ==
  \/ /\ Doing("range")
     /\ \/ On({"="}, <<"parseExpr", "bound">>)
        \/ On({"in"}, <<"parseExpr">> \o Block)
        \/ p.current \notin {"=", "in"} /\ Complain(Rest)
  \/ /\ Doing("bound")
     /\ Due({"to"}, <<"parseExpr", "increment">>)
  \/ /\ Doing("increment")
     /\ On({"step"}, <<"parseExpr">> \o Block) \/ Otherwise({"step"}, Block)

parseFunctionDecl ==
  \/ /\ calls # <<>>
     /\ Head(calls) \in {"params", "defaults"}
     /\ IF p.current \in {")", "eof"} THEN Turn(Rest)
        ELSE Turn(<<"ident", IF Doing("params") THEN "default" ELSE "dueDefault">> \o Rest)
  \/ /\ Doing("default")
     /\ On({"="}, <<"parseExpr", "moreDefaults">>) \/ Otherwise({"="}, <<"moreParams">>)
  \/ /\ Doing("dueDefault")
     /\ \/ On({"="}, <<"parseExpr", "moreDefaults">>)
        \/ p.current # "=" /\ Complain(<<"moreDefaults">> \o Rest)
  \/ /\ Doing("moreParams")
     /\ On({"comma"}, <<"params">>) \/ Otherwise({"comma"}, <<>>)
  \/ /\ Doing("moreDefaults")
     /\ On({"comma"}, <<"defaults">>) \/ Otherwise({"comma"}, <<>>)

parseReturnStmt == /\ Doing("value")
                   /\ Otherwise({"newline", "eof"}, <<"parseExpr">>)
                      \/ (p.current \in {"newline", "eof"} /\ Turn(Rest))

\* import and from share the path; "as" is refused with the name after it.
parsePath ==
  \/ /\ calls # <<>>
     /\ Head(calls) \in {"importPath", "fromPath"}
     /\ LET after == IF Doing("importPath") THEN <<"alias">> ELSE <<"imports">> IN
        \/ On({"string"}, after)
        \/ On(Names, <<"slash">> \o after)
        \/ p.current \notin Names \cup {"string"} /\ Complain(Rest)
  \/ /\ Doing("slash")
     /\ On({"/"}, <<"segment">>) \/ Otherwise({"/"}, <<>>)
  \/ /\ Doing("segment")
     /\ On(Names, <<"slash">>) \/ Otherwise(Names, <<>>)

parseImportStmt ==
  \/ /\ Doing("alias")
     /\ \/ /\ p.current = "as"
           /\ Advance(ErrorAt(p), <<"aliasName", "expectNewline">> \o Rest)
           /\ UNCHANGED strays
        \/ Otherwise({"as"}, <<"expectNewline">>)
  \/ /\ Doing("aliasName")
     /\ On(Names, <<>>) \/ Otherwise(Names, <<>>)

parseFromImportStmt ==
  \/ Doing("imports") /\ Due({"import"}, <<"firstName">>)
  \/ Doing("firstName") /\ Due(Names, <<"moreNames", "expectNewline">>)
  \/ /\ Doing("moreNames")
     /\ On({"comma"}, <<"name">>) \/ Otherwise({"comma"}, <<>>)
  \/ /\ Doing("name")
     /\ On(Names, <<"moreNames">>) \/ Otherwise(Names, <<>>)

parseTryStmt ==
  \/ Doing("tryBody") /\ Loop({"catch", "eof"}, <<"parseStmt", "skipNewlines">>)
  \/ Doing("handlerBody") /\ Loop({"end", "eof"}, <<"parseStmt", "skipNewlines">>)

parseWhen ==
  \/ /\ Doing("cases")
     /\ IF p.current \in {"end", "eof"} THEN Turn(Rest) ELSE Turn(<<"caseStart">> \o Rest)
  \/ /\ Doing("caseStart")
     /\ \/ p.current = "end" /\ Turn(Rest)
        \/ On({"is"}, <<"parseExpr", "moreValues", "expectNewline", "caseBody", "cases">>)
        \/ On({"else"}, <<"expectNewline", "caseBody">>)
        \/ p.current \notin {"newline", "end", "is", "else"} /\ Complain(Rest)
  \/ /\ Doing("moreValues")
     /\ On({"comma"}, <<"extra">>) \/ Otherwise({"comma"}, <<>>)
  \/ /\ Doing("extra")
     /\ IF p.current \in {"newline", "eof"} THEN Turn(Rest)
        ELSE Turn(<<"parseExpr", "moreValues">> \o Rest)
  \/ Doing("caseBody") /\ p.current # "newline" /\ Loop({"is", "else", "end", "eof"}, <<"parseStmt">>)

parseBlock == /\ Doing("parseBlock")
              /\ p.current # "newline"
              /\ Loop({"end", "else", "eof"}, <<"parseStmt">>)

(***************************************************************************)
(* parse(): panic_mode ends after a statement of the top level.            *)
(***************************************************************************)
parse == \/ Doing("program") /\ p.current # "newline" /\ Loop({"eof"}, <<"parseStmt", "nextStmt">>)
         \/ Doing("nextStmt") /\ p.current # "newline" /\ Stay([p EXCEPT !.panic_mode = FALSE], Rest)

Finished == calls = <<>>
Stop == Finished /\ UNCHANGED vars

-----------------------------------------------------------------------------
Fresh(repl) == [current |-> "newline", had_error |-> FALSE, panic_mode |-> FALSE, repl_mode |-> repl]

Init == /\ \E t \in Tokens \cup {"eof"}, bad, repl \in BOOLEAN :
             /\ p = Read(Fresh(repl), bad, t)
             /\ expected = IF bad THEN Astray ELSE Derive(Program, t, repl)
        /\ calls = <<"program">>
        /\ read = TRUE
        /\ strays = FALSE

Next == \/ parse \/ parseStmt \/ Recover \/ parseBlock
        \/ nameStmt \/ parseIfStmt \/ parseWhen \/ parseForStmt \/ parseFunctionDecl
        \/ parseReturnStmt \/ parsePath \/ parseImportStmt \/ parseFromImportStmt \/ parseTryStmt
        \/ parsePrimary \/ parseCall \/ parseItems \/ parseExprWithLeft
        \/ expect \/ skipNewlines \/ NewlinesSkipped \/ expectNewline
        \/ Stop

Spec == Init /\ [][Next]_vars /\ WF_vars(Next)

-----------------------------------------------------------------------------
(***************************************************************************)
(* The parser and its pending work are well-formed; panic mode is never on *)
(* without had_error, which compile() and the REPL test (errorAt,          *)
(* parser.cpp:17); pending work does not pile up after errors.             *)
(***************************************************************************)
TypeOK == /\ p \in [current : Tokens \cup {"eof"}, had_error : BOOLEAN, panic_mode : BOOLEAN,
                     repl_mode : BOOLEAN]
          /\ p.panic_mode => p.had_error
          /\ Depth(calls) <= Nesting + 3
          /\ read \in BOOLEAN /\ strays \in BOOLEAN

(***************************************************************************)
(* As long as the text read so far begins some program of the grammar, no  *)
(* error was reported: no parse function consumes, or stops before, a      *)
(* token that belongs to another, whatever is nested in what.              *)
(***************************************************************************)
ProgramsPass == expected # Astray => ~ p.had_error

(***************************************************************************)
(* A text that is no program has had an error reported when parse()        *)
(* returns, no matter how the parser went on after it and what panic mode  *)
(* kept back, unless an "end" or "else" with nothing to close was taken    *)
(* for a statement (parser.cpp:816).                                       *)
(***************************************************************************)
ErrorsShow == Finished /\ expected = Astray => p.had_error \/ strays

(***************************************************************************)
(* The parser reads on until it returns: no loop over statements, cases,   *)
(* parameters or arguments goes round without consuming a token, not even  *)
(* after an error that left the token where it was.                        *)
(***************************************************************************)
KeepsReading == []<>(read \/ Finished)
=============================================================================
