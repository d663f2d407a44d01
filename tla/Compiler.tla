------------------------------ MODULE Compiler -------------------------------
(***************************************************************************)
(* The compiler of src/src/compiler.cpp: its contexts, their locals, the   *)
(* loops and imports in progress, and what the code it has emitted does to *)
(* the value stack of the frame that will run it.                          *)
(*                                                                         *)
(* compileNode is a recursion over a syntax tree; a state is a moment      *)
(* between two statements of it, and the tree is any tree the parser can   *)
(* build.  Of the code emitted the model keeps heights: the set of all     *)
(* heights of the frame, in slots, with which execution can arrive at the  *)
(* end of it, empty after a jump or a return.  A forward jump keeps the    *)
(* heights it arrives with until it is patched.  A loop whose second turn  *)
(* starts at another height than the first shows after it: both arrive     *)
(* there.                                                                  *)
(*                                                                         *)
(* Names are left out: a local is the slot it was given.  A global is no   *)
(* concern of the frame.                                                   *)
(*                                                                         *)
(* Slip... operators: see module Table.                                    *)
(***************************************************************************)
EXTENDS Integers, SequencesExt

CONSTANTS
  LocalsMax,     \* NQ_LOCALS_MAX
  ArityMax,      \* bound on the parameters of a function
  NestMax,       \* bound on the statements, functions and modules around one
  Module,        \* the files that can be imported; the one compiled can be
                 \* among them, and is compiled again if it is imported
  Shapes         \* the forms of program, of those below, that may occur

(* forLet:   a variable declared right in the body of a numeric for, or of a
             for-in that also has a continue
   forStep:  a numeric for whose step is not a number literal, where execution
             can come to it
   whenIs:   a when whose last case is not else, where the case can end
   module:   a statement with local variables at the top level of a module
   const:    const in a scope
   memory:   a context made in memory that is not zero *)
AllShapes == {"forLet", "forStep", "whenIs", "module", "const", "memory"}

ASSUME CompilerAssumption ==
  /\ {LocalsMax, NestMax} \subseteq Nat \ {0}
  /\ ArityMax \in Nat /\ ArityMax < LocalsMax
  /\ "main" \notin Module
  /\ Shapes \subseteq AllShapes

VARIABLES
  ctxs,              \* current and the contexts that enclose it, current last
  loop_stack,
  imported_modules,
  import_stack,
  imports            \* history: which file has imported which

vars == <<ctxs, loop_stack, imported_modules, import_stack, imports>>

-----------------------------------------------------------------------------
(* Emitting code. *)

Shift(heights, n) == {h + n : h \in heights}

(* Instructions that take or leave n slots more than they found. *)
Emit(c, n) == [c EXCEPT !.heights = Shift(@, n)]

(* After an instruction that does not go on to the next. *)
Dead(c) == [c EXCEPT !.heights = {}]

(* patchJumpAt: a jump arrives here too; or nothing else does. *)
Patch(c, jump) == [c EXCEPT !.heights = @ \union jump]
Only(c, jump) == [c EXCEPT !.heights = jump]

(* compileExpr: the heights after each form of expression.  Its operands, by
   induction, leave one value each. *)
Value(heights) == Shift(heights, 1)
Popped(heights) == Shift(heights, -1)

Binary(heights) == Popped(Value(Value(heights)))

(* JUMP_IF_FALSE leaves the value it looks at, for the other operand to pop. *)
And(heights) ==
  LET left == Value(heights) IN left \union Value(Popped(left))

Or(heights) ==
  LET left  == Value(heights)
      right == Value(Popped(left))
  IN  right \union left

Ternary(heights) ==
  LET cond == Value(heights) IN Value(Popped(cond)) \union Value(Popped(cond))

(* The callee and its arguments, or the items, become one value. *)
Call(heights, argc) == Shift(Shift(heights, 1 + argc), - argc)
BuildArray(heights, count) == Shift(Shift(heights, count), 1 - count)
Slice(heights) == Shift(Shift(heights, 3), -2)

compileExpr(c) ==
  {[c EXCEPT !.heights = hs] :
     hs \in {Value(c.heights), Binary(c.heights), And(c.heights), Or(c.heights),
             Ternary(c.heights), Slice(c.heights)}
            \union {Call(c.heights, n) : n \in 0 .. 2}
            \union {BuildArray(c.heights, n) : n \in 0 .. 2}}

-----------------------------------------------------------------------------
(* Contexts and scopes. *)

(* A local remembers the heights at which its value was put on the stack.
   is_const has an entry for every slot, used or not: nothing sets it when a
   slot is used again, nor when a context is made in uninitialised memory. *)
Local(c) == [depth |-> c.scope_depth, const |-> FALSE, at |-> Popped(c.heights)]

(* addLocal, of the value on top of the stack. *)
addLocal(c) == [c EXCEPT !.locals = Append(@, Local(c))]

Room(c, n) == Len(c.locals) + n <= LocalsMax

beginScope(c) == [c EXCEPT !.scope_depth = @ + 1]

Inner(c, depth) == Cardinality({i \in DOMAIN c.locals : c.locals[i].depth > depth})

(* The locals of the scope are forgotten but not popped. *)
SlipEndScope(c) ==
  LET depth == c.scope_depth - 1
  IN  [c EXCEPT !.scope_depth = depth,
                !.locals = SubSeq(@, 1, Len(@) - Inner(c, depth))]

endScope(c) ==
  LET depth == c.scope_depth - 1
      n     == Inner(c, depth)
  IN  [Emit(c, - n) EXCEPT !.scope_depth = depth,
                           !.locals = SubSeq(@, 1, Len(@) - n)]

Slots == 0 .. LocalsMax - 1

Garbage == IF "memory" \in Shapes THEN [Slots -> BOOLEAN] ELSE {[s \in Slots |-> FALSE]}

(* initCompilerCtx, and the slots its user reserves: a script reserves slot 0
   for the function object that runVM or OP_CALL leaves below its frame, a
   function those of its parameters too, a module reserves none. *)
Context(kind, reserved, depth, arity, is_const) ==
  [kind        |-> kind,
   scope_depth |-> depth,
   locals      |-> [i \in 1 .. reserved |->
                      [depth |-> depth, const |-> FALSE, at |-> {i - 1}]],
   is_const    |-> is_const,
   heights     |-> {1 + arity},
   open        |-> <<>>]

Script(g)          == Context("script", 1, 0, 0, g)
FunctionOf(n, g)   == Context("function", n + 1, 1, n, g)
ModuleContext(g)   == Context("module", 0, 0, 0, g)

Compiling == ctxs # <<>>
Cur == Last(ctxs)
Set(c) == ctxs' = Append(Front(ctxs), c)

(* The statement whose blocks are being compiled, with the jumps out of it
   that are yet to be patched. *)
Open(c, node, jump) ==
  [c EXCEPT !.open = Append(@, [node |-> node, jump |-> jump, end |-> {}])]
Close(c) == [c EXCEPT !.open = Front(@)]
Statement == Last(Cur.open)
In(node) == Compiling /\ Cur.open # <<>> /\ Statement.node = node
Reopen(c, node, jump, end) ==
  [c EXCEPT !.open = Append(Front(@), [node |-> node, jump |-> jump, end |-> end])]

CanNest ==
  /\ Compiling
  /\ FoldSeq(LAMBDA c, n : Len(c.open) + n, Len(ctxs) - 1, ctxs) < NestMax

CanDeclare(n) == Room(Cur, n) /\ (Cur.kind = "module" => "module" \in Shapes)

SameImports == UNCHANGED <<imported_modules, import_stack, imports>>
SameLoops == UNCHANGED loop_stack /\ SameImports

-----------------------------------------------------------------------------
(* Statements without a block.  But for a declaration in a scope they leave
   the stack as it was. *)

Init ==
  /\ ctxs = <<>>
  /\ loop_stack = <<>>
  /\ imported_modules = {}
  /\ import_stack = <<>>
  /\ imports = {}

(* compile *)
Compile ==
  /\ ~ Compiling
  /\ \E g \in Garbage : ctxs' = <<Script(g)>>
  /\ loop_stack' = <<>>
  /\ imported_modules' = {}
  /\ import_stack' = <<>>
  /\ imports' = {}

(* OP_HALT and endCompilerCtx *)
EndCompile ==
  /\ Compiling
  /\ Cur.kind = "script" /\ Cur.open = <<>>
  /\ ctxs' = <<>>
  /\ SameLoops

(* Any error, in the tree, for want of room, or in a module that cannot be read
   or parsed: the calls of compileNode return one after the other, each ending
   what it has begun. *)
CompileError ==
  /\ Compiling
  /\ ctxs' = <<>>
  /\ loop_stack' = <<>>
  /\ import_stack' = <<>>
  /\ imported_modules' \in {imported_modules} \union
       {imported_modules \union {m} : m \in Module}
  /\ UNCHANGED imports

(* The body of a for has no scope of its own. *)
BareBody ==
  /\ Cur.open # <<>>
  /\ \/ Statement.node \in {"range", "up", "down"}
     \/ Statement.node = "for" /\ Last(loop_stack).continues # {}

(* NODE_LET in a scope, and NODE_CONST, which marks the local; the other
   leaves the mark as it is. *)
Let ==
  /\ Compiling /\ Cur.scope_depth > 0
  /\ CanDeclare(1)
  /\ BareBody => "forLet" \in Shapes
  /\ \E const \in {"const" \in Shapes, FALSE} : \E c \in compileExpr(Cur) :
       LET slot == Len(c.locals)
       IN  Set([addLocal(c) EXCEPT !.is_const[slot] = @ \/ const,
                                   !.locals[slot + 1].const = const])
  /\ SameLoops

(* NODE_LET and NODE_CONST at top level: OP_DEFINE_GLOBAL pops. *)
LetGlobal ==
  /\ Compiling /\ Cur.scope_depth = 0
  /\ \E c \in compileExpr(Cur) : Set(Emit(c, -1))
  /\ SameLoops

(* NODE_ASSIGN to a local that is not marked const, or to a global. *)
Assign ==
  /\ Compiling
  /\ \E i \in 0 .. Len(Cur.locals) : i > 0 => ~ Cur.is_const[i - 1]
  /\ \E c \in compileExpr(Cur) : Set(Emit(c, -1))
  /\ SameLoops

(* NODE_COMPOUND_ASSIGN, when it is not one OP_ADD_LOCAL_CONST. *)
CompoundAssign ==
  /\ Compiling
  /\ \E c \in compileExpr(Emit(Cur, 1)) : Set(Emit(Emit(c, -1), -1))
  /\ SameLoops

PrintStmt ==
  /\ Compiling
  /\ \E c \in compileExpr(Cur) : Set(Emit(c, -1))
  /\ SameLoops

ExprStmt ==
  /\ Compiling
  /\ \E c \in compileExpr(Cur) : Set(Emit(c, -1))
  /\ SameLoops

(* In the REPL a value that is not null is printed: OP_DUP, OP_NIL, OP_EQ. *)
ReplExprStmt ==
  /\ Compiling
  /\ \E c \in compileExpr(Cur) :
       LET test  == Popped(Value(Value(c.heights)))
           null  == Popped(Popped(test))
           shown == Shift(Popped(test), -1)
       IN  Set(Only(c, null \union shown))
  /\ SameLoops

SetIndex ==
  /\ Compiling
  /\ \E a \in compileExpr(Cur) : \E b \in compileExpr(a) : \E c \in compileExpr(b) :
       Set(Emit(c, -3))
  /\ SameLoops

(* NODE_RETURN, anywhere but in the script's own code. *)
Return ==
  /\ Compiling
  /\ Len(ctxs) > 1
  /\ \E c \in compileExpr(Cur) : Set(Dead(c))
  /\ SameLoops

-----------------------------------------------------------------------------
(* Blocks. *)

(* NODE_IF *)
If ==
  /\ CanNest
  /\ \E c \in compileExpr(Cur) :
       Set(Open(beginScope(Emit(c, -1)), "if", c.heights))
  /\ SameLoops

Else ==
  /\ In("if")
  /\ LET c == endScope(Cur)
     IN  Set(Reopen(beginScope(Only(c, Popped(Statement.jump))), "else", {}, c.heights))
  /\ SameLoops

EndIf ==
  /\ \/ /\ In("if")
        /\ Set(Close(Patch(endScope(Cur), Popped(Statement.jump))))
     \/ /\ In("else")
        /\ Set(Close(Patch(endScope(Cur), Statement.end)))
  /\ SameLoops

(* A LoopCtx.  A loop of which a function or module is declared in the body
   stays on the stack of loops: break and continue there would patch the code
   of one function with places in that of another, and are left out. *)
Loop(c, start, outer) ==
  [context           |-> Len(ctxs),
   start             |-> start,
   scope_depth       |-> c.scope_depth,
   local_count       |-> Len(c.locals),
   outer_local_count |-> Len(outer.locals),
   breaks            |-> {},
   continues         |-> {}]

PushLoop(l) == loop_stack' = Append(loop_stack, l) /\ SameImports

(* The loop that has ended stays the innermost one. *)
SlipPopLoop == UNCHANGED loop_stack /\ SameImports

PopLoop == loop_stack' = Front(loop_stack) /\ SameImports
Innermost == Last(loop_stack)

InLoop == Compiling /\ loop_stack # <<>> /\ Innermost.context = Len(ctxs)

(* The hidden variables of a for stay on the stack. *)
SlipBreakTarget(l) == l.local_count

BreakTarget(l) == l.outer_local_count

(* The pops of break and continue, down to so many locals. *)
PopsTo(n) == Shift(Cur.heights, - Cardinality(n + 1 .. Len(Cur.locals)))

Break ==
  /\ InLoop
  /\ loop_stack' = [loop_stack EXCEPT ![Len(loop_stack)].breaks =
                      @ \union PopsTo(BreakTarget(Innermost))]
  /\ Set(Dead(Cur))
  /\ SameImports

(* A jump back in a loop, a jump forward to the end of the body in a for. *)
Continue ==
  /\ InLoop
  /\ "forLet" \in Shapes
     \/ Len(Cur.locals) - Inner(Cur, Innermost.scope_depth) = Innermost.local_count
  /\ loop_stack' = [loop_stack EXCEPT ![Len(loop_stack)].continues =
                      @ \union PopsTo(Innermost.local_count)]
  /\ Set(Dead(Cur))
  /\ SameImports

(* The heights with which execution comes to the condition of a loop, and
   leaves it: JUMP_IF_FALSE and a pop in both cases. *)
Heads(c) == Innermost.start \union c.heights

(* NODE_LOOP *)
While ==
  /\ CanNest
  /\ \E c \in compileExpr(Cur) :
       Set(Open(beginScope(Emit(c, -1)), "loop", {}))
  /\ PushLoop(Loop(Cur, Cur.heights, Cur))

EndWhile ==
  /\ In("loop")
  /\ LET c == Patch(endScope(Cur), Innermost.continues)
     IN  Set(Close(Patch(Only(c, Popped(Value(Heads(c)))), Innermost.breaks)))
  /\ PopLoop

(* __for_idx__ < len(__for_arr__) *)
ForCondition(heights) == Popped(Call(Value(heights), 1))

(* NODE_FOR: the iterable and the index are hidden locals, the item one in a
   scope of its own. *)
For ==
  /\ CanNest
  /\ CanDeclare(3)
  /\ \E c \in compileExpr(beginScope(Cur)) :
       LET idx  == addLocal(Emit(addLocal(c), 1))
           turn == beginScope(Only(idx, Popped(ForCondition(idx.heights))))
           item == addLocal(Only(turn, Binary(turn.heights)))
       IN  /\ Set(Open(item, "for", {}))
           /\ PushLoop(Loop(item, idx.heights, Cur))

EndFor ==
  /\ In("for")
  /\ LET body == Patch(Cur, Innermost.continues)
         next == endScope(Only(body, Popped(Binary(body.heights))))
         exit == endScope(Only(next, Popped(ForCondition(Heads(next)))))
     IN  Set(Close(Patch(exit, Innermost.breaks)))
  /\ PopLoop

(* The hidden locals of NODE_FOR_RANGE: counter, stop and step. *)
Hidden(S) == {addLocal(c) : c \in UNION {compileExpr(x) : x \in S}}

Range3 == Hidden(Hidden(Hidden({beginScope(Cur)})))

(* The body gives the counter's slot the name of the loop variable, in no
   scope of its own. *)
Turn(c) == Only(c, Popped(Binary(c.heights)))

(* NODE_FOR_RANGE with a literal step. *)
ForRange ==
  /\ CanNest
  /\ CanDeclare(3)
  /\ \E c \in Range3 :
       /\ Set(Open(Turn(c), "range", {}))
       /\ PushLoop(Loop(c, c.heights, Cur))

(* The end of a body and of the loop, at the code after its exit; the counter
   is increased in its slot. *)
LoopExit ==
  LET body == Patch(Cur, Innermost.continues)
  IN  Only(body, Popped(Binary(Heads(body))))

EndForRange ==
  /\ In("range")
  /\ Set(Close(Patch(endScope(LoopExit), Innermost.breaks)))
  /\ PopLoop

(* OP_JIT_FOR_RANGE, when the body is compound assignments of numbers to
   locals: one instruction. *)
JitForRange ==
  /\ Compiling
  /\ CanDeclare(3)
  /\ \E c \in Range3 : Set(endScope(c))
  /\ SameLoops

(* NODE_FOR_RANGE with any other step: a loop up, and the same one down with
   the body compiled again. *)
ForStep ==
  /\ CanNest
  /\ CanDeclare(3)
  /\ Cur.heights # {} => "forStep" \in Shapes
  /\ \E c \in Range3 :
       LET down == Binary(c.heights)
           up   == Only(c, Popped(down))
       IN  /\ Set(Open(Turn(up), "up", down))
           /\ PushLoop(Loop(up, up.heights, Cur))

ForDown ==
  /\ In("up")
  /\ LET up   == Patch(LoopExit, Innermost.breaks)
         down == Only(up, Popped(Statement.jump))
         hidden == [Cur EXCEPT !.locals = SubSeq(@, 1, Innermost.outer_local_count)]
     IN  /\ Set(Reopen(Turn(down), "down", {}, up.heights))
         /\ loop_stack' = Append(Front(loop_stack), Loop(down, down.heights, hidden))
  /\ SameImports

EndForStep ==
  /\ In("down")
  /\ Set(Close(Patch(endScope(Patch(LoopExit, Innermost.breaks)), Statement.end)))
  /\ PopLoop

-----------------------------------------------------------------------------
(* NODE_WHEN: the subject is a hidden local; a case that does not match jumps
   to the next one, a body that ends jumps to the end.  The parser takes no
   case after else. *)

When ==
  /\ CanNest
  /\ CanDeclare(1)
  /\ \E c \in compileExpr(beginScope(Cur)) : Set(Open(addLocal(c), "when", {}))
  /\ SameLoops

InCases == In("when") \/ In("is")
InWhen == InCases \/ In("elseWhen")

(* The end of a body, or the place before the first case. *)
BodyEnd == IF In("when") THEN Cur ELSE endScope(Cur)

(* The code of the next case, where the last one jumps when it does not
   match. *)
NextCase ==
  IF In("when") THEN Cur ELSE Only(BodyEnd, Popped(Statement.jump))

EndJumps == IF In("when") THEN {} ELSE Statement.end \union BodyEnd.heights

(* subject == v1 or subject == v2, or one comparison. *)
Matches(heights) ==
  LET left == Binary(heights)
  IN  {left, Binary(Popped(left)) \union left}

Is ==
  /\ InCases
  /\ \E match \in Matches(NextCase.heights) :
       Set(Reopen(beginScope(Only(NextCase, Popped(match))), "is", match, EndJumps))
  /\ SameLoops

ElseWhen ==
  /\ InCases
  /\ Set(Reopen(beginScope(NextCase), "elseWhen", {}, EndJumps))
  /\ SameLoops

(* After the last case, if that can fail, the value it has compared is
   popped; and the body of that case goes on there. *)
EndWhen ==
  /\ InWhen
  /\ In("is") /\ BodyEnd.heights # {} => "whenIs" \in Shapes
  /\ LET last == IF In("is")
                 THEN Emit(Patch(BodyEnd, Statement.jump), -1)
                 ELSE BodyEnd
     IN  Set(Close(endScope(Patch(last, Statement.end))))
  /\ SameLoops

-----------------------------------------------------------------------------
(* NODE_TRY: an error is pushed on what was on the stack at OP_TRY. *)

Try ==
  /\ CanNest
  /\ Set(Open(beginScope(Cur), "try", Value(Cur.heights)))
  /\ SameLoops

Catch ==
  /\ In("try")
  /\ CanDeclare(1)
  /\ LET c == endScope(Cur)
     IN  Set(Reopen(addLocal(beginScope(Only(c, Statement.jump))), "catch", {}, c.heights))
  /\ SameLoops

EndTry ==
  /\ In("catch")
  /\ Set(Close(Patch(endScope(Cur), Statement.end)))
  /\ SameLoops

-----------------------------------------------------------------------------
(* Functions and modules. *)

(* The parameters' default values: where a parameter is null, another value
   is put in its slot. *)
Default(heights) ==
  LET null == Binary(heights)
  IN  Popped(Value(Popped(null))) \union Popped(null)

(* NODE_FUNCTION *)
Function ==
  /\ CanNest
  /\ \E n \in 0 .. ArityMax, g \in Garbage :
       LET f == FunctionOf(n, g)
       IN  \E heights \in {f.heights, Default(f.heights)} :
             ctxs' = Append(ctxs, Only(f, heights))
  /\ SameLoops

(* The function is a constant of the code around it, and a global. *)
EndFunction ==
  /\ Compiling
  /\ Cur.kind = "function" /\ Cur.open = <<>>
  /\ LET outer == Front(ctxs)
     IN  ctxs' = Append(Front(outer), Emit(Emit(Last(outer), 1), -1))
  /\ SameLoops

Importer == IF import_stack = <<>> THEN "main" ELSE Last(import_stack)

(* A module imported before is skipped before it is looked for in the chain. *)
SlipCircular(m) == Contains(import_stack, m) /\ m \notin imported_modules

Circular(m) == Contains(import_stack, m)

(* NODE_IMPORT of a module that is found; a circular one is an error. *)
Import(m) ==
  /\ Compiling
  /\ m \in imported_modules \/ CanNest
  /\ ~ Circular(m)
  /\ imports' = imports \union {<<Importer, m>>}
  /\ IF m \in imported_modules
     THEN UNCHANGED <<ctxs, imported_modules, import_stack>>
     ELSE /\ imported_modules' = imported_modules \union {m}
          /\ import_stack' = Append(import_stack, m)
          /\ \E g \in Garbage : ctxs' = Append(ctxs, ModuleContext(g))
  /\ UNCHANGED loop_stack

(* The module is a function that is called where it is imported. *)
EndImport ==
  /\ Compiling
  /\ Cur.kind = "module" /\ Cur.open = <<>>
  /\ import_stack' = Front(import_stack)
  /\ LET outer == Front(ctxs)
         c     == Last(outer)
     IN  ctxs' = Append(Front(outer), Only(c, Popped(Call(c.heights, 0))))
  /\ UNCHANGED <<loop_stack, imported_modules, imports>>

-----------------------------------------------------------------------------

Next ==
  \/ Compile \/ EndCompile \/ CompileError
  \/ Let \/ LetGlobal \/ Assign \/ CompoundAssign \/ SetIndex
  \/ PrintStmt \/ ExprStmt \/ ReplExprStmt \/ Return
  \/ If \/ Else \/ EndIf
  \/ While \/ EndWhile \/ Break \/ Continue
  \/ For \/ EndFor \/ ForRange \/ EndForRange \/ JitForRange
  \/ ForStep \/ ForDown \/ EndForStep
  \/ When \/ Is \/ ElseWhen \/ EndWhen
  \/ Try \/ Catch \/ EndTry
  \/ Function \/ EndFunction
  \/ \E m \in Module : Import(m)
  \/ EndImport

Spec == Init /\ [][Next]_vars

-----------------------------------------------------------------------------

(* The contexts, loops and imports in progress nest in each other: a context
   for each file that is being imported, a loop for each loop statement
   that is open, in the order in which they were opened. *)
TypeOK ==
  /\ \A i \in DOMAIN ctxs :
       /\ ctxs[i].kind = "script" <=> i = 1
       /\ Len(ctxs[i].locals) <= LocalsMax
       /\ ctxs[i].scope_depth \in Nat
       /\ ctxs[i].is_const \in [Slots -> BOOLEAN]
       /\ Cardinality({l \in DOMAIN loop_stack : loop_stack[l].context = i}) =
          Cardinality({k \in DOMAIN ctxs[i].open :
             ctxs[i].open[k].node \in {"loop", "for", "range", "up", "down"}})
  /\ Len(import_stack) = Cardinality({i \in DOMAIN ctxs : ctxs[i].kind = "module"})
  /\ Range(import_stack) \subseteq imported_modules
  /\ imported_modules \subseteq Module

(* A frame of a module has its function object below the locals, but its
   context has no local for it. *)
Base(c) == IF c.kind = "module" THEN 1 ELSE 0

(* Wherever execution arrives between two statements, and whichever way, the
   stack of the frame is as high as the compiler counts: by the end of every
   block, case, loop, break, continue, return and catch. *)
Balanced ==
  \A i \in DOMAIN ctxs : ctxs[i].heights \subseteq {Base(ctxs[i]) + Len(ctxs[i].locals)}

(* The value of a local was put into the very slot that OP_GET_LOCAL and
   OP_SET_LOCAL of that local will use. *)
SlotsHoldLocals ==
  \A i \in DOMAIN ctxs : \A k \in DOMAIN ctxs[i].locals :
    ctxs[i].locals[k].at \subseteq {k - 1}

(* A program that compiles has no import cycle: at no time has a file imported
   one that, over others, imports it; skipping what is already imported hides
   no cycle. *)
AcyclicImports ==
  \A S \in (SUBSET Module) \ {{}} : \E a \in S : \A b \in S : <<a, b>> \notin imports

(* docs/dev/semantics.md: a const, and nothing else, cannot be assigned.  What
   the compiler takes for const is what was declared const, whatever its slot
   held before (slot 0 has no name). *)
ConstsAreConst ==
  \A i \in DOMAIN ctxs : \A k \in DOMAIN ctxs[i].locals \ {1} :
    ctxs[i].is_const[k - 1] = ctxs[i].locals[k].const
=============================================================================
