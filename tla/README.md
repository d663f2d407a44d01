# Verification of Nolqu's runtime

TLA+ models of the Nolqu interpreter (`src/`), TLC configurations that check
them on small instances, and proofs that TLAPS checks. Run from this directory:

    tlc -workers 2 -config MCGlobals.cfg MCGlobals.tla
    tlapm GlobalsProofs.tla

`PROJECT.json` lists the parts, the runs, the mutations each property is tested
with, the source lines of every definition, the disagreements found, the hazards
and the theorems.

## 1. The system

One process, one thread. A source text goes through lexer and parser to a
syntax tree, through the compiler to bytecode, and into the VM. Nothing runs
concurrently and nothing is persisted; what is hard here is state that several
parts share and restore by hand.

| Part | Keeps | Operations | Talks to | Correct when |
|---|---|---|---|---|
| Hash table (`table.c`) | entries, tombstones, count | get, set, delete, grow | VM (globals); keys compared by address | a map; searches end; count bounds the load |
| Interpreter (`vm.c`) | stack 512, frames 64, try_stack 64, thrown | one step per instruction, throwError, callFunction, runVM | natives by `thrown`; hosts call runVM again on the same VM | an error runs the catch block of the innermost live try, on the stack that was there, and only that |
| Natives (`vm.c`) | nothing of their own (`g_vm_for_error`) | about 50 functions | allocate; report errors through `thrown` | reported errors behave as thrown ones |
| Intern table (`object.c`) | strings by content | find, add, grow; rebuilt by the GC | all that makes strings | one object for each text, always findable |
| Heap and GC (`object.c`, `gc.c`) | list of all objects, mark bits, `nq_gc_vm` | allocate (may collect), collect | roots in the VM | frees nothing reachable, and all the rest |
| Allocator (`memory.c`) | byte count, threshold | nq_realloc | triggers the GC | count is what is allocated |
| Compiler (`compiler.cpp`) | locals, scopes, loop_stack, imports, consts | compile() and one case per node | holds unrooted objects; its slot count is the VM's stack layout | stack height of the code equals the locals it counts |
| Imports (in the compiler) | import_stack, imported_modules | resolve, check cycles, compile once | files | each module once per program, cycles refused |
| Loop JIT (`jit.c`) | cache of 64, statistics | run a loop spec | slots of a frame | same values as the loop |
| REPL (`repl.cpp`) | carry buffer, block depth | line; reset after errors | compile, runVM | inputs complete when they are, and independent |
| Embedding (`nq_embed.cpp`) | states, 64 host natives | open, close, dostring, globals, gc, register, call | everything | states independent, as the docs say |
| CLI (`main.cpp`) | one VM | run, test, check, repl | hosts the VM | a test file does not see the one before |
| Parser (`parser.cpp`) | current token, had_error, panic_mode, repl_mode | one function per form; synchronize | pulls tokens; its tree goes to the compiler | takes the grammar and nothing else, builds the trees the levels give, always reads on |
| Lexer, AST | position | scan; node constructors | parser | not modelled (see 6) |
| `codegen.cpp`, stdlib | | | | not modelled (see 6) |

The behaviours that are hard: errors unwinding calls, operands and handlers at
once; state left behind when a run ends or fails and the VM is used again; a
collection at any allocation; objects off the stack while something is
allocated; probe chains through deleted and collected entries; limits reached
inside error handling; several states over one set of global tables; a block
that ends inside another, or after an error; machine code kept for one loop and
run for another; a byte count that believes what its callers say.

## 2. Modules

| Module | Models |
|---|---|
| `Table` | `table.c` as operators on a record |
| `Globals` | the VM's three global-variable instructions over a `Table` |
| `GlobalMap` | what they promise: a partial map, and undefined names stay undefined |
| `MCGlobals` | names with colliding hashes |
| `GlobalsProofs` | lemmas and theorems about them |
| `VMControl` | frames, stack heights, try handlers, thrown; all instructions by their effect on these; hosts |
| `TryCatch` | what it promises: structured try and catch over calls |
| `MCVMControl` | small limits |
| `VMControlProofs` | theorems about `VMControl`; that it implements `TryCatch` |
| `StringTable` | the intern table as operators |
| `Heap` | objects, collector, allocation in the VM, the compiler and the embedding API |
| `MCHeap` | few addresses, two texts with colliding hashes |
| `HeapProofs` | theorems about `StringTable` and `Heap` |
| `Compiler` | contexts, scopes, locals, loops and imports of the compiler, and the stack heights of the code it emits |
| `MCCompiler` | two modules, few statements around a statement |
| `CompilerProofs` | theorems about `Compiler` |
| `Grammar` | the grammar of the documents, as a recogniser of tokens, with or without the forms the parser refuses |
| `Parser` | the parse functions for statements, error reports and recovery |
| `MCParser` | bounds; safety with the deeper one, liveness with the smaller |
| `ParserProofs` | theorems about `Parser` |
| `Expressions` | the expression functions, the trees they build, the REPL's second set of them |
| `MCExpressions` | the levels of the operators as the documents have them |
| `LoopJit` | a loop as machine code, as C and as bytecode; the cache of code |
| `MCLoopJit` | two variables and the loop's own, two registers, room for one piece of code, doubles with a significand of two bits |
| `LoopJitProofs` | theorems about it |
| `ReplInput` | lines, the buffer and the count of open blocks |
| `MCReplInput` | short lines, a small buffer |
| `ReplInputProofs` | theorems about `ReplInput` |
| `Allocator` | what is allocated and what the counter says |
| `MCAllocator` | two objects, two texts |
| `AllocatorProofs` | theorems about `Allocator` |

Operators called `Slip...` are never used by a specification: each is a
plausible mistake in the definition that follows it, which the check puts in its
place to see that a property fails.

### Table and Globals

The state is the array of entries with count and capacity, and the answer of the
last instruction. `findEntry` is written by the turn at which its loop stops
rather than by a loop, so that "it stops" is a property (`ProbesEnd`) and not an
assumption. Keys are interned strings, here elements of `Key` with any hash
function; values are abstracted to `Value`. `tableSet` grows at 75% of the
capacity, counting tombstones. One action per instruction:
`OP_DEFINE_GLOBAL`, `OP_GET_GLOBAL`, `OP_SET_GLOBAL`, the last with the
insertion and deletion of an undefined name.

### VMControl and TryCatch

`vm.frames` is the array, so that entries above `frame_count` keep what was
there. A frame is a function, the base of its slots and its place: the list of
the try bodies it is in, each with the stack height at `OP_TRY`. That list is
what the source text says; `try_stack` is what the machine has. Values are
abstracted to heights. The compiler's discipline (a body leaves the stack as
high as it found it) is assumed for the code inside a frame; whether the
compiler keeps it is the business of `Compiler`. A program is any
choice of instructions. Constants switch on what the core properties cannot
survive: `LeavesTry` (break, continue, return out of a try body) and
`ThrowsDirectly` (env() and sleep() with a wrong argument). `Hosts` are who may start
the next run: `test` (a reset VM each time, like a plain run), `repl` (reset after
errors only), `embedding` (never reset).

After OP_HALT a script's frame stays, and code after OP_HALT (the OP_NIL and
OP_RETURN of endCompilerCtx) can run when a refused call makes it the current
one: `PastHalt` models that. A frame that was left stays in the array too, and an error
that finds its handler brings it back. Undefined behaviour is where the model stops: code
that is not its frame's, and a stack pointer below the stack (`OnStack`).

`TryCatch` has the activations, each with the heights at which it entered the try
bodies it is in, and no handlers, frames array or limits: what a limit does to a
program is that it may end at any time, or not begin. The refinement mapping
reads the activations off the frames of the current run: those an earlier input
has left below it must make no difference.

### StringTable and Heap

Addresses are small numbers; an object is its type and the set of objects it
refers to, a string its text. Any allocation may collect for `nq_gc_vm` first.
Code that holds objects in C variables across an allocation ("holders": string
concatenation, array slices, split(), the compiler, nq_setglobal_string) takes several
steps, with the objects in `held`. Whether an allocation reaches
`nq_gc_threshold` is a choice, at every allocation, also where the collector does not
know all that is in use. What a collection frees although C variables or another
machine still reach it is kept in `taken`, and there the behaviour ends: what the code
then does with that memory is undefined. So `NothingLost` says that this is all
that is ever lost (not what the stack, frames or globals reach), `NothingTaken` that not
even that is, which the code does not keep (section 4).
A freed address is reused at once, the lowest first: which one does not matter,
since nothing orders addresses.

### Compiler

compileNode recurses over the syntax tree; a state is a moment between two
statements, and the tree is any tree the parser can build. `ctxs` is `current` and
its `enclosing` contexts, each with its scope depth, locals and const marks.
`open` is the recursion itself: the statements around the place, with the jumps
each has yet to patch. Of the code emitted only `heights` is kept: all the
heights, in slots of the frame, with which execution can arrive at its end. An
instruction shifts the set, a jump moves it to the place that will be patched,
a patch adds it there. A statement with blocks is an action for its
beginning, one for each further block and one for its end; anything else is one
action. A local remembers the heights at which its value was pushed (`at`).

For a loop, the heights after one turn of the body are added to those before the
first: a second turn that starts higher shows there. That is enough to see that a
loop is unbalanced, not to count by how much after many turns.

`Shapes` names the forms of program for which the compiler's own discipline
fails; the run has none of them, and section 4 says what each of them refutes. A numeric for with a variable step and a when
that ends in a case are in the pass run where execution cannot come to the end of
them; the rest of what they do to contexts and loops is the same.

### Grammar and Parser

The parse functions call each other; `calls` is that chain of calls, flattened to
what each of them still has to do, innermost first. A step does the first of
these: it looks at the current token, consumes it or not, reports an error or not,
and puts what is to follow in its place. `p` has the fields of `Parser`. The next
token is chosen when it is read, so a behaviour is the parse of any text.

`Grammar` follows the same tokens by the documents' grammar alone: `expected` is what
may still come, or `Astray` once no program begins like that. It is what
"correct" means here, and it knows nothing of the parser: `ProgramsPass` says that a
text of the grammar gets no error, `ErrorsShow` that any other gets one. The
documents have six forms that the parser refuses. `Forms` names them, and those in the constant
`With` are in the grammar: none in the runs and the proofs, any one of them refutes
`ProgramsPass` (section 4). In the other direction the grammar has what the parser takes and
the documents do not say: the header of `Grammar` lists it, with the place in case bodies where `is`
is not a name. The documents differ among themselves on imports: grammar.md:84
has neither `as` nor `from`, language.md:493-494 has both; the parser has `from`. A stray `end` or `else` is
taken for a statement without a word: `strays` remembers it.

After an error tokens are skipped to the next statement (`Recover`). Its loops are
where a parser hangs when nothing consumes the token that is in the way:
`KeepsReading`.

### Expressions

A state is a text under construction, by roles: a "-" is written as a negation or a
difference, a "(" as a call or a group. `Means` takes roles and `Levels` and says
which operator is the outermost of each part; `parseExpr` and its fellows
see the tokens only. `Levels` are those of docs/dev/language.md:235 and
docs/dev/grammar.md:101, which the parser does not keep in two places: `Disputed` are the texts that it
reads otherwise for that, of which `TreesAreRight` says only that they are read (section 4). `Compared` is the chain of comparisons: `a < b < c` becomes two
comparisons with `b` in both, by `cloneSimpleNode`, which can only copy names and
literals. `parseExprWithLeft` is the REPL's: a line that begins with a name has had
the name consumed, so the levels above it are climbed from the inside.

### LoopJit

`Enter` is OP_JIT_FOR_RANGE. `TooManyVars`, `Hit`, `NoPage` and `Build` are where code comes
from (`NoPage` is mmap refusing). `Call` to `Stores` are the blocks of the emitted code, a step
per body statement, on registers named as jit.c does; `Turn` and `Statement` are the
loop in C. `fn` is what distinguishes one piece of code from another: the direction of the
step, the number of variables, the operations. `mirror` is the same loop done as
the compiler's bytecode would do it, step by step beside it, and its `same` turns
FALSE when one of the two goes on and the other stops. `Return` gives the
slots any values and goes on to any other loop: only the cache lives on.

Numbers are doubles. How they are added and multiplied is a parameter, `Plus` and `Times`, of
which the model assumes that integers up to `Exact` (2^53) are added as they are and that NaN stays NaN; in the run
they are doubles with a significand of two bits, so that 4 + 1 is 4. The counter and the bound of
a loop may be NaN, for which every comparison is false: the emitted comparison and its jumps have to
agree with C about that. For loops that count down they do. Those that count up never end, as
machine code, nor does, in machine code, C or bytecode, a loop that counts past `Exact`. Both
occur in the model and are run there for ever; `LoopsEnd` is about the other loops, the
`Counted` ones.

### ReplInput

A line is its first word, what is after it and its length. `carry` is the buffer and
`depth` the number of blocks that seem open, as in runREPL; `typed` is what the user
typed since the last prompt for a new input, and `Nesting` counts the blocks as the
language has them. `unread` is the rest of a line that was longer than fgets takes. What
parser and compiler say is open, but for unclosed blocks.

### Allocator

`m` has the counter, the threshold, and each object with `bytes`, the size its memory
really has. `nq_realloc` moves the counter by the two sizes it is told and starts
nothing; `AllocObject` starts a collection, which may free any set of objects: `Heap`
says which. The counter's two known errors are counted in `unseen` (OP_MUL hands
over a buffer from malloc, which freeObject will subtract) and `unreturned` (join
sets 32 bytes aside for a number and the string owns only what was used).

## 3. Runs

| Run | Shows | Bounds |
|---|---|---|
| `globals` | `TypeOK`, `ProbesEnd`, `CountIsOccupied`, `Findable`, `NoTombstonePileUp`; `Globals` implements `GlobalMap` | 4 names, first capacity 2: growth to 4 and 8 with tombstones, chains that wrap around |
| `control` | `TypeOK`, `HandlersMirrorTrys`, `StackFits`, `HandlersOfThisRun`, `OneCatchPerError`; `VMControl` implements `TryCatch`, run by `nq test` and the REPL | 3 frames, stack of 5, 2 handlers, functions of 0 and 1 parameters: every limit is reached, finished inputs fill the frames |
| `control_all` | `LimitsHold` with every program and the host that never resets | 3 frames, stack of 4, 1 handler, functions of 0 and 1 parameters |
| `heap` | `TypeOK`, `NothingLost`, `Interning`, `CollectsGarbage`: one machine, a collection at any allocation | 3 objects, 2 texts, first capacity 2, stack of 3: the table grows, collides and is rebuilt |
| `control_frames` | refuted: `FramesAreCalls`, see 4 | as `control`, REPL only, stack of 6 |
| `compiler` | `TypeOK`, `Balanced`, `SlotsHoldLocals`, `AcyclicImports` for all programs without the shapes | 7 locals (two nested for loops), 2 statements around one, 2 modules |
| `parser` | `TypeOK`, `ProgramsPass`, `ErrorsShow`: the parser takes the grammar without the six forms and nothing else, in files and in the REPL | blocks and brackets two deep before an error, one deep after |
| `parser_reads` | `KeepsReading` | one deep |
| `expressions` | `TreesAreRight`, `CallsOnce`, `Towers`, with the documents' levels | all texts of up to 8 tokens |
| `loop_jit` | `TypeOK`, `SameAsBytecode`, `CodeFits`, `KeptPages`, `LoopsEnd` | bodies of up to 3 statements over 3 variables, 2 registers, room for one piece of code, bounds 0, 2, 6 and NaN, steps 1 and -1, doubles counted exactly up to 4 |
| `repl` | `TypeOK`, `BufferHolds`, `NothingLeft`, `RunsForms` | inputs of 5 lines, lengths 2 and 5, buffer of 15, fgets of 5 |
| `allocator` | `TypeOK`, `BytesCounted` | 2 objects, 2 texts, counts to 2, 4 bytes miscounted, threshold 60 |

Why small bounds are enough: the table's properties are proved for all sizes, so
its runs only show that the statements are not vacuous. In `VMControl` every
array bound is a constant, and each is reached, exceeded and recovered from
with two or three elements, and the properties of `control` and `control_all` are proved for
all of them. That matters for programs that leave try bodies: in a run of two
frames `TypeOK` seems to hold for them, with three frames and a stack of six it does
not (section 4), and `control_all` is too small to go there; what holds
of them, `LimitsHold`, is a theorem. In `Heap` every hazard needs a script, one object it uses
and one more to allocate. In `Compiler` a statement meets only the one around it
and the loop that is innermost; break and continue need a loop and one block in
it, a circular import two modules. A parse function leaves its marks on the one
that called it, so two deep has every form in every other; the parser's safety needs
the second level for blocks in blocks, and a loop that does not read needs one. Eight tokens have
two operators of any two levels under a prefix, three comparisons in a chain, and each bracket with
something on both sides. `LoopJit` is proved for all sizes but for the end of loops; two
registers and a body of three reach the case of too many variables, and room for one piece of
code the full cache. In `ReplInput` an input of five lines has a form in a form; lines
of 5 are cut and three of them fill the buffer. In `Allocator` one object grows while another is
there to be freed.

Deadlock is not checked where the process may exit (`exit(1)` on a full stack,
the end of a program) or, in `Heap`, where the bound on objects stops it.
`Compiler` never stops: compile can be called again.

Fairness. The program is one thread, nothing schedules anything, and a thread
that has a next step takes it unless the process is killed. So `Parser` has
WF_vars(Next): parse functions go on until parse() returns. `LoopJit` has
WF_vars(Step), of all but `Enter`: a loop that was begun goes on, but no
script has to begin one. `LoopsEnd` says that a counted loop then ends. Nothing else is claimed to end: a Nolqu program may loop for
ever, and a user may stop typing. findEntry's loop is one atomic step in the
model, and that it ends is the safety property `ProbesEnd`.

## 4. What the checks found

One disagreement has a run of its own: the 65th input of a REPL session fails with
"Stack overflow", because OP_HALT leaves the script's frame behind
(`control_frames`; PROJECT.json quotes the message). Confirmed by running it.

The others were found the same way and are shut out of the passing runs by a
constant or the choice of property. To see one, change the configuration; TLC then refutes the
property within a minute. All were confirmed by a program unless said otherwise.

| Configuration | With | Refutes | Because |
|---|---|---|---|
| `MCVMControl` | `LeavesTry = TRUE` | `HandlersMirrorTrys` | break, continue and return out of a try body leave its handler, which later catches errors of code it does not surround |
| `MCVMControlAll` | `StackMax = 7`, `HeightMax = 6`, INVARIANT `TypeOK` | `TypeOK` | such a handler takes an error after its frame was left: that frame and the old ones below it run again (`k(); error("boom")` goes on in k, then in its caller, then after that call), and since the stack has other things on it by then they pop below its bottom (that they run again was confirmed) |
| `MCVMControl` | `ThrowsDirectly = TRUE` | `OneCatchPerError` | env() and sleep() with a wrong argument throw themselves and are thrown again: two handlers are gone |
| `MCHeap` | INVARIANT `NothingTaken` | `NothingTaken` | unrooted objects: OP_CONCAT, array slices, split() (confirmed with an address sanitizer); a second compilation, nq_setglobal_string (read) |
| `MCHeap` | INVARIANT `NothingTaken`, `VMs = {A, B}`, `MaxObj = 2` | `NothingTaken`, with no holder | embedded states share one list of objects and one string table: collecting or closing one frees the objects of the others |
| `MCCompiler` | `Shapes = {"forLet"}` | `Balanced` | the body of a for has no scope: `for i = 0 to 3 / let x = i * 10 / print x / end` prints 0 three times; after a let in a for-in, continue pops twice |
| `MCCompiler` | `Shapes = {"forStep"}` | `Balanced` | a numeric for with a variable step leaves its hidden locals on the stack when it ends counting up |
| `MCCompiler` | `Shapes = {"whenIs"}` | `Balanced` | a when whose last case is not else pops once too often when that case matches |
| `MCCompiler` | `Shapes = {"module"}` | `SlotsHoldLocals` | the context of an imported module does not reserve slot 0 |
| `MCCompiler` | `Shapes = {"const"}`, `LocalsMax = 3`, INVARIANT `ConstsAreConst` | `ConstsAreConst` | a local inherits the const mark of the one that had its slot |
| the same | `Shapes = {"memory"}` | `ConstsAreConst` | a context is made in memory nobody clears (read) |
| `MCParser` | `With = {"blank body"}` | `ProgramsPass` | a body of try or catch that has only blank lines is refused, which docs/dev/grammar.md:88-92 allows |
| the same | `With = {"return end"}` | `ProgramsPass` | so is `return` without a value before `end` on its line (any statement may stand there, CHANGELOG.md:77) |
| the same | `With = {"expression"}` | `ProgramsPass` | `m[0][1] = 5`, `f()[0] = 1` (grammar.md:49, stable/grammar.md:25) and expressions as statements other than names, calls of names and `name[i]` (grammar.md:94) |
| the same | `With = {"plain after"}` | `ProgramsPass` | a parameter without a default after one with (grammar.md:74-76) |
| the same | `With = {"import as"}` | `ProgramsPass` | `import ... as` (docs/dev/language.md:493; grammar.md:84 agrees with the parser) |
| the same | `With = {"from name"}` | `ProgramsPass` | a statement that begins with a variable called `from` (CHANGELOG.md:3412) |

Some properties hold under a condition, which the code does not meet elsewhere:

* `SameAsBytecode`: a loop body that assigns to one variable twice keeps only the
  last register's sum; one that assigns to a name equal to the loop variable changes
  that outer variable, where any other body changes the counter; and the emitted
  code of a loop that counts up never ends when the bound or the start is NaN, where the
  bytecode does not begin; it is never finished, and the property is about finished loops.
* `LoopsEnd`: not for those upward loops with NaN (jit.c:306: an unordered comparison sets the flags
  of "below"), nor for loops beyond 2^53, where `i + 1` is `i` and machine code, C and bytecode all go on for
  ever.
* `RunsForms`: `for` and `when` open blocks the REPL does not count; `if x then`
  on one line, `if(` and `end` with more after it are counted wrong; lines over the
  buffers' sizes are cut, or dropped without a message (repl.cpp:102-106) while their words
  are counted.
* `ErrorsShow`: an `end` or `else` with nothing to close is skipped in silence.
* `Towers`: in the REPL a ternary after a name, an expression that begins with
  `name[...]` and goes on, and a call of something indexed are refused; a chain of comparisons
  compares the boolean.
* `TreesAreRight`: two levels are not the documents' (`Disputed`). `..` has the level of `+` and `-` in the
  parser (parser.cpp:1112-1134) and a level below them in docs/dev/language.md:241-242 and
  docs/dev/grammar.md:122-124, so that `a .. b - c` is `(a .. b) - c`, against the documents. `not`
  binds as tightly as a minus sign in the parser and in language.md, and is below `==` in
  grammar.md:110: `not a == b` is `(not a) == b`.
* `TreesAreRight` also: a chain of comparisons is refused when an operand in its middle is not
  simple (`TooComplex`), as docs/dev/language.md:233 says.
* `BytesCounted`: `"x" * 20000` made again and again takes the counter to 0; a thousand
  join() calls of four numbers leave it 124000 bytes too high. Both measured.

Read off the definitions while modelling, without a run of their own:

* loop_stack is not saved when a function begins: break in a function declared in
  a loop patches the bytes of that function when the loop around it ends.
* A module is marked imported when its code is emitted, not when it runs: after an
  import in a branch that is not taken, the next one is skipped and its names are
  undefined.
* OP_JIT_FOR_RANGE is emitted without the const test: a loop may change a const.
* OP_JIT_FOR_RANGE and OP_ADD_LOCAL_CONST take slots for numbers without a test:
  `for i = 0 to "abc"` runs once.
* The expressions in an f-string go through a parser of their own, whose errors are
  silent and which does not look at what is left of its text.
* join() measures three bytes for a null and writes four (vm.c:345, 368).
* An assignment to an array element out of range does nothing, where
  docs/dev/language.md:475 has an error.
* Const globals are forgotten at each compilation, so the next REPL input may assign
  to them (compiler.cpp:1335).
* The 64 host functions of nq_register are never given back.
* `throwError` stores the error without `push`'s limit test: with the stack full
  it goes one past the array (vm.c:911; `TypeOK` of `VMControl` says by how much).
* `thrown` is not cleared when a handler takes the error, as vm.h:68-71 says, but
  before the next native call.
* `callFunction` refuses wrong argument counts past every handler, where
  docs/dev/grammar.md:245 lists them as catchable (`Refuse` in `OpCall`).
* nq_dostring resets nothing after a failure, so the next string's error may go to
  a handler of the failed one (`Ready`).
* tableDelete leaves `count` alone, where table.h:31 says tombstones are not
  counted; the load test needs it as the code has it (`CountIsOccupied`).
* initVM empties the process's intern table under the states opened before, and
  nq_close leaves `nq_gc_vm` at the machine it frees (`OpenVM`, `CloseVM`).

## 5. Proofs

`GlobalsProofs` proves, for every `Key`, `Value`, hash function into Nat and first
capacity of at least 2 (assumptions `TableAssumption`, `AnswerAssumption`):

* `TypeCorrect`, `SearchesTerminate`, `LoadCorrect`, `NothingHidden`, `TombstonesBounded`:
  the five invariants of run `globals`, and
* `Refinement`: `Spec => GlobalMap!Spec` under the mapping of `ImplementsGlobalMap`.

The inductive invariant is `WellFormed` of the table: it is typed, count is the
number of occupied slots and within the load limit, and `Chain`: from the home
slot of a live key to its entry no slot is empty and none has the same key. The
checked properties are not inductive alone: `Findable` after an insertion needs
that no other live entry has the key, which follows from `Chain` and that
searches stop, which follows from the count. The lemmas on `Table` show that each
operation keeps `WellFormed` and what it does to the set of bindings; growth is
an induction over the slots copied, which rests on the least element of a
set of naturals (`BoundedInduction`) since induction theorems with an operator parameter cannot be
used here. Each proof module begins with the few facts of that kind that it needs.

`NoTombstonePileUp` needs an invariant of its own, `Owned`: each slot in use can be given one
name of `used` and no two slots the same, a live slot its key and a tombstone a name
whose search comes by it (`Reached`, the least set of slots closed under going on over what is
not empty). When a store uses an empty slot, the search passed no tombstone, so the
name owned none and the slot can be given to it; when it uses a tombstone while the name
owned one further on, what owned the first takes over the second, which a search that comes
by the first also comes by (`FirstTombstone`). Growth leaves no tombstone. `NoTombstonePileUp` alone says
nothing of which names the slots are for, so it does not survive a store.

`LoopJitProofs` proves, for every set of variables, every value, bound, step and
constant, every way of rounding sums and products, bodies and caches of any size, and up to five
registers (`NumbersAssumption`, `ArithmeticAssumption`, `SizesAssumption`):

* `CodeFitsTheorem`, `KeptPagesTheorem`, `TypeOKTheorem` and `SameAsBytecodeTheorem`: the four invariants of
  run `loop_jit`.

Three inductive invariants, each on top of the one before. `CacheOK`: every entry of
the cache is the code of its key, the loop that is being run is one the compiler
emits, and `fn` is its code; `KeyTellsCode` shows that for loops with few enough variables
equal keys mean equal code. `ShapeInv`: everything is typed, the statement index stays
in the body, and in the emitted code the registers hold what the loads put there.
`SameInv`: wherever the loop is, the registers that stand for variables, or the
slots in the C loop, are what the bytecode has at the same statement, and so is the counter.
None of the checked properties is inductive alone: `SameAsBytecode` speaks of finished
loops only, and needs at each step that no two statements share a register and that the
code that runs has the operations of the loop's body.

`VMControlProofs` proves, for all limits, sets of functions and arities
(`ControlAssumption`):

* `LimitsKept`: `LimitsHold`, of every program, host and native;
* `TypeCorrect`, `TryStackMirrors`, `StackAsCounted` and the theorem they follow from,
  `Invariance`: `TypeOK`, `HandlersMirrorTrys` and `StackFits`, for all hosts, with env() and
  sleep() throwing or not, when no jump or return leaves a try body (`~ LeavesTry`);
* `OneCatch`: `OneCatchPerError`, when besides no native throws by itself
  (`~ ThrowsDirectly`);
* `HandlersAreOfThisRun`: `HandlersOfThisRun`, when besides the hosts are the REPL and `nq test`.

Without these conditions the code does not have the properties (section 4), so they
cannot be dropped. `LimitsKept` has an inductive invariant of its own, `LooseInv`: once a frame
that was left may come back, nothing relates its slots to the stack any more, but no frame
begins at the end of the stack, and neither a handler nor the code that runs has more
above `StackMax` than the slots it uses itself.

The inductive invariant `Inv` has three parts. `Good`, of any machine: it is typed; the
handlers mirror the try bodies of the frames; the slots of a frame start where its
caller's stack ends; the first frame is a script; and a frame that halted is in no try body.
`Fits`, while something runs: the top frame's height is the stack's. And at rest, after
OP_HALT or a failure, what the next run relies on. None of the checked properties is inductive alone:
where an error leads is in the last handler, that this is the last frame with a try body
follows from the mirror (`LastHandler`), and that its `stack_top` is what the frame counted
follows from the slots of all the frames between. Each action is shown to keep `Good` by
one of four lemmas (`GoodCall`, `GoodReturn`, `GoodTry`, `GoodLeave`) on the machine, so that calls,
natives, limits and errors share them. `HandlersOfThisRun` needs more, `RunInv`: while
something runs, every handler's frame is at or above every script's frame (`Own`), and a run that
ended well has left no handler.

Its last part proves `Refinement`: `Spec => ImplementsTryCatch`, under the three
conditions of `HandlersAreOfThisRun`. The mapping takes the frames of the current run as the
activations, so the proof needs to know where a run starts. `FramesInv`: while something runs there is a
last script frame, below it are only scripts that ended, and above it only functions that
have not halted; after OP_HALT every frame is a script that ended. A step
either changes the top frame or leaves a lower one on top (`Cut`, `CutRun`, `RunStep`), or adds a frame
(`GrowRun`); what that does to the sequence of activations is shown once for each, and one
lemma for each instruction matches it with an action of `TryCatch`. An error is the hard one
(`RaiseRefines`): by the mirror the last handler is that of the innermost try body of the latest
frame that is in one, by `Own` this frame is of the current run, and what the
handler restores is that place. PastHalt is a stutter, or the end of the run.

`CompilerProofs` proves, for every `LocalsMax`, `ArityMax`, nesting and set of modules
(`CompilerAssumption`):

* `ImportsAcyclic`: `AcyclicImports`, for all programs;
* `CompilerType`, `StackBalanced`, `LocalsInSlots`: `TypeOK`, `Balanced` and `SlotsHoldLocals`, for
  programs of any depth in which none of `forLet`, `forStep`, `whenIs` and `module` occurs
  (`SafeShapes`). Section 4 shows what each of these does: without the condition `Balanced` and
  `SlotsHoldLocals` are false. `CompilerType` shares the invariant, and so the condition.

`ImportInv` of the imports: the modules that are compiled import compiled modules only;
the ones in import_stack besides import the next of the chain; and the compiled ones are
acyclic (`Chained`). `ChainedAcyclic` finds in any set of files one that imports none of it: one
that was not read yet, or a compiled one, or the last of the chain.

`Inv` of the contexts: from the model's state alone one cannot tell how many locals there were
when a statement began, and the end of a statement goes back to that number. So the invariant says that for
each context there is a list of marks (`Mark`), one before and one after each open
statement: how deep in scopes, how many locals, how many loops there are, and whether the place is in a
numeric for of which no code is reached. `Split`: the locals up to a mark's number are those
outside its scopes, which makes the count of `endScope` and `break` the difference of two marks. `StatementOK`: the
jumps that a statement has yet to patch arrive with the height its own mark gives, or one
more where a value waits to be popped; `LoopOK` the same for the loop's start, breaks and continues.
`InvBy`: the loops of a context come after those of the contexts around it. `Balanced` alone is not
inductive since it says nothing of a jump before it is patched. Three lemmas on a
context (`OpenOK`, `CloseOK`, `KeepOK`) show what the beginning, the end and the inside of a statement
do to the marks, and there is one lemma for each action (`IfInv`, `ForInv`, ...). The two scopes of a
for and of the cases of a when end one inside the other (`Cuts`).

`AllocatorProofs` proves, for every finite set of objects, every set of texts and lengths, and all
sizes of types and capacities (`AllocatorAssumption`; that there are finitely many objects at a
time is memory's doing):

* `AllocatorType` and `CounterBounded`: `TypeOK` and `BytesCounted`.

`BytesCounted` compares the counter with what the blocks really have, but when an object goes
freeObject subtracts what it computes from the object's counts, and nq_realloc clamps at zero what would
be negative. So the inductive invariant has two sums over the heap, of the bytes there are and of
the bytes the code would give back. The counter is at least the first less `unseen`, and at most the
second plus `unreturned` (`Between`), with the tables in both; the second bound is the
stronger one, and is what a sweep keeps. The rest of the invariant is what makes the two sums
comparable: an object's counts are within its capacities and its block is no smaller than the code
believes (`Fits`), the tables' bytes are their capacities', the intern table has room
(`Roomy`) and a text is there once. `CountStep` shows once that a clamped counter between two bounds stays
between bounds that move with it; each caller of nq_realloc then is a lemma on any machine
(`TableMove`, `FreeStep`, `CollectStep`, `NewStep`, `AllocStringStep`, `GrowStep`), with two numbers for
bytes in flight: a buffer that is counted and not yet a string's. A new function is two
blocks, and is taken in one step, since between the two the object is not what the code
believes. The library has no facts on sums over sets, so the module shows first that the order of adding
does not matter (`SumFacts`), and from that splitting, comparing and changing one term.

`ReplInputProofs` proves, for every set of words, all lengths of lines and of inputs, and every size of the
two buffers (`ReplAssumption`: a line is shorter than the buffer):

* `ReplType`, `BufferNeverOverrun`, `InputsStartAfresh`, `RunsCompleteForms`: `TypeOK`, `BufferHolds`,
  `NothingLeft` and `RunsForms`.

`RunsForms` speaks of the program of the last turn, long after the lines were taken. The invariant
adds what holds while they are collected (`Whole`): as long as all lines are of the kinds that runREPL
counts and fit, the buffer has every line typed, the number of blocks that seem open is the
nesting, and it was above zero after each line. `RoomAppend` carries this over one more line, with
the last step open: the form is complete when the count is down to zero. How much one line adds to
the nesting and to the bytes are lemmas on the two (`NestingAppend`, `BytesAppend`, by `SumAgree`).

`HeapProofs` proves, for every finite set of addresses, all texts, hash functions into Nat, first
capacities of at least 2 and bounds on the stack (`StringTableAssumption`, `HeapAssumption`):

* `HeapType`, `NothingIsLost`, `StringsAreInterned`: `TypeOK`, `NothingLost` and `Interning`, and
* `CollectionIsExact`: the action property `CollectsGarbage`,

for a process with one machine (`OneMachine`), as in run `heap`, with a collection possible at every
allocation. Nothing in the code enforces that there is one machine; section 4 shows what is
lost with two, so the condition cannot be dropped. What a collection takes from C variables
while code holds objects is not excluded but named, `taken`, and the theorems say what is so up to
and at that moment: nothing else is lost, and the string table names no freed string.

`TableOK`, of the string table: from the home slot of each string to where it is no slot is
empty (`Near`), no string is there twice, no two have the same text, and its count is within
the load limit. With at least one empty slot a search ends (`SearchEnds`), and by `Near` it ends
at the string it looks for (`TableFind`). What adding, growing and rebuilding after a
collection do follows from `MovedFacts`, an induction over the old array: after each turn
the strings moved so far, and only those, are in the new one. `MarkLoop` and `MarkedFacts`: a
round of marking that adds nothing is the last, so there cannot be more rounds than objects,
and what is marked then is the least set with the roots that is closed under references.

`HeapOK` joins the two: live objects refer to live objects only, and the table holds the
strings among them. `Inv` adds that all a machine refers to is live and its globals are
named by strings (`MachineOK`), the same of what is held, with how many and which kinds each
holder has (`HeldOK`), and where the holder is (`ControlOK`). `NothingLost` is not inductive alone:
it has to be known that a slice holds an array, that the table names no freed string, and
that a machine that is opened finds an empty heap under its empty table. An allocation may
collect first; `Keeps` is what is left then of the heap for those who use it, the types of all that is
reachable from a machine and, while something is held, of all that is live. `AllocFacts` and
`InternFacts` show this once for all that allocate, `KeepMachine` and `KeepHeld` that it is enough, and
each
action is then a lemma about what it puts where (`OpSliceInv`, `SetGlobalRawInv`, ...).

`ParserProofs` proves, for every bound on what may be open (`NestingAssumption`), that is for texts
nested as deep as one likes:

* `TypeCorrect`: `TypeOK`, and
* `ProgramsAccepted` and `ErrorsReported`: `ProgramsPass` and `ErrorsShow`, for programs of the documents that
  use none of the six `Forms` (`With = {}`, as in run `parser`; with any one of them `ProgramsPass` is
  false, section 4).

The two sides know nothing of each other: `calls` is what the functions in progress have yet to
do, `expected` the symbols of the grammar that may still come. The invariant relates them
(`Tracking`). `Owed` says for each part of a parse function which symbols the grammar has for it;
`Spells` strings these together along `calls`; and `Agrees`: as long as nothing went wrong, that
string becomes `expected` when it takes the current token (`Outcome`), which the parser has read and
not yet consumed. A part that passes the token by changes the string and not the outcome; a part that
consumes it leaves the outcome itself. After an error, or a stray `end`, nothing is claimed of a text but that it
is `Astray` for good. The two properties are this relation at one moment each, and not inductive
without it. `DeriveFacts` and `Unfold` say how the grammar takes a token, the
`Outcome...` lemmas what that is for each symbol, the `Push...` lemmas how a part put on top of others
changes what is owed, and there is one lemma for each part of each function (`Step...`), with a case for
each branch of the code.

Which part may follow which (`Follows`, `Orderly`) has to be known too: that a closing bracket is
due after the arguments, "end" after a block, so that a token which the part below does not take
where a loop stops or an expression is missing is none the grammar takes either (`ClosingDue`,
`BodyDue`, `EndDue`). `Settled`: a part that is over as soon as it
is on top is there only with a token for which it was put there, so `calls` is empty at the end of the
file only. `Bounded`
weighs the blocks and brackets that are open, and an if or a for whose block is still to come as one
(`Branching`): there is only one of these at a time, since what is above it is an expression. So with
fewer than the bound open at an opening token the weight is within the bound, and the
token adds at most two. The parentheses of a function are not open before "(" is read, but weigh as soon as they
are due, which is the third `TypeOK` allows.

Only model-checked: the properties of `Expressions`, and
what is temporal: `KeepsReading`, `LoopsEnd`. Liveness under fairness is beyond the
prover, and so is `Expressions`, the only module with RECURSIVE operators.

## 6. Not modelled

* Lexer: one sequential function of the text, with no state but its position. `Parser` has its
  tokens and its errors.
* Trees of statements, making and freeing nodes: constructors. f-strings: text.
* `codegen.cpp`: C text printed from the tree.
* Instruction encoding, and floating point beyond what `LoopJit` assumes of sums and products.
* The disassembler, number formatting, warnings, messages: output.
* What native functions compute on strings and arrays: sequential, and easy to test.
* The standard library: Nolqu programs.
* nq_register, nq_call and value conversion of the embedding API: see 7.

Abstractions that could hide something: arrays are sets of references (order and
duplicates do not matter to the collector); native functions are not objects of
`Heap`; one function shape per name in `VMControl`; a frame below a failed run is
not resumed unless PastHalt says so; `Compiler` has no names, so that which
variable a name means, and the table of const globals, are left out of it; a token is
its kind in `Parser`, so that two names are alike; memory never runs out in `Allocator`.

## 7. Plan

Done: Table, Globals and proofs; VMControl and TryCatch; StringTable, Heap and proofs;
Compiler; Grammar, Parser and Expressions; the proofs about Parser; LoopJit and proofs; ReplInput and proofs; Allocator and proofs; the proofs about Compiler.

Left:

1. Names of locals and globals with the table of const globals, against lexical
   scoping; the order in which modules run.
2. `HostNatives`: the trampolines of nq_register over several states.
3. Composition of Compiler with VMControl: the heights that frames start from.
4. Pure functions of the natives: slice clamping, levenshtein, join's length.
