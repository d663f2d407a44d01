------------------------------ MODULE LoopJit -------------------------------
(***************************************************************************)
(* Numeric for loops whose body only adds constants to local variables or  *)
(* multiplies them: OP_JIT_FOR_RANGE of vm.c, the code that jit.c builds   *)
(* for it, instruction by instruction on its xmm registers, the cache that *)
(* code comes from, and the loop in C that runs when there is none.  Next  *)
(* to each of them goes the loop that the compiler emits for every other   *)
(* body, mirror, which is what the script means.                           *)
(*                                                                         *)
(* Numbers are doubles: NaN, for which every comparison is false, and the  *)
(* others, which are ordered as integers are.  How they are added and      *)
(* multiplied is a parameter, so that sums may be rounded, and may be what *)
(* was there before.  Variables hold numbers (nothing tests that, see      *)
(* README).  Loops come one after the other; between them a script leaves  *)
(* anything in its variables.                                              *)
(***************************************************************************)
EXTENDS Integers, Sequences, FiniteSets

CONSTANTS
  Vars,        \* names of local variables
  LoopVar,     \* the one of them whose name the variable of a loop has too
  Values,      \* what they hold before a loop
  Bounds,      \* start and stop of loops
  Steps,       \* step of loops
  Deltas,      \* constants of the body
  NaN,
  Ordered,     \* the doubles that are not NaN
  Exact,       \* up to here integers are counted one by one (2^53)
  Plus(_, _), Times(_, _),
  BodyMax,     \* statements of a body that is taken (8)
  NativeMax,   \* variables the code has registers for (5)
  CacheSize    \* NQ_JIT_CACHE_SIZE (64)

ASSUME NumbersAssumption ==
  /\ NaN \notin Int /\ Ordered \subseteq Int
  /\ Exact \in Nat /\ -Exact .. Exact \subseteq Ordered
  /\ Values \subseteq Ordered \cup {NaN} /\ Bounds \subseteq Ordered \cup {NaN}
  /\ Steps \subseteq Ordered \ {0} /\ Deltas \subseteq Ordered

ASSUME ArithmeticAssumption ==
  /\ \A x \in Ordered \cup {NaN}, d \in Ordered :
       Plus(x, d) \in Ordered \cup {NaN} /\ Times(x, d) \in Ordered \cup {NaN}
  /\ \A d \in Ordered : Plus(NaN, d) = NaN
  /\ \A x, d \in -Exact .. Exact : x + d \in -Exact .. Exact => Plus(x, d) = x + d

ASSUME SizesAssumption ==
  /\ BodyMax \in Nat /\ CacheSize \in Nat
  /\ NativeMax \in 0..5

VARIABLES
  slots,       \* the variables of the frame
  counter,     \* the slot __fr_i__
  spec,        \* JITLoopSpec, with the names the pointers stand for
  cache,       \* g_jit_cache: the entries in use
  lost,        \* a page of code was built that is in no entry
  fn,          \* the code to run
  xmm,         \* the registers
  pc, k,       \* next step, and its statement of the body
  mirror       \* the loop as bytecode: its counter, its variables, and
               \* whether it ran as many turns

vars == <<slots, counter, spec, cache, lost, fn, xmm, pc, k, mirror>>

-----------------------------------------------------------------------------
(***************************************************************************)
(* Numbers and loops.                                                      *)
(***************************************************************************)
Number == Ordered \cup {NaN}

Apply(op, x, d) == IF op = "mul" THEN Times(x, d) ELSE Plus(x, d)

Less(x, y) == x # NaN /\ y # NaN /\ x < y
Unordered(x, y) == x = NaN \/ y = NaN

\* The condition of the loop in the C code and in the bytecode.
Going(i, s) == IF s.step > 0 THEN Less(i, s.stop) ELSE Less(s.stop, i)

Line == [var : Vars, op : {"add", "mul"}, delta : Deltas]

\* What the compiler hands to OP_JIT_FOR_RANGE.
Specs == UNION {[start : Bounds, stop : Bounds, step : Steps, body : [1..n -> Line]] : n \in 0..BodyMax}

N == Len(spec.body)

\* One statement of the body as bytecode: while the body is compiled the
\* counter's slot has the name of the loop's variable, so a statement on that
\* name changes the counter.
Mirrored(n) ==
  LET line == spec.body[n] IN
  IF line.var # LoopVar
  THEN [mirror EXCEPT !.slots[line.var] = Apply(line.op, @, line.delta)]
  ELSE [mirror EXCEPT !.counter = Apply(line.op, @, line.delta)]

\* The test at the top of a turn, which came out as going.
Tested(going) == [mirror EXCEPT !.same = @ /\ (going = Going(mirror.counter, spec))]

\* The end of a turn: OP_ADD_LOCAL_CONST and OP_LOOP.
Turned == [mirror EXCEPT !.counter = Plus(@, spec.step)]

-----------------------------------------------------------------------------
(***************************************************************************)
(* The cache.                                                              *)
(***************************************************************************)
MinOf(a, b) == IF a < b THEN a ELSE b

Code(s) == [up |-> s.step > 0, ops |-> [n \in 1..Len(s.body) |-> s.body[n].op]]

\* Slip: the operations are left out of the key.
SlipKey(s) == [up |-> s.step > 0, count |-> Len(s.body) % 8, mul |-> <<>>]

jitKeyFromSpec(s) ==
  [up    |-> s.step > 0,
   count |-> Len(s.body) % 8,
   mul   |-> [n \in 1..MinOf(Len(s.body), 5) |-> s.body[n].op = "mul"]]

jitCacheFind(key) == {entry.fn : entry \in {e \in cache : e.key = key}}

\* Slip: an entry is stored when the table is full.
SlipStore(key, code) == cache \cup {[key |-> key, fn |-> code]}

\* Slip: the last entry is never used.
SlipRoom(key, code) ==
  IF Cardinality(cache) + 1 < CacheSize THEN cache \cup {[key |-> key, fn |-> code]} ELSE cache

jitCacheStore(key, code) ==
  IF Cardinality(cache) < CacheSize THEN cache \cup {[key |-> key, fn |-> code]} ELSE cache

-----------------------------------------------------------------------------
(***************************************************************************)
(* Registers: xmm0 has the bound and xmm1 the step.                        *)
(***************************************************************************)
Registers == 0..12
XMM_I == 7
delta_xmm(n) == 1 + n

\* Slip: the first accumulator is the counter's register.
SlipAccum(n) == 6 + n

accum_xmm(n) == 7 + n

(***************************************************************************)
(* OP_JIT_FOR_RANGE.                                                       *)
(***************************************************************************)
Enter == /\ pc = "idle"
         /\ \E s \in Specs : /\ spec' = s
                             /\ counter' = s.start
                             /\ mirror' = [slots |-> slots, counter |-> s.start, same |-> TRUE]
         /\ pc' = "run"
         /\ UNCHANGED <<slots, cache, lost, fn, xmm, k>>

\* nq_jit_run_loop refuses: the loop in C.
Fallback == /\ pc' = "fallback"
            /\ UNCHANGED <<slots, counter, spec, cache, lost, fn, xmm, k, mirror>>

TooManyVars == pc = "run" /\ N > NativeMax /\ Fallback

Hit == /\ pc = "run" /\ N <= NativeMax
       /\ \E code \in jitCacheFind(jitKeyFromSpec(spec)) : fn' = code
       /\ pc' = "call"
       /\ UNCHANGED <<slots, counter, spec, cache, lost, xmm, k, mirror>>

Missed == pc = "run" /\ N <= NativeMax /\ jitCacheFind(jitKeyFromSpec(spec)) = {}

\* mmap or mprotect fails.
NoPage == Missed /\ Fallback

Build == /\ Missed
         /\ fn' = Code(spec)
         /\ cache' = jitCacheStore(jitKeyFromSpec(spec), Code(spec))
         /\ lost' = (lost \/ cache' = cache)
         /\ pc' = "call"
         /\ UNCHANGED <<slots, counter, spec, xmm, k, mirror>>

(***************************************************************************)
(* The call: bound, step and constants come in xmm0 and up; and the code:  *)
(* loads, a test at the top of each turn, the counter, one instruction for *)
(* each variable, and the stores.                                          *)
(***************************************************************************)
Call == /\ pc = "call"
        /\ xmm' = [r \in Registers |-> CASE r = 0 -> spec.stop
                                         [] r = 1 -> spec.step
                                         [] r \in 2..N + 1 -> spec.body[r - 1].delta
                                         [] r = XMM_I -> counter
                                         [] OTHER -> 0]
        /\ pc' = "load" /\ k' = 1
        /\ UNCHANGED <<slots, counter, spec, cache, lost, fn, mirror>>

\* An instruction for each variable, act, then what comes next.
Emitted(here, act, next) ==
  /\ pc = here
  /\ IF k <= Len(fn.ops) THEN act /\ k' = k + 1 /\ pc' = pc
     ELSE next
  /\ UNCHANGED <<counter, spec, cache, lost, fn>>

Goto(next) == pc' = next /\ k' = 1 /\ UNCHANGED <<slots, xmm>>

Loads == Emitted("load",
  /\ xmm' = [xmm EXCEPT ![accum_xmm(k)] = slots[spec.body[k].var]]
  /\ UNCHANGED <<slots, mirror>>, Goto("top") /\ UNCHANGED mirror)

\* Slip: jae for loops of both directions.
SlipLeaves == ~ Unordered(xmm[XMM_I], xmm[0]) /\ xmm[XMM_I] >= xmm[0]

\* jae and jbe after ucomisd: a NaN sets the flags of "below" and "equal".
Leaves == IF fn.up THEN ~ Unordered(xmm[XMM_I], xmm[0]) /\ xmm[XMM_I] >= xmm[0]
          ELSE Unordered(xmm[XMM_I], xmm[0]) \/ xmm[XMM_I] <= xmm[0]

\* The code leaves with the store of the counter.
Top == /\ pc = "top"
       /\ counter' = IF Leaves THEN xmm[XMM_I] ELSE counter
       /\ xmm' = IF Leaves THEN xmm ELSE [xmm EXCEPT ![XMM_I] = Plus(@, xmm[1])]
       /\ mirror' = Tested(~ Leaves)
       /\ pc' = IF Leaves THEN "store" ELSE "body"
       /\ k' = 1
       /\ UNCHANGED <<slots, spec, cache, lost, fn>>

Body == Emitted("body",
  /\ xmm' = [xmm EXCEPT ![accum_xmm(k)] = Apply(fn.ops[k], @, xmm[delta_xmm(k)])]
  /\ mirror' = Mirrored(k)
  /\ UNCHANGED slots, Goto("top") /\ mirror' = Turned)

Stores == Emitted("store",
  /\ slots' = [slots EXCEPT ![spec.body[k].var] = xmm[accum_xmm(k)]]
  /\ UNCHANGED <<xmm, mirror>>, Goto("done") /\ UNCHANGED mirror)

(***************************************************************************)
(* The loop in C.                                                          *)
(***************************************************************************)
Turn == /\ pc = "fallback"
        /\ counter' = IF Going(counter, spec) THEN Plus(counter, spec.step) ELSE counter
        /\ pc' = IF Going(counter, spec) THEN "statement" ELSE "done"
        /\ k' = 1
        /\ mirror' = Tested(Going(counter, spec))
        /\ UNCHANGED <<slots, spec, cache, lost, fn, xmm>>

Statement == /\ pc = "statement"
             /\ IF k <= N
                THEN /\ slots' = [slots EXCEPT ![spec.body[k].var] = Apply(spec.body[k].op, @, spec.body[k].delta)]
                     /\ mirror' = Mirrored(k)
                     /\ k' = k + 1 /\ pc' = pc
                ELSE /\ pc' = "fallback" /\ k' = 1
                     /\ mirror' = Turned
                     /\ UNCHANGED slots
             /\ UNCHANGED <<counter, spec, cache, lost, fn, xmm>>

-----------------------------------------------------------------------------
NoSpec == [start |-> 0, stop |-> 0, step |-> 1, body |-> <<>>]

NoRegisters == [r \in Registers |-> 0]
NoMirror == [slots |-> slots, counter |-> 0, same |-> TRUE]

Init == /\ slots \in [Vars -> Values]
        /\ spec = NoSpec /\ counter = 0 /\ mirror = NoMirror
        /\ fn = Code(NoSpec) /\ xmm = NoRegisters
        /\ pc = "idle" /\ k = 1
        /\ cache = {} /\ lost = FALSE

\* endScope() drops the hidden locals, and the script goes on to some other
\* loop.
Return == /\ pc = "done"
          /\ slots' \in [Vars -> Values]
          /\ spec' = NoSpec /\ counter' = 0 /\ mirror' = NoMirror'
          /\ fn' = Code(NoSpec) /\ xmm' = NoRegisters
          /\ pc' = "idle" /\ k' = 1
          /\ UNCHANGED <<cache, lost>>

Step == \/ TooManyVars \/ Hit \/ NoPage \/ Build
        \/ Call \/ Loads \/ Top \/ Body \/ Stores
        \/ Turn \/ Statement \/ Return

Next == Enter \/ Step

Spec == Init /\ [][Next]_vars

\* A loop that runs goes on running.
FairSpec == Spec /\ WF_vars(Step)

-----------------------------------------------------------------------------
(***************************************************************************)
(* The cache, the registers and the loop in progress are well-formed.      *)
(***************************************************************************)
TypeOK ==
  /\ slots \in [Vars -> Number] /\ mirror.slots \in [Vars -> Number]
  /\ counter \in Number /\ mirror.counter \in Number
  /\ xmm \in [Registers -> Number]
  /\ k \in 1..BodyMax + 1
  /\ Cardinality(cache) <= CacheSize
  /\ pc \in {"idle", "run", "call", "load", "top", "body", "store", "fallback", "statement", "done"}

\* The body leaves the loop's own variable alone.
OwnFree(body) == \A n \in DOMAIN body : body[n].var # LoopVar

\* A variable that at most one statement assigns to.
Single(v, body) == \A m, n \in DOMAIN body : body[m].var = v /\ body[n].var = v => m = n

(***************************************************************************)
(* After a loop every variable has the value it has after the same loop as *)
(* bytecode, which ran as many turns, wherever the code came from          *)
(* (OP_JIT_FOR_RANGE, vm.c:1320, and compiler.cpp:789): registers are not  *)
(* shared, code of another loop is not run, nothing is lost by the loop in *)
(* C that runs when there is no page.  It holds of bodies that leave the   *)
(* loop's own variable alone, for the variables that are assigned to once, *)
(* and of loops that come to their end: upward loops from or to NaN do not *)
(* when they run as machine code, while as bytecode they end at once.      *)
(***************************************************************************)
SameAsBytecode ==
  pc = "done" /\ OwnFree(spec.body) =>
    /\ mirror.same /\ counter = mirror.counter
    /\ \A v \in Vars : Single(v, spec.body) => slots[v] = mirror.slots[v]

(***************************************************************************)
(* Code found in the cache is the code that would have been built: the key *)
(* (jit.c:59) tells apart all that buildJitFunction looks at.              *)
(***************************************************************************)
CodeFits == pc \in {"call", "load", "top", "body", "store"} => fn = Code(spec)

(***************************************************************************)
(* As long as the cache has room (jit.c:77) every page that was built is   *)
(* in it: none is built a second time, and none lost.                      *)
(***************************************************************************)
KeptPages == lost => Cardinality(cache) = CacheSize

\* Loops from a number to a number that are counted one by one, and loops
\* downward from or to NaN.
Counted(s) == \/ {s.start, s.stop} \subseteq -Exact .. Exact
              \/ NaN \in {s.start, s.stop} /\ s.step < 0

(***************************************************************************)
(* Loops that count with exact numbers end, as machine code and in C,      *)
(* whatever the last sum is rounded to: the branch of the code agrees with *)
(* the step's direction (jit.c:304), and a NaN makes a loop downward leave *)
(* at once.  Loops to a bound past Exact may not end (i + 1 is i from 2^53 *)
(* on), nor do upward loops from or to NaN; both occur here.               *)
(***************************************************************************)
LoopsEnd == pc # "idle" /\ Counted(spec) ~> pc = "idle"
=============================================================================
