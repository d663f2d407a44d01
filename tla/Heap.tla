-------------------------------- MODULE Heap ---------------------------------
(***************************************************************************)
(* The heap objects of src/src/object.c, their mark-and-sweep collector    *)
(* (src/src/gc.c) and what the VM, the compiler and the embedding API hold *)
(* of them while they allocate.                                            *)
(*                                                                         *)
(* Any allocation of an object may collect first: whether it does depends  *)
(* on nq_bytes_allocated, which is abstracted to a choice.  The collector  *)
(* knows the objects reachable from the machine nq_gc_vm; it does not know *)
(* the C variables of the code that allocates.  These are held.  What a    *)
(* collection frees although they, or another machine, still reach it is   *)
(* recorded in taken, and the behaviour ends there: what the code does     *)
(* with it afterwards is undefined.                                        *)
(*                                                                         *)
(* Of a value the model keeps the object it refers to, or Nil; of a        *)
(* function the objects in its constant pool; of an array the objects in   *)
(* it.  Native functions, and the calls of functions (module VMControl),    *)
(* are left out; a frame is the script of a run.                           *)
(*                                                                         *)
(* Slip... operators: see module Table.                                    *)
(***************************************************************************)
EXTENDS StringTable, Sequences, Functions

CONSTANTS
  VMs,          \* the machines of one process
  NoVM,         \* NULL
  Nil,          \* a value that is not an object
  StackMax      \* bound on the values on a machine's stack

Holders == {"concat", "slice", "split", "compile", "setglobal"}

ASSUME HeapAssumption ==
  /\ NoVM \notin VMs
  /\ Nil \notin Obj /\ Nil \notin Text
  /\ Obj \subseteq Nat /\ IsFiniteSet(Obj)
  /\ StackMax \in Nat

VARIABLES
  heap,         \* what is at each address
  strings,      \* nq_string_table
  vms,          \* the machines
  running,      \* the machine that executes instructions
  nq_gc_vm,     \* the machine whose objects the allocator's collections keep
  op,           \* the holder in progress, or "none"
  held,         \* its C variables
  taken         \* what was freed while those, or other machines, reached it:
                \* a record of the past, which no action but the last reads

vars == <<heap, strings, vms, running, nq_gc_vm, op, held, taken>>

-----------------------------------------------------------------------------
(* Objects. *)

Free         == [type |-> "free"]
String(x)    == [type |-> "string", text |-> x]
Array(S)     == [type |-> "array", refs |-> S]
Function(S)  == [type |-> "function", refs |-> S]

Live(h)      == {o \in Obj : h[o] # Free}
Is(h, o, type) == o \in Obj /\ h[o].type = type
Refs(h, o)   == IF h[o].type \in {"array", "function"} THEN h[o].refs ELSE {}

(* The heap after o has come to refer to x; a write to an object that was
   freed reaches no object. *)
Refer(h, o, x) ==
  IF h[o].type \in {"array", "function"}
  THEN [h EXCEPT ![o].refs = @ \union ({x} \intersect Obj)] ELSE h

Texts(h)     == [o \in Obj |-> IF h[o].type = "string" THEN h[o].text ELSE Nil]

ClosedUnderRefs(S) == \A o \in S : Refs(heap, o) \subseteq S

(* What can be reached from S: what is in every closed set around it. *)
Reachable(S) ==
  {o \in Obj : \A T \in SUBSET Obj : S \subseteq T /\ ClosedUnderRefs(T) => o \in T}

-----------------------------------------------------------------------------
(* Collection. *)

(* The names of the globals are not roots. *)
SlipRoots(v) ==
  LET m == vms[v]
  IN  (Range(m.stack) \union Range(m.frames) \union Range(m.globals)
         \union {m.thrown}) \intersect Obj

(* markRoots starts at the stack, the functions of the frames, the names and
   values of the globals and the pending error. *)
Roots(v) ==
  LET m == vms[v]
  IN  (Range(m.stack) \union Range(m.frames) \union DOMAIN m.globals
         \union Range(m.globals) \union {m.thrown}) \intersect Obj

(* Marking does not go through constant pools. *)
SlipMarked(v) ==
  LET more(S) == S \union UNION {IF Is(heap, o, "array") THEN Refs(heap, o)
                                                          ELSE {} : o \in S}
      mark[n \in 0 .. Cardinality(Obj)] ==
        IF n = 0 THEN Roots(v) ELSE more(mark[n - 1])
  IN  mark[Cardinality(Obj)]

(* markObject goes from an object to what it refers to, and no further at an
   object marked before: after as many steps as there are objects everything
   there is to mark is marked. *)
Marked(v) ==
  LET more(S) == S \union UNION {Refs(heap, o) : o \in S}
      mark[n \in 0 .. Cardinality(Obj)] ==
        IF n = 0 THEN Roots(v) ELSE more(mark[n - 1])
  IN  mark[Cardinality(Obj)]

(* What is in use and unknown to a collection for machine v. *)
Outside(v) ==
  (Range(held) \union UNION {Roots(w) : w \in VMs \ {v}}) \intersect Obj

(* nq_collect: the heap and the string table it leaves, and what it should
   not have freed. *)
Collected(v) ==
  LET marked == Marked(v)
  IN  [heap    |-> [o \in Obj |-> IF o \in marked THEN heap[o] ELSE Free],
       strings |-> RemoveWhiteStrings(strings, marked, Texts(heap)),
       taken   |-> Reachable(Outside(v)) \ marked]

(* allocObject: nq_gc_maybe, which collects whenever enough was allocated,
   whatever the caller holds, and an address that was free before it.  Which
   one does not matter, since nothing depends on the order of addresses. *)
MayCollect == nq_gc_vm # NoVM

Before == {[heap |-> heap, strings |-> strings, taken |-> {}]} \union
          (IF MayCollect THEN {Collected(nq_gc_vm)} ELSE {})

Fresh == CHOOSE o \in Obj \ Live(heap) : \A x \in Obj \ Live(heap) : o <= x

(* Nothing, when Obj has no room: the bound of the model. *)
Allocated(cell) ==
  IF Live(heap) = Obj THEN {} ELSE {[m EXCEPT !.heap[Fresh] = cell] : m \in Before}

(* copyString and takeString: the interned string of that text, or a new one
   that is then interned. *)
Interned(x) ==
  LET found == FindString(strings, x, Texts(heap))
  IN  IF found # NoObj
      THEN {[heap |-> heap, strings |-> strings, taken |-> {}, obj |-> found]}
      ELSE {[heap    |-> m.heap,
             strings |-> AddString(m.strings, Fresh, Texts(m.heap)),
             taken   |-> m.taken,
             obj     |-> Fresh] : m \in Allocated(String(x))}

Set(m) == heap' = m.heap /\ strings' = m.strings /\ taken' = m.taken

-----------------------------------------------------------------------------
(* Machines. *)

Closed == [open |-> FALSE, stack |-> <<>>, frames |-> <<>>, globals |-> <<>>,
           thrown |-> Nil]

Stack == vms[running].stack
Size == Len(Stack)
Top == Stack[Size]
Below(n) == SubSeq(Stack, 1, Size - n)

(* The constant pool of the running script. *)
Constants ==
  LET frames == vms[running].frames
  IN  Refs(heap, frames[Len(frames)])

(* An instruction of the running machine, which is in no holder. *)
Executes == running # NoVM /\ op = "none" /\ UNCHANGED <<running, nq_gc_vm, op, held>>

WithStack(s) == vms' = [vms EXCEPT ![running].stack = s]

WithKey(globals, k, value) ==
  [x \in DOMAIN globals \union {k} |-> IF x = k THEN value ELSE globals[x]]

Init ==
  /\ heap = [o \in Obj |-> Free]
  /\ strings = InitStringTable
  /\ vms = [v \in VMs |-> Closed]
  /\ running = NoVM
  /\ nq_gc_vm = NoVM
  /\ op = "none"
  /\ held = <<>>
  /\ taken = {}

(* nq_open and initVM, which starts the process's string table anew. *)
OpenVM(v) ==
  /\ running = NoVM /\ op = "none"
  /\ ~ vms[v].open
  /\ vms' = [vms EXCEPT ![v] = [Closed EXCEPT !.open = TRUE]]
  /\ strings' = InitStringTable
  /\ UNCHANGED <<heap, running, nq_gc_vm, op, held, taken>>

(* nq_close and freeVM, which frees every object there is. *)
CloseVM(v) ==
  /\ running = NoVM /\ op = "none"
  /\ vms[v].open
  /\ vms' = [vms EXCEPT ![v] = Closed]
  /\ strings' = InitStringTable
  /\ heap' = [o \in Obj |-> Free]
  /\ taken' = Reachable(Outside(v))
  /\ UNCHANGED <<running, nq_gc_vm, op, held>>

(* nq_gc *)
HostCollect(v) ==
  /\ running = NoVM /\ op = "none"
  /\ vms[v].open
  /\ Set(Collected(v))
  /\ UNCHANGED <<vms, running, nq_gc_vm, op, held>>

-----------------------------------------------------------------------------
(* Instructions that allocate at most one object, after which nothing they
   have taken off the stack is used. *)

OpConst ==
  /\ Executes
  /\ Size < StackMax
  /\ \E o \in Constants \union {Nil} : WithStack(Append(Stack, o))
  /\ UNCHANGED <<heap, strings, taken>>

OpPop ==
  /\ Executes
  /\ Size > 1
  /\ WithStack(Below(1))
  /\ UNCHANGED <<heap, strings, taken>>

(* OP_DEFINE_GLOBAL *)
OpDefineGlobal ==
  /\ Executes
  /\ Size > 1
  /\ \E k \in {o \in Constants : Is(heap, o, "string")} :
       vms' = [vms EXCEPT ![running].stack = Below(1),
                          ![running].globals = WithKey(@, k, Top)]
  /\ UNCHANGED <<heap, strings, taken>>

OpGetGlobal ==
  /\ Executes
  /\ Size < StackMax
  /\ \E k \in DOMAIN vms[running].globals :
       WithStack(Append(Stack, vms[running].globals[k]))
  /\ UNCHANGED <<heap, strings, taken>>

(* THROW_ERROR: the message becomes thrown, and the catch block finds it on
   a stack that is no higher than it was. *)
OpThrow ==
  /\ Executes
  /\ \E x \in Text : \E m \in Interned(x) : \E n \in 0 .. Size - 1 :
       /\ Size - n < StackMax
       /\ Set(m)
       /\ vms' = [vms EXCEPT ![running].thrown = m.obj,
                             ![running].stack = Append(Below(n), m.obj)]

(* OP_BUILD_ARRAY: newArray while the items are still on the stack. *)
OpBuildArray ==
  /\ Executes
  /\ \E n \in 0 .. 1 :
       LET items == {Stack[i] : i \in Size - n + 1 .. Size} \intersect Obj
       IN  /\ 1 < Size - n + 1 /\ Size - n < StackMax
           /\ \E m \in Allocated(Array(items)) : Set(m)
           /\ WithStack(Append(Below(n), Fresh))

(* push(array, value): both are arguments, and the array is the result. *)
ArrayPush ==
  /\ Executes
  /\ Size > 2
  /\ LET arr == Stack[Size - 1]
     IN  /\ Is(heap, arr, "array")
         /\ heap' = Refer(heap, arr, Top)
  /\ WithStack(Below(1))
  /\ UNCHANGED <<strings, taken>>

(* pop(array) and remove(array, index). *)
ArrayRemove ==
  /\ Executes
  /\ Size > 1
  /\ Is(heap, Top, "array")
  /\ \E o \in heap[Top].refs :
       /\ heap' = [heap EXCEPT ![Top].refs = @ \ {o}]
       /\ WithStack(Append(Below(1), o))
  /\ UNCHANGED <<strings, taken>>

(* OP_CONCAT of two strings, OP_GET_INDEX and OP_SLICE of a string, and the
   natives that return one: the bytes are copied before the object is
   allocated. *)
StringResult ==
  /\ Executes
  /\ \E n \in 1 .. 2, x \in Text : \E m \in Interned(x) :
       /\ Size > n
       /\ Set(m)
       /\ WithStack(Append(Below(n), m.obj))

(* gc_collect() *)
GcCollect ==
  /\ Executes
  /\ Set(Collected(running))
  /\ UNCHANGED vms

(* OP_HALT leaves the frame and the stack as they are. *)
OpHalt ==
  /\ running # NoVM /\ op = "none"
  /\ running' = NoVM
  /\ UNCHANGED <<heap, strings, vms, nq_gc_vm, op, held, taken>>

-----------------------------------------------------------------------------
(* Code that allocates while it holds objects in C variables. *)

Hold(what, objects) == op' = what /\ held' = objects
LetGo == Hold("none", <<>>)

(* compile: the function being compiled is held by its context, with those
   of the functions around it. *)
CompileFunction ==
  /\ running = NoVM
  /\ op = "compile" \/ (op = "none" /\ \E v \in VMs : vms[v].open)
  /\ \E m \in Allocated(Function({})) : Set(m)
  /\ Hold("compile", Append(held, Fresh))
  /\ UNCHANGED <<vms, running, nq_gc_vm>>

(* A string literal or a name becomes a constant. *)
CompileConstant ==
  /\ op = "compile"
  /\ LET fn == held[Len(held)]
     IN  \E x \in Text : \E m \in Interned(x) :
           /\ heap' = Refer(m.heap, fn, m.obj)
           /\ strings' = m.strings /\ taken' = m.taken
  /\ UNCHANGED <<vms, running, nq_gc_vm, op, held>>

(* The end of a function's body makes it a constant of the one around it. *)
EndCompilerCtx ==
  /\ op = "compile"
  /\ Len(held) > 1
  /\ LET n == Len(held)
     IN  /\ heap' = Refer(heap, held[n - 1], held[n])
         /\ Hold("compile", SubSeq(held, 1, n - 1))
  /\ UNCHANGED <<strings, vms, running, nq_gc_vm, taken>>

CompileError ==
  /\ op = "compile"
  /\ LetGo
  /\ UNCHANGED <<heap, strings, vms, running, nq_gc_vm, taken>>

(* runVM of the compiled script. *)
RunVM(v) ==
  /\ op = "compile" /\ Len(held) = 1
  /\ vms[v].open /\ Len(vms[v].stack) < StackMax
  /\ vms' = [vms EXCEPT ![v].stack = Append(@, held[1]),
                        ![v].frames = Append(@, held[1])]
  /\ running' = v
  /\ nq_gc_vm' = v
  /\ LetGo
  /\ UNCHANGED <<heap, strings, taken>>

(* An instruction of the running machine that is in no other holder. *)
Holding(what) ==
  /\ running # NoVM /\ op = "none"
  /\ UNCHANGED <<running, nq_gc_vm>>

Continues(what) == op = what /\ UNCHANGED <<running, nq_gc_vm>>

(* OP_CONCAT of operands that are not both strings: valueToString makes a
   string of each, in an order the language leaves open. *)
OpConcat ==
  /\ Holding("concat")
  /\ Size > 2
  /\ Hold("concat", <<Stack[Size - 1], Top>>)
  /\ WithStack(Below(2))
  /\ UNCHANGED <<heap, strings, taken>>

ValueToString ==
  /\ Continues("concat")
  /\ \E i \in 1 .. 2, x \in Text : \E m \in Interned(x) :
       /\ ~ Is(heap, held[i], "string")
       /\ Set(m)
       /\ Hold("concat", [held EXCEPT ![i] = m.obj])
  /\ UNCHANGED vms

ConcatStrings ==
  /\ Continues("concat")
  /\ \A i \in 1 .. 2 : Is(heap, held[i], "string")
  /\ \E x \in Text : \E m \in Interned(x) :
       /\ Set(m)
       /\ WithStack(Append(Stack, m.obj))
  /\ LetGo

(* OP_SLICE of an array, which is off the stack when newArray is called. *)
OpSlice ==
  /\ Holding("slice")
  /\ Size > 1
  /\ Is(heap, Top, "array")
  /\ Hold("slice", <<Top>>)
  /\ WithStack(Below(1))
  /\ UNCHANGED <<heap, strings, taken>>

SliceResult ==
  /\ Continues("slice")
  /\ Len(held) = 1
  /\ \E m \in Allocated(Array({})) : Set(m)
  /\ Hold("slice", Append(held, Fresh))
  /\ WithStack(Append(Stack, Fresh))

SliceCopy ==
  /\ Continues("slice")
  /\ Len(held) = 2
  /\ \E S \in SUBSET Refs(heap, held[1]) : heap' = [heap EXCEPT ![held[2]].refs = S]
  /\ LetGo
  /\ UNCHANGED <<strings, vms, taken>>

(* split(s, sep) and file_lines(path): the array is held while its pieces
   are allocated; the arguments stay on the stack. *)
Split ==
  /\ Holding("split")
  /\ Size > 1
  /\ \E m \in Allocated(Array({})) : Set(m)
  /\ Hold("split", <<Fresh>>)
  /\ UNCHANGED vms

SplitPiece ==
  /\ Continues("split")
  /\ \E x \in Text : \E m \in Interned(x) :
       /\ heap' = Refer(m.heap, held[1], m.obj)
       /\ strings' = m.strings /\ taken' = m.taken
  /\ UNCHANGED <<vms, op, held>>

SplitReturn ==
  /\ Continues("split")
  /\ WithStack(Append(Below(1), held[1]))
  /\ LetGo
  /\ UNCHANGED <<heap, strings, taken>>

(* nq_setglobal_string: the value is interned before the name is. *)
SetGlobalString ==
  /\ running = NoVM /\ op = "none"
  /\ \E v \in VMs : vms[v].open
  /\ \E x \in Text : \E m \in Interned(x) : Set(m) /\ Hold("setglobal", <<m.obj>>)
  /\ UNCHANGED <<vms, running, nq_gc_vm>>

(* set_global_raw of the held string, or of a value that is no object. *)
SetGlobalRaw(v) ==
  /\ running = NoVM /\ op \in {"none", "setglobal"}
  /\ vms[v].open
  /\ \E x \in Text : \E m \in Interned(x) :
       /\ Set(m)
       /\ vms' = [vms EXCEPT ![v].globals =
                    WithKey(@, m.obj, IF op = "none" THEN Nil ELSE held[1])]
  /\ LetGo
  /\ UNCHANGED <<running, nq_gc_vm>>

-----------------------------------------------------------------------------

Machine ==
  \/ OpConst \/ OpPop \/ OpDefineGlobal \/ OpGetGlobal \/ OpThrow
  \/ OpBuildArray \/ ArrayPush \/ ArrayRemove \/ StringResult \/ GcCollect
  \/ OpConcat \/ ValueToString \/ ConcatStrings
  \/ OpSlice \/ SliceResult \/ SliceCopy
  \/ Split \/ SplitPiece \/ SplitReturn
  \/ OpHalt

Process ==
  \/ CompileFunction \/ CompileConstant \/ EndCompilerCtx \/ CompileError
  \/ SetGlobalString
  \/ \E v \in VMs :
       OpenVM(v) \/ CloseVM(v) \/ HostCollect(v) \/ RunVM(v) \/ SetGlobalRaw(v)

(* No step after something in use was freed. *)
Next == taken = {} /\ (Machine \/ Process)

Spec == Init /\ [][Next]_vars

-----------------------------------------------------------------------------
(* Every address is free or holds an object of one of the types, and the
   names under which the machines keep their globals are string objects:
   hash tables hold them by address (table.h, Entry). *)
TypeOK ==
  /\ heap \in [Obj -> {Free} \union {String(x) : x \in Text}
                        \union {Array(S) : S \in SUBSET Obj}
                        \union {Function(S) : S \in SUBSET Obj}]
  /\ strings.entries \in [Slots(strings.capacity) -> Obj \union {NoObj}]
  /\ strings.count \in 0 .. (strings.capacity * 3) \div 4
  /\ running \in VMs \union {NoVM} /\ nq_gc_vm \in VMs \union {NoVM}
  /\ op \in Holders \union {"none"} /\ held \in Seq(Obj \union {Nil})
  /\ taken \subseteq Obj
  /\ \A v \in VMs :
       /\ Len(vms[v].stack) <= StackMax
       /\ \A k \in DOMAIN vms[v].globals : Is(heap, k, "string")

(* What C variables, the stacks, the running scripts and the globals of the
   open machines refer to: the program may use it. *)
InUse ==
  (Range(held) \union
   UNION {Range(vms[v].stack) \union Range(vms[v].frames) \union
          DOMAIN vms[v].globals \union Range(vms[v].globals) : v \in VMs})
  \intersect Obj

(* Whenever the collector runs, also in the middle of code that holds objects
   it does not know, it frees nothing that the program can still reach, but
   for what no machine reaches from the roots of the collection: what the
   program uses is in a set that holds whatever its members refer to, of
   objects that are live or were taken from C variables or from another
   machine (gc.c, "Unreachable -- unlink and free"). *)
NothingLost ==
  \E S \in SUBSET (Live(heap) \union taken) : InUse \subseteq S /\ ClosedUnderRefs(S)

(* No collection frees what C variables or another machine reach.  The code
   does not keep this (README): the configurations do not check it. *)
NothingTaken == taken = {}

(* Strings are interned: a search of the table for the text of a live string
   ends, at that very string; and the table holds no string that was freed.
   Names are compared by address, which is only right because of this. *)
Interning ==
  LET text == Texts(heap)
      live == {o \in Obj : Is(heap, o, "string")}
  IN  /\ strings.capacity > 0 => NoObj \in Range(strings.entries)
      /\ \A o \in live : FindString(strings, text[o], text) = o
      /\ Strings(strings) = live
      /\ strings.count = Cardinality(live)

(* gc_collect() and nq_gc() leave exactly the objects that can be reached
   from the machine's roots. *)
CollectsGarbage ==
  [][\A v \in VMs :
       (GcCollect /\ v = running) \/ HostCollect(v) =>
         Live(heap') = Reachable(Roots(v))]_vars
=============================================================================
