------------------------------ MODULE VMControl ------------------------------
(***************************************************************************)
(* The control state of a VM (src/src/vm.h): the call frames, the height   *)
(* of the value stack, the error handlers and the pending thrown value,    *)
(* under the instructions of src/src/vm.c that change them, run again and  *)
(* again by a host on one VM.                                              *)
(*                                                                         *)
(* The program is any program src/src/compiler.cpp can emit.  Of an        *)
(* instruction pointer the model keeps what the compiler knows of that     *)
(* place: the try bodies around it (each by the height at its OP_TRY), how *)
(* many slots of its frame are in use there, and whether it is the code    *)
(* after OP_HALT or the middle of an instruction that failed, which the    *)
(* model does not resume.  Values are not modelled, only where they are.   *)
(*                                                                         *)
(* The operators called Slip... are slips a change to the code could make; *)
(* nothing uses them but the mutation of the definition they precede, which *)
(* shows that a property would notice.                                     *)
(***************************************************************************)
EXTENDS Integers, SequencesExt

CONSTANTS
  FramesMax,       \* NQ_FRAMES_MAX
  StackMax,        \* NQ_STACK_MAX
  TryMax,          \* NQ_TRY_MAX
  HeightMax,       \* the slots one function may use
  Function,        \* the functions of the program
  Script,          \* its top-level code
  Arity,           \* the parameters of each function
  Hosts,           \* who may call runVM
  LeavesTry,       \* may the program leave a try body by a jump or a return?
  ThrowsDirectly   \* may it call env() or sleep() with a wrong argument?

ASSUME ControlAssumption ==
  /\ {FramesMax, StackMax, TryMax, HeightMax} \subseteq Nat \ {0}
  /\ Script \in Function
  /\ Arity \in [Function -> Nat]
  /\ Arity[Script] = 0
  /\ \A f \in Function : Arity[f] < HeightMax
  /\ Hosts \subseteq {"repl", "embedding", "test"}
  /\ LeavesTry \in BOOLEAN
  /\ ThrowsDirectly \in BOOLEAN

VARIABLES
  vm,              \* struct VM
  result           \* what runVM returned, or "running", or "exit"

vars == <<vm, result>>

-----------------------------------------------------------------------------
(* Places in compiled code, frames and handlers. *)

At(code, open, height) ==
  [code |-> code, open |-> open, height |-> height, stage |-> "code"]

EntryOf(f) == At(f, <<>>, Arity[f] + 1)

(* The slots that code at this place leaves alone. *)
Floor(ip) == IF ip.open = <<>> THEN Arity[ip.code] + 1 ELSE Last(ip.open)

Frame(f, slots) == [function |-> f, slots |-> slots, ip |-> EntryOf(f)]

NewVM ==
  [frames      |-> [i \in 1..FramesMax |-> Frame(Script, 0)],
   frame_count |-> 0,
   stack_top   |-> 0,
   try_stack   |-> <<>>,
   thrown      |-> FALSE]

Top == vm.frames[vm.frame_count]

(* What C leaves undefined is not followed: runs of code that is not the
   frame's own, and a stack pointer that has left the stack downwards. *)
OnStack(m) == m.stack_top >= 0

Running == result = "running" /\ Top.ip.code = Top.function /\ OnStack(vm)

InCode == Running /\ Top.ip.stage = "code"

WithIp(m, ip) == [m EXCEPT !.frames[m.frame_count].ip = ip]

(* The machine after code that moved the top frame to ip, with the stack as
   much higher or lower. *)
Moved(ip) ==
  [WithIp(vm, ip) EXCEPT !.stack_top = @ + ip.height - Top.ip.height]

Height(h) == [Top.ip EXCEPT !.height = h]

Continue(m) == vm' = m /\ result' = "running"

Staged(m, stage) ==
  WithIp(m, [m.frames[m.frame_count].ip EXCEPT !.stage = stage])

(* push() ends the process at a full stack. *)
PushOn(m) ==
  IF m.stack_top >= StackMax
  THEN result' = "exit" /\ UNCHANGED vm
  ELSE Continue([m EXCEPT !.stack_top = @ + 1])

-----------------------------------------------------------------------------
(* throwError: does a handler take the error, and the machine afterwards. *)

Caught(m) == m.try_stack # <<>>

(* What a handler does with the error; the handler itself stays or goes. *)
Handle(m, h, try_stack) ==
  [m EXCEPT !.thrown = TRUE,
            !.try_stack = try_stack,
            !.stack_top = h.stack_top + 1,
            !.frame_count = h.frame_count,
            !.frames[h.frame_count].ip = h.catch_ip]

(* The handler is not popped. *)
SlipPop(m) ==
  IF Caught(m) THEN Handle(m, Last(m.try_stack), m.try_stack)
               ELSE [m EXCEPT !.thrown = TRUE]

(* The outermost handler is taken, with those inside it. *)
SlipOuter(m) ==
  IF Caught(m) THEN Handle(m, Head(m.try_stack), <<>>)
               ELSE [m EXCEPT !.thrown = TRUE]

throwError(m) ==
  IF Caught(m) THEN Handle(m, Last(m.try_stack), Front(m.try_stack))
               ELSE [m EXCEPT !.thrown = TRUE]

(* An instruction throws: on to the catch block, or report and return. *)
Throw(m) ==
  /\ vm' = throwError(Staged(m, "failed"))
  /\ result' = IF Caught(m) THEN "running" ELSE "uncaught"

(* vmRuntimeError and return, past any handler. *)
Refuse == vm' = Staged(vm, "failed") /\ result' = "refused"

-----------------------------------------------------------------------------

Init == vm = NewVM /\ result = "ok"

(* After a failure the REPL leaves the handlers. *)
SlipReady(host) ==
  IF host = "test" \/ result \in {"uncaught", "refused"}
  THEN [vm EXCEPT !.stack_top = 0, !.frame_count = 0]
  ELSE vm

(* What the host does about the machine between two runs: the REPL empties
   it after a failure, nq test before each file, an embedder never. *)
Ready(host) ==
  IF \/ host = "test"
     \/ host = "repl" /\ result \in {"uncaught", "refused"}
  THEN [vm EXCEPT !.stack_top = 0, !.frame_count = 0, !.try_stack = <<>>,
                  !.thrown = FALSE]
  ELSE vm

(* push(script) and callFunction(script, 0), whose failure is ignored. *)
RunVM ==
  /\ result \in {"ok", "uncaught", "refused"}
  /\ \E m \in {Ready(host) : host \in Hosts} :
       /\ OnStack(m)
       /\ PushOn(IF m.frame_count >= FramesMax THEN m
                 ELSE [m EXCEPT !.frame_count = @ + 1,
                                !.frames[m.frame_count + 1] =
                                   Frame(Script, m.stack_top)])

(* Any instruction that pushes. *)
Push ==
  /\ InCode
  /\ Top.ip.height < HeightMax
  /\ PushOn(WithIp(vm, Height(Top.ip.height + 1)))

(* Any instruction that pops. *)
Pop ==
  /\ InCode
  /\ Top.ip.height > Floor(Top.ip)
  /\ Continue(Moved(Height(Top.ip.height - 1)))

(* One handler too many. *)
SlipTryFull == Len(vm.try_stack) > TryMax

TryFull == Len(vm.try_stack) >= TryMax

(* OP_TRY.  The catch block is outside of the new body, with the error on
   top of what is on the stack now. *)
OpTry ==
  /\ InCode
  /\ Top.ip.height < HeightMax
  /\ IF TryFull
     THEN Refuse
     ELSE LET handler == [catch_ip    |-> Height(Top.ip.height + 1),
                          stack_top   |-> vm.stack_top,
                          frame_count |-> vm.frame_count]
          IN  Continue([WithIp(vm, [Top.ip EXCEPT !.open = Append(@, Top.ip.height)])
                          EXCEPT !.try_stack = Append(@, handler)])

(* OP_TRY_END, after the pops of the body's locals. *)
OpTryEnd ==
  /\ InCode
  /\ Top.ip.open # <<>>
  /\ Top.ip.height = Last(Top.ip.open)
  /\ Continue([WithIp(vm, [Top.ip EXCEPT !.open = Front(@)])
                 EXCEPT !.try_stack = IF @ = <<>> THEN @ ELSE Front(@)])

(* OP_THROW pops the error it throws. *)
OpThrow ==
  /\ InCode
  /\ Top.ip.height > Floor(Top.ip)
  /\ Throw([vm EXCEPT !.stack_top = @ - 1])

(* THROW_ERROR in any instruction. *)
ThrowError == InCode /\ Throw(vm)

(* break and continue: the compiler emits a pop for each local down to the
   loop's, and a jump.  For the try bodies between it emits nothing. *)
JumpOutOfTry ==
  /\ LeavesTry
  /\ InCode
  /\ \E k \in 0..Len(Top.ip.open) - 1 :
       LET open == SubSeq(Top.ip.open, 1, k)
       IN  \E height \in Floor([Top.ip EXCEPT !.open = open])..Top.ip.open[k + 1] :
             Continue(Moved([Top.ip EXCEPT !.open = open, !.height = height]))

(* The callee and argc arguments are on the stack, above the floor. *)
Calls(argc) == InCode /\ Top.ip.height > Floor(Top.ip) + argc

Returned(argc) == WithIp(vm, Height(Top.ip.height - argc))

(* A frame's slots start at the first argument. *)
SlipSlots(argc) == vm.stack_top - argc

(* A frame's slots start at the callee. *)
CalleeSlots(argc) == vm.stack_top - argc - 1

(* OP_CALL of a function.  callFunction refuses a call with too many
   arguments or in too many frames, and that is no error a try can catch.
   It pushes null for each missing argument. *)
OpCall(f, argc) ==
  /\ Calls(argc)
  /\ IF argc > Arity[f] \/ vm.frame_count >= FramesMax
     THEN Refuse
     ELSE IF vm.stack_top + Arity[f] - argc > StackMax
     THEN result' = "exit" /\ UNCHANGED vm
     ELSE Continue([Returned(argc) EXCEPT
                      !.frame_count = @ + 1,
                      !.frames[vm.frame_count + 1] = Frame(f, CalleeSlots(argc)),
                      !.stack_top = @ + Arity[f] - argc])

(* OP_CALL of a native that returns: it finds thrown cleared and leaves it. *)
CallNative(argc) ==
  /\ Calls(argc)
  /\ Continue([Returned(argc) EXCEPT !.stack_top = @ - argc, !.thrown = FALSE])

(* OP_CALL of a native that sets thrown, as error() does. *)
NativeError(argc) ==
  /\ Calls(argc)
  /\ Throw([vm EXCEPT !.stack_top = @ - argc - 1])

(* OP_CALL of env() or sleep(), which call throwError on a wrong argument;
   OP_CALL takes the arguments off the stack that throwError has left and
   finds thrown set. *)
NativeThrows ==
  /\ ThrowsDirectly
  /\ Calls(1)
  /\ Throw([throwError(Staged(vm, "failed")) EXCEPT !.stack_top = @ - 2])

(* OP_RETURN with the result on top.  The last frame's return also takes the
   script off the stack. *)
Return(m) ==
  LET back == [m EXCEPT !.frame_count = @ - 1]
  IN  IF back.frame_count = 0
      THEN vm' = [back EXCEPT !.stack_top = @ - 2] /\ result' = "ok"
      ELSE PushOn([back EXCEPT !.stack_top = Top.slots])

(* The compiler refuses a return at top level, never one in a try body.  The
   frame that returns stays in the array, with an ip after OP_RETURN. *)
OpReturn ==
  /\ InCode
  /\ Top.function # Script
  /\ Top.ip.open = <<>> \/ LeavesTry
  /\ Top.ip.height > Floor(Top.ip)
  /\ Return(WithIp(vm, Height(Top.ip.height - 1)))

(* OP_HALT returns from runVM and leaves the frame where it is. *)
OpHalt ==
  /\ InCode
  /\ Top.ip = EntryOf(Script)
  /\ vm' = Staged(vm, "halted")
  /\ result' = "ok"

(* OP_NIL and OP_RETURN, which the compiler emits after OP_HALT, reached
   when a run finds no frame for its script. *)
PastHalt ==
  /\ Running
  /\ Top.ip.stage = "halted"
  /\ IF vm.stack_top >= StackMax
     THEN result' = "exit" /\ UNCHANGED vm
     ELSE Return([vm EXCEPT !.stack_top = @ + 1])

Next ==
  \/ RunVM
  \/ Push \/ Pop
  \/ OpTry \/ OpTryEnd \/ OpThrow \/ ThrowError \/ JumpOutOfTry
  \/ \E argc \in 0..HeightMax :
       \/ \E f \in Function \ {Script} : OpCall(f, argc)
       \/ CallNative(argc)
       \/ NativeError(argc)
  \/ NativeThrows
  \/ OpReturn \/ OpHalt \/ PastHalt

Spec == Init /\ [][Next]_vars

-----------------------------------------------------------------------------

PlaceOK(ip) ==
  /\ ip.code \in Function
  /\ ip.stage \in {"code", "halted", "failed"}
  /\ ip.height \in 1..HeightMax
  /\ \A k \in DOMAIN ip.open : ip.open[k] \in 1..HeightMax

(* The machine is well-formed, and no index leaves its array: a frame and the
   handlers' frames exist, and the stack is exceeded by no more than the errors
   of nested catches. *)
TypeOK ==
  /\ vm.frame_count \in 0..FramesMax
  /\ vm.stack_top \in 0..StackMax + HeightMax
  /\ Len(vm.try_stack) <= TryMax
  /\ vm.thrown \in BOOLEAN
  /\ \A i \in 1..FramesMax :
       /\ vm.frames[i].function \in Function
       /\ vm.frames[i].slots \in 0..StackMax
       /\ PlaceOK(vm.frames[i].ip)
  /\ \A i \in DOMAIN vm.try_stack :
       /\ vm.try_stack[i].frame_count \in 1..FramesMax
       /\ vm.try_stack[i].stack_top \in 0..StackMax + HeightMax
       /\ PlaceOK(vm.try_stack[i].catch_ip)
  /\ result \in {"ok", "running", "uncaught", "refused", "exit"}
  /\ result = "running" => vm.frame_count > 0

(* What is left of that when handlers outlive their try bodies (LeavesTry) and
   bring back frames that were left, with code that takes more off the stack
   than is there: frames and handlers stay within their arrays, and the stack
   is not exceeded by more; it may be left downwards. *)
LimitsHold ==
  /\ vm.frame_count \in 0..FramesMax
  /\ vm.stack_top <= StackMax + HeightMax
  /\ Len(vm.try_stack) <= TryMax
  /\ \A i \in DOMAIN vm.try_stack : vm.try_stack[i].frame_count \in 1..FramesMax
  /\ result = "running" => vm.frame_count > 0

(* The handler that the try body k of frame i must have. *)
HandlerOf(i, k) ==
  LET f == vm.frames[i]
  IN  [catch_ip    |-> At(f.function, SubSeq(f.ip.open, 1, k - 1), f.ip.open[k] + 1),
       stack_top   |-> f.slots + f.ip.open[k],
       frame_count |-> i]

(* The try stack is, frame by frame and outermost first, the try bodies that
   the active frames are in: none is missing, none outlives its body, and
   each would restore what its body found. *)
HandlersMirrorTrys ==
  \E below \in [1..vm.frame_count + 1 -> 0..Len(vm.try_stack)] :
    /\ below[1] = 0
    /\ below[vm.frame_count + 1] = Len(vm.try_stack)
    /\ \A i \in 1..vm.frame_count :
         LET open == vm.frames[i].ip.open
         IN  /\ below[i + 1] = below[i] + Len(open)
             /\ \A k \in DOMAIN open :
                  vm.try_stack[below[i] + k] = HandlerOf(i, k)

(* Code finds the stack as high as the compiler counted, in its own frame
   and, when it returns to them, in the callers'; so a catch block finds the
   error where its variable is, wherever the error came from. *)
StackFits ==
  result = "running" =>
    /\ Top.ip.stage = "code" => vm.stack_top = Top.slots + Top.ip.height
    /\ \A i \in 1..vm.frame_count - 1 :
         LET f == vm.frames[i]
         IN  f.ip.stage = "code" =>
               vm.frames[i + 1].slots = f.slots + f.ip.height - 1

(* While a run is in progress, every handler belongs to it: none is left of
   an earlier run, whose code it would take up again. *)
HandlersOfThisRun ==
  result = "running" =>
    \A h \in 1..Len(vm.try_stack), i \in 1..vm.frame_count :
      vm.frames[i].function = Script => vm.try_stack[h].frame_count >= i

(* The frames of the current run.  When runVM found no frame for its script,
   what runs is the script that ended last, from after its OP_HALT. *)
CurrentRun ==
  LET scripts == {i \in 1..vm.frame_count : vm.frames[i].function = Script}
      first == CHOOSE i \in scripts : \A j \in scripts : j <= i
  IN  IF result = "running" THEN SubSeq(vm.frames, first, vm.frame_count) ELSE <<>>

RunCalls ==
  [i \in DOMAIN CurrentRun |-> [open   |-> CurrentRun[i].ip.open,
                                height |-> CurrentRun[i].ip.height]]

(* The frames and handlers together do what functions, try and catch promise:
   an error goes to the innermost try body of the latest activation of this
   run, whatever earlier runs have left on the machine. *)
Promise == INSTANCE TryCatch WITH
  BaseHeights <- {Arity[f] + 1 : f \in Function},
  calls <- RunCalls,
  outcome <- result

ImplementsTryCatch == Promise!Spec

(* vm_design.md: with a handler there is, an error restores its stack and
   frames and jumps to its catch block.  An error takes one handler, the
   innermost, and is uncaught only when there is none; it does while no
   native calls throwError by itself (ThrowsDirectly). *)
OneCatchPerError ==
  [][result = "running" =>
       /\ Len(vm.try_stack) - Len(vm'.try_stack) <= 1
       /\ result' = "uncaught" => vm.try_stack = <<>>]_vars

-----------------------------------------------------------------------------
(* What the repository says and the inputs of the REPL refute. *)

(* callFunction reports "too many nested function calls" in a call stack that
   is full of functions, not of scripts that have ended. *)
FramesAreCalls ==
  result = "running" /\ vm.frame_count = FramesMax =>
    \A i \in 1..vm.frame_count : vm.frames[i].ip.stage # "halted"
=============================================================================
