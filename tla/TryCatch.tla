------------------------------ MODULE TryCatch -------------------------------
(***************************************************************************)
(* What functions, try and catch promise a Nolqu program, with no machine  *)
(* behind them: an activation is a place in a function's code, a place is  *)
(* the try bodies around it and the number of values the function has on   *)
(* the stack there, and an error goes to the innermost try body of the     *)
(* latest activation that is in one.  Leaving a function leaves its try    *)
(* bodies.                                                                 *)
(*                                                                         *)
(* open is the sequence of try bodies around the place, outermost first,   *)
(* each given by the height at which it was entered.                       *)
(***************************************************************************)
EXTENDS Naturals, SequencesExt

CONSTANT
  BaseHeights   \* the heights at which code starts: callee and parameters

VARIABLES
  calls,        \* the activations, outermost first
  outcome       \* how the program stands

vars == <<calls, outcome>>

Top == Last(calls)
At(open, height) == [open |-> open, height |-> height]
MoveTo(place) == calls' = Append(Front(calls), place)
Going == outcome = "running" /\ UNCHANGED outcome
Stop(how) == outcome = "running" /\ outcome' = how /\ calls' = <<>>

(* The values below the innermost try body belong to the code around it. *)
Above(height, open) == open # <<>> => height > Last(open)

Init == calls = <<>> /\ outcome = "ok"

Start ==
  /\ outcome # "running"
  /\ outcome' = "running"
  /\ calls' = <<At(<<>>, 1)>>

(* An instruction that pushes or pops. *)
Compute ==
  /\ Going
  /\ \/ MoveTo(At(Top.open, Top.height + 1))
     \/ /\ Top.height > 1
        /\ Above(Top.height, Top.open)
        /\ MoveTo(At(Top.open, Top.height - 1))

EnterTry ==
  /\ Going
  /\ MoveTo(At(Append(Top.open, Top.height), Top.height))

LeaveTry ==
  /\ Going
  /\ Top.open # <<>>
  /\ Top.height = Last(Top.open)
  /\ MoveTo(At(Front(Top.open), Top.height))

(* break and continue pop down to the loop, which may be outside of try
   bodies that are then left. *)
Jump ==
  /\ Going
  /\ \E k \in 0..Len(Top.open) - 1 : \E height \in 1..Top.open[k + 1] :
       /\ Above(height + 1, SubSeq(Top.open, 1, k))
       /\ MoveTo(At(SubSeq(Top.open, 1, k), height))

(* The innermost try body of the latest activation that is in one takes the
   error; its catch block finds it above what was on the stack at try. *)
Raise ==
  /\ Going
  /\ \E i \in 1..Len(calls) :
       /\ calls[i].open # <<>>
       /\ \A j \in i+1..Len(calls) : calls[j].open = <<>>
       /\ calls' = Append(SubSeq(calls, 1, i - 1),
                          At(Front(calls[i].open), Last(calls[i].open) + 1))

Uncaught ==
  /\ \A i \in 1..Len(calls) : calls[i].open = <<>>
  /\ Stop("uncaught")

(* A call takes the callee and its arguments and leaves one result; a native
   has no activation of its own. *)
CallNative ==
  /\ Going
  /\ \E height \in 1..Top.height :
       /\ Above(height, Top.open)
       /\ MoveTo(At(Top.open, height))

Call ==
  /\ Going
  /\ \E height \in 1..Top.height : \E base \in BaseHeights :
       /\ Above(height, Top.open)
       /\ calls' = Front(calls) \o <<At(Top.open, height), At(<<>>, base)>>

Return ==
  /\ Going
  /\ Len(calls) > 1
  /\ calls' = Front(calls)

Finish ==
  /\ Len(calls) = 1
  /\ Top = At(<<>>, 1)
  /\ Stop("ok")

(* What no try can catch: a limit of the machine, or a call it refuses.  The
   machine may be too full to begin. *)
Abort ==
  \/ \E how \in {"refused", "exit"} : Stop(how)
  \/ outcome # "running" /\ outcome' = "exit" /\ UNCHANGED calls

Next ==
  \/ Start \/ Compute \/ EnterTry \/ LeaveTry \/ Jump \/ Raise \/ Uncaught
  \/ CallNative \/ Call \/ Return \/ Finish \/ Abort

Spec == Init /\ [][Next]_vars
=============================================================================
