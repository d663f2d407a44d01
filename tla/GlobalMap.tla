------------------------------ MODULE GlobalMap ------------------------------
(***************************************************************************)
(* What the virtual machine promises of global variables: a partial map    *)
(* from names to values.  `let` binds a name whether it was bound or not,  *)
(* an assignment needs a bound name and otherwise changes nothing, and a   *)
(* read answers the value last given to the name.                          *)
(***************************************************************************)
CONSTANTS
  Key,        \* names
  Value,      \* values
  Unbound,    \* "has no value"
  Ok,         \* the answer of a definition or assignment that succeeded
  NameError   \* the answer of an operation on a name that is not declared

VARIABLES
  binding,    \* binding[k]: the value of k, or Unbound
  answer      \* the answer to the last operation

vars == <<binding, answer>>

Init ==
  /\ binding = [k \in Key |-> Unbound]
  /\ answer = Ok

Define(k, v) ==
  /\ answer' = Ok
  /\ binding' = [binding EXCEPT ![k] = v]

Assign(k, v) ==
  IF binding[k] = Unbound
  THEN answer' = NameError /\ UNCHANGED binding
  ELSE answer' = Ok /\ binding' = [binding EXCEPT ![k] = v]

Read(k) ==
  /\ answer' = IF binding[k] = Unbound THEN NameError ELSE binding[k]
  /\ UNCHANGED binding

Next ==
  \E k \in Key :
    \/ \E v \in Value : Define(k, v) \/ Assign(k, v)
    \/ Read(k)

Spec == Init /\ [][Next]_vars
=============================================================================
