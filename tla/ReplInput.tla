----------------------------- MODULE ReplInput ------------------------------
(***************************************************************************)
(* The REPL of src/src/repl.cpp: lines are read into a buffer, carry, and  *)
(* what is in it is parsed, compiled and run when no block seems open,     *)
(* which runREPL tells from the first word of each line.                   *)
(*                                                                         *)
(* Of a line the model keeps its first word, what is after it, and its     *)
(* length.  What the parser and the compiler say of a program is left      *)
(* open, but for blocks that are not closed.  What becomes of the VM, and  *)
(* of its fields that runREPL resets, is in VMControl.                     *)
(***************************************************************************)
EXTENDS Integers, SequencesExt

CONSTANTS
  Words,       \* words that lines start with
  Lengths,     \* of lines
  LineMax,     \* REPL_LINE_MAX
  BufMax,      \* REPL_BUF_MAX
  LinesMax     \* lines of one input (a bound of the model)

\* "if(" is an if with no blank after it, "try_" a name that starts with try,
\* "other" any other statement.
ASSUME ReplAssumption ==
  /\ Words \subseteq {"if", "if(", "loop", "function", "try", "try_", "for", "when", "catch",
                      "else", "end", "other", "blank", "help", "clear", "exit"}
  /\ Lengths \subseteq Nat \ {0}
  /\ {LineMax, BufMax, LinesMax} \subseteq Nat
  /\ 2 < LineMax /\ LineMax < BufMax

VARIABLES
  carry,       \* the lines in the buffer
  depth,       \* blocks that seem open
  unread,      \* what fgets left of a line: one line, or none
  typed,       \* what was read since the last prompt for a new input
  tried        \* the program that the last turn gave to the parser, and what was
               \* typed for it

vars == <<carry, depth, unread, typed, tried>>

-----------------------------------------------------------------------------
(***************************************************************************)
(* Lines.  The end of a form may be on the line that opens it; a blank or  *)
(* a comment may follow the word; and a line may have been cut.            *)
(***************************************************************************)
Forms == {"if", "if(", "loop", "function", "try", "for", "when"}

Typable == {l \in [word : Words, rest : {"none", "end", "more"}, len : Lengths] :
              /\ l.rest = "end" => l.word \in Forms
              /\ l.rest = "more" => l.word \in {"help", "end"}}

opensBlock(t) == t.word \in {"if", "loop", "function", "try", "try_"}

\* Slip: the body of else is taken for one more block that was closed.
SlipCloses(t) == t.word \in {"end", "else"} /\ t.rest = "none"

closesBlock(t) == t.word = "end" /\ t.rest = "none"

IsCommand(t, names) == t.word \in names /\ t.rest = "none"

\* Each line is followed by a newline.
Bytes(lines) == SumFunction([i \in DOMAIN lines |-> lines[i].len + 1])

-----------------------------------------------------------------------------
(***************************************************************************)
(* Blocks as the language has them.                                        *)
(***************************************************************************)
Opens(t) == t.word \in Forms /\ t.rest # "end"
Closes(t) == t.word = "end"

Count(lines, Test(_)) == Cardinality({i \in DOMAIN lines : Test(lines[i])})

Nesting(lines) == Count(lines, Opens) - Count(lines, Closes)

-----------------------------------------------------------------------------
(***************************************************************************)
(* fgets: a line that is too long comes in pieces (two in the model), each *)
(* a line to runREPL.                                                      *)
(***************************************************************************)
Chunk(l) ==
  IF l.len < LineMax - 1 THEN <<l>>
  ELSE <<[word |-> l.word, rest |-> "cut", len |-> LineMax - 1],
         [word |-> IF l.len = LineMax - 1 THEN "blank" ELSE "other",
          rest |-> "cut", len |-> l.len - (LineMax - 1)]>>

\* What the next calls of fgets return.
Inputs ==
  IF unread # <<>> THEN {unread}
  ELSE {Chunk(l) : l \in {m \in Typable : Len(typed) < LinesMax \/ IsCommand(Chunk(m)[1], {"exit"})}}

\* Slip: the blank that takes the place of the end of the line is forgotten.
SlipFits(lines, t) == Bytes(lines) + t.len < BufMax

Fits(lines, t) == Bytes(lines) + t.len + 2 < BufMax

Carried(t) == IF Fits(carry, t) THEN Append(carry, t) ELSE carry

\* Slip: the body of catch is counted as a block of its own.
SlipDepth(t) ==
  CASE opensBlock(t) \/ t.word = "catch"  -> depth + 1
    [] closesBlock(t)                     -> IF depth > 0 THEN depth - 1 ELSE 0
    [] OTHER                              -> depth

Depth(t) ==
  CASE t.word = "catch"  -> depth
    [] opensBlock(t)     -> depth + 1
    [] closesBlock(t)    -> IF depth > 0 THEN depth - 1 ELSE 0
    [] OTHER             -> depth

\* Slip: an input that is refused stays in the buffer.
SlipKept == carry

Kept == <<>>

Nothing == [lines |-> <<>>, typed |-> <<>>]

(***************************************************************************)
(* One turn of the loop.                                                   *)
(***************************************************************************)
Ignored(t) == \/ IsCommand(t, {"help", "clear"})
              \/ t.word = "blank" /\ depth = 0

Ignore(t) == /\ Ignored(t)
             /\ tried' = Nothing
             /\ UNCHANGED <<carry, depth, typed>>

\* exit and quit; the next session has a buffer of its own.
Leave(t) == /\ IsCommand(t, {"exit"})
            /\ carry' = <<>> /\ depth' = 0
            /\ typed' = <<>> /\ tried' = Nothing

Program(t) == ~ Ignored(t) /\ ~ IsCommand(t, {"exit"})

Collect(t) == /\ Program(t) /\ Depth(t) > 0
              /\ depth' = Depth(t)
              /\ carry' = Carried(t)
              /\ typed' = Append(typed, t)
              /\ tried' = Nothing

\* parse, compile, runVM: an input ends with an error of one of the first
\* two, or is run.
Try(t) == /\ Program(t) /\ Depth(t) = 0
          /\ tried' = [lines |-> Carried(t), typed |-> Append(typed, t)]
          /\ depth' = 0
          /\ typed' = <<>>

Refuse(t) == Try(t) /\ carry' = Kept

Run(t) == Try(t) /\ Nesting(Carried(t)) <= 0 /\ carry' = <<>>

-----------------------------------------------------------------------------
Init == /\ carry = <<>> /\ depth = 0
        /\ unread = <<>>
        /\ typed = <<>> /\ tried = Nothing

Next == \E lines \in Inputs :
          /\ unread' = Tail(lines)
          /\ LET t == lines[1] IN Ignore(t) \/ Leave(t) \/ Collect(t) \/ Refuse(t) \/ Run(t)

Spec == Init /\ [][Next]_vars

-----------------------------------------------------------------------------
(***************************************************************************)
(* The buffer holds lines, and as many blocks seem open as lines opened    *)
(* one.                                                                    *)
(***************************************************************************)
TypeOK ==
  /\ \A l \in ToSet(carry) \cup ToSet(typed) \cup ToSet(unread) :
       l.word \in Words \cup {"blank", "other"} /\ l.len \in Nat
  /\ depth \in 0..Count(typed, opensBlock)
  /\ Len(unread) <= 1

(***************************************************************************)
(* The buffer (repl.cpp:102) is never written past its end, whatever is    *)
(* typed: the lines, their newlines and the zero fit.                      *)
(***************************************************************************)
BufferHolds == Bytes(carry) + 1 <= BufMax

(***************************************************************************)
(* At the prompt for a new input nothing of an earlier one is left in the  *)
(* buffer, whichever way that one ended (repl.cpp:115, 130), so a program  *)
(* never starts with lines the user was told are wrong.                    *)
(***************************************************************************)
NothingLeft == depth = 0 => carry = <<>>

\* A line of a kind that runREPL means to count: the word is followed by a
\* blank or by the end of the line, and other lines leave the blocks alone.
Counted(t) == \/ t.rest = "none" /\ t.word \notin {"if(", "try_", "for", "when"}
              \/ t.rest = "more" /\ t.word = "help"

\* Complete with its last line and not before.
IsForm(lines) == /\ Nesting(lines) <= 0
                 /\ \A n \in 1..Len(lines) - 1 : Nesting(SubSeq(lines, 1, n)) > 0

(***************************************************************************)
(* What is parsed and run is one complete form, with all its lines as they *)
(* were typed: not a piece of a form, not two forms, no line lost          *)
(* (repl.cpp:93-106).  It holds of input that the buffer has room for and  *)
(* whose lines are of the kinds that runREPL counts; help, clear and blank *)
(* lines before it do not matter.                                          *)
(***************************************************************************)
RunsForms ==
  /\ \A n \in DOMAIN tried.typed : Counted(tried.typed[n])
  /\ Bytes(tried.typed) + 1 < BufMax
  => tried.lines = tried.typed /\ (tried.typed # <<>> => IsForm(tried.typed))
=============================================================================
