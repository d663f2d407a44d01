----------------------------- MODULE MCLoopJit ------------------------------
(***************************************************************************)
(* Doubles with a significand of two bits: the integers up to 4, 6, and    *)
(* the infinities, rounded to the nearest, ties to the even significand.   *)
(***************************************************************************)
EXTENDS LoopJit

CONSTANTS a, b, i

UpAndDown == {1, -1}

Infinity == 8
Infinite == {Infinity, -Infinity}
SmallDoubles == (-4..4) \cup {-6, 6} \cup Infinite

Nearest(n) == CASE n >= 7 -> Infinity
                [] n = 5 -> 4
                [] OTHER -> n

Rounded(n) == IF n < 0 THEN -Nearest(-n) ELSE Nearest(n)

SmallPlus(x, d) ==
  CASE NaN \in {x, d} \/ {x, d} = Infinite -> NaN
    [] x \in Infinite -> x
    [] OTHER -> Rounded(x + d)

SmallTimes(x, d) ==
  IF NaN \in {x, d} \/ (0 \in {x, d} /\ {x, d} \cap Infinite # {}) THEN NaN ELSE Rounded(x * d)
=============================================================================
