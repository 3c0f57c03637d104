------------------------------ MODULE Timestamps ------------------------------
(***************************************************************************)
(* Timestamps as process.c computes with them: 64-bit integers, the least  *)
(* of which, AV_NOPTS_VALUE, means that there is none.  Here they have the *)
(* width MaxTs gives them.                                                 *)
(***************************************************************************)
EXTENDS Integers

CONSTANT MaxTs    \* INT64_MAX

ASSUME TimestampsAssumption == MaxTs \in Nat \ {0}

MinTs == -MaxTs - 1
NOPTS == MinTs
Ts    == MinTs..MaxTs

FFMIN(a, b) == IF a > b THEN b ELSE a
FFMAX(a, b) == IF a > b THEN a ELSE b

\* Mutant: the sum as it is (ffmpeg-wasi#44).
AddUnchecked(a, b) == a + b

\* The tests come before the sum, which must not be formed when it overflows.
ts_add(a, b) ==
  CASE b > 0 /\ a > MaxTs - b -> MaxTs
    [] b < 0 /\ a < MinTs - b -> MinTs
    [] OTHER                  -> a + b

ts_sub(a, b) ==
  CASE b < 0 /\ a > MaxTs + b -> MaxTs
    [] b > 0 /\ a < MinTs + b -> MinTs
    [] OTHER                  -> a - b

median3(a, b, c) == FFMAX(FFMIN(a, b), FFMIN(FFMAX(a, b), c))
-----------------------------------------------------------------------------
(* What these should be. *)

Clamped(n) == IF n > MaxTs THEN MaxTs ELSE IF n < MinTs THEN MinTs ELSE n

\* The middle one: one of the others is no greater, the other no less.
IsMiddle(m, a, b, c) ==
  \E x \in {<<a, b, c>>, <<b, c, a>>, <<c, a, b>>} :
    m = x[1] /\ ((x[2] <= m /\ m <= x[3]) \/ (x[3] <= m /\ m <= x[2]))

\* Sums and differences saturate, and the median is the middle value, over the
\* whole range: "Same answer, no intermediate that can wrap" (process.c 229-235).
Saturating ==
  \A a, b \in Ts : ts_add(a, b) = Clamped(a + b) /\ ts_sub(a, b) = Clamped(a - b)
Middling == \A a, b, c \in Ts : IsMiddle(median3(a, b, c), a, b, c)
=============================================================================
