------------------------------- MODULE Filters -------------------------------
(***************************************************************************)
(* What the modules of this project do to sequences: keep the members that *)
(* pass a test, as every lane of the driver does with the packets, frames  *)
(* and cues it is given, and move them in time.  Only is SelectSeq with    *)
(* the test given as a set, written as a function of the prefix filtered   *)
(* so that it can be reasoned about.                                       *)
(***************************************************************************)
EXTENDS Integers, Sequences

OnlyUpTo(s, S) ==
  LET f[n \in 0..Len(s)] ==
        IF n = 0 THEN <<>> ELSE IF s[n] \in S THEN Append(f[n-1], s[n]) ELSE f[n-1]
  IN  f

\* The members of s that are in S, in their order.
Only(s, S) == OnlyUpTo(s, S)[Len(s)]

\* Every time of ts moved by d.
Shifted(ts, d) == [n \in DOMAIN ts |-> ts[n] + d]

\* The times of a sequence of packets or of what an output was given.
TimesIn(its) == [n \in DOMAIN its |-> its[n].t]
=============================================================================
