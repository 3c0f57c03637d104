------------------------------ MODULE MCProcess ------------------------------
(***************************************************************************)
(* The jobs TLC runs Process on.                                           *)
(***************************************************************************)
EXTENDS ProcessJobs

\* Files: stream 1 at every time of a..b, or streams 1 and 2 interleaved.
V(a, b)  == [n \in 1..(b - a + 1) |-> [st |-> 1, t |-> a + n - 1]]
AV(a, b) == [n \in 1..(2 * (b - a + 1)) |-> [st |-> 1 + ((n - 1) % 2), t |-> a + (n - 1) \div 2]]

File(p, end)    == [pkts |-> p, end |-> end, seek |-> None, accurate |-> FALSE]
Fast(p, at)     == [File(p, "eof") EXCEPT !.seek = at]
Accurate(p, at) == [File(p, "eof") EXCEPT !.seek = at, !.accurate = TRUE]

Unbounded == [dur |-> 0, end |-> 0, copyTs |-> FALSE]
Dur(d)    == [Unbounded EXCEPT !.dur = d]
End(e)    == [Unbounded EXCEPT !.end = e]
CopyTs(w) == [w EXCEPT !.copyTs = TRUE]
Windows   == {Dur(2), End(2), CopyTs(Dur(2)), CopyTs(End(4))}
AnyWindow == Windows \cup {Unbounded, CopyTs(Unbounded)}

Pad(i, st) == [in |-> i, st |-> st]
Chain(kind, o, srcs) == [out |-> o, srcs |-> srcs, kind |-> kind, n |-> 2, tidy |-> TRUE]
Untidy(ch) == [ch EXCEPT !.tidy = FALSE]
Bounded(o, srcs) == {Chain("trim", o, srcs), Untidy(Chain("trim", o, srcs))}
CopyOf(i, st, o, bsf) == [in |-> i, st |-> st, out |-> o, bsf |-> bsf]
SubOf(i, st, o)       == [in |-> i, st |-> st, out |-> o]

Job(inputs, gins, gouts, cpys, subs, outs) ==
  [inputs |-> inputs, gins |-> gins, gouts |-> gouts, cpys |-> cpys, subs |-> subs, outs |-> outs]

\* One file through one chain: every way a file ends, every seek, every window.
Encodes ==
  LET files == {File(V(0, 4), e) : e \in {"eof", "error", "ioeof"}}
                 \cup {File(<<>>, "eof"), Fast(V(1, 6), 2), Accurate(V(1, 6), 2)}
  IN  { Job(<<f>>, <<Pad(1, 1)>>, <<ch>>, <<>>, <<>>, <<w>>) :
          f \in files, ch \in Bounded(1, <<1>>) \cup {Chain("pass", 1, <<1>>)}, w \in AnyWindow }
      \cup { Job(<<f>>, <<Pad(1, 1)>>, <<Chain("loop", 1, <<1>>)>>, <<>>, <<>>, <<w>>) :
          f \in files, w \in Windows }

\* The same stream encoded and copied, its neighbour copied or transcoded.
Tees ==
  { Job(<<f>>, <<Pad(1, 1)>>, <<ch>>, cs, ss, <<w>>) :
      f \in {File(AV(0, 4), "eof"), File(AV(1, 5), "ioeof"), File(AV(1, 5), "eof"), Fast(AV(1, 6), 2)},
      ch \in Bounded(1, <<1>>) \cup {Chain("pass", 1, <<1>>)},
      cs \in { <<CopyOf(1, 1, 1, FALSE)>>, <<CopyOf(1, 1, 1, TRUE), CopyOf(1, 2, 1, FALSE)>>,
               <<CopyOf(1, 2, 1, TRUE)>>, <<>> },
      ss \in { <<>>, <<SubOf(1, 2, 1)>> },
      w \in AnyWindow }

\* A remux: no graph at all.
Remuxes ==
  { Job(<<f>>, <<>>, <<>>, cs, <<>>, <<w>>) :
      f \in {File(AV(0, 3), e) : e \in {"eof", "error", "ioeof"}} \cup {Fast(AV(1, 6), 2)},
      cs \in { <<CopyOf(1, 1, 1, b), CopyOf(1, 2, 1, b)>> : b \in BOOLEAN }, w \in AnyWindow }

\* One source split between two outputs with different windows; two sources
\* joined; two inputs of different lengths.
Splits ==
  { Job(<<f>>, <<Pad(1, 1)>>, <<Chain("pass", 1, <<1>>), ch>>, cs, <<>>, <<w, v>>) :
      f \in {File(AV(0, 5), "eof")},
      ch \in Bounded(2, <<1>>) \cup {Chain("pass", 2, <<1>>)},
      cs \in { <<>>, <<CopyOf(1, 2, 2, FALSE)>> },
      w \in {Dur(2), Unbounded}, v \in {Dur(4), Unbounded} }

Joins ==
  { Job(<<f, h>>, <<Pad(1, 1), Pad(2, 1)>>, <<ch>>, <<>>, <<>>, <<w>>) :
      f \in {File(V(0, 1), e) : e \in {"eof", "ioeof"}}, h \in {File(V(0, 2), e) : e \in {"eof", "error"}},
      ch \in Bounded(1, <<1, 2>>) \cup {Chain("pass", 1, <<1, 2>>)},
      w \in {Dur(1), Dur(3), Unbounded} }

\* An input without an end beside one that has one, bounded by the graph or by a
\* window.
Endings ==
  { Job(<<File(V(0, 0), "endless"), h>>, <<Pad(1, 1)>>, <<ch>>, <<CopyOf(2, 1, 1, b)>>, ss, <<Unbounded>>) :
      h \in {File(AV(0, 3), "eof")}, ch \in Bounded(1, <<1>>), b \in BOOLEAN,
      ss \in { <<>>, <<SubOf(2, 2, 1)>> } }
  \cup
  { Job(<<File(V(0, 0), "endless")>>, <<Pad(1, 1)>>, <<ch>>, cs, <<>>, <<w>>) :
      ch \in Bounded(1, <<1>>) \cup {Chain("pass", 1, <<1>>), Chain("loop", 1, <<1>>)},
      cs \in { <<>>, <<CopyOf(1, 1, 1, FALSE)>>, <<CopyOf(1, 1, 1, TRUE)>> }, w \in {Dur(2), End(3)} }

AllJobs == Encodes \cup Tees \cup Remuxes \cup Splits \cup Joins \cup Endings

\* What the theorems of ProcessProofs ask of a job, which all of these meet: an
\* invariant of the run, if process.cfg is given it.
Regular == FramesRegular /\ LoopsBounded /\ StartsInTime /\ StartTogether

\* The jobs of the runs that find a violation.
SpeedJobs == { Job(<<File(V(0, 9), "eof")>>, <<Pad(1, 1)>>, <<Chain("speed", 1, <<1>>)>>, <<>>, <<>>, <<Dur(4)>>) }
LateJobs == { Job(<<File(V(9, 12), "eof")>>, <<>>, <<>>, <<CopyOf(1, 1, 1, FALSE)>>, <<>>, <<Dur(2)>>) }
EarlyJobs == SpeedJobs \cup LateJobs
PileJobs == { Job(<<File(AV(0, 5), "eof")>>, <<Pad(1, 1)>>, <<Chain("pass", 1, <<1>>)>>,
                  <<CopyOf(1, 2, 2, FALSE)>>, <<>>, <<Dur(1), Unbounded>>) }
PastJobs == { Job(<<File(V(0, 6), "eof"), File(V(0, 2), "eof")>>, <<>>, <<>>,
                  <<CopyOf(1, 1, 1, FALSE), CopyOf(2, 1, 2, FALSE)>>, <<>>, <<Dur(2), Unbounded>>) }
=============================================================================
