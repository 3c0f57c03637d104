----------------------------- MODULE ProcessJobs -----------------------------
(***************************************************************************)
(* What ProcessProofs asks of a job for the reference of LanesWhole to be  *)
(* what the code writes.  Each condition is about the job alone.           *)
(***************************************************************************)
EXTENDS Process

\* The packets of an input come in the order of their times, but for Margin: none is
\* earlier, by more than that, than one read before it.
NearOrder ==
  \A i \in DOMAIN job.inputs : \A m, n \in DOMAIN Input(i).pkts :
    m <= n => Input(i).pkts[m].t <= Input(i).pkts[n].t + Margin

\* Counted from where a copy starts too, none is behind an earlier one by more than
\* Margin and the time the input was seeked past that start.
StartsInTime ==
  \A i \in DOMAIN job.inputs, o \in DOMAIN job.outs : \A b \in Starts(i, o) :
    \A m, n \in DOMAIN Input(i).pkts :
      m <= n => Input(i).pkts[m].t + b <= Input(i).pkts[n].t + SeekBase(i) + Margin

\* The streams copied from an input to an output start together.
StartTogether ==
  \A i \in DOMAIN job.inputs, o \in DOMAIN job.outs : \A a, b \in Starts(i, o) : a = b

\* No frame comes before an earlier one.
InOrder(ts) == \A m, n \in 1..Len(ts) : m <= n => ts[m] <= ts[n]

\* The sources of a chain: the nth, how many there are, and whether that is one.
Src(s, n) == job.gouts[s].srcs[n]
LastOf(s) == Len(job.gouts[s].srcs)
Single(s) == Len(job.gouts[s].srcs) = 1

\* A chain at double speed halves the time of a frame.
Pace(s, t) == IF job.gouts[s].kind = "speed" THEN t \div 2 ELSE t

\* A chain given raw has an nth frame.
HasIn(s, raw, n) ==
  LET ch == job.gouts[s] IN
  raw # <<>> /\ (ch.kind = "loop" \/ (n <= Len(raw) /\ (ch.kind = "trim" => n <= ch.n)))

\* And what that frame is.
FrameIn(s, raw, n) ==
  IF job.gouts[s].kind = "loop" THEN raw[1] + n - 1 ELSE Pace(s, raw[n])

\* What a chain should be given.
WholeRaw(s) ==
  IF Single(s) THEN WholePad(Src(s, 1)) ELSE Joined(WholePad(Src(s, 1)), WholePad(Src(s, 2)))

\* A frame at t, on its chain's clock, is past its output's window.
Past(s, t) ==
  LET o == job.outs[job.gouts[s].out] IN ~Within(t + Offset(o), out_cutoff(o))

\* The input of a pad; the zero of its clock once it has kept ts; and what the pad has
\* been given once its decoder has let go of ts.
FileOf(g) == Input(job.gins[g].in)
Zero(g, ts) ==
  IF FileOf(g).seek = None \/ ts = <<>> THEN 0 ELSE IF FileOf(g).accurate THEN FileOf(g).seek ELSE ts[1]
OnPad(g, ts) == Shifted(Kept(g, ts), -Zero(g, Kept(g, ts)))

\* Every pad should be given its frames in order.
FramesInOrder == \A g \in DOMAIN job.gins : InOrder(WholePad(g))

\* Where the window of output o starts counting in input i; and that no pad takes its zero from a
\* later time, so that a frame is never earlier in its window than its packet was.  A start that is
\* not accurate lands at or before the one asked for.
ZeroBound(o, i) ==
  IF job.outs[o].copyTs /\ job.outs[o].dur = 0 THEN job_seek_offset ELSE SeekBase(i)
PadsStartInTime ==
  \A s \in DOMAIN job.gouts : \A n \in DOMAIN job.gouts[s].srcs :
    LET g == Src(s, n)
        i == job.gins[g].in
    IN  Zero(g, Kept(g, Times(i, job.gins[g].st))) <= ZeroBound(job.gouts[s].out, i)

\* The cutoff of an input knows packets, not what a chain makes of them.  A source whose frames are
\* halved in time, or that another source follows, has given a frame past its window by the time its
\* input is past every window.
Reaches(s, f) == \E q \in DOMAIN f : Past(s, Pace(s, f[q]))
SourcesReach ==
  \A s \in DOMAIN job.gouts : \A n \in DOMAIN job.gouts[s].srcs :
    n < LastOf(s) \/ job.gouts[s].kind = "speed" =>
      LET g == Src(s, n)
          i == job.gins[g].in
      IN  \A m \in 0..Final(i) :
            m < Final(i) /\ ~Within(PacketOf(i, m + 1).t - 1, in_cutoff(i)) =>
              Reaches(s, OnPad(g, TimesOf(i, job.gins[g].st, m)))

\* A loop is bounded by its window, within the reads that are modelled, or not at all.
LoopsBounded ==
  \A s \in DOMAIN job.gouts : job.gouts[s].kind = "loop" /\ WholeRaw(s) # <<>> =>
    \/ out_cutoff(job.outs[job.gouts[s].out]) = Forever
    \/ MaxReads > 0 /\ Past(s, FrameIn(s, WholeRaw(s), MaxReads))

\* The job has what it takes for an early end of an input to cost no frame.
FramesRegular == NearOrder /\ FramesInOrder /\ PadsStartInTime /\ SourcesReach
==============================================================================
