------------------------------- MODULE Process -------------------------------
(***************************************************************************)
(* The `process` job once its outputs have their headers: the demux loop,  *)
(* the graph lane (decode, filter, encode), the copy lane and the subtitle *)
(* lane, the final drains, the trailers and the exit code                  *)
(* (src/src/process.c, op_process from its read loop on).                  *)
(*                                                                         *)
(* libav itself is external and modelled by what process.c sees of it.  A  *)
(* decoder, an encoder, a bitstream filter or a subtitle decoder holds     *)
(* back up to Lag units until it is flushed.  The filter graph is one      *)
(* chain per sink, a function from the frames its sources accepted to the  *)
(* frames it has ready.  A packet, frame or event is its time; times are   *)
(* whole units of one time base.                                           *)
(***************************************************************************)
EXTENDS Integers, Sequences, FiniteSets, Filters

CONSTANTS
  Jobs,       \* the jobs run: see JobType
  Lag,        \* 0 or 1: how many units a codec or filter holds back
  Margin,     \* the second added to an input's cutoff
  MaxFaults,  \* bound: libav calls that fail
  MaxReads    \* bound: packets read from an input that has no end

None    == -1
Forever == -1        \* INT64_MAX, no window

\* What a job is.  A chain takes its sources one after the other (the concat
\* filter) and passes what they give ("pass"), its first n frames ("trim"), its
\* first frame for ever ("loop"), or everything at double speed ("speed").
\* `tidy` says whether the end of a trim reaches its source pad.
PktType   == [st : 1..2, t : Nat]
InputType == [pkts : Seq(PktType), end : {"eof", "error", "ioeof", "endless"},
              seek : Nat \cup {None}, accurate : BOOLEAN]
ChainType == [out : Nat \ {0}, srcs : Seq(Nat \ {0}), kind : {"pass", "trim", "loop", "speed"},
              n : Nat, tidy : BOOLEAN]
PadType   == [in : Nat \ {0}, st : 1..2]
CopyType  == [in : Nat \ {0}, st : 1..2, out : Nat \ {0}, bsf : BOOLEAN]
SubType   == [in : Nat \ {0}, st : 1..2, out : Nat \ {0}]
OutType   == [dur : Nat, end : Nat, copyTs : BOOLEAN]
JobType   == [inputs : Seq(InputType), gins : Seq(PadType), gouts : Seq(ChainType),
              cpys : Seq(CopyType), subs : Seq(SubType), outs : Seq(OutType)]

\* What an output is given: the lane, which of its encoders or streams, the time.
UnitType == [lane : {"enc", "cpy", "sub"}, n : Nat, t : Int]

\* What the set-up of a job has made sure of by the time the loop starts: there is
\* an input and an output, and every pad, chain and stream refers to what the job has.
WellFormed(j) ==
  /\ j.inputs # <<>> /\ j.outs # <<>>
  /\ \A i \in DOMAIN j.inputs : j.inputs[i].end = "endless" => j.inputs[i].pkts # <<>>
  /\ \A g \in DOMAIN j.gins : j.gins[g].in \in DOMAIN j.inputs
  /\ \A s \in DOMAIN j.gouts :
       /\ j.gouts[s].out \in DOMAIN j.outs /\ Len(j.gouts[s].srcs) \in 1..2
       /\ \A n \in DOMAIN j.gouts[s].srcs : j.gouts[s].srcs[n] \in DOMAIN j.gins
  /\ \A c \in DOMAIN j.cpys : j.cpys[c].in \in DOMAIN j.inputs /\ j.cpys[c].out \in DOMAIN j.outs
  /\ \A s \in DOMAIN j.subs : j.subs[s].in \in DOMAIN j.inputs /\ j.subs[s].out \in DOMAIN j.outs

ASSUME ProcessAssumption ==
  /\ Lag \in 0..1 /\ Margin \in Nat /\ MaxFaults \in Nat /\ MaxReads \in Nat
  /\ \A j \in Jobs : j \in JobType /\ WellFormed(j)

VARIABLES
  job,
  pc,       \* where op_process is
  in, pkt,  \* the input being read, and the packet in hand
  then,     \* where pull_sinks returns to
  k,        \* the sink, lane or output a loop is at
  next, eof,             \* per input: packets read, and eof[]
  dec, fed, closed, rebase0,  \* per graph input: held by the decoder, taken by
                         \* the buffersrc, closed, and gseek[].rebase
  taken, done, enc,      \* per graph output: frames taken, done, held by the encoder
  cpyRebase,             \* cpy_rebase_us, per input and output
  held, cue,             \* per copy and per subtitle stream: held by bsf, decoder
  muxed, trailer,        \* per output
  rc, faults             \* "ok" or "failed"; libav calls that failed so far

ctl      == <<pc, in, pkt, then, k>>
inVars   == <<next, eof>>
padVars  == <<dec, fed, closed, rebase0>>
sinkVars == <<taken, done, enc>>
laneVars == <<cpyRebase, held, cue>>
outVars  == <<muxed, trailer>>
vars     == <<job, ctl, inVars, padVars, sinkVars, laneVars, outVars, rc, faults>>

NoPkt == [st |-> 0, t |-> 0]

Init ==
  /\ job \in Jobs
  /\ pc = "read" /\ in = 1 /\ pkt = NoPkt /\ then = "none" /\ k = 1
  /\ next = [i \in DOMAIN job.inputs |-> 0] /\ eof = [i \in DOMAIN job.inputs |-> FALSE]
  /\ dec = [g \in DOMAIN job.gins |-> <<>>] /\ fed = dec
  /\ closed = [g \in DOMAIN job.gins |-> FALSE]
  /\ rebase0 = [g \in DOMAIN job.gins |-> None]
  /\ taken = [s \in DOMAIN job.gouts |-> 0] /\ done = [s \in DOMAIN job.gouts |-> FALSE]
  /\ enc = [s \in DOMAIN job.gouts |-> <<>>]
  /\ cpyRebase = [i \in DOMAIN job.inputs |-> [o \in DOMAIN job.outs |-> None]]
  /\ held = [c \in DOMAIN job.cpys |-> <<>>] /\ cue = [s \in DOMAIN job.subs |-> <<>>]
  /\ muxed = [o \in DOMAIN job.outs |-> <<>>]
  /\ trailer = [o \in DOMAIN job.outs |-> "none"]
  /\ rc = "ok" /\ faults = 0
-----------------------------------------------------------------------------
(* Windows *)

SeekBase(i) == IF job.inputs[i].seek = None THEN 0 ELSE job.inputs[i].seek

\* The first input that seeks decides.
job_seek_offset ==
  LET seeking == {i \in DOMAIN job.inputs : job.inputs[i].seek # None} IN
  IF seeking = {} THEN 0
  ELSE job.inputs[CHOOSE i \in seeking : \A j \in seeking : i <= j].seek

Within(t, cutoff) == cutoff = Forever \/ t < cutoff

\* What turns a sink's time into its output's.
Offset(o) == IF o.copyTs THEN job_seek_offset ELSE 0

\* Where an output stops, on its own timeline.
out_cutoff(o) ==
  IF o.dur > 0      THEN Offset(o) + o.dur
  ELSE IF o.end > 0 THEN o.end
  ELSE Forever

\* Where an output stops on an input's timeline, counted from base.
SourceCutoff(o, base) ==
  IF o.dur > 0      THEN base + o.dur
  ELSE IF o.end > 0 THEN (IF o.copyTs THEN 0 ELSE base) + o.end
  ELSE Forever

\* Past this an input is not worth reading: every output is taken to consume
\* every input.
in_cutoff(i) ==
  LET cuts == {SourceCutoff(job.outs[o], SeekBase(i)) : o \in DOMAIN job.outs} IN
  IF Forever \in cuts THEN Forever
  ELSE (CHOOSE c \in cuts : \A d \in cuts : d <= c) + Margin
-----------------------------------------------------------------------------
(* The filter graph *)

\* The second source's frames follow the first's once the first has ended.
Joined(a, b) == a \o [n \in DOMAIN b |-> b[n] + (IF a = <<>> THEN 0 ELSE a[Len(a)] + 1)]

Raw(s) ==
  LET srcs == job.gouts[s].srcs IN
  IF Len(srcs) = 1 THEN fed[srcs[1]]
  ELSE Joined(fed[srcs[1]], IF closed[srcs[1]] THEN fed[srcs[2]] ELSE <<>>)

\* What a chain makes of the frames it was given, and whether it repeats the
\* first for ever.
Chained(ch, raw) ==
  CASE ch.kind = "trim"  -> SubSeq(raw, 1, IF Len(raw) < ch.n THEN Len(raw) ELSE ch.n)
    [] ch.kind = "speed" -> [n \in DOMAIN raw |-> raw[n] \div 2]
    [] OTHER             -> raw

Endless(s) == job.gouts[s].kind = "loop" /\ Raw(s) # <<>>
HasFrame(s, n) == Endless(s) \/ n <= Len(Chained(job.gouts[s], Raw(s)))
FrameAt(s, n) == IF Endless(s) THEN Raw(s)[1] + n - 1 ELSE Chained(job.gouts[s], Raw(s))[n]

\* A trim ends at the first frame it does not want, any chain when its sources do.
Ended(s) ==
  LET ch == job.gouts[s] IN
  \/ \A i \in DOMAIN ch.srcs : closed[ch.srcs[i]]
  \/ ch.kind = "trim" /\ Len(Raw(s)) > ch.n

\* av_buffersrc_add_frame answers EOF: everything downstream has ended and said so.
Refuses(g) ==
  \A s \in DOMAIN job.gouts :
    (\E i \in DOMAIN job.gouts[s].srcs : job.gouts[s].srcs[i] = g) =>
       job.gouts[s].kind = "trim" /\ job.gouts[s].tidy /\ Ended(s)
-----------------------------------------------------------------------------
(* The lanes *)

\* A unit goes through something that holds back Lag of them: <<out, still held>>.
Through(heldBack, t) == IF Lag = 0 THEN <<<<t>>, <<>>>> ELSE <<heldBack, <<t>>>>

Units(lane, n, ts) == [i \in DOMAIN ts |-> [lane |-> lane, n |-> n, t |-> ts[i]]]
Muxed(o, lane, n, ts) == [muxed EXCEPT ![o] = @ \o Units(lane, n, ts)]

Kept(g, ts) ==
  LET f == job.inputs[job.gins[g].in] IN
  Only(ts, {t \in Int : f.seek # None /\ f.accurate => t >= f.seek})

\* push_frame, for the frames G[g] that the decoder of each pad g in DOMAIN G
\* gave: those before an accurate start are discarded, the rest zero-based on
\* the start or on the first frame, and dropped once the pad has closed.  The
\* pads in ending get their end of stream after it.
PushFrames(G, ending) ==
  LET f(g)    == job.inputs[job.gins[g].in]
      kept(g) == IF g \in DOMAIN G THEN Kept(g, G[g]) ELSE <<>>
      base(g) == IF rebase0[g] # None \/ f(g).seek = None \/ kept(g) = <<>> THEN rebase0[g]
                 ELSE IF f(g).accurate THEN f(g).seek ELSE kept(g)[1]
      shut(g) == closed[g] \/ (kept(g) # <<>> /\ Refuses(g))
  IN
  /\ rebase0' = [g \in DOMAIN fed |-> base(g)]
  /\ fed' = [g \in DOMAIN fed |->
               IF shut(g) THEN fed[g]
               ELSE fed[g] \o Shifted(kept(g), IF f(g).seek = None THEN 0 ELSE -base(g))]
  /\ closed' = [g \in DOMAIN fed |-> shut(g) \/ g \in ending]

\* drain_encoder: what the encoder gives back, offset, and cut at the window again.
EncOut(s, ts) ==
  LET o == job.outs[job.gouts[s].out]
  IN  Only(Shifted(ts, Offset(o)), {t \in Int : Within(t, out_cutoff(o))})

Encoded(s, ts) == Muxed(job.gouts[s].out, "enc", s, EncOut(s, ts))

\* A packet is cut at its output's window and moved to its timeline, both counted
\* from base.
CopyOut(c, base, ts) ==
  LET o == job.outs[job.cpys[c].out]
  IN  Shifted(Only(ts, {t \in Int : Within(t, SourceCutoff(o, base))}), IF o.copyTs THEN 0 ELSE -base)

\* write_copy_pkt: the pair's first packet anchors its window and its zero.
write_copy_pkt(c, ts) ==
  LET cp   == job.cpys[c]
      was  == cpyRebase[cp.in][cp.out]
      base == IF was # None \/ ts = <<>> THEN was ELSE ts[1]
  IN
  /\ cpyRebase' = [cpyRebase EXCEPT ![cp.in][cp.out] = base]
  /\ muxed' = Muxed(cp.out, "cpy", c, CopyOut(c, base, ts))

\* The window of a cue is anchored on the seek.  A cue takes no time here, so one
\* from before the seek is clipped to nothing and dropped.
SubOut(s, ts) ==
  LET o    == job.outs[job.subs[s].out]
      base == SeekBase(job.subs[s].in)
  IN  Shifted(Only(ts, {t \in Int : base <= t /\ Within(t, SourceCutoff(o, base))}),
              IF o.copyTs THEN 0 ELSE -base)

write_sub_pkt(s, ts) == muxed' = Muxed(job.subs[s].out, "sub", s, SubOut(s, ts))
-----------------------------------------------------------------------------
(* The demux loop *)

Goto(p) == pc' = p /\ k' = 1

\* Mutant: the round of the inputs does not start over.
GoOnUnwrapped == in' = in + 1

\* The loop goes on to the next input, round and round until all have ended.
NextInput == in' = (in % Len(job.inputs)) + 1

\* Some call of libav fails, and the job is abandoned where it stands.  Left out are
\* the failures a caller takes for an end: AVERROR_EOF, and in copy_one also EAGAIN,
\* from a write behind a bitstream filter (1528-1532, 1565-1567); and what the drain of
\* a finished sink returns, of which nothing is lost (879).
CallFails ==
  /\ pc \in {"read", "flushsub", "pull", "copy", "sub", "drain", "bsf"}
  /\ faults < MaxFaults
  /\ faults' = faults + 1 /\ rc' = "failed"
  /\ pc' = "end"
  /\ UNCHANGED <<job, in, pkt, then, k, inVars, padVars, sinkVars, laneVars, outVars>>

\* Mutant: an input is spent once the graph is, whoever copies it.
SpentWithTheGraph(i) ==
  \/ job.gouts # <<>> /\ \A s \in DOMAIN job.gouts : done[s]
  \/ \A g \in DOMAIN job.gins : job.gins[g].in = i => closed[g]

\* input_is_spent: nothing downstream can take another packet of it.  Copies and
\* subtitles never close.
input_is_spent(i) ==
  /\ \/ job.gouts # <<>> /\ \A s \in DOMAIN job.gouts : done[s]
     \/ \A g \in DOMAIN job.gins : job.gins[g].in = i => closed[g]
  /\ \A c \in DOMAIN job.cpys : job.cpys[c].in # i
  /\ \A s \in DOMAIN job.subs : job.subs[s].in # i

Input(i) == job.inputs[i]
More(i) == next[i] < Len(Input(i).pkts) \/ Input(i).end = "endless"
PacketOf(i, n) ==
  LET p == Input(i).pkts IN
  IF n <= Len(p) THEN p[n] ELSE [p[Len(p)] EXCEPT !.t = @ + n - Len(p)]
Coming(i) == PacketOf(i, next[i] + 1)
PastWindows(i) == ~Within(Coming(i).t - 1, in_cutoff(i))

\* Mutant: the decoders are not flushed (ffmpeg-wasi#38).
EndInputUnflushed(i) ==
  LET mine == {g \in DOMAIN job.gins : job.gins[g].in = i} IN
  /\ eof' = [eof EXCEPT ![i] = TRUE]
  /\ PushFrames([g \in {} |-> <<>>], mine)
  /\ Goto("flushsub")
  /\ UNCHANGED <<job, in, pkt, then, next, dec, sinkVars, laneVars, outVars, rc, faults>>

\* The input is at its end: its decoders are flushed into the graph and its
\* pads closed, then its subtitle decoders.
EndInput(i) ==
  LET mine == {g \in DOMAIN job.gins : job.gins[g].in = i} IN
  /\ eof' = [eof EXCEPT ![i] = TRUE]
  /\ PushFrames([g \in mine |-> dec[g]], mine)
  /\ dec' = [g \in DOMAIN dec |-> IF g \in mine THEN <<>> ELSE dec[g]]
  /\ Goto("flushsub")
  /\ UNCHANGED <<job, in, pkt, then, next, sinkVars, laneVars, outVars, rc, faults>>

Skip ==
  /\ pc = "read" /\ eof[in]
  /\ IF \A i \in DOMAIN eof : eof[i]
       THEN pc' = "pull" /\ k' = 0 /\ then' = "drain" /\ UNCHANGED in
       ELSE NextInput /\ UNCHANGED <<pc, k, then>>
  /\ UNCHANGED <<job, pkt, inVars, padVars, sinkVars, laneVars, outVars, rc, faults>>

\* The input ends: nobody wants more of it, the next packet is past every
\* window, or the demuxer has no more.
StopInput ==
  /\ pc = "read" /\ ~eof[in]
  /\ \/ input_is_spent(in)
     \/ More(in) /\ PastWindows(in)
     \/ ~More(in) /\ Input(in).end = "eof"
  /\ EndInput(in)

\* Mutant: a failure to read is taken for the end of the input (ffmpeg-wasi#15).
ReadFailureIsEnd ==
  /\ pc = "read" /\ ~eof[in] /\ ~input_is_spent(in)
  /\ ~More(in) /\ Input(in).end \in {"error", "ioeof"}
  /\ EndInput(in)

\* Reading fails, or ends with an error on the input's I/O context: the job
\* fails, unless no read was attempted.
ReadFails ==
  /\ pc = "read" /\ ~eof[in] /\ ~input_is_spent(in)
  /\ ~More(in) /\ Input(in).end \in {"error", "ioeof"}
  /\ rc' = "failed" /\ pc' = "end"
  /\ UNCHANGED <<job, in, pkt, then, k, inVars, padVars, sinkVars, laneVars, outVars, faults>>

\* A packet is read and fed to the decoder of every pad that takes its stream.
Read ==
  /\ pc = "read" /\ ~eof[in] /\ ~input_is_spent(in)
  /\ More(in) /\ ~PastWindows(in)
  /\ Input(in).end = "endless" => next[in] < MaxReads
  /\ next' = [next EXCEPT ![in] = @ + 1]
  /\ pkt' = Coming(in)
  /\ LET mine == {g \in DOMAIN job.gins : job.gins[g] = [in |-> in, st |-> pkt'.st]} IN
     /\ PushFrames([g \in mine |-> Through(dec[g], pkt'.t)[1]], {})
     /\ dec' = [g \in DOMAIN dec |-> IF g \in mine THEN Through(dec[g], pkt'.t)[2] ELSE dec[g]]
  /\ pc' = "pull" /\ k' = 0 /\ then' = "copy"
  /\ UNCHANGED <<job, in, eof, sinkVars, laneVars, outVars, rc, faults>>

\* Mutant: subtitle decoders are not flushed (ffmpeg-wasi#39).
FlushSubNever ==
  /\ pc = "flushsub"
  /\ pc' = "pull" /\ k' = 0 /\ then' = "read"
  /\ UNCHANGED <<job, in, pkt, inVars, padVars, sinkVars, laneVars, outVars, rc, faults>>

\* The end of an input reaches its subtitle decoders one by one.
FlushSub ==
  /\ pc = "flushsub"
  /\ IF k > Len(job.subs)
       THEN pc' = "pull" /\ k' = 0 /\ then' = "read" /\ UNCHANGED <<muxed, cue>>
       ELSE /\ IF job.subs[k].in = in
                 THEN write_sub_pkt(k, cue[k]) /\ cue' = [cue EXCEPT ![k] = <<>>]
                 ELSE UNCHANGED <<muxed, cue>>
            /\ k' = k + 1 /\ UNCHANGED <<pc, then>>
  /\ UNCHANGED <<job, in, pkt, inVars, padVars, sinkVars, cpyRebase, held, trailer, rc, faults>>

\* copy_packet and sub_packet: the packet goes to every stream fed by its own.
Copy ==
  /\ pc = "copy"
  /\ IF k > Len(job.cpys) THEN Goto("sub") /\ UNCHANGED <<cpyRebase, held, muxed>>
     ELSE LET cp == job.cpys[k]
              io == IF cp.bsf THEN Through(held[k], pkt.t) ELSE <<<<pkt.t>>, <<>>>>
          IN
          /\ IF cp.in = in /\ cp.st = pkt.st
               THEN write_copy_pkt(k, io[1]) /\ held' = [held EXCEPT ![k] = io[2]]
               ELSE UNCHANGED <<cpyRebase, held, muxed>>
          /\ k' = k + 1 /\ UNCHANGED pc
  /\ UNCHANGED <<job, in, pkt, then, inVars, padVars, sinkVars, cue, trailer, rc, faults>>

Sub ==
  /\ pc = "sub"
  /\ IF k > Len(job.subs) THEN Goto("read") /\ NextInput /\ UNCHANGED <<cue, muxed>>
     ELSE /\ IF job.subs[k].in = in /\ job.subs[k].st = pkt.st
               THEN /\ write_sub_pkt(k, Through(cue[k], pkt.t)[1])
                    /\ cue' = [cue EXCEPT ![k] = Through(cue[k], pkt.t)[2]]
               ELSE UNCHANGED <<cue, muxed>>
          /\ k' = k + 1 /\ UNCHANGED <<pc, in>>
  /\ UNCHANGED <<job, pkt, then, inVars, padVars, sinkVars, cpyRebase, held, trailer, rc, faults>>
-----------------------------------------------------------------------------
(* pull_sinks *)

PullReturns == pc' = then /\ k' = 1 /\ (IF then = "read" THEN NextInput ELSE UNCHANGED in)

\* Nothing is pulled once every sink is done.
PullStarts ==
  /\ pc = "pull" /\ k = 0
  /\ IF job.gouts # <<>> /\ \A s \in DOMAIN job.gouts : done[s]
       THEN PullReturns
       ELSE k' = 1 /\ UNCHANGED <<pc, in>>
  /\ UNCHANGED <<job, pkt, then, inVars, padVars, sinkVars, laneVars, outVars, rc, faults>>

\* Mutant: a finished sink is skipped.
PullSkipsDone ==
  /\ pc = "pull" /\ k \in DOMAIN job.gouts /\ done[k]
  /\ k' = k + 1
  /\ UNCHANGED <<job, pc, in, pkt, then, inVars, padVars, sinkVars, laneVars, outVars, rc, faults>>

\* A finished sink is drained of what is queued for it, without asking for more.
PullDone ==
  /\ pc = "pull" /\ k \in DOMAIN job.gouts /\ done[k]
  /\ taken' = [taken EXCEPT ![k] = IF Endless(k) THEN @ ELSE Len(Chained(job.gouts[k], Raw(k)))]
  /\ k' = k + 1
  /\ UNCHANGED <<job, pc, in, pkt, then, inVars, padVars, done, enc, laneVars, outVars, rc, faults>>

\* A live sink gives a frame.  One past the window finishes the sink, any other
\* is encoded and the sink is asked again.
PullFrame ==
  /\ pc = "pull" /\ k \in DOMAIN job.gouts /\ ~done[k] /\ HasFrame(k, taken[k] + 1)
  /\ taken' = [taken EXCEPT ![k] = @ + 1]
  /\ LET t == FrameAt(k, taken[k] + 1)
         o == job.outs[job.gouts[k].out]
     IN
     IF ~Within(t + Offset(o), out_cutoff(o))
       THEN /\ done' = [done EXCEPT ![k] = TRUE] /\ k' = k + 1
            /\ UNCHANGED <<enc, muxed>>
       ELSE /\ muxed' = Encoded(k, Through(enc[k], t)[1])
            /\ enc' = [enc EXCEPT ![k] = Through(enc[k], t)[2]]
            /\ UNCHANGED <<done, k>>
  /\ UNCHANGED <<job, pc, in, pkt, then, inVars, padVars, laneVars, trailer, rc, faults>>

\* Mutant: a sink's EOF is not remembered (ffmpeg-wasi#58).
PullForgetsEOF ==
  /\ pc = "pull" /\ k \in DOMAIN job.gouts /\ ~done[k] /\ ~HasFrame(k, taken[k] + 1)
  /\ k' = k + 1
  /\ UNCHANGED <<job, pc, in, pkt, then, inVars, padVars, sinkVars, laneVars, outVars, rc, faults>>

\* It has none: EAGAIN, or EOF when the chain has ended, which is for good.
PullNothing ==
  /\ pc = "pull" /\ k \in DOMAIN job.gouts /\ ~done[k] /\ ~HasFrame(k, taken[k] + 1)
  /\ done' = [done EXCEPT ![k] = Ended(k)]
  /\ k' = k + 1
  /\ UNCHANGED <<job, pc, in, pkt, then, inVars, padVars, taken, enc, laneVars, outVars, rc, faults>>

PullEnds ==
  /\ pc = "pull" /\ k > Len(job.gouts)
  /\ PullReturns
  /\ UNCHANGED <<job, pkt, then, inVars, padVars, sinkVars, laneVars, outVars, rc, faults>>

Pull == PullStarts \/ PullDone \/ PullFrame \/ PullNothing \/ PullEnds
-----------------------------------------------------------------------------
(* The end of the job *)

\* Every encoder is flushed, then every bitstream filter.
Drain ==
  /\ pc = "drain"
  /\ IF k > Len(job.gouts) THEN Goto("bsf") /\ UNCHANGED <<muxed, enc>>
     ELSE /\ muxed' = Encoded(k, enc[k])
          /\ enc' = [enc EXCEPT ![k] = <<>>]
          /\ k' = k + 1 /\ UNCHANGED pc
  /\ UNCHANGED <<job, in, pkt, then, inVars, padVars, taken, done, laneVars, trailer, rc, faults>>

flush_copy_bsfs ==
  /\ pc = "bsf"
  /\ IF k > Len(job.cpys) THEN Goto("trailer") /\ UNCHANGED <<cpyRebase, held, muxed>>
     ELSE /\ IF job.cpys[k].bsf
               THEN write_copy_pkt(k, held[k]) /\ held' = [held EXCEPT ![k] = <<>>]
               ELSE UNCHANGED <<cpyRebase, held, muxed>>
          /\ k' = k + 1 /\ UNCHANGED pc
  /\ UNCHANGED <<job, in, pkt, then, inVars, padVars, sinkVars, cue, trailer, rc, faults>>

\* Every output gets its trailer, even after one has failed.
WriteTrailer ==
  /\ pc = "trailer"
  /\ IF k > Len(job.outs) THEN pc' = "end" /\ UNCHANGED <<k, trailer, rc, faults>>
     ELSE \/ /\ trailer' = [trailer EXCEPT ![k] = "written"]
             /\ k' = k + 1 /\ UNCHANGED <<pc, rc, faults>>
          \/ /\ faults < MaxFaults /\ faults' = faults + 1
             /\ trailer' = [trailer EXCEPT ![k] = "failed"]
             /\ rc' = "failed"
             /\ k' = k + 1 /\ UNCHANGED pc
  /\ UNCHANGED <<job, in, pkt, then, inVars, padVars, sinkVars, laneVars, muxed>>

Work ==
  \/ Skip \/ StopInput \/ ReadFails \/ Read \/ FlushSub \/ Copy \/ Sub
  \/ Pull \/ Drain \/ flush_copy_bsfs \/ WriteTrailer

Next == Work \/ CallFails

Spec == Init /\ [][Next]_vars

\* op_process is one thread that never waits for anything but its own calls.  No
\* call need fail.
FairSpec == Spec /\ WF_vars(Work)
-----------------------------------------------------------------------------
(* Properties *)

\* The exit code: 0 when no step failed.
Succeeded == pc = "end" /\ rc = "ok"

\* Every variable keeps its type.
TypeOK ==
  /\ job \in JobType
  /\ pc \in {"read", "flushsub", "pull", "copy", "sub", "drain", "bsf", "trailer", "end"}
  /\ then \in {"none", "read", "copy", "drain"}
  /\ in \in DOMAIN job.inputs /\ k \in Nat /\ pkt \in [st : 0..2, t : Nat]
  /\ next \in [DOMAIN job.inputs -> Nat] /\ eof \in [DOMAIN job.inputs -> BOOLEAN]
  /\ dec \in [DOMAIN job.gins -> Seq(Nat)] /\ fed \in [DOMAIN job.gins -> Seq(Int)]
  /\ \A g \in DOMAIN job.gins : Len(dec[g]) <= Lag
  /\ closed \in [DOMAIN job.gins -> BOOLEAN]
  /\ rebase0 \in [DOMAIN job.gins -> Nat \cup {None}]
  /\ taken \in [DOMAIN job.gouts -> Nat] /\ done \in [DOMAIN job.gouts -> BOOLEAN]
  /\ enc \in [DOMAIN job.gouts -> Seq(Int)] /\ \A s \in DOMAIN job.gouts : Len(enc[s]) <= Lag
  /\ cpyRebase \in [DOMAIN job.inputs -> [DOMAIN job.outs -> Nat \cup {None}]]
  /\ held \in [DOMAIN job.cpys -> Seq(Nat)] /\ \A c \in DOMAIN job.cpys : Len(held[c]) <= Lag
  /\ cue \in [DOMAIN job.subs -> Seq(Nat)] /\ \A s \in DOMAIN job.subs : Len(cue[s]) <= Lag
  /\ muxed \in [DOMAIN job.outs -> Seq(UnitType)]
  /\ trailer \in [DOMAIN job.outs -> {"none", "written", "failed"}]
  /\ rc \in {"ok", "failed"} /\ faults \in 0..MaxFaults

\* What a job should produce, from the job alone: no lag, no cutoff on the input
\* side, no notion of a finished sink.
TimesOf(i, st, n) ==
  TimesIn(Only([m \in 1..n |-> PacketOf(i, m)], {x \in PktType : x.st = st}))

Final(i) == IF Input(i).end = "endless" THEN MaxReads ELSE Len(Input(i).pkts)
Times(i, st) == TimesOf(i, st, Final(i))

WholePad(g) ==
  LET f  == Input(job.gins[g].in)
      ts == Kept(g, Times(job.gins[g].in, job.gins[g].st))
      z  == IF f.seek = None \/ ts = <<>> THEN 0 ELSE IF f.accurate THEN f.seek ELSE ts[1]
  IN  Shifted(ts, -z)

WholeChain(s) ==
  LET ch   == job.gouts[s]
      raw  == IF Len(ch.srcs) = 1 THEN WholePad(ch.srcs[1])
              ELSE Joined(WholePad(ch.srcs[1]), WholePad(ch.srcs[2]))
  IN  EncOut(s, IF ch.kind = "loop" /\ raw # <<>> THEN [n \in 1..MaxReads |-> raw[1] + n - 1]
                ELSE Chained(ch, raw))

\* The first of what is copied from an input to an output is its zero there.
Starts(i, o) ==
  {Times(i, job.cpys[c].st)[1] :
     c \in {d \in DOMAIN job.cpys : /\ job.cpys[d].in = i /\ job.cpys[d].out = o
                                    /\ Times(i, job.cpys[d].st) # <<>>}}
WholeCopy(c) ==
  LET cp   == job.cpys[c]
      base == CHOOSE t \in Starts(cp.in, cp.out) : \A u \in Starts(cp.in, cp.out) : t <= u
  IN  IF Times(cp.in, cp.st) = <<>> THEN <<>> ELSE CopyOut(c, base, Times(cp.in, cp.st))

WholeSub(s) == SubOut(s, Times(job.subs[s].in, job.subs[s].st))

Got(o, lane, n) == TimesIn(Only(muxed[o], {x \in UnitType : x.lane = lane /\ x.n = n}))

\* A job that succeeds has encoded every frame its windows have room for: none is
\* lost in a codec (ffmpeg-wasi#38), at a pad that closed, or to an input that was
\* stopped before its end.
FramesWhole ==
  Succeeded => \A s \in DOMAIN job.gouts : Got(job.gouts[s].out, "enc", s) = WholeChain(s)

\* And has copied every packet its windows have room for, the ones a bitstream
\* filter held back included (ffmpeg-wasi#28).
CopiesWhole ==
  Succeeded => \A c \in DOMAIN job.cpys : Got(job.cpys[c].out, "cpy", c) = WholeCopy(c)

\* And has written every cue, the one a decoder held back included
\* (ffmpeg-wasi#39).
CuesWhole ==
  Succeeded => \A s \in DOMAIN job.subs : Got(job.subs[s].out, "sub", s) = WholeSub(s)

\* The three lanes together: whatever is held back where, a job that succeeds has
\* written what its windows have room for (ffmpeg-wasi#28, #38, #39).
LanesWhole == FramesWhole /\ CopiesWhole /\ CuesWhole

\* A job succeeds only if no libav call failed (ffmpeg-wasi#28, #38), every output
\* has its trailer (ffmpeg-wasi#16), and an input that broke off rather than
\* ended (ffmpeg-wasi#15) was no loss: whatever it fed was bounded short of there.
SuccessIsHonest ==
  Succeeded =>
    /\ faults = 0
    /\ \A o \in DOMAIN job.outs : trailer[o] = "written"
    /\ \A i \in DOMAIN job.inputs :
         Input(i).end \in {"error", "ioeof"} /\ ~More(i) =>
           /\ \A c \in DOMAIN job.cpys : job.cpys[c].in # i
           /\ \A s \in DOMAIN job.subs : job.subs[s].in # i
           /\ \A s \in DOMAIN job.gouts :
                (\E n \in DOMAIN job.gouts[s].srcs : job.gins[job.gouts[s].srcs[n]].in = i) =>
                  job.gouts[s].kind = "trim" \/ out_cutoff(job.outs[job.gouts[s].out]) # Forever

Pending(s) == IF Endless(s) THEN 0 ELSE Len(Chained(job.gouts[s], Raw(s))) - taken[s]

\* While other sinks are being served, nothing is left queued for one that has
\* finished.  (A chain of two sources may give several frames at once when the
\* first ends; those its sink leaves are drained at the next pull.)
FinishedSinksDrained ==
  pc = "read" /\ (\E s \in DOMAIN done : ~done[s]) =>
    \A s \in DOMAIN done : done[s] /\ Len(job.gouts[s].srcs) = 1 => Pending(s) = 0

\* A finished sink never has frames queued for it: "finished, but NOT abandoned"
\* (process.c 868-874).
NothingPilesUp == pc = "read" => \A s \in DOMAIN done : done[s] => Pending(s) <= 1

Consumes(o, i) ==
  \/ \E c \in DOMAIN job.cpys : job.cpys[c].in = i /\ job.cpys[c].out = o
  \/ \E s \in DOMAIN job.subs : job.subs[s].in = i /\ job.subs[s].out = o
  \/ \E s \in DOMAIN job.gouts : job.gouts[s].out = o
       /\ \E n \in DOMAIN job.gouts[s].srcs : job.gins[job.gouts[s].srcs[n]].in = i

\* No packet is taken from an input once it is past the window of every output
\* that consumes the input: "an input whose packets have passed every consuming
\* output's window is EOF'd early" (process.c 2246-2248).
StopsPastWindows ==
  \A i \in DOMAIN job.inputs : next[i] > 0 =>
    \E o \in DOMAIN job.outs :
      Consumes(o, i) /\ Within(PacketOf(i, next[i]).t - Margin - 1, SourceCutoff(job.outs[o], SeekBase(i)))

\* Every job whose outputs are bounded ends, by a window, by the graph, or
\* because its inputs end -- even when an input or a chain has no end of its own
\* (ffmpeg-wasi#19, #58).
JobsEnd == <>(pc = "end")
=============================================================================
