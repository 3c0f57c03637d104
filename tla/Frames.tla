-------------------------------- MODULE Frames --------------------------------
(***************************************************************************)
(* The `frames` job: stills of one video, by time or by scene              *)
(* (src/src/frames.c).  grab_at seeks to the key frame before each target  *)
(* and decodes forward to it; grab_scene decodes the whole input through a *)
(* filter that picks.                                                      *)
(*                                                                         *)
(* libav is external.  The decoder keeps Lag frames until it is flushed.   *)
(* A graph passes everything, or selects some frames, or is the thumbnail  *)
(* filter, which keeps a batch and gives its best frame (here the first).  *)
(* A frame is its number in the video; packets of other streams, which     *)
(* both loops skip, are left out.                                          *)
(***************************************************************************)
EXTENDS Integers, Sequences, FiniteSets, Functions, Filters

CONSTANTS
  Jobs,                \* the jobs run: see JobType
  Lag,                 \* 0 or 1: frames the decoder keeps back
  FRAMES_MAX_TARGETS,
  MaxFaults            \* bound: libav and bridge calls that fail

None == -1

Selector == [times : Seq(Nat)] \cup [step : Nat] \cup [picks : SUBSET Nat] \cup [batch : Nat \ {0}]

\* times are those of the video's frames, in order, keys the numbers of its key
\* frames, dur what its header says; `silent` are calls that will fail and whose
\* failure the code takes for something else.
JobType ==
  [select : Selector, token : BOOLEAN, cap : Nat \ {0},
   times : Seq(Nat), keys : SUBSET Nat, dur : Nat \cup {None}, seekable : BOOLEAN,
   end : {"eof", "error", "ioeof"}, silent : SUBSET {"seek", "sink"}]

ASSUME FramesAssumption ==
  /\ Lag \in 0..1 /\ FRAMES_MAX_TARGETS \in Nat /\ MaxFaults \in Nat
  /\ \A j \in Jobs : j \in JobType /\ j.keys \subseteq DOMAIN j.times /\ (j.times # <<>> => 1 \in j.keys)

VARIABLES
  job,
  pc,        \* where op_frames is
  i,         \* the target at hand
  pos,       \* the packet read next
  dec,       \* frames in the decoder
  batch,     \* frames in the graph
  stills,    \* written: which frame, the time and the name recorded for it
  rc, faults

vars == <<job, pc, i, pos, dec, batch, stills, rc, faults>>

Init ==
  /\ job \in Jobs
  /\ pc = "select" /\ i = 1 /\ pos = 1 /\ dec = <<>> /\ batch = <<>> /\ stills = <<>>
  /\ rc = "ok" /\ faults = 0
-----------------------------------------------------------------------------
(* What is asked for *)

Has(field) == field \in DOMAIN job.select
Scene == Has("picks") \/ Has("batch")

Least(m, n) == IF m < n THEN m ELSE n

\* How many of the targets are kept.
Room == Least(job.cap, FRAMES_MAX_TARGETS)

\* A step goes on to the duration, or without end when it is not known.
Steps ==
  LET s == job.select.step IN
  [n \in 1 .. (IF job.dur = None THEN Room ELSE Least(Room, (job.dur + s - 1) \div s)) |-> (n - 1) * s]

Targets == IF Has("step") THEN Steps
           ELSE SubSeq(job.select.times, 1, Least(Room, Len(job.select.times)))

Expected == IF Scene THEN job.cap ELSE Len(Targets)

\* Mutant: a name without a number is taken for any number of stills.
RefusedNever == Has("step") /\ job.select.step = 0

\* A step must be positive, and a name without a number names one file.
Refused == (Has("step") /\ job.select.step = 0) \/ (~job.token /\ Expected > 1)

\* parse_select and the check on the name.
Select ==
  /\ pc = "select"
  /\ IF Refused THEN rc' = "failed" /\ pc' = "end"
     ELSE pc' = (IF Scene THEN "scene" ELSE "target") /\ UNCHANGED rc
  /\ UNCHANGED <<job, i, pos, dec, batch, stills, faults>>
-----------------------------------------------------------------------------
(* Decoding and writing *)

Final == Len(job.times)

\* The decoder takes a packet: <<the frames it gives, the frames it keeps>>.
Decode(n) == IF Lag = 0 THEN <<<<n>>, <<>>>> ELSE <<dec, <<n>>>>

\* write_frame: the still is named by its number, with the time it is told.
Still(f, t, n) == [frame |-> f, time |-> t, name |-> IF job.token THEN n ELSE None]

\* Mutant: one still too many.
FullLate == Len(stills) > job.cap
Full == Len(stills) >= job.cap

\* emit_one, for a frame that is decoded.  What the graph gives for it is written
\* with the time of the frame that went in.
emit_one(f) ==
  LET write(g) == stills' = Append(stills, Still(g, job.times[f], Len(stills))) IN
  IF Has("batch")
    THEN IF Len(batch) + 1 = job.select.batch
           THEN write(Append(batch, f)[1]) /\ batch' = <<>>
           ELSE batch' = Append(batch, f) /\ UNCHANGED stills
  ELSE IF Has("picks") /\ f \notin job.select.picks
    THEN UNCHANGED <<stills, batch>>
  ELSE write(f) /\ UNCHANGED batch

\* A call fails and the job with it.
CallFails ==
  /\ pc \in {"read", "scene", "flushdec", "flushgraph"} /\ faults < MaxFaults
  /\ faults' = faults + 1 /\ rc' = "failed" /\ pc' = "end"
  /\ UNCHANGED <<job, i, pos, dec, batch, stills>>
-----------------------------------------------------------------------------
(* grab_at *)

Target == Targets[i]

Landing ==
  LET before == {k \in job.keys : job.times[k] <= Target} IN
  IF before = {} THEN 1 ELSE CHOOSE k \in before : \A m \in before : m <= k

NextTarget == i' = i + 1 /\ pc' = "target"

\* Mutant: what the decoder keeps of the last target is left in it.
SeekUnflushed ==
  /\ pc = "target" /\ i <= Len(Targets) /\ ~Full
  /\ IF job.seekable /\ "seek" \notin job.silent
       THEN pos' = Landing /\ pc' = "read" /\ UNCHANGED i
       ELSE NextTarget /\ UNCHANGED pos
  /\ UNCHANGED <<job, dec, batch, stills, rc, faults>>

\* The demuxer goes to the key frame before the target, and the decoder forgets.
\* A target that cannot be sought is skipped.
Seek ==
  /\ pc = "target" /\ i <= Len(Targets) /\ ~Full
  /\ IF job.seekable /\ "seek" \notin job.silent
       THEN pos' = Landing /\ dec' = <<>> /\ pc' = "read" /\ UNCHANGED i
       ELSE NextTarget /\ UNCHANGED <<pos, dec>>
  /\ UNCHANGED <<job, batch, stills, rc, faults>>

TooEarly(f) == job.times[f] < Target

\* Decode forward to the first frame at or after the target, and write that one.
ReadForward ==
  /\ pc = "read" /\ pos <= Final
  /\ pos' = pos + 1
  /\ LET io == Decode(pos) IN
     /\ dec' = io[2]
     /\ IF io[1] = <<>> \/ TooEarly(io[1][1])
          THEN UNCHANGED <<pc, i, stills, batch>>
          ELSE emit_one(io[1][1]) /\ NextTarget
  /\ UNCHANGED <<job, rc, faults>>

\* Mutant: a failure to read is taken for the end (ffmpeg-wasi#20).
RunsOutQuietly ==
  /\ pc = "read" /\ pos > Final
  /\ NextTarget
  /\ UNCHANGED <<job, pos, dec, batch, stills, rc, faults>>

\* The input ends before the target: it is skipped.  Only an error that the
\* demuxer reports is a failure.
RunsOut ==
  /\ pc = "read" /\ pos > Final
  /\ IF job.end = "error" THEN rc' = "failed" /\ pc' = "end" /\ UNCHANGED i
     ELSE NextTarget /\ UNCHANGED rc
  /\ UNCHANGED <<job, pos, dec, batch, stills, faults>>

LastTarget ==
  /\ pc = "target" /\ (i > Len(Targets) \/ Full)
  /\ pc' = "end"
  /\ UNCHANGED <<job, i, pos, dec, batch, stills, rc, faults>>
-----------------------------------------------------------------------------
(* grab_scene *)

SceneRead ==
  /\ pc = "scene" /\ ~Full /\ pos <= Final
  /\ pos' = pos + 1
  /\ LET io == Decode(pos) IN
     /\ dec' = io[2]
     /\ IF io[1] = <<>> THEN UNCHANGED <<stills, batch>> ELSE emit_one(io[1][1])
  /\ UNCHANGED <<job, pc, i, rc, faults>>

\* Mutant: the decoder is not flushed.
SceneEndsUnflushed ==
  /\ pc = "scene" /\ (Full \/ pos > Final)
  /\ IF ~Full /\ job.end = "error" THEN rc' = "failed" /\ pc' = "end"
     ELSE pc' = "flushgraph" /\ UNCHANGED rc
  /\ UNCHANGED <<job, i, pos, dec, batch, stills, faults>>

SceneEnds ==
  /\ pc = "scene" /\ (Full \/ pos > Final)
  /\ IF ~Full /\ job.end = "error" THEN rc' = "failed" /\ pc' = "end"
     ELSE pc' = "flushdec" /\ UNCHANGED rc
  /\ UNCHANGED <<job, i, pos, dec, batch, stills, faults>>

\* The decoder is flushed, frame by frame, as long as there is room.
FlushDecoder ==
  /\ pc = "flushdec"
  /\ IF Full \/ dec = <<>>
       THEN pc' = "flushgraph" /\ UNCHANGED <<dec, stills, batch>>
       ELSE emit_one(dec[1]) /\ dec' = Tail(dec) /\ UNCHANGED pc
  /\ UNCHANGED <<job, i, pos, rc, faults>>

\* Then the graph, whose last pick has no time.  A sink that fails is taken for
\* one that has nothing more.
FlushGraph ==
  /\ pc = "flushgraph"
  /\ stills' = IF Full \/ batch = <<>> \/ "sink" \in job.silent THEN stills
               ELSE Append(stills, Still(batch[1], None, Len(stills)))
  /\ batch' = <<>>
  /\ pc' = "end"
  /\ UNCHANGED <<job, i, pos, dec, rc, faults>>

Next ==
  \/ Select \/ Seek \/ ReadForward \/ RunsOut \/ LastTarget
  \/ SceneRead \/ SceneEnds \/ FlushDecoder \/ FlushGraph \/ CallFails

Spec == Init /\ [][Next]_vars
-----------------------------------------------------------------------------
(* Properties *)

Succeeded == pc = "end" /\ rc = "ok"

\* Every variable keeps its type.
TypeOK ==
  /\ job \in JobType
  /\ pc \in {"select", "target", "read", "scene", "flushdec", "flushgraph", "end"}
  /\ i \in Nat \ {0} /\ pos \in 1 .. Final + 1
  /\ Len(dec) <= Lag /\ Range(dec) \subseteq 1..Final /\ Range(batch) \subseteq 1..Final
  /\ \A s \in Range(stills) : s.frame \in 1..Final /\ s.time \in Nat \cup {None}
  /\ Len(stills) <= job.cap
  /\ rc \in {"ok", "failed"} /\ faults \in 0..MaxFaults

Written == [n \in DOMAIN stills |-> stills[n].frame]

\* The frames at or after t, less the last `off`.
From(t, off) == {f \in 1 .. Final - off : job.times[f] >= t}
FirstFrom(t, off) == CHOOSE f \in From(t, off) : \A g \in From(t, off) : f <= g

\* What the targets ts are answered with: those that are not reached are left out.
AnswersTo(ts, off) ==
  LET answered == Only(ts, {t \in Nat : From(t, off) # {}})
  IN  [n \in DOMAIN answered |-> FirstFrom(answered[n], off)]
Answers(off) == AnswersTo(Targets, off)

\* A job that succeeds has, for every target the video reaches before its last
\* frames are in the decoder, the first frame at or after it, and nothing else.
StillsRight ==
  Succeeded /\ ~Scene => Written = (IF job.seekable THEN Answers(Lag) ELSE <<>>)

\* It has the first picks of the whole video, whatever decoder and graph keep back.
ScenesWhole ==
  Succeeded /\ Scene =>
    LET b     == job.select.batch
        all   == [n \in 1..Final |-> n]
        picks == IF Has("picks") THEN Only(all, job.select.picks)
                 ELSE [n \in 1 .. (Final + b - 1) \div b |-> (n - 1) * b + 1]
    IN  Written = SubSeq(picks, 1, Least(job.cap, Len(picks)))

\* Whichever way it selects, a job that succeeds has written the stills its
\* selection stands for (grab_at, grab_scene).
StillsWhole == StillsRight /\ ScenesWhole

\* Success means that no call failed, and that an input that broke off was read no
\* further than to where the last still was found (ffmpeg-wasi#20).
SuccessIsHonest ==
  Succeeded =>
    /\ faults = 0 /\ job.silent = {}
    /\ job.end # "eof" => Full \/ (~Scene /\ (job.seekable => Len(stills) = Len(Targets)))

\* No still overwrites another (ffmpeg-wasi#53).
NamesDiffer == \A m, n \in DOMAIN stills : m # n => stills[m].name # stills[n].name

\* Each target gets "the first frame >= target" (docs/reference/job-spec.md:234-235).
EveryTargetAnswered == Succeeded /\ ~Scene /\ job.seekable => Written = Answers(0)

\* A still is recorded "with its source timestamp" (frames.c 230-232).
TimesTrue == \A s \in Range(stills) : s.time \in {None, job.times[s.frame]}
=============================================================================
