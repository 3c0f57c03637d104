------------------------------- MODULE Timeline -------------------------------
(***************************************************************************)
(* Where the three lanes of a `process` job put a unit of one input on the *)
(* timeline of one output (src/src/process.c): push_frame and              *)
(* drain_encoder for what is encoded, write_copy_pkt for what is copied,   *)
(* write_sub_pkt for subtitles, and copy_chapters for the chapters in the  *)
(* header.  Each has its own zero and its own window.  Packets come as the *)
(* demuxer gives them from where it landed, in decode order, with a        *)
(* presentation time, a decode time, either or                             *)
(* neither.  The graph passes frames on as they are; a decoder keeps       *)
(* Reorder of them to put them in order.  Times are whole units of one     *)
(* time base; Process has the lanes' order, ends and failures.             *)
(***************************************************************************)
EXTENDS Integers, Sequences, FiniteSets, FiniteSetsExt, Functions, Filters

CONSTANTS
  Jobs,       \* the jobs run: see JobType
  Reorder,    \* frames a decoder keeps back
  None,       \* AV_NOPTS_VALUE
  Forever     \* INT64_MAX: no window

Time   == Int
PacketType == [st : {"v", "a", "s"}, pts : Time, dts : Time, len : Nat]
ChapterType == [from : Nat, to : Nat]
JobType    == [chapters : Seq(ChapterType), src : Seq(PacketType), seek : Nat \cup {None}, accurate : BOOLEAN,
               pads : SUBSET {"v", "a"}, cpys : SUBSET {"v", "a"}, sub : BOOLEAN,
               dur : Nat, end : Nat, copyTs : BOOLEAN]

\* What a muxer is handed: by which lane, of which stream, the unit's time in the
\* source, its length, the packet it came in, and its time on the output.
OutType == [lane : {"enc", "cpy", "sub", "chapter"}, st : {"v", "a", "s", "c"}, src : Time, len : Nat,
            n : Nat, at : Time]

ASSUME TimelineAssumption ==
  /\ Reorder \in Nat /\ None \in Int \ Nat /\ Forever \in Nat
  /\ \A j \in Jobs :
       /\ j \in JobType
       \* an accurate seek cannot feed a copy: op_process refuses the job
       /\ j.accurate => j.cpys = {} /\ j.seek # None

VARIABLES
  job,
  headed,      \* the header, with the chapters, is written
  next,        \* packets read
  flushed,     \* the decoders have been
  held,        \* per stream: the frames its decoder keeps
  rebase,      \* gseek[].rebase of each pad
  cpy_rebase,  \* cpy_rebase_us of the input and the output
  out          \* what was handed to the muxer: which packet, by which lane, when, how long

vars == <<job, headed, next, flushed, held, rebase, cpy_rebase, out>>
-----------------------------------------------------------------------------
(* Windows *)

seek0 == IF job.seek = None THEN 0 ELSE job.seek

\* Where the output stops, on a timeline whose zero is base.
Cutoff(base, ending) ==
  IF job.dur > 0      THEN base + job.dur
  ELSE IF job.end > 0 THEN ending + job.end
  ELSE Forever

SourceCutoff(base) == Cutoff(base, IF job.copyTs THEN 0 ELSE base)
out_cutoff == Cutoff(IF job.copyTs THEN seek0 ELSE 0, 0)
-----------------------------------------------------------------------------
(* The graph lane *)

\* Mutant: an accurate start is zero-based on the first frame as a fast one is.
ZeroOfFirst(s, t) == IF rebase[s] # None THEN rebase[s] ELSE t

\* The pad's zero is the start asked for, or the first frame that arrives.
Zero(s, t) ==
  IF rebase[s] # None THEN rebase[s] ELSE IF job.accurate THEN job.seek ELSE t

\* An accurate seek decodes what is before its start, and discards it.
Discarded(t) == job.accurate /\ t < job.seek

\* push_frame, for the frame at t of pad s; then drain_encoder, which offsets it and
\* cuts it at the window.
NewRebase(s, t) == IF job.seek = None \/ Discarded(t) THEN rebase[s] ELSE Zero(s, t)

Encoded(s, t) ==
  LET at == t - (IF job.seek = None THEN 0 ELSE Zero(s, t)) + (IF job.copyTs THEN seek0 ELSE 0) IN
  IF Discarded(t) \/ at >= out_cutoff THEN <<>>
  ELSE <<[lane |-> "enc", st |-> s, src |-> t, len |-> 0, n |-> 0, at |-> at]>>
-----------------------------------------------------------------------------
(* The copy lane *)

\* Mutant: membership of the window is decided by presentation (ffmpeg-wasi#55).
DecideByPts(p) == IF p.pts # None THEN p.pts ELSE p.dts

\* What puts a packet in the window or not: its decode time.
Decides(p) == IF p.dts # None THEN p.dts ELSE p.pts

\* Mutant: the window starts at a decode time.
AnchorOnDts(p) == IF p.dts # None THEN p.dts ELSE p.pts

\* Where the window starts: a presentation time.
Anchor(p) == IF p.pts # None THEN p.pts ELSE p.dts

\* Mutant: every packet is its own zero.
NewCpyRebaseEach(p) == IF Decides(p) = None THEN cpy_rebase ELSE Anchor(p)

NewCpyRebase(p) ==
  IF Decides(p) = None \/ cpy_rebase # None THEN cpy_rebase ELSE Anchor(p)

Moved(t, by) == IF t = None THEN None ELSE t - by

\* Mutant: what the window leaves out is copied all the same.
write_copy_pkt_All(n, p) ==
  LET by == IF job.copyTs \/ Decides(p) = None THEN 0 ELSE NewCpyRebase(p) IN
  <<[lane |-> "cpy", st |-> p.st, src |-> Anchor(p), len |-> 0, n |-> n, at |-> Moved(Anchor(p), by)]>>

write_copy_pkt(n, p) ==
  LET base == NewCpyRebase(p)
      by   == IF job.copyTs \/ Decides(p) = None THEN 0 ELSE base
  IN
  IF Decides(p) # None /\ Decides(p) >= SourceCutoff(base) THEN <<>>
  ELSE <<[lane |-> "cpy", st |-> p.st, src |-> Anchor(p), len |-> 0, n |-> n,
          at |-> Moved(Anchor(p), by)]>>
-----------------------------------------------------------------------------
(* The subtitle lane *)

\* A cue without a time begins at 0.
start_us(p) == IF p.pts = None THEN 0 ELSE p.pts

\* Where it begins on the output, unless it begins too early.
out_us(p) == start_us(p) - (IF job.copyTs THEN 0 ELSE seek0)

\* By how much: before the output's own zero, and only if not, with the source's
\* timestamps kept, before the start.
EarlyBy(p) ==
  IF out_us(p) < 0                           THEN -out_us(p)
  ELSE IF job.copyTs /\ start_us(p) < seek0  THEN seek0 - start_us(p)
  ELSE 0

\* Mutant: a cue from before the start is moved, not shortened (ffmpeg-wasi#22).
HeadKept(p, len) == len

\* What is left of a cue that begins too early.
HeadOff(p, len) == len - EarlyBy(p)

\* Mutant: only late cues are dropped, none is shortened (ffmpeg-wasi#22).
TailKept(p) == p.len

\* And of one that lasts past the window.
TailOff(p) ==
  IF start_us(p) + p.len > SourceCutoff(seek0) THEN SourceCutoff(seek0) - start_us(p) ELSE p.len

\* The cue as it is muxed.
Shortened(n, p) ==
  [lane |-> "sub", st |-> "s", src |-> start_us(p), len |-> HeadOff(p, TailOff(p)), n |-> n,
   at |-> out_us(p) + EarlyBy(p)]

\* Mutant: a cue clipped to nothing is still written.
write_sub_pkt_Empty(n, p) ==
  IF start_us(p) >= SourceCutoff(seek0) THEN <<>> ELSE <<Shortened(n, p)>>

write_sub_pkt(n, p) ==
  LET clipped == EarlyBy(p) > 0 \/ start_us(p) + p.len > SourceCutoff(seek0) IN
  IF start_us(p) >= SourceCutoff(seek0) \/ (clipped /\ HeadOff(p, TailOff(p)) <= 0) THEN <<>>
  ELSE <<Shortened(n, p)>>
-----------------------------------------------------------------------------
(* The chapters, written with the header *)

\* Mutant: chapters are carried as they are (ffmpeg-wasi#41).
ChapterVerbatim(c) ==
  [lane |-> "chapter", st |-> "c", src |-> c.from, len |-> c.to - c.from, n |-> 0, at |-> c.from]

Chapter(c) ==
  LET to   == IF c.to > SourceCutoff(seek0) THEN SourceCutoff(seek0) ELSE c.to
      from == IF c.from < seek0 THEN seek0 ELSE c.from
  IN  [lane |-> "chapter", st |-> "c", src |-> c.from, len |-> to - from, n |-> 0,
       at |-> from - (IF job.copyTs THEN 0 ELSE seek0)]

copy_chapters ==
  LET kept == Only(job.chapters, {c \in ChapterType : c.from < SourceCutoff(seek0) /\ c.to > seek0})
  IN  [i \in DOMAIN kept |-> Chapter(kept[i])]

Init ==
  /\ job \in Jobs
  /\ headed = FALSE /\ next = 0 /\ flushed = FALSE
  /\ held = [s \in {"v", "a"} |-> {}]
  /\ rebase = [s \in {"v", "a"} |-> None] /\ cpy_rebase = None
  /\ out = <<>>
-----------------------------------------------------------------------------
(* The header is written; then each packet goes to every lane of its stream. *)

WriteHeader ==
  /\ ~headed /\ headed' = TRUE
  /\ out' = copy_chapters
  /\ UNCHANGED <<job, next, flushed, held, rebase, cpy_rebase>>

\* A decoder that keeps the frames H gives the earliest when it keeps too many.
Gives(H) == Cardinality(H) > Reorder

Read ==
  /\ headed /\ next < Len(job.src)
  /\ LET n    == next + 1
         p    == job.src[n]
         H    == held[p.st] \cup {p.pts}
         pad  == p.st \in job.pads
         gave == pad /\ Gives(H)
     IN
     /\ next' = n
     /\ held' = IF pad THEN [held EXCEPT ![p.st] = IF gave THEN H \ {Min(H)} ELSE H] ELSE held
     /\ rebase' = IF gave THEN [rebase EXCEPT ![p.st] = NewRebase(p.st, Min(H))] ELSE rebase
     /\ cpy_rebase' = IF p.st \in job.cpys THEN NewCpyRebase(p) ELSE cpy_rebase
     /\ out' = out \o (IF gave THEN Encoded(p.st, Min(H)) ELSE <<>>)
                   \o (IF p.st \in job.cpys THEN write_copy_pkt(n, p) ELSE <<>>)
                   \o (IF p.st = "s" /\ job.sub THEN write_sub_pkt(n, p) ELSE <<>>)
  /\ UNCHANGED <<job, headed, flushed>>

\* At the end of the input the decoders give up what they keep, one after the
\* other, frame by frame.
Keeping == {s \in job.pads : held[s] # {}}

Flush ==
  /\ headed /\ next = Len(job.src) /\ ~flushed
  /\ \E s \in Keeping :
       /\ "v" \in Keeping => s = "v"
       /\ held' = [held EXCEPT ![s] = @ \ {Min(@)}]
       /\ rebase' = [rebase EXCEPT ![s] = NewRebase(s, Min(held[s]))]
       /\ out' = out \o Encoded(s, Min(held[s]))
  /\ UNCHANGED <<job, headed, next, flushed, cpy_rebase>>

Flushed ==
  /\ headed /\ next = Len(job.src) /\ ~flushed /\ Keeping = {}
  /\ flushed' = TRUE
  /\ UNCHANGED <<job, headed, next, held, rebase, cpy_rebase, out>>

Next == WriteHeader \/ Read \/ Flush \/ Flushed

Spec == Init /\ [][Next]_vars
-----------------------------------------------------------------------------
(* Properties *)

\* Every variable keeps its type.
TypeOK ==
  /\ job \in JobType /\ next \in 0..Len(job.src) /\ headed \in BOOLEAN /\ flushed \in BOOLEAN
  /\ held \in [{"v", "a"} -> SUBSET Time]
  /\ \A s \in {"v", "a"} : Cardinality(held[s]) <= Reorder
  /\ rebase \in [{"v", "a"} -> Time] /\ cpy_rebase \in Time
  /\ out \in Seq(OutType)

\* What the demuxer gives of a stream comes in decode order, and is decoded no later than
\* it is presented; a chapter ends after it begins, or at least no earlier.
DecodeOrder(j) ==
  \A m, n \in 1..Len(j.src) :
    /\ m < n /\ j.src[m].st = j.src[n].st
    /\ j.src[m].dts # None /\ j.src[n].dts # None
    => j.src[m].dts <= j.src[n].dts

DecodedFirst(j) ==
  \A n \in 1..Len(j.src) :
    j.src[n].dts # None /\ j.src[n].pts # None => j.src[n].dts <= j.src[n].pts

ChaptersLast(j)    == \A c \in Range(j.chapters) : c.from < c.to
ChaptersOrdered(j) == \A c \in Range(j.chapters) : c.from <= c.to

\* Where timestamps are kept and a start is asked for, no cue begins before 0, or
\* write_sub_pkt takes the wrong one of its two branches.
CuesFromZero(j) ==
  j.copyTs /\ j.seek \notin {None, 0} =>
    \A n \in 1..Len(j.src) : j.src[n].st = "s" => j.src[n].pts \in Nat \cup {None}

\* Where there are chapters, the window has something in it.
WindowOpens == job.chapters # <<>> => seek0 < SourceCutoff(seek0)

Seen == {n \in 1..next : job.src[n].st \in job.cpys}
Copied(n) == \E i \in DOMAIN out : out[i].lane = "cpy" /\ out[i].n = n

\* A copied packet that is kept has everything decoded before it: no reference it
\* may need was left out of the window (ffmpeg-wasi#55).
ReferencesKept ==
  \A m, n \in Seen :
    m < n /\ job.src[m].st = job.src[n].st /\ Copied(n) /\
    (\A k \in Seen : k <= n => job.src[k].dts # None)
      => Copied(m)

\* Where copying starts: the presentation time of the first packet that has a time.
Shown(n)  == IF job.src[n].pts # None THEN job.src[n].pts ELSE job.src[n].dts
Dated     == {n \in Seen : Shown(n) # None}
WindowEnd == SourceCutoff(Shown(Min(Dated)))

\* And nothing is missing from the window a caller asked for: every packet whose
\* presentation lies in it is kept, reordered or not (process.c 1433-1440).
WindowFilled ==
  \A n \in Dated : job.src[n].pts # None /\ Shown(n) < WindowEnd => Copied(n)

\* Nor is anything in it that comes after it: of what has a time, nothing is kept that
\* is decoded when the window has ended.
NothingPast ==
  \A n \in Dated :
    Copied(n) => (IF job.src[n].dts # None THEN job.src[n].dts ELSE job.src[n].pts) < WindowEnd

\* All three: the copy lane cuts neither too much nor too little (write_copy_pkt).
CopyCutRight == ReferencesKept /\ WindowFilled /\ NothingPast

\* How far the output's timeline is from the source's, at a unit of it.
Shift(x) == x.at - (IF x.lane \in {"sub", "chapter"} /\ x.src < seek0 THEN seek0 ELSE x.src)

\* The streams copied from one input keep their distance, whichever begins first:
\* the offset is "shared across the pair's streams so audio and video stay
\* aligned" (process.c 1408-1410).
CopiesAligned ==
  \A i, j \in DOMAIN out :
    out[i].lane = "cpy" /\ out[j].lane = "cpy" /\ None \notin {out[i].at, out[j].at} =>
      Shift(out[i]) = Shift(out[j])

\* From the beginning or from an exact start, frames and cues keep their distance:
\* the pads of the graph and the subtitle lane find the same zero on their own.
ExactStartsAligned ==
  job.seek = None \/ job.accurate =>
    \A i, j \in DOMAIN out :
      out[i].lane # "cpy" /\ out[j].lane # "cpy" => Shift(out[i]) = Shift(out[j])

\* Both: lanes that share a zero keep their distance on the output.
LanesAligned == CopiesAligned /\ ExactStartsAligned

\* What the window leaves of the source's [from, to), on the output's timeline.
Overlap(from, to) ==
  LET a == Max({from, seek0})
      b == Min({to, SourceCutoff(seek0)})
  IN  IF a < b \/ (from = to /\ a = b /\ from < SourceCutoff(seek0))
        THEN {[at |-> a - (IF job.copyTs THEN 0 ELSE seek0), len |-> b - a]}
        ELSE {}
Spans(X) == {[at |-> x.at, len |-> x.len] : x \in X}

\* A cue is shown exactly while it and the window overlap (ffmpeg-wasi#22).
CuesClipped ==
  \A n \in 1..next :
    job.sub /\ job.src[n].st = "s" =>
      Spans({x \in Range(out) : x.lane = "sub" /\ x.n = n}) =
        Overlap(start_us(job.src[n]), start_us(job.src[n]) + job.src[n].len)

\* "A chapter outside the window is dropped and one that straddles it is clipped"
\* (process.c 1880-1887).
ChaptersClipped ==
  headed =>
  Spans({x \in Range(out) : x.lane = "chapter"}) =
    UNION {Overlap(c.from, c.to) : c \in Range(job.chapters)}

\* Both: what has a duration loses exactly what lies outside the window.
SpansClipped == CuesClipped /\ ChaptersClipped

\* Whatever reaches one output from one input keeps its distance: "so transcoded
\* subtitles stay aligned with the seeked video/audio" (process.c 1693-1697).
OneClock == \A i, j \in DOMAIN out : Shift(out[i]) = Shift(out[j])

\* "Default `false` zero-bases the output" (docs/reference/job-spec.md:61).
ZeroBased == flushed /\ ~job.copyTs /\ out # <<>> => \E i \in DOMAIN out : out[i].at = 0

\* "`true` preserves source timestamps" (docs/reference/job-spec.md:61).
SourceTimesKept == job.copyTs => \A i \in DOMAIN out : Shift(out[i]) = 0
=============================================================================
