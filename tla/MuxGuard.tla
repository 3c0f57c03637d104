------------------------------- MODULE MuxGuard -------------------------------
(***************************************************************************)
(* What stands between the lanes of a `process` job and a muxer: pmux and  *)
(* mux_fixup_ts (src/src/process.c), for one output.  The lanes hand over  *)
(* packets with any timestamps, because media can hold any.  libavformat   *)
(* is external: it refuses a packet whose dts does not advance on the last *)
(* one it was given, or lies past the pts, and the job is abandoned then.  *)
(***************************************************************************)
EXTENDS Timestamps

CONSTANTS
  Streams,        \* the output's streams
  Type,           \* codec_type of each
  Formats,        \* the output's format: its flags, of those of Flags
  MaxPackets      \* bound: packets per stream

Types  == {"audio", "video", "subtitle", "data"}
Flags  == {"AVFMT_NOTIMESTAMPS", "AVFMT_TS_NONSTRICT"}
Packet == [pts : Ts, dts : Ts]

ASSUME MuxGuardAssumption ==
  /\ Type \in [Streams -> Types] /\ Formats \subseteq SUBSET Flags
  /\ MaxPackets \in Nat

VARIABLES
  flags,      \* the output's format
  last_dts,   \* per stream: the dts last handed over
  muxer,      \* per stream: the last dts the muxer was given, NOPTS before one
  failed,     \* the streams whose packet was refused: at most one
  handed, top      \* history, per stream: packets handed over, and the greatest dts among them

guardVars == <<flags, last_dts, muxer, failed, handed, top>>

GuardInit ==
  /\ flags \in Formats
  /\ last_dts = [s \in Streams |-> NOPTS] /\ muxer = [s \in Streams |-> NOPTS]
  /\ failed = {}
  /\ handed = [s \in Streams |-> 0] /\ top = [s \in Streams |-> NOPTS]
-----------------------------------------------------------------------------
NoTimestamps == "AVFMT_NOTIMESTAMPS" \in flags
Nonstrict    == "AVFMT_TS_NONSTRICT" \in flags

Timed(p) == p.dts # NOPTS /\ p.pts # NOPTS

\* A dts past the pts: both are guessed from the two and the earliest dts the
\* muxer would take.
Guess(last, p) ==
  LET m == median3(p.pts, p.dts, ts_add(last, 1)) IN
  IF Timed(p) /\ p.dts > p.pts THEN [pts |-> m, dts |-> m] ELSE p

Floor(last) == ts_add(last, IF Nonstrict THEN 0 ELSE 1)

\* Mutant: the pts is left where it was.
ClampDtsOnly(last, type, p) ==
  IF type # "data" /\ p.dts # NOPTS /\ last # NOPTS /\ p.dts < Floor(last)
    THEN [p EXCEPT !.dts = Floor(last)]
    ELSE p

\* Mutant: the dts follows the pts.
ClampToPts(last, type, p) ==
  IF type # "data" /\ p.dts # NOPTS /\ last # NOPTS /\ p.dts < Floor(last)
    THEN [pts |-> FFMAX(p.pts, Floor(last)), dts |-> FFMAX(p.pts, Floor(last))]
    ELSE p

\* A dts that does not advance is moved up to the first that does, with its pts.
Clamp(last, type, p) ==
  IF type # "data" /\ p.dts # NOPTS /\ last # NOPTS /\ p.dts < Floor(last)
    THEN [pts |-> IF p.pts >= p.dts THEN FFMAX(p.pts, Floor(last)) ELSE p.pts,
          dts |-> Floor(last)]
    ELSE p

\* How late a dts is, which decides whether the guard says that it moves it.
Lateness(last, type, p) ==
  LET g == Guess(last, p) IN
  IF type # "data" /\ g.dts # NOPTS /\ last # NOPTS /\ g.dts < Floor(last)
    THEN Floor(last) - g.dts
    ELSE 0

mux_fixup_ts(last, type, p) ==
  IF NoTimestamps THEN p ELSE Clamp(last, type, Guess(last, p))

\* libavformat's own test.
Refuses(s, p) ==
  /\ ~NoTimestamps
  /\ \/ Timed(p) /\ p.pts < p.dts
     \/ /\ p.dts # NOPTS /\ muxer[s] # NOPTS
        /\ IF Nonstrict THEN p.dts < muxer[s] ELSE p.dts <= muxer[s]

\* One packet of stream s goes to the muxer.
pmux(s, p) ==
  LET q == mux_fixup_ts(last_dts[s], Type[s], p) IN
  /\ failed = {} /\ handed[s] < MaxPackets /\ UNCHANGED flags
  /\ last_dts' = [last_dts EXCEPT ![s] = q.dts]
  /\ IF Refuses(s, q)
       THEN failed' = {s} /\ UNCHANGED muxer
       ELSE /\ muxer' = [muxer EXCEPT ![s] = IF q.dts = NOPTS THEN @ ELSE q.dts]
            /\ UNCHANGED failed
  /\ handed' = [handed EXCEPT ![s] = @ + 1]
  /\ top' = [top EXCEPT ![s] = FFMAX(@, p.dts)]

GuardNext == \E s \in Streams : \E p \in Packet : pmux(s, p)

GuardSpec == GuardInit /\ [][GuardNext]_guardVars
-----------------------------------------------------------------------------
(* Properties *)

\* Every variable keeps its type: no timestamp leaves the range of an integer.
GuardTypeOK ==
  /\ flags \in Formats
  /\ last_dts \in [Streams -> Ts] /\ muxer \in [Streams -> Ts]
  /\ failed \in SUBSET Streams
  /\ handed \in [Streams -> 0..MaxPackets] /\ top \in [Streams -> Ts]

\* Whatever timestamps media holds, the muxer refuses none of an audio, video or
\* subtitle stream, except at the top of the range, where nothing advances, and
\* after a packet without a dts, which makes the guard forget the one before it.
Excused(s) ==
  \/ Type[s] = "data"
  \/ last_dts[s] = MaxTs
  \/ last_dts[s] = NOPTS /\ muxer[s] # NOPTS
NeverRefused == [][\A s \in Streams : s \in failed' \ failed => Excused(s)]_guardVars

DriftPerPacket ==
  \A s \in Streams : last_dts[s] # NOPTS => last_dts[s] <= top[s] + handed[s]
NoNeedlessDrift ==
  Nonstrict \/ NoTimestamps => \A s \in Streams : last_dts[s] <= top[s]

\* The guard moves a dts no further than it must: what is handed over is never
\* more than a tick per packet past the latest dts the media asked for, however
\* long the media repeats itself or runs backwards (process.c 229-256), and never
\* past it in a format that takes a repeated dts, or no timestamps.
DriftBounded == DriftPerPacket /\ NoNeedlessDrift

\* No difference of two timestamps is formed that an integer does not hold: "the
\* undefined behaviour ts_add above exists to keep out of this file"
\* (process.c 229-232).
NothingOverflows ==
  [][\A s \in Streams : \A p \in Packet :
       ~NoTimestamps /\ pmux(s, p) => Lateness(last_dts[s], Type[s], p) \in Ts]_guardVars
=============================================================================
