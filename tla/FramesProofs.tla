----------------------------- MODULE FramesProofs -----------------------------
(***************************************************************************)
(* Proofs about Frames: its types, what a success means, the names of the  *)
(* stills, and that they are the ones the selection stands for.            *)
(***************************************************************************)
EXTENDS Frames, FilterProofs

-----------------------------------------------------------------------------
(* The job *)

JobOK == job \in JobType /\ job.keys \subseteq DOMAIN job.times

LEMMA LagFacts == Lag \in {0, 1} /\ Lag \in Nat
BY FramesAssumption

LEMMA JobFacts ==
  ASSUME JobOK
  PROVE  /\ job.times \in Seq(Nat) /\ Final \in Nat /\ DOMAIN job.times = 1..Final
         /\ job.keys \subseteq 1..Final /\ job.cap \in Nat \ {0} /\ job.dur \in Nat \cup {None}
         /\ job.token \in BOOLEAN /\ job.seekable \in BOOLEAN /\ job.end \in {"eof", "error", "ioeof"}
         /\ \A f \in 1..Final : job.times[f] \in Nat
BY DEF JobOK, JobType, Final

\* A selection is of one kind.
LEMMA SelectFacts ==
  ASSUME JobOK
  PROVE  \/ Has("times") /\ ~Has("step") /\ ~Scene /\ job.select.times \in Seq(Nat)
         \/ Has("step") /\ ~Scene /\ job.select.step \in Nat
         \/ Has("picks") /\ ~Has("batch") /\ Scene /\ job.select.picks \subseteq Nat
         \/ Has("batch") /\ ~Has("picks") /\ Scene /\ job.select.batch \in Nat \ {0}
<1>1. PICK s \in Selector : s = job.select
  BY DEF JobOK, JobType
<1>2. CASE s \in [times : Seq(Nat)]
  BY <1>1, <1>2 DEF Has, Scene
<1>3. CASE s \in [step : Nat]
  BY <1>1, <1>3 DEF Has, Scene
<1>4. CASE s \in [picks : SUBSET Nat]
  BY <1>1, <1>4 DEF Has, Scene
<1>5. CASE s \in [batch : Nat \ {0}]
  BY <1>1, <1>5 DEF Has, Scene
<1> QED BY <1>1, <1>2, <1>3, <1>4, <1>5 DEF Selector

\* The quotient that is no smaller.
LEMMA Ceiling ==
  ASSUME NEW d \in Nat, NEW s \in Nat \ {0}
  PROVE  (d + s - 1) \div s \in Nat
OBVIOUS

LEMMA RoomFacts == ASSUME JobOK PROVE Room \in Nat /\ Room <= job.cap
BY JobFacts, FramesAssumption DEF Room, Least

LEMMA TargetFacts ==
  ASSUME JobOK, ~Scene, ~Refused
  PROVE  Targets \in Seq(Nat) /\ Len(Targets) \in Nat /\ Len(Targets) <= Room
<1>1. CASE Has("times") /\ ~Has("step") /\ job.select.times \in Seq(Nat)
  <2> DEFINE n == Least(Room, Len(job.select.times))
  <2>1. n \in Nat /\ n <= Len(job.select.times) /\ n <= Room
    BY <1>1, RoomFacts DEF Least
  <2> HIDE DEF n
  <2>2. SubSeq(job.select.times, 1, n) \in Seq(Nat) /\ Len(SubSeq(job.select.times, 1, n)) = n
    BY <1>1, <2>1
  <2> QED BY <1>1, <2>1, <2>2 DEF Targets, n
<1>2. CASE Has("step") /\ job.select.step \in Nat
  <2> DEFINE s == job.select.step
             N == IF job.dur = None THEN Room ELSE Least(Room, (job.dur + s - 1) \div s)
  <2>1. s \in Nat \ {0}
    BY <1>2 DEF Refused
  <2>2. N \in Nat /\ N <= Room
    <3>1. job.dur # None => (job.dur + s - 1) \div s \in Nat
      BY <2>1, JobFacts, Ceiling
    <3>2. Room \in Nat
      BY RoomFacts
    <3> HIDE DEF s
    <3> QED BY <3>1, <3>2 DEF Least
  <2>3. Targets = [n \in 1..N |-> (n - 1) * s]
    BY <1>2 DEF Targets, Steps
  <2> HIDE DEF N, s
  <2>4. \A n \in 1..N : (n - 1) * s \in Nat
    BY <2>1
  <2> QED BY <2>2, <2>3, <2>4
<1> QED BY <1>1, <1>2, SelectFacts

\* A step leaves the job as it is, and what is derived from it.
LEMMA SameJob ==
  ASSUME UNCHANGED job
  PROVE  /\ (JobOK <=> JobOK') /\ UNCHANGED <<Final, Targets, Room>>
         /\ (Scene <=> Scene') /\ (Refused <=> Refused') /\ UNCHANGED Expected
BY DEF JobOK, JobType, Final, Targets, Steps, Room, Scene, Refused, Has, Expected

-----------------------------------------------------------------------------
(* Types *)

StillType(n) == [frame : 1..n, time : Nat \cup {None}, name : Nat \cup {None}]

FlowTypes ==
  /\ i \in Nat \ {0} /\ pos \in 1 .. Final + 1
  /\ dec = <<>> \/ (Lag = 1 /\ pos - 1 \in 1..Final /\ dec = <<pos - 1>>)
  /\ batch \in Seq(1..Final)
  /\ stills \in Seq(StillType(Final)) /\ Len(stills) <= job.cap

StageTypes ==
  /\ pc \in {"select", "target", "read", "scene", "flushdec", "flushgraph", "end"}
  /\ rc \in {"ok", "failed"} /\ faults \in 0..MaxFaults
  /\ pc = "read" => ~Full

TypeInv == JobOK /\ FlowTypes /\ StageTypes

LEMMA StillTyped ==
  ASSUME JobOK, NEW f \in 1..Final, NEW t \in Nat \cup {None}, NEW n \in Nat
  PROVE  Still(f, t, n) \in StillType(Final)
BY DEF Still, StillType

LEMMA Grown ==
  ASSUME NEW T, NEW s \in Seq(T), NEW x \in T
  PROVE  /\ Append(s, x) \in Seq(T) /\ Len(Append(s, x)) = Len(s) + 1 /\ Len(s) \in Nat
         /\ Append(s, x) # <<>> /\ Append(s, x)[Len(s) + 1] = x
         /\ \A k \in 1..Len(s) : Append(s, x)[k] = s[k]
OBVIOUS

LEMMA HeadIn ==
  ASSUME NEW T, NEW s \in Seq(T), s # <<>>
  PROVE  s[1] \in T /\ Len(s) \in Nat \ {0}
OBVIOUS

LEMMA RangeIn == ASSUME NEW T, NEW s \in Seq(T) PROVE Range(s) \subseteq T
BY DEF Range

\* What becomes of a frame that is decoded, by how the stills are selected.
LEMMA EmitCases ==
  ASSUME NEW f, emit_one(f)
  PROVE  \/ /\ Has("batch") /\ Len(batch) + 1 = job.select.batch /\ batch' = <<>>
            /\ stills' = Append(stills, Still(Append(batch, f)[1], job.times[f], Len(stills)))
         \/ /\ Has("batch") /\ Len(batch) + 1 # job.select.batch /\ batch' = Append(batch, f)
            /\ stills' = stills
         \/ ~Has("batch") /\ Has("picks") /\ f \notin job.select.picks /\ UNCHANGED <<stills, batch>>
         \/ /\ ~Has("batch") /\ (Has("picks") => f \in job.select.picks) /\ batch' = batch
            /\ stills' = Append(stills, Still(f, job.times[f], Len(stills)))
BY DEF emit_one

LEMMA EmitTypes ==
  ASSUME TypeInv, ~Full, NEW f \in 1..Final, emit_one(f)
  PROVE  /\ batch' \in Seq(1..Final) /\ stills' \in Seq(StillType(Final)) /\ Len(stills') <= job.cap
         /\ \/ stills' = stills
            \/ \E g \in 1..Final : stills' = Append(stills, Still(g, job.times[f], Len(stills)))
<1>1. /\ batch \in Seq(1..Final) /\ stills \in Seq(StillType(Final)) /\ Len(stills) \in Nat
      /\ Len(stills) < job.cap /\ job.cap \in Nat /\ job.times[f] \in Nat
  BY JobFacts DEF TypeInv, FlowTypes, Full
<1>2. Append(batch, f) \in Seq(1..Final) /\ Append(batch, f)[1] \in 1..Final
  <2>1. PICK T : T = 1..Final
    OBVIOUS
  <2>2. batch \in Seq(T) /\ f \in T
    BY <1>1, <2>1
  <2>3. Append(batch, f) \in Seq(T) /\ Append(batch, f) # <<>>
    BY <2>2, Grown
  <2>4. Append(batch, f)[1] \in T
    BY <2>3, HeadIn
  <2> QED BY <2>1, <2>3, <2>4
<1>3. ASSUME NEW g \in 1..Final
      PROVE  LET s == Append(stills, Still(g, job.times[f], Len(stills))) IN
             s \in Seq(StillType(Final)) /\ Len(s) <= job.cap
  <2>1. Still(g, job.times[f], Len(stills)) \in StillType(Final)
    BY <1>1, StillTyped DEF TypeInv
  <2>2. PICK x \in StillType(Final) : x = Still(g, job.times[f], Len(stills))
    BY <2>1
  <2> QED BY <1>1, <2>2, Grown
<1>4. PICK g \in 1..Final : g = Append(batch, f)[1]
  BY <1>2
<1>5. <<>> \in Seq(1..Final)
  OBVIOUS
<1>6. \/ stills' = stills /\ batch' \in {<<>>, batch, Append(batch, f)}
      \/ stills' = Append(stills, Still(g, job.times[f], Len(stills))) /\ batch' \in {<<>>, batch}
      \/ stills' = Append(stills, Still(f, job.times[f], Len(stills))) /\ batch' \in {<<>>, batch}
  BY <1>4, EmitCases
<1>7. batch' \in Seq(1..Final)
  BY <1>1, <1>2, <1>5, <1>6
<1>8. CASE stills' = stills
  BY <1>1, <1>7, <1>8
<1>9. CASE \E h \in 1..Final : stills' = Append(stills, Still(h, job.times[f], Len(stills)))
  BY <1>3, <1>7, <1>9
<1> QED BY <1>6, <1>8, <1>9

\* The decoder, whichever frame it gives.
LEMMA DecodeFacts ==
  ASSUME TypeInv, pos <= Final, pos' = pos + 1, dec' = Decode(pos)[2], UNCHANGED job
  PROVE  /\ pos' \in 1 .. Final + 1 /\ pos \in 1..Final
         /\ dec' = <<>> \/ (Lag = 1 /\ pos' - 1 \in 1..Final /\ dec' = <<pos' - 1>>)
         /\ Lag = 0 => Decode(pos)[1] = <<pos>> /\ dec' = <<>> /\ dec = <<>>
         /\ Lag = 1 => Decode(pos)[1] = dec /\ dec' = <<pos>>
         /\ Decode(pos)[1] # <<>> => Decode(pos)[1][1] \in 1..Final
<1>1. pos \in 1..Final /\ Final \in Nat
  BY JobFacts DEF TypeInv, FlowTypes
<1>2. CASE Lag = 0
  BY <1>1, <1>2 DEF TypeInv, FlowTypes, Decode
<1>3. CASE Lag = 1
  BY <1>1, <1>3 DEF TypeInv, FlowTypes, Decode
<1> QED BY <1>2, <1>3, LagFacts

LEMMA LandingTyped == ASSUME JobOK PROVE Landing \in 1 .. Final + 1
<1> DEFINE before == {k \in job.keys : job.times[k] <= Target}
<1>1. before \subseteq 1..Final /\ Final \in Nat
  BY JobFacts
<1>2. CASE before = {}
  BY <1>1, <1>2 DEF Landing
<1>3. CASE before # {}
  <2>1. Landing = CHOOSE k \in before : \A m \in before : m <= k
    BY <1>3 DEF Landing
  <2> HIDE DEF before
  <2>2. \E k \in before : \A m \in before : m <= k
    BY <1>1, <1>3, Greatest
  <2>3. Landing \in before
    BY <2>1, <2>2
  <2> QED BY <1>1, <2>3
<1> QED BY <1>2, <1>3

LEMMA SelectTypes == ASSUME TypeInv, Select PROVE TypeInv'
BY SameJob DEF Select, TypeInv, FlowTypes, StageTypes, Full

LEMMA SeekTypes == ASSUME TypeInv, Seek PROVE TypeInv'
<1>1. /\ pc = "target" /\ ~Full /\ UNCHANGED <<job, batch, stills, rc, faults>>
      /\ \/ pos' = Landing /\ dec' = <<>> /\ pc' = "read" /\ UNCHANGED i
         \/ i' = i + 1 /\ pc' = "target" /\ UNCHANGED <<pos, dec>>
  BY DEF Seek, NextTarget
<1> QED BY <1>1, SameJob, LandingTyped DEF TypeInv, FlowTypes, StageTypes, Full

LEMMA ReadForwardTypes == ASSUME TypeInv, ReadForward PROVE TypeInv'
<1>1. /\ pc = "read" /\ pos <= Final /\ pos' = pos + 1 /\ dec' = Decode(pos)[2]
      /\ UNCHANGED <<job, rc, faults>>
      /\ \/ UNCHANGED <<pc, i, stills, batch>>
         \/ Decode(pos)[1] # <<>> /\ emit_one(Decode(pos)[1][1]) /\ i' = i + 1 /\ pc' = "target"
  BY DEF ReadForward, NextTarget
<1>2. JobOK' /\ UNCHANGED Final /\ ~Full
  BY <1>1, SameJob DEF TypeInv, StageTypes
<1>3. /\ batch' \in Seq(1..Final) /\ stills' \in Seq(StillType(Final)) /\ Len(stills') <= job.cap
      /\ i' \in Nat \ {0} /\ (pc' = "read" => UNCHANGED stills) /\ pc' \in {"read", "target"}
  <2>1. CASE UNCHANGED <<pc, i, stills, batch>>
    BY <1>1, <2>1 DEF TypeInv, FlowTypes
  <2>2. CASE Decode(pos)[1] # <<>> /\ emit_one(Decode(pos)[1][1]) /\ i' = i + 1 /\ pc' = "target"
    <3>1. PICK f \in 1..Final : f = Decode(pos)[1][1]
      BY <1>1, <2>2, DecodeFacts
    <3> QED BY <1>2, <2>2, <3>1, EmitTypes DEF TypeInv, FlowTypes
  <2> QED BY <1>1, <2>1, <2>2
<1>4. FlowTypes'
  BY <1>1, <1>2, <1>3, DecodeFacts DEF FlowTypes
<1> QED BY <1>1, <1>2, <1>3, <1>4 DEF TypeInv, StageTypes, Full

LEMMA SceneReadTypes == ASSUME TypeInv, SceneRead PROVE TypeInv'
<1>1. /\ pc = "scene" /\ ~Full /\ pos <= Final /\ pos' = pos + 1 /\ dec' = Decode(pos)[2]
      /\ UNCHANGED <<job, pc, i, rc, faults>>
      /\ \/ UNCHANGED <<stills, batch>>
         \/ Decode(pos)[1] # <<>> /\ emit_one(Decode(pos)[1][1])
  BY DEF SceneRead
<1>2. JobOK' /\ UNCHANGED Final
  BY <1>1, SameJob DEF TypeInv
<1>3. batch' \in Seq(1..Final) /\ stills' \in Seq(StillType(Final)) /\ Len(stills') <= job.cap
  <2>1. CASE UNCHANGED <<stills, batch>>
    BY <2>1 DEF TypeInv, FlowTypes
  <2>2. CASE Decode(pos)[1] # <<>> /\ emit_one(Decode(pos)[1][1])
    <3>1. PICK f \in 1..Final : f = Decode(pos)[1][1]
      BY <1>1, <2>2, DecodeFacts
    <3> QED BY <1>1, <2>2, <3>1, EmitTypes
  <2> QED BY <1>1, <2>1, <2>2
<1>4. FlowTypes'
  <2>1. i' \in Nat \ {0}
    BY <1>1 DEF TypeInv, FlowTypes
  <2> QED BY <1>1, <1>2, <1>3, <2>1, DecodeFacts DEF FlowTypes
<1> QED BY <1>1, <1>2, <1>4 DEF TypeInv, StageTypes

LEMMA FlushDecoderTypes == ASSUME TypeInv, FlushDecoder PROVE TypeInv'
<1>1. /\ pc = "flushdec" /\ UNCHANGED <<job, i, pos, rc, faults>>
      /\ \/ pc' = "flushgraph" /\ UNCHANGED <<dec, stills, batch>>
         \/ ~Full /\ dec # <<>> /\ emit_one(dec[1]) /\ dec' = Tail(dec) /\ UNCHANGED pc
  BY DEF FlushDecoder
<1>2. JobOK' /\ UNCHANGED Final
  BY <1>1, SameJob DEF TypeInv
<1>3. CASE pc' = "flushgraph" /\ UNCHANGED <<dec, stills, batch>>
  BY <1>1, <1>2, <1>3 DEF TypeInv, FlowTypes, StageTypes
<1>4. CASE ~Full /\ dec # <<>> /\ emit_one(dec[1]) /\ dec' = Tail(dec) /\ UNCHANGED pc
  <2>1. dec' = <<>> /\ dec[1] \in 1..Final
    <3>1. PICK x \in 1..Final : dec = <<x>>
      BY <1>4 DEF TypeInv, FlowTypes
    <3> QED BY <1>4, <3>1
  <2>2. PICK f \in 1..Final : f = dec[1]
    BY <2>1
  <2>3. batch' \in Seq(1..Final) /\ stills' \in Seq(StillType(Final)) /\ Len(stills') <= job.cap
    BY <1>4, <2>2, EmitTypes
  <2> QED BY <1>1, <1>2, <1>4, <2>1, <2>3 DEF TypeInv, FlowTypes, StageTypes
<1> QED BY <1>1, <1>3, <1>4

LEMMA FlushGraphTypes == ASSUME TypeInv, FlushGraph PROVE TypeInv'
<1>1. /\ UNCHANGED <<job, i, pos, dec, rc, faults>> /\ pc' = "end" /\ batch' = <<>>
      /\ \/ stills' = stills
         \/ ~Full /\ batch # <<>> /\ stills' = Append(stills, Still(batch[1], None, Len(stills)))
  BY DEF FlushGraph
<1>2. JobOK' /\ UNCHANGED Final
  BY <1>1, SameJob DEF TypeInv
<1>3. stills' \in Seq(StillType(Final)) /\ Len(stills') <= job.cap
  <2>1. CASE stills' = stills
    BY <2>1 DEF TypeInv, FlowTypes
  <2>2. CASE ~Full /\ batch # <<>> /\ stills' = Append(stills, Still(batch[1], None, Len(stills)))
    <3>1. stills \in Seq(StillType(Final)) /\ Len(stills) \in Nat /\ Len(stills) < job.cap /\ job.cap \in Nat
      BY <2>2, JobFacts DEF TypeInv, FlowTypes, Full
    <3>2. batch[1] \in 1..Final
      BY <2>2, HeadIn DEF TypeInv, FlowTypes
    <3>3. PICK x \in StillType(Final) : x = Still(batch[1], None, Len(stills))
      BY <3>1, <3>2, StillTyped DEF TypeInv
    <3> QED BY <2>2, <3>1, <3>3, Grown
  <2> QED BY <1>1, <2>1, <2>2
<1> QED BY <1>1, <1>2, <1>3 DEF TypeInv, FlowTypes, StageTypes

LEMMA OtherTypes ==
  ASSUME TypeInv, RunsOut \/ LastTarget \/ SceneEnds \/ CallFails
  PROVE  TypeInv'
<1>1. /\ UNCHANGED <<job, pos, dec, batch, stills>> /\ i' \in {i, i + 1} /\ rc' \in {rc, "failed"}
      /\ faults' \in {faults, faults + 1} /\ (faults' # faults => faults < MaxFaults)
      /\ pc' \in {"target", "end", "flushdec"}
  BY DEF RunsOut, LastTarget, SceneEnds, CallFails, NextTarget
<1>2. JobOK' /\ UNCHANGED Final
  BY <1>1, SameJob DEF TypeInv
<1>3. i' \in Nat \ {0} /\ faults' \in 0..MaxFaults
  BY <1>1, FramesAssumption DEF TypeInv, FlowTypes, StageTypes
<1> QED BY <1>1, <1>2, <1>3 DEF TypeInv, FlowTypes, StageTypes

LEMMA TypeInvInit == ASSUME Init PROVE TypeInv
<1>1. JobOK
  BY FramesAssumption DEF Init, JobOK
<1>2. Final \in Nat /\ job.cap \in Nat
  BY <1>1, JobFacts
<1> QED BY <1>1, <1>2, FramesAssumption DEF Init, TypeInv, FlowTypes, StageTypes

LEMMA TypeInvNext == ASSUME TypeInv, [Next]_vars PROVE TypeInv'
<1>1. CASE UNCHANGED vars
  BY <1>1, SameJob DEF vars, TypeInv, FlowTypes, StageTypes, Full
<1> QED BY <1>1, SelectTypes, SeekTypes, ReadForwardTypes, SceneReadTypes, FlushDecoderTypes, FlushGraphTypes,
           OtherTypes DEF Next

\* Every variable keeps its type, for every video, selection and cap: no still of a frame
\* that is not in the video, and never more stills than were asked for (emit_one).
THEOREM TypeCorrect == Spec => []TypeOK
<1>1. TypeInv => TypeOK
  <2> SUFFICES ASSUME TypeInv PROVE TypeOK
    OBVIOUS
  <2>1. Len(dec) <= Lag /\ Range(dec) \subseteq 1..Final
    <3>1. CASE dec = <<>>
      BY <3>1, LagFacts DEF Range
    <3>2. CASE dec # <<>>
      <4>1. PICK x \in 1..Final : dec = <<x>> /\ Lag = 1
        BY <3>2 DEF TypeInv, FlowTypes
      <4>2. Len(dec) = 1 /\ DOMAIN dec = {1} /\ dec[1] = x
        BY <4>1
      <4> QED BY <4>1, <4>2 DEF Range
    <3> QED BY <3>1, <3>2
  <2>2. Range(batch) \subseteq 1..Final
    BY RangeIn DEF TypeInv, FlowTypes
  <2>3. \A s \in Range(stills) : s \in StillType(Final)
    BY DEF TypeInv, FlowTypes, Range
  <2> QED BY <2>1, <2>2, <2>3 DEF TypeInv, FlowTypes, StageTypes, JobOK, StillType, TypeOK
<1>2. TypeInv /\ [Next]_vars => TypeInv'
  BY TypeInvNext
<1> QED BY <1>1, <1>2, TypeInvInit, PTL DEF Spec

-----------------------------------------------------------------------------
(* Where the job is, and what it has written so far *)

StageInv ==
  /\ rc = "ok" => faults = 0
  /\ pc # "end" => rc = "ok"
  /\ pc = "select" => i = 1 /\ stills = <<>>
  /\ pc \in {"target", "read"} => ~Scene
  /\ pc \in {"scene", "flushdec", "flushgraph"} => Scene
  /\ pc # "select" /\ (rc = "ok" \/ stills # <<>>) => ~Refused
  /\ pc = "read" => i <= Len(Targets) /\ job.seekable /\ "seek" \notin job.silent
  /\ ~Scene /\ ~Refused => i <= Len(Targets) + 1 /\ Len(stills) <= i - 1
  /\ pc = "end" /\ rc = "ok" /\ ~Scene => i = Len(Targets) + 1

\* The stills are numbered as they are written.
NameInv == \A n \in DOMAIN stills : stills[n].name = IF job.token THEN n - 1 ELSE None

\* Nothing is passed over in an input that breaks off.
LoudInv ==
  job.silent = {} /\ job.end = "error" /\ rc = "ok" =>
    /\ ~Scene /\ job.seekable => Len(stills) = i - 1
    /\ Scene /\ pc \in {"flushdec", "flushgraph", "end"} => Full

WrittenInv == TypeInv /\ StageInv /\ NameInv /\ LoudInv

LEMMA EmitAtTarget ==
  ASSUME JobOK, ~Scene, NEW f, emit_one(f)
  PROVE  batch' = batch /\ stills' = Append(stills, Still(f, job.times[f], Len(stills)))
BY EmitCases DEF Scene

LEMMA NamedNext ==
  ASSUME NameInv, NEW s, stills \in Seq(s), UNCHANGED job, NEW g, NEW t,
         stills' = stills \/ (stills' = Append(stills, Still(g, t, Len(stills))))
  PROVE  NameInv'
<1>1. CASE stills' = stills
  BY <1>1 DEF NameInv
<1>2. CASE stills' = Append(stills, Still(g, t, Len(stills)))
  <2>1. PICK x : x = Still(g, t, Len(stills))
    OBVIOUS
  <2>2. /\ Len(stills') = Len(stills) + 1 /\ Len(stills) \in Nat /\ DOMAIN stills' = 1..(Len(stills) + 1)
        /\ \A n \in 1..Len(stills) : stills'[n] = stills[n]
        /\ stills'[Len(stills) + 1] = x
    BY <1>2, <2>1
  <2>3. x.name = IF job.token THEN Len(stills) ELSE None
    BY <2>1 DEF Still
  <2>4. \A n \in 1..Len(stills) : stills[n].name = IF job.token THEN n - 1 ELSE None
    BY DEF NameInv
  <2>5. \A n \in 1..(Len(stills) + 1) : n \in 1..Len(stills) \/ n = Len(stills) + 1
    BY <2>2
  <2>6. (Len(stills) + 1) - 1 = Len(stills)
    BY <2>2
  <2>7. \A n \in 1..(Len(stills) + 1) : stills'[n].name = IF job.token THEN n - 1 ELSE None
    BY <2>2, <2>3, <2>4, <2>5, <2>6
  <2> QED BY <2>2, <2>7 DEF NameInv
<1> QED BY <1>1, <1>2

\* The counts that the stages and the stills are held to.
LEMMA Counts ==
  ASSUME TypeInv
  PROVE  /\ Len(stills) \in Nat /\ i \in Nat \ {0} /\ job.cap \in Nat \ {0} /\ (stills = <<>> <=> Len(stills) = 0)
         /\ ~Scene /\ ~Refused => Len(Targets) \in Nat /\ Len(Targets) <= job.cap
<1>1. stills \in Seq(StillType(Final))
  BY DEF TypeInv, FlowTypes
<1>2. ~Scene /\ ~Refused => Len(Targets) \in Nat /\ Len(Targets) <= job.cap
  BY TargetFacts, RoomFacts, JobFacts DEF TypeInv
<1> QED BY <1>1, <1>2, JobFacts DEF TypeInv, FlowTypes

LEMMA SelectWritten == ASSUME WrittenInv, Select PROVE WrittenInv'
<1> USE DEF WrittenInv
<1>1. /\ pc = "select" /\ UNCHANGED <<job, i, pos, dec, batch, stills, faults>>
      /\ \/ Refused /\ rc' = "failed" /\ pc' = "end"
         \/ ~Refused /\ rc' = rc /\ pc' = IF Scene THEN "scene" ELSE "target"
  BY DEF Select
<1>2. TypeInv' /\ NameInv'
  BY <1>1, SelectTypes DEF NameInv
<1>3. Len(stills) = 0 /\ i = 1 /\ rc = "ok" /\ stills = <<>>
  BY <1>1, Counts DEF StageInv
<1>4. StageInv'
  BY <1>1, <1>3, SameJob, Counts DEF StageInv
<1>5. LoudInv'
  BY <1>1, <1>3, SameJob DEF LoudInv
<1> QED BY <1>2, <1>4, <1>5

LEMMA SeekWritten == ASSUME WrittenInv, Seek PROVE WrittenInv'
<1> USE DEF WrittenInv
<1>1. /\ pc = "target" /\ i <= Len(Targets) /\ UNCHANGED <<job, batch, stills, rc, faults>>
      /\ \/ job.seekable /\ "seek" \notin job.silent /\ pc' = "read" /\ UNCHANGED i
         \/ ~(job.seekable /\ "seek" \notin job.silent) /\ i' = i + 1 /\ pc' = "target"
  BY DEF Seek, NextTarget
<1>2. TypeInv' /\ NameInv'
  BY <1>1, SeekTypes DEF NameInv
<1>3. rc = "ok" /\ ~Scene /\ ~Refused /\ Len(stills) <= i - 1 /\ Len(Targets) \in Nat
  BY <1>1, Counts DEF StageInv
<1>4. StageInv'
  BY <1>1, <1>3, SameJob, Counts DEF StageInv
<1>5. LoudInv'
  BY <1>1, <1>3, SameJob DEF LoudInv
<1> QED BY <1>2, <1>4, <1>5

LEMMA ReadForwardWritten == ASSUME WrittenInv, ReadForward PROVE WrittenInv'
<1> USE DEF WrittenInv
<1>1. /\ pc = "read" /\ UNCHANGED <<job, rc, faults>>
      /\ \/ UNCHANGED <<pc, i, stills, batch>>
         \/ /\ emit_one(Decode(pos)[1][1]) /\ i' = i + 1 /\ pc' = "target"
  BY DEF ReadForward, NextTarget
<1>2. TypeInv' /\ rc = "ok" /\ ~Scene /\ ~Refused /\ Len(stills) <= i - 1 /\ Len(Targets) \in Nat /\ i <= Len(Targets)
  BY <1>1, ReadForwardTypes, Counts DEF StageInv
<1>3. CASE UNCHANGED <<pc, i, stills, batch>>
  <2>1. NameInv' /\ StageInv'
    BY <1>1, <1>3, SameJob DEF NameInv, StageInv
  <2>2. LoudInv'
    BY <1>1, <1>2, <1>3, SameJob DEF LoudInv
  <2> QED BY <1>2, <2>1, <2>2
<1>4. CASE emit_one(Decode(pos)[1][1]) /\ i' = i + 1 /\ pc' = "target"
  <2>1. PICK f : f = Decode(pos)[1][1]
    OBVIOUS
  <2>2. stills' = Append(stills, Still(f, job.times[f], Len(stills)))
    BY <1>2, <1>4, <2>1, EmitAtTarget DEF TypeInv
  <2>3. Len(stills') = Len(stills) + 1 /\ Len(stills) \in Nat /\ i \in Nat
    BY <2>2, Counts
  <2>4. NameInv'
    BY <1>1, <2>2, NamedNext DEF TypeInv, FlowTypes
  <2>5. StageInv'
    BY <1>1, <1>2, <1>4, <2>3, SameJob DEF StageInv
  <2>6. LoudInv'
    BY <1>1, <1>2, <1>4, <2>3, SameJob DEF LoudInv
  <2> QED BY <1>2, <2>4, <2>5, <2>6
<1> QED BY <1>1, <1>3, <1>4

LEMMA EndWritten ==
  ASSUME WrittenInv, RunsOut \/ LastTarget \/ SceneEnds \/ CallFails
  PROVE  WrittenInv'
<1> USE DEF WrittenInv
<1>1. /\ UNCHANGED <<job, pos, dec, batch, stills>> /\ pc # "select" /\ rc = "ok"
      /\ \/ pc = "read" /\ job.end # "error" /\ i' = i + 1 /\ pc' = "target" /\ UNCHANGED <<rc, faults>>
         \/ rc' = "failed" /\ pc' = "end" /\ UNCHANGED i
         \/ pc = "target" /\ (i > Len(Targets) \/ Full) /\ pc' = "end" /\ UNCHANGED <<i, rc, faults>>
         \/ pc = "scene" /\ (Full \/ job.end # "error") /\ pc' = "flushdec" /\ UNCHANGED <<i, rc, faults>>
  BY DEF RunsOut, LastTarget, SceneEnds, CallFails, NextTarget, StageInv
<1>2. TypeInv' /\ NameInv' /\ ~Refused /\ (Full <=> Full')
  BY <1>1, OtherTypes DEF NameInv, StageInv, Full
<1>3. StageInv'
  BY <1>1, <1>2, SameJob, Counts DEF StageInv, Full
<1>4. LoudInv'
  BY <1>1, <1>2, SameJob DEF LoudInv, StageInv
<1> QED BY <1>2, <1>3, <1>4

LEMMA SceneWritten ==
  ASSUME WrittenInv, SceneRead \/ FlushDecoder \/ FlushGraph
  PROVE  WrittenInv'
<1> USE DEF WrittenInv
<1>1. /\ UNCHANGED <<job, i, rc, faults>> /\ pc \in {"scene", "flushdec", "flushgraph"} /\ rc = "ok"
      /\ pc = "scene" => pc' = "scene"
      /\ pc' \in {"scene", "flushdec", "flushgraph", "end"} /\ (pc = "scene" => ~Full)
      /\ \/ stills' = stills
         \/ ~Full /\ \E f : emit_one(f)
         \/ ~Full /\ \E g : stills' = Append(stills, Still(g, None, Len(stills)))
  BY DEF SceneRead, FlushDecoder, FlushGraph, StageInv
<1>2. TypeInv' /\ Scene /\ ~Refused
  BY <1>1, SceneReadTypes, FlushDecoderTypes, FlushGraphTypes DEF StageInv
<1>3. \/ stills' = stills
      \/ ~Full /\ \E g, t : stills' = Append(stills, Still(g, t, Len(stills)))
  BY <1>1, EmitCases
<1>4. NameInv'
  BY <1>1, <1>3, NamedNext DEF TypeInv, FlowTypes
<1>5. StageInv'
  BY <1>1, <1>2, SameJob DEF StageInv
<1>6. LoudInv'
  BY <1>1, <1>2, <1>3, SameJob DEF LoudInv, Full
<1> QED BY <1>2, <1>4, <1>5, <1>6

LEMMA WrittenInvInit == ASSUME Init PROVE WrittenInv
<1>1. TypeInv
  BY TypeInvInit
<1> QED BY <1>1, Counts DEF Init, WrittenInv, StageInv, NameInv, LoudInv

LEMMA WrittenInvNext == ASSUME WrittenInv, [Next]_vars PROVE WrittenInv'
<1>1. CASE UNCHANGED vars
  <2>1. TypeInv'
    BY <1>1, TypeInvNext DEF WrittenInv
  <2> QED BY <1>1, <2>1, SameJob DEF vars, WrittenInv, StageInv, NameInv, LoudInv, Full
<1> QED BY <1>1, SelectWritten, SeekWritten, ReadForwardWritten, EndWritten, SceneWritten DEF Next

\* No still overwrites another, for every selection, cap and template: a template with no
\* number is refused unless one still at most is asked for, and one at most is then
\* written (op_frames, expand_path; ffmpeg-wasi#53).
THEOREM NamesKept == Spec => []NamesDiffer
<1>1. WrittenInv => NamesDiffer
  <2> SUFFICES ASSUME WrittenInv, NEW m \in DOMAIN stills, NEW n \in DOMAIN stills, m # n
               PROVE  stills[m].name # stills[n].name
    BY DEF NamesDiffer
  <2>1. DOMAIN stills = 1..Len(stills) /\ Len(stills) \in Nat /\ stills # <<>>
    BY Counts DEF WrittenInv, TypeInv, FlowTypes
  <2>2. CASE job.token
    BY <2>1, <2>2 DEF WrittenInv, NameInv
  <2>3. CASE ~job.token
    <3>1. ~Refused
      BY <2>1 DEF WrittenInv, StageInv
    <3>2. ~(Expected > 1)
      BY <2>3, <3>1 DEF Refused
    <3>3. CASE Scene
      BY <2>1, <3>2, <3>3, Counts DEF Expected, WrittenInv, TypeInv, FlowTypes
    <3>4. CASE ~Scene
      <4>1. Len(stills) <= Len(Targets) /\ Len(Targets) \in Nat /\ Expected = Len(Targets)
        BY <2>1, <3>1, <3>4, Counts DEF WrittenInv, StageInv, Expected
      <4> QED BY <2>1, <3>2, <4>1
    <3> QED BY <3>3, <3>4
  <2> QED BY <2>2, <2>3
<1>2. WrittenInv /\ [Next]_vars => WrittenInv'
  BY WrittenInvNext
<1> QED BY <1>1, <1>2, WrittenInvInit, PTL DEF Spec

\* What libav tells: no seek or sink of this job fails in the place of "nothing there",
\* and the demuxer does not take an input that breaks off for one that ends.
Told == job.silent = {} /\ job.end # "ioeof"

\* A success means that no call failed, and that an input that broke off was read no
\* further than to where the last still was found, wherever libav tells a failure from an
\* end (grab_at, grab_scene; ffmpeg-wasi#20).
THEOREM Honest == Spec => [](Told => SuccessIsHonest)
<1>1. WrittenInv => (Told => SuccessIsHonest)
  <2> SUFFICES ASSUME WrittenInv, job.silent = {}, job.end # "ioeof", pc = "end", rc = "ok"
               PROVE  /\ faults = 0
                      /\ job.end # "eof" => Full \/ (~Scene /\ (job.seekable => Len(stills) = Len(Targets)))
    BY DEF Told, SuccessIsHonest, Succeeded
  <2>1. job.end # "eof" => job.end = "error"
    BY JobFacts DEF WrittenInv, TypeInv
  <2>2. ~Scene => i = Len(Targets) + 1 /\ Len(Targets) \in Nat
    BY Counts DEF WrittenInv, StageInv
  <2> QED BY <2>1, <2>2 DEF WrittenInv, StageInv, LoudInv
<1>2. WrittenInv /\ [Next]_vars => WrittenInv'
  BY WrittenInvNext
<1> QED BY <1>1, <1>2, WrittenInvInit, PTL DEF Spec

-----------------------------------------------------------------------------
(* The stills of targets *)

\* A video's frames come in order.
InOrder == \A k, l \in 1..Final : k < l => job.times[k] < job.times[l]

LEMMA AnswersEmpty == ASSUME NEW off PROVE AnswersTo(<<>>, off) = <<>>
<1>1. Only(<<>>, {t \in Nat : From(t, off) # {}}) = <<>>
  BY OnlyEmpty
<1>2. [n \in DOMAIN <<>> |-> FirstFrom(<<>>[n], off)] = <<>>
  OBVIOUS
<1> QED BY <1>1, <1>2 DEF AnswersTo

\* One more target is one more answer, when it is reached.
LEMMA AnswersAppend ==
  ASSUME NEW ts \in Seq(Nat), NEW t \in Nat, NEW off
  PROVE  AnswersTo(Append(ts, t), off) =
           IF From(t, off) # {} THEN Append(AnswersTo(ts, off), FirstFrom(t, off)) ELSE AnswersTo(ts, off)
<1> DEFINE R == {u \in Nat : From(u, off) # {}}
           a == Only(ts, R)
           b == Only(Append(ts, t), R)
           F(x) == FirstFrom(x, off)
<1>1. a \in Seq(Nat) /\ b = IF t \in R THEN Append(a, t) ELSE a
  BY OnlyAppend, OnlyType
<1>2. t \in R <=> From(t, off) # {}
  OBVIOUS
<1>3. AnswersTo(ts, off) = [n \in DOMAIN a |-> F(a[n])] /\ AnswersTo(Append(ts, t), off) = [n \in DOMAIN b |-> F(b[n])]
  BY DEF AnswersTo
<1> HIDE DEF R, a, b, F
<1>4. CASE t \notin R
  BY <1>1, <1>2, <1>3, <1>4
<1>5. CASE t \in R
  <2>1. /\ DOMAIN a = 1..Len(a) /\ Len(a) \in Nat /\ DOMAIN b = 1..(Len(a) + 1)
        /\ b[Len(a) + 1] = t /\ \A n \in 1..Len(a) : b[n] = a[n]
    BY <1>1, <1>5
  <2>0. PICK N \in Nat : N = Len(a)
    BY <2>1
  <2>2. PICK p, q : /\ N = Len(a) /\ p = [n \in 1..N |-> F(a[n])]
                    /\ q = [n \in 1..(N + 1) |-> F(b[n])]
    BY <2>0
  <2>3. p = AnswersTo(ts, off) /\ q = AnswersTo(Append(ts, t), off)
    BY <1>3, <2>1, <2>2
  <2>4. /\ Len(p) = N /\ DOMAIN p = 1..N
        /\ q[N + 1] = F(t) /\ \A n \in 1..N : q[n] = p[n]
    BY <2>1, <2>2
  <2>5. PICK T : T = {F(b[n]) : n \in 1..(N + 1)}
    OBVIOUS
  <2>6. q \in [1..(N + 1) -> T]
    BY <2>2, <2>5
  <2>7. p \in [1..N -> T]
    <3>1. \A n \in 1..N : F(a[n]) \in T
      BY <2>1, <2>2, <2>5
    <3> QED BY <2>2, <3>1
  <2>8. q = Append(p, F(t))
    BY <2>4, <2>6, <2>7, OneMore
  <2> QED BY <1>2, <1>5, <2>3, <2>8 DEF F
<1> QED BY <1>4, <1>5

LEMMA FirstIs ==
  ASSUME JobOK, NEW off \in Nat, NEW t \in Nat, NEW f \in 1 .. Final - off, job.times[f] >= t,
         \A g \in 1 .. f - 1 : job.times[g] < t
  PROVE  From(t, off) # {} /\ FirstFrom(t, off) = f
<1>1. f \in From(t, off) /\ \A g \in From(t, off) : g \in 1..Final /\ job.times[g] >= t
  BY JobFacts DEF From
<1>2. \A g \in From(t, off) : f <= g
  <2> SUFFICES ASSUME NEW g \in From(t, off), ~(f <= g) PROVE FALSE
    OBVIOUS
  <2>1. g \in 1 .. f - 1 /\ job.times[g] >= t /\ job.times[g] \in Nat
    BY <1>1, JobFacts
  <2> QED BY <2>1
<1>3. \A h \in From(t, off) : (\A g \in From(t, off) : h <= g) => h = f
  <2> SUFFICES ASSUME NEW h \in From(t, off), \A g \in From(t, off) : h <= g PROVE h = f
    OBVIOUS
  <2>1. h <= f /\ f <= h /\ h \in Int /\ f \in Int
    BY <1>1, <1>2
  <2> QED BY <2>1
<1> QED BY <1>1, <1>2, <1>3 DEF FirstFrom

LEMMA NoneFrom ==
  ASSUME JobOK, NEW off \in Nat, NEW t \in Nat, \A g \in 1 .. Final - off : job.times[g] < t
  PROVE  From(t, off) = {}
<1>1. \A g \in 1 .. Final - off : job.times[g] \in Nat
  BY JobFacts
<1> QED BY <1>1 DEF From

LEMMA PrefixGrows ==
  ASSUME NEW s \in Seq(Nat), NEW n \in 1..Len(s)
  PROVE  /\ SubSeq(s, 1, n) = Append(SubSeq(s, 1, n - 1), s[n])
         /\ SubSeq(s, 1, n - 1) \in Seq(Nat) /\ s[n] \in Nat
<1> DEFINE a == SubSeq(s, 1, n)
           b == SubSeq(s, 1, n - 1)
<1>1. a \in Seq(Nat) /\ Len(a) = n /\ \A k \in 1..n : a[k] = s[k]
  OBVIOUS
<1>2. b \in Seq(Nat) /\ Len(b) = n - 1 /\ \A k \in 1..(n - 1) : b[k] = s[k]
  OBVIOUS
<1>3. s[n] \in Nat
  OBVIOUS
<1> HIDE DEF a, b
<1>4. Append(b, s[n]) \in Seq(Nat) /\ Len(Append(b, s[n])) = n
  BY <1>2, <1>3
<1>5. \A k \in 1..n : Append(b, s[n])[k] = s[k]
  BY <1>2, <1>3
<1>6. a = Append(b, s[n])
  BY <1>1, <1>4, <1>5, SameSeq
<1> QED BY <1>2, <1>3, <1>6 DEF a, b

LEMMA WrittenGrows ==
  ASSUME NEW T, stills \in Seq(T), NEW f, NEW t, NEW n, stills' = Append(stills, Still(f, t, n))
  PROVE  Written' = Append(Written, f)
<1>1. PICK x : x = Still(f, t, n) /\ x.frame = f
  BY DEF Still
<1>2. PICK N \in Nat : N = Len(stills) /\ DOMAIN stills = 1..N
  OBVIOUS
<1>3. PICK s : s = stills'
  OBVIOUS
<1>4. /\ DOMAIN s = 1..(N + 1) /\ s[N + 1] = x /\ \A k \in 1..N : s[k] = stills[k]
  BY <1>1, <1>2, <1>3
<1>5. Written = [k \in 1..N |-> stills[k].frame] /\ Written' = [k \in 1..(N + 1) |-> s[k].frame]
  BY <1>2, <1>3, <1>4 DEF Written
<1>6. PICK w, v : w = Written /\ v = Written'
  OBVIOUS
<1>7. PICK U : U = {s[k].frame : k \in 1..(N + 1)}
  OBVIOUS
<1>9. v \in [1..(N + 1) -> U] /\ w \in [1..N -> U]
  <2>1. \A k \in 1..N : stills[k].frame \in U
    BY <1>4, <1>7
  <2> QED BY <1>5, <1>6, <1>7, <2>1
<1>8. v[N + 1] = f /\ \A k \in 1..N : v[k] = w[k]
  BY <1>1, <1>4, <1>5, <1>6
<1>10. v = Append(w, f)
  BY <1>8, <1>9, OneMore
<1> QED BY <1>6, <1>10

\* The frames that are out of the decoder.
Out == pos - 1 - Len(dec)

LEMMA OutFacts ==
  ASSUME TypeInv
  PROVE  Out \in 0..Final /\ Final \in Nat /\ pos \in 1 .. Final + 1 /\ (pos = Final + 1 => Final - Lag <= Out)
         /\ (dec = <<>> => Out = pos - 1) /\ (dec # <<>> => Out = pos - 2 /\ dec = <<Out + 1>> /\ Out + 1 \in 1..Final)
<1>1. Final \in Nat /\ pos \in 1 .. Final + 1
  BY JobFacts DEF TypeInv, FlowTypes
<1>2. CASE dec = <<>>
  BY <1>1, <1>2, LagFacts DEF Out
<1>3. CASE dec # <<>>
  <2>1. Lag = 1 /\ pos - 1 \in 1..Final /\ dec = <<pos - 1>>
    BY <1>3 DEF TypeInv, FlowTypes
  <2>2. Len(dec) = 1
    BY <2>1
  <2>3. Out = pos - 2
    BY <1>1, <2>2 DEF Out
  <2>4. Out + 1 = pos - 1
    BY <1>1, <2>3
  <2> QED BY <1>1, <1>3, <2>1, <2>3, <2>4
<1> QED BY <1>2, <1>3

\* What is decoded is the next frame, in its order.
LEMMA DecodeOut ==
  ASSUME TypeInv, pos <= Final, pos' = pos + 1, dec' = Decode(pos)[2], UNCHANGED job
  PROVE  \/ Decode(pos)[1] = <<>> /\ Out' = Out
         \/ Decode(pos)[1] = <<Out + 1>> /\ Out' = Out + 1 /\ Out + 1 \in 1 .. Final - Lag
<1>1. Final \in Nat /\ pos \in 1..Final
  BY OutFacts
<1>2. CASE Lag = 0
  <2>1. dec = <<>> /\ dec' = <<>> /\ Decode(pos)[1] = <<pos>>
    BY <1>2, DecodeFacts
  <2>2. Out = pos - 1 /\ Out' = pos' - 1
    BY <1>1, <2>1 DEF Out
  <2>3. Out + 1 = pos
    BY <1>1, <2>2
  <2> QED BY <1>1, <1>2, <2>1, <2>2, <2>3
<1>3. CASE Lag = 1
  <2>1. dec' = <<pos>> /\ Decode(pos)[1] = dec
    BY <1>3, DecodeFacts
  <2>2. Len(dec') = 1
    BY <2>1
  <2>3. Out' = pos - 1
    BY <1>1, <2>2 DEF Out
  <2>4. CASE dec = <<>>
    BY <2>1, <2>3, <2>4, OutFacts
  <2>5. CASE dec # <<>>
    <3>1. Out = pos - 2 /\ dec = <<Out + 1>> /\ Out + 1 \in 1..Final
      BY <2>5, OutFacts
    <3>2. Out + 1 = pos - 1 /\ Out + 1 \in 1 .. Final - Lag
      BY <1>1, <1>3, <3>1
    <3> QED BY <2>1, <2>3, <3>1, <3>2
  <2> QED BY <2>4, <2>5
<1> QED BY <1>2, <1>3, LagFacts

\* Answers to the first n targets.
AnswersSoFar(n) == AnswersTo(SubSeq(Targets, 1, n), Lag)

\* The job seeks, and can.
Seeks == ~Scene /\ ~Refused /\ job.seekable /\ "seek" \notin job.silent /\ InOrder

\* What is written is what the targets behind it are answered with, and no frame that is
\* out since the seek is at its target.
AnswerInv ==
  /\ Seeks => /\ \A n \in Nat : n = i - 1 => Written = AnswersSoFar(n)
              /\ pc = "read" => \A g \in 1..Out : job.times[g] < Targets[i]
  /\ ~Scene /\ ~job.seekable => stills = <<>>

LEMMA SameAnswers ==
  ASSUME UNCHANGED job
  PROVE  (Seeks' <=> Seeks) /\ \A n \in Nat : AnswersSoFar(n)' = AnswersSoFar(n)
<1>1. \A n \in Nat : AnswersSoFar(n)' = AnswersSoFar(n)
  <2>1. \A t : From(t, Lag)' = From(t, Lag)
    BY SameJob DEF From
  <2>2. \A t : FirstFrom(t, Lag)' = FirstFrom(t, Lag)
    BY <2>1 DEF FirstFrom
  <2>3. \A ts : AnswersTo(ts, Lag)' = AnswersTo(ts, Lag)
    <3>1. PICK R : R = {t \in Nat : From(t, Lag) # {}}
      OBVIOUS
    <3>2. R = {t \in Nat : From(t, Lag)' # {}}
      BY <2>1, <3>1
    <3> SUFFICES ASSUME NEW ts PROVE AnswersTo(ts, Lag)' = AnswersTo(ts, Lag)
      OBVIOUS
    <3>3. PICK a : a = Only(ts, R)
      OBVIOUS
    <3>4. AnswersTo(ts, Lag) = [n \in DOMAIN a |-> FirstFrom(a[n], Lag)]
      BY <3>1, <3>3 DEF AnswersTo
    <3>5. AnswersTo(ts, Lag)' = [n \in DOMAIN a |-> FirstFrom(a[n], Lag)']
      BY <3>2, <3>3 DEF AnswersTo
    <3> QED BY <2>2, <3>4, <3>5
  <2>4. Targets' = Targets
    BY SameJob
  <2>5. ASSUME NEW n \in Nat PROVE AnswersSoFar(n)' = AnswersSoFar(n)
    <3>1. PICK ts : ts = SubSeq(Targets, 1, n)
      OBVIOUS
    <3>2. AnswersSoFar(n) = AnswersTo(ts, Lag) /\ AnswersSoFar(n)' = AnswersTo(ts, Lag)'
      BY <2>4, <3>1 DEF AnswersSoFar, AnswersTo
    <3> QED BY <2>3, <3>2
  <2> QED BY <2>5
<1>2. InOrder' <=> InOrder
  BY SameJob DEF InOrder
<1> QED BY <1>1, <1>2, SameJob DEF Seeks

\* One more target, reached or not.
LEMMA NextAnswer ==
  ASSUME JobOK, Seeks, NEW n \in 1..Len(Targets)
  PROVE  /\ Targets[n] \in Nat /\ n - 1 \in Nat
         /\ AnswersSoFar(n) = IF From(Targets[n], Lag) # {}
                              THEN Append(AnswersSoFar(n - 1), FirstFrom(Targets[n], Lag))
                              ELSE AnswersSoFar(n - 1)
<1>1. PICK s \in Seq(Nat) : s = Targets
  BY TargetFacts DEF Seeks
<1>2. PICK a \in Seq(Nat), t \in Nat : /\ a = SubSeq(Targets, 1, n - 1) /\ t = Targets[n]
                                       /\ SubSeq(Targets, 1, n) = Append(a, t)
  BY <1>1, PrefixGrows
<1>3. AnswersTo(Append(a, t), Lag) =
        IF From(t, Lag) # {} THEN Append(AnswersTo(a, Lag), FirstFrom(t, Lag)) ELSE AnswersTo(a, Lag)
  BY AnswersAppend
<1>4. n - 1 \in Nat
  OBVIOUS
<1> QED BY <1>2, <1>3, <1>4 DEF AnswersSoFar

LEMMA LandingEarly ==
  ASSUME JobOK, Seeks, i \in 1..Len(Targets)
  PROVE  \A g \in 1 .. Landing - 1 : job.times[g] < Targets[i]
<1> DEFINE before == {k \in job.keys : job.times[k] <= Target}
<1>1. before \subseteq 1..Final /\ Final \in Nat
  BY JobFacts
<1>2. CASE before = {}
  BY <1>1, <1>2 DEF Landing
<1>3. CASE before # {}
  <2>1. Landing = CHOOSE k \in before : \A m \in before : m <= k
    BY <1>3 DEF Landing
  <2>2. \E k \in before : \A m \in before : m <= k
    <3> HIDE DEF before
    <3> QED BY <1>1, <1>3, Greatest
  <2>3. Landing \in before
    <3> HIDE DEF before
    <3> QED BY <2>1, <2>2
  <2>4. PICK l \in 1..Final : l = Landing
    BY <1>1, <2>3
  <2>5. job.times[l] <= Targets[i] /\ job.times[l] \in Nat
    BY <2>3, <2>4, JobFacts DEF Target
  <2>6. Targets[i] \in Nat
    BY NextAnswer
  <2>7. ASSUME NEW g \in 1 .. l - 1 PROVE job.times[g] < Targets[i]
    <3>1. g \in 1..Final /\ g < l
      BY <1>1
    <3>2. job.times[g] < job.times[l] /\ job.times[g] \in Nat
      BY <3>1, JobFacts DEF Seeks, InOrder
    <3> QED BY <2>5, <2>6, <3>2
  <2> QED BY <2>4, <2>7
<1> QED BY <1>2, <1>3

LEMMA SeekAnswers == ASSUME WrittenInv, AnswerInv, Seek PROVE AnswerInv'
<1>1. /\ i <= Len(Targets) /\ UNCHANGED <<job, stills>>
      /\ Seeks => pos' = Landing /\ dec' = <<>> /\ pc' = "read" /\ UNCHANGED i
  BY DEF Seek, Seeks
<1>2. UNCHANGED Written
  BY <1>1 DEF Written
<1>3. CASE Seeks
  <2>1. JobOK /\ i \in 1..Len(Targets)
    BY <1>1, <1>3, Counts DEF WrittenInv, TypeInv, Seeks
  <2>2. Landing \in Int
    BY <2>1, LandingTyped, JobFacts
  <2>3. Out' = Landing - 1
    BY <1>1, <1>3, <2>2 DEF Out
  <2> QED BY <1>1, <1>2, <1>3, <2>1, <2>3, LandingEarly, SameJob, SameAnswers DEF AnswerInv
<1>4. CASE ~Seeks
  BY <1>1, <1>4, SameJob, SameAnswers DEF AnswerInv
<1> QED BY <1>3, <1>4

LEMMA ReadForwardAnswers == ASSUME WrittenInv, AnswerInv, ReadForward PROVE AnswerInv'
<1>1. /\ pc = "read" /\ pos <= Final /\ pos' = pos + 1 /\ dec' = Decode(pos)[2] /\ UNCHANGED job
      /\ \/ Decode(pos)[1] = <<>> /\ UNCHANGED <<pc, i, stills>>
         \/ Decode(pos)[1] # <<>> /\ TooEarly(Decode(pos)[1][1]) /\ UNCHANGED <<pc, i, stills>>
         \/ /\ Decode(pos)[1] # <<>> /\ ~TooEarly(Decode(pos)[1][1])
            /\ emit_one(Decode(pos)[1][1]) /\ i' = i + 1 /\ pc' = "target"
  BY DEF ReadForward, NextTarget
<1>2. TypeInv /\ JobOK /\ ~Scene /\ ~Refused /\ job.seekable /\ i \in 1..Len(Targets) /\ Out \in Nat /\ Final \in Nat
  BY <1>1, Counts, OutFacts DEF WrittenInv, StageInv, TypeInv
<1>3. SUFFICES ASSUME Seeks
               PROVE  /\ \A n \in Nat : n = i' - 1 => Written' = AnswersSoFar(n)
                      /\ pc' = "read" => \A g \in 1..Out' : job.times[g] < Targets[i']
  BY <1>1, <1>2, SameJob, SameAnswers DEF AnswerInv
<1>4. /\ \A n \in Nat : n = i - 1 => Written = AnswersSoFar(n)
      /\ \A g \in 1..Out : job.times[g] < Targets[i]
  BY <1>1, <1>3 DEF AnswerInv
<1>5. PICK t \in Nat : t = Targets[i]
  BY <1>2, <1>3, NextAnswer
<1>6. CASE Decode(pos)[1] = <<>> /\ UNCHANGED <<pc, i, stills>>
  <2>1. Out' = Out
    BY <1>1, <1>2, <1>6, DecodeOut
  <2>2. UNCHANGED Written
    BY <1>6 DEF Written
  <2> QED BY <1>4, <1>6, <2>1, <2>2
<1>7. CASE Decode(pos)[1] # <<>>
  <2>1. PICK f \in 1 .. Final - Lag : f = Out + 1 /\ Out' = f /\ Decode(pos)[1][1] = f
    BY <1>1, <1>2, <1>7, DecodeOut
  <2>2. job.times[f] \in Nat /\ Out = f - 1 /\ \A g \in 1..f : g \in 1..Out \/ g = f
    BY <1>2, <2>1, LagFacts, JobFacts
  <2>3. CASE TooEarly(f) /\ UNCHANGED <<pc, i, stills>>
    <3>1. job.times[f] < t
      BY <1>5, <2>3 DEF TooEarly, Target
    <3>2. \A g \in 1..f : job.times[g] < t
      BY <1>4, <1>5, <2>2, <3>1
    <3>3. UNCHANGED Written
      BY <2>3 DEF Written
    <3> QED BY <1>4, <1>5, <2>1, <2>3, <3>2, <3>3
  <2>4. CASE ~TooEarly(f) /\ emit_one(f) /\ i' = i + 1 /\ pc' = "target"
    <3>1. job.times[f] >= t
      BY <1>5, <2>2, <2>4 DEF TooEarly, Target
    <3>2. \A g \in 1 .. f - 1 : job.times[g] < t
      BY <1>4, <1>5, <2>2
    <3>3. From(t, Lag) # {} /\ FirstFrom(t, Lag) = f
      BY <1>2, <2>1, <3>1, <3>2, LagFacts, FirstIs
    <3>4. stills' = Append(stills, Still(f, job.times[f], Len(stills)))
      BY <1>2, <2>4, EmitAtTarget
    <3>5. Written' = Append(Written, f)
      BY <1>2, <3>4, WrittenGrows DEF TypeInv, FlowTypes
    <3>6. PICK n \in 1..Len(Targets) : n = i
      BY <1>2
    <3>7. AnswersSoFar(n) = Append(AnswersSoFar(n - 1), f) /\ n - 1 \in Nat
      BY <1>2, <1>3, <1>5, <3>3, <3>6, NextAnswer
    <3>8. Written' = AnswersSoFar(n)
      BY <1>4, <3>5, <3>6, <3>7
    <3>9. \A m \in Nat : m = i' - 1 => m = n
      BY <2>4, <3>6
    <3> QED BY <2>4, <3>8, <3>9
  <2> QED BY <1>1, <1>7, <2>1, <2>3, <2>4
<1> QED BY <1>1, <1>6, <1>7

LEMMA RunsOutAnswers == ASSUME WrittenInv, AnswerInv, RunsOut PROVE AnswerInv'
<1>1. /\ pc = "read" /\ pos > Final /\ UNCHANGED <<job, stills>>
      /\ \/ UNCHANGED i /\ pc' = "end"
         \/ i' = i + 1 /\ pc' = "target"
  BY DEF RunsOut, NextTarget
<1>2. /\ TypeInv /\ JobOK /\ ~Scene /\ ~Refused /\ i \in 1..Len(Targets) /\ Out \in Nat /\ Final \in Nat
      /\ Final - Lag <= Out
  BY <1>1, Counts, OutFacts DEF WrittenInv, StageInv, TypeInv
<1>3. UNCHANGED Written
  BY <1>1 DEF Written
<1>4. CASE Seeks
  <2>1. /\ \A n \in Nat : n = i - 1 => Written = AnswersSoFar(n)
        /\ \A g \in 1..Out : job.times[g] < Targets[i]
    BY <1>1, <1>4 DEF AnswerInv
  <2>2. PICK t \in Nat : t = Targets[i]
    BY <1>2, <1>4, NextAnswer
  <2>3. \A g \in 1 .. Final - Lag : g \in 1..Out
    BY <1>2, LagFacts
  <2>4. From(t, Lag) = {}
    BY <1>2, <2>1, <2>2, <2>3, LagFacts, NoneFrom
  <2>5. PICK n \in 1..Len(Targets) : n = i
    BY <1>2
  <2>6. AnswersSoFar(n) = AnswersSoFar(n - 1) /\ n - 1 \in Nat
    BY <1>2, <1>4, <2>2, <2>4, <2>5, NextAnswer
  <2>7. Written = AnswersSoFar(n - 1) /\ Written = AnswersSoFar(n)
    BY <2>1, <2>5, <2>6
  <2>8. \A m \in Nat : m = i' - 1 => m = n \/ m = n - 1
    BY <1>1, <2>5
  <2> QED BY <1>1, <1>2, <1>3, <1>4, <2>7, <2>8, SameJob, SameAnswers DEF AnswerInv, WrittenInv, StageInv
<1>5. CASE ~Seeks
  BY <1>1, <1>5, SameJob, SameAnswers DEF AnswerInv
<1> QED BY <1>4, <1>5

LEMMA OtherAnswers ==
  ASSUME WrittenInv, AnswerInv, Select \/ LastTarget \/ SceneRead \/ SceneEnds \/ FlushDecoder \/ FlushGraph \/ CallFails
  PROVE  AnswerInv'
<1>1. UNCHANGED <<job, i>> /\ pc' # "read" /\ (~Scene => UNCHANGED stills)
  BY DEF Select, LastTarget, SceneRead, SceneEnds, FlushDecoder, FlushGraph, CallFails, WrittenInv, StageInv
<1>2. ~Scene => UNCHANGED Written
  BY <1>1 DEF Written
<1> QED BY <1>1, <1>2, SameJob, SameAnswers DEF AnswerInv, Seeks

LEMMA AnswerInvInit == ASSUME Init PROVE AnswerInv
<1>1. JobOK /\ i - 1 = 0 /\ stills = <<>> /\ pc # "read"
  BY TypeInvInit DEF Init, TypeInv
<1>2. Written = <<>>
  BY <1>1 DEF Written
<1>3. ASSUME Seeks PROVE AnswersSoFar(0) = <<>>
  <2>1. PICK s \in Seq(Nat) : s = Targets
    BY <1>1, <1>3, TargetFacts DEF Seeks
  <2>2. SubSeq(s, 1, 0) = <<>>
    BY <2>1
  <2> QED BY <2>1, <2>2, AnswersEmpty DEF AnswersSoFar
<1> QED BY <1>1, <1>2, <1>3 DEF AnswerInv

LEMMA AnswerInvNext == ASSUME WrittenInv, AnswerInv, [Next]_vars PROVE AnswerInv'
<1>1. CASE UNCHANGED vars
  <2>1. UNCHANGED <<job, i, stills, pc, pos, dec>>
    BY <1>1 DEF vars
  <2>2. UNCHANGED Written /\ UNCHANGED Out
    BY <2>1 DEF Written, Out
  <2> QED BY <2>1, <2>2, SameJob, SameAnswers DEF AnswerInv
<1> QED BY <1>1, SeekAnswers, ReadForwardAnswers, RunsOutAnswers, OtherAnswers DEF Next

\* Whatever the order and however far apart its targets: a job that succeeds has, for
\* every target that the video reaches before its last frames are in the decoder, the
\* first frame at or after it, and nothing else; of an input that cannot be sought it has
\* nothing (grab_at).  The frames of the video come in order, and no seek fails unseen.
THEOREM TargetsKept == Spec => [](InOrder /\ "seek" \notin job.silent => StillsRight)
<1> DEFINE Inv == WrittenInv /\ AnswerInv
<1>1. Inv => (InOrder /\ "seek" \notin job.silent => StillsRight)
  <2> SUFFICES ASSUME Inv, InOrder, "seek" \notin job.silent, pc = "end", rc = "ok", ~Scene
               PROVE  Written = (IF job.seekable THEN Answers(Lag) ELSE <<>>)
    BY DEF StillsRight, Succeeded
  <2>1. ~Refused /\ i = Len(Targets) + 1
    BY DEF WrittenInv, StageInv
  <2>2. CASE ~job.seekable
    BY <2>2 DEF AnswerInv, Written
  <2>3. CASE job.seekable
    <3>1. PICK s \in Seq(Nat) : s = Targets
      BY <2>1, TargetFacts DEF WrittenInv, TypeInv
    <3>2. i - 1 = Len(s) /\ Len(s) \in Nat /\ SubSeq(s, 1, Len(s)) = s
      <4>1. Len(s) \in Nat /\ SubSeq(s, 1, Len(s)) \in Seq(Nat) /\ Len(SubSeq(s, 1, Len(s))) = Len(s)
            /\ \A k \in 1..Len(s) : SubSeq(s, 1, Len(s))[k] = s[k]
        OBVIOUS
      <4>2. SubSeq(s, 1, Len(s)) = s
        BY <4>1, SameSeq
      <4> QED BY <2>1, <3>1, <4>1, <4>2
    <3>3. Written = AnswersSoFar(Len(s))
      BY <2>1, <2>3, <3>2 DEF AnswerInv, Seeks
    <3> QED BY <2>3, <3>1, <3>2, <3>3 DEF AnswersSoFar, Answers
  <2> QED BY <2>2, <2>3
<1>2. Inv /\ [Next]_vars => Inv'
  BY WrittenInvNext, AnswerInvNext
<1>3. Init => Inv
  BY WrittenInvInit, AnswerInvInit
<1> QED BY <1>1, <1>2, <1>3, PTL DEF Spec

-----------------------------------------------------------------------------
(* The stills of a scene selection *)

UpTo(n) == [k \in 1..n |-> k]

\* What the selector picks of the first n frames.
Picked(n) == Only(UpTo(n), job.select.picks)

PickInv ==
  Has("picks") => batch = <<>> /\ \A n \in Nat : n = Out => Written = Picked(n)

\* A still for every full batch, and the frames since.
BatchInv ==
  Has("batch") =>
    LET b == job.select.batch
        L == Len(stills)
    IN  /\ Out = L * b + Len(batch) /\ Len(batch) < b
        /\ \A n \in 1..L : stills[n].frame = (n - 1) * b + 1
        /\ batch # <<>> => batch[1] = L * b + 1

\* Where the reading has stopped, and why.
EdgeInv ==
  /\ pc = "flushdec" => Full \/ pos = Final + 1
  /\ pc = "flushgraph" => Full \/ (pos = Final + 1 /\ dec = <<>>)

GraphInv ==
  /\ Scene /\ pc # "end" => PickInv /\ BatchInv /\ EdgeInv
  /\ "sink" \notin job.silent => ScenesWhole

LEMMA UpToGrows ==
  ASSUME NEW n \in Nat
  PROVE  UpTo(n) \in Seq(Nat) /\ Len(UpTo(n)) = n /\ UpTo(n + 1) = Append(UpTo(n), n + 1)
<1>1. UpTo(n) \in [1..n -> Nat] /\ UpTo(n + 1) \in [1..(n + 1) -> Nat]
  BY DEF UpTo
<1>2. UpTo(n + 1)[n + 1] = n + 1 /\ \A k \in 1..n : UpTo(n + 1)[k] = UpTo(n)[k]
  BY DEF UpTo
<1>3. UpTo(n) \in Seq(Nat) /\ Len(UpTo(n)) = n
  BY DEF UpTo
<1>4. UpTo(n + 1) = Append(UpTo(n), UpTo(n + 1)[n + 1])
  BY <1>1, <1>2, OneMore
<1> QED BY <1>2, <1>3, <1>4

LEMMA PickedGrows ==
  ASSUME NEW n \in Nat
  PROVE  /\ Picked(n) \in Seq(Nat)
         /\ Picked(n + 1) = IF n + 1 \in job.select.picks THEN Append(Picked(n), n + 1) ELSE Picked(n)
<1>1. n + 1 \in Nat
  OBVIOUS
<1>2. PICK s \in Seq(Nat) : s = UpTo(n) /\ UpTo(n + 1) = Append(s, n + 1)
  BY UpToGrows
<1>3. PICK S : S = job.select.picks
  OBVIOUS
<1>4. Only(Append(s, n + 1), S) = IF n + 1 \in S THEN Append(Only(s, S), n + 1) ELSE Only(s, S)
  BY <1>1, OnlyAppend
<1>5. Only(s, S) \in Seq(Nat)
  BY OnlyType
<1> QED BY <1>2, <1>3, <1>4, <1>5 DEF Picked

\* More of the video, and the picks go on.
LEMMA PickedPrefix ==
  ASSUME NEW m \in Nat, NEW n \in 0..m
  PROVE  \E x \in Seq(Nat) : Picked(m) = Picked(n) \o x
<1> DEFINE Q == {k \in Nat : \E x \in Seq(Nat) : Picked(n + k) = Picked(n) \o x}
<1>1. 0 \in Q
  <2>1. n \in Nat /\ n + 0 = n /\ <<>> \in Seq(Nat)
    OBVIOUS
  <2>2. PICK a \in Seq(Nat) : a = Picked(n)
    BY <2>1, PickedGrows
  <2>3. a \o <<>> = a
    OBVIOUS
  <2> QED BY <2>1, <2>2, <2>3
<1>2. ASSUME NEW k \in Nat, k \in Q PROVE k + 1 \in Q
  <2>1. PICK x \in Seq(Nat) : Picked(n + k) = Picked(n) \o x
    BY <1>2
  <2>2. PICK a \in Seq(Nat), p \in Nat : a = Picked(n) /\ p = n + k
    BY PickedGrows
  <2>3. Picked(p + 1) = IF p + 1 \in job.select.picks THEN Append(a \o x, p + 1) ELSE a \o x
    BY <2>1, <2>2, PickedGrows
  <2>4. a \o Append(x, p + 1) = Append(a \o x, p + 1) /\ Append(x, p + 1) \in Seq(Nat)
    BY ConcatAppend
  <2>5. \E y \in Seq(Nat) : Picked(p + 1) = a \o y
    BY <2>3, <2>4
  <2>6. n + (k + 1) = p + 1 /\ k + 1 \in Nat
    BY <2>2
  <2>7. \E y \in Seq(Nat) : Picked(n + (k + 1)) = Picked(n) \o y
    BY <2>2, <2>5, <2>6
  <2> QED BY <2>6, <2>7
<1>3. Nat \subseteq Q
  <2> HIDE DEF Q
  <2> QED BY <1>1, <1>2, SetInduction
<1>4. m - n \in Nat /\ n + (m - n) = m
  OBVIOUS
<1>5. m - n \in Q
  BY <1>3, <1>4
<1> QED BY <1>4, <1>5

LEMMA SamePicked ==
  ASSUME UNCHANGED job
  PROVE  \A n \in Nat : Picked(n)' = Picked(n)
BY DEF Picked

LEMMA OneMoreTimes == \A n, b \in Nat : (n + 1) * b = n * b + b /\ n * b \in Nat
OBVIOUS

\* A frame goes through the graph.
LEMMA EmitScene ==
  ASSUME TypeInv, PickInv, BatchInv, Scene, UNCHANGED job, ~Full, emit_one(Out + 1), Out' = Out + 1, Out + 1 \in 1..Final
  PROVE  PickInv' /\ BatchInv'
<1>1. PICK n \in Nat : n = Out
  BY OutFacts
<1>2. emit_one(n + 1)
  BY <1>1
<1>3. stills \in Seq(StillType(Final)) /\ batch \in Seq(1..Final) /\ Len(stills) \in Nat /\ Len(batch) \in Nat
  BY DEF TypeInv, FlowTypes
<1>4. UNCHANGED <<Has("picks"), Has("batch"), job.select.batch, job.select.picks>>
  BY DEF Has
<1>5. CASE Has("picks") /\ ~Has("batch")
  <2>1. batch = <<>> /\ Written = Picked(n)
    BY <1>1, <1>5 DEF PickInv
  <2>2. CASE n + 1 \notin job.select.picks
    <3>1. UNCHANGED <<stills, batch>>
      BY <1>2, <1>5, <2>2, EmitCases
    <3>2. UNCHANGED Written
      BY <3>1 DEF Written
    <3>3. Written' = Picked(n + 1)
      BY <2>1, <2>2, <3>2, PickedGrows
    <3> QED BY <1>1, <1>4, <1>5, <2>1, <3>1, <3>3, SamePicked DEF PickInv, BatchInv
  <2>3. CASE n + 1 \in job.select.picks
    <3>1. batch' = batch /\ stills' = Append(stills, Still(n + 1, job.times[n + 1], Len(stills)))
      BY <1>2, <1>5, <2>3, EmitCases
    <3>2. PICK f, t, l : f = n + 1 /\ t = job.times[n + 1] /\ l = Len(stills)
      OBVIOUS
    <3>3. Written' = Append(Written, f)
      BY <1>3, <3>1, <3>2, WrittenGrows
    <3>4. Written' = Picked(n + 1)
      BY <2>1, <2>3, <3>2, <3>3, PickedGrows
    <3> QED BY <1>1, <1>4, <1>5, <2>1, <3>1, <3>4, SamePicked DEF PickInv, BatchInv
  <2> QED BY <2>2, <2>3
<1>6. CASE Has("batch") /\ ~Has("picks")
  <2>1. PICK b \in Nat \ {0}, L \in Nat, k \in Nat : b = job.select.batch /\ L = Len(stills) /\ k = Len(batch)
    BY <1>3, <1>6, SelectFacts DEF TypeInv
  <2>2. PICK d \in Nat : d = L * b
    BY <2>1
  <2>3. n = d + k /\ k < b /\ (batch # <<>> => batch[1] = d + 1) /\ \A m \in 1..L : stills[m].frame = (m - 1) * b + 1
    BY <1>1, <1>6, <2>1, <2>2 DEF BatchInv
  <2>4. Append(batch, n + 1) \in Seq(1..Final) /\ Append(batch, n + 1)[1] = d + 1
        /\ Len(Append(batch, n + 1)) = k + 1 /\ Append(batch, n + 1) # <<>>
    <3>0. PICK T : T = 1..Final
      OBVIOUS
    <3>1. PICK x \in T : T = 1..Final /\ x = n + 1 /\ batch \in Seq(T)
      BY <1>1, <1>3, <3>0
    <3>2. Append(batch, x) \in Seq(T) /\ Len(Append(batch, x)) = k + 1 /\ Append(batch, x) # <<>>
      BY <2>1, <3>1
    <3>3. batch # <<>> => Append(batch, x)[1] = batch[1]
      BY <3>1
    <3>4. batch = <<>> => Append(batch, x)[1] = x /\ k = 0
      BY <2>1, <3>1
    <3> QED BY <2>3, <3>1, <3>2, <3>3, <3>4
  <2>5. CASE k + 1 = b
    <3>1. batch' = <<>> /\ stills' = Append(stills, Still(Append(batch, n + 1)[1], job.times[n + 1], Len(stills)))
      BY <1>2, <1>6, <2>1, <2>5, EmitCases
    <3>2. PICK x : x = Still(Append(batch, n + 1)[1], job.times[n + 1], Len(stills)) /\ x.frame = d + 1
      <4>1. PICK h : h = Append(batch, n + 1)[1] /\ h = d + 1
        BY <2>4
      <4>2. Still(h, job.times[n + 1], Len(stills)).frame = h
        BY DEF Still
      <4> QED BY <4>1, <4>2
    <3>3. /\ Len(stills') = L + 1 /\ \A m \in 1..L : stills'[m] = stills[m]
          /\ stills'[L + 1] = x
      BY <1>3, <2>1, <3>1, <3>2
    <3>4. (L + 1) * b = d + b
      BY <2>1, <2>2, OneMoreTimes
    <3>5. \A m \in 1..(L + 1) : stills'[m].frame = (m - 1) * b + 1
      <4> SUFFICES ASSUME NEW m \in 1..(L + 1) PROVE stills'[m].frame = (m - 1) * b + 1
        OBVIOUS
      <4>1. CASE m \in 1..L
        BY <2>3, <3>3, <4>1
      <4>2. CASE m = L + 1
        <5>1. m - 1 = L
          BY <4>2
        <5> QED BY <2>2, <3>2, <3>3, <4>2, <5>1
      <4> QED BY <4>1, <4>2
    <3>6. Out' = (L + 1) * b + 0 /\ Len(batch') = 0 /\ 0 < b
      BY <1>1, <2>1, <2>3, <2>5, <3>1, <3>4
    <3> QED BY <1>4, <1>6, <2>1, <3>1, <3>3, <3>5, <3>6 DEF PickInv, BatchInv
  <2>6. CASE k + 1 # b
    <3>1. batch' = Append(batch, n + 1) /\ stills' = stills
      BY <1>2, <1>6, <2>1, <2>6, EmitCases
    <3>2. Out' = L * b + (k + 1) /\ k + 1 < b
      <4>1. Out' = n + 1
        BY <1>1
      <4>0. n = d + k /\ k < b /\ b \in Nat /\ k \in Nat /\ d \in Nat
        BY <2>3
      <4>2. n + 1 = d + (k + 1) /\ k + 1 < b
        BY <2>6, <4>0
      <4> QED BY <2>2, <4>1, <4>2
    <3> QED BY <1>4, <1>6, <2>1, <2>2, <2>3, <2>4, <3>1, <3>2 DEF PickInv, BatchInv
  <2> QED BY <2>5, <2>6
<1> QED BY <1>5, <1>6, SelectFacts DEF TypeInv

LEMMA SceneReadGraph == ASSUME WrittenInv, GraphInv, SceneRead PROVE GraphInv'
<1>1. /\ pc = "scene" /\ ~Full /\ pos <= Final /\ pos' = pos + 1 /\ dec' = Decode(pos)[2] /\ UNCHANGED <<job, pc>>
      /\ \/ Decode(pos)[1] = <<>> /\ UNCHANGED <<stills, batch>>
         \/ Decode(pos)[1] # <<>> /\ emit_one(Decode(pos)[1][1])
  BY DEF SceneRead
<1>2. TypeInv /\ Scene /\ PickInv /\ BatchInv
  BY <1>1 DEF WrittenInv, StageInv, GraphInv
<1>3. EdgeInv' /\ ScenesWhole'
  BY <1>1 DEF EdgeInv, ScenesWhole, Succeeded
<1>4. CASE Decode(pos)[1] = <<>> /\ UNCHANGED <<stills, batch>>
  <2>1. Out' = Out
    BY <1>1, <1>2, <1>4, DecodeOut
  <2>2. UNCHANGED Written /\ UNCHANGED <<Has("picks"), Has("batch")>>
    BY <1>1, <1>4 DEF Written, Has
  <2>3. PickInv'
    BY <1>1, <1>2, <1>4, <2>1, <2>2, SamePicked DEF PickInv
  <2>4. BatchInv'
    BY <1>1, <1>2, <1>4, <2>1, <2>2 DEF BatchInv
  <2> QED BY <1>3, <2>3, <2>4 DEF GraphInv
<1>5. CASE Decode(pos)[1] # <<>> /\ emit_one(Decode(pos)[1][1])
  <2>1. PICK f \in 1 .. Final - Lag : f = Out + 1 /\ Out' = Out + 1 /\ Decode(pos)[1][1] = f
    BY <1>1, <1>2, <1>5, DecodeOut
  <2>2. emit_one(Out + 1) /\ Out + 1 \in 1..Final
    <3>1. emit_one(f)
      BY <1>5, <2>1
    <3> QED BY <1>2, <2>1, <3>1, OutFacts, LagFacts
  <2>3. PickInv' /\ BatchInv'
    BY <1>1, <1>2, <2>1, <2>2, EmitScene
  <2> QED BY <1>3, <2>3 DEF GraphInv
<1> QED BY <1>1, <1>4, <1>5

LEMMA FlushDecoderGraph == ASSUME WrittenInv, GraphInv, FlushDecoder PROVE GraphInv'
<1>1. /\ pc = "flushdec" /\ UNCHANGED <<job, pos>>
      /\ \/ (Full \/ dec = <<>>) /\ pc' = "flushgraph" /\ UNCHANGED <<dec, stills, batch>>
         \/ ~Full /\ dec # <<>> /\ emit_one(dec[1]) /\ dec' = Tail(dec) /\ UNCHANGED pc
  BY DEF FlushDecoder
<1>2. TypeInv /\ Scene /\ PickInv /\ BatchInv /\ EdgeInv
  BY <1>1 DEF WrittenInv, StageInv, GraphInv
<1>3. ScenesWhole' /\ UNCHANGED <<Has("picks"), Has("batch"), Final>>
  BY <1>1, SameJob DEF ScenesWhole, Succeeded, Has
<1>4. CASE (Full \/ dec = <<>>) /\ pc' = "flushgraph" /\ UNCHANGED <<dec, stills, batch>>
  <2>1. UNCHANGED Written /\ UNCHANGED Out
    BY <1>1, <1>4 DEF Written, Out
  <2>2. PickInv'
    BY <1>1, <1>2, <1>3, <1>4, <2>1, SamePicked DEF PickInv
  <2>3. BatchInv'
    BY <1>1, <1>2, <1>3, <1>4, <2>1 DEF BatchInv
  <2>4. EdgeInv'
    BY <1>1, <1>2, <1>3, <1>4 DEF EdgeInv, Full
  <2> QED BY <1>3, <2>2, <2>3, <2>4 DEF GraphInv
<1>5. CASE ~Full /\ dec # <<>> /\ emit_one(dec[1]) /\ dec' = Tail(dec) /\ UNCHANGED pc
  <2>1. PICK f \in 1..Final : f = Out + 1 /\ Out = pos - 2 /\ dec = <<f>>
    BY <1>2, <1>5, OutFacts
  <2>2. emit_one(f) /\ dec' = <<>>
    BY <1>5, <2>1
  <2>3. Out' = pos - 1 /\ pos \in Int
    BY <1>1, <1>2, <2>2, OutFacts DEF Out
  <2>4. Out' = Out + 1 /\ emit_one(Out + 1) /\ Out + 1 \in 1..Final
    <3>1. Out' = f
      BY <2>1, <2>3
    <3> QED BY <2>1, <2>2, <3>1
  <2>5. PickInv' /\ BatchInv'
    BY <1>1, <1>2, <1>5, <2>4, EmitScene
  <2>6. EdgeInv'
    BY <1>1, <1>2, <1>3, <1>5 DEF EdgeInv
  <2> QED BY <1>3, <2>5, <2>6 DEF GraphInv
<1> QED BY <1>1, <1>4, <1>5

\* The quotient, rounded up, that a number of batches comes to.
LEMMA Quotient ==
  \A a \in Nat, b \in Nat \ {0} :
    /\ a \div b \in Nat /\ (a \div b) * b <= a /\ a < (a \div b) * b + b
OBVIOUS

LEMMA LessTimes == \A a, c \in Nat, b \in Nat \ {0} : a * b < c * b => a < c
<1> SUFFICES ASSUME NEW a \in Nat, NEW c \in Nat, NEW b \in Nat \ {0}, c <= a PROVE c * b <= a * b
  OBVIOUS
<1>1. a = c + (a - c) /\ a - c \in Nat
  OBVIOUS
<1>2. a * b = c * b + (a - c) * b /\ (a - c) * b \in Nat /\ c * b \in Nat
  BY <1>1
<1> QED BY <1>2

LEMMA Batches ==
  ASSUME NEW n \in Nat, NEW b \in Nat \ {0}, NEW l \in Nat
  PROVE  /\ l * b <= n => l <= (n + b - 1) \div b
         /\ l * b = n => (n + b - 1) \div b = l
         /\ l * b < n /\ n < l * b + b => (n + b - 1) \div b = l + 1
<1>1. n + b - 1 \in Nat /\ l * b \in Nat
  OBVIOUS
<1>2. PICK q \in Nat : q = (n + b - 1) \div b /\ q * b <= n + b - 1 /\ n + b - 1 < q * b + b
  BY <1>1, Quotient
<1>3. PICK Q \in Nat, M \in Nat : Q = q * b /\ M = l * b
  BY <1>1
<1>4. (q + 1) * b = Q + b /\ (l + 1) * b = M + b /\ (l + 2) * b = M + b + b
  <2>1. l + 1 \in Nat /\ (l + 1) + 1 = l + 2
    OBVIOUS
  <2> QED BY <1>3, <2>1, OneMoreTimes
<1>5. M <= n => l < q + 1
  <2>1. M <= n => l * b < (q + 1) * b
    BY <1>2, <1>3, <1>4
  <2> QED BY <2>1, LessTimes
<1>6. M = n => q < l + 1
  <2>1. M = n => q * b < (l + 1) * b
    BY <1>2, <1>3, <1>4
  <2> QED BY <2>1, LessTimes
<1>7. M < n /\ n < M + b => l + 1 < q + 1 /\ q < l + 2
  <2>1. M < n /\ n < M + b => (l + 1) * b < (q + 1) * b /\ q * b < (l + 2) * b
    BY <1>2, <1>3, <1>4
  <2> QED BY <2>1, LessTimes
<1> QED BY <1>2, <1>3, <1>5, <1>6, <1>7

\* Of n frames in batches of b: how many batches there are, the k-th one's first frame,
\* and the first frames of all.
BatchesIn(n, b) == (n + b - 1) \div b
Start(k, b) == (k - 1) * b + 1
Starts(n, b) == [k \in 1..BatchesIn(n, b) |-> Start(k, b)]

\* All the picks of the video, in order, whichever way they are made.
AllPicks ==
  IF Has("picks") THEN Picked(Final)
  ELSE Starts(Final, job.select.batch)

LEMMA ScenesWholeIs ==
  ScenesWhole <=> (Succeeded /\ Scene => Written = SubSeq(AllPicks, 1, Least(job.cap, Len(AllPicks))))
BY DEF ScenesWhole, AllPicks, Starts, Start, BatchesIn, Picked, UpTo

LEMMA ScenesWholeIsNext ==
  ScenesWhole' <=> (Succeeded /\ Scene => Written = SubSeq(AllPicks, 1, Least(job.cap, Len(AllPicks))))'
BY ScenesWholeIs, PTL

LEMMA Prefix ==
  ASSUME NEW p \in Seq(Nat), NEW m \in 0..Len(p)
  PROVE  /\ SubSeq(p, 1, m) \in Seq(Nat) /\ Len(SubSeq(p, 1, m)) = m
         /\ \A k \in 1..m : SubSeq(p, 1, m)[k] = p[k]
OBVIOUS

LEMMA FlushPicks ==
  ASSUME TypeInv, PickInv, EdgeInv, Has("picks"), pc = "flushgraph"
  PROVE  batch = <<>> /\ Written = SubSeq(Picked(Final), 1, Least(job.cap, Len(Picked(Final))))
<1>1. PICK n \in 0..Final : n = Out /\ Final \in Nat
  BY OutFacts
<1>2. batch = <<>> /\ Written = Picked(n) /\ n \in Nat
  BY <1>1 DEF PickInv
<1>3. PICK x \in Seq(Nat) : Picked(Final) = Picked(n) \o x
  BY <1>1, PickedPrefix
<1>4. PICK a \in Seq(Nat) : a = Picked(n)
  BY <1>2, PickedGrows
<1>5. PICK p \in Seq(Nat) : p = Picked(Final) /\ p = a \o x
  BY <1>1, <1>3, <1>4, PickedGrows
<1>6. Len(a) = Len(stills) /\ Len(stills) <= job.cap /\ job.cap \in Nat
  BY <1>2, <1>4, JobFacts DEF TypeInv, FlowTypes, Written
<1>7. Len(p) = Len(a) + Len(x) /\ Len(a) \in Nat /\ Len(x) \in Nat /\ Len(p) \in Nat
  BY <1>5
<1>8. Least(job.cap, Len(p)) = Len(a)
  <2>1. CASE Full
    BY <1>6, <1>7, <2>1 DEF Full, Least
  <2>2. CASE ~Full
    <3>1. n = Final
      <4>1. pos = Final + 1 /\ dec = <<>>
        BY <2>2 DEF EdgeInv
      <4> QED BY <1>1, <4>1, OutFacts
    <3>2. Len(p) = Len(a)
      BY <1>4, <1>5, <3>1
    <3> QED BY <1>6, <1>7, <3>2 DEF Least
  <2> QED BY <2>1, <2>2
<1>9. SubSeq(p, 1, Len(a)) = a
  <2>1. SubSeq(p, 1, Len(a)) \in Seq(Nat) /\ Len(SubSeq(p, 1, Len(a))) = Len(a)
        /\ \A k \in 1..Len(a) : SubSeq(p, 1, Len(a))[k] = p[k]
    <3>1. Len(a) \in 0..Len(p)
      BY <1>7
    <3> QED BY <3>1, Prefix
  <2>2. \A k \in 1..Len(a) : p[k] = a[k]
    BY <1>5
  <2> QED BY <2>1, <2>2, SameSeq
<1> QED BY <1>2, <1>4, <1>5, <1>8, <1>9

LEMMA FramesAre ==
  ASSUME NEW M \in Nat, NEW s, DOMAIN s = 1..M, NEW F \in Seq(Nat), M <= Len(F),
         \A n \in 1..M : s[n].frame = F[n]
  PROVE  [n \in DOMAIN s |-> s[n].frame] = SubSeq(F, 1, M)
<1>1. M \in 0..Len(F) /\ \A n \in 1..M : F[n] \in Nat
  OBVIOUS
<1>2. SubSeq(F, 1, M) \in Seq(Nat) /\ Len(SubSeq(F, 1, M)) = M /\ \A n \in 1..M : SubSeq(F, 1, M)[n] = F[n]
  BY <1>1, Prefix
<1>3. PICK w : w = [n \in 1..M |-> s[n].frame]
  OBVIOUS
<1>4. w \in [1..M -> Nat] /\ \A n \in 1..M : w[n] = F[n]
  BY <1>1, <1>3
<1>5. w \in Seq(Nat) /\ Len(w) = M
  BY <1>4
<1>6. w = SubSeq(F, 1, M)
  BY <1>2, <1>4, <1>5, SameSeq
<1> QED BY <1>3, <1>6

FramesOf(s) == [n \in DOMAIN s |-> s[n].frame]

\* Stills of full batches, and no more of them than batches begun.
LEMMA BatchPicks ==
  ASSUME NEW N \in Nat, NEW b \in Nat \ {0}, NEW s, NEW M \in Nat, DOMAIN s = 1..M,
         \A n \in 1..M : s[n].frame = Start(n, b), M <= BatchesIn(N, b)
  PROVE  /\ Len(Starts(N, b)) = BatchesIn(N, b)
         /\ FramesOf(s) = SubSeq(Starts(N, b), 1, M)
<1>1. PICK q \in Nat : q = BatchesIn(N, b)
  <2>1. N + b - 1 \in Nat
    OBVIOUS
  <2> QED BY <2>1, Quotient DEF BatchesIn
<1>2. \A n \in 1..q : Start(n, b) \in Nat
  <2> SUFFICES ASSUME NEW n \in 1..q PROVE (n - 1) * b + 1 \in Nat
    BY DEF Start
  <2>1. PICK k \in Nat : k = n - 1
    OBVIOUS
  <2>2. PICK d \in Nat : d = k * b
    BY OneMoreTimes
  <2> QED BY <2>1, <2>2
<1>3. Starts(N, b) = [n \in 1..q |-> Start(n, b)]
  BY <1>1 DEF Starts
<1>6. PICK F \in Seq(Nat) : F = Starts(N, b) /\ Len(F) = q /\ \A n \in 1..q : F[n] = Start(n, b)
  BY <1>2, <1>3
<1>7. M <= q /\ \A n \in 1..M : s[n].frame = F[n]
  BY <1>1, <1>6
<1>8. FramesOf(s) = SubSeq(F, 1, M)
  BY <1>6, <1>7, FramesAre DEF FramesOf
<1> QED BY <1>1, <1>6, <1>8

LEMMA FlushBatches ==
  ASSUME TypeInv, BatchInv, EdgeInv, Has("batch"), ~Has("picks"), pc = "flushgraph", UNCHANGED job,
         stills' = IF Full \/ batch = <<>> THEN stills
                   ELSE Append(stills, Still(batch[1], None, Len(stills)))
  PROVE  Written' = SubSeq(AllPicks, 1, Least(job.cap, Len(AllPicks)))
<1>1. stills \in Seq(StillType(Final)) /\ batch \in Seq(1..Final) /\ Len(stills) \in Nat /\ Len(batch) \in Nat
      /\ (batch = <<>> <=> Len(batch) = 0)
  BY DEF TypeInv, FlowTypes
<1>0. PICK b \in Nat \ {0}, N \in Nat, c \in Nat : b = job.select.batch /\ N = Final /\ c = job.cap
  <2>1. job.select.batch \in Nat \ {0}
    BY SelectFacts DEF TypeInv, Scene
  <2>2. Final \in Nat /\ job.cap \in Nat
    BY JobFacts DEF TypeInv
  <2> QED BY <2>1, <2>2
<1>2. PICK L \in Nat, k \in Nat :
        L = Len(stills) /\ k = Len(batch) /\ b = job.select.batch /\ N = Final /\ c = job.cap
  BY <1>0, <1>1
<1>3. PICK d \in Nat : d = L * b
  BY <1>2
<1>4. Out = d + k /\ k < b /\ (batch # <<>> => batch[1] = d + 1) /\ \A n \in 1..L : stills[n].frame = (n - 1) * b + 1
  BY <1>2, <1>3 DEF BatchInv
<1>5. Out <= N /\ (~Full => Out = N) /\ L <= c /\ (Full <=> L = c)
  <2>1. Out \in 0..Final /\ (dec = <<>> => Out = pos - 1)
    BY OutFacts
  <2>2. ~Full => pos = Final + 1 /\ dec = <<>>
    BY DEF EdgeInv
  <2>3. L <= c /\ (Full <=> L = c)
    BY <1>2 DEF TypeInv, FlowTypes, Full
  <2> QED BY <1>2, <2>1, <2>2, <2>3
<1>6. PICK q \in Nat : q = (N + b - 1) \div b
  <2>1. N + b - 1 \in Nat
    OBVIOUS
  <2> QED BY <2>1, Quotient
<1>7. /\ d <= N => L <= q
      /\ d = N => q = L
      /\ d < N /\ N < d + b => q = L + 1
  BY <1>3, <1>6, Batches
<1>8. CASE Full \/ batch = <<>>
  <2>1. stills' = stills /\ DOMAIN stills = 1..L
    BY <1>1, <1>2, <1>8
  <2>2. L = Least(c, q)
    <3>1. CASE Full
      BY <1>4, <1>5, <1>7, <3>1 DEF Least
    <3>2. CASE ~Full
      <4>1. k = 0 /\ Out = N
        BY <1>1, <1>2, <1>5, <1>8, <3>2
      <4>2. d = N
        BY <1>4, <4>1
      <4> QED BY <1>5, <1>7, <4>2 DEF Least
    <3> QED BY <3>1, <3>2
  <2>3. Len(Starts(N, b)) = q /\ FramesOf(stills) = SubSeq(Starts(N, b), 1, L)
    <3>1. L <= q
      BY <2>2 DEF Least
    <3>2. PICK s : s = stills
      OBVIOUS
    <3>3. DOMAIN s = 1..L /\ \A n \in 1..L : s[n].frame = Start(n, b)
      BY <1>4, <2>1, <3>2 DEF Start
    <3>4. L <= BatchesIn(N, b) /\ q = BatchesIn(N, b)
      BY <1>6, <3>1 DEF BatchesIn
    <3>5. Len(Starts(N, b)) = BatchesIn(N, b) /\ FramesOf(s) = SubSeq(Starts(N, b), 1, L)
      BY <3>3, <3>4, BatchPicks
    <3> QED BY <3>2, <3>4, <3>5
  <2> QED BY <1>2, <2>1, <2>2, <2>3 DEF Written, FramesOf, AllPicks
<1>9. CASE ~(Full \/ batch = <<>>)
  <2>1. PICK x : x = Still(batch[1], None, Len(stills)) /\ x.frame = d + 1
    <3>1. PICK h : h = batch[1] /\ h = d + 1
      BY <1>4, <1>9
    <3>2. Still(h, None, Len(stills)).frame = h
      BY DEF Still
    <3> QED BY <3>1, <3>2
  <2>2. PICK s : s = stills' /\ s = Append(stills, x)
    BY <1>9, <2>1
  <2>3. DOMAIN s = 1..(L + 1) /\ s[L + 1] = x /\ \A n \in 1..L : s[n] = stills[n]
    BY <1>1, <1>2, <2>2
  <2>4. \A n \in 1..(L + 1) : s[n].frame = (n - 1) * b + 1
    <3> SUFFICES ASSUME NEW n \in 1..(L + 1) PROVE s[n].frame = (n - 1) * b + 1
      OBVIOUS
    <3>1. CASE n \in 1..L
      BY <1>4, <2>3, <3>1
    <3>2. CASE n = L + 1
      <4>1. n - 1 = L
        BY <3>2
      <4> QED BY <1>3, <2>1, <2>3, <3>2, <4>1
    <3> QED BY <3>1, <3>2
  <2>5. L + 1 = Least(c, q) /\ L + 1 \in Nat
    <3>1. Out = N /\ k # 0 /\ L < c
      BY <1>1, <1>2, <1>5, <1>9
    <3>2. d < N /\ N < d + b
      BY <1>4, <3>1
    <3> QED BY <1>7, <3>1, <3>2 DEF Least
  <2>6. Len(Starts(N, b)) = q /\ FramesOf(s) = SubSeq(Starts(N, b), 1, L + 1)
    <3>1. PICK M \in Nat : M = L + 1 /\ M <= q
      BY <2>5 DEF Least
    <3>2. DOMAIN s = 1..M /\ \A n \in 1..M : s[n].frame = Start(n, b)
      BY <2>3, <2>4, <3>1 DEF Start
    <3>3. M <= BatchesIn(N, b) /\ q = BatchesIn(N, b)
      BY <1>6, <3>1 DEF BatchesIn
    <3>4. Len(Starts(N, b)) = BatchesIn(N, b) /\ FramesOf(s) = SubSeq(Starts(N, b), 1, M)
      BY <3>2, <3>3, BatchPicks
    <3> QED BY <3>1, <3>3, <3>4
  <2>7. Written' = FramesOf(s)
    BY <2>2 DEF Written, FramesOf
  <2> QED BY <1>2, <2>5, <2>6, <2>7 DEF AllPicks
<1> QED BY <1>8, <1>9

LEMMA FlushGraphGraph == ASSUME WrittenInv, GraphInv, FlushGraph PROVE GraphInv'
<1>1. pc = "flushgraph" /\ pc' = "end" /\ UNCHANGED job
  BY DEF FlushGraph
<1>2. TypeInv /\ Scene /\ PickInv /\ BatchInv /\ EdgeInv
  BY <1>1 DEF WrittenInv, StageInv, GraphInv
<1>3. AllPicks' = AllPicks
  BY <1>1, SameJob, SamePicked DEF AllPicks, Has, Picked
<1>4. ASSUME "sink" \notin job.silent PROVE ScenesWhole'
  <2>1. stills' = IF Full \/ batch = <<>> THEN stills
                  ELSE Append(stills, Still(batch[1], None, Len(stills)))
    BY <1>4 DEF FlushGraph
  <2>2. Written' = SubSeq(AllPicks, 1, Least(job.cap, Len(AllPicks)))
    <3>1. CASE Has("picks") /\ ~Has("batch")
      <4>1. batch = <<>> /\ Written = SubSeq(Picked(Final), 1, Least(job.cap, Len(Picked(Final))))
        BY <1>1, <1>2, <3>1, FlushPicks
      <4>2. UNCHANGED Written
        BY <2>1, <4>1 DEF Written
      <4> QED BY <3>1, <4>1, <4>2 DEF AllPicks
    <3>2. CASE Has("batch") /\ ~Has("picks")
      BY <1>1, <1>2, <2>1, <3>2, FlushBatches
    <3> QED BY <1>2, <3>1, <3>2, SelectFacts DEF TypeInv
  <2>3. Written' = SubSeq(AllPicks, 1, Least(job.cap, Len(AllPicks)))'
    <3>1. Least(job.cap, Len(AllPicks))' = Least(job.cap, Len(AllPicks))
      BY <1>1, <1>3 DEF Least
    <3> QED BY <1>3, <2>2, <3>1
  <2> QED BY <2>3, ScenesWholeIsNext
<1> QED BY <1>1, <1>4 DEF GraphInv

LEMMA OtherGraph ==
  ASSUME WrittenInv, GraphInv,
         Select \/ Seek \/ ReadForward \/ RunsOut \/ LastTarget \/ SceneEnds \/ CallFails \/ UNCHANGED vars
  PROVE  GraphInv'
<1>1. /\ UNCHANGED job /\ (Scene => UNCHANGED <<pos, dec, batch, stills>>)
      /\ \/ ~Scene
         \/ pc' = "end" /\ (pc = "end" \/ rc' = "failed") /\ (pc = "end" => UNCHANGED rc)
         \/ pc = "select" /\ pc' = "scene"
         \/ pc = "scene" /\ (Full \/ pos > Final) /\ pc' = "flushdec"
         \/ pc' = pc /\ UNCHANGED rc
  BY DEF Select, Seek, ReadForward, RunsOut, LastTarget, SceneEnds, CallFails, vars, WrittenInv, StageInv
<1>2. CASE ~Scene
  BY <1>1, <1>2, SameJob DEF GraphInv, ScenesWhole
<1>3. CASE Scene
  <2>1. UNCHANGED <<Written, Out, AllPicks, Final, Has("picks"), Has("batch")>>
    BY <1>1, <1>3, SameJob, SamePicked DEF Written, Out, AllPicks, Starts, Has, Picked
  <2>2. ScenesWhole => ScenesWhole'
    <3>1. Succeeded' => Succeeded
      BY <1>1, <1>3 DEF Succeeded, WrittenInv, StageInv
    <3> QED BY <1>1, <2>1, <3>1, SameJob, ScenesWholeIs, ScenesWholeIsNext DEF Least
  <2>3. ASSUME pc' # "end" PROVE PickInv' /\ BatchInv' /\ EdgeInv'
    <3>1. pc # "end" /\ PickInv /\ BatchInv /\ EdgeInv /\ pos \in 1 .. Final + 1 /\ Final \in Nat
      BY <1>1, <1>3, <2>3, OutFacts DEF GraphInv, WrittenInv
    <3>2. PickInv'
      BY <1>1, <1>3, <2>1, <3>1, SamePicked DEF PickInv
    <3>3. BatchInv'
      BY <1>1, <1>3, <2>1, <3>1 DEF BatchInv
    <3>4. EdgeInv'
      BY <1>1, <1>3, <2>1, <2>3, <3>1 DEF EdgeInv, Full
    <3> QED BY <3>2, <3>3, <3>4
  <2> QED BY <1>1, <2>2, <2>3 DEF GraphInv
<1> QED BY <1>2, <1>3

LEMMA GraphInvInit == ASSUME Init PROVE GraphInv
<1>1. /\ TypeInv /\ stills = <<>> /\ batch = <<>> /\ dec = <<>> /\ pc = "select" /\ pos = 1
  BY TypeInvInit DEF Init
<1>2. Written = <<>> /\ Out = 0 /\ Len(stills) = 0 /\ Len(batch) = 0
  BY <1>1, OutFacts DEF Written
<1>3. Picked(0) = <<>>
  <2>1. UpTo(0) = <<>>
    BY DEF UpTo
  <2> QED BY <2>1, OnlyEmpty DEF Picked
<1>4. PickInv
  BY <1>1, <1>2, <1>3 DEF PickInv
<1>5. BatchInv
  <2>1. Has("batch") => job.select.batch \in Nat \ {0}
    BY <1>1, SelectFacts DEF TypeInv, Scene
  <2>2. \A b \in Nat \ {0} : 0 = 0 * b + 0 /\ 0 < b
    OBVIOUS
  <2> QED BY <1>1, <1>2, <2>1, <2>2 DEF BatchInv
<1> QED BY <1>1, <1>4, <1>5 DEF GraphInv, EdgeInv, ScenesWhole, Succeeded

LEMMA GraphInvNext == ASSUME WrittenInv, GraphInv, [Next]_vars PROVE GraphInv'
BY SceneReadGraph, FlushDecoderGraph, FlushGraphGraph, OtherGraph DEF Next

\* Whichever way it selects, a job that succeeds has written the stills its selection
\* stands for: for targets see TargetsKept; of a scene selection the first picks of the
\* whole video, those among them that decoder and graph had kept back until they were
\* flushed, and no more than its cap (grab_scene).  No seek or sink fails unseen.
THEOREM StillsKept == Spec => [](InOrder /\ job.silent = {} => StillsWhole)
<1> DEFINE Inv == WrittenInv /\ GraphInv
<1>1. Inv => ("sink" \notin job.silent => ScenesWhole)
  BY DEF GraphInv
<1>2. Inv /\ [Next]_vars => Inv'
  BY WrittenInvNext, GraphInvNext
<1>3. Init => Inv
  BY WrittenInvInit, GraphInvInit
<1>4. Spec => []("sink" \notin job.silent => ScenesWhole)
  BY <1>1, <1>2, <1>3, PTL DEF Spec
<1>5. /\ (InOrder /\ "seek" \notin job.silent => StillsRight)
      /\ ("sink" \notin job.silent => ScenesWhole)
      => (InOrder /\ job.silent = {} => StillsWhole)
  BY DEF StillsWhole
<1> QED BY <1>4, <1>5, TargetsKept, PTL
=============================================================================
