---------------------------- MODULE ProcessProofs ----------------------------
(***************************************************************************)
(* Proofs about Process: its types, what a success means, the queues of    *)
(* finished sinks, and what a job that succeeds has written: the cues, the *)
(* copies and the frames.                                                  *)
(***************************************************************************)
EXTENDS ProcessJobs, FilterProofs

\* The job is one of Jobs, and what those are.
JobOK == job \in JobType /\ WellFormed(job)

LEMMA JobFacts ==
  ASSUME JobOK
  PROVE  /\ job.inputs \in Seq(InputType) /\ job.gins \in Seq(PadType)
         /\ job.gouts \in Seq(ChainType) /\ job.outs \in Seq(OutType)
         /\ job.cpys \in Seq(CopyType)
         /\ job.subs \in Seq(SubType)
         /\ Len(job.inputs) \in Nat \ {0} /\ DOMAIN job.inputs = 1..Len(job.inputs)
BY DEF JobOK, JobType, WellFormed

LEMMA InputFacts ==
  ASSUME JobOK, NEW i \in DOMAIN job.inputs
  PROVE  /\ Input(i) \in InputType /\ Input(i).pkts \in Seq(PktType)
         /\ Input(i).end \in {"eof", "error", "ioeof", "endless"}
         /\ Input(i).seek \in Nat \cup {None} /\ Input(i).accurate \in BOOLEAN
         /\ Input(i).end = "endless" => Input(i).pkts # <<>>
         /\ SeekBase(i) \in Nat
<1>1. Input(i) \in InputType
  BY JobFacts DEF Input
<1>2. Input(i).end = "endless" => Input(i).pkts # <<>>
  BY DEF JobOK, WellFormed, Input
<1> QED BY <1>1, <1>2 DEF InputType, SeekBase, Input, None

LEMMA OutFacts ==
  ASSUME JobOK, NEW o \in DOMAIN job.outs
  PROVE  job.outs[o].dur \in Nat /\ job.outs[o].end \in Nat /\ job.outs[o].copyTs \in BOOLEAN
<1>1. job.outs[o] \in OutType
  BY JobFacts
<1> QED BY <1>1 DEF OutType

LEMMA PadFacts ==
  ASSUME JobOK, NEW g \in DOMAIN job.gins
  PROVE  job.gins[g].in \in DOMAIN job.inputs /\ job.gins[g].st \in 1..2
<1>1. job.gins[g] \in PadType
  BY JobFacts
<1> QED BY <1>1 DEF JobOK, WellFormed, PadType

LEMMA ChainFacts ==
  ASSUME JobOK, NEW s \in DOMAIN job.gouts
  PROVE  /\ job.gouts[s].out \in DOMAIN job.outs /\ job.gouts[s].n \in Nat
         /\ job.gouts[s].kind \in {"pass", "trim", "loop", "speed"}
         /\ job.gouts[s].srcs \in Seq(Nat \ {0}) /\ Len(job.gouts[s].srcs) \in 1..2
         /\ \A n \in DOMAIN job.gouts[s].srcs : job.gouts[s].srcs[n] \in DOMAIN job.gins
<1>1. job.gouts[s] \in ChainType
  BY JobFacts
<1> QED BY <1>1 DEF JobOK, WellFormed, ChainType

LEMMA CopyFacts ==
  ASSUME JobOK, NEW c \in DOMAIN job.cpys
  PROVE  /\ job.cpys[c].in \in DOMAIN job.inputs /\ job.cpys[c].out \in DOMAIN job.outs
         /\ job.cpys[c].st \in 1..2 /\ job.cpys[c].bsf \in BOOLEAN /\ c \in Nat
<1>1. job.cpys[c] \in CopyType
  BY JobFacts
<1>2. c \in Nat
  BY JobFacts
<1>3. job.cpys[c].in \in DOMAIN job.inputs /\ job.cpys[c].out \in DOMAIN job.outs
  BY DEF JobOK, WellFormed
<1> QED BY <1>1, <1>2, <1>3 DEF CopyType

LEMMA SubFacts ==
  ASSUME JobOK, NEW s \in DOMAIN job.subs
  PROVE  /\ job.subs[s].in \in DOMAIN job.inputs /\ job.subs[s].out \in DOMAIN job.outs
         /\ job.subs[s].st \in 1..2 /\ s \in Nat
<1>1. job.subs[s] \in SubType
  BY JobFacts
<1>2. s \in Nat
  BY JobFacts
<1>3. job.subs[s].in \in DOMAIN job.inputs /\ job.subs[s].out \in DOMAIN job.outs
  BY DEF JobOK, WellFormed
<1> QED BY <1>1, <1>2, <1>3 DEF SubType

LEMMA SeekOffsetType ==
  ASSUME JobOK
  PROVE  job_seek_offset \in Nat
<1> DEFINE seeking == {i \in DOMAIN job.inputs : job.inputs[i].seek # None}
<1>1. CASE seeking = {}
  BY <1>1 DEF job_seek_offset
<1>2. CASE seeking # {}
  <2>1. seeking \subseteq Nat
    BY JobFacts
  <2>2. \E x \in seeking : \A y \in seeking : ~(y < x)
    <3> HIDE DEF seeking
    <3> QED BY <1>2, <2>1, LeastElement
  <2>3. \E x \in seeking : \A y \in seeking : x <= y
    BY <2>1, <2>2
  <2> DEFINE x == CHOOSE i \in seeking : \A j \in seeking : i <= j
  <2>4. x \in seeking
    BY <2>3
  <2>5. job_seek_offset = job.inputs[x].seek
    BY <1>2 DEF job_seek_offset
  <2>6. job.inputs[x].seek \in Nat
    <3> HIDE DEF x
    <3> QED BY <2>4, InputFacts DEF Input
  <2> QED BY <2>5, <2>6
<1> QED BY <1>1, <1>2

LEMMA CutoffTypes ==
  ASSUME JobOK, NEW o \in DOMAIN job.outs
  PROVE  /\ Offset(job.outs[o]) \in Nat /\ out_cutoff(job.outs[o]) \in Nat \cup {Forever}
         /\ \A base \in Int : SourceCutoff(job.outs[o], base) \in Int
BY OutFacts, SeekOffsetType DEF Offset, out_cutoff, SourceCutoff, Forever

LEMMA PacketType ==
  ASSUME JobOK, NEW i \in DOMAIN job.inputs, NEW n \in Nat \ {0},
         n <= Len(Input(i).pkts) \/ Input(i).end = "endless"
  PROVE  PacketOf(i, n) \in PktType
<1> DEFINE p == Input(i).pkts
<1>1. p \in Seq(PktType)
  BY InputFacts
<1>2. CASE n <= Len(p)
  <2>1. p[n] \in PktType
    BY <1>1, <1>2
  <2>2. PacketOf(i, n) = p[n]
    BY <1>2 DEF PacketOf
  <2> QED BY <2>1, <2>2
<1>3. CASE ~(n <= Len(p))
  <2>1. p # <<>>
    BY <1>3, InputFacts
  <2>2. p[Len(p)] \in PktType /\ Len(p) \in Nat /\ n - Len(p) \in Nat
    BY <1>1, <1>3, <2>1
  <2>3. PacketOf(i, n) = [p[Len(p)] EXCEPT !.t = @ + n - Len(p)]
    BY <1>3 DEF PacketOf
  <2>4. p[Len(p)].t \in Nat /\ p[Len(p)].t + n - Len(p) \in Nat
    BY <2>2 DEF PktType
  <2> QED BY <2>2, <2>3, <2>4 DEF PktType
<1> QED BY <1>2, <1>3
-----------------------------------------------------------------------------
(* What the lanes make of what they are given *)

LEMMA KeptType ==
  ASSUME JobOK, NEW g, NEW ts \in Seq(Nat)
  PROVE  Kept(g, ts) \in Seq(Nat) /\ Len(Kept(g, ts)) <= Len(ts)
BY OnlyType DEF Kept

LEMMA EncOutType ==
  ASSUME JobOK, NEW s \in DOMAIN job.gouts, NEW ts \in Seq(Int)
  PROVE  EncOut(s, ts) \in Seq(Int)
<1> DEFINE o == job.outs[job.gouts[s].out]
<1>1. Offset(o) \in Int
  BY ChainFacts, CutoffTypes
<1>2. Shifted(ts, Offset(o)) \in Seq(Int)
  BY <1>1, ShiftedType
<1>3. \A S : Only(Shifted(ts, Offset(o)), S) \in Seq(Int)
  BY <1>2, OnlyType
<1> QED BY <1>3 DEF EncOut

LEMMA CopyOutType ==
  ASSUME JobOK, NEW c \in DOMAIN job.cpys, NEW base \in Int, NEW ts \in Seq(Int)
  PROVE  CopyOut(c, base, ts) \in Seq(Int)
<1> DEFINE o == job.outs[job.cpys[c].out]
           d == IF o.copyTs THEN 0 ELSE -base
<1>1. d \in Int
  OBVIOUS
<1>2. \A S : Only(ts, S) \in Seq(Int)
  BY OnlyType
<1>3. \A S : Shifted(Only(ts, S), d) \in Seq(Int)
  BY <1>1, <1>2, ShiftedType
<1> QED BY <1>3 DEF CopyOut

LEMMA SubOutType ==
  ASSUME JobOK, NEW s \in DOMAIN job.subs, NEW ts \in Seq(Int)
  PROVE  SubOut(s, ts) \in Seq(Int)
<1> DEFINE o == job.outs[job.subs[s].out]
           d == IF o.copyTs THEN 0 ELSE -SeekBase(job.subs[s].in)
<1>1. d \in Int
  BY SubFacts, InputFacts
<1>2. \A S : Only(ts, S) \in Seq(Int)
  BY OnlyType
<1>3. \A S : Shifted(Only(ts, S), d) \in Seq(Int)
  BY <1>1, <1>2, ShiftedType
<1> QED BY <1>3 DEF SubOut

LEMMA ThroughType ==
  ASSUME ProcessAssumption, NEW h \in Seq(Nat), Len(h) <= Lag, NEW t \in Nat
  PROVE  /\ Through(h, t)[1] \in Seq(Nat) /\ Len(Through(h, t)[1]) <= 1
         /\ Through(h, t)[2] \in Seq(Nat) /\ Len(Through(h, t)[2]) <= Lag
BY DEF Through, ProcessAssumption

LEMMA UnitsType ==
  ASSUME NEW lane \in {"enc", "cpy", "sub"}, NEW n \in Nat, NEW ts \in Seq(Int)
  PROVE  Units(lane, n, ts) \in Seq(UnitType) /\ Len(Units(lane, n, ts)) = Len(ts)
<1>1. \A i \in 1..Len(ts) : [lane |-> lane, n |-> n, t |-> ts[i]] \in UnitType
  BY DEF UnitType
<1>2. DOMAIN ts = 1..Len(ts) /\ Len(ts) \in Nat
  OBVIOUS
<1> HIDE DEF UnitType
<1> QED BY <1>1, <1>2 DEF Units

LEMMA MuxedType ==
  ASSUME JobOK, muxed \in [DOMAIN job.outs -> Seq(UnitType)], NEW o \in DOMAIN job.outs,
         NEW lane \in {"enc", "cpy", "sub"}, NEW n \in Nat, NEW ts \in Seq(Int)
  PROVE  Muxed(o, lane, n, ts) \in [DOMAIN job.outs -> Seq(UnitType)]
<1>1. muxed[o] \o Units(lane, n, ts) \in Seq(UnitType)
  BY UnitsType
<1> QED BY <1>1 DEF Muxed
-----------------------------------------------------------------------------
(* The types *)

\* The packet in hand is being handed on, to the graph, the copies and the subs.
Handling == pc \in {"copy", "sub"} \/ (pc = "pull" /\ then = "copy")

\* TypeOK, and what it takes to be inductive: a pull knows where it returns to, and
\* the other loops count from one.
TypeInv ==
  /\ TypeOK /\ WellFormed(job)
  /\ IF pc = "pull" THEN then # "none" ELSE pc = "end" \/ k >= 1
  /\ Handling => pkt \in PktType

LEMMA TypeFacts ==
  ASSUME TypeInv
  PROVE  JobOK
BY DEF TypeInv, TypeOK, JobOK

LEMMA RawType ==
  ASSUME TypeInv, NEW s \in DOMAIN job.gouts
  PROVE  Raw(s) \in Seq(Int)
<1> DEFINE srcs == job.gouts[s].srcs
<1>1. \A n \in DOMAIN srcs : fed[srcs[n]] \in Seq(Int)
  BY TypeFacts, ChainFacts DEF TypeInv, TypeOK
<1>2. Len(srcs) \in 1..2 /\ DOMAIN srcs = 1..Len(srcs)
  BY TypeFacts, ChainFacts
<1>3. CASE Len(srcs) = 1
  BY <1>1, <1>2, <1>3 DEF Raw
<1>4. CASE Len(srcs) = 2
  <2> DEFINE a == fed[srcs[1]]
             b == IF closed[srcs[1]] THEN fed[srcs[2]] ELSE <<>>
             d == IF a = <<>> THEN 0 ELSE a[Len(a)] + 1
  <2>1. a \in Seq(Int) /\ b \in Seq(Int)
    BY <1>1, <1>4, <1>2
  <2>2. Raw(s) = Joined(a, b)
    BY <1>4 DEF Raw
  <2> HIDE DEF a, b
  <2>3. d \in Int
    BY <2>1
  <2>4. Joined(a, b) = a \o [n \in DOMAIN b |-> b[n] + d]
    BY DEF Joined
  <2> HIDE DEF d
  <2>5. [n \in DOMAIN b |-> b[n] + d] \in Seq(Int)
    BY <2>1, <2>3
  <2> QED BY <2>1, <2>2, <2>4, <2>5
<1> QED BY <1>2, <1>3, <1>4

LEMMA ChainedType ==
  ASSUME NEW ch \in ChainType, NEW raw \in Seq(Int)
  PROVE  Chained(ch, raw) \in Seq(Int) /\ Len(Chained(ch, raw)) <= Len(raw)
<1> DEFINE m == IF Len(raw) < ch.n THEN Len(raw) ELSE ch.n
<1>1. ch.n \in Nat
  BY DEF ChainType
<1>2. CASE ch.kind = "trim"
  <2>1. m \in 0..Len(raw) /\ Chained(ch, raw) = SubSeq(raw, 1, m)
    BY <1>1, <1>2 DEF Chained
  <2> HIDE DEF m
  <2>2. SubSeq(raw, 1, m) \in Seq(Int) /\ Len(SubSeq(raw, 1, m)) = m
    BY <2>1
  <2>3. m <= Len(raw)
    BY <2>1
  <2> QED BY <2>1, <2>2, <2>3
<1>3. CASE ch.kind = "speed"
  <2> DEFINE q == [n \in DOMAIN raw |-> raw[n] \div 2]
  <2>1. Chained(ch, raw) = q
    BY <1>3 DEF Chained
  <2>2. \A n \in DOMAIN raw : raw[n] \div 2 \in Int
    OBVIOUS
  <2>3. q \in [1..Len(raw) -> Int]
    BY <2>2
  <2> HIDE DEF q
  <2>4. q \in Seq(Int) /\ Len(q) = Len(raw)
    BY <2>3
  <2> QED BY <2>1, <2>4
<1>4. CASE ch.kind \notin {"trim", "speed"}
  BY <1>4 DEF Chained
<1> QED BY <1>2, <1>3, <1>4

LEMMA FrameType ==
  ASSUME TypeInv, NEW s \in DOMAIN job.gouts, NEW n \in Nat \ {0}, HasFrame(s, n)
  PROVE  FrameAt(s, n) \in Int
<1>1. Raw(s) \in Seq(Int) /\ job.gouts[s] \in ChainType
  BY RawType, TypeFacts, JobFacts
<1>2. Chained(job.gouts[s], Raw(s)) \in Seq(Int)
  BY <1>1, ChainedType
<1>3. CASE Endless(s)
  <2>1. Raw(s)[1] \in Int
    BY <1>1, <1>3 DEF Endless
  <2> QED BY <1>3, <2>1 DEF FrameAt
<1>4. CASE ~Endless(s)
  <2>1. n \in 1..Len(Chained(job.gouts[s], Raw(s)))
    BY <1>2, <1>4 DEF HasFrame
  <2> QED BY <1>2, <1>4, <2>1 DEF FrameAt
<1> QED BY <1>3, <1>4

\* What the pads are after the frames of a decoder have been pushed.
PadTypes ==
  /\ fed \in [DOMAIN job.gins -> Seq(Int)] /\ closed \in [DOMAIN job.gins -> BOOLEAN]
  /\ rebase0 \in [DOMAIN job.gins -> Nat \cup {None}]

LEMMA PushTypes ==
  ASSUME TypeInv, NEW G, NEW ending, PushFrames(G, ending), UNCHANGED job,
         \A g \in DOMAIN G : G[g] \in Seq(Nat)
  PROVE  PadTypes'
<1> DEFINE f(g)    == job.inputs[job.gins[g].in]
           kept(g) == IF g \in DOMAIN G THEN Kept(g, G[g]) ELSE <<>>
           base(g) == IF rebase0[g] # None \/ f(g).seek = None \/ kept(g) = <<>> THEN rebase0[g]
                      ELSE IF f(g).accurate THEN f(g).seek ELSE kept(g)[1]
           shut(g) == closed[g] \/ (kept(g) # <<>> /\ Refuses(g))
           move(g) == IF f(g).seek = None THEN 0 ELSE -base(g)
<1>1. /\ DOMAIN fed = DOMAIN job.gins
      /\ rebase0' = [g \in DOMAIN fed |-> base(g)]
      /\ fed' = [g \in DOMAIN fed |-> IF shut(g) THEN fed[g] ELSE fed[g] \o Shifted(kept(g), move(g))]
      /\ closed' = [g \in DOMAIN fed |-> shut(g) \/ g \in ending]
  BY DEF PushFrames, TypeInv, TypeOK
<1>2. ASSUME NEW g \in DOMAIN job.gins
      PROVE  base(g) \in Nat \cup {None} /\ kept(g) \in Seq(Nat)
  <2>1. kept(g) \in Seq(Nat)
    BY KeptType, TypeFacts
  <2>2. f(g).seek \in Nat \cup {None}
    BY TypeFacts, PadFacts, InputFacts DEF Input
  <2>3. rebase0[g] \in Nat \cup {None}
    BY DEF TypeInv, TypeOK
  <2> HIDE DEF kept, f
  <2>4. kept(g) # <<>> => kept(g)[1] \in Nat
    BY <2>1
  <2> QED BY <2>1, <2>2, <2>3, <2>4
<1>3. ASSUME NEW g \in DOMAIN job.gins
      PROVE  fed[g] \o Shifted(kept(g), move(g)) \in Seq(Int) /\ fed[g] \in Seq(Int)
  <2>1. fed[g] \in Seq(Int)
    BY DEF TypeInv, TypeOK
  <2>2. move(g) \in Int /\ kept(g) \in Seq(Int)
    <3> HIDE DEF kept, base, f
    <3> QED BY <1>2 DEF None
  <2> HIDE DEF kept, move
  <2>3. Shifted(kept(g), move(g)) \in Seq(Int)
    BY <2>2, ShiftedType
  <2> QED BY <2>1, <2>3
<1>4. \A g \in DOMAIN job.gins : closed[g] \in BOOLEAN
  BY DEF TypeInv, TypeOK
<1> HIDE DEF base, shut, kept, move
<1>5. rebase0' \in [DOMAIN job.gins -> Nat \cup {None}]
  BY <1>1, <1>2
<1>6. fed' \in [DOMAIN job.gins -> Seq(Int)]
  BY <1>1, <1>3
<1>7. \A g \in DOMAIN job.gins : shut(g) \in BOOLEAN
  BY <1>4 DEF shut, Refuses
<1>8. closed' \in [DOMAIN job.gins -> BOOLEAN]
  BY <1>1, <1>7
<1> QED BY <1>5, <1>6, <1>8 DEF PadTypes

LEMMA ModBound ==
  \A a \in Nat, b \in Nat \ {0} : (a % b) + 1 \in 1..b
OBVIOUS

LEMMA NextInputType ==
  ASSUME TypeInv, NextInput
  PROVE  in' \in DOMAIN job.inputs
<1>1. in \in 1..Len(job.inputs) /\ Len(job.inputs) \in Nat \ {0} /\ DOMAIN job.inputs = 1..Len(job.inputs)
  BY TypeFacts, JobFacts DEF TypeInv, TypeOK
<1>2. PICK L \in Nat \ {0} : L = Len(job.inputs)
  BY <1>1
<1>3. PICK a \in Nat : a = in
  BY <1>1
<1>4. (a % L) + 1 \in 1..L
  BY ModBound
<1> QED BY <1>1, <1>2, <1>3, <1>4 DEF NextInput

LEMMA EndInputTypes ==
  ASSUME TypeInv, EndInput(in)
  PROVE  TypeInv'
<1> DEFINE mine == {g \in DOMAIN job.gins : job.gins[g].in = in}
<1>1. UNCHANGED job /\ PushFrames([g \in mine |-> dec[g]], mine)
  BY DEF EndInput
<1>2. \A g \in mine : dec[g] \in Seq(Nat)
  BY DEF TypeInv, TypeOK
<1>3. PadTypes'
  <2> HIDE DEF mine
  <2> QED BY <1>1, <1>2, PushTypes
<1>4. dec' \in [DOMAIN job.gins -> Seq(Nat)] /\ \A g \in DOMAIN job.gins : Len(dec'[g]) <= Lag
  <2>1. dec' = [g \in DOMAIN dec |-> IF g \in mine THEN <<>> ELSE dec[g]] /\ DOMAIN dec = DOMAIN job.gins
    BY DEF EndInput, TypeInv, TypeOK
  <2>2. <<>> \in Seq(Nat) /\ Len(<<>>) <= Lag
    BY ProcessAssumption DEF ProcessAssumption
  <2>3. \A g \in DOMAIN job.gins : dec[g] \in Seq(Nat) /\ Len(dec[g]) <= Lag
    BY DEF TypeInv, TypeOK
  <2> HIDE DEF mine
  <2> QED BY <2>1, <2>2, <2>3
<1>5. eof' \in [DOMAIN job.inputs -> BOOLEAN]
  BY DEF EndInput, TypeInv, TypeOK
<1>6. pc' = "flushsub" /\ k' = 1
  BY DEF EndInput, Goto
<1>7. UNCHANGED <<job, in, pkt, then, next, sinkVars, laneVars, outVars, rc, faults>>
  BY DEF EndInput
<1> HIDE DEF PadTypes
<1>8. TypeOK'
  BY <1>3, <1>4, <1>5, <1>6, <1>7 DEF TypeInv, TypeOK, PadTypes, sinkVars, laneVars, outVars
<1> QED BY <1>6, <1>7, <1>8 DEF TypeInv, Handling

LEMMA ReadTypes ==
  ASSUME TypeInv, Read
  PROVE  TypeInv'
<1> DEFINE mine == {g \in DOMAIN job.gins : job.gins[g] = [in |-> in, st |-> pkt'.st]}
           G == [g \in mine |-> Through(dec[g], pkt'.t)[1]]
<1>1. pkt' \in PktType /\ next' \in [DOMAIN job.inputs -> Nat]
  <2>1. next[in] \in Nat /\ in \in DOMAIN job.inputs /\ next \in [DOMAIN job.inputs -> Nat]
    BY DEF TypeInv, TypeOK
  <2>2. next[in] + 1 <= Len(Input(in).pkts) \/ Input(in).end = "endless"
    <3>1. Len(Input(in).pkts) \in Nat
      BY <2>1, TypeFacts, InputFacts
    <3> QED BY <2>1, <3>1 DEF Read, More
  <2>3. Coming(in) \in PktType
    BY <2>1, <2>2, TypeFacts, PacketType DEF Coming
  <2> QED BY <2>1, <2>3 DEF Read
<1>2. UNCHANGED job /\ PushFrames(G, {})
  BY DEF Read
<1>3. \A g \in DOMAIN job.gins : /\ Through(dec[g], pkt'.t)[1] \in Seq(Nat)
                                /\ Through(dec[g], pkt'.t)[2] \in Seq(Nat)
                                /\ Len(Through(dec[g], pkt'.t)[2]) <= Lag
  <2>1. \A g \in DOMAIN job.gins : dec[g] \in Seq(Nat) /\ Len(dec[g]) <= Lag
    BY DEF TypeInv, TypeOK
  <2>2. pkt'.t \in Nat
    BY <1>1 DEF PktType
  <2> QED BY <2>1, <2>2, ThroughType, ProcessAssumption
<1>4. PadTypes'
  <2>1. \A g \in DOMAIN G : G[g] \in Seq(Nat)
    BY <1>3
  <2> HIDE DEF G
  <2> QED BY <1>2, <2>1, PushTypes
<1>5. dec' \in [DOMAIN job.gins -> Seq(Nat)] /\ \A g \in DOMAIN job.gins : Len(dec'[g]) <= Lag
  <2>1. /\ dec' = [g \in DOMAIN dec |-> IF g \in mine THEN Through(dec[g], pkt'.t)[2] ELSE dec[g]]
        /\ DOMAIN dec = DOMAIN job.gins
    BY DEF Read, TypeInv, TypeOK
  <2>2. \A g \in DOMAIN job.gins : dec[g] \in Seq(Nat) /\ Len(dec[g]) <= Lag
    BY DEF TypeInv, TypeOK
  <2> HIDE DEF mine
  <2> QED BY <1>3, <2>1, <2>2
<1>6. pc' = "pull" /\ k' = 0 /\ then' = "copy"
  BY DEF Read
<1>7. UNCHANGED <<job, in, eof, sinkVars, laneVars, outVars, rc, faults>>
  BY DEF Read
<1>8. pkt' \in [st : 0..2, t : Nat]
  BY <1>1 DEF PktType
<1> HIDE DEF PadTypes
<1>9. TypeOK'
  BY <1>1, <1>4, <1>5, <1>6, <1>7, <1>8 DEF TypeInv, TypeOK, PadTypes, sinkVars, laneVars, outVars
<1> QED BY <1>1, <1>6, <1>7, <1>9 DEF TypeInv, Handling

\* The steps that push no frame: what they may change of each part.
LEMMA SkipTypes ==
  ASSUME TypeInv, Skip
  PROVE  TypeInv'
<1>1. in' \in DOMAIN job.inputs
  BY NextInputType DEF Skip, TypeInv, TypeOK
<1>2. TypeOK'
  BY <1>1 DEF Skip, TypeInv, TypeOK, inVars, padVars, sinkVars, laneVars, outVars
<1> QED BY <1>2 DEF Skip, TypeInv, Handling, TypeOK

LEMMA ReadFailsTypes ==
  ASSUME TypeInv, ReadFails
  PROVE  TypeInv'
<1>1. TypeOK'
  BY DEF ReadFails, TypeInv, TypeOK, inVars, padVars, sinkVars, laneVars, outVars
<1> QED BY <1>1 DEF ReadFails, TypeInv, Handling

LEMMA CallFailsTypes ==
  ASSUME TypeInv, CallFails
  PROVE  TypeInv'
<1>1. TypeOK'
  BY ProcessAssumption DEF ProcessAssumption, CallFails, TypeInv, TypeOK, inVars, padVars, sinkVars, laneVars, outVars
<1> QED BY <1>1 DEF CallFails, TypeInv, Handling

\* What the writing of a copied packet leaves.
LEMMA CopyTypes ==
  ASSUME TypeInv, NEW c \in DOMAIN job.cpys, NEW ts \in Seq(Nat), write_copy_pkt(c, ts)
  PROVE  /\ cpyRebase' \in [DOMAIN job.inputs -> [DOMAIN job.outs -> Nat \cup {None}]]
         /\ muxed' \in [DOMAIN job.outs -> Seq(UnitType)]
<1> DEFINE cp   == job.cpys[c]
           was  == cpyRebase[cp.in][cp.out]
           base == IF was # None \/ ts = <<>> THEN was ELSE ts[1]
<1>1. cp.in \in DOMAIN job.inputs /\ cp.out \in DOMAIN job.outs /\ c \in Nat
  BY TypeFacts, CopyFacts
<1>2. cpyRebase \in [DOMAIN job.inputs -> [DOMAIN job.outs -> Nat \cup {None}]]
  BY DEF TypeInv, TypeOK
<1>3. base \in Nat \cup {None}
  <2>1. was \in Nat \cup {None}
    BY <1>1, <1>2
  <2>2. ts # <<>> => ts[1] \in Nat
    OBVIOUS
  <2> HIDE DEF was
  <2> QED BY <2>1, <2>2
<1>4. /\ cpyRebase' = [cpyRebase EXCEPT ![cp.in][cp.out] = base]
      /\ muxed' = Muxed(cp.out, "cpy", c, CopyOut(c, base, ts))
  BY DEF write_copy_pkt
<1> HIDE DEF base
<1>5. CopyOut(c, base, ts) \in Seq(Int)
  <2>1. ts \in Seq(Int) /\ base \in Int
    BY <1>3 DEF None
  <2> QED BY <2>1, TypeFacts, CopyOutType
<1>6. muxed' \in [DOMAIN job.outs -> Seq(UnitType)]
  BY <1>1, <1>4, <1>5, TypeFacts, MuxedType DEF TypeInv, TypeOK
<1>7. cpyRebase' \in [DOMAIN job.inputs -> [DOMAIN job.outs -> Nat \cup {None}]]
  <2>1. [cpyRebase[cp.in] EXCEPT ![cp.out] = base] \in [DOMAIN job.outs -> Nat \cup {None}]
    BY <1>1, <1>2, <1>3
  <2> QED BY <1>1, <1>2, <1>4, <2>1
<1> QED BY <1>6, <1>7

LEMMA SubTypes ==
  ASSUME TypeInv, NEW s \in DOMAIN job.subs, NEW ts \in Seq(Nat), write_sub_pkt(s, ts)
  PROVE  muxed' \in [DOMAIN job.outs -> Seq(UnitType)]
<1>1. job.subs[s].out \in DOMAIN job.outs /\ s \in Nat
  BY TypeFacts, SubFacts
<1>2. SubOut(s, ts) \in Seq(Int)
  <2>1. ts \in Seq(Int)
    OBVIOUS
  <2> QED BY <2>1, TypeFacts, SubOutType
<1> QED BY <1>1, <1>2, TypeFacts, MuxedType DEF write_sub_pkt, TypeInv, TypeOK

LEMMA EncodedType ==
  ASSUME TypeInv, NEW s \in DOMAIN job.gouts, NEW ts \in Seq(Int)
  PROVE  Encoded(s, ts) \in [DOMAIN job.outs -> Seq(UnitType)]
<1>1. job.gouts[s].out \in DOMAIN job.outs /\ s \in Nat
  BY TypeFacts, ChainFacts, JobFacts
<1>2. EncOut(s, ts) \in Seq(Int)
  BY TypeFacts, EncOutType
<1> QED BY <1>1, <1>2, TypeFacts, MuxedType DEF Encoded, TypeInv, TypeOK

\* A position in a sequence that is not past its end is in its domain.
LEMMA InDomain ==
  ASSUME NEW T, NEW s \in Seq(T), NEW n \in Nat, n >= 1, ~(n > Len(s))
  PROVE  n \in DOMAIN s
OBVIOUS

\* The packet goes through a decoder or a filter of the lane at hand.
LEMMA LaneThrough ==
  ASSUME ProcessAssumption, TypeInv, pkt \in PktType, NEW h \in Seq(Nat), Len(h) <= Lag
  PROVE  /\ Through(h, pkt.t)[1] \in Seq(Nat) /\ Through(h, pkt.t)[2] \in Seq(Nat)
         /\ Len(Through(h, pkt.t)[2]) <= Lag
<1>1. pkt.t \in Nat
  BY DEF PktType
<1> QED BY <1>1, ThroughType

LEMMA FlushSubTypes ==
  ASSUME TypeInv, FlushSub
  PROVE  TypeInv'
<1>1. UNCHANGED <<job, in, pkt, inVars, padVars, sinkVars, cpyRebase, held, trailer, rc, faults>> /\ pc = "flushsub"
  BY DEF FlushSub
<1>2. CASE k > Len(job.subs)
  <2>1. pc' = "pull" /\ k' = 0 /\ then' = "read" /\ UNCHANGED <<muxed, cue>>
    BY <1>2 DEF FlushSub
  <2>2. TypeOK'
    BY <1>1, <2>1 DEF TypeInv, TypeOK, inVars, padVars, sinkVars
  <2> QED BY <1>1, <2>1, <2>2 DEF TypeInv, TypeOK, Handling
<1>3. CASE ~(k > Len(job.subs))
  <2>1. k \in DOMAIN job.subs
    BY <1>1, <1>3, TypeFacts, JobFacts, InDomain DEF TypeInv, TypeOK
  <2>2. k' = k + 1 /\ UNCHANGED <<pc, then>> /\ pc = "flushsub"
    BY <1>3 DEF FlushSub
  <2>3. /\ muxed' \in [DOMAIN job.outs -> Seq(UnitType)]
        /\ cue' \in [DOMAIN job.subs -> Seq(Nat)] /\ \A s \in DOMAIN job.subs : Len(cue'[s]) <= Lag
    <3>1. CASE job.subs[k].in = in
      <4>1. write_sub_pkt(k, cue[k]) /\ cue' = [cue EXCEPT ![k] = <<>>]
        BY <1>3, <3>1 DEF FlushSub
      <4>2. cue[k] \in Seq(Nat) /\ <<>> \in Seq(Nat) /\ Len(<<>>) <= Lag
        BY <2>1, ProcessAssumption DEF ProcessAssumption, TypeInv, TypeOK
      <4>3. muxed' \in [DOMAIN job.outs -> Seq(UnitType)]
        BY <2>1, <4>1, <4>2, SubTypes
      <4> QED BY <2>1, <4>1, <4>2, <4>3 DEF TypeInv, TypeOK
    <3>2. CASE job.subs[k].in # in
      BY <1>3, <3>2 DEF FlushSub, TypeInv, TypeOK
    <3> QED BY <3>1, <3>2
  <2>4. TypeOK'
    BY <1>1, <2>2, <2>3 DEF TypeInv, TypeOK, inVars, padVars, sinkVars
  <2> QED BY <1>1, <2>2, <2>4 DEF TypeInv, TypeOK, Handling
<1> QED BY <1>2, <1>3

LEMMA CopyStepTypes ==
  ASSUME TypeInv, Copy
  PROVE  TypeInv'
<1>1. UNCHANGED <<job, in, pkt, then, inVars, padVars, sinkVars, cue, trailer, rc, faults>> /\ pc = "copy"
  BY DEF Copy
<1>2. pkt \in PktType
  BY <1>1 DEF TypeInv, TypeOK, Handling
<1>3. CASE k > Len(job.cpys)
  <2>1. pc' = "sub" /\ k' = 1 /\ UNCHANGED <<cpyRebase, held, muxed>>
    BY <1>3 DEF Copy, Goto
  <2>2. TypeOK'
    BY <1>1, <2>1 DEF TypeInv, TypeOK, inVars, padVars, sinkVars
  <2> QED BY <1>1, <1>2, <2>1, <2>2 DEF TypeInv, TypeOK, Handling
<1>4. CASE ~(k > Len(job.cpys))
  <2> DEFINE cp == job.cpys[k]
             io == IF cp.bsf THEN Through(held[k], pkt.t) ELSE <<<<pkt.t>>, <<>>>>
  <2>1. k \in DOMAIN job.cpys
    BY <1>1, <1>4, TypeFacts, JobFacts, InDomain DEF TypeInv, TypeOK
  <2>2. k' = k + 1 /\ UNCHANGED pc
    BY <1>4 DEF Copy
  <2>3. io[1] \in Seq(Nat) /\ io[2] \in Seq(Nat) /\ Len(io[2]) <= Lag
    <3>1. CASE cp.bsf
      BY <1>2, <2>1, <3>1, LaneThrough, ProcessAssumption DEF TypeInv, TypeOK
    <3>2. CASE ~cp.bsf
      <4>1. pkt.t \in Nat
        BY <1>2 DEF PktType
      <4> QED BY <3>2, <4>1, ProcessAssumption DEF ProcessAssumption
    <3> QED BY <3>1, <3>2
  <2>4. /\ cpyRebase' \in [DOMAIN job.inputs -> [DOMAIN job.outs -> Nat \cup {None}]]
        /\ muxed' \in [DOMAIN job.outs -> Seq(UnitType)]
        /\ held' \in [DOMAIN job.cpys -> Seq(Nat)] /\ \A c \in DOMAIN job.cpys : Len(held'[c]) <= Lag
    <3>1. CASE cp.in = in /\ cp.st = pkt.st
      <4>1. write_copy_pkt(k, io[1]) /\ held' = [held EXCEPT ![k] = io[2]]
        BY <1>4, <3>1 DEF Copy
      <4> HIDE DEF io
      <4>2. /\ cpyRebase' \in [DOMAIN job.inputs -> [DOMAIN job.outs -> Nat \cup {None}]]
            /\ muxed' \in [DOMAIN job.outs -> Seq(UnitType)]
        BY <2>1, <2>3, <4>1, CopyTypes
      <4> QED BY <2>1, <2>3, <4>1, <4>2 DEF TypeInv, TypeOK
    <3>2. CASE ~(cp.in = in /\ cp.st = pkt.st)
      BY <1>4, <3>2 DEF Copy, TypeInv, TypeOK
    <3> QED BY <3>1, <3>2
  <2>5. TypeOK'
    BY <1>1, <2>2, <2>4 DEF TypeInv, TypeOK, inVars, padVars, sinkVars
  <2> QED BY <1>1, <1>2, <2>2, <2>5 DEF TypeInv, TypeOK, Handling
<1> QED BY <1>3, <1>4

LEMMA SubStepTypes ==
  ASSUME TypeInv, Sub
  PROVE  TypeInv'
<1>1. UNCHANGED <<job, pkt, then, inVars, padVars, sinkVars, cpyRebase, held, trailer, rc, faults>> /\ pc = "sub"
  BY DEF Sub
<1>2. pkt \in PktType
  BY <1>1 DEF TypeInv, TypeOK, Handling
<1>3. CASE k > Len(job.subs)
  <2>1. pc' = "read" /\ k' = 1 /\ NextInput /\ UNCHANGED <<cue, muxed>>
    BY <1>3 DEF Sub, Goto
  <2>2. in' \in DOMAIN job.inputs
    BY <2>1, NextInputType
  <2>3. TypeOK'
    BY <1>1, <2>1, <2>2 DEF TypeInv, TypeOK, inVars, padVars, sinkVars
  <2> QED BY <1>1, <1>2, <2>1, <2>3 DEF TypeInv, TypeOK, Handling
<1>4. CASE ~(k > Len(job.subs))
  <2> DEFINE io == Through(cue[k], pkt.t)
  <2>1. k \in DOMAIN job.subs
    BY <1>1, <1>4, TypeFacts, JobFacts, InDomain DEF TypeInv, TypeOK
  <2>2. k' = k + 1 /\ UNCHANGED <<pc, in>>
    BY <1>4 DEF Sub
  <2>3. io[1] \in Seq(Nat) /\ io[2] \in Seq(Nat) /\ Len(io[2]) <= Lag
    BY <1>2, <2>1, LaneThrough, ProcessAssumption DEF TypeInv, TypeOK
  <2>4. /\ muxed' \in [DOMAIN job.outs -> Seq(UnitType)]
        /\ cue' \in [DOMAIN job.subs -> Seq(Nat)] /\ \A c \in DOMAIN job.subs : Len(cue'[c]) <= Lag
    <3>1. CASE job.subs[k].in = in /\ job.subs[k].st = pkt.st
      <4>1. write_sub_pkt(k, io[1]) /\ cue' = [cue EXCEPT ![k] = io[2]]
        BY <1>4, <3>1 DEF Sub
      <4> HIDE DEF io
      <4>2. muxed' \in [DOMAIN job.outs -> Seq(UnitType)]
        BY <2>1, <2>3, <4>1, SubTypes
      <4> QED BY <2>1, <2>3, <4>1, <4>2 DEF TypeInv, TypeOK
    <3>2. CASE ~(job.subs[k].in = in /\ job.subs[k].st = pkt.st)
      BY <1>4, <3>2 DEF Sub, TypeInv, TypeOK
    <3> QED BY <3>1, <3>2
  <2>5. TypeOK'
    BY <1>1, <2>2, <2>4 DEF TypeInv, TypeOK, inVars, padVars, sinkVars
  <2> QED BY <1>1, <1>2, <2>2, <2>5 DEF TypeInv, TypeOK, Handling
<1> QED BY <1>3, <1>4

LEMMA PullReturnsTypes ==
  ASSUME TypeInv, PullReturns, pc = "pull"
  PROVE  /\ in' \in DOMAIN job.inputs /\ k' = 1
         /\ pc' \in {"read", "copy", "drain"} /\ pc' = then
BY NextInputType DEF PullReturns, TypeInv, TypeOK

LEMMA PullTypes ==
  ASSUME TypeInv, Pull
  PROVE  TypeInv'
<1>1. pc = "pull" /\ UNCHANGED <<job, pkt, then, inVars, padVars, laneVars, trailer, rc, faults>>
  BY DEF Pull, PullStarts, PullDone, PullFrame, PullNothing, PullEnds, sinkVars, outVars
<1>2. SUFFICES /\ UNCHANGED pc \/ (PullReturns)
               /\ k' \in Nat /\ in' \in DOMAIN job.inputs
               /\ taken' \in [DOMAIN job.gouts -> Nat] /\ done' \in [DOMAIN job.gouts -> BOOLEAN]
               /\ enc' \in [DOMAIN job.gouts -> Seq(Int)] /\ \A s \in DOMAIN job.gouts : Len(enc'[s]) <= Lag
               /\ muxed' \in [DOMAIN job.outs -> Seq(UnitType)]
  <2>1. pc' \in {"read", "copy", "drain", "pull"} /\ (pc' = "copy" => then = "copy")
        /\ (pc' # "pull" => k' = 1)
    BY <1>1, <1>2, PullReturnsTypes DEF TypeInv, TypeOK
  <2>2. TypeOK'
    BY <1>1, <1>2, <2>1 DEF TypeInv, TypeOK, inVars, padVars, laneVars
  <2> QED BY <1>1, <2>1, <2>2 DEF TypeInv, Handling
<1>3. CASE PullStarts
  BY <1>1, <1>3, PullReturnsTypes DEF PullStarts, TypeInv, TypeOK, sinkVars, outVars
<1>4. CASE PullDone
  <2>1. k \in DOMAIN job.gouts /\ Chained(job.gouts[k], Raw(k)) \in Seq(Int)
    BY <1>4, TypeFacts, JobFacts, RawType, ChainedType DEF PullDone
  <2> DEFINE n == IF Endless(k) THEN taken[k] ELSE Len(Chained(job.gouts[k], Raw(k)))
  <2>2. n \in Nat
    BY <2>1 DEF TypeInv, TypeOK
  <2>3. taken' = [taken EXCEPT ![k] = n] /\ k' = k + 1 /\ UNCHANGED <<pc, in, done, enc, outVars>>
    BY <1>4 DEF PullDone
  <2> HIDE DEF n
  <2> QED BY <2>1, <2>2, <2>3 DEF TypeInv, TypeOK, outVars
<1>5. CASE PullFrame
  <2> DEFINE t == FrameAt(k, taken[k] + 1)
             o == job.outs[job.gouts[k].out]
             io == Through(enc[k], t)
  <2>1. /\ k \in DOMAIN job.gouts /\ HasFrame(k, taken[k] + 1) /\ taken' = [taken EXCEPT ![k] = @ + 1]
        /\ UNCHANGED <<pc, in>>
    BY <1>5 DEF PullFrame
  <2>2. taken[k] \in Nat /\ k \in Nat /\ enc[k] \in Seq(Int) /\ Len(enc[k]) <= Lag
    BY <2>1 DEF TypeInv, TypeOK
  <2>3. t \in Int
    BY <2>1, <2>2, FrameType
  <2>4. taken' \in [DOMAIN job.gouts -> Nat]
    BY <2>1, <2>2 DEF TypeInv, TypeOK
  <2>5. CASE ~Within(t + Offset(o), out_cutoff(o))
    <3>1. done' = [done EXCEPT ![k] = TRUE] /\ k' = k + 1 /\ UNCHANGED <<enc, muxed>>
      BY <1>5, <2>5 DEF PullFrame
    <3> HIDE DEF t, o
    <3> QED BY <2>1, <2>2, <2>4, <3>1 DEF TypeInv, TypeOK
  <2>6. CASE Within(t + Offset(o), out_cutoff(o))
    <3>1. muxed' = Encoded(k, io[1]) /\ enc' = [enc EXCEPT ![k] = io[2]] /\ UNCHANGED <<done, k>>
      BY <1>5, <2>6 DEF PullFrame
    <3> HIDE DEF t, o
    <3>2. io[1] \in Seq(Int) /\ io[2] \in Seq(Int) /\ Len(io[2]) <= Lag
      BY <2>2, <2>3, ProcessAssumption DEF Through, ProcessAssumption
    <3> HIDE DEF io
    <3>3. muxed' \in [DOMAIN job.outs -> Seq(UnitType)]
      BY <2>1, <3>1, <3>2, EncodedType
    <3> QED BY <2>1, <2>2, <2>4, <3>1, <3>2, <3>3 DEF TypeInv, TypeOK
  <2> QED BY <2>5, <2>6
<1>6. CASE PullNothing
  <2>1. /\ k \in DOMAIN job.gouts /\ k \in Nat /\ done' = [done EXCEPT ![k] = Ended(k)] /\ k' = k + 1
        /\ UNCHANGED <<pc, in, taken, enc, outVars>>
    BY <1>6 DEF PullNothing, TypeInv, TypeOK
  <2>2. Ended(k) \in BOOLEAN
    BY DEF Ended
  <2> QED BY <2>1, <2>2 DEF TypeInv, TypeOK, outVars
<1>7. CASE PullEnds
  BY <1>1, <1>7, PullReturnsTypes DEF PullEnds, TypeInv, TypeOK, sinkVars, outVars
<1> QED BY <1>3, <1>4, <1>5, <1>6, <1>7 DEF Pull

LEMMA DrainTypes ==
  ASSUME TypeInv, Drain
  PROVE  TypeInv'
<1>1. UNCHANGED <<job, in, pkt, then, inVars, padVars, taken, done, laneVars, trailer, rc, faults>> /\ pc = "drain"
  BY DEF Drain
<1>2. CASE k > Len(job.gouts)
  <2>1. pc' = "bsf" /\ k' = 1 /\ UNCHANGED <<muxed, enc>>
    BY <1>2 DEF Drain, Goto
  <2>2. TypeOK'
    BY <1>1, <2>1 DEF TypeInv, TypeOK, inVars, padVars, laneVars
  <2> QED BY <1>1, <2>1, <2>2 DEF TypeInv, Handling
<1>3. CASE ~(k > Len(job.gouts))
  <2>1. k \in DOMAIN job.gouts
    BY <1>1, <1>3, TypeFacts, JobFacts, InDomain DEF TypeInv, TypeOK
  <2>2. /\ muxed' = Encoded(k, enc[k]) /\ enc' = [enc EXCEPT ![k] = <<>>]
        /\ k' = k + 1 /\ UNCHANGED pc
    BY <1>3 DEF Drain
  <2>3. muxed' \in [DOMAIN job.outs -> Seq(UnitType)]
    BY <2>1, <2>2, EncodedType DEF TypeInv, TypeOK
  <2>4. <<>> \in Seq(Int) /\ Len(<<>>) <= Lag
    BY ProcessAssumption DEF ProcessAssumption
  <2>5. enc' \in [DOMAIN job.gouts -> Seq(Int)] /\ \A s \in DOMAIN job.gouts : Len(enc'[s]) <= Lag
    BY <2>2, <2>4 DEF TypeInv, TypeOK
  <2>6. TypeOK'
    BY <1>1, <2>2, <2>3, <2>5 DEF TypeInv, TypeOK, inVars, padVars, laneVars
  <2> QED BY <1>1, <2>2, <2>6 DEF TypeInv, TypeOK, Handling
<1> QED BY <1>2, <1>3

LEMMA FlushBsfTypes ==
  ASSUME TypeInv, flush_copy_bsfs
  PROVE  TypeInv'
<1>1. UNCHANGED <<job, in, pkt, then, inVars, padVars, sinkVars, cue, trailer, rc, faults>> /\ pc = "bsf"
  BY DEF flush_copy_bsfs
<1>2. CASE k > Len(job.cpys)
  <2>1. pc' = "trailer" /\ k' = 1 /\ UNCHANGED <<cpyRebase, held, muxed>>
    BY <1>2 DEF flush_copy_bsfs, Goto
  <2>2. TypeOK'
    BY <1>1, <2>1 DEF TypeInv, TypeOK, inVars, padVars, sinkVars
  <2> QED BY <1>1, <2>1, <2>2 DEF TypeInv, Handling
<1>3. CASE ~(k > Len(job.cpys))
  <2>1. k \in DOMAIN job.cpys
    BY <1>1, <1>3, TypeFacts, JobFacts, InDomain DEF TypeInv, TypeOK
  <2>2. k' = k + 1 /\ UNCHANGED pc
    BY <1>3 DEF flush_copy_bsfs
  <2>3. /\ cpyRebase' \in [DOMAIN job.inputs -> [DOMAIN job.outs -> Nat \cup {None}]]
        /\ muxed' \in [DOMAIN job.outs -> Seq(UnitType)]
        /\ held' \in [DOMAIN job.cpys -> Seq(Nat)] /\ \A c \in DOMAIN job.cpys : Len(held'[c]) <= Lag
    <3>1. CASE job.cpys[k].bsf
      <4>1. write_copy_pkt(k, held[k]) /\ held' = [held EXCEPT ![k] = <<>>]
        BY <1>3, <3>1 DEF flush_copy_bsfs
      <4>2. <<>> \in Seq(Nat) /\ Len(<<>>) <= Lag /\ held[k] \in Seq(Nat)
        BY <2>1, ProcessAssumption DEF ProcessAssumption, TypeInv, TypeOK
      <4>3. /\ cpyRebase' \in [DOMAIN job.inputs -> [DOMAIN job.outs -> Nat \cup {None}]]
            /\ muxed' \in [DOMAIN job.outs -> Seq(UnitType)]
        BY <2>1, <4>1, <4>2, CopyTypes
      <4> QED BY <2>1, <4>1, <4>2, <4>3 DEF TypeInv, TypeOK
    <3>2. CASE ~job.cpys[k].bsf
      BY <1>3, <3>2 DEF flush_copy_bsfs, TypeInv, TypeOK
    <3> QED BY <3>1, <3>2
  <2>4. TypeOK'
    BY <1>1, <2>2, <2>3 DEF TypeInv, TypeOK, inVars, padVars, sinkVars
  <2> QED BY <1>1, <2>2, <2>4 DEF TypeInv, TypeOK, Handling
<1> QED BY <1>2, <1>3

LEMMA TrailerTypes ==
  ASSUME TypeInv, WriteTrailer
  PROVE  TypeInv'
<1>1. UNCHANGED <<job, in, pkt, then, inVars, padVars, sinkVars, laneVars, muxed>> /\ pc = "trailer"
  BY DEF WriteTrailer
<1>2. /\ pc' \in {"trailer", "end"} /\ k' \in {k, k + 1} /\ rc' \in {"ok", "failed"}
      /\ faults' \in 0..MaxFaults /\ trailer' \in [DOMAIN job.outs -> {"none", "written", "failed"}]
  BY ProcessAssumption DEF ProcessAssumption, WriteTrailer, TypeInv, TypeOK
<1>3. TypeOK'
  BY <1>1, <1>2 DEF TypeInv, TypeOK, inVars, padVars, sinkVars, laneVars
<1> QED BY <1>1, <1>2, <1>3 DEF TypeInv, TypeOK, Handling

LEMMA TypeInvInit == ASSUME Init PROVE TypeInv
<1>1. job \in JobType /\ WellFormed(job)
  BY ProcessAssumption DEF ProcessAssumption, Init
<1>2. 1 \in DOMAIN job.inputs
  BY <1>1, JobFacts DEF JobOK
<1>3. <<>> \in Seq(Nat) /\ <<>> \in Seq(Int) /\ <<>> \in Seq(UnitType) /\ Len(<<>>) <= Lag
  BY ProcessAssumption DEF ProcessAssumption
<1>4. TypeOK
  BY <1>1, <1>2, <1>3, ProcessAssumption DEF ProcessAssumption, Init, TypeOK, NoPkt, None
<1> QED BY <1>1, <1>4 DEF TypeInv, Init, Handling

LEMMA TypeInvNext == ASSUME TypeInv, [Next]_vars PROVE TypeInv'
<1>1. CASE Skip BY <1>1, SkipTypes
<1>2. CASE StopInput BY <1>2, EndInputTypes DEF StopInput
<1>3. CASE ReadFails BY <1>3, ReadFailsTypes
<1>4. CASE Read BY <1>4, ReadTypes
<1>5. CASE FlushSub BY <1>5, FlushSubTypes
<1>6. CASE Copy BY <1>6, CopyStepTypes
<1>7. CASE Sub BY <1>7, SubStepTypes
<1>8. CASE Pull BY <1>8, PullTypes
<1>9. CASE Drain BY <1>9, DrainTypes
<1>10. CASE flush_copy_bsfs BY <1>10, FlushBsfTypes
<1>11. CASE WriteTrailer BY <1>11, TrailerTypes
<1>12. CASE CallFails BY <1>12, CallFailsTypes
<1>13. CASE UNCHANGED vars
  BY <1>13 DEF TypeInv, TypeOK, Handling, vars, ctl, inVars, padVars, sinkVars, laneVars, outVars
<1> QED BY <1>1, <1>2, <1>3, <1>4, <1>5, <1>6, <1>7, <1>8, <1>9, <1>10, <1>11, <1>12, <1>13 DEF Next, Work

\* Every variable keeps its type, whatever the job: no codec holds back more than
\* Lag, the loops stay within what they go through, every reference is in range.
THEOREM TypeCorrect == Spec => []TypeOK
<1>1. Init => TypeInv
  BY TypeInvInit
<1>2. TypeInv /\ [Next]_vars => TypeInv'
  BY TypeInvNext
<1>3. TypeInv => TypeOK
  BY DEF TypeInv
<1> QED BY <1>1, <1>2, <1>3, PTL DEF Spec
-----------------------------------------------------------------------------
(* What a success means *)

Broken(i)      == Input(i).end \in {"error", "ioeof"}
SourceIn(s, n) == job.gins[job.gouts[s].srcs[n]].in
Uses(s, g)     == \E n \in DOMAIN job.gouts[s].srcs : job.gouts[s].srcs[n] = g
Limited(s)     == job.gouts[s].kind = "trim" \/ out_cutoff(job.outs[job.gouts[s].out]) # Forever

\* Why a pad closes: its input has ended, or all it feeds are trims that have had
\* enough.  Why a sink is done: it is limited, or its inputs have ended.  And what
\* an input that broke off was stopped for before it broke.
PadsInv ==
  \A g \in DOMAIN job.gins : closed[g] =>
    eof[job.gins[g].in] \/ \A s \in DOMAIN job.gouts : Uses(s, g) => job.gouts[s].kind = "trim"
SinksInv ==
  \A s \in DOMAIN job.gouts : done[s] =>
    Limited(s) \/ \A n \in DOMAIN job.gouts[s].srcs : eof[SourceIn(s, n)]
BrokenInv ==
  \A i \in DOMAIN job.inputs : eof[i] /\ Broken(i) /\ ~More(i) =>
    /\ \A c \in DOMAIN job.cpys : job.cpys[c].in # i
    /\ \A s \in DOMAIN job.subs : job.subs[s].in # i
    /\ \A s \in DOMAIN job.gouts : (\E n \in DOMAIN job.gouts[s].srcs : SourceIn(s, n) = i) => Limited(s)
LoopInv == PadsInv /\ SinksInv /\ BrokenInv

\* The loop ends once every input has, and the trailers follow one by one.
EndInv ==
  /\ pc \in {"drain", "bsf", "trailer"} \/ Succeeded => then = "drain"
  /\ then = "drain" => \A i \in DOMAIN job.inputs : eof[i]
  /\ rc = "ok" => faults = 0
  /\ pc = "trailer" /\ rc = "ok" => \A o \in DOMAIN job.outs : o < k => trailer[o] = "written"
  /\ Succeeded => \A o \in DOMAIN job.outs : trailer[o] = "written"

LEMMA SameJob ==
  ASSUME UNCHANGED job
  PROVE  /\ \A i : Input(i)' = Input(i) /\ Broken(i)' = Broken(i)
         /\ \A s, n : SourceIn(s, n)' = SourceIn(s, n)
         /\ \A s, g : Uses(s, g)' = Uses(s, g)
         /\ \A s : Limited(s)' = Limited(s)
BY DEF Input, Broken, SourceIn, Uses, Limited, out_cutoff, Offset, job_seek_offset

\* Steps that leave the loop's state alone.
LEMMA LoopInvFrame ==
  ASSUME LoopInv, UNCHANGED <<job, next, eof, closed, done>>
  PROVE  LoopInv'
<1>1. \A i : More(i)' = More(i)
  BY SameJob DEF More
<1>2. PadsInv'
  BY SameJob DEF LoopInv, PadsInv
<1>3. SinksInv'
  BY SameJob DEF LoopInv, SinksInv
<1>4. BrokenInv'
  BY <1>1, SameJob DEF LoopInv, BrokenInv
<1> QED BY <1>2, <1>3, <1>4 DEF LoopInv

\* A sink is done: it met its window, or all its pads have closed.
LEMMA LoopInvPull ==
  ASSUME TypeInv, LoopInv, PullFrame \/ PullNothing
  PROVE  LoopInv'
<1>1. UNCHANGED <<job, next, eof, closed>> /\ k \in DOMAIN job.gouts /\ DOMAIN done = DOMAIN job.gouts
  BY DEF PullFrame, PullNothing, inVars, padVars, TypeInv, TypeOK
<1>2. \A i : More(i)' = More(i)
  BY <1>1, SameJob DEF More
<1>3. PadsInv' /\ BrokenInv'
  BY <1>1, <1>2, SameJob DEF LoopInv, PadsInv, BrokenInv
<1>4. ASSUME NEW s \in DOMAIN job.gouts, done'[s]
      PROVE  Limited(s) \/ \A n \in DOMAIN job.gouts[s].srcs : eof[SourceIn(s, n)]
  <2>1. CASE done[s]
    BY <2>1 DEF LoopInv, SinksInv
  <2>2. CASE ~done[s] /\ PullFrame
    <3> DEFINE o == job.outs[job.gouts[k].out]
               t == FrameAt(k, taken[k] + 1)
    <3>1. s = k /\ ~Within(t + Offset(o), out_cutoff(o))
      BY <1>1, <1>4, <2>2 DEF PullFrame
    <3>2. out_cutoff(o) # Forever
      BY <3>1 DEF Within
    <3> QED BY <3>1, <3>2 DEF Limited
  <2>3. CASE ~done[s] /\ PullNothing
    <3>1. s = k /\ Ended(s)
      BY <1>1, <1>4, <2>3 DEF PullNothing
    <3>2. CASE job.gouts[s].kind = "trim"
      BY <3>2 DEF Limited
    <3>3. CASE job.gouts[s].kind # "trim"
      <4>1. SUFFICES ASSUME NEW n \in DOMAIN job.gouts[s].srcs
                     PROVE  eof[SourceIn(s, n)]
        OBVIOUS
      <4> DEFINE g == job.gouts[s].srcs[n]
      <4>2. closed[g] /\ g \in DOMAIN job.gins /\ Uses(s, g)
        BY <3>1, <3>3, TypeFacts, ChainFacts DEF Ended, Uses
      <4> QED BY <3>3, <4>2 DEF LoopInv, PadsInv, SourceIn
    <3> QED BY <3>2, <3>3
  <2> QED BY <2>1, <2>2, <2>3
<1>5. SinksInv'
  BY <1>1, <1>4, SameJob DEF SinksInv
<1> QED BY <1>3, <1>5 DEF LoopInv

\* Which pads a push closes.
LEMMA PushCloses ==
  ASSUME TypeInv, NEW G, NEW ending, PushFrames(G, ending), NEW g \in DOMAIN job.gins, closed'[g]
  PROVE  closed[g] \/ g \in ending \/ Refuses(g)
BY DEF PushFrames, TypeInv, TypeOK

LEMMA LoopInvRead ==
  ASSUME TypeInv, LoopInv, Read
  PROVE  LoopInv'
<1> DEFINE mine == {g \in DOMAIN job.gins : job.gins[g] = [in |-> in, st |-> pkt'.st]}
           G == [g \in mine |-> Through(dec[g], pkt'.t)[1]]
<1>1. UNCHANGED <<job, eof, done>> /\ PushFrames(G, {}) /\ ~eof[in] /\ next' = [next EXCEPT ![in] = @ + 1]
  BY DEF Read, sinkVars
<1> HIDE DEF G
<1>2. PadsInv'
  <2>1. SUFFICES ASSUME NEW g \in DOMAIN job.gins, closed'[g]
                 PROVE  eof[job.gins[g].in] \/ \A s \in DOMAIN job.gouts : Uses(s, g) => job.gouts[s].kind = "trim"
    BY <1>1, SameJob DEF PadsInv
  <2>2. closed[g] \/ Refuses(g)
    BY <1>1, <2>1, PushCloses
  <2>3. CASE closed[g]
    BY <2>3 DEF LoopInv, PadsInv
  <2>4. CASE Refuses(g)
    BY <2>4 DEF Refuses, Uses
  <2> QED BY <2>2, <2>3, <2>4
<1>3. SinksInv'
  BY <1>1, SameJob DEF LoopInv, SinksInv
<1>4. \A i \in DOMAIN job.inputs : eof[i] => More(i)' = More(i)
  <2>1. \A i \in DOMAIN job.inputs : eof[i] => next'[i] = next[i]
    BY <1>1 DEF TypeInv, TypeOK
  <2> QED BY <1>1, <2>1, SameJob DEF More
<1>5. BrokenInv'
  BY <1>1, <1>4, SameJob DEF LoopInv, BrokenInv
<1> QED BY <1>2, <1>3, <1>5 DEF LoopInv

LEMMA LoopInvStop ==
  ASSUME TypeInv, LoopInv, StopInput
  PROVE  LoopInv'
<1> DEFINE mine == {g \in DOMAIN job.gins : job.gins[g].in = in}
           G == [g \in mine |-> dec[g]]
<1>1. /\ UNCHANGED <<job, next, done>> /\ PushFrames(G, mine) /\ ~eof[in]
      /\ in \in DOMAIN job.inputs /\ eof' = [eof EXCEPT ![in] = TRUE]
  BY DEF StopInput, EndInput, sinkVars, TypeInv, TypeOK
<1>2. eof'[in] /\ \A i \in DOMAIN job.inputs : i # in => eof'[i] = eof[i]
  BY <1>1 DEF TypeInv, TypeOK
<1> HIDE DEF G
<1>3. PadsInv'
  <2>1. SUFFICES ASSUME NEW g \in DOMAIN job.gins, closed'[g]
                 PROVE  eof'[job.gins[g].in] \/ \A s \in DOMAIN job.gouts : Uses(s, g) => job.gouts[s].kind = "trim"
    BY <1>1, SameJob DEF PadsInv
  <2>2. closed[g] \/ g \in mine \/ Refuses(g)
    BY <1>1, <2>1, PushCloses
  <2>3. CASE closed[g]
    BY <1>2, <2>3, TypeFacts, PadFacts DEF LoopInv, PadsInv
  <2>4. CASE g \in mine
    BY <1>2, <2>4
  <2>5. CASE Refuses(g)
    BY <2>5 DEF Refuses, Uses
  <2> QED BY <2>2, <2>3, <2>4, <2>5
<1>4. SinksInv'
  <2>1. SUFFICES ASSUME NEW s \in DOMAIN job.gouts, done[s], ~Limited(s), NEW n \in DOMAIN job.gouts[s].srcs
                 PROVE  eof'[SourceIn(s, n)]
    BY <1>1, SameJob DEF SinksInv
  <2>2. eof[SourceIn(s, n)]
    BY <2>1 DEF LoopInv, SinksInv
  <2>3. SourceIn(s, n) \in DOMAIN job.inputs
    BY TypeFacts, ChainFacts, PadFacts DEF SourceIn
  <2> QED BY <1>2, <2>2, <2>3
<1>5. \A i : More(i)' = More(i)
  BY <1>1, SameJob DEF More
<1>6. ASSUME NEW i \in DOMAIN job.inputs, eof'[i], Broken(i), ~More(i)
      PROVE  /\ \A c \in DOMAIN job.cpys : job.cpys[c].in # i
             /\ \A s \in DOMAIN job.subs : job.subs[s].in # i
             /\ \A s \in DOMAIN job.gouts : (\E n \in DOMAIN job.gouts[s].srcs : SourceIn(s, n) = i) => Limited(s)
  <2>1. CASE i # in
    <3>1. eof[i]
      BY <1>2, <1>6, <2>1
    <3> QED BY <3>1, <1>6 DEF LoopInv, BrokenInv
  <2>2. CASE i = in
    <3>1. input_is_spent(in)
      BY <1>6, <2>2 DEF StopInput, Broken
    <3>2. ASSUME NEW s \in DOMAIN job.gouts, NEW n \in DOMAIN job.gouts[s].srcs, SourceIn(s, n) = in
          PROVE  Limited(s)
      <4> DEFINE g == job.gouts[s].srcs[n]
      <4>1. g \in DOMAIN job.gins /\ job.gins[g].in = in /\ Uses(s, g)
        BY <3>2, TypeFacts, ChainFacts DEF SourceIn, Uses
      <4>2. CASE done[s]
        BY <1>1, <3>2, <4>2 DEF LoopInv, SinksInv
      <4>3. CASE closed[g]
        <5>1. job.gouts[s].kind = "trim"
          BY <1>1, <4>1, <4>3 DEF LoopInv, PadsInv
        <5> QED BY <5>1 DEF Limited
      <4> QED BY <3>1, <4>1, <4>2, <4>3 DEF input_is_spent
    <3> QED BY <2>2, <3>1, <3>2 DEF input_is_spent
  <2> QED BY <2>1, <2>2
<1>7. BrokenInv'
  BY <1>1, <1>5, <1>6, SameJob DEF BrokenInv
<1> QED BY <1>3, <1>4, <1>7 DEF LoopInv

LEMMA LoopInvInit == ASSUME Init PROVE LoopInv
<1>1. job \in JobType /\ WellFormed(job)
  BY ProcessAssumption DEF ProcessAssumption, Init
<1> QED BY DEF Init, LoopInv, PadsInv, SinksInv, BrokenInv

LEMMA LoopInvNext == ASSUME TypeInv, LoopInv, [Next]_vars PROVE LoopInv'
<1>1. CASE Read BY <1>1, LoopInvRead
<1>2. CASE StopInput BY <1>2, LoopInvStop
<1>3. CASE PullFrame \/ PullNothing BY <1>3, LoopInvPull
<1>4. CASE \/ Skip \/ ReadFails \/ FlushSub \/ Copy \/ Sub \/ Drain \/ flush_copy_bsfs \/ WriteTrailer
           \/ CallFails \/ PullStarts \/ PullDone \/ PullEnds \/ UNCHANGED vars
  <2>1. UNCHANGED <<job, next, eof, closed, done>>
    BY <1>4 DEF Skip, ReadFails, FlushSub, Copy, Sub, Drain, flush_copy_bsfs, WriteTrailer, CallFails,
                PullStarts, PullDone, PullEnds, vars, inVars, padVars, sinkVars
  <2> QED BY <2>1, LoopInvFrame
<1> QED BY <1>1, <1>2, <1>3, <1>4 DEF Next, Work, Pull

LEMMA EndInvInit == ASSUME Init PROVE EndInv
BY DEF Init, EndInv, Succeeded

LEMMA EndInvNext == ASSUME TypeInv, EndInv, [Next]_vars PROVE EndInv'
<1>1. DOMAIN job.outs \subseteq Nat \ {0}
  BY TypeFacts, JobFacts
<1>2. CASE Skip
  BY <1>2 DEF Skip, EndInv, Succeeded, outVars, TypeInv, TypeOK, inVars
<1>3. CASE StopInput \/ Read
  BY <1>3 DEF StopInput, EndInput, Goto, Read, EndInv, Succeeded, outVars, TypeInv, TypeOK, inVars
<1>4. CASE ReadFails \/ CallFails
  BY <1>4 DEF ReadFails, CallFails, EndInv, Succeeded, outVars, inVars
<1>5. CASE FlushSub
  BY <1>5 DEF FlushSub, EndInv, Succeeded, inVars
<1>6. CASE Copy \/ Sub
  BY <1>6 DEF Copy, Sub, Goto, EndInv, Succeeded, inVars
<1>7. CASE Pull
  <2>1. UNCHANGED <<job, then, eof, trailer, rc, faults>> /\ pc = "pull"
    BY <1>7 DEF Pull, PullStarts, PullDone, PullFrame, PullNothing, PullEnds, inVars, outVars
  <2>2. pc' = "pull" \/ (pc' = then /\ then \in {"read", "copy", "drain"})
    BY <1>7, <2>1 DEF Pull, PullStarts, PullDone, PullFrame, PullNothing, PullEnds, PullReturns, TypeInv, TypeOK
  <2> QED BY <2>1, <2>2 DEF EndInv, Succeeded
<1>8. CASE Drain
  BY <1>8 DEF Drain, Goto, EndInv, Succeeded, inVars
<1>9. CASE flush_copy_bsfs
  BY <1>1, <1>9 DEF flush_copy_bsfs, Goto, EndInv, Succeeded, inVars
<1>10. CASE WriteTrailer
  <2>1. UNCHANGED <<job, then, eof>> /\ pc = "trailer" /\ k \in Nat /\ trailer \in [DOMAIN job.outs -> {"none", "written", "failed"}]
    BY <1>10 DEF WriteTrailer, inVars, TypeInv, TypeOK
  <2>2. CASE k > Len(job.outs)
    <3>1. pc' = "end" /\ UNCHANGED <<k, trailer, rc, faults>>
      BY <1>10, <2>2 DEF WriteTrailer
    <3>2. \A o \in DOMAIN job.outs : o < k
      BY <2>1, <2>2, TypeFacts, JobFacts
    <3> QED BY <2>1, <3>1, <3>2 DEF EndInv, Succeeded
  <2>3. CASE ~(k > Len(job.outs)) /\ rc' = "failed"
    BY <1>10, <2>1, <2>3 DEF WriteTrailer, EndInv, Succeeded
  <2>4. CASE ~(k > Len(job.outs)) /\ rc' # "failed"
    <3>1. trailer' = [trailer EXCEPT ![k] = "written"] /\ k' = k + 1 /\ UNCHANGED <<pc, rc, faults>>
      BY <1>10, <2>4 DEF WriteTrailer
    <3>2. \A o \in DOMAIN job.outs : o < k + 1 => o = k \/ o < k
      BY <1>1, <2>1
    <3>3. rc = "ok" => \A o \in DOMAIN job.outs : o < k' => trailer'[o] = "written"
      BY <2>1, <3>1, <3>2 DEF EndInv
    <3> QED BY <2>1, <3>1, <3>3 DEF EndInv, Succeeded
  <2> QED BY <2>2, <2>3, <2>4
<1>11. CASE UNCHANGED vars
  BY <1>11 DEF EndInv, Succeeded, vars, ctl, inVars, outVars
<1> QED BY <1>2, <1>3, <1>4, <1>5, <1>6, <1>7, <1>8, <1>9, <1>10, <1>11 DEF Next, Work

\* A job that ends well had no failing call and wrote every trailer, and an input
\* that broke off before its end had nothing left to give: no copy and no subtitle
\* stream of it, and every sink it feeds limited by a trim or a window.  In
\* particular a finished sink or a closed pad never hides a read error from an
\* output that still wanted the input (op_process, input_is_spent).
THEOREM Honest == Spec => []SuccessIsHonest
<1> DEFINE Inv == TypeInv /\ LoopInv /\ EndInv
<1>1. Init => Inv
  BY TypeInvInit, LoopInvInit, EndInvInit
<1>2. Inv /\ [Next]_vars => Inv'
  BY TypeInvNext, LoopInvNext, EndInvNext
<1>3. Inv => SuccessIsHonest
  <2> SUFFICES ASSUME TypeInv, LoopInv, EndInv, Succeeded
               PROVE  SuccessIsHonest
    BY DEF SuccessIsHonest
  <2>1. then = "drain" /\ faults = 0 /\ \A o \in DOMAIN job.outs : trailer[o] = "written"
    BY DEF EndInv, Succeeded
  <2>2. \A i \in DOMAIN job.inputs : eof[i]
    BY <2>1 DEF EndInv
  <2> QED BY <2>1, <2>2 DEF SuccessIsHonest, LoopInv, BrokenInv, Broken, SourceIn, Limited
<1> QED BY <1>1, <1>2, <1>3, PTL DEF Spec
-----------------------------------------------------------------------------
(* The queues of the sinks *)

AllDone == job.gouts # <<>> /\ \A s \in DOMAIN job.gouts : done[s]

\* A push gives a sink of one source at most one frame, and a pass over the sinks
\* takes it.
QueueInv ==
  \/ pc = "end" \/ AllDone
  \/ \A s \in DOMAIN job.gouts : Single(s) =>
       Pending(s) \in 0..(IF pc = "flushsub" \/ (pc = "pull" /\ k <= s) THEN 1 ELSE 0)

LEMMA ChainedLen ==
  ASSUME NEW ch \in ChainType, NEW raw \in Seq(Int)
  PROVE  Len(Chained(ch, raw)) = IF ch.kind = "trim" /\ ch.n < Len(raw) THEN ch.n ELSE Len(raw)
<1> DEFINE m == IF Len(raw) < ch.n THEN Len(raw) ELSE ch.n
<1>1. ch.n \in Nat
  BY DEF ChainType
<1>2. CASE ch.kind = "trim"
  <2>1. m \in 0..Len(raw) /\ Chained(ch, raw) = SubSeq(raw, 1, m)
    BY <1>1, <1>2 DEF Chained
  <2>2. \A j \in 0..Len(raw) : Len(SubSeq(raw, 1, j)) = j
    OBVIOUS
  <2>3. Len(Chained(ch, raw)) = m
    BY <2>1, <2>2
  <2> QED BY <1>1, <1>2, <2>3
<1>3. CASE ch.kind = "speed"
  <2> DEFINE q == [n \in DOMAIN raw |-> raw[n] \div 2]
  <2>1. Chained(ch, raw) = q
    BY <1>3 DEF Chained
  <2>2. \A n \in DOMAIN raw : raw[n] \div 2 \in Int
    OBVIOUS
  <2>3. q \in [1..Len(raw) -> Int]
    BY <2>2
  <2> HIDE DEF q
  <2>4. Len(q) = Len(raw)
    BY <2>3
  <2> QED BY <1>3, <2>1, <2>4
<1>4. CASE ch.kind \notin {"trim", "speed"}
  BY <1>4 DEF Chained
<1> QED BY <1>2, <1>3, <1>4

\* What is queued for a sink of one source, in numbers.
PendingShape(s) ==
  LET g  == job.gouts[s].srcs[1]
      ch == job.gouts[s]
      n  == Len(fed[g])
  IN  /\ g \in DOMAIN job.gins /\ n \in Nat /\ ch.n \in Nat /\ taken[s] \in Nat
      /\ Endless(s) <=> (ch.kind = "loop" /\ n # 0)
      /\ Pending(s) = IF Endless(s) THEN 0
                      ELSE (IF ch.kind = "trim" /\ ch.n < n THEN ch.n ELSE n) - taken[s]
PendingShapes == \A s \in DOMAIN job.gouts : Single(s) => PendingShape(s)

LEMMA PendingIs ==
  ASSUME TypeInv, NEW s \in DOMAIN job.gouts, Single(s)
  PROVE  PendingShape(s)
<1> DEFINE g  == job.gouts[s].srcs[1]
           ch == job.gouts[s]
<1>1. g \in DOMAIN job.gins /\ ch \in ChainType /\ ch.n \in Nat
  BY TypeFacts, ChainFacts, JobFacts DEF Single
<1>2. fed[g] \in Seq(Int) /\ taken[s] \in Nat
  BY <1>1 DEF TypeInv, TypeOK
<1>3. Raw(s) = fed[g]
  BY DEF Raw, Single
<1>4. Endless(s) <=> ch.kind = "loop" /\ Len(fed[g]) # 0
  BY <1>2, <1>3 DEF Endless
<1>5. Len(Chained(ch, Raw(s))) = IF ch.kind = "trim" /\ ch.n < Len(fed[g]) THEN ch.n ELSE Len(fed[g])
  BY <1>1, <1>2, <1>3, ChainedLen
<1>6. Len(fed[g]) \in Nat
  BY <1>2
<1> QED BY <1>1, <1>2, <1>3, <1>4, <1>5, <1>6 DEF Pending, PendingShape

LEMMA PendingAre == TypeInv => PendingShapes
BY PendingIs DEF PendingShapes

LEMMA PendingAreNext == TypeInv' => PendingShapes'
BY PendingAre, PTL

LEMMA AtMostOne ==
  ASSUME NEW q \in Seq(Nat), NEW n \in Nat, Len(q) <= n, n <= 1
  PROVE  Len(q) \in {0, 1}
<1>1. PICK l \in Nat : l = Len(q)
  OBVIOUS
<1>2. l <= 1
  BY <1>1
<1>3. l = 0 \/ l = 1
  BY <1>2
<1> QED BY <1>1, <1>3

\* A push adds to a pad no more than the decoder gave.
LEMMA PushGrows ==
  ASSUME TypeInv, NEW G, NEW ending, PushFrames(G, ending),
         \A g \in DOMAIN G : G[g] \in Seq(Nat) /\ Len(G[g]) <= 1, NEW g \in DOMAIN job.gins
  PROVE  Len(fed'[g]) \in {Len(fed[g]), Len(fed[g]) + 1}
<1> DEFINE f    == job.inputs[job.gins[g].in]
           kept == IF g \in DOMAIN G THEN Kept(g, G[g]) ELSE <<>>
           base == IF rebase0[g] # None \/ f.seek = None \/ kept = <<>> THEN rebase0[g]
                   ELSE IF f.accurate THEN f.seek ELSE kept[1]
           shut == closed[g] \/ (kept # <<>> /\ Refuses(g))
           move == IF f.seek = None THEN 0 ELSE -base
<1>1. fed'[g] = IF shut THEN fed[g] ELSE fed[g] \o Shifted(kept, move)
  BY DEF PushFrames, TypeInv, TypeOK
<1>2. \/ g \in DOMAIN G /\ kept = Kept(g, G[g])
      \/ kept = <<>>
  OBVIOUS
<1>3. PICK q : q = kept
  OBVIOUS
<1>4. q \in Seq(Nat) /\ Len(q) \in {0, 1}
  <2>1. CASE g \in DOMAIN G /\ q = Kept(g, G[g])
    <3>1. Kept(g, G[g]) \in Seq(Nat) /\ Len(Kept(g, G[g])) <= Len(G[g]) /\ Len(G[g]) <= 1
      BY <2>1, TypeFacts, KeptType
    <3>2. q \in Seq(Nat) /\ Len(q) <= Len(G[g]) /\ Len(G[g]) <= 1 /\ Len(G[g]) \in Nat
      BY <2>1, <3>1
    <3> HIDE DEF kept
    <3>3. Len(q) \in {0, 1}
      BY <3>2, AtMostOne
    <3> QED BY <3>2, <3>3
  <2>2. CASE q = <<>>
    BY <2>2
  <2> QED BY <1>2, <1>3, <2>1, <2>2
<1>5. PICK m : m = move
  OBVIOUS
<1>6. m \in Int
  <2>1. f.seek \in Nat \cup {None} /\ rebase0[g] \in Nat \cup {None}
    BY TypeFacts, PadFacts, InputFacts DEF Input, TypeInv, TypeOK
  <2>2. q # <<>> => q[1] \in Nat
    BY <1>4
  <2>3. \/ m = 0
        \/ m = -rebase0[g] /\ f.seek # None
        \/ m = -f.seek /\ f.seek # None
        \/ q # <<>> /\ m = -q[1]
    BY <1>3, <1>5
  <2> HIDE DEF f
  <2> QED BY <2>1, <2>2, <2>3 DEF None
<1>7. fed[g] \in Seq(Int)
  BY DEF TypeInv, TypeOK
<1>8. PICK z : z = Shifted(q, m)
  OBVIOUS
<1>9. z \in Seq(Int) /\ Len(z) = Len(q)
  <2>1. q \in Seq(Int)
    BY <1>4
  <2> QED BY <1>6, <1>8, <2>1, ShiftedType
<1>10. fed'[g] = fed[g] \/ fed'[g] = fed[g] \o z
  BY <1>1, <1>3, <1>5, <1>8
<1>11. Len(fed[g] \o z) = Len(fed[g]) + Len(z) /\ Len(fed[g]) \in Nat
  BY <1>7, <1>9, JoinLen
<1> QED
  <2>1. PICK a, b, c, d : a = fed'[g] /\ b = fed[g] /\ c = fed[g] \o z /\ d = Len(q)
    OBVIOUS
  <2>2. d \in {0, 1} /\ Len(c) = Len(b) + d /\ Len(b) \in Nat /\ (a = b \/ a = c)
    BY <1>4, <1>9, <1>10, <1>11, <2>1
  <2>3. Len(a) \in {Len(b), Len(b) + 1}
    BY <2>2
  <2> QED BY <2>1, <2>3

LEMMA QueueInvPush ==
  ASSUME TypeInv, TypeInv', QueueInv, pc = "read", NEW G, NEW ending, PushFrames(G, ending),
         \A g \in DOMAIN G : G[g] \in Seq(Nat) /\ Len(G[g]) <= 1,
         UNCHANGED <<job, taken, done>>, pc' = "flushsub" \/ (pc' = "pull" /\ k' = 0)
  PROVE  QueueInv'
<1>1. CASE AllDone
  BY <1>1 DEF QueueInv, AllDone
<1>2. CASE ~AllDone
  <2>1. SUFFICES ASSUME NEW s \in DOMAIN job.gouts, Single(s)
                 PROVE  Pending(s)' \in 0..1
    <3>1. \A s \in DOMAIN job.gouts : k' = 0 => k' <= s
      BY TypeFacts, JobFacts
    <3> QED BY <2>1, <3>1 DEF QueueInv, Single
  <2> DEFINE g  == job.gouts[s].srcs[1]
             ch == job.gouts[s]
  <2>2. Pending(s) = 0
    BY <1>2, <2>1 DEF QueueInv
  <2>3. Single(s)' /\ g' = g /\ ch' = ch
    BY <2>1 DEF Single
  <2>4. /\ g \in DOMAIN job.gins /\ Len(fed[g]) \in Nat /\ ch.n \in Nat /\ taken[s] \in Nat
        /\ Endless(s) <=> (ch.kind = "loop" /\ Len(fed[g]) # 0)
        /\ Pending(s) = IF Endless(s) THEN 0
                        ELSE (IF ch.kind = "trim" /\ ch.n < Len(fed[g]) THEN ch.n ELSE Len(fed[g])) - taken[s]
    BY <2>1, PendingIs DEF PendingShape
  <2>5. Len(fed'[g]) \in {Len(fed[g]), Len(fed[g]) + 1}
    BY <2>4, PushGrows
  <2>6. /\ (Endless(s))' <=> (ch.kind = "loop" /\ Len(fed'[g]) # 0)
        /\ Pending(s)' = IF (Endless(s))' THEN 0
                         ELSE (IF ch.kind = "trim" /\ ch.n < Len(fed'[g]) THEN ch.n ELSE Len(fed'[g])) - taken[s]
    <3>1. (PendingShape(s))'
      BY <2>1, <2>3, PendingAreNext DEF PendingShapes
    <3> QED BY <2>3, <3>1 DEF PendingShape
  <2> DEFINE n == Len(fed[g])
             m == Len(fed'[g])
             a == ch.n
             b == taken[s]
  <2>7. n \in Nat /\ m \in {n, n + 1} /\ a \in Nat /\ b \in Nat
    BY <2>4, <2>5
  <2>8. /\ Endless(s) <=> (ch.kind = "loop" /\ n # 0)
        /\ ~Endless(s) => (IF ch.kind = "trim" /\ a < n THEN a ELSE n) - b = 0
    BY <2>2, <2>4
  <2>9. /\ (Endless(s))' <=> (ch.kind = "loop" /\ m # 0)
        /\ Pending(s)' = IF (Endless(s))' THEN 0 ELSE (IF ch.kind = "trim" /\ a < m THEN a ELSE m) - b
    BY <2>6
  <2> HIDE DEF g, ch, n, m, a, b
  <2>10. CASE (Endless(s))'
    BY <2>9, <2>10
  <2>11. CASE ~(Endless(s))'
    <3>1. ~Endless(s)
      BY <2>7, <2>8, <2>9, <2>11
    <3>2. Pending(s)' = (IF ch.kind = "trim" /\ a < m THEN a ELSE m) - b
      BY <2>9, <2>11
    <3> QED BY <2>7, <2>8, <3>1, <3>2
  <2> QED BY <2>10, <2>11
<1> QED BY <1>1, <1>2

\* A pass over the sinks has yet to come to this one.
ToCome(s) == pc = "flushsub" \/ (pc = "pull" /\ k <= s)

LEMMA QueueInvFrame ==
  ASSUME QueueInv, UNCHANGED <<job, fed, closed, taken, done>>,
         \/ pc' = "end" \/ AllDone
         \/ pc # "end" /\ \A s \in DOMAIN job.gouts : ToCome(s) => ToCome(s)'
  PROVE  QueueInv'
<1>1. AllDone' = AllDone /\ \A s \in DOMAIN job.gouts : Single(s)' = Single(s)
  BY DEF AllDone, Single
<1>2. \A s \in DOMAIN job.gouts : Pending(s)' = Pending(s)
  BY DEF Pending, Endless, Raw
<1>3. CASE pc' = "end" \/ AllDone
  BY <1>1, <1>3 DEF QueueInv
<1>4. CASE pc' # "end" /\ ~AllDone
  <2>1. SUFFICES ASSUME NEW s \in DOMAIN job.gouts, Single(s)
                 PROVE  Pending(s) \in 0..(IF ToCome(s)' THEN 1 ELSE 0)
    BY <1>1, <1>2 DEF QueueInv, ToCome
  <2>2. Pending(s) \in 0..(IF ToCome(s) THEN 1 ELSE 0) /\ (ToCome(s) => ToCome(s)')
    BY <1>4, <2>1 DEF QueueInv, ToCome
  <2>3. CASE ToCome(s)
    BY <2>2, <2>3
  <2>4. CASE ~ToCome(s)
    <3>1. Pending(s) = 0
      BY <2>2, <2>4
    <3> QED BY <3>1
  <2> QED BY <2>3, <2>4
<1> QED BY <1>3, <1>4

\* A step of the pass at a sink takes what is queued there, and goes on to the next
\* sink only when nothing is left.
LEMMA QueueInvAt ==
  ASSUME TypeInv, QueueInv, NEW p \in DOMAIN job.gouts, pc = "pull", k = p,
         UNCHANGED <<job, pc, fed, closed>>,
         \A s \in DOMAIN job.gouts : done[s] => done'[s],
         \A s \in DOMAIN job.gouts : s # p => taken'[s] = taken[s],
         k' \in {p, p + 1}, Single(p) /\ ~AllDone => Pending(p)' = 0
  PROVE  QueueInv'
<1>1. CASE AllDone
  BY <1>1 DEF AllDone, QueueInv
<1>2. CASE ~AllDone
  <2>1. SUFFICES ASSUME NEW s \in DOMAIN job.gouts, Single(s)
                 PROVE  Pending(s)' \in 0..(IF ToCome(s)' THEN 1 ELSE 0)
    BY DEF QueueInv, ToCome, Single
  <2>2. CASE s = p
    BY <1>2, <2>1, <2>2
  <2>3. CASE s # p
    <3>1. Pending(s)' = Pending(s)
      BY <2>3 DEF Pending, Endless, Raw
    <3>2. ToCome(s) => ToCome(s)'
      <4>1. s \in Nat /\ p \in Nat
        BY TypeFacts, JobFacts
      <4> QED BY <2>3, <4>1 DEF ToCome
    <3>3. Pending(s) \in 0..(IF ToCome(s) THEN 1 ELSE 0)
      BY <1>2, <2>1 DEF QueueInv, ToCome
    <3>4. CASE ToCome(s)
      BY <3>1, <3>2, <3>3, <3>4
    <3>5. CASE ~ToCome(s)
      <4>1. Pending(s)' = 0
        BY <3>1, <3>3, <3>5
      <4> QED BY <4>1
    <3> QED BY <3>4, <3>5
  <2> QED BY <2>2, <2>3
<1> QED BY <1>1, <1>2

LEMMA QueueInvPull ==
  ASSUME TypeInv, QueueInv, PullDone \/ PullFrame \/ PullNothing
  PROVE  QueueInv'
<1>1. PICK p : p = k
  OBVIOUS
<1>2. /\ pc = "pull" /\ p \in DOMAIN job.gouts /\ UNCHANGED <<job, pc, fed, closed>>
      /\ k' \in {p, p + 1}
      /\ \A s \in DOMAIN job.gouts : done[s] => done'[s]
      /\ \A s \in DOMAIN job.gouts : s # p => taken'[s] = taken[s]
  BY <1>1 DEF PullDone, PullFrame, PullNothing, padVars, TypeInv, TypeOK
<1>3. SUFFICES ASSUME Single(p), ~AllDone
               PROVE  Pending(p)' = 0
  BY <1>1, <1>2, QueueInvAt
<1>4. Pending(p) \in 0..1
  <2>1. p \in Nat
    BY <1>2, TypeFacts, JobFacts
  <2> QED BY <1>1, <1>2, <1>3, <2>1 DEF QueueInv
<1>5. PICK L : L = Len(Chained(job.gouts[p], Raw(p)))
  OBVIOUS
<1>6. Endless(p)' = Endless(p) /\ L = Len(Chained(job'.gouts[p], Raw(p)'))
  <2>1. job' = job /\ fed' = fed /\ closed' = closed
    BY <1>2
  <2> QED BY <1>5, <2>1 DEF Endless, Raw
<1>7. L \in Nat /\ taken[p] \in Nat /\ p \in DOMAIN taken
  <2>1. Chained(job.gouts[p], Raw(p)) \in Seq(Int)
    BY <1>2, TypeFacts, JobFacts, RawType, ChainedType
  <2> QED BY <1>2, <1>5, <2>1 DEF TypeInv, TypeOK
<1>8. /\ Pending(p) = IF Endless(p) THEN 0 ELSE L - taken[p]
      /\ Pending(p)' = IF Endless(p) THEN 0 ELSE L - taken'[p]
  BY <1>5, <1>6 DEF Pending
<1>9. HasFrame(p, taken[p] + 1) <=> Endless(p) \/ taken[p] + 1 <= L
  BY <1>5 DEF HasFrame
<1>10. CASE PullDone
  <2>1. taken'[p] = IF Endless(p) THEN taken[p] ELSE L
    BY <1>1, <1>5, <1>7, <1>10 DEF PullDone
  <2> QED BY <1>7, <1>8, <2>1
<1>11. CASE PullFrame
  <2>1. taken'[p] = taken[p] + 1 /\ HasFrame(p, taken[p] + 1)
    BY <1>1, <1>7, <1>11 DEF PullFrame
  <2> QED BY <1>4, <1>7, <1>8, <1>9, <2>1
<1>12. CASE PullNothing
  <2>1. taken'[p] = taken[p] /\ ~HasFrame(p, taken[p] + 1)
    BY <1>1, <1>12 DEF PullNothing
  <2> QED BY <1>4, <1>7, <1>8, <1>9, <2>1
<1> QED BY <1>10, <1>11, <1>12

LEMMA QueueInvRead ==
  ASSUME TypeInv, QueueInv, Read
  PROVE  QueueInv'
<1> DEFINE mine == {g \in DOMAIN job.gins : job.gins[g] = [in |-> in, st |-> pkt'.st]}
           G == [g \in mine |-> Through(dec[g], pkt'.t)[1]]
<1>1. /\ PushFrames(G, {}) /\ UNCHANGED <<job, taken, done>> /\ pc = "read" /\ pc' = "pull" /\ k' = 0
  BY DEF Read, sinkVars
<1>2. TypeInv' /\ pkt' \in PktType
  BY ReadTypes, <1>1 DEF TypeInv, Handling, Read
<1>3. \A g \in DOMAIN G : G[g] \in Seq(Nat) /\ Len(G[g]) <= 1
  <2>1. \A g \in DOMAIN job.gins : dec[g] \in Seq(Nat) /\ Len(dec[g]) <= Lag
    BY DEF TypeInv, TypeOK
  <2>2. pkt'.t \in Nat
    BY <1>2 DEF PktType
  <2>3. \A g \in DOMAIN job.gins : /\ Through(dec[g], pkt'.t)[1] \in Seq(Nat)
                                  /\ Len(Through(dec[g], pkt'.t)[1]) <= 1
    BY <2>1, <2>2, ThroughType, ProcessAssumption
  <2> QED BY <2>3
<1> HIDE DEF G
<1> QED BY <1>1, <1>2, <1>3, QueueInvPush

LEMMA QueueInvStop ==
  ASSUME TypeInv, QueueInv, StopInput
  PROVE  QueueInv'
<1> DEFINE mine == {g \in DOMAIN job.gins : job.gins[g].in = in}
           G == [g \in mine |-> dec[g]]
<1>1. /\ PushFrames(G, mine) /\ UNCHANGED <<job, taken, done>> /\ pc = "read" /\ pc' = "flushsub"
  BY DEF StopInput, EndInput, Goto, sinkVars
<1>2. TypeInv'
  BY EndInputTypes DEF StopInput
<1>3. \A g \in DOMAIN G : G[g] \in Seq(Nat) /\ Len(G[g]) <= 1
  <2>1. \A g \in DOMAIN job.gins : dec[g] \in Seq(Nat) /\ Len(dec[g]) <= Lag
    BY DEF TypeInv, TypeOK
  <2>2. \A l \in Nat : l <= Lag => l <= 1
    BY ProcessAssumption DEF ProcessAssumption
  <2> QED BY <2>1, <2>2
<1> HIDE DEF G, mine
<1> QED BY <1>1, <1>2, <1>3, QueueInvPush

LEMMA QueueInvInit == ASSUME TypeInv, Init PROVE QueueInv
<1>1. SUFFICES ASSUME NEW s \in DOMAIN job.gouts, Single(s)
               PROVE  Pending(s) = 0
  BY DEF Init, QueueInv
<1>2. PendingShape(s)
  BY <1>1, PendingIs
<1>3. job.gouts[s].srcs[1] \in DOMAIN job.gins
  BY <1>2 DEF PendingShape
<1>4. fed[job.gouts[s].srcs[1]] = <<>> /\ taken[s] = 0
  BY <1>3 DEF Init
<1>5. Len(<<>>) = 0
  OBVIOUS
<1> QED BY <1>2, <1>4, <1>5 DEF PendingShape

LEMMA QueueInvNext == ASSUME TypeInv, QueueInv, [Next]_vars PROVE QueueInv'
<1>1. DOMAIN job.gouts = 1..Len(job.gouts) /\ Len(job.gouts) \in Nat
  BY TypeFacts, JobFacts
<1>2. CASE Read BY <1>2, QueueInvRead
<1>3. CASE StopInput BY <1>3, QueueInvStop
<1>4. CASE PullDone \/ PullFrame \/ PullNothing BY <1>4, QueueInvPull
<1>5. CASE ReadFails \/ CallFails \/ Skip \/ FlushSub \/ Copy \/ Sub \/ Drain \/ flush_copy_bsfs \/ WriteTrailer
  <2>1. UNCHANGED <<job, fed, closed, taken, done>>
    BY <1>5 DEF Skip, ReadFails, FlushSub, Copy, Sub, Drain, flush_copy_bsfs, WriteTrailer, CallFails,
                padVars, sinkVars
  <2>2. pc' = "end" \/ (pc # "end" /\ pc # "pull" /\ (pc = "flushsub" => pc' = "flushsub" \/ (pc' = "pull" /\ k' = 0)))
    BY <1>5 DEF Skip, ReadFails, FlushSub, Copy, Sub, Drain, flush_copy_bsfs, WriteTrailer, CallFails, Goto
  <2>3. \A s \in DOMAIN job.gouts : 0 <= s
    BY <1>1
  <2> QED BY <2>1, <2>2, <2>3, QueueInvFrame DEF ToCome
<1>6. CASE PullStarts \/ PullEnds
  <2>1. UNCHANGED <<job, fed, closed, taken, done>> /\ pc = "pull"
    BY <1>6 DEF PullStarts, PullEnds, padVars, sinkVars
  <2>2. CASE AllDone
    BY <2>1, <2>2, QueueInvFrame
  <2>3. CASE PullStarts /\ ~AllDone
    <3>1. pc' = "pull" /\ k' = 1
      BY <2>3 DEF PullStarts, AllDone
    <3>2. \A s \in DOMAIN job.gouts : 1 <= s
      BY <1>1
    <3> QED BY <2>1, <3>1, <3>2, QueueInvFrame DEF ToCome
  <2>4. CASE PullEnds
    <3>1. \A s \in DOMAIN job.gouts : ~(k <= s)
      BY <1>1, <2>4 DEF PullEnds, TypeInv, TypeOK
    <3> QED BY <2>1, <3>1, QueueInvFrame DEF ToCome
  <2> QED BY <1>6, <2>2, <2>3, <2>4
<1>7. CASE UNCHANGED vars
  BY <1>7 DEF QueueInv, AllDone, Single, Pending, Endless, Raw, vars, ctl, padVars, sinkVars
<1> QED BY <1>2, <1>3, <1>4, <1>5, <1>6, <1>7 DEF Next, Work, Pull

\* While any sink is still being served, nothing is queued at the next read for a
\* finished sink of one source: it is pulled, and what it gives thrown away, in the
\* same pass as the live ones (pull_sinks).  What makes it so is that a packet gives
\* a pad one frame at most, and that the end of an input is followed by a pass too.
THEOREM Drained == Spec => []FinishedSinksDrained
<1> DEFINE Inv == TypeInv /\ QueueInv
<1>1. Init => Inv
  BY TypeInvInit, QueueInvInit
<1>2. Inv /\ [Next]_vars => Inv'
  BY TypeInvNext, QueueInvNext
<1>3. Inv => FinishedSinksDrained
  <2> SUFFICES ASSUME TypeInv, QueueInv, pc = "read", NEW x \in DOMAIN done, ~done[x],
                      NEW s \in DOMAIN done, Len(job.gouts[s].srcs) = 1
               PROVE  Pending(s) = 0
    BY DEF FinishedSinksDrained
  <2>1. DOMAIN done = DOMAIN job.gouts
    BY DEF TypeInv, TypeOK
  <2> QED BY <2>1 DEF QueueInv, AllDone, Single
<1> QED BY <1>1, <1>2, <1>3, PTL DEF Spec
-----------------------------------------------------------------------------
(* What the lanes have written, and the packets they were given *)

\* What an output has of one stream, after units of some stream were added to it.
LEMMA GotAdds ==
  ASSUME JobOK, muxed \in [DOMAIN job.outs -> Seq(UnitType)], NEW o \in DOMAIN job.outs,
         NEW lane \in {"enc", "cpy", "sub"}, NEW n \in Nat, NEW ts \in Seq(Int),
         muxed' = Muxed(o, lane, n, ts), NEW p \in DOMAIN job.outs, NEW l, NEW m
  PROVE  Got(p, l, m)' = IF p = o /\ l = lane /\ m = n THEN Got(p, l, m) \o ts ELSE Got(p, l, m)
<1> DEFINE S == {x \in UnitType : x.lane = l /\ x.n = m}
           T == {x \in UnitType : x.lane = lane /\ x.n = n}
<1>1. CASE p # o
  <2>1. muxed'[p] = muxed[p]
    BY <1>1 DEF Muxed
  <2> QED BY <1>1, <2>1 DEF Got
<1>2. CASE p = o
  <2>1. PICK a, b : a = muxed[o] /\ b = Units(lane, n, ts)
    OBVIOUS
  <2>2. a \in Seq(UnitType) /\ b \in Seq(UnitType) /\ muxed'[o] = a \o b
    BY <2>1, UnitsType DEF Muxed
  <2>3. Only(a \o b, S) = Only(a, S) \o Only(b, S)
    <3> HIDE DEF S
    <3> QED BY <2>2, OnlyConcat
  <2>4. \A R : Only(a, R) \in Seq(UnitType) /\ Only(b, R) \in Seq(UnitType)
    BY <2>2, OnlyType
  <2>5. Got(p, l, m)' = TimesIn(Only(a, S) \o Only(b, S)) /\ Got(p, l, m) = TimesIn(Only(a, S))
    BY <1>2, <2>1, <2>2, <2>3 DEF Got
  <2>6. Got(p, l, m)' = Got(p, l, m) \o TimesIn(Only(b, S))
    <3>1. \A x \in UnitType : x.t \in Int
      BY DEF UnitType
    <3>2. PICK c, d : c = Only(a, S) /\ d = Only(b, S)
      OBVIOUS
    <3>3. c \in Seq(UnitType) /\ d \in Seq(UnitType)
      BY <2>4, <3>2
    <3>4. TimesIn(c \o d) = TimesIn(c) \o TimesIn(d)
      BY <3>1, <3>3, TimesInConcat
    <3> QED BY <2>5, <3>2, <3>4
  <2>7. b \in Seq(T) /\ TimesIn(b) = ts
    <3>1. \A i \in 1..Len(ts) : [lane |-> lane, n |-> n, t |-> ts[i]] \in T
      BY DEF UnitType
    <3>2. DOMAIN ts = 1..Len(ts) /\ Len(ts) \in Nat
      OBVIOUS
    <3>3. b \in Seq(T) /\ Len(b) = Len(ts)
      <4> HIDE DEF T
      <4> QED BY <2>1, <3>1, <3>2 DEF Units
    <3>4. TimesIn(b) = [i \in DOMAIN ts |-> ts[i]]
      BY <2>1, <3>2 DEF Units, TimesIn
    <3> QED BY <3>3, <3>4
  <2>8. CASE l = lane /\ m = n
    <3>1. S = T
      BY <2>8
    <3>2. Only(b, T) = b
      <4> HIDE DEF T
      <4> QED BY <2>7, OnlyAll
    <3> QED BY <1>2, <2>6, <2>7, <2>8, <3>1, <3>2
  <2>9. CASE ~(l = lane /\ m = n)
    <3>1. T \cap S = {}
      BY <2>9
    <3>2. Only(b, S) = <<>>
      <4> HIDE DEF T, S
      <4> QED BY <2>7, <3>1, OnlyNone
    <3>3. Got(p, l, m) \in Seq(Int)
      <4>1. \A x \in UnitType : x.t \in Int
        BY DEF UnitType
      <4>2. PICK c : c = Only(a, S)
        OBVIOUS
      <4>3. TimesIn(c) \in Seq(Int)
        BY <2>4, <4>1, <4>2, TimesInType
      <4> QED BY <2>5, <4>2, <4>3
    <3>4. Got(p, l, m)' = Got(p, l, m) \o <<>>
      BY <2>6, <3>2, TimesInEmpty
    <3>5. \A q \in Seq(Int) : q \o <<>> = q
      OBVIOUS
    <3> QED BY <2>9, <3>3, <3>4, <3>5
  <2> QED BY <2>8, <2>9
<1> QED BY <1>1, <1>2

LEMMA GotType ==
  ASSUME muxed \in [DOMAIN job.outs -> Seq(UnitType)], NEW p \in DOMAIN job.outs, NEW l, NEW m
  PROVE  Got(p, l, m) \in Seq(Int)
<1> DEFINE S == {x \in UnitType : x.lane = l /\ x.n = m}
<1>1. \A x \in UnitType : x.t \in Int
  BY DEF UnitType
<1>2. Only(muxed[p], S) \in Seq(UnitType)
  <2> HIDE DEF S
  <2> QED BY OnlyType
<1>3. PICK c : c = Only(muxed[p], S)
  OBVIOUS
<1>4. TimesIn(c) \in Seq(Int)
  BY <1>1, <1>2, <1>3, TimesInType
<1> QED BY <1>3, <1>4 DEF Got

\* A stream of cues or of copied packets may be cut and moved piece by piece.
LEMMA SubOutConcat ==
  ASSUME JobOK, NEW s \in DOMAIN job.subs, NEW a \in Seq(Int), NEW b \in Seq(Int)
  PROVE  SubOut(s, a \o b) = SubOut(s, a) \o SubOut(s, b)
<1> DEFINE o == job.outs[job.subs[s].out]
           base == SeekBase(job.subs[s].in)
           S == {t \in Int : base <= t /\ Within(t, SourceCutoff(o, base))}
           d == IF o.copyTs THEN 0 ELSE -base
<1>1. \A ts : SubOut(s, ts) = Shifted(Only(ts, S), d)
  BY DEF SubOut
<1>2. d \in Int
  BY SubFacts, InputFacts
<1> HIDE DEF S, d
<1>3. Only(a \o b, S) = Only(a, S) \o Only(b, S)
  BY OnlyConcat
<1>4. PICK p, q : p = Only(a, S) /\ q = Only(b, S)
  OBVIOUS
<1>5. p \in Seq(Int) /\ q \in Seq(Int)
  BY <1>4, OnlyType
<1>6. Shifted(p \o q, d) = Shifted(p, d) \o Shifted(q, d)
  BY <1>2, <1>5, ShiftedConcat
<1>7. SubOut(s, a \o b) = Shifted(p \o q, d)
  <2>1. SubOut(s, a \o b) = Shifted(Only(a \o b, S), d)
    BY <1>1
  <2> QED BY <1>3, <1>4, <2>1
<1>8. SubOut(s, a) = Shifted(p, d) /\ SubOut(s, b) = Shifted(q, d)
  BY <1>1, <1>4
<1> QED BY <1>6, <1>7, <1>8

LEMMA CopyOutConcat ==
  ASSUME JobOK, NEW c \in DOMAIN job.cpys, NEW base \in Int, NEW a \in Seq(Int), NEW b \in Seq(Int)
  PROVE  CopyOut(c, base, a \o b) = CopyOut(c, base, a) \o CopyOut(c, base, b)
<1> DEFINE o == job.outs[job.cpys[c].out]
           S == {t \in Int : Within(t, SourceCutoff(o, base))}
           d == IF o.copyTs THEN 0 ELSE -base
<1>1. \A ts : CopyOut(c, base, ts) = Shifted(Only(ts, S), d)
  BY DEF CopyOut
<1>2. d \in Int
  OBVIOUS
<1> HIDE DEF S, d
<1>3. Only(a \o b, S) = Only(a, S) \o Only(b, S)
  BY OnlyConcat
<1>4. PICK p, q : p = Only(a, S) /\ q = Only(b, S)
  OBVIOUS
<1>5. p \in Seq(Int) /\ q \in Seq(Int)
  BY <1>4, OnlyType
<1>6. Shifted(p \o q, d) = Shifted(p, d) \o Shifted(q, d)
  BY <1>2, <1>5, ShiftedConcat
<1>7. CopyOut(c, base, a \o b) = Shifted(p \o q, d)
  <2>1. CopyOut(c, base, a \o b) = Shifted(Only(a \o b, S), d)
    BY <1>1
  <2> QED BY <1>3, <1>4, <2>1
<1>8. CopyOut(c, base, a) = Shifted(p, d) /\ CopyOut(c, base, b) = Shifted(q, d)
  BY <1>1, <1>4
<1> QED BY <1>6, <1>7, <1>8

LEMMA OutEmpty ==
  /\ \A s : SubOut(s, <<>>) = <<>>
  /\ \A c, base : CopyOut(c, base, <<>>) = <<>>
BY OnlyEmpty, ShiftedEmpty DEF SubOut, CopyOut

\* The packets there are to read, one more at a time.
Valid(i, n) == n <= Len(Input(i).pkts) \/ Input(i).end = "endless"

LEMMA TimesOfNext ==
  ASSUME JobOK, NEW i \in DOMAIN job.inputs, NEW n \in Nat, Valid(i, n + 1), NEW st
  PROVE  /\ TimesOf(i, st, 0) = <<>> /\ TimesOf(i, st, n) \in Seq(Nat)
         /\ TimesOf(i, st, n + 1) = IF PacketOf(i, n + 1).st = st
                                    THEN TimesOf(i, st, n) \o <<PacketOf(i, n + 1).t>>
                                    ELSE TimesOf(i, st, n)
<1> DEFINE S == {x \in PktType : x.st = st}
           a(m) == [j \in 1..m |-> PacketOf(i, j)]
<1>1. \A m : TimesOf(i, st, m) = TimesIn(Only(a(m), S))
  BY DEF TimesOf
<1>2. Len(Input(i).pkts) \in Nat
  BY InputFacts
<1>3. \A j \in 1..(n + 1) : PacketOf(i, j) \in PktType
  <2> SUFFICES ASSUME NEW j \in 1..(n + 1) PROVE PacketOf(i, j) \in PktType
    OBVIOUS
  <2>1. j \in Nat \ {0} /\ (j <= Len(Input(i).pkts) \/ Input(i).end = "endless")
    BY <1>2 DEF Valid
  <2> QED BY <2>1, PacketType
<1>4. PICK x : x = PacketOf(i, n + 1)
  OBVIOUS
<1>5. x \in PktType
  BY <1>3, <1>4
<1>6. a(n) \in Seq(PktType) /\ Len(a(n)) = n
  BY <1>3
<1>7. a(n + 1) = Append(a(n), x)
  <2>1. a(n + 1) \in Seq(PktType) /\ Len(a(n + 1)) = n + 1
    BY <1>3
  <2>2. PICK b, c : b = a(n) /\ c = a(n + 1)
    OBVIOUS
  <2>3. Append(b, x) \in Seq(PktType) /\ Len(Append(b, x)) = n + 1
    BY <1>5, <1>6, <2>2
  <2>4. \A j \in 1..(n + 1) : c[j] = Append(b, x)[j]
    <3> SUFFICES ASSUME NEW j \in 1..(n + 1) PROVE c[j] = Append(b, x)[j]
      OBVIOUS
    <3>1. c[j] = PacketOf(i, j)
      BY <2>2
    <3>2. j \in 1..n => b[j] = PacketOf(i, j)
      BY <2>2
    <3>3. b \in Seq(PktType) /\ Len(b) = n
      BY <1>6, <2>2
    <3>4. Append(b, x)[j] = IF j \in 1..n THEN b[j] ELSE x
      BY <1>5, <3>3
    <3>5. j \notin 1..n => j = n + 1
      OBVIOUS
    <3> QED BY <1>4, <3>1, <3>2, <3>4, <3>5
  <2>5. c = Append(b, x)
    BY <2>1, <2>2, <2>3, <2>4, SameSeq
  <2> QED BY <2>2, <2>5
<1>8. a(0) = <<>>
  OBVIOUS
<1>9. TimesOf(i, st, 0) = <<>>
  BY <1>1, <1>8, OnlyEmpty, TimesInEmpty
<1>10. PICK b : b = a(n)
  OBVIOUS
<1>11. TimesOf(i, st, n) = TimesIn(Only(b, S)) /\ TimesOf(i, st, n + 1) = TimesIn(Only(Append(b, x), S))
  BY <1>1, <1>7, <1>10
<1>12. b \in Seq(PktType)
  BY <1>6, <1>10
<1>13. x \in S <=> x.st = st
  BY <1>5
<1> HIDE DEF S, a
<1>14. PICK c : c = Only(b, S)
  OBVIOUS
<1>15. c \in Seq(PktType)
  BY <1>12, <1>14, OnlyType
<1>16. \A y \in PktType : y.t \in Nat
  BY DEF PktType
<1>17. TimesIn(c) \in Seq(Nat)
  BY <1>15, <1>16, TimesInType
<1>18. Only(Append(b, x), S) = IF x \in S THEN Append(c, x) ELSE c
  BY <1>5, <1>12, <1>14, OnlyAppend
<1>19. TimesIn(Append(c, x)) = TimesIn(c) \o <<x.t>>
  <2>1. <<x>> \in Seq(PktType) /\ Append(c, x) = c \o <<x>>
    BY <1>5, <1>15
  <2>2. TimesIn(c \o <<x>>) = TimesIn(c) \o TimesIn(<<x>>)
    BY <1>15, <1>16, <2>1, TimesInConcat
  <2>3. TimesIn(<<x>>) = <<x.t>>
    BY DEF TimesIn
  <2> QED BY <2>1, <2>2, <2>3
<1> QED BY <1>4, <1>9, <1>11, <1>13, <1>14, <1>17, <1>18, <1>19
-----------------------------------------------------------------------------
(* The cues *)

\* The packet in hand is the last one read, of an input that has not ended.
HandInv ==
  /\ \A i \in DOMAIN job.inputs : next[i] <= Final(i)
  /\ rc = "ok" /\ Handling => ~eof[in] /\ next[in] > 0 /\ pkt = PacketOf(in, next[in])

\* How many packets of its input a subtitle stream has been offered: while the last
\* one is on its way to it, that one does not count.
Offered(s) ==
  LET i == job.subs[s].in IN
  IF i = in /\ (pc = "copy" \/ (pc = "pull" /\ then = "copy") \/ (pc = "sub" /\ k <= s))
    THEN next[i] - 1 ELSE next[i]

\* What is written and what the decoder still holds make what was offered; and the
\* decoder holds nothing once its input has ended and it has been flushed.
CueKept(s) ==
  Got(job.subs[s].out, "sub", s) \o SubOut(s, cue[s]) =
    SubOut(s, TimesOf(job.subs[s].in, job.subs[s].st, Offered(s)))
CueInv == rc = "ok" => \A s \in DOMAIN job.subs : CueKept(s)
FlushInv ==
  rc = "ok" => \A s \in DOMAIN job.subs :
    eof[job.subs[s].in] => cue[s] = <<>> \/ (pc = "flushsub" /\ in = job.subs[s].in /\ k <= s)

LEMMA SameLanes ==
  ASSUME UNCHANGED job
  PROVE  /\ \A i, n : PacketOf(i, n)' = PacketOf(i, n) /\ Valid(i, n)' = Valid(i, n)
         /\ \A i : Final(i)' = Final(i) /\ SeekBase(i)' = SeekBase(i)
         /\ \A i, st, n : TimesOf(i, st, n)' = TimesOf(i, st, n)
         /\ \A s, ts : SubOut(s, ts)' = SubOut(s, ts)
         /\ \A c, base, ts : CopyOut(c, base, ts)' = CopyOut(c, base, ts)
BY DEF PacketOf, Valid, Final, TimesOf, SubOut, CopyOut, SeekBase, Input

LEMMA ReadValid ==
  ASSUME TypeInv, HandInv, NEW i \in DOMAIN job.inputs
  PROVE  next[i] \in Nat /\ Valid(i, next[i])
<1>1. next[i] \in Nat
  BY DEF TypeInv, TypeOK
<1> QED BY <1>1 DEF HandInv, Final, Valid

LEMMA HandInvInit == ASSUME TypeInv, Init PROVE HandInv
<1>1. \A i \in DOMAIN job.inputs : Final(i) \in Nat
  BY TypeFacts, InputFacts, ProcessAssumption DEF ProcessAssumption, Final
<1> QED BY <1>1 DEF Init, HandInv, Handling

LEMMA HandInvNext == ASSUME TypeInv, HandInv, [Next]_vars PROVE HandInv'
<1>1. CASE Read
  <2>1. /\ UNCHANGED <<job, in, eof, rc>> /\ next' = [next EXCEPT ![in] = @ + 1] /\ pkt' = Coming(in)
        /\ ~eof[in] /\ More(in) /\ (Input(in).end = "endless" => next[in] < MaxReads)
    BY <1>1 DEF Read
  <2>2. in \in DOMAIN job.inputs /\ next \in [DOMAIN job.inputs -> Nat]
    BY DEF TypeInv, TypeOK
  <2>3. next'[in] = next[in] + 1 /\ next[in] \in Nat /\ \A i \in DOMAIN job.inputs : i # in => next'[i] = next[i]
    BY <2>1, <2>2
  <2>4. next[in] + 1 <= Final(in)
    <3>1. Len(Input(in).pkts) \in Nat /\ MaxReads \in Nat
      BY <2>2, TypeFacts, InputFacts, ProcessAssumption DEF ProcessAssumption
    <3> QED BY <2>1, <2>3, <3>1 DEF Final, More
  <2>5. \A i \in DOMAIN job.inputs : next'[i] <= Final(i)
    BY <2>3, <2>4 DEF HandInv
  <2>6. pkt' = PacketOf(in, next'[in])
    BY <2>1, <2>3 DEF Coming
  <2>7. next'[in] > 0
    BY <2>3
  <2> QED BY <2>1, <2>5, <2>6, <2>7, SameLanes DEF HandInv
<1>2. CASE ~Read
  <2>1. UNCHANGED <<job, next>>
    BY <1>2 DEF Next, Work, Skip, StopInput, EndInput, ReadFails, FlushSub, Copy, Sub, Pull, PullStarts, PullDone,
      PullFrame, PullNothing, PullEnds, Drain, flush_copy_bsfs, WriteTrailer, CallFails, vars, inVars
  <2>2. rc' = "ok" /\ Handling' => rc = "ok" /\ Handling /\ UNCHANGED <<in, pkt, eof>>
    <3>1. CASE Skip \/ StopInput
      BY <3>1 DEF Handling, Skip, StopInput, EndInput, Goto
    <3>2. CASE ReadFails \/ CallFails
      BY <3>2 DEF ReadFails, CallFails
    <3>3. CASE FlushSub
      BY <3>3 DEF Handling, FlushSub
    <3>4. CASE Copy \/ Sub
      BY <3>4 DEF Handling, Copy, Sub, Goto, inVars
    <3>5. CASE Pull
      <4>1. pc = "pull" /\ UNCHANGED <<pkt, eof, then, rc>>
        BY <3>5 DEF Pull, PullStarts, PullDone, PullFrame, PullNothing, PullEnds, inVars
      <4>2. (UNCHANGED <<pc, in>>) \/ (pc' = then /\ (then # "read" => in' = in))
        BY <3>5 DEF Pull, PullStarts, PullDone, PullFrame, PullNothing, PullEnds, PullReturns
      <4> QED BY <4>1, <4>2 DEF Handling, TypeInv, TypeOK
    <3>6. CASE Drain \/ flush_copy_bsfs \/ WriteTrailer
      BY <3>6 DEF Handling, Drain, flush_copy_bsfs, WriteTrailer, Goto
    <3>7. CASE UNCHANGED vars
      BY <3>7 DEF Handling, vars, ctl, inVars
    <3> QED BY <1>2, <3>1, <3>2, <3>3, <3>4, <3>5, <3>6, <3>7 DEF Next, Work
  <2> QED BY <2>1, <2>2, SameLanes DEF HandInv
<1> QED BY <1>1, <1>2

\* Steps that leave this lane alone.
LEMMA CueInvFrame ==
  ASSUME TypeInv, CueInv, UNCHANGED <<job, cue>>, rc' = "ok" => rc = "ok",
         rc' = "ok" => /\ \A p \in DOMAIN job.outs, s \in DOMAIN job.subs : Got(p, "sub", s)' = Got(p, "sub", s)
                       /\ \A s \in DOMAIN job.subs : Offered(s)' = Offered(s)
  PROVE  CueInv'
<1>1. SUFFICES ASSUME rc' = "ok", NEW s \in DOMAIN job.subs PROVE CueKept(s)'
  BY DEF CueInv
<1>2. CueKept(s)
  BY <1>1 DEF CueInv
<1>3. PICK p \in DOMAIN job.outs : p = job.subs[s].out
  BY TypeFacts, SubFacts
<1>4. Got(p, "sub", s)' = Got(p, "sub", s) /\ Offered(s)' = Offered(s)
  BY <1>1
<1>5. PICK n : n = Offered(s)
  OBVIOUS
<1> QED BY <1>2, <1>3, <1>4, <1>5, SameLanes DEF CueKept

\* Nothing that is written in another lane is taken for a cue.
LEMMA OtherLane ==
  ASSUME TypeInv, NEW o \in DOMAIN job.outs, NEW lane \in {"enc", "cpy", "sub"}, NEW n \in Nat,
         NEW ts \in Seq(Int), muxed' = Muxed(o, lane, n, ts), NEW l, l # lane
  PROVE  \A p \in DOMAIN job.outs : \A m : Got(p, l, m)' = Got(p, l, m)
BY TypeFacts, GotAdds DEF TypeInv, TypeOK

LEMMA EncodedWrites ==
  ASSUME TypeInv, NEW s \in DOMAIN job.gouts, NEW ts \in Seq(Int), muxed' = Encoded(s, ts), NEW l, l # "enc"
  PROVE  \A p \in DOMAIN job.outs : \A m : Got(p, l, m)' = Got(p, l, m)
<1>1. job.gouts[s].out \in DOMAIN job.outs /\ s \in Nat /\ EncOut(s, ts) \in Seq(Int)
  BY TypeFacts, ChainFacts, JobFacts, EncOutType
<1> QED BY <1>1, OtherLane DEF Encoded

LEMMA CopyWrites ==
  ASSUME TypeInv, NEW c \in DOMAIN job.cpys, NEW ts \in Seq(Nat), write_copy_pkt(c, ts), NEW l, l # "cpy"
  PROVE  \A p \in DOMAIN job.outs : \A m : Got(p, l, m)' = Got(p, l, m)
<1> DEFINE cp   == job.cpys[c]
           was  == cpyRebase[cp.in][cp.out]
           base == IF was # None \/ ts = <<>> THEN was ELSE ts[1]
<1>1. cp.in \in DOMAIN job.inputs /\ cp.out \in DOMAIN job.outs /\ c \in Nat
  BY TypeFacts, CopyFacts
<1>2. base \in Int
  <2>1. was \in Nat \cup {None}
    BY <1>1 DEF TypeInv, TypeOK
  <2>2. ts # <<>> => ts[1] \in Nat
    OBVIOUS
  <2> HIDE DEF was
  <2> QED BY <2>1, <2>2 DEF None
<1>3. muxed' = Muxed(cp.out, "cpy", c, CopyOut(c, base, ts))
  BY DEF write_copy_pkt
<1> HIDE DEF base
<1>4. ts \in Seq(Int)
  OBVIOUS
<1>5. CopyOut(c, base, ts) \in Seq(Int)
  BY <1>2, <1>4, TypeFacts, CopyOutType
<1> QED BY <1>1, <1>3, <1>5, OtherLane

LEMMA SubWrites ==
  ASSUME TypeInv, NEW s \in DOMAIN job.subs, NEW ts \in Seq(Nat), write_sub_pkt(s, ts), NEW l, l # "sub"
  PROVE  \A p \in DOMAIN job.outs : \A m : Got(p, l, m)' = Got(p, l, m)
<1>1. ts \in Seq(Int)
  OBVIOUS
<1>2. job.subs[s].out \in DOMAIN job.outs /\ s \in Nat /\ SubOut(s, ts) \in Seq(Int)
  BY <1>1, TypeFacts, SubFacts, SubOutType
<1> QED BY <1>2, OtherLane DEF write_sub_pkt

LEMMA DrainWrites ==
  ASSUME TypeInv, Drain, NEW l, l # "enc"
  PROVE  \A p \in DOMAIN job.outs : \A m : Got(p, l, m)' = Got(p, l, m)
<1>1. UNCHANGED job /\ pc = "drain"
  BY DEF Drain
<1>2. CASE UNCHANGED muxed
  BY <1>2 DEF Got
<1>3. CASE ~UNCHANGED muxed
  <2>1. ~(k > Len(job.gouts)) /\ muxed' = Encoded(k, enc[k])
    BY <1>3 DEF Drain
  <2>2. k \in DOMAIN job.gouts
    BY <1>1, <2>1, TypeFacts, JobFacts, InDomain DEF TypeInv, TypeOK
  <2>3. enc[k] \in Seq(Int)
    BY <2>2 DEF TypeInv, TypeOK
  <2> QED BY <2>1, <2>2, <2>3, EncodedWrites
<1> QED BY <1>2, <1>3

LEMMA PullWrites ==
  ASSUME TypeInv, Pull, NEW l, l # "enc"
  PROVE  \A p \in DOMAIN job.outs : \A m : Got(p, l, m)' = Got(p, l, m)
<1>1. CASE UNCHANGED muxed
  BY <1>1 DEF Got
<1>2. CASE ~UNCHANGED muxed
  <2> DEFINE t == FrameAt(k, taken[k] + 1)
  <2>1. PullFrame
    BY <1>2 DEF Pull, PullStarts, PullDone, PullNothing, PullEnds, outVars
  <2>2. k \in DOMAIN job.gouts /\ HasFrame(k, taken[k] + 1) /\ muxed' = Encoded(k, Through(enc[k], t)[1])
    BY <1>2, <2>1 DEF PullFrame
  <2>3. taken[k] \in Nat /\ enc[k] \in Seq(Int)
    BY <2>2 DEF TypeInv, TypeOK
  <2>4. t \in Int
    BY <2>2, <2>3, FrameType
  <2> HIDE DEF t
  <2>5. Through(enc[k], t)[1] \in Seq(Int)
    BY <2>3, <2>4 DEF Through
  <2> QED BY <2>2, <2>5, EncodedWrites
<1> QED BY <1>1, <1>2

\* A step that writes cues of one stream.
LEMMA CueAt ==
  ASSUME TypeInv, CueInv, rc = "ok", UNCHANGED job, NEW p \in DOMAIN job.subs, NEW ts \in Seq(Nat),
         write_sub_pkt(p, ts), NEW h, cue' = [cue EXCEPT ![p] = h],
         \A s \in DOMAIN job.subs : s # p => Offered(s)' = Offered(s), NEW n, n = Offered(p)',
         (Got(job.subs[p].out, "sub", p) \o SubOut(p, ts)) \o SubOut(p, h) =
           SubOut(p, TimesOf(job.subs[p].in, job.subs[p].st, n))
  PROVE  CueInv'
<1>1. SUFFICES ASSUME NEW s \in DOMAIN job.subs PROVE CueKept(s)'
  BY DEF CueInv
<1>2. /\ job.subs[p].out \in DOMAIN job.outs /\ p \in Nat /\ job.subs[s].out \in DOMAIN job.outs
      /\ SubOut(p, ts) \in Seq(Int)
  <2>1. ts \in Seq(Int)
    OBVIOUS
  <2> QED BY <2>1, TypeFacts, SubFacts, SubOutType
<1>3. muxed' = Muxed(job.subs[p].out, "sub", p, SubOut(p, ts))
  BY DEF write_sub_pkt
<1>4. PICK o \in DOMAIN job.outs : o = job.subs[s].out
  BY <1>2
<1>5. Got(o, "sub", s)' = IF o = job.subs[p].out /\ s = p THEN Got(o, "sub", s) \o SubOut(p, ts) ELSE Got(o, "sub", s)
  <2>1. muxed \in [DOMAIN job.outs -> Seq(UnitType)]
    BY DEF TypeInv, TypeOK
  <2>2. PICK po, q : po = job.subs[p].out /\ q = SubOut(p, ts)
    OBVIOUS
  <2>3. po \in DOMAIN job.outs /\ q \in Seq(Int) /\ muxed' = Muxed(po, "sub", p, q) /\ p \in Nat
    BY <1>2, <1>3, <2>2
  <2>4. Got(o, "sub", s)' = IF o = po /\ "sub" = "sub" /\ s = p THEN Got(o, "sub", s) \o q ELSE Got(o, "sub", s)
    BY <2>1, <2>3, TypeFacts, GotAdds
  <2> QED BY <2>2, <2>4
<1>6. DOMAIN cue = DOMAIN job.subs
  BY DEF TypeInv, TypeOK
<1>7. CASE s = p
  <2>1. cue'[s] = h /\ Got(o, "sub", s)' = Got(job.subs[p].out, "sub", p) \o SubOut(p, ts)
    BY <1>4, <1>5, <1>6, <1>7
  <2>2. n = Offered(s)'
    BY <1>7
  <2> QED BY <1>4, <1>7, <2>1, <2>2, SameLanes DEF CueKept
<1>8. CASE s # p
  <2>1. cue'[s] = cue[s] /\ Got(o, "sub", s)' = Got(o, "sub", s)
    BY <1>5, <1>6, <1>8
  <2>2. Offered(s)' = Offered(s)
    BY <1>8
  <2>3. PICK m : m = Offered(s)
    OBVIOUS
  <2>4. CueKept(s)
    BY DEF CueInv
  <2> QED BY <1>4, <2>1, <2>2, <2>3, <2>4, SameLanes DEF CueKept
<1> QED BY <1>7, <1>8

\* What goes through a codec comes out in order.
LEMMA ThroughJoins ==
  ASSUME ProcessAssumption, NEW h \in Seq(Nat), Len(h) <= Lag, NEW t
  PROVE  \/ Through(h, t)[1] = h /\ Through(h, t)[2] = <<t>>
         \/ h = <<>> /\ Through(h, t)[1] = <<t>> /\ Through(h, t)[2] = <<>>
BY DEF Through, ProcessAssumption

LEMMA CueInvFlush ==
  ASSUME TypeInv, CueInv, FlushSub
  PROVE  CueInv'
<1>1. UNCHANGED <<job, in, next, rc>> /\ pc = "flushsub" /\ \A s \in DOMAIN job.subs : s \in Nat
  BY TypeFacts, SubFacts DEF FlushSub, inVars
<1>2. SUFFICES ASSUME rc = "ok" PROVE CueInv'
  BY <1>1 DEF CueInv
<1>3. \A s \in DOMAIN job.subs : Offered(s)' = Offered(s)
  <2>1. pc' = "flushsub" \/ (pc' = "pull" /\ then' = "read")
    BY <1>1 DEF FlushSub
  <2> QED BY <1>1, <2>1 DEF Offered
<1>4. CASE UNCHANGED <<muxed, cue>>
  BY <1>1, <1>3, <1>4, CueInvFrame DEF Got
<1>5. CASE ~UNCHANGED <<muxed, cue>>
  <2>1. PICK p : p = k
    OBVIOUS
  <2>2. p \in DOMAIN job.subs /\ write_sub_pkt(p, cue[p]) /\ cue' = [cue EXCEPT ![p] = <<>>]
    <3>1. ~(k > Len(job.subs))
      BY <1>5 DEF FlushSub
    <3>2. k \in DOMAIN job.subs
      BY <1>1, <3>1, TypeFacts, JobFacts, InDomain DEF TypeInv, TypeOK
    <3> QED BY <1>5, <2>1, <3>1, <3>2 DEF FlushSub
  <2>3. cue[p] \in Seq(Nat) /\ cue[p] \in Seq(Int)
    <3>1. cue[p] \in Seq(Nat)
      BY <2>2 DEF TypeInv, TypeOK
    <3> QED BY <3>1
  <2>4. PICK n : n = Offered(p)'
    OBVIOUS
  <2>5. PICK a, b : a = Got(job.subs[p].out, "sub", p) /\ b = SubOut(p, cue[p])
    OBVIOUS
  <2>6. a \in Seq(Int) /\ b \in Seq(Int)
    BY <2>2, <2>3, <2>5, TypeFacts, SubFacts, GotType, SubOutType DEF TypeInv, TypeOK
  <2>7. (a \o b) \o <<>> = a \o b
    BY <2>6
  <2>8. a \o b = SubOut(p, TimesOf(job.subs[p].in, job.subs[p].st, n))
    <3>1. CueKept(p) /\ n = Offered(p)
      BY <1>2, <1>3, <2>2, <2>4 DEF CueInv
    <3> QED BY <2>5, <3>1 DEF CueKept
  <2>9. (a \o b) \o SubOut(p, <<>>) = SubOut(p, TimesOf(job.subs[p].in, job.subs[p].st, n))
    BY <2>7, <2>8, OutEmpty
  <2> QED BY <1>1, <1>2, <1>3, <2>2, <2>3, <2>4, <2>5, <2>9, CueAt
<1> QED BY <1>4, <1>5

LEMMA CueInvSub ==
  ASSUME TypeInv, HandInv, CueInv, Sub
  PROVE  CueInv'
<1>1. UNCHANGED <<job, pkt, next, rc>> /\ pc = "sub" /\ \A s \in DOMAIN job.subs : s \in Nat
  BY TypeFacts, SubFacts DEF Sub, inVars
<1>2. SUFFICES ASSUME rc = "ok" PROVE CueInv'
  BY <1>1 DEF CueInv
<1>3. CASE k > Len(job.subs)
  <2>1. pc' = "read" /\ UNCHANGED <<muxed, cue>>
    BY <1>3 DEF Sub, Goto
  <2>2. \A s \in DOMAIN job.subs : ~(k <= s)
    BY <1>3, TypeFacts, JobFacts DEF TypeInv, TypeOK
  <2>3. \A s \in DOMAIN job.subs : Offered(s)' = Offered(s)
    BY <1>1, <2>1, <2>2 DEF Offered
  <2> QED BY <1>1, <2>1, <2>3, CueInvFrame DEF Got
<1>4. CASE ~(k > Len(job.subs))
  <2>1. PICK p : p = k
    OBVIOUS
  <2>2. p \in DOMAIN job.subs /\ p \in Nat /\ UNCHANGED <<pc, in>> /\ k' = p + 1
    <3>1. k \in DOMAIN job.subs
      BY <1>1, <1>4, TypeFacts, JobFacts, InDomain DEF TypeInv, TypeOK
    <3> QED BY <1>1, <1>4, <2>1, <3>1 DEF Sub
  <2>3. \A s \in DOMAIN job.subs : s # p => Offered(s)' = Offered(s)
    BY <1>1, <2>1, <2>2 DEF Offered
  <2>4. PICK n : n = next[job.subs[p].in]
    OBVIOUS
  <2>5. PICK j : j = n - 1
    OBVIOUS
  <2>5a. n = Offered(p)' /\ Offered(p) = IF job.subs[p].in = in THEN j ELSE n
    BY <1>1, <2>1, <2>2, <2>4, <2>5 DEF Offered
  <2>6. ~eof[in] /\ next[in] > 0 /\ pkt = PacketOf(in, next[in]) /\ in \in DOMAIN job.inputs
    BY <1>1, <1>2 DEF HandInv, Handling, TypeInv, TypeOK
  <2>7. next[in] \in Nat /\ Valid(in, next[in])
    BY <2>6, ReadValid
  <2>8. ASSUME job.subs[p].in = in
        PROVE  j \in Nat /\ n = j + 1 /\ Valid(in, j + 1) /\ pkt = PacketOf(in, j + 1)
    <3>1. n = next[in] /\ n \in Nat /\ n > 0
      BY <2>4, <2>6, <2>7, <2>8
    <3>2. n = j + 1 /\ j \in Nat
      BY <2>5, <3>1
    <3> QED BY <2>6, <2>7, <3>1, <3>2
  <2>9. CueKept(p)
    BY <1>2, <2>2 DEF CueInv
  <2> DEFINE i == job.subs[p].in
             st == job.subs[p].st
  <2>10. CASE i = in /\ st = pkt.st
    <3> DEFINE io == Through(cue[p], pkt.t)
    <3>1. write_sub_pkt(p, io[1]) /\ cue' = [cue EXCEPT ![p] = io[2]]
      BY <1>4, <2>1, <2>10 DEF Sub
    <3>2. /\ cue[p] \in Seq(Nat) /\ Len(cue[p]) <= Lag /\ pkt.t \in Nat /\ pkt \in PktType
      BY <1>1, <2>2 DEF TypeInv, TypeOK, Handling, PktType
    <3>3. PICK h, t : h = cue[p] /\ t = pkt.t
      OBVIOUS
    <3>4. h \in Seq(Nat) /\ h \in Seq(Int) /\ Len(h) <= Lag /\ t \in Nat /\ <<t>> \in Seq(Int)
      BY <3>2, <3>3
    <3>5. PICK x, y : x = io[1] /\ y = io[2]
      OBVIOUS
    <3>6. /\ x \in Seq(Nat)
          /\ (x = h /\ y = <<t>>) \/ (h = <<>> /\ x = <<t>> /\ y = <<>>)
      BY <3>3, <3>4, <3>5, ThroughJoins, ThroughType, ProcessAssumption
    <3>7. TimesOf(i, st, n) = TimesOf(i, st, j) \o <<t>> /\ TimesOf(i, st, j) \in Seq(Nat)
      <4>1. /\ TimesOf(in, st, j) \in Seq(Nat)
            /\ TimesOf(in, st, j + 1) = TimesOf(in, st, j) \o <<PacketOf(in, j + 1).t>>
        <5>1. j \in Nat /\ Valid(in, j + 1) /\ in \in DOMAIN job.inputs /\ PacketOf(in, j + 1).st = st
          BY <2>6, <2>8, <2>10
        <5> HIDE DEF st, i
        <5> QED BY <5>1, TypeFacts, TimesOfNext
      <4> QED BY <2>8, <2>10, <3>3, <4>1
    <3>8. PICK g, a, b, c : /\ g = TimesOf(i, st, j) /\ a = Got(job.subs[p].out, "sub", p)
                            /\ b = SubOut(p, h) /\ c = SubOut(p, <<t>>)
      OBVIOUS
    <3>9. a \in Seq(Int) /\ b \in Seq(Int) /\ c \in Seq(Int) /\ g \in Seq(Int)
      <4>1. g \in Seq(Int)
        BY <3>7, <3>8
      <4> QED BY <2>2, <3>4, <3>8, <4>1, TypeFacts, SubFacts, GotType, SubOutType DEF TypeInv, TypeOK
    <3>10. a \o b = SubOut(p, g)
      BY <2>5a, <2>9, <2>10, <3>3, <3>8 DEF CueKept
    <3>11. SubOut(p, TimesOf(i, st, n)) = (a \o b) \o c
      <4>1. SubOut(p, g \o <<t>>) = SubOut(p, g) \o SubOut(p, <<t>>)
        BY <2>2, <3>4, <3>9, TypeFacts, SubOutConcat
      <4> QED BY <3>7, <3>8, <3>10, <4>1
    <3>12. (a \o SubOut(p, x)) \o SubOut(p, y) = (a \o b) \o c
      <4>1. CASE x = h /\ y = <<t>>
        BY <3>8, <4>1
      <4>2. CASE h = <<>> /\ x = <<t>> /\ y = <<>>
        <5>1. SubOut(p, x) = c /\ SubOut(p, y) = <<>> /\ b = <<>>
          BY <3>8, <4>2, OutEmpty
        <5>2. (a \o c) \o <<>> = (a \o <<>>) \o c
          BY <3>9
        <5> QED BY <5>1, <5>2
      <4> QED BY <3>6, <4>1, <4>2
    <3>13. write_sub_pkt(p, x) /\ cue' = [cue EXCEPT ![p] = y]
      BY <3>1, <3>5
    <3>14. (Got(job.subs[p].out, "sub", p) \o SubOut(p, x)) \o SubOut(p, y) =
             SubOut(p, TimesOf(job.subs[p].in, job.subs[p].st, n))
      BY <3>8, <3>11, <3>12
    <3>15. n = Offered(p)'
      BY <2>5a
    <3> HIDE DEF io, i, st
    <3> QED BY <1>1, <1>2, <2>2, <2>3, <3>6, <3>13, <3>14, <3>15, CueAt
  <2>11. CASE ~(i = in /\ st = pkt.st)
    <3>1. UNCHANGED <<cue, muxed>>
      BY <1>4, <2>1, <2>11 DEF Sub
    <3>2. CASE i # in
      <4>1. \A s \in DOMAIN job.subs : Offered(s)' = Offered(s)
        BY <2>3, <2>5a, <3>2
      <4> QED BY <1>1, <3>1, <4>1, CueInvFrame DEF Got
    <3>3. CASE i = in
      <4>1. TimesOf(i, st, n) = TimesOf(i, st, j)
        <5>1. TimesOf(in, st, j + 1) = TimesOf(in, st, j)
          BY <2>6, <2>8, <2>11, <3>3, TypeFacts, TimesOfNext
        <5> QED BY <2>8, <3>3, <5>1
      <4>2. ASSUME NEW s \in DOMAIN job.subs PROVE CueKept(s)'
        <5>1. CueKept(s)
          BY <1>2 DEF CueInv
        <5>2. PICK q \in DOMAIN job.outs : q = job.subs[s].out
          BY TypeFacts, SubFacts
        <5>3. Got(q, "sub", s)' = Got(q, "sub", s)
          BY <3>1 DEF Got
        <5>4. PICK m, l : m = Offered(s) /\ l = Offered(s)'
          OBVIOUS
        <5>5. TimesOf(job.subs[s].in, job.subs[s].st, l) = TimesOf(job.subs[s].in, job.subs[s].st, m)
          BY <2>3, <2>5a, <3>3, <4>1, <5>4
        <5> QED BY <1>1, <3>1, <5>1, <5>2, <5>3, <5>4, <5>5, SameLanes DEF CueKept
      <4> QED BY <1>1, <4>2 DEF CueInv
    <3> QED BY <3>2, <3>3
  <2> QED BY <2>10, <2>11
<1> QED BY <1>3, <1>4

LEMMA CueInvInit == ASSUME TypeInv, Init PROVE CueInv
<1>1. SUFFICES ASSUME NEW s \in DOMAIN job.subs PROVE CueKept(s)
  BY DEF CueInv
<1>2. /\ job.subs[s].out \in DOMAIN job.outs /\ job.subs[s].in \in DOMAIN job.inputs
  BY TypeFacts, SubFacts
<1>3. cue[s] = <<>> /\ Offered(s) = 0 /\ muxed[job.subs[s].out] = <<>>
  BY <1>2 DEF Init, Offered
<1>4. Got(job.subs[s].out, "sub", s) = <<>>
  BY <1>3, OnlyEmpty, TimesInEmpty DEF Got
<1>5. TimesOf(job.subs[s].in, job.subs[s].st, 0) = <<>>
  <2>1. [m \in 1..0 |-> PacketOf(job.subs[s].in, m)] = <<>>
    OBVIOUS
  <2> QED BY <2>1, OnlyEmpty, TimesInEmpty DEF TimesOf
<1>6. <<>> \o <<>> = <<>>
  OBVIOUS
<1> QED BY <1>3, <1>4, <1>5, <1>6, OutEmpty DEF CueKept

LEMMA CueInvNext == ASSUME TypeInv, HandInv, CueInv, [Next]_vars PROVE CueInv'
<1>1. \A s \in DOMAIN job.subs : s >= 1
  BY TypeFacts, JobFacts
<1>2. CASE FlushSub BY <1>2, CueInvFlush
<1>3. CASE Sub BY <1>3, CueInvSub
<1>4. CASE ReadFails \/ CallFails
  BY <1>4 DEF ReadFails, CallFails, CueInv
<1>5. CASE Read
  <2>1. /\ UNCHANGED <<job, in, cue, muxed, rc>> /\ next' = [next EXCEPT ![in] = @ + 1]
        /\ pc = "read" /\ pc' = "pull" /\ then' = "copy" /\ next \in [DOMAIN job.inputs -> Nat]
    BY <1>5 DEF Read, laneVars, outVars, TypeInv, TypeOK
  <2>2. ASSUME NEW s \in DOMAIN job.subs PROVE Offered(s)' = Offered(s)
    <3>1. job.subs[s].in \in DOMAIN job.inputs
      BY TypeFacts, SubFacts
    <3> QED BY <2>1, <3>1 DEF Offered
  <2> QED BY <2>1, <2>2, CueInvFrame DEF Got
<1>6. CASE Skip \/ StopInput \/ WriteTrailer \/ UNCHANGED vars
  <2>1. UNCHANGED <<job, cue, muxed, next>> /\ (rc' = "ok" => rc = "ok")
    BY <1>6 DEF Skip, StopInput, EndInput, WriteTrailer, vars, inVars, laneVars, outVars
  <2>2. \A s \in DOMAIN job.subs : Offered(s)' = Offered(s)
    BY <1>6, <2>1 DEF Skip, StopInput, EndInput, Goto, WriteTrailer, vars, ctl, Offered
  <2> QED BY <2>1, <2>2, CueInvFrame DEF Got
<1>7. CASE Copy
  <2>1. UNCHANGED <<job, in, cue, next, rc>> /\ pc = "copy"
    BY <1>7 DEF Copy, inVars
  <2>2. pc' = "copy" \/ (pc' = "sub" /\ k' = 1)
    BY <1>7, <2>1 DEF Copy, Goto
  <2>3. \A s \in DOMAIN job.subs : Offered(s)' = Offered(s)
    BY <1>1, <2>1, <2>2 DEF Offered
  <2>4. \A p \in DOMAIN job.outs, s \in DOMAIN job.subs : Got(p, "sub", s)' = Got(p, "sub", s)
    <3>1. CASE UNCHANGED muxed
      BY <3>1 DEF Got
    <3>2. CASE ~UNCHANGED muxed
      <4> DEFINE io == IF job.cpys[k].bsf THEN Through(held[k], pkt.t) ELSE <<<<pkt.t>>, <<>>>>
      <4>1. ~(k > Len(job.cpys)) /\ write_copy_pkt(k, io[1])
        BY <1>7, <3>2 DEF Copy
      <4>2. k \in DOMAIN job.cpys
        BY <2>1, <4>1, TypeFacts, JobFacts, InDomain DEF TypeInv, TypeOK
      <4>3. pkt \in PktType /\ pkt.t \in Nat /\ held[k] \in Seq(Nat) /\ Len(held[k]) <= Lag
        BY <2>1, <4>2 DEF TypeInv, TypeOK, Handling, PktType
      <4>4. io[1] \in Seq(Nat)
        BY <4>3, ThroughType, ProcessAssumption
      <4> HIDE DEF io
      <4> QED BY <4>1, <4>2, <4>4, CopyWrites
    <3> QED BY <3>1, <3>2
  <2> QED BY <2>1, <2>3, <2>4, CueInvFrame
<1>8. CASE flush_copy_bsfs
  <2>1. UNCHANGED <<job, in, cue, next, rc, then>> /\ pc = "bsf" /\ pc' \in {"bsf", "trailer"}
    BY <1>8 DEF flush_copy_bsfs, Goto, inVars
  <2>2. \A s \in DOMAIN job.subs : Offered(s)' = Offered(s)
    BY <2>1 DEF Offered
  <2>3. \A p \in DOMAIN job.outs, s \in DOMAIN job.subs : Got(p, "sub", s)' = Got(p, "sub", s)
    <3>1. CASE UNCHANGED muxed
      BY <3>1 DEF Got
    <3>2. CASE ~UNCHANGED muxed
      <4>1. ~(k > Len(job.cpys)) /\ write_copy_pkt(k, held[k])
        BY <1>8, <3>2 DEF flush_copy_bsfs
      <4>2. k \in DOMAIN job.cpys
        BY <2>1, <4>1, TypeFacts, JobFacts, InDomain DEF TypeInv, TypeOK
      <4>3. held[k] \in Seq(Nat)
        BY <4>2 DEF TypeInv, TypeOK
      <4> QED BY <4>1, <4>2, <4>3, CopyWrites
    <3> QED BY <3>1, <3>2
  <2> QED BY <2>1, <2>2, <2>3, CueInvFrame
<1>9. CASE Drain
  <2>1. UNCHANGED <<job, in, cue, next, rc, then>> /\ pc = "drain" /\ pc' \in {"drain", "bsf"}
    BY <1>9 DEF Drain, Goto, inVars, laneVars
  <2>2. \A s \in DOMAIN job.subs : Offered(s)' = Offered(s)
    BY <2>1 DEF Offered
  <2>3. \A p \in DOMAIN job.outs, s \in DOMAIN job.subs : Got(p, "sub", s)' = Got(p, "sub", s)
    BY <1>9, DrainWrites
  <2> QED BY <2>1, <2>2, <2>3, CueInvFrame
<1>10. CASE Pull
  <2>1. UNCHANGED <<job, cue, next, rc, then>> /\ pc = "pull"
    BY <1>10 DEF Pull, PullStarts, PullDone, PullFrame, PullNothing, PullEnds, inVars, laneVars
  <2>2. UNCHANGED <<pc, in>> \/ (pc' = then /\ then \in {"read", "copy", "drain"} /\ (then = "copy" => in' = in))
    BY <1>10, <2>1 DEF Pull, PullStarts, PullDone, PullFrame, PullNothing, PullEnds, PullReturns, TypeInv, TypeOK
  <2>3. \A s \in DOMAIN job.subs : Offered(s)' = Offered(s)
    BY <2>1, <2>2 DEF Offered
  <2>4. \A p \in DOMAIN job.outs, s \in DOMAIN job.subs : Got(p, "sub", s)' = Got(p, "sub", s)
    BY <1>10, PullWrites
  <2> QED BY <2>1, <2>3, <2>4, CueInvFrame
<1> QED BY <1>2, <1>3, <1>4, <1>5, <1>6, <1>7, <1>8, <1>9, <1>10 DEF Next, Work

LEMMA FlushInvInit == ASSUME Init PROVE FlushInv
BY DEF Init, FlushInv

LEMMA FlushInvNext == ASSUME TypeInv, HandInv, FlushInv, [Next]_vars PROVE FlushInv'
<1>1. \A s \in DOMAIN job.subs : s >= 1 /\ s \in Nat /\ job.subs[s].in \in DOMAIN job.inputs
  BY TypeFacts, JobFacts, SubFacts
<1>2. CASE FlushSub
  <2>1. UNCHANGED <<job, in, eof, rc>> /\ pc = "flushsub"
    BY <1>2 DEF FlushSub, inVars
  <2>2. CASE k > Len(job.subs)
    <3>1. UNCHANGED cue /\ \A s \in DOMAIN job.subs : ~(k <= s)
      BY <1>2, <2>2, TypeFacts, JobFacts DEF FlushSub, TypeInv, TypeOK
    <3> QED BY <2>1, <3>1 DEF FlushInv
  <2>3. CASE ~(k > Len(job.subs))
    <3>1. PICK p : p = k
      OBVIOUS
    <3>2. p \in DOMAIN job.subs
      BY <2>1, <2>3, <3>1, TypeFacts, JobFacts, InDomain DEF TypeInv, TypeOK
    <3>3. k' = p + 1 /\ UNCHANGED pc /\ (\A s \in DOMAIN job.subs : s # p => cue'[s] = cue[s])
          /\ (job.subs[p].in = in => cue'[p] = <<>>) /\ (job.subs[p].in # in => cue'[p] = cue[p])
      BY <1>2, <2>3, <3>1, <3>2 DEF FlushSub, TypeInv, TypeOK
    <3>4. \A s \in DOMAIN job.subs : s # p /\ p <= s => p + 1 <= s
      BY <1>1, <3>2
    <3> QED BY <2>1, <3>1, <3>3, <3>4 DEF FlushInv
  <2> QED BY <2>2, <2>3
<1>3. CASE Sub
  <2>1. UNCHANGED <<job, eof, rc>> /\ pc = "sub"
    BY <1>3 DEF Sub, inVars
  <2>2. rc = "ok" => ~eof[in]
    BY <2>1 DEF HandInv, Handling
  <2>3. \A s \in DOMAIN job.subs : job.subs[s].in # in => cue'[s] = cue[s]
    <3>1. CASE UNCHANGED cue
      BY <3>1
    <3>2. CASE ~UNCHANGED cue
      <4>1. job.subs[k].in = in /\ cue' = [cue EXCEPT ![k] = Through(cue[k], pkt.t)[2]]
        BY <1>3, <3>2 DEF Sub
      <4> QED BY <4>1 DEF TypeInv, TypeOK
    <3> QED BY <3>1, <3>2
  <2> QED BY <2>1, <2>2, <2>3 DEF FlushInv
<1>4. CASE ReadFails \/ CallFails
  BY <1>4 DEF ReadFails, CallFails, FlushInv
<1>5. CASE StopInput
  <2>1. UNCHANGED <<job, in, cue, rc>> /\ pc = "read" /\ pc' = "flushsub" /\ k' = 1 /\ eof' = [eof EXCEPT ![in] = TRUE]
    BY <1>5 DEF StopInput, EndInput, Goto, laneVars
  <2>2. \A i \in DOMAIN job.inputs : i # in => eof'[i] = eof[i]
    BY <2>1 DEF TypeInv, TypeOK
  <2> QED BY <1>1, <2>1, <2>2 DEF FlushInv
<1>6. CASE Skip \/ Read \/ Copy \/ Pull \/ Drain \/ flush_copy_bsfs \/ WriteTrailer \/ UNCHANGED vars
  <2>1. UNCHANGED <<job, eof, cue>> /\ (rc' = "ok" => rc = "ok")
    BY <1>6 DEF Skip, Read, Copy, Pull, PullStarts, PullDone, PullFrame, PullNothing, PullEnds, Drain,
                flush_copy_bsfs, WriteTrailer, vars, inVars, laneVars
  <2>2. pc = "flushsub" => UNCHANGED <<pc, in, k>>
    BY <1>6 DEF Skip, Read, Copy, Pull, PullStarts, PullDone, PullFrame, PullNothing, PullEnds, Drain,
                flush_copy_bsfs, WriteTrailer, vars, ctl
  <2> QED BY <2>1, <2>2 DEF FlushInv
<1> QED BY <1>2, <1>3, <1>4, <1>5, <1>6 DEF Next, Work

\* An input that is copied, or has its cues written, is read to its end or until it is
\* past every window: it is never spent with the graph.
Listened(i) ==
  (\E c \in DOMAIN job.cpys : job.cpys[c].in = i) \/ (\E s \in DOMAIN job.subs : job.subs[s].in = i)
StopInv ==
  \A i \in DOMAIN job.inputs : eof[i] /\ Listened(i) =>
    (More(i) /\ PastWindows(i)) \/ (~More(i) /\ Input(i).end = "eof")

LEMMA StopInvInit == ASSUME Init PROVE StopInv
BY DEF Init, StopInv

LEMMA StopInvNext == ASSUME TypeInv, StopInv, [Next]_vars PROVE StopInv'
<1>1. UNCHANGED job => /\ \A i : Listened(i)' = Listened(i)
                       /\ \A i : next'[i] = next[i] => (More(i)' = More(i) /\ PastWindows(i)' = PastWindows(i))
  BY SameLanes DEF Listened, More, PastWindows, Coming, in_cutoff, SourceCutoff, SeekBase, Input, PacketOf
<1>2. CASE Read
  <2>1. UNCHANGED <<job, eof>> /\ ~eof[in] /\ next' = [next EXCEPT ![in] = @ + 1]
    BY <1>2 DEF Read
  <2>2. \A i \in DOMAIN job.inputs : i # in => next'[i] = next[i]
    BY <2>1 DEF TypeInv, TypeOK
  <2> QED BY <1>1, <2>1, <2>2, SameLanes DEF StopInv, Input
<1>3. CASE StopInput
  <2>1. /\ UNCHANGED <<job, next>> /\ eof' = [eof EXCEPT ![in] = TRUE]
        /\ input_is_spent(in) \/ (More(in) /\ PastWindows(in)) \/ (~More(in) /\ Input(in).end = "eof")
    BY <1>3 DEF StopInput, EndInput
  <2>2. \A i \in DOMAIN job.inputs : i # in => eof'[i] = eof[i]
    BY <2>1 DEF TypeInv, TypeOK
  <2>3. Listened(in) => ~input_is_spent(in)
    BY DEF Listened, input_is_spent
  <2> QED BY <1>1, <2>1, <2>2, <2>3 DEF StopInv, Input
<1>4. CASE ~Read /\ ~StopInput
  <2>1. UNCHANGED <<job, next, eof>>
    BY <1>4 DEF Next, Work, Skip, ReadFails, FlushSub, Copy, Sub, Pull, PullStarts, PullDone,
      PullFrame, PullNothing, PullEnds, Drain, flush_copy_bsfs, WriteTrailer, CallFails, vars, inVars
  <2> QED BY <1>1, <2>1 DEF StopInv, Input
<1> QED BY <1>2, <1>3, <1>4

\* A bound on how far a packet is behind an earlier one holds for all there are to read.
LEMMA PacketsNearOrder ==
  ASSUME JobOK, NEW i \in DOMAIN job.inputs, NEW e \in Int,
         \A m, n \in DOMAIN Input(i).pkts : m <= n => Input(i).pkts[m].t <= Input(i).pkts[n].t + e,
         NEW m \in Nat \ {0}, NEW n \in Nat, m <= n, Valid(i, n)
  PROVE  PacketOf(i, m).t <= PacketOf(i, n).t + e
<1> DEFINE p == Input(i).pkts
           L == Len(p)
<1>1. p \in Seq(PktType) /\ L \in Nat
  BY InputFacts
<1>2. Input(i).end = "endless" => L >= 1
  <2>1. Input(i).end = "endless" => p # <<>>
    BY InputFacts
  <2> QED BY <1>1, <2>1
<1>3. \A j \in 1..L : p[j].t \in Nat
  <2>1. \A j \in 1..L : p[j] \in PktType
    BY <1>1
  <2>2. \A x \in PktType : x.t \in Nat
    BY DEF PktType
  <2> QED BY <2>1, <2>2
<1>4. \A j \in 1..L : PacketOf(i, j) = p[j]
  BY DEF PacketOf
<1>5. \A j, l \in 1..L : j <= l => p[j].t <= p[l].t + e
  <2>1. DOMAIN p = 1..L
    BY <1>1
  <2> QED BY <2>1
<1>6. ASSUME NEW j \in Nat, j > L, L >= 1
      PROVE  PacketOf(i, j).t = p[L].t + j - L
  <2>1. PacketOf(i, j) = [p[L] EXCEPT !.t = @ + j - L]
    BY <1>1, <1>6 DEF PacketOf
  <2>2. p[L] \in PktType
    BY <1>1, <1>6
  <2> QED BY <2>1, <2>2 DEF PktType
<1>7. CASE n <= L
  <2>1. m \in 1..L /\ n \in 1..L
    BY <1>1, <1>7
  <2> QED BY <1>4, <1>5, <2>1
<1>8. CASE n > L
  <2>1. L >= 1 /\ L \in 1..L
    BY <1>1, <1>2, <1>8 DEF Valid
  <2>2. PacketOf(i, n).t = p[L].t + n - L /\ p[L].t \in Nat
    BY <1>3, <1>6, <1>8, <2>1
  <2>3. CASE m <= L
    <3>1. m \in 1..L
      BY <1>1, <2>3
    <3>2. PacketOf(i, m).t <= p[L].t + e /\ PacketOf(i, m).t \in Nat
      BY <1>3, <1>4, <1>5, <2>1, <3>1
    <3> QED BY <1>1, <1>8, <2>2, <3>2
  <2>4. CASE m > L
    <3>1. PacketOf(i, m).t = p[L].t + m - L
      BY <1>6, <2>1, <2>4
    <3>2. p[L].t <= p[L].t + e
      BY <1>5, <2>1
    <3> QED BY <1>1, <2>2, <3>1, <3>2
  <2> QED BY <1>1, <2>3, <2>4
<1> QED BY <1>1, <1>7, <1>8

\* What an input was stopped for is past the window of every output by more than Margin.
LEMMA PastEveryCut ==
  ASSUME JobOK, ProcessAssumption, NEW i \in DOMAIN job.inputs, PastWindows(i), Coming(i).t \in Nat,
         NEW o \in DOMAIN job.outs
  PROVE  /\ SourceCutoff(job.outs[o], SeekBase(i)) # Forever
         /\ SourceCutoff(job.outs[o], SeekBase(i)) + Margin < Coming(i).t
<1> DEFINE cut(p) == SourceCutoff(job.outs[p], SeekBase(i))
           cuts == {cut(p) : p \in DOMAIN job.outs}
           f == [p \in DOMAIN job.outs |-> cut(p)]
           n == Len(job.outs)
           most == CHOOSE c \in cuts : \A d \in cuts : d <= c
<1>1. \A p \in DOMAIN job.outs : cut(p) \in Int
  <2>1. SeekBase(i) \in Int
    BY InputFacts
  <2> QED BY <2>1, CutoffTypes
<1>2. in_cutoff(i) = IF Forever \in cuts THEN Forever ELSE most + Margin
  BY DEF in_cutoff
<1>3. in_cutoff(i) # Forever /\ ~(Coming(i).t - 1 < in_cutoff(i))
  BY DEF PastWindows, Within
<1>4. n \in Nat \ {0} /\ DOMAIN job.outs = 1..n
  <2>1. job.outs \in Seq(OutType) /\ job.outs # <<>>
    BY JobFacts DEF JobOK, WellFormed
  <2> QED BY <2>1
<1>5. \E q \in 1..n : \A p \in 1..n : f[p] <= f[q]
  <2>1. \A p \in 1..n : f[p] \in Int
    BY <1>1, <1>4
  <2> HIDE DEF f, n
  <2> QED BY <1>4, <2>1, Largest
<1>6. \E c \in cuts : \A d \in cuts : d <= c
  <2>1. PICK q \in DOMAIN job.outs : \A p \in DOMAIN job.outs : f[p] <= f[q]
    BY <1>4, <1>5
  <2>2. \A p \in DOMAIN job.outs : cut(p) <= cut(q)
    BY <2>1
  <2> HIDE DEF cut
  <2> QED BY <2>2
<1>7. most \in cuts /\ \A d \in cuts : d <= most
  <2> HIDE DEF cuts
  <2> QED BY <1>6
<1>8. most \in Int
  <2>1. cuts \subseteq Int
    BY <1>1
  <2> HIDE DEF cuts, most
  <2> QED BY <1>7, <2>1
<1>9. cut(o) \in cuts /\ cut(o) \in Int
  BY <1>1
<1> HIDE DEF cuts, most, cut
<1>10. Forever \notin cuts /\ in_cutoff(i) = most + Margin
  BY <1>2, <1>3
<1>11. cut(o) # Forever /\ cut(o) <= most
  BY <1>7, <1>9, <1>10
<1>12. cut(o) + Margin < Coming(i).t
  BY <1>3, <1>8, <1>9, <1>10, <1>11, ProcessAssumption DEF ProcessAssumption
<1> QED BY <1>11, <1>12 DEF cut

\* Packets that no window wants change nothing.
LEMMA RestUnwanted ==
  ASSUME JobOK, NEW i \in DOMAIN job.inputs, NEW a \in Nat, NEW b \in Nat, a <= b, Valid(i, b), NEW st, NEW S,
         \A m \in (a + 1)..b : PacketOf(i, m).t \notin S
  PROVE  Only(TimesOf(i, st, b), S) = Only(TimesOf(i, st, a), S)
<1> DEFINE Q == {n \in Nat : a + n <= b => Only(TimesOf(i, st, a + n), S) = Only(TimesOf(i, st, a), S)}
<1>1. 0 \in Q
  <2>1. a + 0 = a
    OBVIOUS
  <2> QED BY <2>1
<1>2. ASSUME NEW n \in Nat, n \in Q PROVE n + 1 \in Q
  <2>1. SUFFICES ASSUME a + (n + 1) <= b
                 PROVE  Only(TimesOf(i, st, a + (n + 1)), S) = Only(TimesOf(i, st, a), S)
    OBVIOUS
  <2>2. PICK m \in Nat : m = a + n
    OBVIOUS
  <2>3. m + 1 = a + (n + 1) /\ m + 1 \in (a + 1)..b /\ a + n <= b
    BY <2>1, <2>2
  <2>4. Only(TimesOf(i, st, m), S) = Only(TimesOf(i, st, a), S)
    BY <1>2, <2>2, <2>3
  <2>5. Valid(i, m + 1)
    <3>1. Len(Input(i).pkts) \in Nat
      BY InputFacts
    <3> QED BY <2>3, <3>1 DEF Valid
  <2>6. PICK x : x = PacketOf(i, m + 1)
    OBVIOUS
  <2>7. x.t \notin S /\ x \in PktType
    <3>1. x \in PktType
      BY <2>5, <2>6, PacketType DEF Valid
    <3> QED BY <2>3, <2>6, <3>1
  <2>8. PICK u : u = TimesOf(i, st, m)
    OBVIOUS
  <2>9. u \in Seq(Nat) /\ TimesOf(i, st, m + 1) = IF x.st = st THEN u \o <<x.t>> ELSE u
    BY <2>5, <2>6, <2>8, TimesOfNext
  <2>10. Only(u \o <<x.t>>, S) = Only(u, S)
    <3>1. x.t \in Nat
      BY <2>7 DEF PktType
    <3>2. PICK t : t = x.t
      OBVIOUS
    <3>3. t \in Nat /\ t \notin S /\ u \in Seq(Nat)
      BY <2>7, <2>9, <3>1, <3>2
    <3>4. u \o <<t>> = Append(u, t)
      BY <3>3
    <3>5. Only(Append(u, t), S) = Only(u, S)
      BY <3>3, OnlyAppend
    <3> QED BY <3>2, <3>4, <3>5
  <2>11. Only(TimesOf(i, st, m + 1), S) = Only(u, S)
    BY <2>9, <2>10
  <2> QED BY <2>3, <2>4, <2>8, <2>11
<1>3. b - a \in Nat /\ a + (b - a) = b
  OBVIOUS
<1> HIDE DEF Q
<1>4. b - a \in Q
  BY <1>1, <1>2, <1>3, SetInduction
<1>5. b <= b
  OBVIOUS
<1>6. PICK d : d = b - a
  OBVIOUS
<1>7. a + d = b /\ d \in Q
  BY <1>3, <1>4, <1>6
<1> QED BY <1>5, <1>7 DEF Q

\* What is left of an input that is stopped for its windows is past all of them.
LEMMA PacketsPast ==
  ASSUME TypeInv, HandInv, NearOrder, NEW i \in DOMAIN job.inputs, next[i] < Final(i), PastWindows(i)
  PROVE  /\ Valid(i, Final(i)) /\ Final(i) \in Nat /\ next[i] \in Nat
         /\ \A m \in (next[i] + 1)..Final(i) : \A o \in DOMAIN job.outs :
              /\ PacketOf(i, m).t \in Nat
              /\ SourceCutoff(job.outs[o], SeekBase(i)) # Forever
              /\ SourceCutoff(job.outs[o], SeekBase(i)) < PacketOf(i, m).t
              /\ SourceCutoff(job.outs[o], SeekBase(i)) + Margin < PacketOf(i, next[i] + 1).t
<1>1. JobOK /\ Len(Input(i).pkts) \in Nat /\ Margin \in Nat /\ MaxReads \in Nat
  BY TypeFacts, InputFacts, ProcessAssumption DEF ProcessAssumption
<1>2. next[i] \in Nat /\ Final(i) \in Nat /\ Valid(i, Final(i))
  BY <1>1 DEF TypeInv, TypeOK, Final, Valid
<1>3. SUFFICES ASSUME NEW m \in (next[i] + 1)..Final(i), NEW o \in DOMAIN job.outs
               PROVE  /\ PacketOf(i, m).t \in Nat
                      /\ SourceCutoff(job.outs[o], SeekBase(i)) # Forever
                      /\ SourceCutoff(job.outs[o], SeekBase(i)) < PacketOf(i, m).t
                      /\ SourceCutoff(job.outs[o], SeekBase(i)) + Margin < PacketOf(i, next[i] + 1).t
  BY <1>2
<1>4. m \in Nat \ {0} /\ next[i] + 1 <= m /\ next[i] + 1 \in Nat \ {0} /\ m <= Final(i)
  BY <1>2
<1>5. Valid(i, m) /\ Valid(i, next[i] + 1)
  BY <1>1, <1>2, <1>4 DEF Valid, Final
<1>6. PacketOf(i, m) \in PktType /\ PacketOf(i, next[i] + 1) \in PktType
  BY <1>1, <1>4, <1>5, PacketType DEF Valid
<1>7. PacketOf(i, m).t \in Nat /\ PacketOf(i, next[i] + 1).t \in Nat
  BY <1>6 DEF PktType
<1>8. PacketOf(i, next[i] + 1).t <= PacketOf(i, m).t + Margin
  <2>1. \A a, b \in DOMAIN Input(i).pkts : a <= b => Input(i).pkts[a].t <= Input(i).pkts[b].t + Margin
    BY DEF NearOrder
  <2> QED BY <1>1, <1>4, <1>5, <2>1, PacketsNearOrder
<1>9. /\ SourceCutoff(job.outs[o], SeekBase(i)) # Forever
      /\ SourceCutoff(job.outs[o], SeekBase(i)) + Margin < PacketOf(i, next[i] + 1).t
  BY <1>1, <1>7, PastEveryCut, ProcessAssumption DEF Coming
<1>10. SourceCutoff(job.outs[o], SeekBase(i)) \in Int
  <2>1. SeekBase(i) \in Int
    BY <1>1, InputFacts
  <2> QED BY <1>1, <2>1, CutoffTypes
<1> QED BY <1>1, <1>7, <1>8, <1>9, <1>10

\* An input that was stopped has no packet left that an output wants, as far as
\* windows counted from the seek go.
LEMMA RestPast ==
  ASSUME TypeInv, HandInv, StopInv, NearOrder, NEW i \in DOMAIN job.inputs, eof[i], Listened(i)
  PROVE  /\ Valid(i, Final(i)) /\ Final(i) \in Nat /\ next[i] \in Nat /\ next[i] <= Final(i)
         /\ \A m \in (next[i] + 1)..Final(i) : \A o \in DOMAIN job.outs :
              /\ PacketOf(i, m).t \in Nat
              /\ SourceCutoff(job.outs[o], SeekBase(i)) # Forever
              /\ SourceCutoff(job.outs[o], SeekBase(i)) < PacketOf(i, m).t
              /\ SourceCutoff(job.outs[o], SeekBase(i)) + Margin < PacketOf(i, next[i] + 1).t
<1>1. Len(Input(i).pkts) \in Nat /\ MaxReads \in Nat
  BY TypeFacts, InputFacts, ProcessAssumption DEF ProcessAssumption
<1>2. next[i] \in Nat /\ next[i] <= Final(i) /\ Final(i) \in Nat /\ Valid(i, Final(i))
  BY <1>1 DEF HandInv, TypeInv, TypeOK, Final, Valid
<1>3. CASE next[i] < Final(i)
  <2>1. ~(~More(i) /\ Input(i).end = "eof")
    BY <1>1, <1>2, <1>3 DEF More, Final
  <2>2. PastWindows(i)
    BY <2>1 DEF StopInv
  <2> QED BY <1>2, <1>3, <2>2, PacketsPast
<1>4. CASE next[i] = Final(i)
  BY <1>2, <1>4
<1> QED BY <1>2, <1>3, <1>4

LEMMA CuesAll ==
  ASSUME TypeInv, HandInv, StopInv, NearOrder, NEW s \in DOMAIN job.subs, eof[job.subs[s].in]
  PROVE  SubOut(s, TimesOf(job.subs[s].in, job.subs[s].st, next[job.subs[s].in])) = WholeSub(s)
<1> DEFINE o == job.outs[job.subs[s].out]
           i == job.subs[s].in
           st == job.subs[s].st
           base == SeekBase(i)
           S == {t \in Int : base <= t /\ Within(t, SourceCutoff(o, base))}
           d == IF o.copyTs THEN 0 ELSE -base
<1>1. \A ts : SubOut(s, ts) = Shifted(Only(ts, S), d)
  BY DEF SubOut
<1>2. i \in DOMAIN job.inputs /\ job.subs[s].out \in DOMAIN job.outs /\ JobOK /\ Listened(i)
  BY TypeFacts, SubFacts DEF Listened
<1>3. SourceCutoff(o, base) \in Int
  <2>1. base \in Int
    BY <1>2, InputFacts
  <2> QED BY <1>2, <2>1, CutoffTypes
<1>4. /\ Valid(i, Final(i)) /\ Final(i) \in Nat /\ next[i] \in Nat /\ next[i] <= Final(i)
      /\ \A m \in (next[i] + 1)..Final(i) : PacketOf(i, m).t \notin S
  <2>1. /\ Valid(i, Final(i)) /\ Final(i) \in Nat /\ next[i] \in Nat /\ next[i] <= Final(i)
        /\ \A m \in (next[i] + 1)..Final(i) : /\ SourceCutoff(o, base) # Forever
                                              /\ PacketOf(i, m).t \in Nat
                                              /\ SourceCutoff(o, base) < PacketOf(i, m).t
    BY <1>2, RestPast
  <2>2. \A t \in Nat : SourceCutoff(o, base) # Forever /\ SourceCutoff(o, base) < t => t \notin S
    BY <1>3 DEF Within
  <2> HIDE DEF S
  <2> QED BY <2>1, <2>2
<1> HIDE DEF S, d
<1>5. Only(TimesOf(i, st, Final(i)), S) = Only(TimesOf(i, st, next[i]), S)
  BY <1>2, <1>4, RestUnwanted
<1> QED BY <1>1, <1>5 DEF WholeSub, Times

\* A job that succeeds has written every cue its windows have room for: none stays in
\* a decoder when its input ends (ffmpeg-wasi#39), and an input that is stopped early
\* has none left that a window wants, as long as its packets are in the order of their
\* times but for the second the cutoff is widened by.
THEOREM CuesKept == Spec => [](NearOrder => CuesWhole)
<1> DEFINE Inv == TypeInv /\ LoopInv /\ EndInv /\ HandInv /\ CueInv /\ FlushInv /\ StopInv
<1>1. Init => Inv
  BY TypeInvInit, LoopInvInit, EndInvInit, HandInvInit, CueInvInit, FlushInvInit, StopInvInit
<1>2. Inv /\ [Next]_vars => Inv'
  BY TypeInvNext, LoopInvNext, EndInvNext, HandInvNext, CueInvNext, FlushInvNext, StopInvNext
<1>3. Inv => (NearOrder => CuesWhole)
  <2> SUFFICES ASSUME TypeInv, EndInv, HandInv, CueInv, FlushInv, StopInv, NearOrder, Succeeded,
                      NEW s \in DOMAIN job.subs
               PROVE  Got(job.subs[s].out, "sub", s) = WholeSub(s)
    BY DEF CuesWhole
  <2>1. pc = "end" /\ rc = "ok" /\ job.subs[s].in \in DOMAIN job.inputs /\ job.subs[s].out \in DOMAIN job.outs
    BY TypeFacts, SubFacts DEF Succeeded
  <2>2. eof[job.subs[s].in]
    BY <2>1 DEF EndInv, Succeeded
  <2>3. cue[s] = <<>>
    BY <2>1, <2>2 DEF FlushInv
  <2>4. Offered(s) = next[job.subs[s].in]
    BY <2>1 DEF Offered
  <2>5. CueKept(s)
    BY <2>1 DEF CueInv
  <2>6. Got(job.subs[s].out, "sub", s) \o <<>> = Got(job.subs[s].out, "sub", s)
    <3>1. PICK a : a = Got(job.subs[s].out, "sub", s)
      OBVIOUS
    <3>2. a \in Seq(Int)
      BY <2>1, <3>1, GotType DEF TypeInv, TypeOK
    <3>3. a \o <<>> = a
      BY <3>2
    <3> QED BY <3>1, <3>3
  <2>7. SubOut(s, TimesOf(job.subs[s].in, job.subs[s].st, next[job.subs[s].in])) = WholeSub(s)
    BY <2>2, CuesAll
  <2> QED BY <2>3, <2>4, <2>5, <2>6, <2>7, OutEmpty DEF CueKept
<1> QED BY <1>1, <1>2, <1>3, PTL DEF Spec
-----------------------------------------------------------------------------
(* The copies *)

\* How many packets of its input a copied stream has been offered.
OfferedCopy(c) ==
  LET i == job.cpys[c].in IN
  IF i = in /\ ((pc = "pull" /\ then = "copy") \/ (pc = "copy" /\ k <= c)) THEN next[i] - 1 ELSE next[i]

Anchor(c) == cpyRebase[job.cpys[c].in][job.cpys[c].out]

\* What is written and what the filter still holds make what was offered, counted from
\* the anchor once there is one; until then nothing is written.
KeptAs(c, anchor, got, hd, all) ==
  IF anchor = None THEN got = <<>> /\ hd = all
  ELSE got \o CopyOut(c, anchor, hd) = CopyOut(c, anchor, all)
CopyKept(c) ==
  KeptAs(c, Anchor(c), Got(job.cpys[c].out, "cpy", c), held[c],
         TimesOf(job.cpys[c].in, job.cpys[c].st, OfferedCopy(c)))
CopyInv == rc = "ok" => \A c \in DOMAIN job.cpys : CopyKept(c)

\* An anchor is where one of the streams that share it starts.
AnchorInv ==
  rc = "ok" => \A i \in DOMAIN job.inputs, o \in DOMAIN job.outs :
    cpyRebase[i][o] # None => cpyRebase[i][o] \in Starts(i, o)

\* Only a filter holds anything back, and no longer than to its flush.
HeldInv ==
  /\ \A c \in DOMAIN job.cpys : ~job.cpys[c].bsf => held[c] = <<>>
  /\ rc = "ok" => \A c \in DOMAIN job.cpys :
       pc = "trailer" \/ pc = "end" \/ (pc = "bsf" /\ c < k) => held[c] = <<>>

LEMMA SameStarts == ASSUME UNCHANGED job PROVE \A i, o : Starts(i, o)' = Starts(i, o)
BY SameLanes DEF Starts, Times

\* The packets read so far are the first ones of all there are.
LEMMA TimesPrefix ==
  ASSUME JobOK, NEW i \in DOMAIN job.inputs, NEW a \in Nat, NEW b \in Nat, a <= b, Valid(i, b), NEW st,
         TimesOf(i, st, a) # <<>>
  PROVE  TimesOf(i, st, b) # <<>> /\ TimesOf(i, st, b)[1] = TimesOf(i, st, a)[1]
<1> DEFINE Q == {n \in Nat : a + n <= b => /\ TimesOf(i, st, a + n) # <<>>
                                           /\ TimesOf(i, st, a + n)[1] = TimesOf(i, st, a)[1]}
<1>1. 0 \in Q
  <2>1. a + 0 = a
    OBVIOUS
  <2> QED BY <2>1
<1>2. ASSUME NEW n \in Nat, n \in Q PROVE n + 1 \in Q
  <2>1. SUFFICES ASSUME a + (n + 1) <= b
                 PROVE  /\ TimesOf(i, st, a + (n + 1)) # <<>>
                        /\ TimesOf(i, st, a + (n + 1))[1] = TimesOf(i, st, a)[1]
    OBVIOUS
  <2>2. PICK m \in Nat : m = a + n
    OBVIOUS
  <2>3. m + 1 = a + (n + 1) /\ m + 1 <= b /\ a + n <= b
    BY <2>1, <2>2
  <2>4. TimesOf(i, st, m) # <<>> /\ TimesOf(i, st, m)[1] = TimesOf(i, st, a)[1]
    BY <1>2, <2>2, <2>3
  <2>5. Valid(i, m + 1)
    <3>1. Len(Input(i).pkts) \in Nat
      BY InputFacts
    <3> QED BY <2>3, <3>1 DEF Valid
  <2>6. PICK t : t = PacketOf(i, m + 1).t
    OBVIOUS
  <2>7. PICK u : u = TimesOf(i, st, m)
    OBVIOUS
  <2>8. t \in Nat
    <3>1. PacketOf(i, m + 1) \in PktType
      BY <2>5, PacketType DEF Valid
    <3> QED BY <2>6, <3>1 DEF PktType
  <2>9. u \in Seq(Nat) /\ TimesOf(i, st, m + 1) \in {u, u \o <<t>>}
    BY <2>5, <2>6, <2>7, TimesOfNext
  <2>10. u \o <<t>> # <<>> /\ (u # <<>> => (u \o <<t>>)[1] = u[1])
    BY <2>8, <2>9
  <2>11. TimesOf(i, st, m + 1) # <<>> /\ TimesOf(i, st, m + 1)[1] = u[1]
    <3>1. CASE TimesOf(i, st, m + 1) = u
      BY <2>4, <2>7, <3>1
    <3>2. CASE TimesOf(i, st, m + 1) = u \o <<t>>
      BY <2>4, <2>7, <2>10, <3>2
    <3> QED BY <2>9, <3>1, <3>2
  <2> QED BY <2>3, <2>4, <2>7, <2>11
<1>3. b - a \in Nat /\ a + (b - a) = b
  OBVIOUS
<1> HIDE DEF Q
<1>4. b - a \in Q
  BY <1>1, <1>2, <1>3, SetInduction
<1>5. b <= b
  OBVIOUS
<1>6. PICK d : d = b - a
  OBVIOUS
<1>7. a + d = b /\ d \in Q
  BY <1>3, <1>4, <1>6
<1> QED BY <1>5, <1>7 DEF Q

\* The first packet of a stream that is written is the stream's first.
LEMMA StartIs ==
  ASSUME TypeInv, HandInv, NEW c \in DOMAIN job.cpys, NEW n \in Nat, n <= Final(job.cpys[c].in),
         NEW ts \in Seq(Nat), NEW h \in Seq(Nat), ts # <<>>,
         TimesOf(job.cpys[c].in, job.cpys[c].st, n) = ts \o h
  PROVE  ts[1] \in Starts(job.cpys[c].in, job.cpys[c].out)
<1>1. PICK i, st : i = job.cpys[c].in /\ st = job.cpys[c].st
  OBVIOUS
<1>2. /\ i \in DOMAIN job.inputs /\ JobOK /\ Final(i) \in Nat /\ Valid(i, Final(i)) /\ n <= Final(i)
  <2>1. i \in DOMAIN job.inputs /\ JobOK
    BY <1>1, TypeFacts, CopyFacts
  <2>2. Len(Input(i).pkts) \in Nat /\ MaxReads \in Nat
    BY <2>1, InputFacts, ProcessAssumption DEF ProcessAssumption
  <2> QED BY <1>1, <2>1, <2>2 DEF Final, Valid
<1>3. PICK u : u = TimesOf(i, st, n)
  OBVIOUS
<1>4. u = ts \o h
  BY <1>1, <1>3
<1>5. u # <<>> /\ u[1] = ts[1]
  BY <1>4
<1>6. Times(i, st) # <<>> /\ Times(i, st)[1] = ts[1]
  <2>1. TimesOf(i, st, Final(i)) # <<>> /\ TimesOf(i, st, Final(i))[1] = TimesOf(i, st, n)[1]
    BY <1>2, <1>3, <1>5, TimesPrefix
  <2> QED BY <1>3, <1>5, <2>1 DEF Times
<1> QED BY <1>1, <1>6 DEF Starts

LEMMA JoinAssoc ==
  ASSUME NEW a \in Seq(Int), NEW b \in Seq(Int), NEW c \in Seq(Int)
  PROVE  (a \o b) \o c = a \o (b \o c)
OBVIOUS

\* What is held goes out with what is offered next, in order; the first of it anchors.
LEMMA KeptOn ==
  ASSUME JobOK, NEW c \in DOMAIN job.cpys, NEW a \in Seq(Int), NEW hd \in Seq(Nat), NEW g \in Seq(Nat),
         NEW ts \in Seq(Nat), NEW h \in Seq(Nat), NEW y \in Seq(Nat), NEW was \in Nat \cup {None},
         KeptAs(c, was, a, hd, g), ts \o h = hd \o y,
         NEW base, base = IF was # None \/ ts = <<>> THEN was ELSE ts[1]
  PROVE  KeptAs(c, base, a \o CopyOut(c, base, ts), h, g \o y)
<1>1. /\ hd \in Seq(Int) /\ g \in Seq(Int) /\ ts \in Seq(Int) /\ h \in Seq(Int) /\ y \in Seq(Int)
      /\ hd \o y \in Seq(Int) /\ g \o y \in Seq(Int)
  OBVIOUS
<1>2. base \in Nat \cup {None}
  <2>1. ts # <<>> => ts[1] \in Nat
    OBVIOUS
  <2> QED BY <2>1
<1>3. CASE base = None
  <2>1. was = None /\ ts = <<>>
    <3>1. ts # <<>> => ts[1] \in Nat
      OBVIOUS
    <3> QED BY <1>3, <3>1 DEF None
  <2>2. a = <<>> /\ hd = g
    BY <2>1 DEF KeptAs
  <2>3. h = g \o y
    <3>1. ts \o h = h
      BY <2>1
    <3> QED BY <2>2, <3>1
  <2>4. <<>> \o <<>> = <<>>
    OBVIOUS
  <2> QED BY <1>3, <2>1, <2>2, <2>3, <2>4, OutEmpty DEF KeptAs
<1>4. CASE base # None
  <2>1. base \in Int
    BY <1>2, <1>4
  <2>2. a \o CopyOut(c, base, hd) = CopyOut(c, base, g)
    <3>1. CASE was # None
      BY <3>1 DEF KeptAs
    <3>2. CASE was = None
      <4>1. a = <<>> /\ hd = g
        BY <3>2 DEF KeptAs
      <4>2. PICK q : q = CopyOut(c, base, g)
        OBVIOUS
      <4>3. q \in Seq(Int)
        BY <1>1, <2>1, <4>2, CopyOutType
      <4>4. <<>> \o q = q
        BY <4>3
      <4> QED BY <4>1, <4>2, <4>4
    <3> QED BY <3>1, <3>2
  <2>3. PICK q1, q2, q3, q4, q5 : /\ q1 = CopyOut(c, base, ts) /\ q2 = CopyOut(c, base, h)
                                  /\ q3 = CopyOut(c, base, hd) /\ q4 = CopyOut(c, base, y)
                                  /\ q5 = CopyOut(c, base, g)
    OBVIOUS
  <2>4. q1 \in Seq(Int) /\ q2 \in Seq(Int) /\ q3 \in Seq(Int) /\ q4 \in Seq(Int) /\ q5 \in Seq(Int)
    BY <1>1, <2>1, <2>3, CopyOutType
  <2>5. /\ CopyOut(c, base, ts \o h) = CopyOut(c, base, ts) \o CopyOut(c, base, h)
        /\ CopyOut(c, base, hd \o y) = CopyOut(c, base, hd) \o CopyOut(c, base, y)
        /\ CopyOut(c, base, g \o y) = CopyOut(c, base, g) \o CopyOut(c, base, y)
    <3>1. \A r, u \in Seq(Int) : CopyOut(c, base, r \o u) = CopyOut(c, base, r) \o CopyOut(c, base, u)
      BY <2>1, CopyOutConcat
    <3> QED BY <1>1, <3>1
  <2>6. CopyOut(c, base, ts \o h) = q1 \o q2 /\ CopyOut(c, base, hd \o y) = q3 \o q4
    BY <2>3, <2>5
  <2>7. CopyOut(c, base, g \o y) = q5 \o q4
    BY <2>3, <2>5
  <2>8. q1 \o q2 = q3 \o q4
    BY <2>6
  <2>9. (a \o q1) \o q2 = a \o (q1 \o q2)
    BY <2>4, JoinAssoc
  <2>10. (a \o q3) \o q4 = a \o (q3 \o q4)
    BY <2>4, JoinAssoc
  <2>11. (a \o q1) \o q2 = q5 \o q4
    BY <2>2, <2>3, <2>8, <2>9, <2>10
  <2> QED BY <1>4, <2>3, <2>7, <2>11 DEF KeptAs
<1> QED BY <1>3, <1>4

\* A stream that shares the anchor and has written nothing takes it as its own.
LEMMA KeptAnchored ==
  ASSUME JobOK, NEW c \in DOMAIN job.cpys, NEW a, NEW hd \in Seq(Nat), NEW g,
         KeptAs(c, None, a, hd, g), NEW b \in Nat
  PROVE  KeptAs(c, b, a, hd, g)
<1>1. a = <<>> /\ hd = g
  BY DEF KeptAs
<1>2. hd \in Seq(Int) /\ b \in Int
  OBVIOUS
<1>3. PICK q : q = CopyOut(c, b, hd)
  OBVIOUS
<1>4. q \in Seq(Int)
  BY <1>2, <1>3, CopyOutType
<1>5. <<>> \o q = q
  BY <1>4
<1> QED BY <1>1, <1>3, <1>5 DEF KeptAs, None

\* A step that hands packets of one stream on.
LEMMA CopyAt ==
  ASSUME TypeInv, CopyInv, rc = "ok", UNCHANGED job, NEW p \in DOMAIN job.cpys, NEW ts \in Seq(Nat),
         NEW h \in Seq(Nat), NEW y \in Seq(Nat), write_copy_pkt(p, ts), held' = [held EXCEPT ![p] = h],
         \A c \in DOMAIN job.cpys : c # p => OfferedCopy(c)' = OfferedCopy(c),
         ts \o h = held[p] \o y, NEW n, n = OfferedCopy(p)', NEW g \in Seq(Nat),
         g = TimesOf(job.cpys[p].in, job.cpys[p].st, OfferedCopy(p)),
         TimesOf(job.cpys[p].in, job.cpys[p].st, n) = g \o y
  PROVE  CopyInv'
<1> DEFINE cp   == job.cpys[p]
           was  == cpyRebase[cp.in][cp.out]
           base == IF was # None \/ ts = <<>> THEN was ELSE ts[1]
<1>1. cp.in \in DOMAIN job.inputs /\ cp.out \in DOMAIN job.outs /\ p \in Nat /\ JobOK
  BY TypeFacts, CopyFacts
<1>2. PICK w, b : w = was /\ b = base
  OBVIOUS
<1>3. w \in Nat \cup {None} /\ b = (IF w # None \/ ts = <<>> THEN w ELSE ts[1]) /\ w = Anchor(p)
  <2>1. was \in Nat \cup {None}
    BY <1>1 DEF TypeInv, TypeOK
  <2> QED BY <1>2, <2>1 DEF Anchor
<1>4. b \in Nat \cup {None} /\ b \in Int
  <2>1. ts # <<>> => ts[1] \in Nat
    OBVIOUS
  <2> QED BY <1>3, <2>1 DEF None
<1>5. PICK q : q = CopyOut(p, b, ts)
  OBVIOUS
<1>6. /\ cpyRebase' = [cpyRebase EXCEPT ![cp.in][cp.out] = b]
      /\ muxed' = Muxed(cp.out, "cpy", p, q) /\ q \in Seq(Int)
  <2>1. ts \in Seq(Int)
    OBVIOUS
  <2>2. q \in Seq(Int)
    BY <1>1, <1>4, <1>5, <2>1, CopyOutType
  <2> QED BY <1>2, <1>5, <2>2 DEF write_copy_pkt
<1>7. SUFFICES ASSUME NEW c \in DOMAIN job.cpys PROVE CopyKept(c)'
  BY DEF CopyInv
<1>8. job.cpys[c].in \in DOMAIN job.inputs /\ job.cpys[c].out \in DOMAIN job.outs
  BY TypeFacts, CopyFacts
<1>9. Anchor(c)' = IF job.cpys[c].in = cp.in /\ job.cpys[c].out = cp.out THEN b ELSE Anchor(c)
  BY <1>1, <1>6, <1>8 DEF Anchor, TypeInv, TypeOK
<1>10. PICK o, a : o = job.cpys[c].out /\ a = Got(o, "cpy", c)
  OBVIOUS
<1>11. a \in Seq(Int) /\ Got(o, "cpy", c)' = IF c = p THEN a \o q ELSE a
  <2>1. muxed \in [DOMAIN job.outs -> Seq(UnitType)] /\ o \in DOMAIN job.outs
    BY <1>8, <1>10 DEF TypeInv, TypeOK
  <2>2. PICK po : po = cp.out
    OBVIOUS
  <2>2a. po \in DOMAIN job.outs /\ q \in Seq(Int) /\ muxed' = Muxed(po, "cpy", p, q) /\ p \in Nat
    BY <1>1, <1>6, <2>2
  <2>3. Got(o, "cpy", c)' = IF o = po /\ "cpy" = "cpy" /\ c = p THEN Got(o, "cpy", c) \o q ELSE Got(o, "cpy", c)
    BY <2>1, <2>2a, TypeFacts, GotAdds
  <2>4. Got(o, "cpy", c) \in Seq(Int)
    BY <2>1, GotType
  <2> QED BY <1>10, <2>2, <2>3, <2>4
<1>12. held \in [DOMAIN job.cpys -> Seq(Nat)]
  BY DEF TypeInv, TypeOK
<1>13. CopyKept(c)
  BY DEF CopyInv
<1>14. CASE c = p
  <2>1. KeptAs(p, w, a, held[p], g)
    BY <1>3, <1>10, <1>13, <1>14 DEF CopyKept
  <2>2. held[p] \in Seq(Nat)
    BY <1>12
  <2>3. KeptAs(p, b, a \o q, h, g \o y)
    BY <1>1, <1>3, <1>5, <1>11, <2>1, <2>2, KeptOn
  <2>4. held'[p] = h /\ Anchor(p)' = b
    BY <1>9, <1>12, <1>14
  <2>5. CopyKept(p)' <=> KeptAs(p, Anchor(p)', Got(o, "cpy", p)', held'[p], TimesOf(job.cpys[p].in, job.cpys[p].st, n))
    BY <1>10, <1>14, SameLanes DEF CopyKept, KeptAs
  <2> QED BY <1>11, <1>14, <2>3, <2>4, <2>5
<1>15. CASE c # p
  <2>1. held'[c] = held[c] /\ held[c] \in Seq(Nat) /\ Got(o, "cpy", c)' = a
    BY <1>11, <1>12, <1>15
  <2>2. PICK m : m = OfferedCopy(c)
    OBVIOUS
  <2>3. PICK r : r = TimesOf(job.cpys[c].in, job.cpys[c].st, m)
    OBVIOUS
  <2>4. m = OfferedCopy(c)'
    BY <1>15, <2>2
  <2>5. KeptAs(c, Anchor(c), a, held[c], r)
    BY <1>10, <1>13, <2>2, <2>3 DEF CopyKept
  <2>6. KeptAs(c, Anchor(c)', a, held[c], r)
    <3>1. CASE Anchor(c)' = Anchor(c)
      BY <2>5, <3>1
    <3>2. CASE Anchor(c)' # Anchor(c)
      <4>1. Anchor(c)' = b /\ Anchor(c) = w /\ w = None /\ b # None
        BY <1>1, <1>2, <1>3, <1>9, <3>2 DEF Anchor
      <4> QED BY <1>1, <1>4, <2>1, <2>5, <4>1, KeptAnchored
    <3> QED BY <3>1, <3>2
  <2>7. CopyKept(c)' <=> KeptAs(c, Anchor(c)', Got(o, "cpy", c)', held'[c], r)
    BY <1>10, <2>3, <2>4, SameLanes DEF CopyKept, KeptAs
  <2> QED BY <2>1, <2>6, <2>7
<1> QED BY <1>14, <1>15

\* A step that hands packets ts of stream p on: those that were held come first, those in
\* y are new, h stays behind.
Handed(p, ts, h, y, g, n) ==
  /\ write_copy_pkt(p, ts) /\ held' = [held EXCEPT ![p] = h] /\ ts \o h = held[p] \o y
  /\ \A c \in DOMAIN job.cpys : c # p => OfferedCopy(c)' = OfferedCopy(c)
  /\ n = OfferedCopy(p)' /\ n <= Final(job.cpys[p].in)
  /\ g = TimesOf(job.cpys[p].in, job.cpys[p].st, OfferedCopy(p))
  /\ TimesOf(job.cpys[p].in, job.cpys[p].st, n) = g \o y

LEMMA HandedCopies ==
  ASSUME TypeInv, CopyInv, rc = "ok", UNCHANGED job, NEW p \in DOMAIN job.cpys, NEW ts \in Seq(Nat),
         NEW h \in Seq(Nat), NEW y \in Seq(Nat), NEW g \in Seq(Nat), NEW n \in Nat, Handed(p, ts, h, y, g, n)
  PROVE  CopyInv'
BY CopyAt DEF Handed

LEMMA HandedAnchors ==
  ASSUME TypeInv, HandInv, CopyInv, AnchorInv, rc = "ok", UNCHANGED job, NEW p \in DOMAIN job.cpys,
         NEW ts \in Seq(Nat), NEW h \in Seq(Nat), NEW y \in Seq(Nat), NEW g \in Seq(Nat), NEW n \in Nat,
         Handed(p, ts, h, y, g, n)
  PROVE  AnchorInv'
<1> DEFINE cp   == job.cpys[p]
           was  == cpyRebase[cp.in][cp.out]
           base == IF was # None \/ ts = <<>> THEN was ELSE ts[1]
<1>1. cp.in \in DOMAIN job.inputs /\ cp.out \in DOMAIN job.outs
  BY TypeFacts, CopyFacts
<1>2. cpyRebase' = [cpyRebase EXCEPT ![cp.in][cp.out] = base]
  BY DEF Handed, write_copy_pkt
<1>3. base = was \/ base \in Starts(cp.in, cp.out)
  <2>1. SUFFICES ASSUME was = None, ts # <<>> PROVE ts[1] \in Starts(cp.in, cp.out)
    OBVIOUS
  <2>2. held[p] = g
    <3>1. CopyKept(p)
      BY DEF CopyInv
    <3> QED BY <2>1, <3>1 DEF CopyKept, KeptAs, Anchor, Handed
  <2>3. TimesOf(cp.in, cp.st, n) = ts \o h /\ n <= Final(cp.in)
    BY <2>2 DEF Handed
  <2> QED BY <2>1, <2>3, StartIs
<1>4. SUFFICES ASSUME NEW i \in DOMAIN job.inputs, NEW o \in DOMAIN job.outs, cpyRebase'[i][o] # None
               PROVE  cpyRebase'[i][o] \in Starts(i, o)
  BY SameStarts DEF AnchorInv
<1>5. cpyRebase'[i][o] = IF i = cp.in /\ o = cp.out THEN base ELSE cpyRebase[i][o]
  <2> HIDE DEF base
  <2> QED BY <1>1, <1>2 DEF TypeInv, TypeOK
<1> HIDE DEF base
<1> QED BY <1>3, <1>4, <1>5 DEF AnchorInv

\* Steps that hand nothing on.
LEMMA CopyInvFrame ==
  ASSUME TypeInv, CopyInv, UNCHANGED <<job, held, cpyRebase>>, rc' = "ok" => rc = "ok",
         rc' = "ok" => /\ \A p \in DOMAIN job.outs, c \in DOMAIN job.cpys : Got(p, "cpy", c)' = Got(p, "cpy", c)
                       /\ \A c \in DOMAIN job.cpys :
                            \E m : /\ m = OfferedCopy(c)'
                                   /\ TimesOf(job.cpys[c].in, job.cpys[c].st, m) =
                                        TimesOf(job.cpys[c].in, job.cpys[c].st, OfferedCopy(c))
  PROVE  CopyInv'
<1>1. SUFFICES ASSUME rc' = "ok", NEW c \in DOMAIN job.cpys PROVE CopyKept(c)'
  BY DEF CopyInv
<1>2. CopyKept(c)
  BY <1>1 DEF CopyInv
<1>3. PICK p \in DOMAIN job.outs : p = job.cpys[c].out
  BY TypeFacts, CopyFacts
<1>4. Got(p, "cpy", c)' = Got(p, "cpy", c) /\ Anchor(c)' = Anchor(c) /\ held'[c] = held[c]
  BY <1>1 DEF Anchor
<1>5. PICK m : /\ m = OfferedCopy(c)'
               /\ TimesOf(job.cpys[c].in, job.cpys[c].st, m) =
                    TimesOf(job.cpys[c].in, job.cpys[c].st, OfferedCopy(c))
  BY <1>1
<1>6. PICK r : r = TimesOf(job.cpys[c].in, job.cpys[c].st, m)
  OBVIOUS
<1>7. KeptAs(c, Anchor(c), Got(p, "cpy", c), held[c], r)
  BY <1>2, <1>3, <1>5, <1>6 DEF CopyKept
<1>8. CopyKept(c)' <=> KeptAs(c, Anchor(c)', Got(p, "cpy", c)', held'[c], r)
  BY <1>3, <1>5, <1>6, SameLanes DEF CopyKept, KeptAs
<1> QED BY <1>4, <1>7, <1>8

LEMMA CopyInvInit == ASSUME TypeInv, Init PROVE CopyInv
<1>1. SUFFICES ASSUME NEW c \in DOMAIN job.cpys PROVE CopyKept(c)
  BY DEF CopyInv
<1>2. /\ job.cpys[c].out \in DOMAIN job.outs /\ job.cpys[c].in \in DOMAIN job.inputs
  BY TypeFacts, CopyFacts
<1>3. held[c] = <<>> /\ OfferedCopy(c) = 0 /\ muxed[job.cpys[c].out] = <<>> /\ Anchor(c) = None
  BY <1>2 DEF Init, OfferedCopy, Anchor
<1>4. Got(job.cpys[c].out, "cpy", c) = <<>>
  BY <1>3, OnlyEmpty, TimesInEmpty DEF Got
<1>5. TimesOf(job.cpys[c].in, job.cpys[c].st, 0) = <<>>
  <2>1. [m \in 1..0 |-> PacketOf(job.cpys[c].in, m)] = <<>>
    OBVIOUS
  <2> QED BY <2>1, OnlyEmpty, TimesInEmpty DEF TimesOf
<1> QED BY <1>3, <1>4, <1>5 DEF CopyKept, KeptAs

LEMMA HeldInvInit == ASSUME Init PROVE HeldInv
BY DEF Init, HeldInv

LEMMA AnchorInvInit == ASSUME Init PROVE AnchorInv
BY DEF Init, AnchorInv

LEMMA TimesOfType ==
  ASSUME JobOK, NEW i \in DOMAIN job.inputs, NEW n \in Nat, Valid(i, n), NEW st
  PROVE  TimesOf(i, st, n) \in Seq(Nat)
<1>1. CASE n = 0
  <2>1. [m \in 1..0 |-> PacketOf(i, m)] = <<>>
    OBVIOUS
  <2>2. TimesOf(i, st, 0) = <<>>
    BY <2>1, OnlyEmpty, TimesInEmpty DEF TimesOf
  <2>3. <<>> \in Seq(Nat)
    OBVIOUS
  <2> QED BY <1>1, <2>2, <2>3
<1>2. CASE n # 0
  <2>1. PICK m \in Nat : n = m + 1
    <3>1. n - 1 \in Nat /\ n = (n - 1) + 1
      BY <1>2
    <3> QED BY <3>1
  <2>2. Valid(i, m + 1)
    BY <2>1
  <2>3. PacketOf(i, m + 1).t \in Nat
    <3>1. PacketOf(i, m + 1) \in PktType
      BY <2>2, PacketType DEF Valid
    <3> QED BY <3>1 DEF PktType
  <2>4. PICK u, t : u = TimesOf(i, st, m) /\ t = PacketOf(i, m + 1).t
    OBVIOUS
  <2>5. u \in Seq(Nat) /\ TimesOf(i, st, m + 1) \in {u, u \o <<t>>}
    BY <2>2, <2>4, TimesOfNext
  <2>6. PICK v, w : v = u \o <<t>> /\ w = TimesOf(i, st, m + 1)
    OBVIOUS
  <2>7. v \in Seq(Nat) /\ u \in Seq(Nat) /\ w \in {u, v}
    <3>1. t \in Nat /\ u \in Seq(Nat)
      BY <2>3, <2>4, <2>5
    <3>2. v \in Seq(Nat)
      BY <2>6, <3>1
    <3> QED BY <2>5, <2>6, <3>1, <3>2
  <2>8. w \in Seq(Nat)
    BY <2>7
  <2> QED BY <2>1, <2>6, <2>8
<1> QED BY <1>1, <1>2

\* A packet on its way to the copies is handed to those of its stream.
LEMMA CopyHands ==
  ASSUME TypeInv, HandInv, HeldInv, rc = "ok", Copy, NEW p \in DOMAIN job.cpys, p = k,
         job.cpys[p].in = in, job.cpys[p].st = pkt.st
  PROVE  \E ts \in Seq(Nat), h \in Seq(Nat), y \in Seq(Nat), g \in Seq(Nat), n \in Nat : Handed(p, ts, h, y, g, n)
<1>1. UNCHANGED <<job, in, pkt, next, then, rc>> /\ pc = "copy" /\ \A c \in DOMAIN job.cpys : c \in Nat
  BY TypeFacts, CopyFacts DEF Copy, inVars
<1>2. ~(k > Len(job.cpys)) /\ p \in Nat
  BY <1>1, TypeFacts, JobFacts
<1>3. UNCHANGED pc /\ k' = p + 1
  BY <1>2 DEF Copy
<1> DEFINE io == IF job.cpys[p].bsf THEN Through(held[p], pkt.t) ELSE <<<<pkt.t>>, <<>>>>
<1>4. write_copy_pkt(p, io[1]) /\ held' = [held EXCEPT ![p] = io[2]]
  BY <1>2 DEF Copy
<1>5. /\ held[p] \in Seq(Nat) /\ Len(held[p]) <= Lag /\ pkt.t \in Nat /\ (~job.cpys[p].bsf => held[p] = <<>>)
  BY <1>1 DEF TypeInv, TypeOK, Handling, PktType, HeldInv
<1>6. PICK h0, t : h0 = held[p] /\ t = pkt.t
  OBVIOUS
<1>7. h0 \in Seq(Nat) /\ Len(h0) <= Lag /\ t \in Nat /\ <<t>> \in Seq(Nat) /\ (~job.cpys[p].bsf => h0 = <<>>)
  BY <1>5, <1>6
<1>8. PICK x, z : x = io[1] /\ z = io[2]
  OBVIOUS
<1>9. (x = h0 /\ z = <<t>>) \/ (h0 = <<>> /\ x = <<t>> /\ z = <<>>)
  <2>1. CASE job.cpys[p].bsf
    <3>1. x = Through(h0, t)[1] /\ z = Through(h0, t)[2]
      BY <1>6, <1>8, <2>1
    <3> QED BY <1>7, <3>1, ThroughJoins, ProcessAssumption
  <2>2. CASE ~job.cpys[p].bsf
    BY <1>6, <1>7, <1>8, <2>2
  <2> QED BY <2>1, <2>2
<1>10. x \in Seq(Nat) /\ z \in Seq(Nat) /\ x \o z = h0 \o <<t>>
  <2>1. CASE x = h0 /\ z = <<t>>
    BY <1>7, <2>1
  <2>2. CASE h0 = <<>> /\ x = <<t>> /\ z = <<>>
    <3>1. <<t>> \o <<>> = <<>> \o <<t>>
      BY <1>7
    <3> QED BY <1>7, <2>2, <3>1
  <2> QED BY <1>9, <2>1, <2>2
<1>11. ~eof[in] /\ next[in] > 0 /\ pkt = PacketOf(in, next[in]) /\ in \in DOMAIN job.inputs /\ next[in] <= Final(in)
  BY <1>1 DEF HandInv, Handling, TypeInv, TypeOK
<1>12. next[in] \in Nat /\ Valid(in, next[in])
  BY <1>11, ReadValid
<1>13. PICK n \in Nat : n = next[in]
  BY <1>12
<1>14. PICK j \in Nat : n = j + 1
  <2>1. n - 1 \in Nat /\ n = (n - 1) + 1
    BY <1>11, <1>13
  <2> QED BY <2>1
<1>15. n = OfferedCopy(p)' /\ j = OfferedCopy(p)
  <2>1. OfferedCopy(p)' = next'[job.cpys[p].in]
    BY <1>1, <1>2, <1>3 DEF OfferedCopy
  <2>2. OfferedCopy(p) = next[in] - 1
    BY <1>1, <1>2 DEF OfferedCopy
  <2>3. n - 1 = j
    BY <1>14
  <2> QED BY <1>1, <1>13, <2>1, <2>2, <2>3
<1>16. \A c \in DOMAIN job.cpys : c # p => OfferedCopy(c)' = OfferedCopy(c)
  BY <1>1, <1>2, <1>3 DEF OfferedCopy
<1>17. PICK g : g = TimesOf(in, pkt.st, j)
  OBVIOUS
<1>18. g \in Seq(Nat) /\ TimesOf(in, pkt.st, n) = g \o <<t>>
  <2>1. Valid(in, j + 1) /\ pkt = PacketOf(in, j + 1)
    BY <1>11, <1>12, <1>13, <1>14
  <2>2. /\ TimesOf(in, pkt.st, j) \in Seq(Nat)
        /\ TimesOf(in, pkt.st, j + 1) = TimesOf(in, pkt.st, j) \o <<PacketOf(in, j + 1).t>>
    <3>1. PICK i \in DOMAIN job.inputs : i = in
      BY <1>11
    <3>2. PICK st : st = pkt.st
      OBVIOUS
    <3>3. Valid(i, j + 1) /\ PacketOf(i, j + 1).st = st
      BY <2>1, <3>1, <3>2
    <3>4. /\ TimesOf(i, st, j) \in Seq(Nat)
          /\ TimesOf(i, st, j + 1) = TimesOf(i, st, j) \o <<PacketOf(i, j + 1).t>>
      BY <3>3, TypeFacts, TimesOfNext
    <3> QED BY <3>1, <3>2, <3>4
  <2> QED BY <1>6, <1>14, <1>17, <2>1, <2>2
<1> HIDE DEF io
<1>19. write_copy_pkt(p, x) /\ held' = [held EXCEPT ![p] = z] /\ x \o z = held[p] \o <<t>>
  BY <1>4, <1>6, <1>8, <1>10
<1>20. Handed(p, x, z, <<t>>, g, n)
  BY <1>11, <1>13, <1>15, <1>16, <1>17, <1>18, <1>19 DEF Handed
<1> QED BY <1>7, <1>10, <1>18, <1>20

\* What a filter holds is handed on when it is flushed.
LEMMA FlushHands ==
  ASSUME TypeInv, HandInv, rc = "ok", flush_copy_bsfs, NEW p \in DOMAIN job.cpys, p = k, job.cpys[p].bsf
  PROVE  \E ts \in Seq(Nat), h \in Seq(Nat), y \in Seq(Nat), g \in Seq(Nat), n \in Nat : Handed(p, ts, h, y, g, n)
<1>1. UNCHANGED <<job, in, pkt, next, then, rc>> /\ pc = "bsf" /\ p \in Nat /\ job.cpys[p].in \in DOMAIN job.inputs
  BY TypeFacts, CopyFacts DEF flush_copy_bsfs, inVars
<1>2. ~(k > Len(job.cpys))
  BY <1>1, TypeFacts, JobFacts
<1>3. UNCHANGED pc /\ k' = p + 1 /\ write_copy_pkt(p, held[p]) /\ held' = [held EXCEPT ![p] = <<>>]
  BY <1>2 DEF flush_copy_bsfs
<1>4. PICK n : n = next[job.cpys[p].in]
  OBVIOUS
<1>5. n \in Nat /\ n <= Final(job.cpys[p].in) /\ Valid(job.cpys[p].in, n)
  BY <1>1, <1>4, ReadValid DEF HandInv
<1>6. n = OfferedCopy(p)' /\ n = OfferedCopy(p) /\ \A c \in DOMAIN job.cpys : OfferedCopy(c)' = OfferedCopy(c)
  BY <1>1, <1>3, <1>4 DEF OfferedCopy
<1>7. PICK g : g = TimesOf(job.cpys[p].in, job.cpys[p].st, n)
  OBVIOUS
<1>8. g \in Seq(Nat)
  BY <1>1, <1>5, <1>7, TypeFacts, TimesOfType
<1>9. PICK x : x = held[p]
  OBVIOUS
<1>10. x \in Seq(Nat) /\ <<>> \in Seq(Nat)
  BY <1>9 DEF TypeInv, TypeOK
<1>11. x \o <<>> = held[p] \o <<>> /\ g \o <<>> = g
  BY <1>8, <1>9
<1>12. Handed(p, x, <<>>, <<>>, g, n)
  BY <1>3, <1>5, <1>6, <1>7, <1>9, <1>11 DEF Handed
<1> QED BY <1>5, <1>8, <1>10, <1>12

LEMMA HeldInvNext == ASSUME TypeInv, HeldInv, [Next]_vars PROVE HeldInv'
<1>1. \A c \in DOMAIN job.cpys : c >= 1 /\ c \in Nat
  BY TypeFacts, JobFacts, CopyFacts
<1>2. held \in [DOMAIN job.cpys -> Seq(Nat)]
  BY DEF TypeInv, TypeOK
<1>3. CASE Copy
  <2>1. UNCHANGED <<job, rc>> /\ pc' \in {"copy", "sub"}
    BY <1>3 DEF Copy, Goto
  <2>2. \A c \in DOMAIN job.cpys : ~job.cpys[c].bsf => held'[c] = <<>>
    <3>1. CASE UNCHANGED held
      BY <3>1 DEF HeldInv
    <3>2. CASE ~UNCHANGED held
      <4>1. PICK p, z : p = k /\ held' = [held EXCEPT ![p] = z] /\ (~job.cpys[p].bsf => z = <<>>)
        BY <1>3, <3>2 DEF Copy
      <4> QED BY <1>2, <4>1 DEF HeldInv
    <3> QED BY <3>1, <3>2
  <2> QED BY <2>1, <2>2 DEF HeldInv
<1>4. CASE flush_copy_bsfs
  <2>1. UNCHANGED <<job, rc>> /\ pc = "bsf"
    BY <1>4 DEF flush_copy_bsfs
  <2>2. CASE k > Len(job.cpys)
    <3>1. UNCHANGED held /\ pc' = "trailer" /\ \A c \in DOMAIN job.cpys : c < k
      BY <1>4, <2>2, TypeFacts, JobFacts DEF flush_copy_bsfs, Goto, TypeInv, TypeOK
    <3> QED BY <2>1, <3>1 DEF HeldInv
  <2>3. CASE ~(k > Len(job.cpys))
    <3>1. PICK p : p = k
      OBVIOUS
    <3>2. p \in DOMAIN job.cpys
      BY <2>1, <2>3, <3>1, TypeFacts, JobFacts, InDomain DEF TypeInv, TypeOK
    <3>3. /\ k' = p + 1 /\ pc' = "bsf" /\ (\A c \in DOMAIN job.cpys : c # p => held'[c] = held[c])
          /\ held'[p] = <<>>
      <4>1. job.cpys[p].bsf => held'[p] = <<>> /\ \A c \in DOMAIN job.cpys : c # p => held'[c] = held[c]
        BY <1>2, <1>4, <2>3, <3>1, <3>2 DEF flush_copy_bsfs
      <4>2. ~job.cpys[p].bsf => held' = held /\ held[p] = <<>>
        BY <1>4, <2>3, <3>1, <3>2 DEF flush_copy_bsfs, HeldInv
      <4> QED BY <1>4, <2>1, <2>3, <3>1, <4>1, <4>2 DEF flush_copy_bsfs
    <3>4. \A c \in DOMAIN job.cpys : c < p + 1 => c = p \/ c < p
      BY <1>1, <3>2
    <3> QED BY <2>1, <3>1, <3>3, <3>4 DEF HeldInv
  <2> QED BY <2>2, <2>3
<1>5. CASE Drain
  <2>1. UNCHANGED <<job, held, rc>> /\ (pc' = "drain" \/ (pc' = "bsf" /\ k' = 1))
    BY <1>5 DEF Drain, Goto, laneVars
  <2> QED BY <1>1, <2>1 DEF HeldInv
<1>6. CASE WriteTrailer
  <2>1. UNCHANGED <<job, held>> /\ (rc' = "ok" => rc = "ok") /\ pc = "trailer" /\ pc' \in {"trailer", "end"}
    BY <1>6 DEF WriteTrailer, laneVars
  <2> QED BY <2>1 DEF HeldInv
<1>7. CASE Pull
  <2>1. UNCHANGED <<job, held, rc>> /\ pc = "pull" /\ (pc' = "pull" \/ pc' = then)
    BY <1>7 DEF Pull, PullStarts, PullDone, PullFrame, PullNothing, PullEnds, PullReturns, laneVars
  <2>2. pc' \notin {"bsf", "trailer", "end"}
    BY <2>1 DEF TypeInv, TypeOK
  <2> QED BY <2>1, <2>2 DEF HeldInv
<1>8. CASE Skip \/ StopInput \/ Read \/ FlushSub \/ Sub
  <2>1. UNCHANGED <<job, held, rc>> /\ pc' \notin {"bsf", "trailer", "end"}
    BY <1>8 DEF Skip, StopInput, EndInput, Read, FlushSub, Sub, Goto, laneVars
  <2> QED BY <2>1 DEF HeldInv
<1>9. CASE ReadFails \/ CallFails
  BY <1>9 DEF ReadFails, CallFails, HeldInv, laneVars
<1>10. CASE UNCHANGED vars
  BY <1>10 DEF vars, ctl, laneVars, HeldInv
<1> QED BY <1>3, <1>4, <1>5, <1>6, <1>7, <1>8, <1>9, <1>10 DEF Next, Work

\* A step of another lane: no copy sees it.
LEMMA CopyInvOther ==
  ASSUME TypeInv, CopyInv, AnchorInv, UNCHANGED <<job, held, cpyRebase>>, rc' = "ok" => rc = "ok",
         \A p \in DOMAIN job.outs, c \in DOMAIN job.cpys : Got(p, "cpy", c)' = Got(p, "cpy", c),
         \A c \in DOMAIN job.cpys : OfferedCopy(c)' = OfferedCopy(c)
  PROVE  CopyInv' /\ AnchorInv'
<1>1. CopyInv'
  BY CopyInvFrame
<1>2. AnchorInv'
  BY SameStarts DEF AnchorInv
<1> QED BY <1>1, <1>2

LEMMA CopyInvCopy ==
  ASSUME TypeInv, HandInv, HeldInv, CopyInv, AnchorInv, Copy
  PROVE  CopyInv' /\ AnchorInv'
<1>1. UNCHANGED <<job, in, pkt, next, then, rc>> /\ pc = "copy" /\ \A c \in DOMAIN job.cpys : c \in Nat
  BY TypeFacts, CopyFacts DEF Copy, inVars
<1>2. SUFFICES ASSUME rc = "ok" PROVE CopyInv' /\ AnchorInv'
  BY <1>1 DEF CopyInv, AnchorInv
<1>3. CASE k > Len(job.cpys)
  <2>1. pc' = "sub" /\ UNCHANGED <<cpyRebase, held, muxed>>
    BY <1>3 DEF Copy, Goto
  <2>2. \A c \in DOMAIN job.cpys : ~(k <= c)
    BY <1>3, TypeFacts, JobFacts DEF TypeInv, TypeOK
  <2>3. \A c \in DOMAIN job.cpys : OfferedCopy(c)' = OfferedCopy(c)
    BY <1>1, <2>1, <2>2 DEF OfferedCopy
  <2> QED BY <1>1, <2>1, <2>3, CopyInvOther DEF Got
<1>4. CASE ~(k > Len(job.cpys))
  <2>1. PICK p : p = k
    OBVIOUS
  <2>2. p \in DOMAIN job.cpys /\ p \in Nat /\ UNCHANGED <<pc, in>> /\ k' = p + 1
    <3>1. k \in DOMAIN job.cpys
      BY <1>1, <1>4, TypeFacts, JobFacts, InDomain DEF TypeInv, TypeOK
    <3> QED BY <1>1, <1>4, <2>1, <3>1 DEF Copy
  <2>3. CASE job.cpys[p].in = in /\ job.cpys[p].st = pkt.st
    <3>1. PICK ts \in Seq(Nat), h \in Seq(Nat), y \in Seq(Nat), g \in Seq(Nat), n \in Nat : Handed(p, ts, h, y, g, n)
      BY <1>2, <2>1, <2>2, <2>3, CopyHands
    <3>2. CopyInv'
      BY <1>1, <1>2, <2>2, <3>1, HandedCopies
    <3>3. AnchorInv'
      BY <1>1, <1>2, <2>2, <3>1, HandedAnchors
    <3> QED BY <3>2, <3>3
  <2>4. CASE ~(job.cpys[p].in = in /\ job.cpys[p].st = pkt.st)
    <3>1. UNCHANGED <<cpyRebase, held, muxed>>
      BY <1>4, <2>1, <2>4 DEF Copy
    <3>2. \A c \in DOMAIN job.cpys : c # p => OfferedCopy(c)' = OfferedCopy(c)
      BY <1>1, <2>1, <2>2 DEF OfferedCopy
    <3>3. ASSUME job.cpys[p].in = in
          PROVE  \E m : /\ m = OfferedCopy(p)'
                        /\ TimesOf(job.cpys[p].in, job.cpys[p].st, m) =
                             TimesOf(job.cpys[p].in, job.cpys[p].st, OfferedCopy(p))
      <4>1. PICK i \in DOMAIN job.inputs : i = in
        BY DEF TypeInv, TypeOK
      <4>2. PICK st : st = job.cpys[p].st
        OBVIOUS
      <4>3. next[i] > 0 /\ pkt = PacketOf(i, next[i]) /\ next[i] \in Nat /\ Valid(i, next[i])
        BY <1>1, <1>2, <4>1, ReadValid DEF HandInv, Handling
      <4>4. PICK n \in Nat : n = next[i]
        BY <4>3
      <4>5. PICK j \in Nat : n = j + 1
        <5>1. n - 1 \in Nat /\ n = (n - 1) + 1
          BY <4>3, <4>4
        <5> QED BY <5>1
      <4>6. PacketOf(i, j + 1).st # st /\ Valid(i, j + 1)
        BY <2>4, <3>3, <4>2, <4>3, <4>4, <4>5
      <4>7. TimesOf(i, st, j + 1) = TimesOf(i, st, j)
        BY <4>6, TypeFacts, TimesOfNext
      <4>8. OfferedCopy(p)' = n /\ OfferedCopy(p) = n - 1
        BY <1>1, <2>1, <2>2, <3>3, <4>1, <4>4 DEF OfferedCopy
      <4>9. n - 1 = j
        BY <4>5
      <4> QED BY <3>3, <4>1, <4>2, <4>5, <4>7, <4>8, <4>9
    <3>4. job.cpys[p].in # in => OfferedCopy(p)' = OfferedCopy(p)
      BY <1>1, <2>2 DEF OfferedCopy
    <3>5. CopyInv'
      <4>1. ASSUME NEW c \in DOMAIN job.cpys
            PROVE  \E m : /\ m = OfferedCopy(c)'
                          /\ TimesOf(job.cpys[c].in, job.cpys[c].st, m) =
                               TimesOf(job.cpys[c].in, job.cpys[c].st, OfferedCopy(c))
        BY <3>2, <3>3, <3>4
      <4> QED BY <1>1, <3>1, <4>1, CopyInvFrame DEF Got
    <3>6. AnchorInv'
      BY <1>1, <3>1, SameStarts DEF AnchorInv
    <3> QED BY <3>5, <3>6
  <2> QED BY <2>3, <2>4
<1> QED BY <1>3, <1>4

LEMMA CopyInvFlush ==
  ASSUME TypeInv, HandInv, CopyInv, AnchorInv, flush_copy_bsfs
  PROVE  CopyInv' /\ AnchorInv'
<1>1. UNCHANGED <<job, in, next, then, rc>> /\ pc = "bsf" /\ pc' \in {"bsf", "trailer"}
  BY DEF flush_copy_bsfs, Goto, inVars
<1>2. SUFFICES ASSUME rc = "ok" PROVE CopyInv' /\ AnchorInv'
  BY <1>1 DEF CopyInv, AnchorInv
<1>3. CASE UNCHANGED <<cpyRebase, held, muxed>>
  <2>1. \A c \in DOMAIN job.cpys : OfferedCopy(c)' = OfferedCopy(c)
    BY <1>1 DEF OfferedCopy
  <2> QED BY <1>1, <1>3, <2>1, CopyInvOther DEF Got
<1>4. CASE ~UNCHANGED <<cpyRebase, held, muxed>>
  <2>1. ~(k > Len(job.cpys)) /\ job.cpys[k].bsf
    BY <1>4 DEF flush_copy_bsfs
  <2>2. PICK p \in DOMAIN job.cpys : p = k
    BY <1>1, <2>1, TypeFacts, JobFacts, InDomain DEF TypeInv, TypeOK
  <2>3. PICK ts \in Seq(Nat), h \in Seq(Nat), y \in Seq(Nat), g \in Seq(Nat), n \in Nat : Handed(p, ts, h, y, g, n)
    BY <1>2, <2>1, <2>2, FlushHands
  <2>4. CopyInv'
    BY <1>1, <1>2, <2>2, <2>3, HandedCopies
  <2>5. AnchorInv'
    BY <1>1, <1>2, <2>2, <2>3, HandedAnchors
  <2> QED BY <2>4, <2>5
<1> QED BY <1>3, <1>4

LEMMA CopyInvNext ==
  ASSUME TypeInv, HandInv, HeldInv, CopyInv, AnchorInv, [Next]_vars
  PROVE  CopyInv' /\ AnchorInv'
<1>1. \A c \in DOMAIN job.cpys : c >= 1
  BY TypeFacts, JobFacts
<1>2. CASE Copy BY <1>2, CopyInvCopy
<1>3. CASE flush_copy_bsfs BY <1>3, CopyInvFlush
<1>4. CASE ReadFails \/ CallFails
  BY <1>4 DEF ReadFails, CallFails, CopyInv, AnchorInv
<1>5. CASE Read
  <2>1. /\ UNCHANGED <<job, in, held, cpyRebase, muxed, rc>> /\ next' = [next EXCEPT ![in] = @ + 1]
        /\ pc = "read" /\ pc' = "pull" /\ then' = "copy" /\ next \in [DOMAIN job.inputs -> Nat]
    BY <1>5 DEF Read, laneVars, outVars, TypeInv, TypeOK
  <2>2. ASSUME NEW c \in DOMAIN job.cpys PROVE OfferedCopy(c)' = OfferedCopy(c)
    <3>1. job.cpys[c].in \in DOMAIN job.inputs
      BY TypeFacts, CopyFacts
    <3> QED BY <2>1, <3>1 DEF OfferedCopy
  <2> QED BY <2>1, <2>2, CopyInvOther DEF Got
<1>6. CASE Skip \/ StopInput \/ WriteTrailer \/ UNCHANGED vars
  <2>1. UNCHANGED <<job, held, cpyRebase, muxed, next>> /\ (rc' = "ok" => rc = "ok")
    BY <1>6 DEF Skip, StopInput, EndInput, WriteTrailer, vars, inVars, laneVars, outVars
  <2>2. \A c \in DOMAIN job.cpys : OfferedCopy(c)' = OfferedCopy(c)
    BY <1>6, <2>1 DEF Skip, StopInput, EndInput, Goto, WriteTrailer, vars, ctl, OfferedCopy
  <2> QED BY <2>1, <2>2, CopyInvOther DEF Got
<1>7. CASE FlushSub \/ Sub
  <2>1. UNCHANGED <<job, held, cpyRebase, next, rc>> /\ pc \in {"flushsub", "sub"}
    BY <1>7 DEF FlushSub, Sub, inVars
  <2>2. pc' \in {"flushsub", "sub", "read"} \/ (pc' = "pull" /\ then' = "read")
    BY <1>7 DEF FlushSub, Sub, Goto
  <2>3. \A c \in DOMAIN job.cpys : OfferedCopy(c)' = OfferedCopy(c)
    BY <2>1, <2>2 DEF OfferedCopy
  <2>4. \A p \in DOMAIN job.outs, c \in DOMAIN job.cpys : Got(p, "cpy", c)' = Got(p, "cpy", c)
    <3>1. CASE UNCHANGED muxed
      BY <3>1 DEF Got
    <3>2. CASE ~UNCHANGED muxed
      <4>1. ~(k > Len(job.subs)) /\ \E ts : write_sub_pkt(k, ts) /\ (ts = cue[k] \/ ts = Through(cue[k], pkt.t)[1])
        BY <1>7, <3>2 DEF FlushSub, Sub
      <4>2. k \in DOMAIN job.subs
        BY <2>1, <4>1, TypeFacts, JobFacts, InDomain DEF TypeInv, TypeOK
      <4>3. pkt.t \in Nat /\ cue[k] \in Seq(Nat) /\ Len(cue[k]) <= Lag
        BY <4>2 DEF TypeInv, TypeOK
      <4>4. PICK ts \in Seq(Nat) : write_sub_pkt(k, ts)
        BY <4>1, <4>3, ThroughType, ProcessAssumption
      <4> QED BY <4>2, <4>4, SubWrites
    <3> QED BY <3>1, <3>2
  <2> QED BY <2>1, <2>3, <2>4, CopyInvOther
<1>8. CASE Drain
  <2>1. UNCHANGED <<job, in, held, cpyRebase, next, rc, then>> /\ pc = "drain" /\ pc' \in {"drain", "bsf"}
    BY <1>8 DEF Drain, Goto, inVars, laneVars
  <2>2. \A c \in DOMAIN job.cpys : OfferedCopy(c)' = OfferedCopy(c)
    BY <2>1 DEF OfferedCopy
  <2>3. \A p \in DOMAIN job.outs, c \in DOMAIN job.cpys : Got(p, "cpy", c)' = Got(p, "cpy", c)
    BY <1>8, DrainWrites
  <2> QED BY <2>1, <2>2, <2>3, CopyInvOther
<1>9. CASE Pull
  <2>1. UNCHANGED <<job, held, cpyRebase, next, rc, then>> /\ pc = "pull"
    BY <1>9 DEF Pull, PullStarts, PullDone, PullFrame, PullNothing, PullEnds, inVars, laneVars
  <2>2. UNCHANGED <<pc, in>> \/ (pc' = then /\ then \in {"read", "copy", "drain"} /\ (then = "copy" => in' = in /\ k' = 1))
    BY <1>9, <2>1 DEF Pull, PullStarts, PullDone, PullFrame, PullNothing, PullEnds, PullReturns, TypeInv, TypeOK
  <2>3. \A c \in DOMAIN job.cpys : OfferedCopy(c)' = OfferedCopy(c)
    BY <1>1, <2>1, <2>2 DEF OfferedCopy
  <2>4. \A p \in DOMAIN job.outs, c \in DOMAIN job.cpys : Got(p, "cpy", c)' = Got(p, "cpy", c)
    BY <1>9, PullWrites
  <2> QED BY <2>1, <2>3, <2>4, CopyInvOther
<1> QED BY <1>2, <1>3, <1>4, <1>5, <1>6, <1>7, <1>8, <1>9 DEF Next, Work

\* Every output takes one zero for what it copies of an input, where one of the streams
\* starts, and has every packet that its window, counted from there, has room for.
CopiesFromOneStart ==
  Succeeded => \A i \in DOMAIN job.inputs, o \in DOMAIN job.outs :
    \E b \in Nat :
      /\ Starts(i, o) # {} => b \in Starts(i, o)
      /\ \A c \in DOMAIN job.cpys : job.cpys[c].in = i /\ job.cpys[c].out = o =>
           Got(o, "cpy", c) = CopyOut(c, b, Times(i, job.cpys[c].st))

LEMMA StartsType ==
  ASSUME TypeInv, NEW i \in DOMAIN job.inputs, NEW o
  PROVE  Starts(i, o) \subseteq Nat
<1>1. SUFFICES ASSUME NEW c \in DOMAIN job.cpys, Times(i, job.cpys[c].st) # <<>>
               PROVE  Times(i, job.cpys[c].st)[1] \in Nat
  BY DEF Starts
<1>2. Final(i) \in Nat /\ Valid(i, Final(i)) /\ JobOK
  <2>1. Len(Input(i).pkts) \in Nat /\ MaxReads \in Nat /\ JobOK
    BY TypeFacts, InputFacts, ProcessAssumption DEF ProcessAssumption
  <2> QED BY <2>1 DEF Final, Valid
<1>3. PICK u : u = Times(i, job.cpys[c].st)
  OBVIOUS
<1>4. u \in Seq(Nat)
  BY <1>2, <1>3, TimesOfType DEF Times
<1> QED BY <1>1, <1>3, <1>4

LEMMA CopiesAll ==
  ASSUME TypeInv, HandInv, StopInv, NearOrder, StartsInTime, NEW c \in DOMAIN job.cpys, eof[job.cpys[c].in],
         NEW b \in Starts(job.cpys[c].in, job.cpys[c].out)
  PROVE  CopyOut(c, b, TimesOf(job.cpys[c].in, job.cpys[c].st, next[job.cpys[c].in])) =
           CopyOut(c, b, Times(job.cpys[c].in, job.cpys[c].st))
<1> DEFINE o == job.outs[job.cpys[c].out]
           i == job.cpys[c].in
           st == job.cpys[c].st
           S == {t \in Int : Within(t, SourceCutoff(o, b))}
           d == IF o.copyTs THEN 0 ELSE -b
<1>1. \A ts : CopyOut(c, b, ts) = Shifted(Only(ts, S), d)
  BY DEF CopyOut
<1>2. i \in DOMAIN job.inputs /\ job.cpys[c].out \in DOMAIN job.outs /\ JobOK /\ Listened(i)
  BY TypeFacts, CopyFacts DEF Listened
<1>3. b \in Nat /\ SeekBase(i) \in Nat /\ Margin \in Nat /\ o.dur \in Nat /\ o.end \in Nat
  BY <1>2, StartsType, InputFacts, OutFacts, ProcessAssumption DEF ProcessAssumption
<1>4. /\ Valid(i, Final(i)) /\ Final(i) \in Nat /\ next[i] \in Nat /\ next[i] <= Final(i)
      /\ \A m \in (next[i] + 1)..Final(i) :
           /\ PacketOf(i, m).t \in Nat
           /\ SourceCutoff(o, SeekBase(i)) # Forever
           /\ SourceCutoff(o, SeekBase(i)) < PacketOf(i, m).t
           /\ SourceCutoff(o, SeekBase(i)) + Margin < PacketOf(i, next[i] + 1).t
  BY <1>2, RestPast
<1>5. ASSUME NEW m \in (next[i] + 1)..Final(i)
      PROVE  PacketOf(i, next[i] + 1).t + b <= PacketOf(i, m).t + SeekBase(i) + Margin
  <2>1. Len(Input(i).pkts) \in Nat
    BY <1>2, InputFacts
  <2>2. PICK j \in Nat \ {0} : j = next[i] + 1
    BY <1>4
  <2>3. m \in Nat /\ j <= m /\ Valid(i, m)
    BY <1>4, <2>1, <2>2 DEF Valid
  <2>4. PICK e \in Int : e = SeekBase(i) + Margin - b
    BY <1>3
  <2>5. \A x, y \in DOMAIN Input(i).pkts : x <= y => Input(i).pkts[x].t <= Input(i).pkts[y].t + e
    <3>1. SUFFICES ASSUME NEW x \in DOMAIN Input(i).pkts, NEW y \in DOMAIN Input(i).pkts, x <= y
                   PROVE  Input(i).pkts[x].t <= Input(i).pkts[y].t + e
      OBVIOUS
    <3>2. Input(i).pkts[x].t + b <= Input(i).pkts[y].t + SeekBase(i) + Margin
      BY <1>2, <3>1 DEF StartsInTime
    <3>3. Input(i).pkts[x] \in PktType /\ Input(i).pkts[y] \in PktType
      BY <1>2, InputFacts
    <3>4. Input(i).pkts[x].t \in Nat /\ Input(i).pkts[y].t \in Nat
      BY <3>3 DEF PktType
    <3> HIDE DEF i
    <3> QED BY <1>3, <2>4, <3>2, <3>4
  <2>6. PacketOf(i, j).t <= PacketOf(i, m).t + e
    BY <1>2, <2>2, <2>3, <2>5, PacketsNearOrder
  <2>7. PacketOf(i, j).t \in Nat /\ PacketOf(i, m).t \in Nat
    <3>1. j \in (next[i] + 1)..Final(i)
      BY <1>4, <2>2, <2>3
    <3> QED BY <1>4, <3>1
  <2> HIDE DEF i
  <2> QED BY <1>3, <2>2, <2>4, <2>6, <2>7
<1>6. ASSUME NEW m \in (next[i] + 1)..Final(i)
      PROVE  PacketOf(i, m).t \notin S
  <2>1. PICK t1, t, sk : t1 = PacketOf(i, next[i] + 1).t /\ t = PacketOf(i, m).t /\ sk = SeekBase(i)
    OBVIOUS
  <2>2. next[i] + 1 \in (next[i] + 1)..Final(i)
    BY <1>4
  <2>3. /\ t1 \in Nat /\ t \in Nat /\ sk \in Nat /\ t1 + b <= t + sk + Margin
        /\ SourceCutoff(o, sk) # Forever /\ SourceCutoff(o, sk) < t /\ SourceCutoff(o, sk) + Margin < t1
    BY <1>3, <1>4, <1>5, <2>1, <2>2
  <2>4. ~Within(t, SourceCutoff(o, b))
    <3> HIDE DEF o
    <3>1. CASE o.dur > 0
      <4>1. SourceCutoff(o, sk) = sk + o.dur /\ SourceCutoff(o, b) = b + o.dur
        BY <3>1 DEF SourceCutoff
      <4>2. b + o.dur # -1 /\ ~(t < b + o.dur)
        BY <1>3, <2>3, <3>1, <4>1
      <4> QED BY <4>1, <4>2 DEF Within, Forever
    <3>2. CASE ~(o.dur > 0) /\ o.end > 0 /\ o.copyTs
      <4>1. SourceCutoff(o, sk) = 0 + o.end /\ SourceCutoff(o, b) = 0 + o.end
        BY <3>2 DEF SourceCutoff
      <4>2. 0 + o.end # -1 /\ ~(t < 0 + o.end)
        BY <1>3, <2>3, <3>2, <4>1
      <4> QED BY <4>1, <4>2 DEF Within, Forever
    <3>3. CASE ~(o.dur > 0) /\ o.end > 0 /\ ~o.copyTs
      <4>1. SourceCutoff(o, sk) = sk + o.end /\ SourceCutoff(o, b) = b + o.end
        BY <3>3 DEF SourceCutoff
      <4>2. b + o.end # -1 /\ ~(t < b + o.end)
        BY <1>3, <2>3, <3>3, <4>1
      <4> QED BY <4>1, <4>2 DEF Within, Forever
    <3>4. CASE ~(o.dur > 0) /\ ~(o.end > 0)
      BY <2>3, <3>4 DEF SourceCutoff
    <3> QED BY <3>1, <3>2, <3>3, <3>4
  <2> QED BY <2>1, <2>4
<1> HIDE DEF S, d
<1>7. Only(TimesOf(i, st, Final(i)), S) = Only(TimesOf(i, st, next[i]), S)
  BY <1>2, <1>4, <1>6, RestUnwanted
<1> QED BY <1>1, <1>7 DEF Times

\* What a copy has at the end, whichever start its output's zero is.
LEMMA CopyAtEnd ==
  ASSUME TypeInv, EndInv, HandInv, StopInv, HeldInv, CopyInv, AnchorInv, NearOrder, StartsInTime, Succeeded,
         NEW c \in DOMAIN job.cpys, NEW b \in Nat, Anchor(c) # None => b = Anchor(c),
         Starts(job.cpys[c].in, job.cpys[c].out) # {} => b \in Starts(job.cpys[c].in, job.cpys[c].out)
  PROVE  Got(job.cpys[c].out, "cpy", c) = CopyOut(c, b, Times(job.cpys[c].in, job.cpys[c].st))
<1>1. PICK i, o, st : i = job.cpys[c].in /\ o = job.cpys[c].out /\ st = job.cpys[c].st
  OBVIOUS
<1>2. pc = "end" /\ rc = "ok" /\ i \in DOMAIN job.inputs /\ o \in DOMAIN job.outs /\ JobOK
  BY <1>1, TypeFacts, CopyFacts DEF Succeeded
<1>3. eof[i] /\ held[c] = <<>> /\ OfferedCopy(c) = next[i]
  BY <1>1, <1>2 DEF EndInv, Succeeded, HeldInv, OfferedCopy
<1>4. PICK a, u : a = Got(o, "cpy", c) /\ u = TimesOf(i, st, next[i])
  OBVIOUS
<1>5. a \in Seq(Int)
  BY <1>2, <1>4, GotType DEF TypeInv, TypeOK
<1>6. KeptAs(c, Anchor(c), a, <<>>, u)
  BY <1>1, <1>2, <1>3, <1>4 DEF CopyInv, CopyKept
<1>7. a = CopyOut(c, b, u)
  <2>1. CASE Anchor(c) = None
    BY <1>6, <2>1, OutEmpty DEF KeptAs
  <2>2. CASE Anchor(c) # None
    <3>1. a \o <<>> = CopyOut(c, b, u)
      BY <1>6, <2>2, OutEmpty DEF KeptAs
    <3>2. a \o <<>> = a
      BY <1>5
    <3> QED BY <3>1, <3>2
  <2> QED BY <2>1, <2>2
<1>8. CASE Starts(i, o) # {}
  <2>1. CopyOut(c, b, TimesOf(job.cpys[c].in, job.cpys[c].st, next[job.cpys[c].in])) =
          CopyOut(c, b, Times(job.cpys[c].in, job.cpys[c].st))
    BY <1>1, <1>3, <1>8, CopiesAll
  <2> QED BY <1>1, <1>4, <1>7, <2>1
<1>9. CASE Starts(i, o) = {}
  <2>1. Times(i, st) = <<>>
    BY <1>1, <1>9 DEF Starts
  <2>2. u = <<>>
    <3>1. next[i] \in Nat /\ next[i] <= Final(i)
      BY <1>2, ReadValid DEF HandInv
    <3>2. Final(i) \in Nat /\ Valid(i, Final(i))
      <4>1. Len(Input(i).pkts) \in Nat /\ MaxReads \in Nat
        BY <1>2, InputFacts, ProcessAssumption DEF ProcessAssumption
      <4> QED BY <4>1 DEF Final, Valid
    <3>3. PICK n \in Nat, m \in Nat : n = next[i] /\ m = Final(i)
      BY <3>1, <3>2
    <3>4. n <= m /\ Valid(i, m) /\ TimesOf(i, st, m) = <<>>
      BY <2>1, <3>1, <3>2, <3>3 DEF Times
    <3>5. TimesOf(i, st, n) = <<>>
      BY <1>2, <3>4, TimesPrefix
    <3> QED BY <1>4, <3>3, <3>5
  <2> QED BY <1>1, <1>4, <1>7, <2>1, <2>2
<1> QED BY <1>8, <1>9

\* What is true of the copies throughout.
CopyRunInv ==
  TypeInv /\ LoopInv /\ EndInv /\ HandInv /\ StopInv /\ HeldInv /\ CopyInv /\ AnchorInv

LEMMA CopyRunInvariant == Spec => []CopyRunInv
<1>1. Init => CopyRunInv
  BY TypeInvInit, LoopInvInit, EndInvInit, HandInvInit, StopInvInit, HeldInvInit, CopyInvInit, AnchorInvInit
  DEF CopyRunInv
<1>2. CopyRunInv /\ [Next]_vars => CopyRunInv'
  BY TypeInvNext, LoopInvNext, EndInvNext, HandInvNext, StopInvNext, HeldInvNext, CopyInvNext DEF CopyRunInv
<1> QED BY <1>1, <1>2, PTL DEF Spec

LEMMA StartOf ==
  ASSUME TypeInv, AnchorInv, rc = "ok", NEW i \in DOMAIN job.inputs, NEW o \in DOMAIN job.outs
  PROVE  \E b \in Nat : /\ cpyRebase[i][o] # None => b = cpyRebase[i][o]
                        /\ Starts(i, o) # {} => b \in Starts(i, o)
<1>1. Starts(i, o) \subseteq Nat /\ cpyRebase[i][o] \in Nat \cup {None}
  BY StartsType DEF TypeInv, TypeOK
<1>2. cpyRebase[i][o] # None => cpyRebase[i][o] \in Starts(i, o)
  BY DEF AnchorInv
<1> QED BY <1>1, <1>2

\* A job that succeeds has copied every packet its windows have room for: none stays in
\* a bitstream filter (ffmpeg-wasi#28), each output counts from one start, and an input
\* that is stopped early has nothing left that the windows of its copies want, as long
\* as its packets are in the order of their times but for the second the cutoff is
\* widened by, which also has to cover what the seek is short of where copying starts.
THEOREM CopiesKept == Spec => [](NearOrder /\ StartsInTime => CopiesFromOneStart)
<1>1. CopyRunInv => (NearOrder /\ StartsInTime => CopiesFromOneStart)
  <2> SUFFICES ASSUME CopyRunInv, NearOrder, StartsInTime, Succeeded,
                      NEW i \in DOMAIN job.inputs, NEW o \in DOMAIN job.outs
               PROVE  \E b \in Nat :
                        /\ Starts(i, o) # {} => b \in Starts(i, o)
                        /\ \A c \in DOMAIN job.cpys : job.cpys[c].in = i /\ job.cpys[c].out = o =>
                             Got(o, "cpy", c) = CopyOut(c, b, Times(i, job.cpys[c].st))
    BY DEF CopiesFromOneStart
  <2>1. PICK b \in Nat : /\ cpyRebase[i][o] # None => b = cpyRebase[i][o]
                         /\ Starts(i, o) # {} => b \in Starts(i, o)
    BY StartOf DEF CopyRunInv, Succeeded
  <2>2. ASSUME NEW c \in DOMAIN job.cpys, job.cpys[c].in = i, job.cpys[c].out = o
        PROVE  Got(o, "cpy", c) = CopyOut(c, b, Times(i, job.cpys[c].st))
    BY <2>1, <2>2, CopyAtEnd DEF CopyRunInv, Anchor
  <2> QED BY <2>1, <2>2
<1> QED BY <1>1, CopyRunInvariant, PTL

\* When what is copied from an input to an output starts together, that is what each
\* stream should have on its own.
THEOREM CopiesWholeKept == Spec => [](NearOrder /\ StartsInTime /\ StartTogether => CopiesWhole)
<1>1. CopyRunInv => (NearOrder /\ StartsInTime /\ StartTogether => CopiesWhole)
  <2> SUFFICES ASSUME CopyRunInv, NearOrder, StartsInTime, StartTogether, Succeeded, NEW c \in DOMAIN job.cpys
               PROVE  Got(job.cpys[c].out, "cpy", c) = WholeCopy(c)
    BY DEF CopiesWhole
  <2>1. PICK i, o, st : i = job.cpys[c].in /\ o = job.cpys[c].out /\ st = job.cpys[c].st
    OBVIOUS
  <2>2. i \in DOMAIN job.inputs /\ o \in DOMAIN job.outs
    BY <2>1, TypeFacts, CopyFacts DEF CopyRunInv
  <2>3. PICK b \in Nat : /\ cpyRebase[i][o] # None => b = cpyRebase[i][o]
                         /\ Starts(i, o) # {} => b \in Starts(i, o)
    BY <2>2, StartOf DEF CopyRunInv, Succeeded
  <2>4. Got(o, "cpy", c) = CopyOut(c, b, Times(i, st))
    BY <2>1, <2>3, CopyAtEnd DEF CopyRunInv, Anchor
  <2>5. CASE Times(i, st) = <<>>
    BY <2>1, <2>4, <2>5, OutEmpty DEF WholeCopy
  <2>6. CASE Times(i, st) # <<>>
    <3> DEFINE base == CHOOSE t \in Starts(i, o) : \A u \in Starts(i, o) : t <= u
    <3>1. b \in Starts(i, o) /\ \A t \in Starts(i, o) : t = b
      <4>1. Starts(i, o) # {}
        BY <2>1, <2>6 DEF Starts
      <4> QED BY <2>2, <2>3, <4>1 DEF StartTogether
    <3>2. \E t \in Starts(i, o) : \A u \in Starts(i, o) : t <= u
      BY <3>1
    <3>3. base \in Starts(i, o)
      BY <3>2
    <3>4. base = b
      BY <3>1, <3>3
    <3>5. WholeCopy(c) = CopyOut(c, base, Times(i, st))
      BY <2>1, <2>6 DEF WholeCopy
    <3> HIDE DEF base
    <3> QED BY <2>1, <2>4, <3>4, <3>5
  <2> QED BY <2>5, <2>6
<1> QED BY <1>1, CopyRunInvariant, PTL
-----------------------------------------------------------------------------
(* The frames *)

\* The first n of ts.
First(ts, n) == SubSeq(ts, 1, IF n <= Len(ts) THEN n ELSE Len(ts))

\* The first n grow one by one.
LEMMA FirstNext ==
  ASSUME NEW ts \in Seq(Int), NEW n \in Nat
  PROVE  /\ First(ts, n) \in Seq(Int) /\ First(ts, 0) = <<>> /\ (n >= Len(ts) => First(ts, n) = ts)
         /\ First(ts, n + 1) = IF n + 1 <= Len(ts) THEN Append(First(ts, n), ts[n + 1]) ELSE First(ts, n)
<1>1. Len(ts) \in Nat /\ \A j \in 0..Len(ts) : SubSeq(ts, 1, j) \in Seq(Int) /\ Len(SubSeq(ts, 1, j)) = j
  OBVIOUS
<1>2. First(ts, n) \in Seq(Int)
  BY <1>1 DEF First
<1>3. First(ts, 0) = <<>>
  BY <1>1 DEF First
<1>4. n >= Len(ts) => First(ts, n) = ts
  BY <1>1 DEF First
<1>5. First(ts, n + 1) = IF n + 1 <= Len(ts) THEN Append(First(ts, n), ts[n + 1]) ELSE First(ts, n)
  <2>1. CASE n + 1 <= Len(ts)
    <3>1. First(ts, n) = SubSeq(ts, 1, n) /\ First(ts, n + 1) = SubSeq(ts, 1, n + 1)
      BY <1>1, <2>1 DEF First
    <3>2. SubSeq(ts, 1, n + 1) = Append(SubSeq(ts, 1, n), ts[n + 1])
      BY <1>1, <2>1
    <3> QED BY <2>1, <3>1, <3>2
  <2>2. CASE ~(n + 1 <= Len(ts))
    <3>1. First(ts, n) = SubSeq(ts, 1, Len(ts)) /\ First(ts, n + 1) = SubSeq(ts, 1, Len(ts))
      BY <1>1, <2>2 DEF First
    <3> QED BY <2>2, <3>1
  <2> QED BY <2>1, <2>2
<1> QED BY <1>2, <1>3, <1>4, <1>5

\* What is encoded of a run is what is encoded of its parts.
LEMMA EncOutConcat ==
  ASSUME JobOK, NEW s \in DOMAIN job.gouts, NEW a \in Seq(Int), NEW b \in Seq(Int)
  PROVE  EncOut(s, a \o b) = EncOut(s, a) \o EncOut(s, b)
<1>1. PICK S, d : /\ d = Offset(job.outs[job.gouts[s].out])
                  /\ \A ts : EncOut(s, ts) = Only(Shifted(ts, d), S)
  BY DEF EncOut
<1>2. d \in Int
  <2>1. PICK o \in DOMAIN job.outs : o = job.gouts[s].out
    BY ChainFacts
  <2>2. Offset(job.outs[o]) \in Nat
    BY CutoffTypes
  <2> QED BY <1>1, <2>1, <2>2
<1>3. PICK p, q : p = Shifted(a, d) /\ q = Shifted(b, d)
  OBVIOUS
<1>4. p \in Seq(Int) /\ q \in Seq(Int) /\ Shifted(a \o b, d) = p \o q
  BY <1>2, <1>3, ShiftedType, ShiftedConcat
<1>5. Only(p \o q, S) = Only(p, S) \o Only(q, S)
  <2>1. p \in Seq(Int) /\ q \in Seq(Int)
    BY <1>4
  <2> QED BY <2>1, OnlyConcat
<1>6. EncOut(s, a \o b) = Only(p \o q, S)
  <2>1. EncOut(s, a \o b) = Only(Shifted(a \o b, d), S)
    BY <1>1
  <2> QED BY <1>4, <2>1
<1>7. EncOut(s, a) = Only(p, S) /\ EncOut(s, b) = Only(q, S)
  BY <1>1, <1>3
<1> QED BY <1>5, <1>6, <1>7

\* A frame past the window is not written, any other is.
LEMMA EncOutOne ==
  ASSUME JobOK, NEW s \in DOMAIN job.gouts, NEW t \in Int
  PROVE  /\ EncOut(s, <<>>) = <<>>
         /\ EncOut(s, <<t>>) = IF Past(s, t) THEN <<>> ELSE <<t + Offset(job.outs[job.gouts[s].out])>>
<1>1. PICK S, d : /\ d = Offset(job.outs[job.gouts[s].out])
                  /\ S = {u \in Int : Within(u, out_cutoff(job.outs[job.gouts[s].out]))}
                  /\ \A ts : EncOut(s, ts) = Only(Shifted(ts, d), S)
  BY DEF EncOut
<1>2. d \in Int /\ t + d \in Int
  BY <1>1, ChainFacts, CutoffTypes
<1>3. Past(s, t) <=> t + d \notin S
  BY <1>1, <1>2 DEF Past
<1>4. EncOut(s, <<>>) = <<>>
  <2>1. EncOut(s, <<>>) = Only(Shifted(<<>>, d), S)
    BY <1>1
  <2> QED BY <2>1, ShiftedEmpty, OnlyEmpty
<1>5. Shifted(<<t>>, d) = <<t + d>>
  BY DEF Shifted
<1>6. Only(<<t + d>>, S) = IF t + d \in S THEN <<t + d>> ELSE <<>>
  <2>1. <<>> \in Seq(Int) /\ Append(<<>>, t + d) = <<t + d>>
    OBVIOUS
  <2>2. Only(Append(<<>>, t + d), S) = IF t + d \in S THEN Append(Only(<<>>, S), t + d) ELSE Only(<<>>, S)
    BY <1>2, <2>1, OnlyAppend
  <2> QED BY <2>1, <2>2, OnlyEmpty
<1>7. EncOut(s, <<t>>) = Only(Shifted(<<t>>, d), S)
  BY <1>1
<1> QED BY <1>1, <1>3, <1>4, <1>5, <1>6, <1>7

\* And so is one that follows others.
LEMMA EncOutAppend ==
  ASSUME JobOK, NEW s \in DOMAIN job.gouts, NEW a \in Seq(Int), NEW t \in Int
  PROVE  EncOut(s, Append(a, t)) =
           IF Past(s, t) THEN EncOut(s, a) ELSE EncOut(s, a) \o <<t + Offset(job.outs[job.gouts[s].out])>>
<1>1. Append(a, t) = a \o <<t>> /\ <<t>> \in Seq(Int)
  OBVIOUS
<1>2. EncOut(s, a \o <<t>>) = EncOut(s, a) \o EncOut(s, <<t>>)
  BY <1>1, EncOutConcat
<1>3. EncOut(s, a) \in Seq(Int)
  BY EncOutType
<1>4. PICK e : e = EncOut(s, a)
  OBVIOUS
<1>5. e \o <<>> = e
  BY <1>3, <1>4
<1>6. EncOut(s, <<t>>) = IF Past(s, t) THEN <<>> ELSE <<t + Offset(job.outs[job.gouts[s].out])>>
  BY EncOutOne
<1> QED BY <1>1, <1>2, <1>4, <1>5, <1>6

\* Two runs of frames that differ only where both are past the window are written the same.
LEMMA SameWanted ==
  ASSUME JobOK, NEW s \in DOMAIN job.gouts, NEW a \in Seq(Int), NEW b \in Seq(Int),
         \A n \in Nat \ {0} : \/ n <= Len(a) /\ n <= Len(b) /\ a[n] = b[n]
                              \/ (n <= Len(a) => Past(s, a[n])) /\ (n <= Len(b) => Past(s, b[n]))
  PROVE  EncOut(s, a) = EncOut(s, b)
<1> DEFINE Q == {n \in Nat : EncOut(s, First(a, n)) = EncOut(s, First(b, n))}
<1>1. 0 \in Q
  BY FirstNext
<1>2. ASSUME NEW n \in Nat, n \in Q PROVE n + 1 \in Q
  <2> DEFINE off == Offset(job.outs[job.gouts[s].out])
  <2>1. PICK c, d : c = First(a, n) /\ d = First(b, n)
    OBVIOUS
  <2>2. c \in Seq(Int) /\ d \in Seq(Int) /\ EncOut(s, c) = EncOut(s, d)
    BY <1>2, <2>1, FirstNext
  <2>3. /\ First(a, n + 1) = IF n + 1 <= Len(a) THEN Append(c, a[n + 1]) ELSE c
        /\ First(b, n + 1) = IF n + 1 <= Len(b) THEN Append(d, b[n + 1]) ELSE d
    BY <2>1, FirstNext
  <2>4. /\ n + 1 \in Nat \ {0}
        /\ n + 1 <= Len(a) => a[n + 1] \in Int
        /\ n + 1 <= Len(b) => b[n + 1] \in Int
    OBVIOUS
  <2>5. n + 1 <= Len(a) => EncOut(s, Append(c, a[n + 1])) =
                              IF Past(s, a[n + 1]) THEN EncOut(s, c) ELSE EncOut(s, c) \o <<a[n + 1] + off>>
    BY <2>2, <2>4, EncOutAppend
  <2>6. n + 1 <= Len(b) => EncOut(s, Append(d, b[n + 1])) =
                              IF Past(s, b[n + 1]) THEN EncOut(s, d) ELSE EncOut(s, d) \o <<b[n + 1] + off>>
    BY <2>2, <2>4, EncOutAppend
  <2>7. CASE n + 1 <= Len(a) /\ n + 1 <= Len(b) /\ a[n + 1] = b[n + 1]
    <3>1. First(a, n + 1) = Append(c, a[n + 1]) /\ First(b, n + 1) = Append(d, a[n + 1])
      BY <2>3, <2>7
    <3>2. EncOut(s, Append(c, a[n + 1])) = EncOut(s, Append(d, a[n + 1]))
      BY <2>2, <2>5, <2>6, <2>7
    <3> QED BY <2>4, <3>1, <3>2
  <2>8. CASE (n + 1 <= Len(a) => Past(s, a[n + 1])) /\ (n + 1 <= Len(b) => Past(s, b[n + 1]))
    <3>1. EncOut(s, First(a, n + 1)) = EncOut(s, c)
      BY <2>3, <2>5, <2>8
    <3>2. EncOut(s, First(b, n + 1)) = EncOut(s, d)
      BY <2>3, <2>6, <2>8
    <3> QED BY <2>2, <3>1, <3>2
  <2> QED BY <2>4, <2>7, <2>8
<1> HIDE DEF Q
<1>3. Nat \subseteq Q
  BY <1>1, <1>2, SetInduction
<1>4. PICK n \in Nat : n = Len(a) + Len(b)
  OBVIOUS
<1>5. n >= Len(a) /\ n >= Len(b)
  BY <1>4
<1>6. First(a, n) = a /\ First(b, n) = b
  BY <1>5, FirstNext
<1> QED BY <1>3, <1>6 DEF Q

\* p is how q begins.
Begins(p, q) == Len(p) <= Len(q) /\ \A n \in 1..Len(p) : p[n] = q[n]

\* The frames a chain should make of what it should be given.
WholeFrames(s) ==
  LET ch == job.gouts[s] IN
  IF ch.kind = "loop" /\ WholeRaw(s) # <<>> THEN [n \in 1..MaxReads |-> WholeRaw(s)[1] + n - 1]
  ELSE Chained(ch, WholeRaw(s))

\* A run begins what it is followed by more in, and itself.
LEMMA BeginsJoin ==
  ASSUME NEW a \in Seq(Int), NEW b \in Seq(Int)
  PROVE  Begins(a, a \o b) /\ Begins(a, a)
BY DEF Begins

\* What begins the beginning begins the whole.
LEMMA BeginsTrans ==
  ASSUME NEW a \in Seq(Int), NEW b \in Seq(Int), NEW c \in Seq(Int), Begins(a, b), Begins(b, c)
  PROVE  Begins(a, c)
<1>1. Len(a) \in Nat /\ Len(b) \in Nat /\ Len(c) \in Nat
  OBVIOUS
<1> QED BY <1>1 DEF Begins

\* What is past the window stays so later on.
LEMMA PastUp ==
  ASSUME JobOK, NEW s \in DOMAIN job.gouts, NEW t \in Int, NEW u \in Int, t <= u, Past(s, t)
  PROVE  Past(s, u)
<1>1. PICK o \in DOMAIN job.outs : o = job.gouts[s].out
  BY ChainFacts
<1>2. Offset(job.outs[o]) \in Nat /\ out_cutoff(job.outs[o]) \in Nat \cup {Forever}
  BY CutoffTypes
<1> QED BY <1>1, <1>2 DEF Past, Within, Forever

\* A frame's time is an integer, at any speed.
LEMMA PaceType ==
  ASSUME NEW s, NEW t \in Int
  PROVE  Pace(s, t) \in Int
BY DEF Pace

\* The speed keeps the order.
LEMMA PaceUp ==
  ASSUME NEW s, NEW t \in Int, NEW u \in Int, t <= u
  PROVE  Pace(s, t) <= Pace(s, u)
<1>1. t \div 2 <= u \div 2
  OBVIOUS
<1> QED BY <1>1 DEF Pace

\* The frames of a chain are times.
LEMMA FrameInType ==
  ASSUME JobOK, NEW s \in DOMAIN job.gouts, NEW raw \in Seq(Int), NEW n \in Nat \ {0}, HasIn(s, raw, n)
  PROVE  FrameIn(s, raw, n) \in Int
<1>1. raw # <<>> => raw[1] \in Int
  OBVIOUS
<1>2. n <= Len(raw) => raw[n] \in Int
  OBVIOUS
<1>3. n <= Len(raw) => Pace(s, raw[n]) \in Int
  BY <1>2, PaceType
<1> QED BY <1>1, <1>3 DEF HasIn, FrameIn

\* A chain that is given more gives the frames it gave.
LEMMA FrameInBegins ==
  ASSUME JobOK, NEW s \in DOMAIN job.gouts, NEW p \in Seq(Int), NEW q \in Seq(Int), Begins(p, q),
         NEW n \in Nat \ {0}, HasIn(s, p, n)
  PROVE  HasIn(s, q, n) /\ FrameIn(s, q, n) = FrameIn(s, p, n)
<1>1. Len(p) \in Nat /\ Len(q) \in Nat /\ (p # <<>> => Len(p) >= 1) /\ (Len(q) >= 1 => q # <<>>)
  OBVIOUS
<1>2. q # <<>> /\ p # <<>> /\ q[1] = p[1]
  BY <1>1 DEF Begins, HasIn
<1>3. n <= Len(p) => n <= Len(q) /\ q[n] = p[n]
  BY <1>1 DEF Begins
<1> QED BY <1>2, <1>3 DEF HasIn, FrameIn

\* A chain given frames in order gives frames in order, and none without those before.
LEMMA FrameInOrder ==
  ASSUME JobOK, NEW s \in DOMAIN job.gouts, NEW raw \in Seq(Int), InOrder(raw),
         NEW m \in Nat \ {0}, NEW n \in Nat \ {0}, m <= n, HasIn(s, raw, n)
  PROVE  HasIn(s, raw, m) /\ FrameIn(s, raw, m) <= FrameIn(s, raw, n)
<1>1. job.gouts[s].n \in Nat /\ Len(raw) \in Nat
  BY ChainFacts
<1>2. HasIn(s, raw, m)
  BY <1>1 DEF HasIn
<1>3. CASE job.gouts[s].kind = "loop"
  <2>1. raw[1] \in Int
    BY DEF HasIn
  <2> QED BY <1>2, <1>3, <2>1 DEF FrameIn
<1>4. CASE job.gouts[s].kind # "loop"
  <2>1. n <= Len(raw)
    BY <1>4 DEF HasIn
  <2>2. raw[m] \in Int /\ raw[n] \in Int /\ raw[m] <= raw[n]
    BY <1>1, <2>1 DEF InOrder
  <2>3. Pace(s, raw[m]) <= Pace(s, raw[n])
    BY <2>2, PaceUp
  <2> QED BY <1>2, <1>4, <2>3 DEF FrameIn
<1> QED BY <1>3, <1>4

\* HasIn and FrameIn are the chain, one frame at a time.
LEMMA ChainedAt ==
  ASSUME JobOK, NEW s \in DOMAIN job.gouts, NEW raw \in Seq(Int), job.gouts[s].kind # "loop", NEW n \in Nat \ {0}
  PROVE  /\ n <= Len(Chained(job.gouts[s], raw)) <=> HasIn(s, raw, n)
         /\ HasIn(s, raw, n) => Chained(job.gouts[s], raw)[n] = FrameIn(s, raw, n)
<1>1. job.gouts[s] \in ChainType /\ job.gouts[s].n \in Nat
  BY JobFacts, ChainFacts
<1>2. PICK ch : ch = job.gouts[s]
  OBVIOUS
<1>3. ch \in ChainType /\ ch.n \in Nat /\ ch.kind # "loop"
  BY <1>1, <1>2
<1>4. Len(Chained(ch, raw)) = IF ch.kind = "trim" /\ ch.n < Len(raw) THEN ch.n ELSE Len(raw)
  BY <1>3, ChainedLen
<1>5. Len(raw) \in Nat /\ (Len(raw) = 0 <=> raw = <<>>)
  OBVIOUS
<1>6. n <= Len(Chained(ch, raw)) <=> HasIn(s, raw, n)
  BY <1>2, <1>3, <1>4, <1>5 DEF HasIn
<1>7. ASSUME HasIn(s, raw, n) PROVE Chained(ch, raw)[n] = FrameIn(s, raw, n)
  <2>1. n <= Len(raw) /\ (ch.kind = "trim" => n <= ch.n)
    BY <1>2, <1>3, <1>7 DEF HasIn
  <2>2. FrameIn(s, raw, n) = IF ch.kind = "speed" THEN raw[n] \div 2 ELSE raw[n]
    BY <1>2, <1>3 DEF FrameIn, Pace
  <2>3. CASE ch.kind = "trim"
    <3> DEFINE m == IF Len(raw) < ch.n THEN Len(raw) ELSE ch.n
    <3>1. Chained(ch, raw) = SubSeq(raw, 1, m) /\ n \in 1..m /\ m \in 0..Len(raw)
      BY <1>3, <1>5, <2>1, <2>3 DEF Chained
    <3> HIDE DEF m
    <3>2. SubSeq(raw, 1, m)[n] = raw[n]
      BY <3>1
    <3> QED BY <2>2, <2>3, <3>1, <3>2
  <2>4. CASE ch.kind = "speed"
    <3>1. Chained(ch, raw) = [j \in DOMAIN raw |-> raw[j] \div 2]
      BY <2>4 DEF Chained
    <3>2. n \in DOMAIN raw
      BY <2>1
    <3> QED BY <2>2, <2>4, <3>1, <3>2
  <2>5. CASE ch.kind \notin {"trim", "speed"}
    <3>1. Chained(ch, raw) = raw
      BY <2>5 DEF Chained
    <3> QED BY <2>2, <2>5, <3>1
  <2> QED BY <2>3, <2>4, <2>5
<1> QED BY <1>2, <1>6, <1>7

\* And they are what the sink can ask for.
LEMMA FramesAre ==
  ASSUME TypeInv, NEW s \in DOMAIN job.gouts, NEW n \in Nat \ {0}
  PROVE  /\ HasFrame(s, n) <=> HasIn(s, Raw(s), n)
         /\ HasFrame(s, n) => FrameAt(s, n) = FrameIn(s, Raw(s), n)
<1>1. PICK raw : raw = Raw(s)
  OBVIOUS
<1>2. raw \in Seq(Int) /\ JobOK
  BY <1>1, RawType, TypeFacts
<1>3. CASE job.gouts[s].kind = "loop"
  <2>1. Endless(s) <=> raw # <<>>
    BY <1>1, <1>3 DEF Endless
  <2>2. Chained(job.gouts[s], raw) = raw
    BY <1>3 DEF Chained
  <2>3. HasFrame(s, n) <=> raw # <<>> \/ n <= Len(raw)
    BY <1>1, <2>1, <2>2 DEF HasFrame
  <2>4. n <= Len(raw) => raw # <<>>
    BY <1>2
  <2>5. HasFrame(s, n) <=> raw # <<>>
    BY <2>3, <2>4
  <2>6. raw # <<>> => FrameAt(s, n) = raw[1] + n - 1
    BY <1>1, <2>1 DEF FrameAt
  <2> QED BY <1>1, <1>3, <2>5, <2>6 DEF HasIn, FrameIn
<1>4. CASE job.gouts[s].kind # "loop"
  <2>1. ~Endless(s)
    BY <1>4 DEF Endless
  <2>2. /\ HasFrame(s, n) <=> n <= Len(Chained(job.gouts[s], raw))
        /\ FrameAt(s, n) = Chained(job.gouts[s], raw)[n]
    BY <1>1, <2>1 DEF HasFrame, FrameAt
  <2>3. /\ n <= Len(Chained(job.gouts[s], raw)) <=> HasIn(s, raw, n)
        /\ HasIn(s, raw, n) => Chained(job.gouts[s], raw)[n] = FrameIn(s, raw, n)
    BY <1>2, <1>4, ChainedAt
  <2> QED BY <1>1, <2>2, <2>3
<1> QED BY <1>3, <1>4

\* The zero of a pad as push_frame notes it.
Based(g, ts) == IF FileOf(g).seek = None \/ ts = <<>> THEN None ELSE Zero(g, ts)

\* Frames are kept one by one.
LEMMA KeptConcat ==
  ASSUME NEW g, NEW a \in Seq(Nat), NEW b \in Seq(Nat)
  PROVE  Kept(g, a \o b) = Kept(g, a) \o Kept(g, b)
<1>1. PICK S : \A ts : Kept(g, ts) = Only(ts, S)
  BY DEF Kept
<1>2. Only(a \o b, S) = Only(a, S) \o Only(b, S)
  BY OnlyConcat
<1>3. Kept(g, a \o b) = Only(a \o b, S)
  BY <1>1
<1>4. Kept(g, a) = Only(a, S) /\ Kept(g, b) = Only(b, S)
  BY <1>1
<1> QED BY <1>2, <1>3, <1>4

\* None is kept of none.
LEMMA KeptEmpty == \A g : Kept(g, <<>>) = <<>>
BY OnlyEmpty DEF Kept

\* An input's seek is a time or none.
LEMMA FileFacts ==
  ASSUME JobOK, NEW g \in DOMAIN job.gins
  PROVE  FileOf(g).seek \in Nat \cup {None} /\ FileOf(g).accurate \in BOOLEAN
BY PadFacts, InputFacts DEF FileOf

\* So is a pad's zero.
LEMMA ZeroType ==
  ASSUME JobOK, NEW g \in DOMAIN job.gins, NEW ts \in Seq(Nat)
  PROVE  Zero(g, ts) \in Nat /\ -Zero(g, ts) \in Int /\ Based(g, ts) \in Nat \cup {None}
<1>1. FileOf(g).seek \in Nat \cup {None}
  BY FileFacts
<1>2. ts # <<>> => ts[1] \in Nat
  OBVIOUS
<1>3. Zero(g, ts) \in Nat
  BY <1>1, <1>2 DEF Zero
<1> QED BY <1>3 DEF Based

\* A pad is given times, as many as are kept.
LEMMA OnPadType ==
  ASSUME JobOK, NEW g \in DOMAIN job.gins, NEW ts \in Seq(Nat)
  PROVE  OnPad(g, ts) \in Seq(Int) /\ Len(OnPad(g, ts)) = Len(Kept(g, ts))
<1>1. PICK q : q = Kept(g, ts)
  OBVIOUS
<1>2. q \in Seq(Nat) /\ q \in Seq(Int)
  <2>1. q \in Seq(Nat)
    BY <1>1, KeptType
  <2> QED BY <2>1
<1>3. PICK z : z = -Zero(g, q)
  OBVIOUS
<1>4. z \in Int
  BY <1>2, <1>3, ZeroType
<1>5. Shifted(q, z) \in Seq(Int) /\ Len(Shifted(q, z)) = Len(q)
  BY <1>2, <1>4, ShiftedType
<1> QED BY <1>1, <1>3, <1>5 DEF OnPad

\* The zero of a pad is set by the first frame it keeps.
LEMMA ZeroStays ==
  ASSUME JobOK, NEW g \in DOMAIN job.gins, NEW p \in Seq(Nat), NEW q \in Seq(Nat)
  PROVE  /\ p # <<>> => Zero(g, p \o q) = Zero(g, p) /\ Based(g, p \o q) = Based(g, p)
         /\ p = <<>> => Zero(g, p \o q) = Zero(g, q) /\ Based(g, p \o q) = Based(g, q)
<1>1. p # <<>> => p \o q # <<>> /\ (p \o q)[1] = p[1]
  OBVIOUS
<1>2. p = <<>> => p \o q = q
  OBVIOUS
<1> QED BY <1>1, <1>2 DEF Zero, Based

\* More frames add to what a pad has, and change nothing of it.
LEMMA OnPadMore ==
  ASSUME JobOK, NEW g \in DOMAIN job.gins, NEW a \in Seq(Nat), NEW b \in Seq(Nat)
  PROVE  OnPad(g, a \o b) = OnPad(g, a) \o Shifted(Kept(g, b), -Zero(g, Kept(g, a \o b)))
<1>1. PICK p, q : p = Kept(g, a) /\ q = Kept(g, b)
  OBVIOUS
<1>2. p \in Seq(Nat) /\ q \in Seq(Nat) /\ Kept(g, a \o b) = p \o q
  BY <1>1, KeptType, KeptConcat
<1>3. PICK z, y : z = -Zero(g, p \o q) /\ y = -Zero(g, p)
  OBVIOUS
<1>4. z \in Int /\ y \in Int
  <2>1. p \o q \in Seq(Nat)
    BY <1>2
  <2>2. PICK w : w = p \o q
    OBVIOUS
  <2>3. -Zero(g, w) \in Int /\ -Zero(g, p) \in Int
    BY <1>2, <2>1, <2>2, ZeroType
  <2> QED BY <1>3, <2>2, <2>3
<1>5. p \in Seq(Int) /\ q \in Seq(Int)
  BY <1>2
<1>6. Shifted(p \o q, z) = Shifted(p, z) \o Shifted(q, z)
  BY <1>4, <1>5, ShiftedConcat
<1>7. Shifted(p, z) = Shifted(p, y)
  <2>1. CASE p # <<>>
    <3>1. z = y
      BY <1>2, <1>3, <2>1, ZeroStays
    <3> QED BY <3>1
  <2>2. CASE p = <<>>
    BY <2>2, ShiftedEmpty
  <2> QED BY <2>1, <2>2
<1>8. OnPad(g, a \o b) = Shifted(p \o q, z)
  BY <1>2, <1>3 DEF OnPad
<1>9. OnPad(g, a) = Shifted(p, y) /\ Shifted(q, z) = Shifted(Kept(g, b), -Zero(g, Kept(g, a \o b)))
  BY <1>1, <1>2, <1>3 DEF OnPad
<1> QED BY <1>6, <1>7, <1>8, <1>9

\* So what it has been given begins what it will be.
LEMMA OnPadBegins ==
  ASSUME JobOK, NEW g \in DOMAIN job.gins, NEW a \in Seq(Nat), NEW b \in Seq(Nat)
  PROVE  Begins(OnPad(g, a), OnPad(g, a \o b))
<1>1. PICK u, v : u = OnPad(g, a) /\ v = Shifted(Kept(g, b), -Zero(g, Kept(g, a \o b)))
  OBVIOUS
<1>2. u \in Seq(Int)
  BY <1>1, OnPadType
<1>3. v \in Seq(Int)
  <2>1. PICK q, w : q = Kept(g, b) /\ w = Kept(g, a \o b)
    OBVIOUS
  <2>2. q \in Seq(Nat) /\ w \in Seq(Nat)
    <3>1. PICK c : c = a \o b
      OBVIOUS
    <3>2. c \in Seq(Nat)
      BY <3>1
    <3> QED BY <2>1, <3>1, <3>2, KeptType
  <2>3. PICK z : z = -Zero(g, w)
    OBVIOUS
  <2>4. z \in Int /\ q \in Seq(Int)
    BY <2>2, <2>3, ZeroType
  <2>5. Shifted(q, z) \in Seq(Int)
    BY <2>4, ShiftedType
  <2> QED BY <1>1, <2>1, <2>3, <2>5
<1>4. OnPad(g, a \o b) = u \o v
  BY <1>1, OnPadMore
<1> QED BY <1>1, <1>2, <1>3, <1>4, BeginsJoin

\* What a pad should be given is that, of all its input's packets.
LEMMA WholePadIs ==
  ASSUME NEW g
  PROVE  WholePad(g) = OnPad(g, Times(job.gins[g].in, job.gins[g].st))
BY DEF WholePad, OnPad, Zero, FileOf

\* The frames of G for pad g.
Given(G, g) == IF g \in DOMAIN G THEN G[g] ELSE <<>>

\* A pad that has been given the frames of d so far, and its zero.
PadHas(g, d) ==
  /\ rebase0[g] = Based(g, Kept(g, d))
  /\ fed[g] = OnPad(g, d) \/ (closed[g] /\ Begins(fed[g], OnPad(g, d)))

\* push_frame gives a pad, unless it is closed, what follows what it has been given.
LEMMA PushPad ==
  ASSUME TypeInv, NEW G, NEW ending, PushFrames(G, ending), NEW g \in DOMAIN job.gins, Given(G, g) \in Seq(Nat),
         NEW d \in Seq(Nat), PadHas(g, d)
  PROVE  /\ rebase0'[g] = Based(g, Kept(g, d \o Given(G, g)))
         /\ closed[g] => closed'[g] /\ fed'[g] = fed[g]
         /\ g \in ending => closed'[g]
         /\ fed'[g] \in Seq(Int) /\ Begins(fed[g], fed'[g])
         /\ \/ ~closed[g] /\ fed'[g] = OnPad(g, d \o Given(G, g))
            \/ (closed[g] \/ Refuses(g)) /\ closed'[g] /\ Begins(fed'[g], OnPad(g, d \o Given(G, g)))
         /\ closed'[g] => closed[g] \/ g \in ending \/ Refuses(g)
<1> DEFINE f    == job.inputs[job.gins[g].in]
           kept == IF g \in DOMAIN G THEN Kept(g, G[g]) ELSE <<>>
           base == IF rebase0[g] # None \/ f.seek = None \/ kept = <<>> THEN rebase0[g]
                   ELSE IF f.accurate THEN f.seek ELSE kept[1]
           shut == closed[g] \/ (kept # <<>> /\ Refuses(g))
           move == IF f.seek = None THEN 0 ELSE -base
<1>1. /\ rebase0'[g] = base /\ closed'[g] = (shut \/ g \in ending)
      /\ fed'[g] = IF shut THEN fed[g] ELSE fed[g] \o Shifted(kept, move)
  BY DEF PushFrames, TypeInv, TypeOK
<1>2. PICK x : x = Given(G, g)
  OBVIOUS
<1>3. JobOK /\ x \in Seq(Nat) /\ d \o x \in Seq(Nat)
  BY <1>2, TypeFacts
<1>4. PICK p, q : p = Kept(g, d) /\ q = Kept(g, x)
  OBVIOUS
<1>5. p \in Seq(Nat) /\ q \in Seq(Nat) /\ Kept(g, d \o x) = p \o q /\ p \o q \in Seq(Nat)
  <2>1. p \in Seq(Nat) /\ q \in Seq(Nat)
    BY <1>3, <1>4, KeptType
  <2>2. Kept(g, d \o x) = Kept(g, d) \o Kept(g, x)
    BY <1>3, KeptConcat
  <2> QED BY <1>4, <2>1, <2>2
<1>6. kept = q
  BY <1>2, <1>4, KeptEmpty DEF Given
<1>7. f = FileOf(g) /\ f.seek \in Nat \cup {None}
  BY <1>3, FileFacts DEF FileOf, Input
<1>8. rebase0[g] = Based(g, p)
  BY <1>4 DEF PadHas
<1>9. q # <<>> => q[1] \in Nat
  BY <1>5
<1>10. base = IF rebase0[g] # None \/ f.seek = None \/ q = <<>> THEN rebase0[g]
              ELSE IF f.accurate THEN f.seek ELSE q[1]
  BY <1>6
<1>11. shut <=> closed[g] \/ (q # <<>> /\ Refuses(g))
  BY <1>6
<1>12. fed'[g] = IF shut THEN fed[g] ELSE fed[g] \o Shifted(q, move)
  BY <1>1, <1>6
<1> HIDE DEF kept
<1>13. base = Based(g, p \o q)
  <2>1. CASE p # <<>>
    <3>1. Based(g, p \o q) = Based(g, p)
      BY <1>3, <1>5, <2>1, ZeroStays
    <3>2. f.seek # None => rebase0[g] # None
      <4>1. Zero(g, p) \in Nat
        BY <1>3, <1>5, ZeroType
      <4> QED BY <1>7, <1>8, <2>1, <4>1 DEF Based, None
    <3>3. base = rebase0[g]
      BY <1>10, <3>2
    <3> QED BY <1>8, <3>1, <3>3
  <2>2. CASE p = <<>>
    <3>1. Based(g, p \o q) = Based(g, q)
      BY <1>3, <1>5, <2>2, ZeroStays
    <3>2. rebase0[g] = None
      BY <1>8, <2>2 DEF Based
    <3>3. base = IF f.seek = None \/ q = <<>> THEN None ELSE IF f.accurate THEN f.seek ELSE q[1]
      BY <1>10, <3>2
    <3> QED BY <1>7, <3>1, <3>3 DEF Based, Zero
  <2> QED BY <2>1, <2>2
<1>14. PICK z : z = -Zero(g, p \o q)
  OBVIOUS
<1>15. z \in Int
  <2>1. PICK w : w = p \o q
    OBVIOUS
  <2>2. -Zero(g, w) \in Int
    BY <1>3, <1>5, <2>1, ZeroType
  <2> QED BY <1>14, <2>1, <2>2
<1>16. Shifted(q, move) = Shifted(q, z)
  <2>1. CASE q = <<>>
    BY <2>1, ShiftedEmpty
  <2>2. CASE q # <<>>
    <3>1. p \o q # <<>>
      BY <1>5, <2>2
    <3>2. f.seek # None => base = Zero(g, p \o q)
      BY <1>7, <1>13, <3>1 DEF Based
    <3>3. f.seek = None => Zero(g, p \o q) = 0
      BY <1>7 DEF Zero
    <3>4. move = z
      BY <1>14, <3>2, <3>3
    <3> QED BY <3>4
  <2> QED BY <2>1, <2>2
<1>17. OnPad(g, d \o x) = OnPad(g, d) \o Shifted(q, z)
  <2>1. OnPad(g, d \o x) = OnPad(g, d) \o Shifted(Kept(g, x), -Zero(g, Kept(g, d \o x)))
    BY <1>3, OnPadMore
  <2> QED BY <1>4, <1>5, <1>14, <2>1
<1>18. Begins(OnPad(g, d), OnPad(g, d \o x))
  BY <1>3, OnPadBegins
<1>19. PICK u, v, w, h : u = OnPad(g, d) /\ v = OnPad(g, d \o x) /\ w = Shifted(q, z) /\ h = fed[g]
  OBVIOUS
<1>20. u \in Seq(Int) /\ v \in Seq(Int) /\ w \in Seq(Int) /\ h \in Seq(Int)
  <2>1. q \in Seq(Int)
    BY <1>5
  <2>2. w \in Seq(Int)
    BY <1>15, <1>19, <2>1, ShiftedType
  <2>3. PICK c : c = d \o x
    OBVIOUS
  <2>4. OnPad(g, d) \in Seq(Int) /\ OnPad(g, c) \in Seq(Int)
    BY <1>3, <2>3, OnPadType
  <2> QED BY <1>19, <2>2, <2>3, <2>4 DEF TypeInv, TypeOK
<1>21. v = u \o w /\ Begins(u, v) /\ (h = u \/ (closed[g] /\ Begins(h, u)))
  BY <1>17, <1>18, <1>19 DEF PadHas
<1>22. fed'[g] = IF shut THEN h ELSE h \o w
  BY <1>12, <1>16, <1>19
<1>23. Begins(h, h) /\ Begins(h, h \o w) /\ h \o w \in Seq(Int)
  BY <1>20, BeginsJoin
<1>24. Begins(h, v)
  <2>1. CASE h = u
    BY <1>21, <2>1
  <2>2. CASE Begins(h, u)
    BY <1>20, <1>21, <2>2, BeginsTrans
  <2> QED BY <1>21, <2>1, <2>2
<1>25. ~shut => h = u /\ ~closed[g]
  BY <1>11, <1>21
<1>26. closed'[g] = (shut \/ g \in ending)
  BY <1>1
<1> HIDE DEF shut, base, move
<1>27. rebase0'[g] = Based(g, Kept(g, d \o x))
  BY <1>1, <1>5, <1>13
<1>28. closed[g] => closed'[g] /\ fed'[g] = h
  BY <1>11, <1>22, <1>26
<1>29. fed'[g] \in Seq(Int) /\ Begins(h, fed'[g])
  BY <1>20, <1>22, <1>23
<1>30. \/ ~closed[g] /\ fed'[g] = v
       \/ (closed[g] \/ Refuses(g)) /\ closed'[g] /\ Begins(fed'[g], v)
  <2>1. CASE shut
    BY <1>11, <1>22, <1>24, <1>26, <2>1
  <2>2. CASE ~shut
    BY <1>21, <1>22, <1>25, <2>2
  <2> QED BY <2>1, <2>2
<1>31. closed'[g] => closed[g] \/ g \in ending \/ Refuses(g)
  BY <1>11, <1>26
<1> QED BY <1>2, <1>19, <1>26, <1>27, <1>28, <1>29, <1>30, <1>31

\* All of this is about the job alone.
LEMMA SameFrames ==
  ASSUME UNCHANGED job
  PROVE  /\ \A g : FileOf(g)' = FileOf(g) /\ WholePad(g)' = WholePad(g)
         /\ \A g, ts : /\ Kept(g, ts)' = Kept(g, ts) /\ Zero(g, ts)' = Zero(g, ts)
                       /\ Based(g, ts)' = Based(g, ts) /\ OnPad(g, ts)' = OnPad(g, ts)
         /\ \A s, n : Src(s, n)' = Src(s, n)
         /\ \A s : LastOf(s)' = LastOf(s) /\ (Single(s)' <=> Single(s)) /\ WholeRaw(s)' = WholeRaw(s)
         /\ \A s, t : Pace(s, t)' = Pace(s, t) /\ (Past(s, t)' <=> Past(s, t))
         /\ \A s, v, n : (HasIn(s, v, n)' <=> HasIn(s, v, n)) /\ FrameIn(s, v, n)' = FrameIn(s, v, n)
         /\ \A s, ts : EncOut(s, ts)' = EncOut(s, ts)
<1>1. \A g : FileOf(g)' = FileOf(g)
  BY DEF FileOf, Input
<1>2. \A g, ts : Kept(g, ts)' = Kept(g, ts)
  BY DEF Kept
<1>3. \A g, ts : Zero(g, ts)' = Zero(g, ts) /\ Based(g, ts)' = Based(g, ts)
  BY DEF Zero, Based, FileOf, Input
<1>4. \A g, ts : OnPad(g, ts)' = OnPad(g, ts)
  BY DEF OnPad, Zero, Kept, FileOf, Input
<1>5. \A g : WholePad(g)' = WholePad(g)
  BY DEF WholePad, Times, Final, TimesOf, PacketOf, Kept, Input
<1>6. \A s, n : Src(s, n)' = Src(s, n)
  BY DEF Src
<1>7. \A s : LastOf(s)' = LastOf(s) /\ (Single(s)' <=> Single(s))
  BY DEF LastOf, Single
<1>8. \A s : WholeRaw(s)' = WholeRaw(s)
  BY DEF WholeRaw, Single, Src, WholePad, Times, Final, TimesOf, PacketOf, Kept, Input
<1>9. \A s, t : Pace(s, t)' = Pace(s, t) /\ (Past(s, t)' <=> Past(s, t))
  BY DEF Pace, Past, Offset, out_cutoff, job_seek_offset
<1>10. \A s, v, n : (HasIn(s, v, n)' <=> HasIn(s, v, n)) /\ FrameIn(s, v, n)' = FrameIn(s, v, n)
  BY DEF HasIn, FrameIn, Pace
<1>11. \A s, ts : EncOut(s, ts)' = EncOut(s, ts)
  BY DEF EncOut, Offset, out_cutoff, job_seek_offset
<1> QED BY <1>1, <1>2, <1>3, <1>4, <1>5, <1>6, <1>7, <1>8, <1>9, <1>10, <1>11

\* All that q has more than p is in S.
Adds(S, p, q) == \E r \in Seq(S) : q = p \o r

\* A sequence over a set is one over a larger set.
LEMMA WiderSeq ==
  ASSUME NEW S, NEW T, S \subseteq T, NEW r \in Seq(S)
  PROVE  r \in Seq(T)
OBVIOUS

\* What is read of an input adds to what was read of it.
LEMMA TimesRest ==
  ASSUME JobOK, NEW i \in DOMAIN job.inputs, NEW a \in Nat, NEW b \in Nat, a <= b, Valid(i, b), NEW st,
         NEW S, S \subseteq Nat, \A m \in (a + 1)..b : PacketOf(i, m).t \in S
  PROVE  Adds(S, TimesOf(i, st, a), TimesOf(i, st, b))
<1> DEFINE Q == {n \in Nat : a + n <= b => Adds(S, TimesOf(i, st, a), TimesOf(i, st, a + n))}
<1>0. TimesOf(i, st, a) \in Seq(Nat)
  <2>1. Len(Input(i).pkts) \in Nat
    BY InputFacts
  <2>2. Valid(i, a)
    BY <2>1 DEF Valid
  <2> QED BY <2>2, TimesOfType
<1>1. 0 \in Q
  <2>1. a + 0 = a
    OBVIOUS
  <2>2. PICK u : u = TimesOf(i, st, a)
    OBVIOUS
  <2>3. u \o <<>> = u /\ <<>> \in Seq(S)
    BY <1>0, <2>2
  <2>4. Adds(S, u, u)
    BY <2>3 DEF Adds
  <2> QED BY <2>1, <2>2, <2>4
<1>2. ASSUME NEW n \in Nat, n \in Q PROVE n + 1 \in Q
  <2>1. SUFFICES ASSUME a + (n + 1) <= b
                 PROVE  Adds(S, TimesOf(i, st, a), TimesOf(i, st, a + (n + 1)))
    OBVIOUS
  <2>2. PICK m \in Nat : m = a + n
    OBVIOUS
  <2>3. m + 1 = a + (n + 1) /\ m + 1 \in (a + 1)..b /\ a + n <= b
    BY <2>1, <2>2
  <2>4. PICK r \in Seq(S) : TimesOf(i, st, m) = TimesOf(i, st, a) \o r
    BY <1>2, <2>2, <2>3 DEF Adds
  <2>5. Valid(i, m + 1)
    <3>1. Len(Input(i).pkts) \in Nat
      BY InputFacts
    <3> QED BY <2>3, <3>1 DEF Valid
  <2>6. PICK t, u, v : t = PacketOf(i, m + 1).t /\ u = TimesOf(i, st, a) /\ v = TimesOf(i, st, m)
    OBVIOUS
  <2>7. t \in S
    BY <2>3, <2>6
  <2>8. TimesOf(i, st, m + 1) \in {v, v \o <<t>>}
    BY <2>5, <2>6, TimesOfNext
  <2>9. r \o <<t>> \in Seq(S) /\ (u \o r) \o <<t>> = u \o (r \o <<t>>)
    <3>1. r \in Seq(Nat) /\ t \in Nat
      BY <2>7, WiderSeq
    <3>2. r \in Seq(Int) /\ <<t>> \in Seq(Int) /\ u \in Seq(Int)
      BY <1>0, <2>6, <3>1
    <3>3. (u \o r) \o <<t>> = u \o (r \o <<t>>)
      BY <3>2, JoinAssoc
    <3>4. r \o <<t>> \in Seq(S)
      BY <2>7
    <3> QED BY <3>3, <3>4
  <2>10. v = u \o r
    BY <2>4, <2>6
  <2>11. CASE TimesOf(i, st, m + 1) = v
    BY <2>3, <2>4, <2>6, <2>10, <2>11 DEF Adds
  <2>12. CASE TimesOf(i, st, m + 1) = v \o <<t>>
    <3>1. TimesOf(i, st, m + 1) = u \o (r \o <<t>>)
      BY <2>9, <2>10, <2>12
    <3> QED BY <2>3, <2>6, <2>9, <3>1 DEF Adds
  <2> QED BY <2>8, <2>11, <2>12
<1>3. PICK d \in Nat : a + d = b
  <2>1. b - a \in Nat /\ a + (b - a) = b
    OBVIOUS
  <2> QED BY <2>1
<1> HIDE DEF Q
<1>4. d \in Q
  BY <1>1, <1>2, SetInduction
<1>5. b <= b
  OBVIOUS
<1> QED BY <1>3, <1>4, <1>5 DEF Q

\* Each pad has been given what its decoder has let go of the packets read so far.
PadAs(g, d) ==
  /\ TimesOf(job.gins[g].in, job.gins[g].st, next[job.gins[g].in]) = d \o dec[g]
  /\ PadHas(g, d)

\* Every pad is in that state.
PadInv == \A g \in DOMAIN job.gins : \E d \in Seq(Nat) : PadAs(g, d)

\* What a pad has taken begins what it should be given: no frame is lost or out of place on
\* the way, and only a pad that closed may miss some.
LEMMA PadTaken ==
  ASSUME TypeInv, HandInv, PadInv, NEW g \in DOMAIN job.gins
  PROVE  WholePad(g) \in Seq(Int) /\ fed[g] \in Seq(Int) /\ Begins(fed[g], WholePad(g))
<1>1. PICK i, st : i = job.gins[g].in /\ st = job.gins[g].st
  OBVIOUS
<1>2. JobOK /\ i \in DOMAIN job.inputs /\ next[i] \in Nat /\ Final(i) \in Nat /\ next[i] <= Final(i) /\ Valid(i, Final(i))
  <2>1. JobOK /\ i \in DOMAIN job.inputs
    BY <1>1, TypeFacts, PadFacts
  <2>2. Len(Input(i).pkts) \in Nat /\ MaxReads \in Nat
    BY <2>1, InputFacts, ProcessAssumption DEF ProcessAssumption
  <2>3. Final(i) \in Nat /\ Valid(i, Final(i))
    BY <2>2 DEF Final, Valid
  <2> QED BY <2>1, <2>3 DEF HandInv, TypeInv, TypeOK
<1>3. PICK d \in Seq(Nat) : PadAs(g, d)
  BY DEF PadInv
<1>4. PICK r \in Seq(Nat) : TimesOf(i, st, Final(i)) = TimesOf(i, st, next[i]) \o r
  <2>1. \A m \in (next[i] + 1)..Final(i) : PacketOf(i, m).t \in Nat
    <3> SUFFICES ASSUME NEW m \in (next[i] + 1)..Final(i) PROVE PacketOf(i, m).t \in Nat
      OBVIOUS
    <3>1. m \in Nat \ {0} /\ m <= Final(i)
      BY <1>2
    <3>2. m <= Len(Input(i).pkts) \/ Input(i).end = "endless"
      BY <3>1 DEF Final
    <3>3. PacketOf(i, m) \in PktType
      BY <1>2, <3>1, <3>2, PacketType
    <3> QED BY <3>3 DEF PktType
  <2>2. PICK n, S : n = next[i] /\ S = Nat
    OBVIOUS
  <2>3. \A m \in (n + 1)..Final(i) : PacketOf(i, m).t \in S
    BY <2>1, <2>2
  <2>4. n \in Nat /\ n <= Final(i) /\ S \subseteq Nat
    BY <1>2, <2>2
  <2>5. Adds(S, TimesOf(i, st, n), TimesOf(i, st, Final(i)))
    BY <1>2, <2>3, <2>4, TimesRest
  <2> QED BY <2>2, <2>5 DEF Adds
<1>5. PICK h, y, f : h = dec[g] /\ y = h \o r /\ f = fed[g]
  OBVIOUS
<1>6. h \in Seq(Nat) /\ y \in Seq(Nat) /\ f \in Seq(Int)
  <2>1. h \in Seq(Nat)
    BY <1>5 DEF TypeInv, TypeOK
  <2>2. f \in Seq(Int)
    BY <1>5 DEF TypeInv, TypeOK
  <2> QED BY <1>5, <2>1, <2>2
<1>7. TimesOf(i, st, Final(i)) = d \o y
  <2>1. TimesOf(i, st, next[i]) = d \o h
    BY <1>1, <1>3, <1>5 DEF PadAs
  <2>2. (d \o h) \o r = d \o (h \o r)
    BY <1>6
  <2> QED BY <1>4, <1>5, <2>1, <2>2
<1>8. PICK w, z : w = WholePad(g) /\ z = OnPad(g, d)
  OBVIOUS
<1>9. w = OnPad(g, d \o y) /\ Begins(z, w)
  BY <1>1, <1>2, <1>6, <1>7, <1>8, WholePadIs, OnPadBegins DEF Times
<1>10. w \in Seq(Int) /\ z \in Seq(Int)
  <2>1. PICK x : x = d \o y
    OBVIOUS
  <2>2. x \in Seq(Nat)
    BY <1>6, <2>1
  <2> QED BY <1>2, <1>8, <1>9, <2>1, <2>2, OnPadType
<1>11. f = z \/ Begins(f, z)
  BY <1>3, <1>5, <1>8 DEF PadAs, PadHas
<1>12. Begins(f, w)
  BY <1>6, <1>9, <1>10, <1>11, BeginsTrans
<1> QED BY <1>5, <1>6, <1>8, <1>10, <1>12

\* Nothing is read and nothing is given.
LEMMA PadInvInit == ASSUME TypeInv, Init PROVE PadInv
<1> SUFFICES ASSUME NEW g \in DOMAIN job.gins PROVE \E d \in Seq(Nat) : PadAs(g, d)
  BY DEF PadInv
<1>1. PICK i, st : i = job.gins[g].in /\ st = job.gins[g].st
  OBVIOUS
<1>2. JobOK /\ i \in DOMAIN job.inputs
  BY <1>1, TypeFacts, PadFacts
<1>3. dec[g] = <<>> /\ fed[g] = <<>> /\ rebase0[g] = None /\ next[i] = 0
  BY <1>2 DEF Init
<1>4. TimesOf(i, st, 0) = <<>>
  <2>1. [m \in 1..0 |-> PacketOf(i, m)] = <<>>
    OBVIOUS
  <2> QED BY <2>1, OnlyEmpty, TimesInEmpty DEF TimesOf
<1>5. <<>> \in Seq(Nat) /\ <<>> \o <<>> = <<>>
  OBVIOUS
<1>6. Kept(g, <<>>) = <<>>
  BY KeptEmpty
<1>7. OnPad(g, <<>>) = <<>> /\ Based(g, <<>>) = None
  BY <1>6, ShiftedEmpty DEF OnPad, Based
<1>8. PadHas(g, <<>>)
  BY <1>3, <1>6, <1>7 DEF PadHas
<1>9. PadAs(g, <<>>)
  BY <1>1, <1>3, <1>4, <1>5, <1>8 DEF PadAs
<1> QED BY <1>5, <1>9

\* A push that gives a pad what its decoder lets go of when y more is read.
LEMMA PadPush ==
  ASSUME TypeInv, PadInv, NEW G, NEW ending, PushFrames(G, ending), UNCHANGED job, NEW g \in DOMAIN job.gins,
         Given(G, g) \in Seq(Nat), NEW h \in Seq(Nat), h = dec'[g], NEW y \in Seq(Nat),
         Given(G, g) \o h = dec[g] \o y,
         TimesOf(job.gins[g].in, job.gins[g].st, next'[job.gins[g].in]) =
           TimesOf(job.gins[g].in, job.gins[g].st, next[job.gins[g].in]) \o y
  PROVE  \E d \in Seq(Nat) : PadAs(g, d)'
<1>1. PICK i, st : i = job.gins[g].in /\ st = job.gins[g].st
  OBVIOUS
<1>2. PICK d \in Seq(Nat) : PadAs(g, d)
  BY DEF PadInv
<1>3. PICK x, c, n : x = Given(G, g) /\ c = dec[g] /\ n = next'[i]
  OBVIOUS
<1>4. x \in Seq(Nat) /\ c \in Seq(Nat)
  <2>1. c \in Seq(Nat)
    BY <1>3 DEF TypeInv, TypeOK
  <2> QED BY <1>3, <2>1
<1>5. TimesOf(i, st, n) = (d \o c) \o y
  BY <1>1, <1>2, <1>3 DEF PadAs
<1>6. (d \o c) \o y = (d \o x) \o h
  <2>1. x \o h = c \o y
    BY <1>3
  <2>2. (d \o c) \o y = d \o (c \o y) /\ (d \o x) \o h = d \o (x \o h)
    <3>1. c \in Seq(Int) /\ d \in Seq(Int) /\ x \in Seq(Int) /\ y \in Seq(Int) /\ h \in Seq(Int)
      BY <1>4
    <3> QED BY <3>1, JoinAssoc
  <2> QED BY <2>1, <2>2
<1>7. PICK e : e = d \o x
  OBVIOUS
<1>8. e \in Seq(Nat) /\ TimesOf(i, st, n) = e \o h
  BY <1>4, <1>5, <1>6, <1>7
<1>9. PadHas(g, d)
  BY <1>2 DEF PadAs
<1>10. /\ rebase0'[g] = Based(g, Kept(g, d \o x))
       /\ fed'[g] = OnPad(g, d \o x) \/ (closed'[g] /\ Begins(fed'[g], OnPad(g, d \o x)))
  BY <1>3, <1>9, PushPad
<1>11. PadHas(g, e)'
  BY <1>7, <1>10, SameFrames DEF PadHas
<1>12. PadAs(g, e)'
  <2>1. TimesOf(i, st, n)' = TimesOf(i, st, n)
    BY SameLanes
  <2>2. job.gins[g].in' = i /\ job.gins[g].st' = st
    BY <1>1
  <2> QED BY <1>3, <1>8, <1>11, <2>1, <2>2 DEF PadAs
<1> QED BY <1>8, <1>12

\* What a step may do to a pad: give it more, unless it is closed.
PadGrows(g) ==
  /\ fed'[g] \in Seq(Int) /\ Begins(fed[g], fed'[g])
  /\ closed[g] => closed'[g] /\ fed'[g] = fed[g]

\* A decoder gives its pad what it lets go of when y more is read.
HandsOn(G, g) ==
  /\ Given(G, g) \in Seq(Nat)
  /\ \E h \in Seq(Nat), y \in Seq(Nat) :
       /\ h = dec'[g] /\ Given(G, g) \o h = dec[g] \o y
       /\ TimesOf(job.gins[g].in, job.gins[g].st, next'[job.gins[g].in]) =
            TimesOf(job.gins[g].in, job.gins[g].st, next[job.gins[g].in]) \o y

\* What a read gives each pad.
LEMMA ReadGives ==
  ASSUME TypeInv, HandInv, Read
  PROVE  /\ UNCHANGED <<job, eof>> /\ pc = "read" /\ ~eof[in]
         /\ \E G : /\ PushFrames(G, {})
                   /\ \A g \in DOMAIN job.gins : HandsOn(G, g)
<1> DEFINE mine == {g \in DOMAIN job.gins : job.gins[g] = [in |-> in, st |-> pkt'.st]}
           G == [g \in mine |-> Through(dec[g], pkt'.t)[1]]
<1>1. /\ UNCHANGED <<job, eof, in>> /\ pc = "read" /\ ~eof[in] /\ More(in)
      /\ next' = [next EXCEPT ![in] = @ + 1] /\ pkt' = Coming(in) /\ PushFrames(G, {})
      /\ dec' = [g \in DOMAIN dec |-> IF g \in mine THEN Through(dec[g], pkt'.t)[2] ELSE dec[g]]
  BY DEF Read
<1>2. JobOK /\ in \in DOMAIN job.inputs /\ next \in [DOMAIN job.inputs -> Nat] /\ DOMAIN dec = DOMAIN job.gins
  BY TypeFacts DEF TypeInv, TypeOK
<1>3. next'[in] = next[in] + 1 /\ next[in] \in Nat /\ \A i \in DOMAIN job.inputs : i # in => next'[i] = next[i]
  BY <1>1, <1>2
<1>4. Valid(in, next[in] + 1)
  <2>1. Len(Input(in).pkts) \in Nat
    BY <1>2, InputFacts
  <2> QED BY <1>1, <1>3, <2>1 DEF More, Valid
<1>5. PICK x : x = pkt'
  OBVIOUS
<1>6. x = PacketOf(in, next[in] + 1) /\ x \in PktType
  <2>1. x = PacketOf(in, next[in] + 1)
    BY <1>1, <1>5 DEF Coming
  <2> QED BY <1>2, <1>3, <1>4, <2>1, PacketType DEF Valid
<1>7. x.t \in Nat
  BY <1>6 DEF PktType
<1>8. ASSUME NEW g \in DOMAIN job.gins
      PROVE  HandsOn(G, g)
  <2>1. PICK i, st, c : i = job.gins[g].in /\ st = job.gins[g].st /\ c = dec[g]
    OBVIOUS
  <2>2. i \in DOMAIN job.inputs /\ c \in Seq(Nat) /\ Len(c) <= Lag /\ next[i] \in Nat
    <3>1. c \in Seq(Nat) /\ Len(c) <= Lag
      BY <2>1 DEF TypeInv, TypeOK
    <3> QED BY <1>2, <2>1, <3>1, PadFacts
  <2>3. g \in mine <=> i = in /\ st = x.st
    <3>1. job.gins[g] = [in |-> i, st |-> st]
      <4>1. job.gins[g] \in PadType
        BY <1>2, JobFacts
      <4> QED BY <2>1, <4>1 DEF PadType
    <3> QED BY <1>5, <3>1
  <2>4. TimesOf(i, st, next[i]) \in Seq(Nat)
    BY <1>2, <2>2, ReadValid, TimesOfType
  <2>5. PICK u : u = TimesOf(i, st, next[i])
    OBVIOUS
  <2>6. CASE g \in mine
    <3>1. Given(G, g) = Through(c, x.t)[1] /\ dec'[g] = Through(c, x.t)[2]
      BY <1>1, <1>2, <1>5, <2>1, <2>6 DEF Given
    <3>2. PICK a, h, y : a = Through(c, x.t)[1] /\ h = Through(c, x.t)[2] /\ y = <<x.t>>
      OBVIOUS
    <3>3. a \in Seq(Nat) /\ h \in Seq(Nat) /\ y \in Seq(Nat)
      <4>1. a \in Seq(Nat) /\ h \in Seq(Nat)
        BY <1>7, <2>2, <3>2, ThroughType, ProcessAssumption
      <4> QED BY <1>7, <3>2, <4>1
    <3>4. a \o h = c \o y
      <4>1. \/ a = c /\ h = y
            \/ c = <<>> /\ a = y /\ h = <<>>
        BY <2>2, <3>2, ThroughJoins, ProcessAssumption
      <4>2. y \o <<>> = y /\ <<>> \o y = y
        BY <3>3
      <4> QED BY <4>1, <4>2
    <3>5. TimesOf(i, st, next[i] + 1) = u \o y
      <4>1. PICK n : n = next[i]
        OBVIOUS
      <4>2. n \in Nat /\ Valid(i, n + 1) /\ PacketOf(i, n + 1) = x /\ x.st = st /\ u = TimesOf(i, st, n)
        BY <1>4, <1>6, <2>2, <2>3, <2>5, <2>6, <4>1
      <4>3. TimesOf(i, st, n + 1) = IF PacketOf(i, n + 1).st = st
                                    THEN TimesOf(i, st, n) \o <<PacketOf(i, n + 1).t>>
                                    ELSE TimesOf(i, st, n)
        BY <1>2, <2>2, <4>2, TimesOfNext
      <4> QED BY <3>2, <4>1, <4>2, <4>3
    <3>6. next'[i] = next[i] + 1
      BY <1>3, <2>3, <2>6
    <3> HIDE DEF mine, G
    <3> QED BY <2>1, <2>5, <3>1, <3>2, <3>3, <3>4, <3>5, <3>6 DEF HandsOn
  <2>7. CASE g \notin mine
    <3>1. Given(G, g) = <<>> /\ dec'[g] = c
      BY <1>1, <1>2, <2>1, <2>7 DEF Given
    <3>2. <<>> \in Seq(Nat) /\ <<>> \o c = c /\ c \o <<>> = c /\ u \o <<>> = u
      BY <2>2, <2>4, <2>5
    <3>3. TimesOf(i, st, next'[i]) = u
      <4>1. CASE i = in
        <5>1. TimesOf(i, st, next[i] + 1) = u
          BY <1>2, <1>4, <1>6, <2>2, <2>3, <2>5, <2>7, <4>1, TimesOfNext
        <5> QED BY <1>3, <4>1, <5>1
      <4>2. CASE i # in
        BY <1>3, <2>2, <2>5, <4>2
      <4> QED BY <4>1, <4>2
    <3> HIDE DEF mine, G
    <3> QED BY <2>1, <2>2, <2>5, <3>1, <3>2, <3>3 DEF HandsOn
  <2> QED BY <2>6, <2>7
<1> HIDE DEF mine, G
<1> QED BY <1>1, <1>8

\* What the end of an input gives each pad.
LEMMA StopGives ==
  ASSUME TypeInv, StopInput
  PROVE  /\ UNCHANGED <<job, next>> /\ pc = "read" /\ ~eof[in] /\ eof' = [eof EXCEPT ![in] = TRUE]
         /\ \E G, ending :
              /\ PushFrames(G, ending)
              /\ ending = {g \in DOMAIN job.gins : job.gins[g].in = in}
              /\ \A g \in DOMAIN job.gins :
                   /\ Given(G, g) \in Seq(Nat)
                   /\ dec'[g] \in Seq(Nat) /\ Given(G, g) \o dec'[g] = dec[g]
                   /\ g \in ending => Given(G, g) = dec[g]
<1> DEFINE mine == {g \in DOMAIN job.gins : job.gins[g].in = in}
           G == [g \in mine |-> dec[g]]
<1>1. /\ UNCHANGED <<job, next>> /\ pc = "read" /\ ~eof[in] /\ eof' = [eof EXCEPT ![in] = TRUE]
      /\ PushFrames(G, mine) /\ dec' = [g \in DOMAIN dec |-> IF g \in mine THEN <<>> ELSE dec[g]]
  BY DEF StopInput, EndInput
<1>2. ASSUME NEW g \in DOMAIN job.gins
      PROVE  /\ Given(G, g) \in Seq(Nat) /\ dec'[g] \in Seq(Nat) /\ Given(G, g) \o dec'[g] = dec[g]
             /\ g \in mine => Given(G, g) = dec[g]
  <2>1. PICK c : c = dec[g]
    OBVIOUS
  <2>2. c \in Seq(Nat) /\ DOMAIN dec = DOMAIN job.gins
    BY <2>1 DEF TypeInv, TypeOK
  <2>3. <<>> \in Seq(Nat) /\ <<>> \o c = c /\ c \o <<>> = c
    BY <2>2
  <2>4. CASE g \in mine
    <3>1. Given(G, g) = c /\ dec'[g] = <<>>
      BY <1>1, <2>1, <2>2, <2>4 DEF Given
    <3> HIDE DEF mine, G
    <3> QED BY <2>1, <2>2, <2>3, <3>1
  <2>5. CASE g \notin mine
    <3>1. Given(G, g) = <<>> /\ dec'[g] = c
      BY <1>1, <2>1, <2>2, <2>5 DEF Given
    <3> HIDE DEF mine, G
    <3> QED BY <2>1, <2>2, <2>3, <2>5, <3>1
  <2> QED BY <2>4, <2>5
<1>3. mine = {g \in DOMAIN job.gins : job.gins[g].in = in}
  OBVIOUS
<1> HIDE DEF mine, G
<1> QED BY <1>1, <1>2, <1>3

\* A read and the end of an input give the pads what they should; nothing else does.
LEMMA PadInvNext == ASSUME TypeInv, HandInv, PadInv, [Next]_vars PROVE PadInv'
<1>1. CASE Read
  <2>1. PICK G : /\ PushFrames(G, {})
                 /\ \A g \in DOMAIN job.gins : HandsOn(G, g)
    BY <1>1, ReadGives
  <2>2. UNCHANGED job
    BY <1>1 DEF Read
  <2>3. \A g \in DOMAIN job.gins : \E d \in Seq(Nat) : PadAs(g, d)'
    BY <2>1, <2>2, PadPush DEF HandsOn
  <2> QED BY <2>2, <2>3 DEF PadInv
<1>2. CASE StopInput
  <2>1. PICK G, ending : /\ PushFrames(G, ending)
                         /\ \A g \in DOMAIN job.gins :
                              /\ Given(G, g) \in Seq(Nat)
                              /\ dec'[g] \in Seq(Nat) /\ Given(G, g) \o dec'[g] = dec[g]
    BY <1>2, StopGives
  <2>2. UNCHANGED <<job, next>>
    BY <1>2 DEF StopInput, EndInput
  <2>3. ASSUME NEW g \in DOMAIN job.gins PROVE \E d \in Seq(Nat) : PadAs(g, d)'
    <3>1. PICK i, st, h, y, c, u : /\ i = job.gins[g].in /\ st = job.gins[g].st /\ h = dec'[g] /\ y = <<>>
                                   /\ c = dec[g] /\ u = TimesOf(i, st, next[i])
      OBVIOUS
    <3>2. h \in Seq(Nat) /\ y \in Seq(Nat) /\ c \o y = c /\ u \o y = u
      <4>1. c \in Seq(Nat) /\ i \in DOMAIN job.inputs
        BY <3>1, TypeFacts, PadFacts DEF TypeInv, TypeOK
      <4>2. u \in Seq(Nat)
        BY <3>1, <4>1, TypeFacts, ReadValid, TimesOfType
      <4> QED BY <2>1, <3>1, <4>1, <4>2
    <3>3. Given(G, g) \o h = c \o y
      BY <2>1, <3>1, <3>2
    <3>4. TimesOf(i, st, next'[i]) = u \o y
      BY <2>2, <3>1, <3>2
    <3> QED BY <2>1, <2>2, <3>1, <3>2, <3>3, <3>4, PadPush
  <2> QED BY <2>2, <2>3 DEF PadInv
<1>3. CASE ~Read /\ ~StopInput
  <2>1. UNCHANGED <<job, next, padVars>>
    BY <1>3 DEF Next, Work, Skip, ReadFails, FlushSub, Copy, Sub, Pull, PullStarts, PullDone, PullFrame,
       PullNothing, PullEnds, Drain, flush_copy_bsfs, WriteTrailer, CallFails, vars, inVars
  <2>2. ASSUME NEW g \in DOMAIN job.gins PROVE \E d \in Seq(Nat) : PadAs(g, d)'
    <3>1. PICK d \in Seq(Nat) : PadAs(g, d)
      BY DEF PadInv
    <3>2. PICK i, n : i = job.gins[g].in /\ n = next[i]
      OBVIOUS
    <3>3. TimesOf(i, job.gins[g].st, n)' = TimesOf(i, job.gins[g].st, n)
      BY <2>1, SameLanes
    <3>4. PadHas(g, d)'
      <4>1. PICK p : p = Kept(g, d)
        OBVIOUS
      <4>2. Kept(g, d)' = p /\ Based(g, p)' = Based(g, p) /\ OnPad(g, d)' = OnPad(g, d)
        BY <2>1, <4>1, SameFrames
      <4>3. PadHas(g, d)
        BY <3>1 DEF PadAs
      <4> QED BY <2>1, <4>1, <4>2, <4>3 DEF PadHas, padVars
    <3>5. PadAs(g, d)'
      BY <2>1, <3>1, <3>2, <3>3, <3>4 DEF PadAs, padVars
    <3> QED BY <3>5
  <2> QED BY <2>1, <2>2 DEF PadInv
<1> QED BY <1>1, <1>2, <1>3

\* And what becomes of the pads.
LEMMA PadsAfter ==
  ASSUME TypeInv, HandInv, PadInv, [Next]_vars, NEW g \in DOMAIN job.gins
  PROVE  /\ UNCHANGED job /\ PadGrows(g)
         /\ closed'[g] => \/ closed[g] \/ Refuses(g)
                          \/ StopInput /\ job.gins[g].in = in
         /\ StopInput /\ job.gins[g].in = in =>
              /\ closed'[g]
              /\ \/ closed[g] \/ Refuses(g)
                 \/ fed'[g] = OnPad(g, TimesOf(job.gins[g].in, job.gins[g].st, next[job.gins[g].in]))
<1>0. PICK d \in Seq(Nat) : PadAs(g, d)
  BY DEF PadInv
<1>01. PadHas(g, d)
  BY <1>0 DEF PadAs
<1>1. CASE Read
  <2>1. PICK G : PushFrames(G, {}) /\ Given(G, g) \in Seq(Nat)
    BY <1>1, ReadGives DEF HandsOn
  <2>2. UNCHANGED job /\ ~StopInput
    BY <1>1 DEF Read, StopInput
  <2> QED BY <1>01, <2>1, <2>2, PushPad DEF PadGrows
<1>2. CASE StopInput
  <2>1. PICK G, ending : /\ PushFrames(G, ending) /\ Given(G, g) \in Seq(Nat)
                         /\ ending = {x \in DOMAIN job.gins : job.gins[x].in = in}
                         /\ g \in ending => Given(G, g) = dec[g]
    BY <1>2, StopGives
  <2>2. UNCHANGED job
    BY <1>2 DEF StopInput, EndInput
  <2>3. g \in ending <=> job.gins[g].in = in
    BY <2>1
  <2>4. /\ fed'[g] \in Seq(Int) /\ Begins(fed[g], fed'[g])
        /\ closed[g] => closed'[g] /\ fed'[g] = fed[g]
        /\ g \in ending => closed'[g]
        /\ closed'[g] => closed[g] \/ g \in ending \/ Refuses(g)
        /\ closed[g] \/ Refuses(g) \/ fed'[g] = OnPad(g, d \o Given(G, g))
    BY <1>01, <2>1, PushPad
  <2>5. job.gins[g].in = in =>
          d \o Given(G, g) = TimesOf(job.gins[g].in, job.gins[g].st, next[job.gins[g].in])
    BY <1>0, <2>1, <2>3 DEF PadAs
  <2> QED BY <1>2, <2>2, <2>3, <2>4, <2>5 DEF PadGrows
<1>3. CASE ~Read /\ ~StopInput
  <2>1. UNCHANGED <<job, padVars>>
    BY <1>3 DEF Next, Work, Skip, ReadFails, FlushSub, Copy, Sub, Pull, PullStarts, PullDone, PullFrame,
       PullNothing, PullEnds, Drain, flush_copy_bsfs, WriteTrailer, CallFails, vars
  <2>2. PICK f : f = fed[g]
    OBVIOUS
  <2>3. f \in Seq(Int)
    BY <2>2 DEF TypeInv, TypeOK
  <2>4. Begins(f, f)
    BY <2>3 DEF Begins
  <2> QED BY <1>3, <2>1, <2>2, <2>3, <2>4 DEF PadGrows, padVars
<1> QED BY <1>1, <1>2, <1>3

\* Where the second source's clock starts.
JoinOff(a) == IF a = <<>> THEN 0 ELSE a[Len(a)] + 1

\* The frames of a join.
LEMMA JoinedAt ==
  ASSUME NEW a \in Seq(Int), NEW b \in Seq(Int)
  PROVE  /\ Joined(a, b) \in Seq(Int) /\ Len(Joined(a, b)) = Len(a) + Len(b) /\ JoinOff(a) \in Int
         /\ \A n \in 1..Len(a) : Joined(a, b)[n] = a[n]
         /\ \A n \in 1..Len(b) : Joined(a, b)[Len(a) + n] = b[n] + JoinOff(a)
<1>1. PICK j : j = JoinOff(a)
  OBVIOUS
<1>2. j \in Int
  BY <1>1 DEF JoinOff
<1>3. PICK c : c = [n \in DOMAIN b |-> b[n] + j]
  OBVIOUS
<1>4. c \in Seq(Int) /\ Len(c) = Len(b) /\ \A n \in 1..Len(b) : c[n] = b[n] + j
  <2>1. c = Shifted(b, j)
    BY <1>3 DEF Shifted
  <2>2. c \in Seq(Int) /\ Len(c) = Len(b)
    BY <1>2, <2>1, ShiftedType
  <2>3. DOMAIN b = 1..Len(b)
    OBVIOUS
  <2>4. \A n \in 1..Len(b) : c[n] = b[n] + j
    BY <1>3, <2>3
  <2> QED BY <2>2, <2>4
<1>5. Joined(a, b) = a \o c
  BY <1>1, <1>3 DEF Joined, JoinOff
<1>6. a \o c \in Seq(Int) /\ Len(a \o c) = Len(a) + Len(c)
  <2>1. c \in Seq(Int)
    BY <1>4
  <2> QED BY <2>1
<1>7. \A n \in 1..Len(a) : (a \o c)[n] = a[n]
  BY <1>4
<1>8. \A n \in 1..Len(c) : (a \o c)[Len(a) + n] = c[n]
  BY <1>4
<1> QED BY <1>1, <1>2, <1>4, <1>5, <1>6, <1>7, <1>8

\* A join begins with its first source, and grows with its second.
LEMMA JoinedBegins ==
  ASSUME NEW a \in Seq(Int), NEW b \in Seq(Int), NEW c \in Seq(Int), Begins(b, c)
  PROVE  Begins(a, Joined(a, b)) /\ Begins(Joined(a, b), Joined(a, c)) /\ Joined(a, <<>>) = a
<1>1. PICK p, q : p = Joined(a, b) /\ q = Joined(a, c)
  OBVIOUS
<1>2. /\ p \in Seq(Int) /\ Len(p) = Len(a) + Len(b) /\ JoinOff(a) \in Int
      /\ \A n \in 1..Len(a) : p[n] = a[n]
      /\ \A n \in 1..Len(b) : p[Len(a) + n] = b[n] + JoinOff(a)
  BY <1>1, JoinedAt
<1>3. /\ q \in Seq(Int) /\ Len(q) = Len(a) + Len(c)
      /\ \A n \in 1..Len(a) : q[n] = a[n]
      /\ \A n \in 1..Len(c) : q[Len(a) + n] = c[n] + JoinOff(a)
  BY <1>1, JoinedAt
<1>4. Len(a) \in Nat /\ Len(b) \in Nat /\ Len(c) \in Nat /\ Len(b) <= Len(c) /\ \A n \in 1..Len(b) : b[n] = c[n]
  BY DEF Begins
<1>5. Begins(a, p)
  BY <1>2, <1>4 DEF Begins
<1>6. ASSUME NEW n \in 1..Len(p) PROVE p[n] = q[n]
  <2>1. CASE n \in 1..Len(a)
    BY <1>2, <1>3, <2>1
  <2>2. CASE n \notin 1..Len(a)
    <3>1. PICK m \in 1..Len(b) : n = Len(a) + m
      <4>1. n - Len(a) \in 1..Len(b) /\ n = Len(a) + (n - Len(a))
        BY <1>2, <1>4, <2>2
      <4> QED BY <4>1
    <3>2. m \in 1..Len(c)
      BY <1>4
    <3> QED BY <1>2, <1>3, <1>4, <3>1, <3>2
  <2> QED BY <2>1, <2>2
<1>7. Begins(p, q)
  BY <1>2, <1>3, <1>4, <1>6 DEF Begins
<1>8. Joined(a, <<>>) = a
  <2>1. [n \in DOMAIN <<>> |-> <<>>[n] + (IF a = <<>> THEN 0 ELSE a[Len(a)] + 1)] = <<>>
    OBVIOUS
  <2>2. a \o <<>> = a
    OBVIOUS
  <2> QED BY <2>1, <2>2 DEF Joined
<1> QED BY <1>1, <1>5, <1>7, <1>8

\* Two runs in order join in order.
LEMMA JoinedOrder ==
  ASSUME NEW a \in Seq(Int), NEW b \in Seq(Int), InOrder(a), InOrder(b), \A n \in 1..Len(b) : b[n] >= 0
  PROVE  InOrder(Joined(a, b))
<1>1. PICK p, j : p = Joined(a, b) /\ j = JoinOff(a)
  OBVIOUS
<1>2. /\ p \in Seq(Int) /\ Len(p) = Len(a) + Len(b) /\ j \in Int
      /\ \A n \in 1..Len(a) : p[n] = a[n]
      /\ \A n \in 1..Len(b) : p[Len(a) + n] = b[n] + j
  BY <1>1, JoinedAt
<1>3. Len(a) \in Nat /\ Len(b) \in Nat
  OBVIOUS
<1>4. ASSUME NEW m \in 1..Len(p), NEW n \in 1..Len(p), m <= n PROVE p[m] <= p[n]
  <2>1. CASE n \in 1..Len(a)
    <3>1. m \in 1..Len(a)
      BY <1>3, <1>4, <2>1
    <3>2. a[m] <= a[n]
      BY <1>4, <2>1, <3>1 DEF InOrder
    <3>3. p[m] = a[m] /\ p[n] = a[n]
      BY <1>2, <2>1, <3>1
    <3> QED BY <3>2, <3>3
  <2>2. CASE n \notin 1..Len(a)
    <3>1. PICK y \in 1..Len(b) : n = Len(a) + y
      <4>1. n - Len(a) \in 1..Len(b) /\ n = Len(a) + (n - Len(a))
        BY <1>2, <1>3, <2>2
      <4> QED BY <4>1
    <3>2. p[n] = b[y] + j /\ b[y] \in Int /\ b[y] >= 0
      BY <1>2, <3>1
    <3>3. CASE m \in 1..Len(a)
      <4>1. a # <<>> /\ Len(a) \in 1..Len(a) /\ m <= Len(a)
        BY <1>3, <3>3
      <4>2. a[m] <= a[Len(a)] /\ a[m] \in Int /\ a[Len(a)] \in Int
        BY <3>3, <4>1 DEF InOrder
      <4>3. j = a[Len(a)] + 1
        BY <1>1, <4>1 DEF JoinOff
      <4>4. p[m] = a[m]
        BY <1>2, <3>3
      <4>5. PICK l : l = a[Len(a)]
        OBVIOUS
      <4>6. l \in Int /\ a[m] <= l /\ j = l + 1
        BY <4>2, <4>3, <4>5
      <4> HIDE DEF InOrder
      <4> QED BY <3>2, <4>2, <4>4, <4>6
    <3>4. CASE m \notin 1..Len(a)
      <4>1. PICK x \in 1..Len(b) : m = Len(a) + x
        <5>1. m - Len(a) \in 1..Len(b) /\ m = Len(a) + (m - Len(a))
          BY <1>2, <1>3, <3>4
        <5> QED BY <5>1
      <4>2. x <= y
        BY <1>3, <1>4, <3>1, <4>1
      <4>3. b[x] <= b[y] /\ b[x] \in Int
        BY <4>2 DEF InOrder
      <4>4. p[m] = b[x] + j
        BY <1>2, <4>1
      <4>5. PICK u, l : u = b[x] /\ l = b[y]
        OBVIOUS
      <4>6. u \in Int /\ l \in Int /\ u <= l /\ p[m] = u + j /\ p[n] = l + j /\ j \in Int
        BY <1>2, <3>2, <4>3, <4>4, <4>5
      <4> QED BY <4>6
    <3> QED BY <3>3, <3>4
  <2> QED BY <2>1, <2>2
<1> QED BY <1>1, <1>4 DEF InOrder

\* What a chain of one or two sources has been given.
LEMMA RawIs ==
  ASSUME TypeInv, NEW s \in DOMAIN job.gouts
  PROVE  /\ Src(s, 1) \in DOMAIN job.gins /\ fed[Src(s, 1)] \in Seq(Int)
         /\ Single(s) => Raw(s) = fed[Src(s, 1)] /\ LastOf(s) = 1
         /\ ~Single(s) => /\ LastOf(s) = 2 /\ Src(s, 2) \in DOMAIN job.gins /\ fed[Src(s, 2)] \in Seq(Int)
                          /\ Raw(s) = Joined(fed[Src(s, 1)], IF closed[Src(s, 1)] THEN fed[Src(s, 2)] ELSE <<>>)
<1>1. /\ job.gouts[s].srcs \in Seq(Nat \ {0}) /\ Len(job.gouts[s].srcs) \in 1..2
      /\ \A n \in DOMAIN job.gouts[s].srcs : job.gouts[s].srcs[n] \in DOMAIN job.gins
  BY TypeFacts, ChainFacts
<1>2. DOMAIN job.gouts[s].srcs = 1..Len(job.gouts[s].srcs)
  BY <1>1
<1>3. \A g \in DOMAIN job.gins : fed[g] \in Seq(Int)
  BY DEF TypeInv, TypeOK
<1>4. Src(s, 1) \in DOMAIN job.gins
  BY <1>1, <1>2 DEF Src
<1>5. ~Single(s) => Len(job.gouts[s].srcs) = 2 /\ Src(s, 2) \in DOMAIN job.gins
  BY <1>1, <1>2 DEF Src, Single
<1> QED BY <1>3, <1>4, <1>5 DEF Src, Single, LastOf, Raw

\* As much of what a chain was given as does not hang on a first source that was cut off.
SoundRaw(s) ==
  IF Single(s) \/ ~closed[Src(s, 1)] \/ fed[Src(s, 1)] # WholePad(Src(s, 1)) THEN fed[Src(s, 1)]
  ELSE Joined(fed[Src(s, 1)], fed[Src(s, 2)])

\* It begins both what the chain was given and what it should be.
LEMMA SoundIs ==
  ASSUME TypeInv, HandInv, PadInv, NEW s \in DOMAIN job.gouts
  PROVE  /\ SoundRaw(s) \in Seq(Int) /\ Raw(s) \in Seq(Int) /\ WholeRaw(s) \in Seq(Int)
         /\ Begins(SoundRaw(s), Raw(s)) /\ Begins(SoundRaw(s), WholeRaw(s))
         /\ SoundRaw(s) = Raw(s) \/ (~Single(s) /\ closed[Src(s, 1)] /\ fed[Src(s, 1)] # WholePad(Src(s, 1)))
<1>1. PICK a, w, r, v, x : /\ a = fed[Src(s, 1)] /\ w = WholePad(Src(s, 1)) /\ r = Raw(s) /\ v = SoundRaw(s)
                           /\ x = WholeRaw(s)
  OBVIOUS
<1>2. a \in Seq(Int) /\ w \in Seq(Int) /\ Begins(a, w) /\ Begins(a, a)
  <2>1. a \in Seq(Int) /\ w \in Seq(Int) /\ Begins(a, w)
    BY <1>1, RawIs, PadTaken
  <2> QED BY <2>1 DEF Begins
<1>3. CASE Single(s)
  <2>1. r = a /\ v = a /\ x = w
    BY <1>1, <1>3, RawIs DEF SoundRaw, WholeRaw
  <2> QED BY <1>1, <1>2, <2>1
<1>4. CASE ~Single(s)
  <2>1. PICK b, z, e : /\ b = fed[Src(s, 2)] /\ z = WholePad(Src(s, 2))
                       /\ e = IF closed[Src(s, 1)] THEN b ELSE <<>>
    OBVIOUS
  <2>2. b \in Seq(Int) /\ z \in Seq(Int) /\ Begins(b, z) /\ e \in Seq(Int)
    <3>1. b \in Seq(Int) /\ z \in Seq(Int) /\ Begins(b, z)
      BY <1>4, <2>1, RawIs, PadTaken
    <3> QED BY <2>1, <3>1
  <2>3. r = Joined(a, e) /\ x = Joined(w, z)
    BY <1>1, <1>4, <2>1, RawIs DEF WholeRaw
  <2>4. r \in Seq(Int) /\ x \in Seq(Int) /\ Joined(a, b) \in Seq(Int)
    BY <1>2, <2>2, <2>3, JoinedAt
  <2>5. Begins(e, e)
    BY <2>2 DEF Begins
  <2>6. Begins(a, r) /\ Joined(a, <<>>) = a
    BY <1>2, <2>2, <2>3, <2>5, JoinedBegins
  <2>7. Begins(w, x) /\ Begins(Joined(w, b), x)
    <3>1. Begins(z, z)
      BY <2>2 DEF Begins
    <3>2. Begins(w, Joined(w, z))
      BY <1>2, <2>2, <3>1, JoinedBegins
    <3>3. Begins(Joined(w, b), Joined(w, z))
      BY <1>2, <2>2, JoinedBegins
    <3> QED BY <2>3, <3>2, <3>3
  <2>8. Begins(a, x)
    BY <1>2, <2>4, <2>7, BeginsTrans
  <2>9. CASE ~closed[Src(s, 1)] \/ a # w
    <3>1. v = a
      BY <1>1, <2>9 DEF SoundRaw
    <3>2. ~closed[Src(s, 1)] => r = a
      BY <2>1, <2>3, <2>6
    <3> QED BY <1>1, <1>2, <1>4, <2>4, <2>6, <2>8, <2>9, <3>1, <3>2
  <2>10. CASE closed[Src(s, 1)] /\ a = w
    <3>1. v = Joined(a, b) /\ e = b
      BY <1>1, <1>4, <2>1, <2>10 DEF SoundRaw
    <3>2. v = r
      BY <2>3, <3>1
    <3>3. Begins(r, r)
      BY <2>4 DEF Begins
    <3> QED BY <1>1, <2>3, <2>4, <2>7, <2>10, <3>1, <3>2, <3>3
  <2> QED BY <2>9, <2>10
<1> QED BY <1>3, <1>4

\* What a chain was given only grows.
LEMMA RawGrows ==
  ASSUME TypeInv, TypeInv', UNCHANGED job, \A g \in DOMAIN job.gins : PadGrows(g), NEW s \in DOMAIN job.gouts
  PROVE  /\ Begins(Raw(s), Raw(s)') /\ Begins(SoundRaw(s), SoundRaw(s)')
         /\ Raw(s)' \in Seq(Int) /\ SoundRaw(s)' \in Seq(Int)
<1>1. PICK g : g = Src(s, 1)
  OBVIOUS
<1>2. PICK a, c, w, r, q, v, x : /\ a = fed[g] /\ c = fed'[g] /\ w = WholePad(g) /\ r = Raw(s) /\ q = Raw(s)'
                                 /\ v = SoundRaw(s) /\ x = SoundRaw(s)'
  OBVIOUS
<1>20. PICK was, is \in BOOLEAN : was = closed[g] /\ is = closed'[g]
  <2>1. g \in DOMAIN job.gins /\ UNCHANGED job
    BY <1>1, RawIs
  <2>2. closed[g] \in BOOLEAN /\ closed'[g] \in BOOLEAN
    BY <2>1 DEF TypeInv, TypeOK
  <2> QED BY <2>2
<1>3. /\ g \in DOMAIN job.gins /\ a \in Seq(Int) /\ c \in Seq(Int) /\ Begins(a, c) /\ Begins(a, a)
      /\ was => is /\ c = a
  <2>1. g \in DOMAIN job.gins /\ a \in Seq(Int)
    BY <1>1, <1>2, RawIs
  <2> QED BY <1>2, <1>20, <2>1 DEF PadGrows, Begins
<1>4. /\ Src(s, 1)' = g /\ (Single(s)' <=> Single(s)) /\ WholePad(g)' = w /\ Src(s, 2)' = Src(s, 2)
  BY <1>1, <1>2, SameFrames
<1>5. CASE Single(s)
  <2>1. r = a /\ v = a
    BY <1>1, <1>2, <1>5, RawIs DEF SoundRaw
  <2>2. q = c
    BY <1>2, <1>4, <1>5 DEF Raw, Single, Src
  <2>3. x = c
    BY <1>2, <1>4, <1>5 DEF SoundRaw
  <2> QED BY <1>2, <1>3, <2>1, <2>2, <2>3
<1>6. CASE ~Single(s)
  <2>0. PICK h, b, d : h = Src(s, 2) /\ b = fed[h] /\ d = fed'[h]
    OBVIOUS
  <2>01. PICK e : e = IF closed[g] THEN b ELSE <<>>
    OBVIOUS
  <2>02. PICK f : f = IF closed'[g] THEN d ELSE <<>>
    OBVIOUS
  <2>1. /\ h = Src(s, 2) /\ b = fed[h] /\ d = fed'[h]
        /\ was => e = b
        /\ ~was => e = <<>>
        /\ is => f = d
        /\ ~is => f = <<>>
    BY <1>20, <2>0, <2>01, <2>02
  <2>2. b \in Seq(Int) /\ d \in Seq(Int) /\ Begins(b, d) /\ e \in Seq(Int) /\ f \in Seq(Int)
    <3>1. h \in DOMAIN job.gins /\ b \in Seq(Int)
      BY <1>6, <2>1, RawIs
    <3>2. d \in Seq(Int) /\ Begins(b, d)
      BY <2>1, <3>1 DEF PadGrows
    <3>3. <<>> \in Seq(Int)
      OBVIOUS
    <3> QED BY <1>20, <2>1, <3>1, <3>2, <3>3
  <2>3. r = Joined(a, e)
    <3>1. r = Joined(a, IF closed[g] THEN b ELSE <<>>)
      BY <1>1, <1>2, <1>6, <2>1, RawIs
    <3> QED BY <2>01, <3>1
  <2>4. q = Joined(c, f)
    <3>1. q = Joined(c, IF closed'[g] THEN d ELSE <<>>)
      <4>1. job' = job /\ job.gouts[s].srcs[1] = g /\ job.gouts[s].srcs[2] = h /\ Len(job.gouts[s].srcs) # 1
        BY <1>1, <1>6, <2>1 DEF Src, Single
      <4> QED BY <1>2, <2>1, <4>1 DEF Raw
    <3> QED BY <2>02, <3>1
  <2>5. /\ Begins(c, Joined(c, f)) /\ Begins(c, Joined(c, d)) /\ Joined(a, <<>>) = a
        /\ Begins(Joined(a, b), Joined(a, d))
        /\ Joined(a, b) \in Seq(Int) /\ Joined(c, d) \in Seq(Int) /\ Joined(c, f) \in Seq(Int)
    <3>1. Begins(f, f) /\ Begins(d, d)
      BY <2>2 DEF Begins
    <3>2. Begins(c, Joined(c, f)) /\ Begins(c, Joined(c, d))
      BY <1>3, <2>2, <3>1, JoinedBegins
    <3>3. Begins(Joined(a, b), Joined(a, d)) /\ Joined(a, <<>>) = a
      BY <1>3, <2>2, JoinedBegins
    <3> QED BY <1>3, <2>2, <3>2, <3>3, JoinedAt
  <2>6. Begins(a, Joined(c, f)) /\ Begins(a, Joined(c, d))
    BY <1>3, <2>5, BeginsTrans
  <2>7. x = IF ~is \/ c # w THEN c ELSE Joined(c, d)
    BY <1>2, <1>20, <1>4, <1>6, <2>1 DEF SoundRaw
  <2>8. v = IF ~was \/ a # w THEN a ELSE Joined(a, b)
    BY <1>1, <1>2, <1>20, <1>6, <2>1 DEF SoundRaw
  <2>9. CASE was
    <3>1. is /\ c = a /\ e = b /\ f = d
      BY <1>3, <2>1, <2>9
    <3>2. Begins(r, q)
      BY <2>3, <2>4, <2>5, <3>1
    <3>3. Begins(v, x)
      BY <1>3, <2>5, <2>7, <2>8, <2>9, <3>1
    <3> QED BY <1>2, <1>3, <2>4, <2>5, <2>7, <3>2, <3>3
  <2>10. CASE ~was
    <3>1. r = a /\ v = a
      BY <2>1, <2>3, <2>5, <2>8, <2>10
    <3>2. Begins(r, q)
      BY <2>4, <2>6, <3>1
    <3>3. Begins(v, x)
      BY <1>3, <2>6, <2>7, <3>1
    <3> QED BY <1>2, <1>3, <2>4, <2>5, <2>7, <3>2, <3>3
  <2> QED BY <2>9, <2>10
<1> QED BY <1>5, <1>6

\* More frames would not matter: the chain repeats its first, has all its trim wants, or has one
\* past the window.
SettledOn(s, v) ==
  \/ job.gouts[s].kind = "loop" /\ v # <<>>
  \/ job.gouts[s].kind = "trim" /\ Len(v) > job.gouts[s].n
  \/ \E q \in 1..Len(v) : HasIn(s, v, q) /\ Past(s, FrameIn(s, v, q))
Settled(s) == SettledOn(s, SoundRaw(s))

\* What pad g has beyond f is past the window.
RestOut(s, g, f) == \A n \in DOMAIN WholePad(g) : n > Len(f) => Past(s, Pace(s, WholePad(g)[n]))

\* A closed source has all it should, or what it misses matters to no one: its chain is settled, or
\* it is the last source and the rest is past the window.
Sated(s, n) ==
  \/ fed[Src(s, n)] = WholePad(Src(s, n))
  \/ Settled(s)
  \/ n = LastOf(s) /\ RestOut(s, Src(s, n), fed[Src(s, n)])

\* The pads of an input that has ended are closed.
EofInv == \A g \in DOMAIN job.gins : eof[job.gins[g].in] => closed[g]

\* Every source that is closed is sated.
SatedInv ==
  \A s \in DOMAIN job.gouts : \A n \in DOMAIN job.gouts[s].srcs : closed[Src(s, n)] => Sated(s, n)

\* This is about the job alone too.
LEMMA SameEnough ==
  ASSUME UNCHANGED job
  PROVE  /\ \A s, v : SettledOn(s, v)' <=> SettledOn(s, v)
         /\ \A s, g, f : RestOut(s, g, f)' <=> RestOut(s, g, f)
<1>1. ASSUME NEW s, NEW v PROVE SettledOn(s, v)' <=> SettledOn(s, v)
  <2>1. \A q : (HasIn(s, v, q)' <=> HasIn(s, v, q)) /\ FrameIn(s, v, q)' = FrameIn(s, v, q)
    BY SameFrames
  <2>2. \A q : Past(s, FrameIn(s, v, q))' <=> Past(s, FrameIn(s, v, q))
    BY DEF Past, Offset, out_cutoff, job_seek_offset, FrameIn, Pace
  <2> QED BY <2>1, <2>2 DEF SettledOn
<1>2. ASSUME NEW s, NEW g, NEW f PROVE RestOut(s, g, f)' <=> RestOut(s, g, f)
  <2>1. PICK w : w = WholePad(g)
    OBVIOUS
  <2>2. WholePad(g)' = w
    BY <2>1, SameFrames
  <2>3. \A n : Past(s, Pace(s, w[n]))' <=> Past(s, Pace(s, w[n]))
    BY DEF Past, Offset, out_cutoff, job_seek_offset, Pace
  <2> QED BY <2>1, <2>2, <2>3 DEF RestOut
<1> QED BY <1>1, <1>2

\* A chain that is settled stays so when it is given more.
LEMMA SettledStays ==
  ASSUME JobOK, NEW s \in DOMAIN job.gouts, NEW v \in Seq(Int), NEW w \in Seq(Int), Begins(v, w), SettledOn(s, v)
  PROVE  SettledOn(s, w)
<1>1. Len(v) \in Nat /\ Len(w) \in Nat /\ Len(v) <= Len(w) /\ job.gouts[s].n \in Nat
  BY ChainFacts DEF Begins
<1>2. v # <<>> => w # <<>>
  BY <1>1
<1>3. CASE \E q \in 1..Len(v) : HasIn(s, v, q) /\ Past(s, FrameIn(s, v, q))
  <2>1. PICK q \in 1..Len(v) : HasIn(s, v, q) /\ Past(s, FrameIn(s, v, q))
    BY <1>3
  <2>2. q \in Nat \ {0} /\ q \in 1..Len(w)
    BY <1>1
  <2>3. HasIn(s, w, q) /\ FrameIn(s, w, q) = FrameIn(s, v, q)
    BY <2>1, <2>2, FrameInBegins
  <2>4. \E x \in 1..Len(w) : HasIn(s, w, x) /\ Past(s, FrameIn(s, w, x))
    <3>1. Past(s, FrameIn(s, w, q))
      BY <2>1, <2>3
    <3> QED BY <2>2, <2>3, <3>1
  <2> QED BY <2>4 DEF SettledOn
<1>4. CASE job.gouts[s].kind = "trim" /\ Len(v) > job.gouts[s].n
  <2>1. Len(w) > job.gouts[s].n
    BY <1>1, <1>4
  <2> QED BY <1>4, <2>1 DEF SettledOn
<1>5. CASE job.gouts[s].kind = "loop" /\ v # <<>>
  BY <1>2, <1>5 DEF SettledOn
<1>6. \/ job.gouts[s].kind = "loop" /\ v # <<>>
      \/ job.gouts[s].kind = "trim" /\ Len(v) > job.gouts[s].n
      \/ \E q \in 1..Len(v) : HasIn(s, v, q) /\ Past(s, FrameIn(s, v, q))
  BY DEF SettledOn
<1> QED BY <1>3, <1>4, <1>5, <1>6

\* Once what a chain was given is enough, by its trim or by the window, it is settled.
LEMMA EnoughSettles ==
  ASSUME TypeInv, HandInv, PadInv, SatedInv, NEW s \in DOMAIN job.gouts,
         \/ job.gouts[s].kind = "trim" /\ Len(Raw(s)) > job.gouts[s].n
         \/ \E m \in Nat \ {0} : HasIn(s, Raw(s), m) /\ Past(s, FrameIn(s, Raw(s), m))
  PROVE  Settled(s)
<1>1. PICK r, v : r = Raw(s) /\ v = SoundRaw(s)
  OBVIOUS
<1>2. r \in Seq(Int)
  BY <1>1, SoundIs
<1>3. CASE v = r
  <2>1. CASE job.gouts[s].kind = "trim" /\ Len(r) > job.gouts[s].n
    BY <1>1, <1>3, <2>1 DEF Settled, SettledOn
  <2>2. CASE \E m \in Nat \ {0} : HasIn(s, r, m) /\ Past(s, FrameIn(s, r, m))
    <3>1. PICK m \in Nat \ {0} : HasIn(s, r, m) /\ Past(s, FrameIn(s, r, m))
      BY <2>2
    <3>2. r # <<>> /\ (job.gouts[s].kind = "loop" \/ m \in 1..Len(r))
      BY <1>2, <3>1 DEF HasIn
    <3> QED BY <1>1, <1>3, <3>1, <3>2 DEF Settled, SettledOn
  <2> QED BY <1>1, <2>1, <2>2
<1>4. CASE v # r
  <2>1. ~Single(s) /\ closed[Src(s, 1)] /\ fed[Src(s, 1)] # WholePad(Src(s, 1))
    BY <1>1, <1>4, SoundIs
  <2>2. 1 \in DOMAIN job.gouts[s].srcs /\ 1 # LastOf(s)
    <3>1. PICK q : q = job.gouts[s].srcs
      OBVIOUS
    <3>2. q \in Seq(Nat \ {0}) /\ Len(q) = 2
      BY <2>1, <3>1, TypeFacts, ChainFacts, RawIs DEF LastOf
    <3>3. 1 \in DOMAIN q
      BY <3>2
    <3> QED BY <3>1, <3>2, <3>3 DEF LastOf
  <2>3. Sated(s, 1)
    BY <2>1, <2>2 DEF SatedInv
  <2> QED BY <2>1, <2>2, <2>3 DEF Sated
<1> QED BY <1>3, <1>4

\* A step leaves a settled chain settled.
LEMMA SettledAfter ==
  ASSUME TypeInv, TypeInv', HandInv, PadInv, UNCHANGED job,
         \A g \in DOMAIN job.gins : PadGrows(g), NEW s \in DOMAIN job.gouts, Settled(s)
  PROVE  Settled(s)'
<1>1. PICK v, w : v = SoundRaw(s) /\ w = SoundRaw(s)'
  OBVIOUS
<1>2. v \in Seq(Int) /\ Begins(v, w) /\ SettledOn(s, v)
  BY <1>1, SoundIs, RawGrows DEF Settled
<1>3. w \in Seq(Int)
  BY <1>1, RawGrows
<1>4. SettledOn(s, w)
  BY <1>2, <1>3, TypeFacts, SettledStays
<1> QED BY <1>1, <1>4, SameEnough DEF Settled

\* And a closed source sated.
LEMMA SatedAfter ==
  ASSUME TypeInv, TypeInv', HandInv, PadInv, UNCHANGED job,
         \A g \in DOMAIN job.gins : PadGrows(g), NEW s \in DOMAIN job.gouts,
         NEW n \in DOMAIN job.gouts[s].srcs, closed[Src(s, n)], Sated(s, n)
  PROVE  Sated(s, n)'
<1>1. PICK g, f, w : g = Src(s, n) /\ f = fed[g] /\ w = WholePad(g)
  OBVIOUS
<1>2. g \in DOMAIN job.gins
  BY <1>1, TypeFacts, ChainFacts DEF Src
<1>3. fed'[g] = f
  BY <1>1, <1>2 DEF PadGrows
<1>4. Src(s, n)' = g /\ WholePad(g)' = w /\ LastOf(s)' = LastOf(s)
  BY <1>1, SameFrames
<1>5. CASE f = w
  BY <1>1, <1>3, <1>4, <1>5 DEF Sated
<1>6. CASE Settled(s)
  BY <1>6, SettledAfter DEF Sated
<1>7. CASE n = LastOf(s) /\ RestOut(s, g, f)
  <2>1. RestOut(s, g, f)'
    BY <1>7, SameEnough
  <2> QED BY <1>3, <1>4, <1>7, <2>1 DEF Sated
<1> QED BY <1>1, <1>5, <1>6, <1>7 DEF Sated

\* A packet past its input's cutoff is past its output's window once it is on the pad's clock.
LEMMA UnreadPast ==
  ASSUME JobOK, NEW s \in DOMAIN job.gouts, NEW o \in DOMAIN job.outs, o = job.gouts[s].out,
         NEW i \in DOMAIN job.inputs, NEW t \in Nat, NEW z \in Nat, z <= ZeroBound(o, i),
         SourceCutoff(job.outs[o], SeekBase(i)) # Forever, SourceCutoff(job.outs[o], SeekBase(i)) < t
  PROVE  Past(s, t - z)
<1>1. /\ job.outs[o].dur \in Nat /\ job.outs[o].end \in Nat /\ job.outs[o].copyTs \in BOOLEAN
      /\ SeekBase(i) \in Nat /\ job_seek_offset \in Nat
  BY OutFacts, InputFacts, SeekOffsetType
<1>2. PICK w, base, jso, c : w = job.outs[o] /\ base = SeekBase(i) /\ jso = job_seek_offset /\ c = out_cutoff(w)
  OBVIOUS
<1>3. /\ w.dur \in Nat /\ w.end \in Nat /\ w.copyTs \in BOOLEAN /\ base \in Nat /\ jso \in Nat
      /\ Offset(w) = IF w.copyTs THEN jso ELSE 0
      /\ z <= IF w.copyTs /\ w.dur = 0 THEN jso ELSE base
  BY <1>1, <1>2 DEF Offset, ZeroBound
<1>4. CASE w.dur > 0
  <2>1. base + w.dur < t /\ z <= base
    BY <1>2, <1>3, <1>4 DEF SourceCutoff
  <2>2. c = Offset(w) + w.dur
    BY <1>2, <1>4 DEF out_cutoff
  <2>3. ~Within(t - z + Offset(w), c)
    BY <1>3, <1>4, <2>1, <2>2 DEF Within, Forever
  <2> QED BY <1>2, <2>3 DEF Past
<1>5. CASE w.dur = 0 /\ w.end > 0
  <2>1. (IF w.copyTs THEN 0 ELSE base) + w.end < t
    BY <1>2, <1>5 DEF SourceCutoff
  <2>2. c = w.end
    BY <1>2, <1>5 DEF out_cutoff
  <2>3. ~Within(t - z + Offset(w), c)
    <3>1. CASE w.copyTs
      BY <1>3, <1>5, <2>1, <2>2, <3>1 DEF Within, Forever
    <3>2. CASE ~w.copyTs
      BY <1>3, <1>5, <2>1, <2>2, <3>2 DEF Within, Forever
    <3> QED BY <3>1, <3>2
  <2> QED BY <1>2, <2>3 DEF Past
<1>6. CASE w.dur = 0 /\ w.end = 0
  BY <1>2, <1>6 DEF SourceCutoff
<1> QED BY <1>3, <1>4, <1>5, <1>6

\* What a pad misses of an input that is stopped for its windows is past them too.
LEMMA PadCut ==
  ASSUME TypeInv, HandInv, NearOrder, PadsStartInTime, NEW s \in DOMAIN job.gouts,
         NEW n \in DOMAIN job.gouts[s].srcs, NEW g, g = Src(s, n), NEW i, i = job.gins[g].in, NEW st, st = job.gins[g].st,
         next[i] < Final(i), PastWindows(i), job.gouts[s].kind # "speed"
  PROVE  RestOut(s, g, OnPad(g, TimesOf(i, st, next[i])))
<1>1. JobOK /\ g \in DOMAIN job.gins /\ i \in DOMAIN job.inputs
  BY TypeFacts, ChainFacts, PadFacts DEF Src
<1>2. PICK o \in DOMAIN job.outs : o = job.gouts[s].out
  BY <1>1, ChainFacts
<1>3. PICK S : S = {t \in Nat : SourceCutoff(job.outs[o], SeekBase(i)) < t}
  OBVIOUS
<1>4. /\ Valid(i, Final(i)) /\ Final(i) \in Nat /\ next[i] \in Nat /\ next[i] <= Final(i)
      /\ \A m \in (next[i] + 1)..Final(i) : PacketOf(i, m).t \in S
      /\ SourceCutoff(job.outs[o], SeekBase(i)) # Forever
  <2>1. Valid(i, Final(i)) /\ Final(i) \in Nat /\ next[i] \in Nat
    BY <1>1, PacketsPast
  <2>2. next[i] + 1 \in (next[i] + 1)..Final(i) /\ next[i] <= Final(i)
    BY <2>1
  <2>3. \A m \in (next[i] + 1)..Final(i) :
              /\ PacketOf(i, m).t \in Nat
              /\ SourceCutoff(job.outs[o], SeekBase(i)) # Forever
              /\ SourceCutoff(job.outs[o], SeekBase(i)) < PacketOf(i, m).t
    BY <1>1, PacketsPast
  <2> QED BY <1>3, <2>1, <2>2, <2>3
<1>5. PICK T, W : T = TimesOf(i, st, next[i]) /\ W = Times(i, st)
  OBVIOUS
<1>6. S \subseteq Nat
  BY <1>3
<1>7. PICK r \in Seq(S) : W = T \o r
  <2>1. PICK a, b : a = next[i] /\ b = Final(i)
    OBVIOUS
  <2>2. a \in Nat /\ b \in Nat /\ a <= b /\ Valid(i, b) /\ \A m \in (a + 1)..b : PacketOf(i, m).t \in S
    BY <1>4, <2>1
  <2>3. Adds(S, TimesOf(i, st, a), TimesOf(i, st, b))
    BY <1>1, <1>6, <2>2, TimesRest
  <2> QED BY <1>5, <2>1, <2>3 DEF Adds, Times
<1>8. T \in Seq(Nat) /\ r \in Seq(Nat) /\ W \in Seq(Nat)
  <2>1. T \in Seq(Nat)
    BY <1>1, <1>5, ReadValid, TimesOfType
  <2>2. r \in Seq(Nat)
    BY <1>6, WiderSeq
  <2>3. T \o r \in Seq(Nat)
    BY <2>1, <2>2
  <2> QED BY <1>7, <2>1, <2>2, <2>3
<1>9. PICK kr, z : kr = Kept(g, r) /\ z = Zero(g, Kept(g, W))
  OBVIOUS
<1>10. z \in Nat /\ -z \in Int /\ z <= ZeroBound(o, i)
  <2>1. PICK kw : kw = Kept(g, W)
    OBVIOUS
  <2>2. kw \in Seq(Nat)
    BY <1>1, <1>8, <2>1, KeptType
  <2>3. Zero(g, kw) \in Nat
    BY <1>1, <2>2, ZeroType
  <2>4. Zero(g, Kept(g, Times(i, st))) <= ZeroBound(o, i)
    BY <1>2 DEF PadsStartInTime
  <2> QED BY <1>5, <1>9, <2>1, <2>3, <2>4
<1>11. kr \in Seq(S) /\ kr \in Seq(Int)
  <2>1. kr \in Seq(S)
    BY <1>9, OnlyType DEF Kept
  <2>2. S \subseteq Int
    BY <1>6
  <2> QED BY <2>1, <2>2, WiderSeq
<1>12. PICK f, w, e : f = OnPad(g, T) /\ w = WholePad(g) /\ e = Shifted(kr, -z)
  OBVIOUS
<1>13. f \in Seq(Int) /\ e \in Seq(Int) /\ Len(e) = Len(kr)
  <2>1. f \in Seq(Int)
    BY <1>1, <1>8, <1>12, OnPadType
  <2>2. PICK y : y = -z
    OBVIOUS
  <2>3. Shifted(kr, y) \in Seq(Int) /\ Len(Shifted(kr, y)) = Len(kr)
    BY <1>10, <1>11, <2>2, ShiftedType
  <2> QED BY <1>12, <2>1, <2>2, <2>3
<1>14. w = f \o e
  <2>1. w = OnPad(g, T \o r)
    BY <1>5, <1>7, <1>12, WholePadIs
  <2>2. OnPad(g, T \o r) = OnPad(g, T) \o Shifted(Kept(g, r), -Zero(g, Kept(g, T \o r)))
    BY <1>1, <1>8, OnPadMore
  <2> QED BY <1>7, <1>9, <1>12, <2>1, <2>2
<1>15. ASSUME NEW m \in DOMAIN w, m > Len(f) PROVE Past(s, Pace(s, w[m]))
  <2>1. PICK x \in 1..Len(e) : m = Len(f) + x
    <3>1. m - Len(f) \in 1..Len(e) /\ m = Len(f) + (m - Len(f))
      BY <1>13, <1>14, <1>15
    <3> QED BY <3>1
  <2>2. w[m] = e[x]
    BY <1>13, <1>14, <2>1
  <2>3. x \in 1..Len(kr) /\ kr[x] \in S
    BY <1>11, <1>13, <2>1
  <2>4. PICK t : t = kr[x]
    OBVIOUS
  <2>5. e[x] = t - z
    <3>1. e[x] = kr[x] + -z
      BY <1>11, <1>12, <2>3 DEF Shifted
    <3>2. t \in Nat
      BY <1>6, <2>3, <2>4
    <3> QED BY <1>10, <2>4, <3>1, <3>2
  <2>6. t \in Nat /\ SourceCutoff(job.outs[o], SeekBase(i)) < t
    BY <1>3, <2>3, <2>4
  <2>7. Past(s, t - z)
    BY <1>1, <1>2, <1>4, <1>10, <2>6, UnreadPast
  <2>8. Pace(s, w[m]) = t - z
    BY <2>2, <2>5 DEF Pace
  <2> QED BY <2>7, <2>8
<1>16. RestOut(s, g, f)
  BY <1>12, <1>15 DEF RestOut
<1> QED BY <1>5, <1>12, <1>16

\* A pad whose frames come in order misses only what is past the window once one of
\* them was.
LEMMA ReachCuts ==
  ASSUME JobOK, NEW s \in DOMAIN job.gouts, NEW g, NEW f \in Seq(Int), WholePad(g) \in Seq(Int), Begins(f, WholePad(g)),
         InOrder(WholePad(g)), Reaches(s, f)
  PROVE  RestOut(s, g, f)
<1>1. PICK w : w = WholePad(g)
  OBVIOUS
<1>2. PICK q \in DOMAIN f : Past(s, Pace(s, f[q]))
  BY DEF Reaches
<1>3. SUFFICES ASSUME NEW n \in DOMAIN w, n > Len(f) PROVE Past(s, Pace(s, w[n]))
  BY <1>1 DEF RestOut
<1>4. w \in Seq(Int) /\ Len(f) <= Len(w) /\ \A m \in 1..Len(f) : f[m] = w[m]
  BY <1>1 DEF Begins
<1>5. q \in 1..Len(f) /\ q \in 1..Len(w) /\ n \in 1..Len(w) /\ q <= n
  BY <1>3, <1>4
<1>6. PICK t, u : t = f[q] /\ u = w[n]
  OBVIOUS
<1>7. t \in Int /\ u \in Int /\ t <= u
  <2>1. w[q] <= w[n]
    BY <1>1, <1>5 DEF InOrder
  <2> QED BY <1>4, <1>5, <1>6, <2>1
<1>8. Pace(s, t) <= Pace(s, u) /\ Pace(s, t) \in Int /\ Pace(s, u) \in Int
  BY <1>7, PaceUp, PaceType
<1>9. PICK x, y : x = Pace(s, t) /\ y = Pace(s, u)
  OBVIOUS
<1>10. Past(s, y)
  <2>1. x \in Int /\ y \in Int /\ x <= y /\ Past(s, x)
    BY <1>2, <1>6, <1>8, <1>9
  <2> QED BY <2>1, PastUp
<1> QED BY <1>6, <1>9, <1>10

\* And its chain is settled.
LEMMA ReachSettles ==
  ASSUME JobOK, NEW s \in DOMAIN job.gouts, NEW f \in Seq(Int), Reaches(s, f)
  PROVE  SettledOn(s, f)
<1>1. PICK q \in DOMAIN f : Past(s, Pace(s, f[q]))
  BY DEF Reaches
<1>2. q \in 1..Len(f) /\ f # <<>> /\ Len(f) \in Nat /\ job.gouts[s].n \in Nat
  BY <1>1, ChainFacts
<1>3. CASE job.gouts[s].kind = "loop"
  BY <1>2, <1>3 DEF SettledOn
<1>4. CASE job.gouts[s].kind = "trim" /\ q > job.gouts[s].n
  <2>1. Len(f) > job.gouts[s].n
    BY <1>2, <1>4
  <2> QED BY <1>4, <2>1 DEF SettledOn
<1>5. CASE job.gouts[s].kind # "loop" /\ (job.gouts[s].kind = "trim" => q <= job.gouts[s].n)
  <2>1. HasIn(s, f, q)
    BY <1>2, <1>5 DEF HasIn
  <2>2. FrameIn(s, f, q) = Pace(s, f[q])
    BY <1>5 DEF FrameIn
  <2>3. \E x \in 1..Len(f) : HasIn(s, f, x) /\ Past(s, FrameIn(s, f, x))
    BY <1>1, <1>2, <2>1, <2>2
  <2> QED BY <2>3 DEF SettledOn
<1> QED BY <1>2, <1>3, <1>4, <1>5

\* The first m frames of a chain, and when they are all it will be asked for.
Made(s, m) == [n \in 1..m |-> FrameIn(s, Raw(s), n)]
Finished(s, m) ==
  \/ m >= 1 /\ Past(s, FrameIn(s, Raw(s), m))
  \/ Ended(s) /\ ~HasIn(s, Raw(s), m + 1)

\* What has been written of a sink or is in its encoder.
Sent(s) == Got(job.gouts[s].out, "enc", s) \o EncOut(s, enc[s])

\* A sink has sent the first m frames of its chain, and is done with them or live.
SinkAs(s, m) ==
  /\ \A n \in 1..m : HasIn(s, Raw(s), n)
  /\ Sent(s) = EncOut(s, Made(s, m))
  /\ IF done[s] THEN Finished(s, m) ELSE m = taken[s]

\* Every sink has, for some m.
SinkInv == \A s \in DOMAIN job.gouts : \E m \in Nat : SinkAs(s, m)

\* A sink that is done before its sources have ended has had enough.
LEMMA DoneEnough ==
  ASSUME TypeInv, SinkInv, NEW s \in DOMAIN job.gouts, done[s], NEW n \in DOMAIN job.gouts[s].srcs, ~closed[Src(s, n)]
  PROVE  \/ job.gouts[s].kind = "trim" /\ Len(Raw(s)) > job.gouts[s].n
         \/ \E m \in Nat \ {0} : HasIn(s, Raw(s), m) /\ Past(s, FrameIn(s, Raw(s), m))
<1>1. PICK m \in Nat : SinkAs(s, m)
  BY DEF SinkInv
<1>2. Finished(s, m) /\ \A x \in 1..m : HasIn(s, Raw(s), x)
  BY <1>1 DEF SinkAs
<1>3. CASE m >= 1 /\ Past(s, FrameIn(s, Raw(s), m))
  <2>1. m \in Nat \ {0} /\ m \in 1..m
    BY <1>3
  <2> QED BY <1>2, <1>3, <2>1
<1>4. CASE Ended(s)
  BY <1>4 DEF Ended, Src
<1> QED BY <1>2, <1>3, <1>4 DEF Finished

\* What an input that stops leaves its pads with.
LEMMA StopSates ==
  ASSUME TypeInv, TypeInv', HandInv, PadInv, SinkInv, SatedInv, NearOrder, FramesInOrder, PadsStartInTime, SourcesReach,
         StopInput, UNCHANGED job, \A x \in DOMAIN job.gins : PadGrows(x),
         NEW s \in DOMAIN job.gouts, NEW n \in DOMAIN job.gouts[s].srcs, NEW g, g = Src(s, n), job.gins[g].in = in,
         ~closed[g], closed'[g], fed'[g] = OnPad(g, TimesOf(in, job.gins[g].st, next[in]))
  PROVE  Sated(s, n)'
<1>1. PICK i, st, f, w : i = in /\ st = job.gins[g].st /\ f = fed'[g] /\ w = WholePad(g)
  OBVIOUS
<1>2. JobOK /\ g \in DOMAIN job.gins /\ i \in DOMAIN job.inputs
  BY <1>1, TypeFacts, ChainFacts, PadFacts DEF Src
<1>3. next[i] \in Nat /\ next[i] <= Final(i) /\ Final(i) \in Nat /\ Len(Input(i).pkts) \in Nat
  <2>1. Len(Input(i).pkts) \in Nat /\ MaxReads \in Nat
    BY <1>2, InputFacts, ProcessAssumption DEF ProcessAssumption
  <2> QED BY <1>2, <2>1 DEF HandInv, TypeInv, TypeOK, Final
<1>4. /\ Src(s, n)' = g /\ Src(s, 1)' = Src(s, 1) /\ WholePad(g)' = w /\ LastOf(s)' = LastOf(s)
      /\ (Single(s)' <=> Single(s))
  BY <1>1, SameFrames
<1>5. w = OnPad(g, TimesOf(i, st, Final(i))) /\ w \in Seq(Int)
  <2>1. w \in Seq(Int)
    BY <1>1, <1>2, PadTaken
  <2> QED BY <1>1, <2>1, WholePadIs DEF Times
<1>6. f = OnPad(g, TimesOf(i, st, next[i]))
  BY <1>1
<1>7. CASE next[i] = Final(i)
  <2>1. f = w
    BY <1>5, <1>6, <1>7
  <2> QED BY <1>1, <1>4, <2>1 DEF Sated
<1>8. ASSUME Settled(s) PROVE Sated(s, n)'
  BY <1>8, SettledAfter DEF Sated
<1>9. CASE next[i] < Final(i) /\ PastWindows(i)
  <2>1. /\ f \in Seq(Int)
        /\ Begins(f, w)
    <3>1. PICK T : T = TimesOf(i, st, next[i])
      OBVIOUS
    <3>2. T \in Seq(Nat)
      BY <1>2, <3>1, ReadValid, TimesOfType
    <3>3. f \in Seq(Int)
      BY <1>2, <1>6, <3>1, <3>2, OnPadType
    <3>4. PICK a, b, S : a = next[i] /\ b = Final(i) /\ S = Nat
      OBVIOUS
    <3>5. a \in Nat /\ b \in Nat /\ a <= b /\ Valid(i, b) /\ S \subseteq Nat /\ \A m \in (a + 1)..b : PacketOf(i, m).t \in S
      <4>1. Valid(i, b) /\ \A m \in (a + 1)..b : \A o \in DOMAIN job.outs : PacketOf(i, m).t \in Nat
        BY <1>2, <1>9, <3>4, PacketsPast
      <4>2. PICK o \in DOMAIN job.outs : o = job.gouts[s].out
        BY <1>2, ChainFacts
      <4> QED BY <1>3, <3>4, <4>1, <4>2
    <3>6. Adds(S, TimesOf(i, st, a), TimesOf(i, st, b))
      BY <1>2, <3>5, TimesRest
    <3>7. PICK r \in Seq(Nat) : TimesOf(i, st, b) = T \o r
      BY <3>1, <3>4, <3>6 DEF Adds
    <3>8. Begins(OnPad(g, T), OnPad(g, T \o r))
      BY <1>2, <3>2, OnPadBegins
    <3>9. w = OnPad(g, T \o r)
      BY <1>5, <3>4, <3>7
    <3> QED BY <1>6, <3>1, <3>3, <3>8, <3>9
  <2>2. n < LastOf(s) \/ job.gouts[s].kind = "speed" => Reaches(s, f)
    <3>1. PICK m : m = next[i]
      OBVIOUS
    <3>2. m \in 0..Final(i) /\ m < Final(i) /\ ~Within(PacketOf(i, m + 1).t - 1, in_cutoff(i))
      BY <1>3, <1>9, <3>1 DEF PastWindows, Coming
    <3>3. n < LastOf(s) \/ job.gouts[s].kind = "speed" => Reaches(s, OnPad(g, TimesOf(i, st, m)))
      BY <1>1, <3>2 DEF SourcesReach
    <3> QED BY <1>6, <3>1, <3>3
  <2>3. n \in 1..LastOf(s) /\ LastOf(s) \in 1..2 /\ (Single(s) <=> LastOf(s) = 1)
    <3>1. job.gouts[s].srcs \in Seq(Nat \ {0}) /\ Len(job.gouts[s].srcs) \in 1..2
      BY <1>2, ChainFacts
    <3>2. PICK q : q = job.gouts[s].srcs
      OBVIOUS
    <3>3. DOMAIN q = 1..Len(q)
      BY <3>1, <3>2
    <3> QED BY <3>1, <3>2, <3>3 DEF LastOf, Single
  <2>4. CASE n < LastOf(s)
    <3>1. n = 1 /\ ~Single(s)
      BY <2>3, <2>4
    <3>2. CASE f = w
      BY <1>1, <1>4, <3>2 DEF Sated
    <3>3. CASE f # w
      <4>1. SoundRaw(s)' = f
        BY <1>1, <1>4, <3>1, <3>3 DEF SoundRaw
      <4>2. SettledOn(s, f)
        BY <1>2, <2>1, <2>2, <2>4, ReachSettles
      <4>3. Settled(s)'
        <5>1. SettledOn(s, f)'
          BY <4>2, SameEnough
        <5> QED BY <4>1, <5>1 DEF Settled
      <4> QED BY <4>3 DEF Sated
    <3> QED BY <3>2, <3>3
  <2>5. CASE n = LastOf(s)
    <3>1. RestOut(s, g, f)
      <4>1. CASE job.gouts[s].kind = "speed"
        <5>1. InOrder(WholePad(g))
          BY <1>2 DEF FramesInOrder
        <5>2. WholePad(g) \in Seq(Int) /\ Begins(f, WholePad(g)) /\ Reaches(s, f)
          BY <1>1, <1>5, <2>1, <2>2, <4>1
        <5> QED BY <1>2, <2>1, <5>1, <5>2, ReachCuts
      <4>2. CASE job.gouts[s].kind # "speed"
        <5>1. RestOut(s, g, OnPad(g, TimesOf(i, st, next[i])))
          BY <1>1, <1>9, <4>2, PadCut
        <5> QED BY <1>6, <5>1
      <4> QED BY <4>1, <4>2
    <3>2. RestOut(s, g, f)'
      BY <3>1, SameEnough
    <3> QED BY <1>1, <1>4, <2>5, <3>2 DEF Sated
  <2> QED BY <2>3, <2>4, <2>5
<1>10. CASE input_is_spent(in)
  <2>1. job.gouts # <<>> /\ \A x \in DOMAIN job.gouts : done[x]
    BY <1>2, <1>10 DEF input_is_spent
  <2>2. \/ job.gouts[s].kind = "trim" /\ Len(Raw(s)) > job.gouts[s].n
        \/ \E m \in Nat \ {0} : HasIn(s, Raw(s), m) /\ Past(s, FrameIn(s, Raw(s), m))
    BY <2>1, DoneEnough
  <2>3. Settled(s)
    BY <2>2, EnoughSettles
  <2> QED BY <1>8, <2>3
<1>11. CASE ~More(in) /\ Input(in).end = "eof"
  <2>1. next[i] = Final(i)
    BY <1>1, <1>3, <1>11 DEF More, Final
  <2> QED BY <1>7, <2>1
<1>12. next[i] = Final(i) \/ next[i] < Final(i)
  BY <1>3
<1>13. input_is_spent(in) \/ PastWindows(in) \/ (~More(in) /\ Input(in).end = "eof")
  BY DEF StopInput
<1> QED BY <1>1, <1>7, <1>9, <1>10, <1>11, <1>12, <1>13

\* No source is closed before its chain has what it should, as far as its window goes.
LEMMA SatedInvNext ==
  ASSUME TypeInv, TypeInv', HandInv, PadInv, SinkInv, SatedInv, NearOrder, FramesInOrder, PadsStartInTime, SourcesReach,
         [Next]_vars
  PROVE  SatedInv'
<1>1. UNCHANGED job
  BY TypeFacts, PadFacts DEF Next, Work, Skip, StopInput, EndInput, Read, ReadFails, FlushSub, Copy, Sub, Pull,
     PullStarts, PullDone, PullFrame, PullNothing, PullEnds, Drain, flush_copy_bsfs, WriteTrailer, CallFails, vars
<1>2. \A g \in DOMAIN job.gins : PadGrows(g)
  BY PadsAfter
<1>3. SUFFICES ASSUME NEW s \in DOMAIN job.gouts, NEW n \in DOMAIN job.gouts[s].srcs, closed'[Src(s, n)]
               PROVE  Sated(s, n)'
  <2>1. \A s, n : Src(s, n)' = Src(s, n)
    BY <1>1, SameFrames
  <2> QED BY <1>1, <2>1 DEF SatedInv
<1>4. PICK g \in DOMAIN job.gins : g = Src(s, n)
  BY TypeFacts, ChainFacts DEF Src
<1>5. CASE closed[g]
  <2>1. Sated(s, n)
    BY <1>4, <1>5 DEF SatedInv
  <2> QED BY <1>1, <1>2, <1>4, <1>5, <2>1, SatedAfter
<1>6. CASE ~closed[g] /\ Refuses(g)
  <2>1. job.gouts[s].kind = "trim" /\ Ended(s)
    BY <1>4, <1>6 DEF Refuses, Src
  <2>2. Len(Raw(s)) > job.gouts[s].n
    BY <1>4, <1>6, <2>1 DEF Ended, Src
  <2>3. Settled(s)
    BY <2>1, <2>2, EnoughSettles
  <2>4. Settled(s)'
    BY <1>1, <1>2, <2>3, SettledAfter
  <2> QED BY <2>4 DEF Sated
<1>7. CASE ~closed[g] /\ ~Refuses(g)
  <2>1. StopInput /\ job.gins[g].in = in
    BY <1>3, <1>4, <1>7, PadsAfter
  <2>2. fed'[g] = OnPad(g, TimesOf(job.gins[g].in, job.gins[g].st, next[job.gins[g].in]))
    BY <1>7, <2>1, PadsAfter
  <2> QED BY <1>1, <1>2, <1>3, <1>4, <1>7, <2>1, <2>2, StopSates
<1> QED BY <1>5, <1>6, <1>7

\* The end of an input closes its pads.
LEMMA EofInvNext == ASSUME TypeInv, HandInv, PadInv, EofInv, [Next]_vars PROVE EofInv'
<1>1. SUFFICES ASSUME NEW g \in DOMAIN job.gins, eof'[job.gins[g].in] PROVE closed'[g]
  <2>1. UNCHANGED job
    BY DEF Next, Work, Skip, StopInput, EndInput, Read, ReadFails, FlushSub, Copy, Sub, Pull,
       PullStarts, PullDone, PullFrame, PullNothing, PullEnds, Drain, flush_copy_bsfs, WriteTrailer, CallFails, vars
  <2> QED BY <2>1 DEF EofInv
<1>2. PadGrows(g) /\ (StopInput /\ job.gins[g].in = in => closed'[g])
  BY PadsAfter
<1>3. CASE eof[job.gins[g].in]
  BY <1>2, <1>3 DEF EofInv, PadGrows
<1>4. CASE ~eof[job.gins[g].in]
  <2>1. StopInput /\ job.gins[g].in = in
    <3>1. job.gins[g].in \in DOMAIN job.inputs
      BY TypeFacts, PadFacts
    <3>2. CASE StopInput
      <4>1. eof' = [eof EXCEPT ![in] = TRUE]
        BY <3>2, StopGives
      <4> QED BY <1>1, <1>4, <3>1, <3>2, <4>1 DEF TypeInv, TypeOK
    <3>3. CASE ~StopInput
      <4>1. UNCHANGED eof
        BY <3>3 DEF Next, Work, Skip, Read, ReadFails, FlushSub, Copy, Sub, Pull, PullStarts, PullDone, PullFrame,
           PullNothing, PullEnds, Drain, flush_copy_bsfs, WriteTrailer, CallFails, vars, inVars
      <4> QED BY <1>1, <1>4, <4>1
    <3> QED BY <3>2, <3>3
  <2> QED BY <1>2, <2>1
<1> QED BY <1>3, <1>4

\* No input has ended.
LEMMA EofInvInit == ASSUME TypeInv, Init PROVE EofInv
<1> SUFFICES ASSUME NEW g \in DOMAIN job.gins PROVE ~eof[job.gins[g].in]
  BY DEF EofInv
<1>1. job.gins[g].in \in DOMAIN job.inputs
  BY TypeFacts, PadFacts
<1> QED BY <1>1 DEF Init

\* No pad is closed.
LEMMA SatedInvInit == ASSUME TypeInv, Init PROVE SatedInv
<1> SUFFICES ASSUME NEW s \in DOMAIN job.gouts, NEW n \in DOMAIN job.gouts[s].srcs PROVE ~closed[Src(s, n)]
  BY DEF SatedInv
<1>1. Src(s, n) \in DOMAIN job.gins
  BY TypeFacts, ChainFacts DEF Src
<1> QED BY <1>1 DEF Init

\* What a chain has made of what it was given so far, it has made for good.
LEMMA MadeStays ==
  ASSUME TypeInv, TypeInv', HandInv, PadInv, UNCHANGED job, \A g \in DOMAIN job.gins : PadGrows(g),
         NEW s \in DOMAIN job.gouts, NEW m \in Nat, \A n \in 1..m : HasIn(s, Raw(s), n)
  PROVE  /\ \A n \in 1..m : HasIn(s, Raw(s), n)'
         /\ Made(s, m)' = Made(s, m) /\ Made(s, m) \in Seq(Int) /\ EncOut(s, Made(s, m))' = EncOut(s, Made(s, m))
         /\ Finished(s, m) => Finished(s, m)'
<1>1. PICK r, q : r = Raw(s) /\ q = Raw(s)'
  OBVIOUS
<1>2. r \in Seq(Int) /\ q \in Seq(Int) /\ Begins(r, q) /\ JobOK
  BY <1>1, SoundIs, RawGrows, TypeFacts
<1>3. \A n \in 1..m : HasIn(s, q, n) /\ FrameIn(s, q, n) = FrameIn(s, r, n) /\ FrameIn(s, r, n) \in Int
  <2> TAKE n \in 1..m
  <2>1. n \in Nat \ {0} /\ HasIn(s, r, n)
    BY <1>1
  <2> QED BY <1>2, <2>1, FrameInBegins, FrameInType
<1>4. \A n : (HasIn(s, Raw(s), n)' <=> HasIn(s, q, n)) /\ FrameIn(s, Raw(s), n)' = FrameIn(s, q, n)
  BY <1>1 DEF HasIn, FrameIn, Pace
<1>5. Made(s, m) = [n \in 1..m |-> FrameIn(s, r, n)] /\ Made(s, m)' = [n \in 1..m |-> FrameIn(s, q, n)]
  BY <1>1, <1>4 DEF Made
<1>6. Made(s, m)' = Made(s, m) /\ Made(s, m) \in Seq(Int)
  BY <1>3, <1>5
<1>7. EncOut(s, Made(s, m))' = EncOut(s, Made(s, m))
  <2>1. PICK x : x = Made(s, m)
    OBVIOUS
  <2>2. EncOut(s, x)' = EncOut(s, x)
    BY SameFrames
  <2> QED BY <1>6, <2>1, <2>2
<1>8. ASSUME Finished(s, m) PROVE Finished(s, m)'
  <2>1. CASE m >= 1 /\ Past(s, FrameIn(s, r, m))
    <3>1. m \in 1..m
      BY <2>1
    <3>2. FrameIn(s, Raw(s), m)' = FrameIn(s, r, m)
      BY <1>3, <1>4, <3>1
    <3>3. PICK t : t = FrameIn(s, r, m)
      OBVIOUS
    <3>4. Past(s, t)'
      BY <2>1, <3>3, SameFrames
    <3> QED BY <2>1, <3>2, <3>3, <3>4 DEF Finished
  <2>2. CASE Ended(s) /\ ~HasIn(s, r, m + 1)
    <3>1. CASE \A i \in DOMAIN job.gouts[s].srcs : closed[job.gouts[s].srcs[i]]
      <4>1. \A i \in DOMAIN job.gouts[s].srcs : /\ job.gouts[s].srcs[i] \in DOMAIN job.gins
                                                /\ closed'[job.gouts[s].srcs[i]]
                                                /\ fed'[job.gouts[s].srcs[i]] = fed[job.gouts[s].srcs[i]]
        BY <1>2, <3>1, ChainFacts DEF PadGrows
      <4>2. Raw(s)' = Raw(s)
        <5>1. PICK x : x = job.gouts[s].srcs
          OBVIOUS
        <5>2. x \in Seq(Nat \ {0}) /\ Len(x) \in 1..2
          BY <1>2, <5>1, ChainFacts
        <5>3. 1 \in DOMAIN x /\ (Len(x) # 1 => 2 \in DOMAIN x)
          BY <5>2
        <5>4. /\ closed[x[1]] /\ closed'[x[1]] /\ fed'[x[1]] = fed[x[1]]
              /\ Len(x) # 1 => fed'[x[2]] = fed[x[2]]
          BY <3>1, <4>1, <5>1, <5>3
        <5>5. Raw(s) = IF Len(x) = 1 THEN fed[x[1]] ELSE Joined(fed[x[1]], fed[x[2]])
          BY <5>1, <5>4 DEF Raw
        <5>6. Raw(s)' = IF Len(x) = 1 THEN fed'[x[1]] ELSE Joined(fed'[x[1]], fed'[x[2]])
          BY <5>1, <5>4 DEF Raw
        <5> QED BY <5>4, <5>5, <5>6
      <4>3. Ended(s)'
        BY <4>1 DEF Ended
      <4> QED BY <1>1, <1>4, <2>2, <4>2, <4>3 DEF Finished
    <3>2. CASE job.gouts[s].kind = "trim" /\ Len(r) > job.gouts[s].n
      <4>1. Len(q) > job.gouts[s].n /\ job.gouts[s].n \in Nat
        BY <1>2, <3>2, ChainFacts DEF Begins
      <4>2. Ended(s)'
        BY <1>1, <3>2, <4>1 DEF Ended
      <4>3. m + 1 > job.gouts[s].n
        <5>1. r # <<>> /\ ~(m + 1 <= Len(r) /\ m + 1 <= job.gouts[s].n)
          BY <1>2, <2>2, <3>2, <4>1 DEF HasIn
        <5> QED BY <1>2, <3>2, <4>1, <5>1
      <4>4. ~HasIn(s, q, m + 1)
        BY <3>2, <4>1, <4>3 DEF HasIn
      <4> QED BY <1>4, <4>2, <4>4 DEF Finished
    <3> QED BY <1>1, <2>2, <3>1, <3>2 DEF Ended
  <2> QED BY <1>1, <1>8, <2>1, <2>2 DEF Finished
<1> QED BY <1>1, <1>3, <1>4, <1>6, <1>7, <1>8

\* A sink's output, what was written to it and what its encoder holds.
LEMMA SentType ==
  ASSUME TypeInv, NEW s \in DOMAIN job.gouts
  PROVE  /\ job.gouts[s].out \in DOMAIN job.outs /\ Got(job.gouts[s].out, "enc", s) \in Seq(Int)
         /\ enc[s] \in Seq(Int) /\ EncOut(s, enc[s]) \in Seq(Int)
<1>1. job.gouts[s].out \in DOMAIN job.outs
  BY TypeFacts, ChainFacts
<1>2. enc[s] \in Seq(Int)
  BY DEF TypeInv, TypeOK
<1>3. Got(job.gouts[s].out, "enc", s) \in Seq(Int)
  BY <1>1, GotType DEF TypeInv, TypeOK
<1> QED BY <1>1, <1>2, <1>3, TypeFacts, EncOutType

\* What leaves the muxed frames and the encoder of a sink alone.
LEMMA SentFrame ==
  ASSUME TypeInv, UNCHANGED job, NEW s \in DOMAIN job.gouts, enc'[s] = enc[s],
         \A p \in DOMAIN job.outs : Got(p, "enc", s)' = Got(p, "enc", s)
  PROVE  Sent(s)' = Sent(s)
<1>1. PICK p \in DOMAIN job.outs : p = job.gouts[s].out
  BY SentType
<1>2. Got(p, "enc", s)' = Got(p, "enc", s)
  BY <1>1
<1>3. PICK e : e = enc[s]
  OBVIOUS
<1>4. EncOut(s, e)' = EncOut(s, e)
  BY SameFrames
<1> QED BY <1>1, <1>2, <1>3, <1>4 DEF Sent

\* What is encoded moves from the encoder to the output.
LEMMA SentEncoded ==
  ASSUME TypeInv, UNCHANGED job, NEW s \in DOMAIN job.gouts, NEW x \in Seq(Int), muxed' = Encoded(s, x)
  PROVE  /\ Got(job.gouts[s].out, "enc", s)' = Got(job.gouts[s].out, "enc", s) \o EncOut(s, x)
         /\ \A n : n # s => \A p \in DOMAIN job.outs : Got(p, "enc", n)' = Got(p, "enc", n)
<1>1. JobOK /\ s \in Nat /\ EncOut(s, x) \in Seq(Int) /\ muxed \in [DOMAIN job.outs -> Seq(UnitType)]
  <2>1. JobOK /\ EncOut(s, x) \in Seq(Int)
    BY TypeFacts, EncOutType
  <2>2. s \in Nat
    BY <2>1, JobFacts
  <2> QED BY <2>1, <2>2 DEF TypeInv, TypeOK
<1>2. PICK o \in DOMAIN job.outs, y \in Seq(Int) : o = job.gouts[s].out /\ y = EncOut(s, x)
  BY <1>1, SentType
<1>3. muxed' = Muxed(o, "enc", s, y)
  BY <1>2 DEF Encoded
<1>4. Got(o, "enc", s)' = Got(o, "enc", s) \o y
  <2>1. PICK l \in {"enc", "cpy", "sub"}, n \in Nat : l = "enc" /\ n = s
    BY <1>1
  <2>2. muxed' = Muxed(o, l, n, y)
    BY <1>3, <2>1
  <2>3. Got(o, l, n)' = Got(o, l, n) \o y
    BY <1>1, <2>2, GotAdds
  <2> QED BY <2>1, <2>3
<1>5. \A n : n # s => \A p \in DOMAIN job.outs : Got(p, "enc", n)' = Got(p, "enc", n)
  BY <1>1, <1>3, GotAdds
<1>6. Got(job.gouts[s].out, "enc", s)' = Got(o, "enc", s)'
  BY <1>2
<1> QED BY <1>2, <1>4, <1>5, <1>6

\* Of all steps, only a sink that gives a frame changes what was sent of it.
LEMMA SentStays ==
  ASSUME TypeInv, UNCHANGED job, [Next]_vars, NEW s \in DOMAIN job.gouts, ~(PullFrame /\ k = s)
  PROVE  Sent(s)' = Sent(s)
<1>1. CASE UNCHANGED <<muxed, enc>>
  BY <1>1, SentFrame DEF Got
<1>2. CASE FlushSub
  <2>1. UNCHANGED enc
    BY <1>2 DEF FlushSub, sinkVars
  <2>2. CASE ~UNCHANGED muxed
    <3>1. ~(k > Len(job.subs)) /\ write_sub_pkt(k, cue[k]) /\ pc = "flushsub"
      BY <1>2, <2>2 DEF FlushSub
    <3>2. k \in DOMAIN job.subs
      BY <3>1, TypeFacts, JobFacts, InDomain DEF TypeInv, TypeOK
    <3>3. cue[k] \in Seq(Nat)
      BY <3>2 DEF TypeInv, TypeOK
    <3> QED BY <2>1, <3>1, <3>2, <3>3, SubWrites, SentFrame
  <2> QED BY <1>1, <2>1, <2>2
<1>3. CASE Sub
  <2>1. UNCHANGED enc /\ pc = "sub"
    BY <1>3 DEF Sub, sinkVars
  <2>2. CASE ~UNCHANGED muxed
    <3>1. ~(k > Len(job.subs)) /\ write_sub_pkt(k, Through(cue[k], pkt.t)[1])
      BY <1>3, <2>2 DEF Sub
    <3>2. k \in DOMAIN job.subs
      BY <2>1, <3>1, TypeFacts, JobFacts, InDomain DEF TypeInv, TypeOK
    <3>3. cue[k] \in Seq(Nat) /\ Len(cue[k]) <= Lag /\ pkt.t \in Nat
      BY <2>1, <3>2 DEF TypeInv, TypeOK, Handling, PktType
    <3>4. Through(cue[k], pkt.t)[1] \in Seq(Nat)
      BY <3>3, ThroughType, ProcessAssumption
    <3> QED BY <2>1, <3>1, <3>2, <3>4, SubWrites, SentFrame
  <2> QED BY <1>1, <2>1, <2>2
<1>4. CASE Copy
  <2>1. UNCHANGED enc /\ pc = "copy"
    BY <1>4 DEF Copy, sinkVars
  <2>2. CASE ~UNCHANGED muxed
    <3> DEFINE io == IF job.cpys[k].bsf THEN Through(held[k], pkt.t) ELSE <<<<pkt.t>>, <<>>>>
    <3>1. ~(k > Len(job.cpys)) /\ write_copy_pkt(k, io[1])
      BY <1>4, <2>2 DEF Copy
    <3>2. k \in DOMAIN job.cpys
      BY <2>1, <3>1, TypeFacts, JobFacts, InDomain DEF TypeInv, TypeOK
    <3>3. pkt \in PktType /\ pkt.t \in Nat /\ held[k] \in Seq(Nat) /\ Len(held[k]) <= Lag
      BY <2>1, <3>2 DEF TypeInv, TypeOK, Handling, PktType
    <3>4. io[1] \in Seq(Nat)
      BY <3>3, ThroughType, ProcessAssumption
    <3> HIDE DEF io
    <3> QED BY <2>1, <3>1, <3>2, <3>4, CopyWrites, SentFrame
  <2> QED BY <1>1, <2>1, <2>2
<1>5. CASE flush_copy_bsfs
  <2>1. UNCHANGED enc /\ pc = "bsf"
    BY <1>5 DEF flush_copy_bsfs, sinkVars
  <2>2. CASE ~UNCHANGED muxed
    <3>1. ~(k > Len(job.cpys)) /\ write_copy_pkt(k, held[k])
      BY <1>5, <2>2 DEF flush_copy_bsfs
    <3>2. k \in DOMAIN job.cpys
      BY <2>1, <3>1, TypeFacts, JobFacts, InDomain DEF TypeInv, TypeOK
    <3>3. held[k] \in Seq(Nat)
      BY <3>2 DEF TypeInv, TypeOK
    <3> QED BY <2>1, <3>1, <3>2, <3>3, CopyWrites, SentFrame
  <2> QED BY <1>1, <2>1, <2>2
<1>6. CASE Drain
  <2>1. CASE ~(k > Len(job.gouts))
    <3>1. k \in DOMAIN job.gouts
      BY <1>6, <2>1, TypeFacts, JobFacts, InDomain DEF Drain, TypeInv, TypeOK
    <3>2. muxed' = Encoded(k, enc[k]) /\ enc' = [enc EXCEPT ![k] = <<>>]
      BY <1>6, <2>1 DEF Drain
    <3>3. enc[k] \in Seq(Int) /\ enc'[k] = <<>> /\ (k # s => enc'[s] = enc[s])
      BY <3>1, <3>2 DEF TypeInv, TypeOK
    <3>4. CASE k # s
      <4>1. \A p \in DOMAIN job.outs : Got(p, "enc", s)' = Got(p, "enc", s)
        BY <3>1, <3>2, <3>3, <3>4, SentEncoded
      <4> QED BY <3>3, <3>4, <4>1, SentFrame
    <3>5. CASE k = s
      <4>1. Got(job.gouts[s].out, "enc", s)' = Sent(s)
        BY <3>1, <3>2, <3>3, <3>5, SentEncoded DEF Sent
      <4>2. PICK e : e = enc'[s]
        OBVIOUS
      <4>3. EncOut(s, e)' = EncOut(s, e)
        BY SameFrames
      <4>4. EncOut(s, e) = <<>>
        <5>1. 0 \in Int
          OBVIOUS
        <5> QED BY <3>3, <3>5, <4>2, <5>1, TypeFacts, EncOutOne
      <4>5. Sent(s)' = Sent(s) \o <<>>
        BY <4>1, <4>2, <4>3, <4>4 DEF Sent
      <4>6. Sent(s) \in Seq(Int)
        BY SentType DEF Sent
      <4> QED BY <4>5, <4>6
    <3> QED BY <3>4, <3>5
  <2>2. CASE k > Len(job.gouts)
    BY <1>1, <1>6, <2>2 DEF Drain
  <2> QED BY <2>1, <2>2
<1>7. CASE PullFrame
  <2>1. k \in DOMAIN job.gouts /\ k # s /\ HasFrame(k, taken[k] + 1)
    BY <1>7 DEF PullFrame
  <2>2. taken[k] \in Nat /\ enc[k] \in Seq(Int)
    BY <2>1 DEF TypeInv, TypeOK
  <2>3. PICK t \in Int : t = FrameAt(k, taken[k] + 1)
    BY <2>1, <2>2, FrameType
  <2>4. CASE ~UNCHANGED muxed
    <3>1. muxed' = Encoded(k, Through(enc[k], t)[1]) /\ enc' = [enc EXCEPT ![k] = Through(enc[k], t)[2]]
      BY <1>7, <2>3, <2>4 DEF PullFrame
    <3>2. Through(enc[k], t)[1] \in Seq(Int)
      BY <2>2, <2>3 DEF Through
    <3>3. enc'[s] = enc[s]
      BY <2>1, <3>1 DEF TypeInv, TypeOK
    <3>4. \A p \in DOMAIN job.outs : Got(p, "enc", s)' = Got(p, "enc", s)
      BY <2>1, <3>1, <3>2, SentEncoded
    <3> QED BY <3>3, <3>4, SentFrame
  <2>5. CASE UNCHANGED muxed
    <3>1. enc'[s] = enc[s]
      BY <1>7, <2>1 DEF PullFrame, TypeInv, TypeOK
    <3> QED BY <2>5, <3>1, SentFrame DEF Got
  <2> QED BY <2>4, <2>5
<1>8. CASE Skip \/ StopInput \/ ReadFails \/ Read \/ PullStarts \/ PullDone \/ PullNothing \/ PullEnds
           \/ WriteTrailer \/ CallFails \/ UNCHANGED vars
  <2>1. UNCHANGED <<muxed, enc>>
    BY <1>8 DEF Skip, StopInput, EndInput, ReadFails, Read, PullStarts, PullDone, PullNothing, PullEnds,
       WriteTrailer, CallFails, vars, sinkVars, outVars
  <2> QED BY <1>1, <2>1
<1> QED BY <1>2, <1>3, <1>4, <1>5, <1>6, <1>7, <1>8 DEF Next, Work, Pull

\* A step that sends nothing more of a sink and does not finish it.
LEMMA SinkStays ==
  ASSUME TypeInv, TypeInv', HandInv, PadInv, UNCHANGED job, \A g \in DOMAIN job.gins : PadGrows(g),
         NEW s \in DOMAIN job.gouts, NEW m \in Nat, SinkAs(s, m), Sent(s)' = Sent(s),
         done'[s] = done[s], done[s] \/ taken'[s] = taken[s]
  PROVE  SinkAs(s, m)'
<1>1. \A n \in 1..m : HasIn(s, Raw(s), n)
  BY DEF SinkAs
<1>2. /\ \A n \in 1..m : HasIn(s, Raw(s), n)'
      /\ EncOut(s, Made(s, m))' = EncOut(s, Made(s, m))
      /\ Finished(s, m) => Finished(s, m)'
  BY <1>1, MadeStays
<1>3. Sent(s)' = EncOut(s, Made(s, m))'
  BY <1>2 DEF SinkAs
<1>4. IF done'[s] THEN Finished(s, m)' ELSE m = taken'[s]
  <2>1. CASE done[s]
    BY <1>2, <2>1 DEF SinkAs
  <2>2. CASE ~done[s]
    BY <2>2 DEF SinkAs
  <2> QED BY <2>1, <2>2
<1> QED BY <1>2, <1>3, <1>4 DEF SinkAs

\* A sink that has no frame to give is finished once its chain has ended.
LEMMA SinkNothing ==
  ASSUME TypeInv, TypeInv', HandInv, PadInv, UNCHANGED job, \A g \in DOMAIN job.gins : PadGrows(g),
         NEW s \in DOMAIN job.gouts, s = k, NEW m \in Nat, PullNothing, SinkAs(s, m), Sent(s)' = Sent(s)
  PROVE  SinkAs(s, m)'
<1>1. ~done[s] /\ ~HasFrame(s, taken[s] + 1) /\ done'[s] = Ended(s) /\ UNCHANGED taken
  BY DEF PullNothing, TypeInv, TypeOK
<1>2. m = taken[s] /\ \A n \in 1..m : HasIn(s, Raw(s), n)
  BY <1>1 DEF SinkAs
<1>3. ~HasIn(s, Raw(s), m + 1)
  <2>1. m + 1 \in Nat \ {0}
    OBVIOUS
  <2> QED BY <1>1, <1>2, <2>1, FramesAre
<1>4. /\ \A n \in 1..m : HasIn(s, Raw(s), n)'
      /\ EncOut(s, Made(s, m))' = EncOut(s, Made(s, m))
      /\ Finished(s, m) => Finished(s, m)'
  BY <1>2, MadeStays
<1>5. Sent(s)' = EncOut(s, Made(s, m))'
  BY <1>4 DEF SinkAs
<1>6. IF done'[s] THEN Finished(s, m)' ELSE m = taken'[s]
  <2>1. CASE Ended(s)
    BY <1>1, <1>3, <1>4, <2>1 DEF Finished
  <2>2. CASE ~Ended(s)
    BY <1>1, <1>2, <2>2
  <2> QED BY <2>1, <2>2
<1> QED BY <1>4, <1>5, <1>6 DEF SinkAs

\* A sink that gives a frame has sent it, or it is past the window and the sink is finished.
LEMMA SinkGives ==
  ASSUME TypeInv, TypeInv', HandInv, PadInv, UNCHANGED job, \A g \in DOMAIN job.gins : PadGrows(g),
         NEW s \in DOMAIN job.gouts, s = k, NEW m \in Nat, PullFrame, SinkAs(s, m)
  PROVE  SinkAs(s, m + 1)'
<1>1. ~done[s] /\ HasFrame(s, taken[s] + 1) /\ taken'[s] = taken[s] + 1 /\ UNCHANGED <<fed, closed>>
  BY DEF PullFrame, padVars, TypeInv, TypeOK
<1>2. m = taken[s] /\ m + 1 \in Nat \ {0} /\ m + 1 \in Nat /\ \A n \in 1..m : HasIn(s, Raw(s), n)
  BY <1>1 DEF SinkAs
<1>3. PICK t : t = FrameAt(s, taken[s] + 1)
  OBVIOUS
<1>4. HasIn(s, Raw(s), m + 1) /\ t = FrameIn(s, Raw(s), m + 1) /\ t \in Int
  BY <1>1, <1>2, <1>3, FramesAre, FrameType
<1>5. \A n \in 1..(m + 1) : HasIn(s, Raw(s), n)
  BY <1>2, <1>4
<1>6. PICK a : a = Made(s, m)
  OBVIOUS
<1>7. a \in Seq(Int) /\ Made(s, m + 1) = Append(a, t)
  <2>1. a \in Seq(Int)
    BY <1>2, <1>6, MadeStays
  <2>2. a = [n \in 1..m |-> FrameIn(s, Raw(s), n)]
    BY <1>6 DEF Made
  <2>3. Made(s, m + 1) = [n \in 1..(m + 1) |-> FrameIn(s, Raw(s), n)]
    BY DEF Made
  <2>4. Made(s, m + 1) \in Seq(Int)
    BY <1>2, <1>5, MadeStays
  <2> QED BY <1>2, <1>4, <2>1, <2>2, <2>3, <2>4
<1>8. /\ \A n \in 1..(m + 1) : HasIn(s, Raw(s), n)'
      /\ EncOut(s, Made(s, m + 1))' = EncOut(s, Made(s, m + 1))
  BY <1>2, <1>5, MadeStays
<1>9. EncOut(s, Made(s, m + 1)) =
        IF Past(s, t) THEN EncOut(s, a) ELSE EncOut(s, a) \o <<t + Offset(job.outs[job.gouts[s].out])>>
  BY <1>4, <1>7, TypeFacts, EncOutAppend
<1>10. Sent(s) = EncOut(s, a)
  BY <1>6 DEF SinkAs
<1>11. CASE Past(s, t)
  <2>1. done'[s] /\ UNCHANGED <<enc, muxed>>
    BY <1>3, <1>11 DEF PullFrame, Past, TypeInv, TypeOK
  <2>2. Sent(s)' = Sent(s)
    BY <2>1, SentFrame DEF Got
  <2>3. FrameIn(s, Raw(s), m + 1)' = t
    BY <1>1, <1>4 DEF FrameIn, Pace, Raw
  <2>4. Past(s, t)'
    BY <1>11, SameFrames
  <2>5. Finished(s, m + 1)'
    BY <1>2, <2>3, <2>4 DEF Finished
  <2> QED BY <1>8, <1>9, <1>10, <1>11, <2>1, <2>2, <2>5 DEF SinkAs
<1>12. CASE ~Past(s, t)
  <2>1. /\ muxed' = Encoded(s, Through(enc[s], t)[1]) /\ UNCHANGED done
        /\ enc' = [enc EXCEPT ![s] = Through(enc[s], t)[2]]
    BY <1>3, <1>12 DEF PullFrame, Past
  <2>2. enc[s] \in Seq(Int) /\ Len(enc[s]) <= Lag /\ enc'[s] = Through(enc[s], t)[2]
    BY <2>1 DEF TypeInv, TypeOK
  <2>3. PICK h, x, y : h = enc[s] /\ x = Through(enc[s], t)[1] /\ y = Through(enc[s], t)[2]
    OBVIOUS
  <2>4. x \in Seq(Int) /\ y \in Seq(Int) /\ x \o y = h \o <<t>>
    <3>1. (x = h /\ y = <<t>>) \/ (h = <<>> /\ x = <<t>> /\ y = <<>>)
      BY <2>2, <2>3, ProcessAssumption DEF Through, ProcessAssumption
    <3>2. h \in Seq(Int) /\ <<t>> \in Seq(Int)
      BY <1>4, <2>2, <2>3
    <3>3. <<t>> \o <<>> = <<t>> /\ <<>> \o <<t>> = <<t>> /\ <<>> \in Seq(Int)
      BY <3>2
    <3>4. CASE x = h /\ y = <<t>>
      BY <3>2, <3>4
    <3>5. CASE h = <<>> /\ x = <<t>> /\ y = <<>>
      BY <3>2, <3>3, <3>5
    <3> QED BY <3>1, <3>4, <3>5
  <2>5. PICK G, p, q : G = Got(job.gouts[s].out, "enc", s) /\ p = EncOut(s, x) /\ q = EncOut(s, y)
    OBVIOUS
  <2>6. G \in Seq(Int) /\ p \in Seq(Int) /\ q \in Seq(Int)
    BY <2>4, <2>5, SentType, TypeFacts, EncOutType
  <2>7. Got(job.gouts[s].out, "enc", s)' = G \o p
    BY <2>1, <2>3, <2>4, <2>5, SentEncoded
  <2>8. EncOut(s, y)' = q
    BY <2>5, SameFrames
  <2>9. Sent(s)' = (G \o p) \o q
    BY <2>2, <2>3, <2>7, <2>8 DEF Sent
  <2>10. p \o q = EncOut(s, h) \o EncOut(s, <<t>>)
    <3>1. h \in Seq(Int) /\ <<t>> \in Seq(Int)
      BY <1>4, <2>2, <2>3
    <3>2. EncOut(s, x \o y) = p \o q
      BY <2>4, <2>5, TypeFacts, EncOutConcat
    <3>3. EncOut(s, h \o <<t>>) = EncOut(s, h) \o EncOut(s, <<t>>)
      BY <3>1, TypeFacts, EncOutConcat
    <3> QED BY <2>4, <3>2, <3>3
  <2>11. Sent(s)' = Sent(s) \o EncOut(s, <<t>>)
    <3>1. PICK b, c : b = EncOut(s, h) /\ c = EncOut(s, <<t>>)
      OBVIOUS
    <3>2. b \in Seq(Int) /\ c \in Seq(Int)
      <4>1. h \in Seq(Int) /\ <<t>> \in Seq(Int)
        BY <1>4, <2>2, <2>3
      <4> QED BY <3>1, <4>1, TypeFacts, EncOutType
    <3>3. (G \o p) \o q = G \o (b \o c)
      <4>1. (G \o p) \o q = G \o (p \o q)
        BY <2>6, JoinAssoc
      <4> QED BY <2>10, <3>1, <4>1
    <3>4. G \o (b \o c) = (G \o b) \o c
      BY <2>6, <3>2, JoinAssoc
    <3>5. Sent(s) = G \o b
      BY <2>3, <2>5, <3>1 DEF Sent
    <3> QED BY <2>9, <3>1, <3>3, <3>4, <3>5
  <2>12. EncOut(s, <<t>>) = <<t + Offset(job.outs[job.gouts[s].out])>>
    BY <1>4, <1>12, TypeFacts, EncOutOne
  <2>13. Sent(s)' = EncOut(s, Made(s, m + 1))'
    BY <1>8, <1>9, <1>10, <1>12, <2>11, <2>12
  <2> QED BY <1>1, <1>2, <1>8, <2>1, <2>13 DEF SinkAs
<1> QED BY <1>11, <1>12

\* A sink's frames are sent one after the other, and none after the one that finished it.
LEMMA SinkInvNext ==
  ASSUME TypeInv, TypeInv', HandInv, PadInv, SinkInv, [Next]_vars
  PROVE  SinkInv'
<1>1. UNCHANGED job
  BY DEF Next, Work, Skip, StopInput, EndInput, Read, ReadFails, FlushSub, Copy, Sub, Pull, PullStarts, PullDone,
     PullFrame, PullNothing, PullEnds, Drain, flush_copy_bsfs, WriteTrailer, CallFails, vars
<1>2. \A g \in DOMAIN job.gins : PadGrows(g)
  BY PadsAfter
<1>3. SUFFICES ASSUME NEW s \in DOMAIN job.gouts PROVE \E m \in Nat : SinkAs(s, m)'
  BY <1>1 DEF SinkInv
<1>4. PICK m \in Nat : SinkAs(s, m)
  BY DEF SinkInv
<1>5. CASE PullFrame /\ k = s
  <2>1. m + 1 \in Nat /\ SinkAs(s, m + 1)'
    BY <1>1, <1>2, <1>4, <1>5, SinkGives
  <2> QED BY <2>1
<1>6. CASE PullNothing /\ k = s
  <2>1. Sent(s)' = Sent(s)
    BY <1>1, <1>6, SentStays DEF PullNothing, PullFrame
  <2> QED BY <1>1, <1>2, <1>4, <1>6, <2>1, SinkNothing
<1>7. CASE ~((PullFrame \/ PullNothing) /\ k = s)
  <2>1. Sent(s)' = Sent(s)
    BY <1>1, <1>7, SentStays
  <2>2. taken \in [DOMAIN job.gouts -> Nat] /\ done \in [DOMAIN job.gouts -> BOOLEAN]
    BY DEF TypeInv, TypeOK
  <2>3. done'[s] = done[s] /\ (done[s] \/ taken'[s] = taken[s])
    <3>1. CASE PullFrame \/ PullNothing
      BY <1>7, <2>2, <3>1 DEF PullFrame, PullNothing
    <3>2. CASE PullDone
      BY <2>2, <3>2 DEF PullDone
    <3>3. CASE ~(PullFrame \/ PullNothing \/ PullDone)
      <4>1. UNCHANGED <<taken, done>>
        BY <3>3 DEF Next, Work, Skip, StopInput, EndInput, Read, ReadFails, FlushSub, Copy, Sub, Pull, PullStarts,
           PullEnds, Drain, flush_copy_bsfs, WriteTrailer, CallFails, vars, sinkVars
      <4> QED BY <4>1
    <3> QED BY <3>1, <3>2, <3>3
  <2>4. SinkAs(s, m)'
    BY <1>1, <1>2, <1>4, <2>1, <2>3, SinkStays
  <2> QED BY <2>4
<1> QED BY <1>5, <1>6, <1>7

\* No frame has been asked for.
LEMMA SinkInvInit == ASSUME TypeInv, Init PROVE SinkInv
<1> SUFFICES ASSUME NEW s \in DOMAIN job.gouts PROVE SinkAs(s, 0)
  BY DEF SinkInv
<1>1. PICK o \in DOMAIN job.outs : o = job.gouts[s].out
  BY SentType
<1>2. muxed[o] = <<>> /\ enc[s] = <<>> /\ ~done[s] /\ taken[s] = 0
  BY DEF Init
<1>3. Got(o, "enc", s) = <<>>
  BY <1>2, OnlyEmpty DEF Got, TimesIn
<1>4. Made(s, 0) = <<>>
  BY DEF Made
<1>5. EncOut(s, <<>>) = <<>>
  <2>1. 0 \in Int
    OBVIOUS
  <2> QED BY <2>1, TypeFacts, EncOutOne
<1>6. Sent(s) = <<>>
  BY <1>1, <1>2, <1>3, <1>5 DEF Sent
<1>7. \A n \in 1..0 : HasIn(s, Raw(s), n)
  OBVIOUS
<1> QED BY <1>2, <1>4, <1>5, <1>6, <1>7 DEF SinkAs

\* The last pull ends with every sink done, and the drain with every encoder empty.
DoneInv ==
  /\ pc = "pull" /\ then = "drain" => \A s \in DOMAIN job.gouts : s < k => done[s]
  /\ pc \in {"drain", "bsf", "trailer"} \/ Succeeded => \A s \in DOMAIN job.gouts : done[s]
  /\ pc = "drain" => \A s \in DOMAIN job.gouts : s < k => enc[s] = <<>>
  /\ pc \in {"bsf", "trailer"} \/ Succeeded => \A s \in DOMAIN job.gouts : enc[s] = <<>>

\* The job starts at its first read.
LEMMA DoneInvInit == ASSUME Init PROVE DoneInv
BY DEF Init, DoneInv, Succeeded

\* The last pull is of chains that have ended.
LEMMA AllEnded ==
  ASSUME TypeInv, EndInv, EofInv, then = "drain"
  PROVE  /\ \A g \in DOMAIN job.gins : closed[g]
         /\ \A s \in DOMAIN job.gouts : Ended(s)
<1>1. \A g \in DOMAIN job.gins : closed[g]
  <2> TAKE g \in DOMAIN job.gins
  <2>1. job.gins[g].in \in DOMAIN job.inputs
    BY TypeFacts, PadFacts
  <2> QED BY <2>1 DEF EndInv, EofInv
<1> QED BY <1>1, TypeFacts, ChainFacts DEF Ended

\* So it finishes every sink.
LEMMA DoneInvPull ==
  ASSUME TypeInv, EndInv, EofInv, DoneInv, Pull
  PROVE  DoneInv'
<1>0. k \in Nat /\ \A s \in DOMAIN job.gouts : s \in Nat /\ s >= 1 /\ s <= Len(job.gouts)
  BY TypeFacts, JobFacts DEF TypeInv, TypeOK
<1>1. UNCHANGED <<job, then>> /\ pc = "pull" /\ (pc' = "pull" \/ (pc' = then /\ k' = 1))
  BY DEF Pull, PullStarts, PullDone, PullFrame, PullNothing, PullEnds, PullReturns
<1>2. then \in {"read", "copy", "drain"}
  BY <1>1 DEF TypeInv, TypeOK
<1>3. CASE then # "drain"
  BY <1>1, <1>2, <1>3 DEF DoneInv, Succeeded
<1>4. CASE then = "drain"
  <2>1. \A s \in DOMAIN job.gouts : s < k => done[s]
    BY <1>1, <1>4 DEF DoneInv
  <2>2. done \in [DOMAIN job.gouts -> BOOLEAN]
    BY DEF TypeInv, TypeOK
  <2>3. CASE PullStarts
    <3>1. UNCHANGED done
      BY <2>3 DEF PullStarts, sinkVars
    <3>2. CASE job.gouts # <<>> /\ \A s \in DOMAIN job.gouts : done[s]
      <4>1. pc' = "drain" /\ k' = 1
        BY <1>4, <2>3, <3>2 DEF PullStarts, PullReturns
      <4> QED BY <1>0, <1>1, <3>1, <3>2, <4>1 DEF DoneInv, Succeeded
    <3>3. CASE ~(job.gouts # <<>> /\ \A s \in DOMAIN job.gouts : done[s])
      <4>1. pc' = "pull" /\ k' = 1
        BY <1>1, <2>3, <3>3 DEF PullStarts
      <4> QED BY <1>0, <1>1, <4>1 DEF DoneInv, Succeeded
    <3> QED BY <3>2, <3>3
  <2>4. CASE PullDone \/ PullFrame \/ PullNothing
    <3>1. pc' = "pull" /\ \A s \in DOMAIN job.gouts : s < k' => done'[s]
      <4>1. k \in DOMAIN job.gouts /\ pc' = "pull" /\ \A s \in DOMAIN job.gouts : s < k' => s < k \/ s = k
        BY <1>0, <1>1, <2>4 DEF PullDone, PullFrame, PullNothing
      <4>2. CASE PullDone
        BY <2>1, <4>1, <4>2 DEF PullDone
      <4>3. CASE PullFrame
        <5>1. (UNCHANGED <<done, k>>) \/ done' = [done EXCEPT ![k] = TRUE]
          BY <4>3 DEF PullFrame
        <5> QED BY <1>0, <2>1, <2>2, <4>1, <5>1
      <4>4. CASE PullNothing
        <5>1. done' = [done EXCEPT ![k] = Ended(k)]
          BY <4>4 DEF PullNothing
        <5>2. Ended(k)
          BY <1>4, <4>1, AllEnded
        <5> QED BY <1>0, <2>1, <2>2, <4>1, <5>1, <5>2
      <4> QED BY <2>4, <4>1, <4>2, <4>3, <4>4
    <3> QED BY <1>1, <3>1 DEF DoneInv, Succeeded
  <2>5. CASE PullEnds
    <3>1. UNCHANGED done /\ pc' = "drain" /\ k' = 1 /\ k > Len(job.gouts)
      BY <1>4, <2>5 DEF PullEnds, PullReturns, sinkVars
    <3>2. \A s \in DOMAIN job.gouts : done[s]
      <4> TAKE s \in DOMAIN job.gouts
      <4>1. s < k
        <5>1. Len(job.gouts) \in Nat
          BY TypeFacts, JobFacts
        <5> QED BY <1>0, <3>1, <5>1
      <4> QED BY <2>1, <4>1
    <3> QED BY <1>0, <1>1, <3>1, <3>2 DEF DoneInv, Succeeded
  <2> QED BY <2>3, <2>4, <2>5 DEF Pull
<1> QED BY <1>3, <1>4

\* And every encoder is drained before the trailers.
LEMMA DoneInvNext == ASSUME TypeInv, EndInv, EofInv, DoneInv, [Next]_vars PROVE DoneInv'
<1>0. k \in Nat /\ \A s \in DOMAIN job.gouts : s \in Nat /\ s >= 1 /\ s <= Len(job.gouts)
  BY TypeFacts, JobFacts DEF TypeInv, TypeOK
<1>1. CASE Pull BY <1>1, DoneInvPull
<1>2. CASE Drain
  <2>1. UNCHANGED <<job, then, done, rc>> /\ pc = "drain"
    BY <1>2 DEF Drain
  <2>2. enc \in [DOMAIN job.gouts -> Seq(Int)] /\ Len(job.gouts) \in Nat
    BY TypeFacts, JobFacts DEF TypeInv, TypeOK
  <2>3. (\A s \in DOMAIN job.gouts : done[s]) /\ \A s \in DOMAIN job.gouts : s < k => enc[s] = <<>>
    BY <2>1 DEF DoneInv
  <2>4. CASE k > Len(job.gouts)
    <3>1. pc' = "bsf" /\ UNCHANGED enc
      BY <1>2, <2>4 DEF Drain, Goto
    <3>2. \A s \in DOMAIN job.gouts : enc[s] = <<>>
      BY <1>0, <2>2, <2>3, <2>4
    <3> QED BY <2>1, <2>3, <3>1, <3>2 DEF DoneInv, Succeeded
  <2>5. CASE ~(k > Len(job.gouts))
    <3>1. pc' = "drain" /\ k' = k + 1 /\ enc' = [enc EXCEPT ![k] = <<>>]
      BY <1>2, <2>1, <2>5 DEF Drain
    <3>2. \A s \in DOMAIN job.gouts : s < k' => enc'[s] = <<>>
      BY <1>0, <2>2, <2>3, <3>1
    <3> QED BY <2>1, <2>3, <3>1, <3>2 DEF DoneInv, Succeeded
  <2> QED BY <2>4, <2>5
<1>3. CASE flush_copy_bsfs \/ WriteTrailer
  <2>1. UNCHANGED <<job, done, enc>> /\ pc \in {"bsf", "trailer"} /\ pc' \in {"bsf", "trailer", "end"}
    BY <1>3 DEF flush_copy_bsfs, WriteTrailer, Goto, sinkVars
  <2>2. (\A s \in DOMAIN job.gouts : done[s]) /\ \A s \in DOMAIN job.gouts : enc[s] = <<>>
    BY <2>1 DEF DoneInv
  <2> QED BY <2>1, <2>2 DEF DoneInv, Succeeded
<1>4. CASE ReadFails \/ CallFails
  <2>1. pc' = "end" /\ rc' = "failed"
    BY <1>4 DEF ReadFails, CallFails
  <2> QED BY <2>1 DEF DoneInv, Succeeded
<1>5. CASE Skip
  <2>1. (pc' = "pull" /\ k' = 0) \/ pc' = "read"
    BY <1>5 DEF Skip
  <2>2. UNCHANGED job
    BY <1>5 DEF Skip
  <2> QED BY <1>0, <2>1, <2>2 DEF DoneInv, Succeeded
<1>6. CASE StopInput \/ Copy \/ Sub
  <2>1. pc' \in {"flushsub", "copy", "sub", "read"}
    BY <1>6 DEF StopInput, EndInput, Copy, Sub, Goto
  <2> QED BY <2>1 DEF DoneInv, Succeeded
<1>7. CASE Read \/ FlushSub
  <2>1. pc' = "flushsub" \/ (pc' = "pull" /\ then' # "drain")
    BY <1>7 DEF Read, FlushSub
  <2> QED BY <2>1 DEF DoneInv, Succeeded
<1>8. CASE UNCHANGED vars
  BY <1>8 DEF vars, ctl, sinkVars, DoneInv, Succeeded
<1> QED BY <1>1, <1>2, <1>3, <1>4, <1>5, <1>6, <1>7, <1>8 DEF Next, Work

\* The beginning of a run in order is in order.
LEMMA BeginsOrder ==
  ASSUME NEW p \in Seq(Int), NEW q \in Seq(Int), Begins(p, q), InOrder(q)
  PROVE  InOrder(p)
<1>1. ASSUME NEW m \in 1..Len(p), NEW n \in 1..Len(p), m <= n PROVE p[m] <= p[n]
  <2>1. m \in 1..Len(q) /\ n \in 1..Len(q) /\ p[m] = q[m] /\ p[n] = q[n]
    BY DEF Begins
  <2> QED BY <1>1, <2>1 DEF InOrder
<1> QED BY <1>1 DEF InOrder

\* A pad's frames in order start at zero or later.
LEMMA PadAboveZero ==
  ASSUME JobOK, NEW g \in DOMAIN job.gins, WholePad(g) \in Seq(Int), InOrder(WholePad(g)),
         Times(job.gins[g].in, job.gins[g].st) \in Seq(Nat)
  PROVE  \A n \in 1..Len(WholePad(g)) : WholePad(g)[n] >= 0
<1>1. PICK T, ts, w, z : /\ T = Times(job.gins[g].in, job.gins[g].st) /\ ts = Kept(g, T) /\ w = WholePad(g)
                         /\ z = Zero(g, ts)
  OBVIOUS
<1>2. T \in Seq(Nat) /\ ts \in Seq(Nat) /\ ts \in Seq(Int) /\ z \in Nat
  <2>1. T \in Seq(Nat) /\ ts \in Seq(Nat)
    BY <1>1, KeptType
  <2> QED BY <1>1, <2>1, ZeroType
<1>3. w = Shifted(ts, -z)
  BY <1>1, WholePadIs DEF OnPad
<1>4. w \in Seq(Int) /\ Len(w) = Len(ts)
  <2>1. -z \in Int
    BY <1>2
  <2> QED BY <1>2, <1>3, <2>1, ShiftedType
<1>5. \A n \in 1..Len(w) : w[n] = ts[n] - z /\ ts[n] \in Nat
  <2> TAKE n \in 1..Len(w)
  <2>1. n \in DOMAIN ts
    BY <1>2, <1>4
  <2>2. w[n] = ts[n] + -z /\ ts[n] \in Nat
    BY <1>2, <1>3, <2>1 DEF Shifted
  <2> QED BY <1>2, <2>2
<1>6. SUFFICES ASSUME NEW n \in 1..Len(w) PROVE w[n] >= 0
  BY <1>1
<1>7. CASE FileOf(g).seek = None
  <2>1. z = 0
    BY <1>1, <1>7 DEF Zero
  <2> QED BY <1>5, <2>1
<1>8. ts # <<>>
  BY <1>4, <1>6
<1>9. CASE FileOf(g).seek # None /\ FileOf(g).accurate
  <2>1. z = FileOf(g).seek
    BY <1>1, <1>8, <1>9 DEF Zero
  <2>2. PICK S : S = {t \in Int : FileOf(g).seek # None /\ FileOf(g).accurate => t >= FileOf(g).seek}
    OBVIOUS
  <2>3. ts = Only(T, S)
    BY <1>1, <2>2 DEF Kept, FileOf, Input
  <2>4. ts \in Seq(Nat \cap S)
    BY <1>2, <2>3, OnlyType
  <2>5. ts[n] \in S
    <3>1. n \in DOMAIN ts
      BY <1>2, <1>4
    <3> QED BY <2>4, <3>1
  <2>6. ts[n] >= z
    BY <1>9, <2>1, <2>2, <2>5
  <2> QED BY <1>2, <1>5, <2>6
<1>10. CASE FileOf(g).seek # None /\ ~FileOf(g).accurate
  <2>1. z = ts[1]
    BY <1>1, <1>8, <1>10 DEF Zero
  <2>2. 1 \in 1..Len(w) /\ 1 <= n
    BY <1>4
  <2>3. w[1] = 0
    BY <1>2, <1>5, <2>1, <2>2
  <2>4. w[1] <= w[n]
    BY <1>1, <1>6, <2>2 DEF InOrder
  <2> QED BY <2>3, <2>4, <1>4
<1> QED BY <1>7, <1>9, <1>10

\* A second source's clock starts at zero or later.
LEMMA JoinOffUp ==
  ASSUME NEW a \in Seq(Int), \A n \in 1..Len(a) : a[n] >= 0
  PROVE  JoinOff(a) \in Nat
<1>1. CASE a = <<>> BY <1>1 DEF JoinOff
<1>2. CASE a # <<>>
  <2>1. Len(a) \in 1..Len(a)
    BY <1>2
  <2>2. PICK x : x = a[Len(a)]
    OBVIOUS
  <2>3. x \in Int /\ x >= 0
    BY <2>1, <2>2
  <2> QED BY <1>2, <2>2, <2>3 DEF JoinOff
<1> QED BY <1>1, <1>2

\* What a chain should be given, and what it was given, come in order.
LEMMA RawOrder ==
  ASSUME TypeInv, HandInv, PadInv, FramesInOrder, NEW s \in DOMAIN job.gouts
  PROVE  /\ InOrder(Raw(s)) /\ InOrder(WholeRaw(s)) /\ InOrder(SoundRaw(s))
         /\ ~Single(s) => JoinOff(WholePad(Src(s, 1))) \in Nat
<1>1. ASSUME NEW g \in DOMAIN job.gins
      PROVE  /\ InOrder(WholePad(g)) /\ InOrder(fed[g]) /\ WholePad(g) \in Seq(Int) /\ fed[g] \in Seq(Int)
             /\ \A n \in 1..Len(WholePad(g)) : WholePad(g)[n] >= 0
             /\ \A n \in 1..Len(fed[g]) : fed[g][n] >= 0
  <2>1. WholePad(g) \in Seq(Int) /\ fed[g] \in Seq(Int) /\ Begins(fed[g], WholePad(g)) /\ InOrder(WholePad(g))
    BY PadTaken DEF FramesInOrder
  <2>2. InOrder(fed[g])
    BY <2>1, BeginsOrder
  <2>3. Times(job.gins[g].in, job.gins[g].st) \in Seq(Nat)
    <3>1. PICK i : i = job.gins[g].in
      OBVIOUS
    <3>2. i \in DOMAIN job.inputs
      BY <3>1, TypeFacts, PadFacts
    <3>3. Final(i) \in Nat /\ Valid(i, Final(i))
      <4>1. Len(Input(i).pkts) \in Nat /\ MaxReads \in Nat
        BY <3>2, TypeFacts, InputFacts, ProcessAssumption DEF ProcessAssumption
      <4> QED BY <4>1 DEF Final, Valid
    <3>4. TimesOf(i, job.gins[g].st, Final(i)) \in Seq(Nat)
      BY <3>2, <3>3, TypeFacts, TimesOfType
    <3> QED BY <3>1, <3>4 DEF Times
  <2>4. \A n \in 1..Len(WholePad(g)) : WholePad(g)[n] >= 0
    BY <2>1, <2>3, TypeFacts, PadAboveZero
  <2>5. ASSUME NEW n \in 1..Len(fed[g]) PROVE fed[g][n] >= 0
    <3>1. n \in 1..Len(WholePad(g)) /\ fed[g][n] = WholePad(g)[n]
      BY <2>1 DEF Begins
    <3> QED BY <2>4, <3>1
  <2> QED BY <2>1, <2>2, <2>4, <2>5
<1>2. CASE Single(s)
  <2>1. Src(s, 1) \in DOMAIN job.gins /\ Raw(s) = fed[Src(s, 1)]
    BY <1>2, RawIs
  <2>2. WholeRaw(s) = WholePad(Src(s, 1)) /\ SoundRaw(s) = fed[Src(s, 1)]
    BY <1>2 DEF WholeRaw, SoundRaw
  <2> QED BY <1>1, <1>2, <2>1, <2>2
<1>3. CASE ~Single(s)
  <2>1. PICK g, h : g = Src(s, 1) /\ h = Src(s, 2)
    OBVIOUS
  <2>2. g \in DOMAIN job.gins /\ h \in DOMAIN job.gins
        /\ Raw(s) = Joined(fed[g], IF closed[g] THEN fed[h] ELSE <<>>)
    BY <1>3, <2>1, RawIs
  <2>3. InOrder(<<>>) /\ <<>> \in Seq(Int)
    BY DEF InOrder
  <2>4. PICK b : b = IF closed[g] THEN fed[h] ELSE <<>>
    OBVIOUS
  <2>5. b \in Seq(Int) /\ InOrder(b) /\ \A n \in 1..Len(b) : b[n] >= 0
    <3>1. CASE closed[g]
      BY <1>1, <2>2, <2>4, <3>1
    <3>2. CASE ~closed[g]
      BY <2>3, <2>4, <3>2
    <3> QED BY <3>1, <3>2
  <2>6. InOrder(Raw(s))
    BY <1>1, <2>2, <2>4, <2>5, JoinedOrder
  <2>7. InOrder(WholeRaw(s))
    <3>1. WholeRaw(s) = Joined(WholePad(g), WholePad(h))
      BY <1>3, <2>1 DEF WholeRaw
    <3> QED BY <1>1, <2>2, <3>1, JoinedOrder
  <2>8. InOrder(SoundRaw(s))
    BY <2>7, SoundIs, BeginsOrder
  <2>9. JoinOff(WholePad(g)) \in Nat
    BY <1>1, <2>2, JoinOffUp
  <2> QED BY <2>1, <2>6, <2>7, <2>8, <2>9
<1> QED BY <1>2, <1>3

\* Frame n of a chain is what it should be, or past the window both ways.
Agree(s, n) ==
  \/ /\ HasIn(s, Raw(s), n) /\ HasIn(s, WholeRaw(s), n)
     /\ FrameIn(s, Raw(s), n) = FrameIn(s, WholeRaw(s), n)
  \/ /\ HasIn(s, Raw(s), n) => Past(s, FrameIn(s, Raw(s), n))
     /\ HasIn(s, WholeRaw(s), n) => Past(s, FrameIn(s, WholeRaw(s), n))

\* Past a frame that is past the window, all are.
LEMMA PastOn ==
  ASSUME JobOK, NEW s \in DOMAIN job.gouts, NEW raw \in Seq(Int), InOrder(raw), NEW m \in Nat \ {0},
         NEW n \in Nat \ {0}, m <= n, Past(s, FrameIn(s, raw, m)), HasIn(s, raw, n)
  PROVE  Past(s, FrameIn(s, raw, n))
<1>1. HasIn(s, raw, m) /\ FrameIn(s, raw, m) <= FrameIn(s, raw, n)
  BY FrameInOrder
<1>2. PICK t, u : t = FrameIn(s, raw, m) /\ u = FrameIn(s, raw, n)
  OBVIOUS
<1>3. t \in Int /\ u \in Int
  BY <1>1, <1>2, FrameInType
<1>4. Past(s, u)
  BY <1>1, <1>2, <1>3, PastUp
<1> QED BY <1>2, <1>4

\* A settled chain's frames are what they should be as far as the window goes.
LEMMA SettledAgree ==
  ASSUME TypeInv, HandInv, PadInv, FramesInOrder, NEW s \in DOMAIN job.gouts, Settled(s), NEW n \in Nat \ {0}
  PROVE  Agree(s, n)
<1>1. PICK r, v, w : r = Raw(s) /\ v = SoundRaw(s) /\ w = WholeRaw(s)
  OBVIOUS
<1>2. /\ r \in Seq(Int) /\ v \in Seq(Int) /\ w \in Seq(Int) /\ Begins(v, r) /\ Begins(v, w)
      /\ InOrder(r) /\ InOrder(v) /\ InOrder(w) /\ JobOK /\ SettledOn(s, v)
  BY <1>1, SoundIs, RawOrder, TypeFacts DEF Settled
<1>3. ASSUME NEW x \in Nat \ {0}, HasIn(s, v, x)
      PROVE  /\ HasIn(s, r, x) /\ FrameIn(s, r, x) = FrameIn(s, v, x)
             /\ HasIn(s, w, x) /\ FrameIn(s, w, x) = FrameIn(s, v, x)
  BY <1>2, <1>3, FrameInBegins
<1>4. HasIn(s, v, n) => Agree(s, n)
  BY <1>1, <1>3 DEF Agree
<1>5. CASE job.gouts[s].kind = "loop" /\ v # <<>>
  <2>1. HasIn(s, v, n)
    BY <1>5 DEF HasIn
  <2> QED BY <1>4, <2>1
<1>6. CASE job.gouts[s].kind = "trim" /\ Len(v) > job.gouts[s].n
  <2>1. job.gouts[s].n \in Nat
    BY <1>2, ChainFacts
  <2>2. CASE n <= job.gouts[s].n
    <3>1. HasIn(s, v, n)
      BY <1>2, <1>6, <2>1, <2>2 DEF HasIn
    <3> QED BY <1>4, <3>1
  <2>3. CASE ~(n <= job.gouts[s].n)
    <3>1. ~HasIn(s, r, n) /\ ~HasIn(s, w, n)
      BY <1>6, <2>3 DEF HasIn
    <3> QED BY <1>1, <3>1 DEF Agree
  <2> QED BY <2>2, <2>3
<1>7. CASE \E q \in 1..Len(v) : HasIn(s, v, q) /\ Past(s, FrameIn(s, v, q))
  <2>1. PICK q \in 1..Len(v) : HasIn(s, v, q) /\ Past(s, FrameIn(s, v, q))
    BY <1>7
  <2>2. q \in Nat \ {0}
    OBVIOUS
  <2>3. CASE n <= q
    <3>1. HasIn(s, v, n)
      BY <1>2, <2>1, <2>2, <2>3, FrameInOrder
    <3> QED BY <1>4, <3>1
  <2>4. CASE q <= n
    <3>1. Past(s, FrameIn(s, r, q)) /\ Past(s, FrameIn(s, w, q))
      BY <1>3, <2>1, <2>2
    <3>2. HasIn(s, r, n) => Past(s, FrameIn(s, r, n))
      BY <1>2, <2>2, <2>4, <3>1, PastOn
    <3>3. HasIn(s, w, n) => Past(s, FrameIn(s, w, n))
      BY <1>2, <2>2, <2>4, <3>1, PastOn
    <3> QED BY <1>1, <3>2, <3>3 DEF Agree
  <2> QED BY <2>2, <2>3, <2>4
<1> QED BY <1>2, <1>5, <1>6, <1>7 DEF SettledOn

\* A chain whose sources have ended, and that is not settled, misses only frames past the window.
LEMMA RestMissed ==
  ASSUME TypeInv, HandInv, PadInv, SatedInv, FramesInOrder, \A g \in DOMAIN job.gins : closed[g],
         NEW s \in DOMAIN job.gouts, ~Settled(s)
  PROVE  /\ Begins(Raw(s), WholeRaw(s))
         /\ \A n \in 1..Len(WholeRaw(s)) : n > Len(Raw(s)) => Past(s, Pace(s, WholeRaw(s)[n]))
<1>1. PICK r, w : r = Raw(s) /\ w = WholeRaw(s)
  OBVIOUS
<1>2. r \in Seq(Int) /\ w \in Seq(Int) /\ JobOK
  BY <1>1, SoundIs, TypeFacts
<1>3. \A n \in DOMAIN job.gouts[s].srcs :
        \/ fed[Src(s, n)] = WholePad(Src(s, n))
        \/ n = LastOf(s) /\ RestOut(s, Src(s, n), fed[Src(s, n)])
  <2> TAKE n \in DOMAIN job.gouts[s].srcs
  <2>1. closed[Src(s, n)]
    BY <1>2, ChainFacts DEF Src
  <2> QED BY <2>1 DEF SatedInv, Sated
<1>4. /\ LastOf(s) \in 1..2 /\ (Single(s) <=> LastOf(s) = 1) /\ \A n \in 1..LastOf(s) : n \in DOMAIN job.gouts[s].srcs
      /\ \A n \in 1..LastOf(s) : Src(s, n) \in DOMAIN job.gins
  <2>1. PICK q : q = job.gouts[s].srcs
    OBVIOUS
  <2>2. q \in Seq(Nat \ {0}) /\ Len(q) \in 1..2 /\ \A n \in DOMAIN q : q[n] \in DOMAIN job.gins
    BY <1>2, <2>1, ChainFacts
  <2>3. DOMAIN q = 1..Len(q)
    BY <2>2
  <2> QED BY <2>1, <2>2, <2>3 DEF LastOf, Single, Src
<1>5. ASSUME NEW g \in DOMAIN job.gins
      PROVE  WholePad(g) \in Seq(Int) /\ fed[g] \in Seq(Int) /\ Begins(fed[g], WholePad(g))
  BY PadTaken
<1>6. CASE Single(s)
  <2>1. PICK g : g = Src(s, 1)
    OBVIOUS
  <2>2. g \in DOMAIN job.gins /\ 1 \in DOMAIN job.gouts[s].srcs /\ r = fed[g] /\ w = WholePad(g)
    BY <1>1, <1>4, <1>6, <2>1, RawIs DEF WholeRaw
  <2>3. Begins(r, w)
    BY <1>5, <2>2
  <2>4. r = w \/ RestOut(s, g, r)
    BY <1>3, <2>1, <2>2
  <2>5. ASSUME NEW n \in 1..Len(w), n > Len(r) PROVE Past(s, Pace(s, w[n]))
    <3>1. n \in DOMAIN w /\ r # w
      BY <1>2, <2>5
    <3>2. n \in DOMAIN WholePad(g) /\ RestOut(s, g, r) /\ w = WholePad(g)
      BY <2>2, <2>4, <3>1
    <3> QED BY <2>5, <3>2 DEF RestOut
  <2> QED BY <1>1, <2>3, <2>5
<1>7. CASE ~Single(s)
  <2>1. PICK g, h : g = Src(s, 1) /\ h = Src(s, 2)
    OBVIOUS
  <2>2. /\ g \in DOMAIN job.gins /\ h \in DOMAIN job.gins /\ LastOf(s) = 2
        /\ 1 \in DOMAIN job.gouts[s].srcs /\ 2 \in DOMAIN job.gouts[s].srcs
    BY <1>4, <1>7, <2>1
  <2>3. PICK a, b, c, j : a = WholePad(g) /\ b = fed[h] /\ c = WholePad(h) /\ j = JoinOff(a)
    OBVIOUS
  <2>4. a \in Seq(Int) /\ b \in Seq(Int) /\ c \in Seq(Int) /\ Begins(b, c) /\ j \in Nat
    BY <1>5, <1>7, <2>1, <2>2, <2>3, RawOrder
  <2>5. fed[g] = a /\ (b = c \/ RestOut(s, h, b))
    BY <1>3, <2>1, <2>2, <2>3
  <2>6. r = Joined(a, b) /\ w = Joined(a, c)
    <3>1. closed[g]
      BY <2>2
    <3> QED BY <1>1, <1>7, <2>1, <2>3, <2>5, <3>1, RawIs DEF WholeRaw
  <2>7. Begins(r, w)
    BY <2>4, <2>6, JoinedBegins
  <2>8. /\ Len(r) = Len(a) + Len(b) /\ Len(w) = Len(a) + Len(c)
        /\ \A x \in 1..Len(c) : w[Len(a) + x] = c[x] + j
    <3>1. Len(r) = Len(a) + Len(b)
      BY <2>4, <2>6, JoinedAt
    <3>2. Len(w) = Len(a) + Len(c) /\ \A x \in 1..Len(c) : w[Len(a) + x] = c[x] + JoinOff(a)
      BY <2>4, <2>6, JoinedAt
    <3> QED BY <2>3, <3>1, <3>2
  <2>9. ASSUME NEW n \in 1..Len(w), n > Len(r) PROVE Past(s, Pace(s, w[n]))
    <3>1. PICK x \in 1..Len(c) : n = Len(a) + x
      <4>1. n - Len(a) \in 1..Len(c) /\ n = Len(a) + (n - Len(a))
        BY <2>4, <2>8, <2>9
      <4> QED BY <4>1
    <3>2. x > Len(b) /\ w[n] = c[x] + j
      BY <2>4, <2>8, <2>9, <3>1
    <3>3. Past(s, Pace(s, c[x]))
      <4>1. b # c
        BY <2>4, <3>1, <3>2
      <4>2. x \in DOMAIN WholePad(h)
        BY <2>3, <2>4, <3>1
      <4>3. RestOut(s, h, b)
        BY <2>5, <4>1
      <4> QED BY <2>3, <3>2, <4>2, <4>3 DEF RestOut
    <3>4. PICK t, u : t = c[x] /\ u = w[n]
      OBVIOUS
    <3>5. t \in Int /\ u \in Int /\ t <= u
      <4>1. t \in Int
        BY <2>4, <3>1, <3>4
      <4> QED BY <2>4, <3>2, <3>4, <4>1
    <3>6. PICK y, z : y = Pace(s, t) /\ z = Pace(s, u)
      OBVIOUS
    <3>7. y \in Int /\ z \in Int /\ y <= z
      BY <3>5, <3>6, PaceType, PaceUp
    <3>8. Past(s, z)
      BY <1>2, <3>3, <3>4, <3>6, <3>7, PastUp
    <3> QED BY <3>4, <3>6, <3>8
  <2> QED BY <1>1, <2>7, <2>9
<1> QED BY <1>6, <1>7

\* At the end every chain has what it should, as far as its window goes.
LEMMA AllAgree ==
  ASSUME TypeInv, HandInv, PadInv, SatedInv, FramesInOrder, \A g \in DOMAIN job.gins : closed[g],
         NEW s \in DOMAIN job.gouts, NEW n \in Nat \ {0}
  PROVE  Agree(s, n)
<1>1. CASE Settled(s) BY <1>1, SettledAgree
<1>2. CASE ~Settled(s)
  <2>1. PICK r, w : r = Raw(s) /\ w = WholeRaw(s)
    OBVIOUS
  <2>2. r \in Seq(Int) /\ w \in Seq(Int) /\ JobOK
    BY <2>1, SoundIs, TypeFacts
  <2>3. Begins(r, w) /\ \A x \in 1..Len(w) : x > Len(r) => Past(s, Pace(s, w[x]))
    BY <1>2, <2>1, RestMissed
  <2>4. CASE HasIn(s, r, n)
    <3>1. HasIn(s, w, n) /\ FrameIn(s, w, n) = FrameIn(s, r, n)
      BY <2>2, <2>3, <2>4, FrameInBegins
    <3> QED BY <2>1, <2>4, <3>1 DEF Agree
  <2>5. CASE ~HasIn(s, r, n) /\ ~HasIn(s, w, n)
    BY <2>1, <2>5 DEF Agree
  <2>6. CASE ~HasIn(s, r, n) /\ HasIn(s, w, n)
    <3>1. Past(s, FrameIn(s, w, n))
      <4>1. CASE job.gouts[s].kind = "loop"
        <5>1. r = <<>> /\ w # <<>>
          BY <2>6, <4>1 DEF HasIn
        <5>2. PICK t, u : t = w[1] /\ u = FrameIn(s, w, n)
          OBVIOUS
        <5>3. t \in Int /\ u \in Int /\ t <= u
          <6>1. t \in Int /\ u = t + n - 1
            BY <2>2, <4>1, <5>1, <5>2 DEF FrameIn
          <6> QED BY <6>1
        <5>4. Past(s, t)
          <6>1. 1 \in 1..Len(w) /\ 1 > Len(r)
            BY <2>2, <5>1
          <6>2. Pace(s, t) = t
            BY <4>1 DEF Pace
          <6> QED BY <2>3, <5>2, <6>1, <6>2
        <5>5. Past(s, u)
          BY <2>2, <5>3, <5>4, PastUp
        <5> QED BY <5>2, <5>5
      <4>2. CASE job.gouts[s].kind # "loop"
        <5>1. n \in 1..Len(w) /\ (job.gouts[s].kind = "trim" => n <= job.gouts[s].n) /\ w # <<>>
          BY <2>2, <2>6, <4>2 DEF HasIn
        <5>2. n > Len(r)
          <6>1. r = <<>> \/ ~(n <= Len(r))
            BY <2>6, <4>2, <5>1 DEF HasIn
          <6> QED BY <2>2, <6>1
        <5>3. FrameIn(s, w, n) = Pace(s, w[n])
          BY <4>2 DEF FrameIn
        <5> QED BY <2>3, <5>1, <5>2, <5>3
      <4> QED BY <4>1, <4>2
    <3> QED BY <2>1, <2>6, <3>1 DEF Agree
  <2> QED BY <2>4, <2>5, <2>6
<1> QED BY <1>1, <1>2

\* WholeChain, one frame at a time.
LEMMA WholeFramesAre ==
  ASSUME TypeInv, HandInv, PadInv, NEW s \in DOMAIN job.gouts
  PROVE  /\ WholeFrames(s) \in Seq(Int) /\ EncOut(s, WholeFrames(s)) = WholeChain(s)
         /\ \A n \in Nat \ {0} :
              /\ n <= Len(WholeFrames(s)) <=>
                   HasIn(s, WholeRaw(s), n) /\ (job.gouts[s].kind = "loop" => n <= MaxReads)
              /\ n <= Len(WholeFrames(s)) => WholeFrames(s)[n] = FrameIn(s, WholeRaw(s), n)
<1>1. PICK w, b : w = WholeRaw(s) /\ b = WholeFrames(s)
  OBVIOUS
<1>2. w \in Seq(Int) /\ JobOK /\ MaxReads \in Nat
  BY <1>1, SoundIs, TypeFacts, ProcessAssumption DEF ProcessAssumption
<1>3. EncOut(s, b) = WholeChain(s)
  BY <1>1 DEF WholeFrames, WholeChain, WholeRaw, Single, Src
<1>4. CASE job.gouts[s].kind = "loop" /\ w # <<>>
  <2>1. b = [n \in 1..MaxReads |-> w[1] + n - 1] /\ w[1] \in Int
    BY <1>1, <1>2, <1>4 DEF WholeFrames
  <2>2. b \in Seq(Int) /\ Len(b) = MaxReads
    BY <1>2, <2>1
  <2>3. \A n \in Nat \ {0} : HasIn(s, w, n) /\ FrameIn(s, w, n) = w[1] + n - 1
    BY <1>4 DEF HasIn, FrameIn
  <2>4. \A n \in Nat \ {0} : n <= Len(b) => b[n] = FrameIn(s, w, n)
    BY <1>2, <2>1, <2>2, <2>3
  <2> QED BY <1>1, <1>3, <1>4, <2>2, <2>3, <2>4
<1>5. CASE job.gouts[s].kind = "loop" /\ w = <<>>
  <2>1. b = <<>>
    BY <1>1, <1>5 DEF WholeFrames, Chained
  <2>2. b \in Seq(Int) /\ Len(b) = 0
    BY <2>1
  <2>3. \A n : ~HasIn(s, w, n)
    BY <1>5 DEF HasIn
  <2> QED BY <1>1, <1>3, <2>2, <2>3
<1>6. CASE job.gouts[s].kind # "loop"
  <2>1. b = Chained(job.gouts[s], w)
    BY <1>1, <1>6 DEF WholeFrames
  <2>2. b \in Seq(Int)
    <3>1. job.gouts[s] \in ChainType
      BY <1>2, JobFacts
    <3> QED BY <1>2, <2>1, <3>1, ChainedType
  <2>3. \A n \in Nat \ {0} : /\ n <= Len(b) <=> HasIn(s, w, n)
                             /\ HasIn(s, w, n) => b[n] = FrameIn(s, w, n)
    BY <1>2, <1>6, <2>1, ChainedAt
  <2> QED BY <1>1, <1>3, <1>6, <2>2, <2>3
<1> QED BY <1>4, <1>5, <1>6

\* At the end of a job that succeeds, an output has been given what it should.
LEMMA FramesAtEnd ==
  ASSUME TypeInv, EndInv, HandInv, PadInv, EofInv, SatedInv, SinkInv, DoneInv, FramesInOrder, LoopsBounded,
         Succeeded, NEW s \in DOMAIN job.gouts
  PROVE  Got(job.gouts[s].out, "enc", s) = WholeChain(s)
<1>1. then = "drain" /\ (\A x \in DOMAIN job.gouts : done[x]) /\ enc[s] = <<>>
  BY DEF EndInv, DoneInv
<1>2. \A g \in DOMAIN job.gins : closed[g]
  BY <1>1, AllEnded
<1>3. PICK m \in Nat : SinkAs(s, m)
  BY DEF SinkInv
<1>4. PICK r, w, a, b : r = Raw(s) /\ w = WholeRaw(s) /\ a = Made(s, m) /\ b = WholeFrames(s)
  OBVIOUS
<1>5. r \in Seq(Int) /\ w \in Seq(Int) /\ InOrder(r) /\ InOrder(w) /\ JobOK
  BY <1>4, SoundIs, RawOrder, TypeFacts
<1>6. /\ \A n \in 1..m : HasIn(s, r, n)
      /\ (m >= 1 /\ Past(s, FrameIn(s, r, m))) \/ ~HasIn(s, r, m + 1)
  BY <1>1, <1>3, <1>4 DEF SinkAs, Finished
<1>7. Got(job.gouts[s].out, "enc", s) = EncOut(s, a)
  <2>1. EncOut(s, <<>>) = <<>>
    <3>1. 0 \in Int
      OBVIOUS
    <3> QED BY <1>5, <3>1, EncOutOne
  <2>2. PICK G : G = Got(job.gouts[s].out, "enc", s)
    OBVIOUS
  <2>3. G \in Seq(Int)
    BY <2>2, SentType
  <2>4. Sent(s) = G \o <<>>
    BY <1>1, <2>1, <2>2 DEF Sent
  <2> QED BY <1>3, <1>4, <2>2, <2>3, <2>4 DEF SinkAs
<1>8. a \in Seq(Int) /\ Len(a) = m /\ \A n \in 1..m : a[n] = FrameIn(s, r, n)
  <2>1. a = [n \in 1..m |-> FrameIn(s, r, n)]
    BY <1>4 DEF Made
  <2>2. ASSUME NEW n \in 1..m PROVE FrameIn(s, r, n) \in Int
    <3>1. n \in Nat \ {0}
      OBVIOUS
    <3> QED BY <1>5, <1>6, <3>1, FrameInType
  <2> QED BY <2>1, <2>2
<1>9. /\ b \in Seq(Int) /\ EncOut(s, b) = WholeChain(s)
      /\ \A n \in Nat \ {0} :
           /\ n <= Len(b) <=> HasIn(s, w, n) /\ (job.gouts[s].kind = "loop" => n <= MaxReads)
           /\ n <= Len(b) => b[n] = FrameIn(s, w, n)
  BY <1>4, WholeFramesAre
<1>10. \A n \in Nat \ {0} :
         \/ HasIn(s, r, n) /\ HasIn(s, w, n) /\ FrameIn(s, r, n) = FrameIn(s, w, n)
         \/ /\ HasIn(s, r, n) => Past(s, FrameIn(s, r, n))
            /\ HasIn(s, w, n) => Past(s, FrameIn(s, w, n))
  BY <1>2, <1>4, AllAgree DEF Agree
<1>11. ASSUME NEW n \in Nat \ {0}
       PROVE  \/ n <= Len(a) /\ n <= Len(b) /\ a[n] = b[n]
              \/ (n <= Len(a) => Past(s, a[n])) /\ (n <= Len(b) => Past(s, b[n]))
  <2>1. n <= Len(b) => HasIn(s, w, n) /\ b[n] = FrameIn(s, w, n)
    BY <1>9
  <2>2. n <= Len(a) => n \in 1..m /\ HasIn(s, r, n) /\ a[n] = FrameIn(s, r, n)
    BY <1>6, <1>8
  <2>3. CASE n <= Len(a) /\ n <= Len(b)
    BY <1>10, <2>1, <2>2, <2>3
  <2>4. CASE n <= Len(a) /\ ~(n <= Len(b))
    <3>1. HasIn(s, r, n) /\ a[n] = FrameIn(s, r, n)
      BY <2>2, <2>4
    <3>2. CASE ~HasIn(s, w, n)
      BY <1>10, <2>4, <3>1, <3>2
    <3>3. CASE HasIn(s, w, n)
      <4>1. job.gouts[s].kind = "loop" /\ ~(n <= MaxReads) /\ w # <<>>
        BY <1>9, <2>4, <3>3 DEF HasIn
      <4>2. CASE out_cutoff(job.outs[job.gouts[s].out]) = Forever
        <5>1. ~HasIn(s, r, m + 1)
          BY <1>6, <4>2 DEF Past, Within
        <5>2. r = <<>>
          BY <4>1, <5>1 DEF HasIn
        <5> QED BY <3>1, <5>2 DEF HasIn
      <4>3. CASE MaxReads > 0 /\ Past(s, FrameIn(s, w, MaxReads))
        <5>1. PICK x \in Nat \ {0} : x = MaxReads
          BY <4>3, ProcessAssumption DEF ProcessAssumption
        <5>2. x <= n /\ Past(s, FrameIn(s, w, x))
          BY <4>1, <4>3, <5>1
        <5>3. Past(s, FrameIn(s, w, n))
          BY <1>5, <3>3, <5>2, PastOn
        <5>4. Past(s, a[n])
          BY <1>10, <3>1, <5>3
        <5> QED BY <2>4, <5>4
      <4> QED BY <1>4, <4>1, <4>2, <4>3 DEF LoopsBounded
    <3> QED BY <3>2, <3>3
  <2>5. CASE ~(n <= Len(a)) /\ n <= Len(b)
    <3>1. HasIn(s, w, n) /\ b[n] = FrameIn(s, w, n) /\ m < n
      BY <1>8, <2>1, <2>5
    <3>2. CASE ~HasIn(s, r, n)
      BY <1>10, <2>5, <3>1, <3>2
    <3>3. CASE HasIn(s, r, n)
      <4>1. HasIn(s, r, m + 1)
        <5>1. m + 1 \in Nat \ {0} /\ m + 1 <= n
          BY <3>1
        <5> QED BY <1>5, <3>3, <5>1, FrameInOrder
      <4>2. m \in Nat \ {0} /\ m <= n /\ Past(s, FrameIn(s, r, m))
        BY <1>6, <3>1, <4>1
      <4>3. Past(s, FrameIn(s, r, n))
        BY <1>5, <3>3, <4>2, PastOn
      <4>4. Past(s, b[n])
        BY <1>10, <3>1, <4>3
      <4> QED BY <2>5, <4>4
    <3> QED BY <3>2, <3>3
  <2>6. CASE ~(n <= Len(a)) /\ ~(n <= Len(b))
    BY <2>6
  <2> QED BY <2>3, <2>4, <2>5, <2>6
<1>12. EncOut(s, a) = EncOut(s, b)
  BY <1>5, <1>8, <1>9, <1>11, SameWanted
<1> QED BY <1>7, <1>9, <1>12

\* FramesRegular is about the job alone.
LEMMA SameRegular == ASSUME UNCHANGED job PROVE FramesRegular' => FramesRegular
<1>1. NearOrder' => NearOrder
  BY SameJob DEF NearOrder
<1>2. FramesInOrder' => FramesInOrder
  <2>1. \A g : InOrder(WholePad(g))' <=> InOrder(WholePad(g))
    BY SameFrames DEF InOrder
  <2> QED BY <2>1 DEF FramesInOrder
<1>3. PadsStartInTime' => PadsStartInTime
  <2>1. \A g : Zero(g, Kept(g, Times(job.gins[g].in, job.gins[g].st)))' =
                 Zero(g, Kept(g, Times(job.gins[g].in, job.gins[g].st)))
    <3> TAKE g
    <3>1. PICK T : T = Times(job.gins[g].in, job.gins[g].st)
      OBVIOUS
    <3>2. Times(job.gins[g].in, job.gins[g].st)' = T
      BY <3>1, SameLanes DEF Times
    <3>3. PICK q : q = Kept(g, T)
      OBVIOUS
    <3>4. Kept(g, T)' = q /\ Zero(g, q)' = Zero(g, q)
      BY <3>3, SameFrames
    <3> QED BY <3>1, <3>2, <3>3, <3>4
  <2>2. \A o, i : ZeroBound(o, i)' = ZeroBound(o, i)
    BY DEF ZeroBound, job_seek_offset, SeekBase
  <2>3. \A s, n : Src(s, n)' = Src(s, n)
    BY SameFrames
  <2> QED BY <2>1, <2>2, <2>3 DEF PadsStartInTime
<1>4. SourcesReach' => SourcesReach
  <2>1. \A s, f : Reaches(s, f)' <=> Reaches(s, f)
    BY SameFrames DEF Reaches
  <2>2. \A i, m : PacketOf(i, m)' = PacketOf(i, m) /\ in_cutoff(i)' = in_cutoff(i) /\ Final(i)' = Final(i)
    BY SameLanes DEF in_cutoff, SourceCutoff, SeekBase
  <2>3. \A g, i, m : OnPad(g, TimesOf(i, job.gins[g].st, m))' = OnPad(g, TimesOf(i, job.gins[g].st, m))
    <3> TAKE g, i, m
    <3>1. PICK T : T = TimesOf(i, job.gins[g].st, m)
      OBVIOUS
    <3>2. TimesOf(i, job.gins[g].st, m)' = T
      BY <3>1, SameLanes
    <3>3. OnPad(g, T)' = OnPad(g, T)
      BY SameFrames
    <3> QED BY <3>1, <3>2, <3>3
  <2>4. \A s, n : Src(s, n)' = Src(s, n) /\ LastOf(s)' = LastOf(s)
    BY SameFrames
  <2> QED BY <2>1, <2>2, <2>3, <2>4 DEF SourcesReach
<1> QED BY <1>1, <1>2, <1>3, <1>4 DEF FramesRegular

\* The inductive invariant.
FramesRunInv ==
  /\ TypeInv /\ EndInv /\ HandInv /\ PadInv /\ EofInv /\ SinkInv /\ DoneInv
  /\ FramesRegular => SatedInv

\* It holds throughout.
LEMMA FramesRunInvariant == Spec => []FramesRunInv
<1>1. Init => FramesRunInv
  BY TypeInvInit, EndInvInit, HandInvInit, PadInvInit, EofInvInit, SinkInvInit, DoneInvInit, SatedInvInit
     DEF FramesRunInv
<1>2. FramesRunInv /\ [Next]_vars => FramesRunInv'
  <2> SUFFICES ASSUME FramesRunInv, [Next]_vars PROVE FramesRunInv'
    OBVIOUS
  <2>1. TypeInv /\ EndInv /\ HandInv /\ PadInv /\ EofInv /\ SinkInv /\ DoneInv
    BY DEF FramesRunInv
  <2>2. TypeInv' /\ EndInv' /\ HandInv' /\ PadInv' /\ EofInv' /\ DoneInv'
    BY <2>1, TypeInvNext, EndInvNext, HandInvNext, PadInvNext, EofInvNext, DoneInvNext
  <2>3. SinkInv'
    BY <2>1, <2>2, SinkInvNext
  <2>4. UNCHANGED job
    BY DEF Next, Work, Skip, StopInput, EndInput, Read, ReadFails, FlushSub, Copy, Sub, Pull, PullStarts, PullDone,
       PullFrame, PullNothing, PullEnds, Drain, flush_copy_bsfs, WriteTrailer, CallFails, vars
  <2>5. FramesRegular' => SatedInv'
    <3> SUFFICES ASSUME FramesRegular' PROVE SatedInv'
      OBVIOUS
    <3>1. FramesRegular
      BY <2>4, SameRegular
    <3>2. SatedInv
      BY <3>1 DEF FramesRunInv
    <3> QED BY <2>1, <2>2, <3>1, <3>2, SatedInvNext DEF FramesRegular
  <2> QED BY <2>2, <2>3, <2>5 DEF FramesRunInv
<1> QED BY <1>1, <1>2, PTL DEF Spec

\* And says what a success means.
LEMMA FramesAll == FramesRunInv => (FramesRegular /\ LoopsBounded => FramesWhole)
BY FramesAtEnd DEF FramesRunInv, FramesWhole, FramesRegular

\* A job that succeeds has encoded every frame its windows have room for, whatever decoders and
\* encoders hold back and wherever its inputs were stopped, when its frames come in order and its
\* sources reach as far as their packets say (ffmpeg-wasi#38).
THEOREM FramesKept == Spec => [](FramesRegular /\ LoopsBounded => FramesWhole)
BY FramesRunInvariant, FramesAll, PTL

\* The three lanes.
LEMMA LanesTogether ==
  /\ (NearOrder => CuesWhole)
  /\ (NearOrder /\ StartsInTime /\ StartTogether => CopiesWhole)
  /\ (FramesRegular /\ LoopsBounded => FramesWhole)
  => (FramesRegular /\ LoopsBounded /\ StartsInTime /\ StartTogether => LanesWhole)
BY DEF LanesWhole, FramesRegular

\* A job that succeeds has written, in all three lanes, what its windows have room for, under what
\* the theorems on the frames, the copies and the cues ask of it (ffmpeg-wasi#28, #38, #39).
THEOREM LanesKept == Spec => [](FramesRegular /\ LoopsBounded /\ StartsInTime /\ StartTogether => LanesWhole)
BY FramesKept, CuesKept, CopiesWholeKept, LanesTogether, PTL
=============================================================================
