------------------------------ MODULE TimeProofs ------------------------------
(***************************************************************************)
(* Proofs about what a packet's times go through: Timeline, which puts it  *)
(* on an output's timeline, for every source and window; and Timestamps    *)
(* and MuxGuard, the last thing before the muxer, for every width of a     *)
(* timestamp, any streams and any number of packets.                       *)
(***************************************************************************)
EXTENDS Timeline, MuxGuard, FiniteSetTheorems, FilterProofs

(***************************************************************************)
(* Timeline                                                                *)
(***************************************************************************)
LEMMA RangeConcat ==
  ASSUME NEW T, NEW a \in Seq(T), NEW b \in Seq(T)
  PROVE  Range(a \o b) = Range(a) \cup Range(b)
<1>1. /\ a \o b \in Seq(T) /\ Len(a \o b) = Len(a) + Len(b)
      /\ Len(a) \in Nat /\ Len(b) \in Nat
      /\ DOMAIN a = 1..Len(a) /\ DOMAIN b = 1..Len(b) /\ DOMAIN (a \o b) = 1..(Len(a) + Len(b))
  OBVIOUS
<1>2. ASSUME NEW x \in Range(a \o b) PROVE x \in Range(a) \cup Range(b)
  <2>1. PICK i \in 1..(Len(a) + Len(b)) : x = (a \o b)[i]
    BY <1>1 DEF Range
  <2>2. CASE i <= Len(a)
    BY <1>1, <2>1, <2>2 DEF Range
  <2>3. CASE ~(i <= Len(a))
    <3>1. i - Len(a) \in 1..Len(b) /\ x = b[i - Len(a)]
      BY <1>1, <2>1, <2>3
    <3> QED BY <1>1, <3>1 DEF Range
  <2> QED BY <2>2, <2>3
<1>3. ASSUME NEW x \in Range(a) PROVE x \in Range(a \o b)
  <2>1. PICK i \in 1..Len(a) : x = a[i]
    BY <1>1 DEF Range
  <2>2. i \in 1..(Len(a) + Len(b)) /\ (a \o b)[i] = a[i]
    BY <1>1
  <2> QED BY <1>1, <2>1, <2>2 DEF Range
<1>4. ASSUME NEW x \in Range(b) PROVE x \in Range(a \o b)
  <2>1. PICK i \in 1..Len(b) : x = b[i]
    BY <1>1 DEF Range
  <2>2. i + Len(a) \in 1..(Len(a) + Len(b)) /\ (a \o b)[i + Len(a)] = b[i]
    BY <1>1
  <2> QED BY <1>1, <2>1, <2>2 DEF Range
<1> QED BY <1>2, <1>3, <1>4

LEMMA RangeNone == Range(<<>>) = {}
  BY DEF Range

LEMMA RangeOne ==
  ASSUME NEW x
  PROVE  Range(<<x>>) = {x}
<1>1. DOMAIN <<x>> = {1} /\ <<x>>[1] = x
  OBVIOUS
<1> QED BY <1>1 DEF Range

\* What is in what is left of a sequence: what was in it and passes.
LEMMA RangeOnly ==
  ASSUME NEW T, NEW s \in Seq(T), NEW S
  PROVE  Only(s, S) \in Seq(T) /\ Range(Only(s, S)) = Range(s) \cap S
<1> DEFINE Q == {q \in Seq(T) : Range(Only(q, S)) = Range(q) \cap S}
<1>1. <<>> \in Q
  <2>1. Only(<<>>, S) = <<>>
    BY OnlyEmpty
  <2>2. <<>> \in Seq(T)
    OBVIOUS
  <2> QED BY <2>1, <2>2, RangeNone
<1>2. ASSUME NEW q \in Seq(T), NEW x \in T, q \in Q PROVE Append(q, x) \in Q
  <2>1. Only(q, S) \in Seq(T)
    BY OnlyType
  <2>2. Append(q, x) = q \o <<x>> /\ <<x>> \in Seq(T)
    BY ConcatAppend
  <2>3. Range(Append(q, x)) = Range(q) \cup {x}
    <3>1. Range(q \o <<x>>) = Range(q) \cup Range(<<x>>)
      BY <2>2, RangeConcat
    <3> QED BY <2>2, <3>1, RangeOne
  <2>4. CASE x \in S
    <3>1. Only(Append(q, x), S) = Append(Only(q, S), x)
      BY <2>4, OnlyAppend
    <3>2. Append(Only(q, S), x) = Only(q, S) \o <<x>>
      BY <2>1, ConcatAppend
    <3>3. Range(Only(Append(q, x), S)) = Range(Only(q, S)) \cup {x}
      <4>1. Range(Only(q, S) \o <<x>>) = Range(Only(q, S)) \cup Range(<<x>>)
        BY <2>1, <2>2, RangeConcat
      <4> QED BY <3>1, <3>2, <4>1, RangeOne
    <3> QED BY <1>2, <2>3, <2>4, <3>3
  <2>5. CASE x \notin S
    <3>1. Only(Append(q, x), S) = Only(q, S)
      BY <2>5, OnlyAppend
    <3> QED BY <1>2, <2>3, <2>5, <3>1
  <2> QED BY <2>4, <2>5
<1> HIDE DEF Q
<1>3. s \in Q
  BY <1>1, <1>2, SeqInduction
<1> QED BY <1>3, OnlyType DEF Q

LEMMA MinIsLeast ==
  ASSUME NEW S, IsFiniteSet(S), S \subseteq Int, S # {}
  PROVE  Min(S) \in S /\ \A x \in S : Min(S) <= x
<1>1. PICK N \in Nat : ExistsSurjection(1..N, S)
  BY FS_NatSurjection
<1>2. PICK f : f \in Surjection(1..N, S)
  BY <1>1 DEF ExistsSurjection
<1>3. f \in [1..N -> S] /\ \A x \in S : \E j \in 1..N : f[j] = x
  BY <1>2 DEF Surjection
<1>4. N \in Nat \ {0}
  <2>1. PICK x \in S : TRUE
    OBVIOUS
  <2>2. PICK j \in 1..N : f[j] = x
    BY <1>3, <2>1
  <2> QED BY <2>2
<1> DEFINE g == [j \in 1..N |-> -f[j]]
<1>5. \A j \in 1..N : f[j] \in Int /\ f[j] \in S /\ g[j] = -f[j] /\ g[j] \in Int
  <2> SUFFICES ASSUME NEW j \in 1..N
               PROVE  f[j] \in Int /\ f[j] \in S /\ g[j] = -f[j] /\ g[j] \in Int
    OBVIOUS
  <2>1. f[j] \in S
    BY <1>3
  <2>2. f[j] \in Int
    BY <2>1
  <2> QED BY <2>1, <2>2
<1> HIDE DEF g
<1>6. PICK j \in 1..N : \A l \in 1..N : g[l] <= g[j]
  BY <1>4, <1>5, Largest
<1>7. \A l \in 1..N : f[j] <= f[l]
  BY <1>5, <1>6
<1>8. f[j] \in S /\ \A x \in S : f[j] <= x
  BY <1>3, <1>5, <1>7
<1> QED BY <1>8 DEF Min

LEMMA OfTwo ==
  ASSUME NEW a \in Int, NEW b \in Int
  PROVE  /\ Max({a, b}) = IF a >= b THEN a ELSE b
         /\ Min({a, b}) = IF a <= b THEN a ELSE b
<1>1. \E x \in {a, b} : \A y \in {a, b} : x >= y
  OBVIOUS
<1>2. Max({a, b}) \in {a, b} /\ \A y \in {a, b} : Max({a, b}) >= y
  BY <1>1 DEF Max
<1>3. \E x \in {a, b} : \A y \in {a, b} : x <= y
  OBVIOUS
<1>4. Min({a, b}) \in {a, b} /\ \A y \in {a, b} : Min({a, b}) <= y
  BY <1>3 DEF Min
<1> QED BY <1>2, <1>4
-----------------------------------------------------------------------------

\* What a muxer is handed, whatever its length: a chapter in a window that ends before it
\* begins has none (see ChaptersLast).
AnyUnit == [lane : {"enc", "cpy", "sub", "chapter"}, st : {"v", "a", "s", "c"}, src : Int, len : Int,
            n : Nat, at : Int]

LEMMA JobFacts ==
  ASSUME job \in Jobs
  PROVE  /\ job \in JobType
         /\ job.src \in Seq(PacketType) /\ Len(job.src) \in Nat
         /\ \A m \in 1..Len(job.src) : job.src[m] \in PacketType
         /\ job.chapters \in Seq(ChapterType)
         /\ job.seek \in Nat \cup {None} /\ job.accurate \in BOOLEAN /\ job.copyTs \in BOOLEAN
         /\ job.sub \in BOOLEAN /\ job.dur \in Nat /\ job.end \in Nat
         /\ job.pads \subseteq {"v", "a"} /\ job.cpys \subseteq {"v", "a"}
         /\ job.accurate => job.cpys = {} /\ job.seek # None
<1>1. job \in JobType /\ (job.accurate => job.cpys = {} /\ job.seek # None)
  BY TimelineAssumption
<1>2. /\ job.src \in Seq(PacketType) /\ job.chapters \in Seq(ChapterType)
      /\ job.seek \in Nat \cup {None} /\ job.accurate \in BOOLEAN /\ job.copyTs \in BOOLEAN
      /\ job.sub \in BOOLEAN /\ job.dur \in Nat /\ job.end \in Nat
      /\ job.pads \subseteq {"v", "a"} /\ job.cpys \subseteq {"v", "a"}
  BY <1>1 DEF JobType
<1>3. Len(job.src) \in Nat /\ \A m \in 1..Len(job.src) : job.src[m] \in PacketType
  BY <1>2
<1> QED BY <1>1, <1>2, <1>3

LEMMA WindowFacts ==
  ASSUME job \in Jobs
  PROVE  /\ None \in Int /\ None \notin Nat /\ Forever \in Int
         /\ seek0 \in Nat /\ out_cutoff \in Int
         /\ \A b \in Int : SourceCutoff(b) \in Int
<1>1. None \in Int /\ None \notin Nat /\ Forever \in Nat
  BY TimelineAssumption
<1>2. seek0 \in Nat
  BY JobFacts, <1>1 DEF seek0
<1>3. ASSUME NEW b \in Int, NEW e \in Int PROVE Cutoff(b, e) \in Int
  BY JobFacts, <1>1 DEF Cutoff
<1>4. out_cutoff \in Int
  <2>1. CASE job.copyTs
    BY <1>2, <1>3, <2>1 DEF out_cutoff
  <2>2. CASE ~job.copyTs
    BY <1>3, <2>2 DEF out_cutoff
  <2> QED BY <2>1, <2>2
<1>5. ASSUME NEW b \in Int PROVE SourceCutoff(b) \in Int
  <2>1. CASE job.copyTs
    BY <1>3, <2>1 DEF SourceCutoff
  <2>2. CASE ~job.copyTs
    BY <1>3, <2>2 DEF SourceCutoff
  <2> QED BY <2>1, <2>2
<1> QED BY <1>1, <1>2, <1>4, <1>5

TypeInv ==
  /\ job \in Jobs /\ next \in 0..Len(job.src) /\ headed \in BOOLEAN /\ flushed \in BOOLEAN
  /\ ~headed => next = 0 /\ out = <<>>
  /\ held \in [{"v", "a"} -> SUBSET Int]
  /\ \A s \in {"v", "a"} : IsFiniteSet(held[s]) /\ Cardinality(held[s]) <= Reorder
  /\ rebase \in [{"v", "a"} -> Int] /\ cpy_rebase \in Int
  /\ out \in Seq(AnyUnit)
-----------------------------------------------------------------------------
(* What each lane hands over *)

\* What a frame of pad s at t is moved by.
FrameShift(s, t) == (IF job.copyTs THEN seek0 ELSE 0) - (IF job.seek = None THEN 0 ELSE Zero(s, t))

LEMMA EncodedIs ==
  ASSUME TypeInv, NEW s \in {"v", "a"}, NEW t \in Int
  PROVE  /\ NewRebase(s, t) \in Int
         /\ Encoded(s, t) \in Seq(AnyUnit)
         /\ \A x \in Range(Encoded(s, t)) :
              x.lane = "enc" /\ x.src = t /\ x.len = 0 /\ x.at = t + FrameShift(s, t)
<1>1. rebase[s] \in Int
  BY DEF TypeInv
<1>2. job.seek \in Int /\ None \in Int /\ seek0 \in Int
  <2>1. job \in Jobs
    BY DEF TypeInv
  <2>2. None \in Int /\ seek0 \in Nat /\ job.seek \in Nat \cup {None}
    BY <2>1, JobFacts, WindowFacts
  <2> QED BY <2>2
<1>3. Zero(s, t) \in Int
  BY <1>1, <1>2 DEF Zero
<1>4. NewRebase(s, t) \in Int
  BY <1>1, <1>3 DEF NewRebase
<1> DEFINE at == t - (IF job.seek = None THEN 0 ELSE Zero(s, t)) + (IF job.copyTs THEN seek0 ELSE 0)
           u == [lane |-> "enc", st |-> s, src |-> t, len |-> 0, n |-> 0, at |-> at]
<1>5. at \in Int /\ at = t + FrameShift(s, t)
  BY <1>2, <1>3 DEF FrameShift
<1>6. Encoded(s, t) = <<>> \/ Encoded(s, t) = <<u>>
  BY DEF Encoded
<1> HIDE DEF at
<1>7. u \in AnyUnit
  BY <1>5 DEF AnyUnit
<1>8. <<>> \in Seq(AnyUnit) /\ <<u>> \in Seq(AnyUnit)
  BY <1>7
<1>9. u.lane = "enc" /\ u.src = t /\ u.len = 0 /\ u.at = at
  OBVIOUS
<1>10. \A x \in Range(Encoded(s, t)) : x = u
  BY <1>6, RangeNone, RangeOne
<1> QED BY <1>4, <1>5, <1>6, <1>8, <1>9, <1>10

LEMMA CopyIs ==
  ASSUME TypeInv, NEW m \in Nat, NEW p \in PacketType
  PROVE  LET base == NewCpyRebase(p)
             by   == IF job.copyTs \/ Decides(p) = None THEN 0 ELSE base
         IN
         /\ Decides(p) \in Int /\ Anchor(p) \in Int /\ base \in Int
         /\ write_copy_pkt(m, p) \in Seq(AnyUnit)
         /\ \A x \in Range(write_copy_pkt(m, p)) :
              x.lane = "cpy" /\ x.n = m /\ x.len = 0 /\ x.src = Anchor(p) /\ x.at = Moved(Anchor(p), by)
         /\ Range(write_copy_pkt(m, p)) = {} <=> Decides(p) # None /\ Decides(p) >= SourceCutoff(base)
<1> DEFINE base == NewCpyRebase(p)
           by == IF job.copyTs \/ Decides(p) = None THEN 0 ELSE base
           u == [lane |-> "cpy", st |-> p.st, src |-> Anchor(p), len |-> 0, n |-> m, at |-> Moved(Anchor(p), by)]
<1>1. p.pts \in Int /\ p.dts \in Int /\ p.st \in {"v", "a", "s"}
  BY DEF PacketType, Time
<1>2. Decides(p) \in Int /\ Anchor(p) \in Int
  BY <1>1 DEF Decides, Anchor
<1>3. base \in Int
  BY <1>2 DEF NewCpyRebase, TypeInv
<1>4. None \in Int
  BY WindowFacts DEF TypeInv
<1>5. Moved(Anchor(p), by) \in Int
  BY <1>2, <1>3, <1>4 DEF Moved
<1>6. write_copy_pkt(m, p) =
        IF Decides(p) # None /\ Decides(p) >= SourceCutoff(base) THEN <<>> ELSE <<u>>
  BY DEF write_copy_pkt
<1> DEFINE at == Moved(Anchor(p), by)
<1> HIDE DEF base, by
<1>7. u \in AnyUnit
  BY <1>1, <1>2, <1>5 DEF AnyUnit
<1>8. u.lane = "cpy" /\ u.n = m /\ u.len = 0 /\ u.src = Anchor(p) /\ u.at = Moved(Anchor(p), by)
  OBVIOUS
<1> HIDE DEF u
<1>9. <<>> \in Seq(AnyUnit) /\ <<u>> \in Seq(AnyUnit)
  BY <1>7
<1>10. Range(write_copy_pkt(m, p)) =
         IF Decides(p) # None /\ Decides(p) >= SourceCutoff(base) THEN {} ELSE {u}
  BY <1>6, RangeNone, RangeOne
<1> QED BY <1>2, <1>3, <1>6, <1>8, <1>9, <1>10 DEF base, by

\* A cue is dropped when it begins after the cutoff or is cut and nothing is left of it.
SubGone(p) ==
  \/ start_us(p) >= SourceCutoff(seek0)
  \/ (EarlyBy(p) > 0 \/ start_us(p) + p.len > SourceCutoff(seek0)) /\ HeadOff(p, TailOff(p)) <= 0

LEMMA CueFacts ==
  ASSUME TypeInv, NEW p \in PacketType
  PROVE  /\ start_us(p) \in Int /\ out_us(p) \in Int /\ p.len \in Nat /\ EarlyBy(p) \in Nat
         /\ seek0 \in Nat /\ SourceCutoff(seek0) \in Int
         /\ TailOff(p) \in Int /\ (start_us(p) + p.len <= SourceCutoff(seek0) => TailOff(p) = p.len)
         /\ HeadOff(p, TailOff(p)) = TailOff(p) - EarlyBy(p)
<1>1. start_us(p) \in Int /\ p.len \in Nat
  BY DEF PacketType, Time, start_us
<1>2. seek0 \in Nat /\ SourceCutoff(seek0) \in Int
  BY WindowFacts DEF TypeInv
<1>3. out_us(p) \in Int
  BY <1>1, <1>2 DEF out_us
<1>4. EarlyBy(p) \in Nat
  BY <1>1, <1>2, <1>3 DEF EarlyBy
<1>5. TailOff(p) \in Int /\ (start_us(p) + p.len <= SourceCutoff(seek0) => TailOff(p) = p.len)
  BY <1>1, <1>2 DEF TailOff
<1> QED BY <1>1, <1>2, <1>3, <1>4, <1>5 DEF HeadOff

LEMMA SubIs ==
  ASSUME TypeInv, NEW m \in Nat, NEW p \in PacketType
  PROVE  /\ write_sub_pkt(m, p) \in Seq(AnyUnit)
         /\ Range(write_sub_pkt(m, p)) = IF SubGone(p) THEN {} ELSE {Shortened(m, p)}
         /\ ~SubGone(p) => Shortened(m, p).len \in Nat
<1>1. /\ start_us(p) \in Int /\ out_us(p) \in Int /\ p.len \in Nat /\ EarlyBy(p) \in Nat
      /\ seek0 \in Nat /\ SourceCutoff(seek0) \in Int
      /\ TailOff(p) \in Int /\ (start_us(p) + p.len <= SourceCutoff(seek0) => TailOff(p) = p.len)
      /\ HeadOff(p, TailOff(p)) = TailOff(p) - EarlyBy(p)
  BY CueFacts
<1>2. write_sub_pkt(m, p) = IF SubGone(p) THEN <<>> ELSE <<Shortened(m, p)>>
  BY DEF write_sub_pkt, SubGone
<1>3. Shortened(m, p) \in AnyUnit
  BY <1>1 DEF Shortened, AnyUnit
<1>4. ~SubGone(p) => HeadOff(p, TailOff(p)) \in Nat
  BY <1>1 DEF SubGone
<1>5. <<>> \in Seq(AnyUnit) /\ <<Shortened(m, p)>> \in Seq(AnyUnit)
  BY <1>3
<1>6. Shortened(m, p).len = HeadOff(p, TailOff(p))
  BY DEF Shortened
<1> QED BY <1>2, <1>4, <1>5, <1>6, RangeNone, RangeOne

\* A cue that does not begin before 0, where that matters, is cut to the start.
LEMMA CutToStart ==
  ASSUME TypeInv, CuesFromZero(job), NEW n \in 1..Len(job.src), job.src[n].st = "s"
  PROVE  EarlyBy(job.src[n]) =
           IF start_us(job.src[n]) < seek0 THEN seek0 - start_us(job.src[n]) ELSE 0
<1> DEFINE p == job.src[n]
<1>1. p \in PacketType /\ p.st = "s"
  BY JobFacts DEF TypeInv
<1>2. job.seek \in Nat \cup {None} /\ None \notin Nat
  BY JobFacts, WindowFacts DEF TypeInv
<1>3. job.copyTs /\ job.seek \notin {None, 0} => p.pts \in Nat \cup {None}
  BY DEF CuesFromZero
<1> HIDE DEF p
<1>4. start_us(p) \in Int /\ seek0 \in Nat
  BY <1>1, CueFacts
<1>5. ASSUME ~job.copyTs
      PROVE  EarlyBy(p) = IF start_us(p) < seek0 THEN seek0 - start_us(p) ELSE 0
  <2>1. out_us(p) = start_us(p) - seek0
    BY <1>5 DEF out_us
  <2> QED BY <1>4, <1>5, <2>1 DEF EarlyBy
<1>6. ASSUME job.copyTs
      PROVE  EarlyBy(p) = IF start_us(p) < seek0 THEN seek0 - start_us(p) ELSE 0
  <2>1. start_us(p) >= 0 \/ seek0 = 0
    BY <1>2, <1>3, <1>6 DEF start_us, seek0
  <2>2. out_us(p) = start_us(p)
    BY <1>4, <1>6 DEF out_us
  <2> QED BY <1>4, <1>6, <2>1, <2>2 DEF EarlyBy
<1>7. EarlyBy(p) = IF start_us(p) < seek0 THEN seek0 - start_us(p) ELSE 0
  BY <1>5, <1>6
<1> QED BY <1>7 DEF p

\* The chapters that are carried.
Carried(c) == c.from < SourceCutoff(seek0) /\ c.to > seek0

LEMMA ChaptersAre ==
  ASSUME TypeInv
  PROVE  /\ copy_chapters \in Seq(AnyUnit)
         /\ \A c \in ChapterType : Chapter(c) \in AnyUnit
         /\ Range(copy_chapters) = {Chapter(c) : c \in {d \in Range(job.chapters) : Carried(d)}}
<1> DEFINE S == {c \in ChapterType : c.from < SourceCutoff(seek0) /\ c.to > seek0}
           kept == Only(job.chapters, S)
<1>1. job.chapters \in Seq(ChapterType)
  BY JobFacts DEF TypeInv
<1>2. kept \in Seq(ChapterType) /\ Range(kept) = Range(job.chapters) \cap S
  BY <1>1, RangeOnly
<1>3. copy_chapters = [i \in DOMAIN kept |-> Chapter(kept[i])]
  BY DEF copy_chapters
<1>4. ASSUME NEW c \in ChapterType PROVE Chapter(c) \in AnyUnit
  <2>1. c.from \in Nat /\ c.to \in Nat
    BY DEF ChapterType
  <2>2. seek0 \in Nat /\ SourceCutoff(seek0) \in Int
    BY WindowFacts DEF TypeInv
  <2> DEFINE to   == IF c.to > SourceCutoff(seek0) THEN SourceCutoff(seek0) ELSE c.to
             from == IF c.from < seek0 THEN seek0 ELSE c.from
             off  == IF job.copyTs THEN 0 ELSE seek0
  <2>3. to \in Int /\ from \in Int /\ off \in Int
    BY <2>1, <2>2
  <2>4. Chapter(c) = [lane |-> "chapter", st |-> "c", src |-> c.from, len |-> to - from, n |-> 0, at |-> from - off]
    BY DEF Chapter
  <2> HIDE DEF to, from, off
  <2> QED BY <2>1, <2>3, <2>4 DEF AnyUnit
<1>5. Range(job.chapters) \subseteq ChapterType
  BY <1>1 DEF Range
<1> HIDE DEF kept
<1>6. DOMAIN kept = 1..Len(kept) /\ Len(kept) \in Nat /\ \A i \in DOMAIN kept : kept[i] \in ChapterType
  BY <1>2
<1>7. copy_chapters \in Seq(AnyUnit)
  BY <1>3, <1>4, <1>6
<1>8. Range(copy_chapters) = {Chapter(c) : c \in Range(kept)}
  BY <1>3 DEF Range
<1>9. Range(kept) = {d \in Range(job.chapters) : Carried(d)}
  BY <1>2, <1>5 DEF Carried
<1> QED BY <1>4, <1>7, <1>8, <1>9
-----------------------------------------------------------------------------
(* Steps *)

LEMMA TypeInvInit == Init => TypeInv
<1> SUFFICES ASSUME Init PROVE TypeInv
  OBVIOUS
<1>1. job \in Jobs /\ Len(job.src) \in Nat
  BY JobFacts DEF Init
<1>2. IsFiniteSet({}) /\ Cardinality({}) = 0
  BY FS_EmptySet
<1>3. \A s \in {"v", "a"} : held[s] = {}
  BY DEF Init
<1>4. Reorder \in Nat /\ None \in Int
  BY TimelineAssumption
<1>5. <<>> \in Seq(AnyUnit)
  OBVIOUS
<1>6. held \in [{"v", "a"} -> SUBSET Int] /\ rebase \in [{"v", "a"} -> Int] /\ cpy_rebase \in Int
  BY <1>4 DEF Init
<1>7. next \in 0..Len(job.src) /\ headed = FALSE /\ flushed = FALSE /\ next = 0 /\ out = <<>>
  BY <1>1 DEF Init
<1>8. \A s \in {"v", "a"} : IsFiniteSet(held[s]) /\ Cardinality(held[s]) <= Reorder
  BY <1>2, <1>3, <1>4
<1> QED BY <1>1, <1>5, <1>6, <1>7, <1>8 DEF TypeInv

\* A decoder that is given a frame at a whole time gives one of those it keeps.
LEMMA DecoderGives ==
  ASSUME TypeInv, NEW s \in {"v", "a"}, NEW t \in Int, Gives(held[s] \cup {t})
  PROVE  LET H == held[s] \cup {t} IN
         Min(H) \in Int /\ IsFiniteSet(H \ {Min(H)}) /\ Cardinality(H \ {Min(H)}) <= Reorder
<1> DEFINE H == held[s] \cup {t}
<1>1. held[s] \subseteq Int /\ IsFiniteSet(held[s]) /\ Cardinality(held[s]) <= Reorder /\ Reorder \in Nat
  BY TimelineAssumption DEF TypeInv
<1>2. Cardinality(held[s]) \in Nat
  BY <1>1, FS_CardinalityType
<1>3. IsFiniteSet(H) /\ Cardinality(H) <= Reorder + 1
  <2>1. /\ IsFiniteSet(held[s] \cup {t})
        /\ Cardinality(held[s] \cup {t}) =
             IF t \in held[s] THEN Cardinality(held[s]) ELSE Cardinality(held[s]) + 1
    BY <1>1, FS_AddElement
  <2> QED BY <1>1, <1>2, <2>1
<1>4. H \subseteq Int /\ H # {}
  BY <1>1
<1> HIDE DEF H
<1>5. Min(H) \in H
  BY <1>3, <1>4, MinIsLeast
<1>6. IsFiniteSet(H \ {Min(H)}) /\ Cardinality(H \ {Min(H)}) = Cardinality(H) - 1
  BY <1>3, <1>5, FS_RemoveElement
<1>7. Cardinality(H) \in Nat
  BY <1>3, FS_CardinalityType
<1> QED BY <1>1, <1>3, <1>4, <1>5, <1>6, <1>7 DEF H

LEMMA DecoderKeeps ==
  ASSUME TypeInv, NEW s \in {"v", "a"}, NEW t \in Int, ~Gives(held[s] \cup {t})
  PROVE  IsFiniteSet(held[s] \cup {t}) /\ Cardinality(held[s] \cup {t}) <= Reorder
<1>1. IsFiniteSet(held[s])
  BY DEF TypeInv
<1>2. IsFiniteSet(held[s] \cup {t})
  BY <1>1, FS_AddElement
<1>3. Cardinality(held[s] \cup {t}) \in Nat /\ Reorder \in Nat
  BY <1>2, FS_CardinalityType, TimelineAssumption
<1> QED BY <1>2, <1>3 DEF Gives

\* What one packet adds to what the muxer was handed: what its pad gives, its copy, its
\* cue.
FromPad(p) ==
  IF p.st \in job.pads /\ Gives(held[p.st] \cup {p.pts})
    THEN Encoded(p.st, Min(held[p.st] \cup {p.pts})) ELSE <<>>
FromCopy(m, p) == IF p.st \in job.cpys THEN write_copy_pkt(m, p) ELSE <<>>
FromSub(m, p)  == IF p.st = "s" /\ job.sub THEN write_sub_pkt(m, p) ELSE <<>>

LEMMA ReadFacts ==
  ASSUME TypeInv, Read
  PROVE  LET m == next + 1
             p == job.src[m]
         IN
         /\ headed /\ m \in 1..Len(job.src) /\ p \in PacketType /\ p.pts \in Int
         /\ job' = job /\ headed' = headed /\ flushed' = flushed /\ next' = m
         /\ cpy_rebase' = IF p.st \in job.cpys THEN NewCpyRebase(p) ELSE cpy_rebase
         /\ FromPad(p) \in Seq(AnyUnit) /\ FromCopy(m, p) \in Seq(AnyUnit) /\ FromSub(m, p) \in Seq(AnyUnit)
         /\ out' = out \o FromPad(p) \o FromCopy(m, p) \o FromSub(m, p)
<1> DEFINE m == next + 1
           p == job.src[m]
<1>0. job \in Jobs /\ next \in 0..Len(job.src)
  BY DEF TypeInv
<1>1. headed /\ m \in 1..Len(job.src) /\ next \in Nat
  <2>1. Len(job.src) \in Nat
    BY <1>0, JobFacts
  <2>2. headed /\ next < Len(job.src)
    BY DEF Read
  <2> QED BY <1>0, <2>1, <2>2
<1>2. p \in PacketType
  BY <1>1, JobFacts DEF TypeInv
<1>3. p.pts \in Int /\ p.st \in {"v", "a", "s"}
  BY <1>2 DEF PacketType, Time
<1>4. job' = job /\ headed' = headed /\ flushed' = flushed /\ next' = m
  BY DEF Read
<1>5. cpy_rebase' = IF p.st \in job.cpys THEN NewCpyRebase(p) ELSE cpy_rebase
  BY DEF Read
<1>6. out' = out \o FromPad(p) \o FromCopy(m, p) \o FromSub(m, p)
  BY DEF Read, FromPad, FromCopy, FromSub
<1> HIDE DEF p, m
<1>7. FromPad(p) \in Seq(AnyUnit)
  <2>1. CASE p.st \in job.pads /\ Gives(held[p.st] \cup {p.pts})
    <3>1. p.st \in {"v", "a"}
      BY <2>1, JobFacts DEF TypeInv
    <3>2. Min(held[p.st] \cup {p.pts}) \in Int
      BY <1>3, <2>1, <3>1, DecoderGives
    <3>3. Encoded(p.st, Min(held[p.st] \cup {p.pts})) \in Seq(AnyUnit)
      BY <3>1, <3>2, EncodedIs
    <3> QED BY <2>1, <3>3 DEF FromPad
  <2>2. CASE ~(p.st \in job.pads /\ Gives(held[p.st] \cup {p.pts}))
    BY <2>2 DEF FromPad
  <2> QED BY <2>1, <2>2
<1>8. m \in Nat
  BY <1>1
<1>9. write_copy_pkt(m, p) \in Seq(AnyUnit) /\ write_sub_pkt(m, p) \in Seq(AnyUnit) /\ <<>> \in Seq(AnyUnit)
  BY <1>2, <1>8, CopyIs, SubIs
<1>10. FromCopy(m, p) \in Seq(AnyUnit) /\ FromSub(m, p) \in Seq(AnyUnit)
  BY <1>9 DEF FromCopy, FromSub
<1> QED BY <1>1, <1>2, <1>3, <1>4, <1>5, <1>6, <1>7, <1>10 DEF p, m

LEMMA ReadUnits ==
  ASSUME TypeInv, Read
  PROVE  LET m == next + 1
             p == job.src[m]
         IN
         /\ out' \in Seq(AnyUnit)
         /\ Range(out') = Range(out) \cup Range(FromPad(p)) \cup Range(FromCopy(m, p)) \cup Range(FromSub(m, p))
<1> DEFINE m == next + 1
           p == job.src[m]
           a == FromPad(p)
           b == FromCopy(m, p)
           c == FromSub(m, p)
<1>1. /\ a \in Seq(AnyUnit) /\ b \in Seq(AnyUnit) /\ c \in Seq(AnyUnit) /\ out \in Seq(AnyUnit)
      /\ out' = out \o a \o b \o c
  BY ReadFacts DEF TypeInv
<1> HIDE DEF a, b, c
<1> DEFINE oa == out \o a
           ob == oa \o b
           oc == ob \o c
<1>2. oa \in Seq(AnyUnit) /\ Range(oa) = Range(out) \cup Range(a)
  BY <1>1, RangeConcat
<1>3. ob \in Seq(AnyUnit) /\ Range(ob) = Range(oa) \cup Range(b)
  <2> HIDE DEF oa
  <2> QED BY <1>1, <1>2, RangeConcat
<1>4. oc \in Seq(AnyUnit) /\ Range(oc) = Range(ob) \cup Range(c)
  <2> HIDE DEF ob
  <2> QED BY <1>1, <1>3, RangeConcat
<1>5. out' = oc
  BY <1>1
<1> HIDE DEF oa, ob, oc
<1>6. out' \in Seq(AnyUnit) /\ Range(out') = Range(out) \cup Range(a) \cup Range(b) \cup Range(c)
  BY <1>2, <1>3, <1>4, <1>5
<1> QED BY <1>6 DEF a, b, c

\* And what a frame adds that was kept until the end.
LEMMA FlushFacts ==
  ASSUME TypeInv, Flush
  PROVE  \E s \in {"v", "a"}, t \in Int :
           /\ headed /\ s \in job.pads /\ t \in held[s]
           /\ job' = job /\ headed' = headed /\ flushed' = flushed /\ next' = next /\ cpy_rebase' = cpy_rebase
           /\ held' = [held EXCEPT ![s] = @ \ {t}]
           /\ rebase' = [rebase EXCEPT ![s] = NewRebase(s, t)]
           /\ Encoded(s, t) \in Seq(AnyUnit) /\ out' \in Seq(AnyUnit)
           /\ Range(out') = Range(out) \cup Range(Encoded(s, t))
<1>1. PICK s \in Keeping :
        /\ held' = [held EXCEPT ![s] = @ \ {Min(@)}]
        /\ rebase' = [rebase EXCEPT ![s] = NewRebase(s, Min(held[s]))]
        /\ out' = out \o Encoded(s, Min(held[s]))
  BY DEF Flush
<1>2. s \in job.pads /\ s \in {"v", "a"} /\ held[s] # {}
  BY <1>1, JobFacts DEF Keeping, TypeInv
<1>3. IsFiniteSet(held[s]) /\ held[s] \subseteq Int
  BY <1>2 DEF TypeInv
<1>4. Min(held[s]) \in held[s] /\ Min(held[s]) \in Int
  BY <1>2, <1>3, MinIsLeast
<1> DEFINE t == Min(held[s])
<1>5. held' = [held EXCEPT ![s] = @ \ {t}]
  BY <1>1, <1>2 DEF TypeInv
<1>6. rebase' = [rebase EXCEPT ![s] = NewRebase(s, t)] /\ out' = out \o Encoded(s, t)
  BY <1>1
<1>7. t \in held[s] /\ t \in Int
  BY <1>4
<1> HIDE DEF t
<1>8. Encoded(s, t) \in Seq(AnyUnit) /\ out \in Seq(AnyUnit)
  BY <1>2, <1>7, EncodedIs DEF TypeInv
<1>9. out' \in Seq(AnyUnit) /\ Range(out') = Range(out) \cup Range(Encoded(s, t))
  BY <1>6, <1>8, RangeConcat
<1>10. headed /\ job' = job /\ headed' = headed /\ flushed' = flushed /\ next' = next /\ cpy_rebase' = cpy_rebase
  BY DEF Flush
<1> QED BY <1>2, <1>5, <1>6, <1>7, <1>8, <1>9, <1>10

LEMMA TypeInvNext == TypeInv /\ [Next]_vars => TypeInv'
<1> SUFFICES ASSUME TypeInv, [Next]_vars PROVE TypeInv'
  OBVIOUS
<1>0. job \in Jobs /\ Len(job.src) \in Nat /\ out \in Seq(AnyUnit)
  BY JobFacts DEF TypeInv
<1>1. CASE WriteHeader
  <2>1. out' = copy_chapters /\ copy_chapters \in Seq(AnyUnit) /\ headed' = TRUE
    BY <1>1, ChaptersAre DEF WriteHeader
  <2> QED BY <1>1, <2>1 DEF WriteHeader, TypeInv
<1>2. CASE Read
  <2> DEFINE m == next + 1
             p == job.src[m]
             H == held[p.st] \cup {p.pts}
  <2>1. /\ headed /\ m \in 1..Len(job.src) /\ p \in PacketType /\ p.pts \in Int
        /\ job' = job /\ headed' = headed /\ flushed' = flushed /\ next' = m
        /\ cpy_rebase' = IF p.st \in job.cpys THEN NewCpyRebase(p) ELSE cpy_rebase
    BY <1>2, ReadFacts
  <2>2. m \in Nat /\ m \in 0..Len(job.src)
    BY <1>0, <2>1
  <2>3. cpy_rebase' \in Int
    <3>1. NewCpyRebase(p) \in Int /\ cpy_rebase \in Int
      BY <2>1, <2>2, CopyIs DEF TypeInv
    <3> QED BY <2>1, <3>1
  <2>4. out' \in Seq(AnyUnit)
    BY <1>2, ReadUnits
  <2>5. /\ held' = IF p.st \in job.pads
                     THEN [held EXCEPT ![p.st] = IF p.st \in job.pads /\ Gives(H) THEN H \ {Min(H)} ELSE H]
                     ELSE held
        /\ rebase' = IF p.st \in job.pads /\ Gives(H)
                       THEN [rebase EXCEPT ![p.st] = NewRebase(p.st, Min(H))] ELSE rebase
    BY <1>2 DEF Read
  <2>6. p.st \in job.pads => p.st \in {"v", "a"}
    BY <1>0, JobFacts
  <2> HIDE DEF p
  <2>7. /\ held' \in [{"v", "a"} -> SUBSET Int]
        /\ \A s \in {"v", "a"} : IsFiniteSet(held'[s]) /\ Cardinality(held'[s]) <= Reorder
        /\ rebase' \in [{"v", "a"} -> Int]
    <3>1. CASE p.st \in job.pads /\ Gives(H)
      <4>1. Min(H) \in Int /\ IsFiniteSet(H \ {Min(H)}) /\ Cardinality(H \ {Min(H)}) <= Reorder
        BY <2>1, <2>6, <3>1, DecoderGives
      <4>2. NewRebase(p.st, Min(H)) \in Int
        BY <2>6, <3>1, <4>1, EncodedIs
      <4>3. held[p.st] \subseteq Int
        BY <2>6, <3>1 DEF TypeInv
      <4>4. H \ {Min(H)} \in SUBSET Int
        BY <2>1, <4>3
      <4> HIDE DEF H
      <4>5. /\ held' = [held EXCEPT ![p.st] = H \ {Min(H)}]
            /\ rebase' = [rebase EXCEPT ![p.st] = NewRebase(p.st, Min(H))]
        BY <2>5, <3>1
      <4>6. \A s \in {"v", "a"} : held'[s] = IF s = p.st THEN H \ {Min(H)} ELSE held[s]
        BY <4>5 DEF TypeInv
      <4>7. held' \in [{"v", "a"} -> SUBSET Int] /\ rebase' \in [{"v", "a"} -> Int]
        BY <4>2, <4>4, <4>5 DEF TypeInv
      <4> QED BY <4>1, <4>6, <4>7 DEF TypeInv
    <3>2. CASE p.st \in job.pads /\ ~Gives(H)
      <4>1. IsFiniteSet(H) /\ Cardinality(H) <= Reorder
        BY <2>1, <2>6, <3>2, DecoderKeeps
      <4>2. held[p.st] \subseteq Int
        BY <2>6, <3>2 DEF TypeInv
      <4>3. H \in SUBSET Int
        BY <2>1, <4>2
      <4> HIDE DEF H
      <4>4. held' = [held EXCEPT ![p.st] = H] /\ rebase' = rebase
        BY <2>5, <3>2
      <4>5. \A s \in {"v", "a"} : held'[s] = IF s = p.st THEN H ELSE held[s]
        BY <4>4 DEF TypeInv
      <4>6. held' \in [{"v", "a"} -> SUBSET Int]
        BY <4>3, <4>4 DEF TypeInv
      <4> QED BY <4>1, <4>4, <4>5, <4>6 DEF TypeInv
    <3>3. CASE p.st \notin job.pads
      BY <2>5, <3>3 DEF TypeInv
    <3> QED BY <3>1, <3>2, <3>3
  <2> QED BY <1>0, <2>1, <2>2, <2>3, <2>4, <2>7 DEF TypeInv
<1>3. CASE Flush
  <2>1. PICK s \in {"v", "a"}, t \in Int :
           /\ headed /\ s \in job.pads /\ t \in held[s]
           /\ job' = job /\ headed' = headed /\ flushed' = flushed /\ next' = next /\ cpy_rebase' = cpy_rebase
           /\ held' = [held EXCEPT ![s] = @ \ {t}]
           /\ rebase' = [rebase EXCEPT ![s] = NewRebase(s, t)]
           /\ out' \in Seq(AnyUnit)
    BY <1>3, FlushFacts
  <2>2. NewRebase(s, t) \in Int
    BY EncodedIs
  <2>3. IsFiniteSet(held[s]) /\ Cardinality(held[s]) <= Reorder /\ held[s] \subseteq Int /\ Reorder \in Nat
    BY TimelineAssumption DEF TypeInv
  <2>4. IsFiniteSet(held[s] \ {t}) /\ Cardinality(held[s] \ {t}) <= Reorder
    <3>1. Cardinality(held[s]) \in Nat
      BY <2>3, FS_CardinalityType
    <3>2. IsFiniteSet(held[s] \ {t}) /\ Cardinality(held[s] \ {t}) = Cardinality(held[s]) - 1
      BY <2>1, <2>3, FS_RemoveElement
    <3> QED BY <2>3, <3>1, <3>2
  <2>5. \A q \in {"v", "a"} : held'[q] = IF q = s THEN held[s] \ {t} ELSE held[q]
    BY <2>1 DEF TypeInv
  <2>6. held' \in [{"v", "a"} -> SUBSET Int] /\ rebase' \in [{"v", "a"} -> Int]
    BY <2>1, <2>2 DEF TypeInv
  <2>7. \A q \in {"v", "a"} : IsFiniteSet(held'[q]) /\ Cardinality(held'[q]) <= Reorder
    BY <2>4, <2>5 DEF TypeInv
  <2> QED BY <2>1, <2>6, <2>7 DEF TypeInv
<1>4. CASE Flushed
  BY <1>4 DEF Flushed, TypeInv
<1>5. CASE UNCHANGED vars
  BY <1>5 DEF vars, TypeInv
<1> QED BY <1>1, <1>2, <1>3, <1>4, <1>5 DEF Next
-----------------------------------------------------------------------------
\* Whatever the muxer is handed in a step is a chapter of the header, a frame, or a copy or
\* a cue of the packet that is read.
LEMMA NewUnits ==
  ASSUME TypeInv, [Next]_vars, NEW x \in Range(out')
  PROVE  LET m == next + 1
             p == job.src[m]
         IN
         \/ x \in Range(out)
         \/ /\ WriteHeader /\ x.lane = "chapter"
            /\ \E c \in Range(job.chapters) : Carried(c) /\ x = Chapter(c)
         \/ /\ x.lane = "enc" /\ x.len = 0
            /\ \E s \in {"v", "a"}, t \in Int : x.src = t /\ x.at = t + FrameShift(s, t)
         \/ Read /\ p.st \in job.cpys /\ x.lane = "cpy" /\ x \in Range(write_copy_pkt(m, p))
         \/ Read /\ p.st = "s" /\ job.sub /\ x.lane = "sub" /\ ~SubGone(p) /\ x = Shortened(m, p)
<1> DEFINE m == next + 1
           p == job.src[m]
<1>1. CASE WriteHeader
  <2>1. Range(out') = Range(copy_chapters)
    BY <1>1 DEF WriteHeader
  <2>2. PICK c \in Range(job.chapters) : Carried(c) /\ x = Chapter(c)
    BY <2>1, ChaptersAre
  <2>3. x.lane = "chapter"
    BY <2>2 DEF Chapter
  <2> QED BY <1>1, <2>2, <2>3
<1>2. CASE Read
  <2>1. /\ m \in 1..Len(job.src) /\ p \in PacketType /\ p.pts \in Int
        /\ Range(out') = Range(out) \cup Range(FromPad(p)) \cup Range(FromCopy(m, p)) \cup Range(FromSub(m, p))
    BY <1>2, ReadFacts, ReadUnits
  <2>2. m \in Nat
    BY <2>1
  <2> HIDE DEF m, p
  <2>3. CASE x \in Range(FromPad(p))
    <3>1. FromPad(p) # <<>>
      BY <2>3, RangeNone
    <3>2. p.st \in job.pads /\ Gives(held[p.st] \cup {p.pts})
      BY <3>1 DEF FromPad
    <3>3. p.st \in {"v", "a"}
      BY <3>2, JobFacts DEF TypeInv
    <3> DEFINE t == Min(held[p.st] \cup {p.pts})
    <3>4. t \in Int
      BY <2>1, <3>2, <3>3, DecoderGives
    <3>5. x \in Range(Encoded(p.st, t))
      BY <2>3, <3>2 DEF FromPad
    <3> HIDE DEF t
    <3>6. \A y \in Range(Encoded(p.st, t)) :
            y.lane = "enc" /\ y.src = t /\ y.len = 0 /\ y.at = t + FrameShift(p.st, t)
      BY <3>3, <3>4, EncodedIs
    <3>7. x.lane = "enc" /\ x.src = t /\ x.len = 0 /\ x.at = t + FrameShift(p.st, t)
      BY <3>5, <3>6
    <3> QED BY <3>3, <3>4, <3>7
  <2>4. CASE x \in Range(FromCopy(m, p))
    <3>1. FromCopy(m, p) # <<>>
      BY <2>4, RangeNone
    <3>2. p.st \in job.cpys /\ x \in Range(write_copy_pkt(m, p))
      BY <2>4, <3>1 DEF FromCopy
    <3>3. \A y \in Range(write_copy_pkt(m, p)) : y.lane = "cpy"
      BY <2>1, <2>2, CopyIs
    <3> QED BY <1>2, <3>2, <3>3 DEF m, p
  <2>5. CASE x \in Range(FromSub(m, p))
    <3>1. FromSub(m, p) # <<>>
      BY <2>5, RangeNone
    <3>2. p.st = "s" /\ job.sub /\ x \in Range(write_sub_pkt(m, p))
      BY <2>5, <3>1 DEF FromSub
    <3>3. ~SubGone(p) /\ x = Shortened(m, p)
      BY <2>1, <2>2, <3>2, SubIs
    <3>4. x.lane = "sub"
      BY <3>3 DEF Shortened
    <3> QED BY <1>2, <3>2, <3>3, <3>4 DEF m, p
  <2> QED BY <2>1, <2>3, <2>4, <2>5
<1>3. CASE Flush
  <2>1. PICK s \in {"v", "a"}, t \in Int : Range(out') = Range(out) \cup Range(Encoded(s, t))
    BY <1>3, FlushFacts
  <2>2. CASE x \in Range(Encoded(s, t))
    <3>1. \A y \in Range(Encoded(s, t)) :
            y.lane = "enc" /\ y.src = t /\ y.len = 0 /\ y.at = t + FrameShift(s, t)
      BY EncodedIs
    <3> QED BY <2>2, <3>1
  <2> QED BY <2>1, <2>2
<1>4. CASE Flushed \/ UNCHANGED vars
  BY <1>4 DEF Flushed, vars
<1> QED BY <1>1, <1>2, <1>3, <1>4 DEF Next

LEMMA JobStays == [Next]_vars => job' = job
  BY DEF Next, WriteHeader, Read, Flush, Flushed, vars

LEMMA UnitTypes ==
  ASSUME TypeInv, NEW x \in Range(out)
  PROVE  x \in AnyUnit /\ x.at \in Int /\ x.src \in Int /\ x.len \in Int /\ x.n \in Nat
<1>1. out \in Seq(AnyUnit)
  BY DEF TypeInv
<1>2. x \in AnyUnit
  BY <1>1 DEF Range
<1> QED BY <1>2 DEF AnyUnit
-----------------------------------------------------------------------------
(* Frames, cues and chapters on one clock *)

\* What everything but a copy is moved by, unless the seek is a fast one.
OnClock == IF job.copyTs THEN 0 ELSE 0 - seek0

\* An accurate seek has the start asked for as the zero of each pad.
RebaseInv == job.accurate => \A s \in {"v", "a"} : rebase[s] \in {None, job.seek}

ClockInv ==
  \A x \in Range(out) :
    /\ x.lane = "chapter" \/ (x.lane = "sub" /\ CuesFromZero(job)) => Shift(x) = OnClock
    /\ x.lane = "enc" /\ (job.seek = None \/ job.accurate) => Shift(x) = OnClock

LEMMA FramesOnClock ==
  ASSUME TypeInv, RebaseInv, job.seek = None \/ job.accurate, NEW s \in {"v", "a"}, NEW t \in Int
  PROVE  FrameShift(s, t) = OnClock
<1>1. job.seek \in Nat \cup {None} /\ None \notin Nat /\ seek0 \in Nat
  BY JobFacts, WindowFacts DEF TypeInv
<1>2. CASE job.seek = None
  <2>1. seek0 = 0
    BY <1>2 DEF seek0
  <2>2. FrameShift(s, t) = 0
    BY <1>2, <2>1 DEF FrameShift
  <2>3. OnClock = 0
    BY <2>1 DEF OnClock
  <2> QED BY <2>2, <2>3
<1>3. CASE job.seek # None
  <2>1. Zero(s, t) = seek0
    BY <1>3 DEF Zero, RebaseInv, seek0
  <2> QED BY <1>1, <1>3, <2>1 DEF FrameShift, OnClock
<1> QED BY <1>2, <1>3

LEMMA RebaseInvNext == TypeInv /\ RebaseInv /\ [Next]_vars => RebaseInv'
<1> SUFFICES ASSUME TypeInv, RebaseInv, [Next]_vars, job.accurate, NEW s \in {"v", "a"}
             PROVE  rebase'[s] \in {None, job.seek}
  BY JobStays DEF RebaseInv
<1>1. rebase[s] \in {None, job.seek}
  BY DEF RebaseInv
<1>2. ASSUME NEW t PROVE NewRebase(s, t) \in {None, job.seek}
  BY <1>1 DEF NewRebase, Zero
<1>3. CASE Read
  <2>1. rebase' = rebase \/ \E q, t : rebase' = [rebase EXCEPT ![q] = NewRebase(q, t)]
    BY <1>3 DEF Read
  <2>2. CASE rebase' = rebase
    BY <1>1, <2>2
  <2>3. ASSUME NEW q, NEW t, rebase' = [rebase EXCEPT ![q] = NewRebase(q, t)]
        PROVE  rebase'[s] \in {None, job.seek}
    BY <1>1, <1>2, <2>3 DEF TypeInv
  <2> QED BY <2>1, <2>2, <2>3
<1>4. CASE Flush
  <2>1. PICK q \in {"v", "a"}, t \in Int : rebase' = [rebase EXCEPT ![q] = NewRebase(q, t)]
    BY <1>4, FlushFacts
  <2> QED BY <1>1, <1>2, <2>1 DEF TypeInv
<1>5. CASE WriteHeader \/ Flushed \/ UNCHANGED vars
  BY <1>1, <1>5 DEF WriteHeader, Flushed, vars
<1> QED BY <1>3, <1>4, <1>5 DEF Next

LEMMA ClockInvNext == TypeInv /\ RebaseInv /\ ClockInv /\ [Next]_vars => ClockInv'
<1> SUFFICES ASSUME TypeInv, RebaseInv, ClockInv, [Next]_vars, NEW x \in Range(out')
             PROVE  /\ x.lane = "chapter" \/ (x.lane = "sub" /\ CuesFromZero(job)) => Shift(x) = OnClock
                    /\ x.lane = "enc" /\ (job.seek = None \/ job.accurate) => Shift(x) = OnClock
  BY JobStays DEF ClockInv, Shift, OnClock, seek0, CuesFromZero
<1> DEFINE m == next + 1
           p == job.src[m]
<1>0. seek0 \in Int
  BY WindowFacts DEF TypeInv
<1>1. CASE x \in Range(out)
  BY <1>1 DEF ClockInv
<1>2. ASSUME NEW c \in Range(job.chapters), x = Chapter(c)
      PROVE  x.lane = "chapter" /\ Shift(x) = OnClock
  <2>1. c.from \in Int
    <3>1. job.chapters \in Seq(ChapterType)
      BY JobFacts DEF TypeInv
    <3>2. c \in ChapterType
      BY <3>1 DEF Range
    <3> QED BY <3>2 DEF ChapterType
  <2> DEFINE from == IF c.from < seek0 THEN seek0 ELSE c.from
  <2>2. x.lane = "chapter" /\ x.src = c.from /\ x.at = from - (IF job.copyTs THEN 0 ELSE seek0)
    BY <1>2 DEF Chapter
  <2>3. from \in Int
    BY <1>0, <2>1
  <2>4. Shift(x) = x.at - from
    BY <2>2 DEF Shift
  <2> HIDE DEF from
  <2> QED BY <1>0, <2>2, <2>3, <2>4 DEF OnClock
<1>3. ASSUME x.lane = "enc", job.seek = None \/ job.accurate,
             NEW s \in {"v", "a"}, NEW t \in Int, x.src = t, x.at = t + FrameShift(s, t)
      PROVE  Shift(x) = OnClock
  <2>1. FrameShift(s, t) = OnClock
    BY <1>3, FramesOnClock
  <2>2. OnClock \in Int
    BY <1>0 DEF OnClock
  <2>3. Shift(x) = x.at - x.src
    BY <1>3 DEF Shift
  <2> QED BY <1>3, <2>1, <2>2, <2>3
<1>4. ASSUME Read, p.st = "s", x = Shortened(m, p)
      PROVE  x.lane = "sub" /\ (CuesFromZero(job) => Shift(x) = OnClock)
  <2>1. p \in PacketType /\ m \in 1..Len(job.src)
    BY <1>4, ReadFacts
  <2>2. CuesFromZero(job) => EarlyBy(p) = IF start_us(p) < seek0 THEN seek0 - start_us(p) ELSE 0
    BY <1>4, <2>1, CutToStart
  <2> HIDE DEF m, p
  <2>3. start_us(p) \in Int /\ EarlyBy(p) \in Nat
    BY <2>1, CueFacts
  <2>4. x.lane = "sub" /\ x.src = start_us(p) /\ x.at = out_us(p) + EarlyBy(p)
    BY <1>4 DEF Shortened
  <2>5. Shift(x) = x.at - (IF start_us(p) < seek0 THEN seek0 ELSE start_us(p))
    BY <2>4 DEF Shift
  <2> QED BY <1>0, <2>2, <2>3, <2>4, <2>5 DEF OnClock, out_us
<1>5. \/ x \in Range(out)
      \/ x.lane = "chapter" /\ \E c \in Range(job.chapters) : x = Chapter(c)
      \/ x.lane = "enc" /\ \E s \in {"v", "a"}, t \in Int : x.src = t /\ x.at = t + FrameShift(s, t)
      \/ x.lane = "cpy"
      \/ Read /\ p.st = "s" /\ x.lane = "sub" /\ x = Shortened(m, p)
  BY NewUnits
<1> HIDE DEF m, p
<1> QED BY <1>1, <1>2, <1>3, <1>4, <1>5

\* From the beginning or from an exact start every frame and cue that is handed over is at
\* its time in the source less one number, the same for all of them, and so is every
\* chapter: each pad of the graph and the subtitle lane find that number on their own
\* (push_frame, write_sub_pkt, copy_chapters); unless the source's timestamps are kept, a
\* start is asked for and a cue begins before 0.
THEOREM ExactStartsKept == Spec => [](CuesFromZero(job) => ExactStartsAligned)
<1> DEFINE Inv == TypeInv /\ RebaseInv /\ ClockInv
<1>1. Init => Inv
  <2>1. Init => RebaseInv
    BY DEF Init, RebaseInv
  <2>2. Init => ClockInv
    BY RangeNone DEF Init, ClockInv
  <2> QED BY <2>1, <2>2, TypeInvInit
<1>2. Inv /\ [Next]_vars => Inv'
  BY TypeInvNext, RebaseInvNext, ClockInvNext
<1>3. Inv => (CuesFromZero(job) => ExactStartsAligned)
  <2> SUFFICES ASSUME Inv, CuesFromZero(job), job.seek = None \/ job.accurate, NEW i \in DOMAIN out, NEW j \in DOMAIN out,
                      out[i].lane # "cpy", out[j].lane # "cpy"
               PROVE  Shift(out[i]) = Shift(out[j])
    BY DEF ExactStartsAligned
  <2>1. ASSUME NEW l \in DOMAIN out, out[l].lane # "cpy" PROVE Shift(out[l]) = OnClock
    <3>1. out[l] \in Range(out)
      BY DEF Range
    <3>2. out[l].lane \in {"enc", "cpy", "sub", "chapter"}
      BY <3>1, UnitTypes DEF AnyUnit
    <3> QED BY <2>1, <3>1, <3>2 DEF ClockInv
  <2> QED BY <2>1
<1> QED BY <1>1, <1>2, <1>3, PTL DEF Spec
-----------------------------------------------------------------------------
(* Copies *)

\* Every copy with a time is moved by the pair's anchor, which stays as it is once found.
PlacedInv ==
  \A x \in Range(out) : x.lane = "cpy" =>
    /\ x.n \in 1..next /\ job.src[x.n].st \in job.cpys
    /\ x.at # None => IF job.copyTs THEN x.at = x.src ELSE cpy_rebase # None /\ x.at = x.src - cpy_rebase

LEMMA AnchorStays ==
  ASSUME TypeInv, [Next]_vars
  PROVE  cpy_rebase # None => cpy_rebase' = cpy_rebase
<1>1. CASE Read
  BY <1>1 DEF Read, NewCpyRebase
<1>2. CASE WriteHeader \/ Flush \/ Flushed \/ UNCHANGED vars
  BY <1>2 DEF WriteHeader, Flush, Flushed, vars
<1> QED BY <1>1, <1>2 DEF Next

LEMMA NextStays ==
  ASSUME TypeInv, [Next]_vars
  PROVE  next \in Nat /\ next' \in Nat /\ (next' = next \/ (Read /\ next' = next + 1))
<1>1. next \in Nat
  BY JobFacts DEF TypeInv
<1>2. next' = next \/ (Read /\ next' = next + 1)
  BY DEF Next, WriteHeader, Read, Flush, Flushed, vars
<1> QED BY <1>1, <1>2

\* What has a time has an anchor.
LEMMA AnchorFound ==
  ASSUME TypeInv, NEW p \in PacketType, Decides(p) # None
  PROVE  Anchor(p) # None /\ NewCpyRebase(p) # None
  BY DEF Decides, Anchor, NewCpyRebase

LEMMA PlacedInvNext == TypeInv /\ PlacedInv /\ [Next]_vars => PlacedInv'
<1> SUFFICES ASSUME TypeInv, PlacedInv, [Next]_vars, NEW x \in Range(out'), x.lane = "cpy"
             PROVE  /\ x.n \in 1..next' /\ job.src[x.n].st \in job.cpys
                    /\ x.at # None => IF job.copyTs THEN x.at = x.src
                                      ELSE cpy_rebase' # None /\ x.at = x.src - cpy_rebase'
  BY JobStays DEF PlacedInv
<1> DEFINE m == next + 1
           p == job.src[m]
<1>1. CASE x \in Range(out)
  <2>1. /\ x.n \in 1..next /\ job.src[x.n].st \in job.cpys
        /\ x.at # None => IF job.copyTs THEN x.at = x.src
                          ELSE cpy_rebase # None /\ x.at = x.src - cpy_rebase
    BY <1>1 DEF PlacedInv
  <2>2. x.n \in 1..next'
    BY <2>1, NextStays
  <2> QED BY <2>1, <2>2, AnchorStays
<1>2. ASSUME Read, p.st \in job.cpys, x \in Range(write_copy_pkt(m, p))
      PROVE  /\ x.n \in 1..next' /\ job.src[x.n].st \in job.cpys
             /\ x.at # None => IF job.copyTs THEN x.at = x.src
                               ELSE cpy_rebase' # None /\ x.at = x.src - cpy_rebase'
  <2>1. p \in PacketType /\ next' = m /\ cpy_rebase' = NewCpyRebase(p) /\ m \in 1..Len(job.src)
    BY <1>2, ReadFacts
  <2>2. m \in Nat /\ m \in 1..m
    BY <2>1
  <2>3. x.n = m
    BY <1>2, <2>1, <2>2, CopyIs
  <2> DEFINE by == IF job.copyTs \/ Decides(p) = None THEN 0 ELSE NewCpyRebase(p)
  <2>4. x.src = Anchor(p) /\ x.at = Moved(Anchor(p), by)
    BY <1>2, <2>1, <2>2, CopyIs
  <2>5. Anchor(p) \in Int /\ NewCpyRebase(p) \in Int
    BY <2>1, <2>2, CopyIs
  <2>6. p.st \in job.cpys
    BY <1>2
  <2> HIDE DEF p
  <2>7. x.at # None => IF job.copyTs THEN x.at = x.src
                       ELSE cpy_rebase' # None /\ x.at = x.src - cpy_rebase'
    <3> SUFFICES ASSUME x.at # None
                 PROVE  IF job.copyTs THEN x.at = x.src
                        ELSE cpy_rebase' # None /\ x.at = x.src - cpy_rebase'
      OBVIOUS
    <3>1. Anchor(p) # None /\ x.at = Anchor(p) - by
      BY <2>4 DEF Moved
    <3>2. Decides(p) # None
      BY <3>1 DEF Anchor, Decides
    <3>3. NewCpyRebase(p) # None
      BY <2>1, <3>2, AnchorFound
    <3> QED BY <2>1, <2>4, <2>5, <3>1, <3>2, <3>3
  <2> QED BY <2>1, <2>2, <2>3, <2>6, <2>7 DEF p
<1>3. \/ x \in Range(out)
      \/ Read /\ p.st \in job.cpys /\ x \in Range(write_copy_pkt(m, p))
  <2>1. ~(x.lane = "chapter") /\ ~(x.lane = "enc") /\ ~(x.lane = "sub")
    OBVIOUS
  <2> QED BY <2>1, NewUnits
<1> HIDE DEF m, p
<1> QED BY <1>1, <1>2, <1>3

\* The streams copied from one input keep their distance, whichever begins first: one
\* number is taken off all of them, however many packets come before it is found
\* (write_copy_pkt).
THEOREM CopiesKeepDistance == Spec => []CopiesAligned
<1> DEFINE Inv == TypeInv /\ PlacedInv
<1>1. Init => Inv
  <2>1. Init => PlacedInv
    BY RangeNone DEF Init, PlacedInv
  <2> QED BY <2>1, TypeInvInit
<1>2. Inv /\ [Next]_vars => Inv'
  BY TypeInvNext, PlacedInvNext
<1>3. Inv => CopiesAligned
  <2> SUFFICES ASSUME Inv, NEW i \in DOMAIN out, NEW j \in DOMAIN out,
                      out[i].lane = "cpy", out[j].lane = "cpy", None \notin {out[i].at, out[j].at}
               PROVE  Shift(out[i]) = Shift(out[j])
    BY DEF CopiesAligned
  <2>1. ASSUME NEW l \in DOMAIN out, out[l].lane = "cpy", out[l].at # None
        PROVE  Shift(out[l]) = IF job.copyTs THEN 0 ELSE -cpy_rebase
    <3> DEFINE x == out[l]
    <3>1. x \in Range(out)
      BY DEF Range
    <3>2. x.at \in Int /\ x.src \in Int /\ cpy_rebase \in Int
      BY <3>1, UnitTypes DEF TypeInv
    <3>3. IF job.copyTs THEN x.at = x.src ELSE x.at = x.src - cpy_rebase
      BY <2>1, <3>1 DEF PlacedInv
    <3>4. Shift(x) = x.at - x.src
      BY <2>1 DEF Shift
    <3> HIDE DEF x
    <3>5. Shift(x) = IF job.copyTs THEN 0 ELSE -cpy_rebase
      BY <3>2, <3>3, <3>4
    <3> QED BY <3>5 DEF x
  <2>2. out[i].at # None /\ out[j].at # None
    OBVIOUS
  <2>3. Shift(out[i]) = (IF job.copyTs THEN 0 ELSE -cpy_rebase)
    BY <2>1, <2>2
  <2>4. Shift(out[j]) = (IF job.copyTs THEN 0 ELSE -cpy_rebase)
    BY <2>1, <2>2
  <2> QED BY <2>3, <2>4
<1> QED BY <1>1, <1>2, <1>3, PTL DEF Spec

\* The two together: lanes that share a zero keep their distance on the output, for every
\* source, seek and window but those where a cue begins before 0, a start is asked for and
\* the source's timestamps are kept.
THEOREM LanesStayAligned == Spec => [](CuesFromZero(job) => LanesAligned)
<1>1. CopiesAligned /\ (CuesFromZero(job) => ExactStartsAligned) => (CuesFromZero(job) => LanesAligned)
  BY DEF LanesAligned
<1> QED BY <1>1, CopiesKeepDistance, ExactStartsKept, PTL
-----------------------------------------------------------------------------
(* What a copy is cut to *)

HasTime(n) == Decides(job.src[n]) # None

\* The anchor is that of the first copied packet with a time.
AnchorInv ==
  IF cpy_rebase = None THEN \A n \in Seen : ~HasTime(n)
  ELSE \E f \in Seen :
         /\ HasTime(f) /\ cpy_rebase = Anchor(job.src[f])
         /\ \A n \in Seen : n < f => ~HasTime(n)

\* A packet is copied when it has no time, or is decoded before the anchor's window ends.
CopiedInv ==
  \A n \in Seen :
    Copied(n) <=> (HasTime(n) => Decides(job.src[n]) < SourceCutoff(cpy_rebase))

LEMMA CopiedIs == \A n : Copied(n) <=> \E x \in Range(out) : x.lane = "cpy" /\ x.n = n
  BY DEF Copied, Range

LEMMA SeenGrows ==
  ASSUME TypeInv, [Next]_vars
  PROVE  /\ Seen \subseteq 1..next /\ Seen' = {n \in 1..next' : job.src[n].st \in job.cpys}
         /\ next' = next => Seen' = Seen
         /\ next' = next + 1 =>
              Seen' = Seen \cup (IF job.src[next + 1].st \in job.cpys THEN {next + 1} ELSE {})
<1>1. job' = job /\ next \in Nat /\ next' \in Nat
  BY JobStays, NextStays
<1>2. Seen' = {n \in 1..next' : job.src[n].st \in job.cpys}
  BY <1>1 DEF Seen
<1> QED BY <1>1, <1>2 DEF Seen

LEMMA AnchorInvNext == TypeInv /\ AnchorInv /\ [Next]_vars => AnchorInv'
<1> SUFFICES ASSUME TypeInv, AnchorInv, [Next]_vars PROVE AnchorInv'
  OBVIOUS
<1>1. job' = job /\ next \in Nat /\ Seen \subseteq 1..next
  BY JobStays, NextStays, SeenGrows
<1>2. \A n : HasTime(n)' <=> HasTime(n)
  BY <1>1 DEF HasTime, Decides
<1>3. \A n : Anchor(job.src[n])' = Anchor(job.src[n])
  BY <1>1 DEF Anchor
<1>4. CASE Seen' = Seen /\ cpy_rebase' = cpy_rebase
  BY <1>2, <1>3, <1>4 DEF AnchorInv
<1>5. CASE Read /\ job.src[next + 1].st \in job.cpys
  <2>0. PICK m \in Nat : m = next + 1
    BY <1>1
  <2> DEFINE p == job.src[m]
  <2>1. p \in PacketType /\ cpy_rebase' = NewCpyRebase(p) /\ next' = m
    BY <1>5, <2>0, ReadFacts
  <2>2. Seen' = Seen \cup {m}
    BY <1>5, <2>0, <2>1, SeenGrows
  <2>3. \A n \in Seen : n < m
    BY <1>1, <2>0
  <2>4. HasTime(m) <=> Decides(p) # None
    BY DEF HasTime
  <2>5. CASE Decides(p) = None
    <3>1. cpy_rebase' = cpy_rebase /\ ~HasTime(m)
      BY <2>1, <2>4, <2>5 DEF NewCpyRebase
    <3>2. CASE cpy_rebase = None
      BY <1>2, <2>2, <3>1, <3>2 DEF AnchorInv
    <3>3. CASE cpy_rebase # None
      <4>1. PICK f \in Seen : /\ HasTime(f) /\ cpy_rebase = Anchor(job.src[f])
                              /\ \A n \in Seen : n < f => ~HasTime(n)
        BY <3>3 DEF AnchorInv
      <4>2. f \in Seen' /\ HasTime(f)' /\ cpy_rebase' = Anchor(job.src[f])'
        BY <1>2, <1>3, <2>2, <3>1, <4>1
      <4>3. \A n \in Seen' : n < f => ~HasTime(n)'
        BY <1>2, <2>2, <3>1, <4>1
      <4> QED BY <3>1, <3>3, <4>2, <4>3 DEF AnchorInv
    <3> QED BY <3>2, <3>3
  <2>6. CASE Decides(p) # None /\ cpy_rebase = None
    <3>1. cpy_rebase' = Anchor(p) /\ cpy_rebase' # None
      BY <2>1, <2>6, AnchorFound DEF NewCpyRebase
    <3>2. \A n \in Seen : ~HasTime(n)
      BY <2>6 DEF AnchorInv
    <3>3. m \in Seen' /\ HasTime(m)' /\ cpy_rebase' = Anchor(job.src[m])'
      BY <1>2, <1>3, <2>2, <2>4, <2>6, <3>1
    <3>4. \A n \in Seen' : n < m => ~HasTime(n)'
      BY <1>2, <2>2, <3>2
    <3> QED BY <3>1, <3>3, <3>4 DEF AnchorInv
  <2>7. CASE Decides(p) # None /\ cpy_rebase # None
    <3>1. cpy_rebase' = cpy_rebase
      BY <2>1, <2>7 DEF NewCpyRebase
    <3>2. PICK f \in Seen : /\ HasTime(f) /\ cpy_rebase = Anchor(job.src[f])
                            /\ \A n \in Seen : n < f => ~HasTime(n)
      BY <2>7 DEF AnchorInv
    <3>3. f \in Seen' /\ HasTime(f)' /\ cpy_rebase' = Anchor(job.src[f])'
      BY <1>2, <1>3, <2>2, <3>1, <3>2
    <3>4. f < m /\ f \in Nat /\ m \in Nat
      BY <1>1, <2>3, <3>2
    <3>5. \A n \in Seen' : n < f => ~HasTime(n)'
      BY <1>2, <2>2, <3>2, <3>4
    <3> QED BY <2>7, <3>1, <3>3, <3>5 DEF AnchorInv
  <2> QED BY <2>5, <2>6, <2>7
<1>6. CASE Read /\ job.src[next + 1].st \notin job.cpys
  <2>1. next' = next + 1 /\ cpy_rebase' = cpy_rebase
    BY <1>6 DEF Read
  <2> QED BY <1>4, <1>6, <2>1, SeenGrows
<1>7. CASE WriteHeader \/ Flush \/ Flushed \/ UNCHANGED vars
  <2>1. next' = next /\ cpy_rebase' = cpy_rebase
    BY <1>7 DEF WriteHeader, Flush, Flushed, vars
  <2> QED BY <1>4, <2>1, SeenGrows
<1> QED BY <1>5, <1>6, <1>7 DEF Next

\* What was handed over stays.
LEMMA UnitsStay == TypeInv /\ [Next]_vars => Range(out) \subseteq Range(out')
<1> SUFFICES ASSUME TypeInv, [Next]_vars PROVE Range(out) \subseteq Range(out')
  OBVIOUS
<1>1. CASE WriteHeader
  BY <1>1, RangeNone DEF WriteHeader, TypeInv
<1>2. CASE Read
  BY <1>2, ReadUnits
<1>3. CASE Flush
  BY <1>3, FlushFacts
<1>4. CASE Flushed \/ UNCHANGED vars
  BY <1>4 DEF Flushed, vars
<1> QED BY <1>1, <1>2, <1>3, <1>4 DEF Next

LEMMA CopiedInvNext ==
  TypeInv /\ PlacedInv /\ AnchorInv /\ CopiedInv /\ [Next]_vars => CopiedInv'
<1> SUFFICES ASSUME TypeInv, PlacedInv, AnchorInv, CopiedInv, [Next]_vars, NEW n \in Seen'
             PROVE  Copied(n)' <=>
                      (HasTime(n) => Decides(job.src[n]) < SourceCutoff(cpy_rebase'))
  BY JobStays DEF CopiedInv, HasTime, Decides, SourceCutoff, Cutoff
<1> DEFINE m == next + 1
           p == job.src[m]
<1>1. next \in Nat /\ Seen \subseteq 1..next
  BY NextStays, SeenGrows
<1>2. Copied(n)' <=> \E x \in Range(out') : x.lane = "cpy" /\ x.n = n
  BY DEF Copied, Range
<1>3. \A x \in Range(out') : x.lane = "cpy" =>
         \/ x \in Range(out)
         \/ Read /\ p.st \in job.cpys /\ x \in Range(write_copy_pkt(m, p))
  <2> TAKE x \in Range(out')
  <2> HAVE x.lane = "cpy"
  <2>1. ~(x.lane = "chapter") /\ ~(x.lane = "enc") /\ ~(x.lane = "sub")
    OBVIOUS
  <2> QED BY <2>1, NewUnits
<1>4. Read => /\ p \in PacketType /\ m \in Nat
              /\ \A x \in Range(write_copy_pkt(m, p)) : x.lane = "cpy" /\ x.n = m
              /\ Range(write_copy_pkt(m, p)) = {} <=>
                   Decides(p) # None /\ Decides(p) >= SourceCutoff(NewCpyRebase(p))
  <2> SUFFICES ASSUME Read
               PROVE  /\ p \in PacketType /\ m \in Nat
                      /\ \A x \in Range(write_copy_pkt(m, p)) : x.lane = "cpy" /\ x.n = m
                      /\ Range(write_copy_pkt(m, p)) = {} <=>
                           Decides(p) # None /\ Decides(p) >= SourceCutoff(NewCpyRebase(p))
    OBVIOUS
  <2>1. p \in PacketType /\ m \in Nat
    BY <1>1, ReadFacts
  <2> HIDE DEF m, p
  <2> QED BY <2>1, CopyIs
<1>5. CASE n \in Seen
  <2>1. n \in 1..next /\ n # m
    BY <1>1, <1>5
  <2>2. Copied(n)' <=> Copied(n)
    <3>1. Copied(n) <=> \E x \in Range(out) : x.lane = "cpy" /\ x.n = n
      BY CopiedIs
    <3>2. Range(out) \subseteq Range(out')
      BY UnitsStay
    <3>3. ASSUME NEW x \in Range(out'), x.lane = "cpy", x.n = n PROVE x \in Range(out)
      <4> HIDE DEF m, p
      <4> QED BY <1>3, <1>4, <2>1, <3>3
    <3> QED BY <1>2, <3>1, <3>2, <3>3
  <2>3. CASE cpy_rebase' = cpy_rebase
    BY <1>5, <2>2, <2>3 DEF CopiedInv
  <2>4. CASE cpy_rebase' # cpy_rebase
    <3>1. cpy_rebase = None
      BY <2>4, AnchorStays
    <3>2. ~HasTime(n)
      BY <1>5, <3>1 DEF AnchorInv
    <3> QED BY <1>5, <2>2, <3>2 DEF CopiedInv
  <2> QED BY <2>3, <2>4
<1>6. CASE n \notin Seen
  <2>1. Read /\ next' = m /\ p.st \in job.cpys /\ n = m
    <3>1. next' # next /\ Read /\ next' = next + 1
      BY <1>6, NextStays, SeenGrows
    <3>2. Seen' = Seen \cup (IF job.src[next + 1].st \in job.cpys THEN {next + 1} ELSE {})
      BY <3>1, SeenGrows
    <3> QED BY <1>6, <3>1, <3>2
  <2>2. cpy_rebase' = NewCpyRebase(p)
    BY <2>1, ReadFacts
  <2>3. FromCopy(m, p) = write_copy_pkt(m, p)
    BY <2>1 DEF FromCopy
  <2>4. Range(write_copy_pkt(m, p)) \subseteq Range(out')
    BY <2>1, <2>3, ReadUnits
  <2>5. \A x \in Range(out) : x.lane = "cpy" => x.n # n
    <3>1. \A x \in Range(out) : x.lane = "cpy" => x.n \in 1..next
      BY DEF PlacedInv
    <3> QED BY <1>1, <2>1, <3>1
  <2>6. Decides(p) \in Int /\ SourceCutoff(NewCpyRebase(p)) \in Int
    <3>1. p \in PacketType /\ m \in Nat
      BY <1>4, <2>1
    <3> HIDE DEF m, p
    <3>2. Decides(p) \in Int /\ NewCpyRebase(p) \in Int
      BY <3>1, CopyIs
    <3>3. job \in Jobs
      BY DEF TypeInv
    <3> QED BY <3>2, <3>3, WindowFacts
  <2>7. HasTime(n) <=> Decides(p) # None
    BY <2>1 DEF HasTime
  <2>8. Copied(n)' <=> Range(write_copy_pkt(m, p)) # {}
    <3> HIDE DEF m, p
    <3> QED BY <1>2, <1>3, <1>4, <2>1, <2>4, <2>5
  <2>9. job.src[n] = p
    BY <2>1
  <2> HIDE DEF m, p
  <2> QED BY <1>4, <2>1, <2>2, <2>6, <2>7, <2>8, <2>9
<1> QED BY <1>5, <1>6

LEMMA CutRight ==
  ASSUME TypeInv, AnchorInv, CopiedInv
  PROVE  /\ DecodeOrder(job) => ReferencesKept
         /\ DecodedFirst(job) => WindowFilled
         /\ NothingPast
<1>0. job \in Jobs /\ next \in 0..Len(job.src) /\ Len(job.src) \in Nat
  BY JobFacts DEF TypeInv
<1>1. Seen \subseteq 1..Len(job.src)
  BY <1>0 DEF Seen
<1>2. \A n \in Seen : job.src[n].dts \in Int /\ job.src[n].pts \in Int
  BY <1>0, <1>1, JobFacts DEF PacketType, Time
<1>3. SourceCutoff(cpy_rebase) \in Int
  BY <1>0, WindowFacts DEF TypeInv
<1>4. ASSUME DecodeOrder(job) PROVE ReferencesKept
  <2> SUFFICES ASSUME NEW m \in Seen, NEW n \in Seen,
                      m < n, job.src[m].st = job.src[n].st, Copied(n),
                      \A k \in Seen : k <= n => job.src[k].dts # None
               PROVE  Copied(m)
    BY DEF ReferencesKept
  <2>1. m <= n /\ n <= n /\ m \in 1..Len(job.src) /\ n \in 1..Len(job.src)
    BY <1>0, <1>1
  <2>2. job.src[m].dts # None /\ job.src[n].dts # None
    BY <2>1
  <2>3. job.src[m].dts <= job.src[n].dts
    BY <1>4, <2>1, <2>2 DEF DecodeOrder
  <2>4. /\ Decides(job.src[m]) = job.src[m].dts /\ Decides(job.src[n]) = job.src[n].dts
        /\ HasTime(m) /\ HasTime(n)
    BY <2>2 DEF Decides, HasTime
  <2>5. job.src[n].dts < SourceCutoff(cpy_rebase)
    BY <2>4 DEF CopiedInv
  <2>6. job.src[m].dts < SourceCutoff(cpy_rebase)
    BY <1>2, <1>3, <2>3, <2>5
  <2> QED BY <2>4, <2>6 DEF CopiedInv
<1>5. \A k \in Seen : /\ Shown(k) = Anchor(job.src[k])
                      /\ Shown(k) # None <=> HasTime(k)
  BY DEF Shown, Anchor, HasTime, Decides
\* The window is that of the first packet with a time.
<1>6. ASSUME NEW n \in Dated PROVE n \in Seen /\ HasTime(n) /\ WindowEnd = SourceCutoff(cpy_rebase)
  <2>1. n \in Seen /\ HasTime(n)
    BY <1>5 DEF Dated
  <2>2. cpy_rebase # None
    BY <2>1 DEF AnchorInv
  <2>3. PICK f \in Seen : /\ HasTime(f) /\ cpy_rebase = Anchor(job.src[f])
                          /\ \A k \in Seen : k < f => ~HasTime(k)
    BY <2>2 DEF AnchorInv
  <2>4. Dated \subseteq Int /\ f \in Dated /\ \A k \in Dated : ~(k < f)
    <3>1. \A k \in Dated : k \in Seen /\ HasTime(k)
      BY <1>5 DEF Dated
    <3>2. Dated \subseteq Int
      <4> SUFFICES ASSUME NEW k \in Dated PROVE k \in Int
        BY Zenon
      <4>1. k \in 1..Len(job.src)
        BY <1>1, <3>1
      <4> QED BY <1>0, <4>1
    <3>3. f \in Dated
      BY <1>5, <2>3 DEF Dated
    <3> QED BY <2>3, <3>1, <3>2, <3>3
  <2>5. f \in Int /\ \A k \in Dated : f <= k
    <3>1. f \in Int
      BY <2>4
    <3>2. ASSUME NEW k \in Dated PROVE f <= k
      <4>1. k \in Int /\ ~(k < f)
        BY <2>4
      <4> QED BY <3>1, <4>1
    <3> QED BY <3>1, <3>2
  <2>6. Min(Dated) = f
    <3>1. Min(Dated) \in Dated /\ \A y \in Dated : Min(Dated) <= y
      BY <2>4, <2>5 DEF Min
    <3>2. Min(Dated) \in Int /\ Min(Dated) <= f /\ f <= Min(Dated)
      BY <2>4, <2>5, <3>1
    <3> QED BY <2>5, <3>2
  <2> QED BY <1>5, <2>1, <2>3, <2>6 DEF WindowEnd
<1>7. ASSUME DecodedFirst(job) PROVE WindowFilled
  <2> SUFFICES ASSUME NEW n \in Dated, job.src[n].pts # None, Shown(n) < WindowEnd
               PROVE  Copied(n)
    BY DEF WindowFilled
  <2>1. n \in Seen /\ n \in 1..Len(job.src) /\ job.src[n].pts < SourceCutoff(cpy_rebase)
    BY <1>1, <1>6 DEF Shown
  <2>2. Decides(job.src[n]) <= job.src[n].pts
    BY <1>2, <1>7, <2>1 DEF DecodedFirst, Decides
  <2>3. Decides(job.src[n]) < SourceCutoff(cpy_rebase)
    BY <1>2, <1>3, <2>1, <2>2 DEF Decides
  <2> QED BY <2>1, <2>3 DEF CopiedInv
<1>8. NothingPast
  <2> SUFFICES ASSUME NEW n \in Dated, Copied(n)
               PROVE  (IF job.src[n].dts # None THEN job.src[n].dts ELSE job.src[n].pts) < WindowEnd
    BY DEF NothingPast
  <2>1. n \in Seen /\ HasTime(n) /\ WindowEnd = SourceCutoff(cpy_rebase)
    BY <1>6
  <2> QED BY <2>1 DEF CopiedInv, Decides
<1> QED BY <1>4, <1>7, <1>8

\* Of a source whose streams come in decode order, and whose packets are decoded no later
\* than they are presented, a copy is cut right: no reference of a packet that is kept is
\* left out, no packet of the window is missing, and none is kept that is decoded when the
\* window has ended, however the streams interleave and wherever the first packet with a
\* time comes (write_copy_pkt).
THEOREM CopiesCutRight == Spec => [](DecodeOrder(job) /\ DecodedFirst(job) => CopyCutRight)
<1> DEFINE Inv == TypeInv /\ PlacedInv /\ AnchorInv /\ CopiedInv
<1>1. Init => Inv
  <2>1. Init => PlacedInv
    BY RangeNone DEF Init, PlacedInv
  <2>2. Init => AnchorInv /\ CopiedInv
    BY DEF Init, AnchorInv, CopiedInv, Seen
  <2> QED BY <2>1, <2>2, TypeInvInit
<1>2. Inv /\ [Next]_vars => Inv'
  BY TypeInvNext, PlacedInvNext, AnchorInvNext, CopiedInvNext
<1>3. Inv => (DecodeOrder(job) /\ DecodedFirst(job) => CopyCutRight)
  BY CutRight DEF CopyCutRight
<1> QED BY <1>1, <1>2, <1>3, PTL DEF Spec
-----------------------------------------------------------------------------
(* What the window leaves of a cue or a chapter *)

\* What is handed over lasts: a cue is dropped before nothing is left of it.
LenInv == WindowOpens /\ ChaptersOrdered(job) => \A x \in Range(out) : x.len \in Nat

\* A packet's cue is handed over, once, and the chapters with the header.
Cue(n) == {x \in Range(out) : x.lane = "sub" /\ x.n = n}
CueInv ==
  /\ \A x \in Range(out) : x.lane = "sub" => x.n \in 1..next
  /\ \A n \in 1..next :
       job.sub /\ job.src[n].st = "s" =>
         Cue(n) = IF SubGone(job.src[n]) THEN {} ELSE {Shortened(n, job.src[n])}

Parted == {Chapter(c) : c \in {d \in Range(job.chapters) : Carried(d)}}
ChapInv == {x \in Range(out) : x.lane = "chapter"} = IF headed THEN Parted ELSE {}

\* None of this depends on anything but the job.
LEMMA WindowStays ==
  ASSUME TypeInv, [Next]_vars
  PROVE  /\ WindowOpens' = WindowOpens /\ ChaptersOrdered(job)' = ChaptersOrdered(job) /\ Parted' = Parted
         /\ \A n : /\ SubGone(job.src[n])' = SubGone(job.src[n])
                   /\ Shortened(n, job.src[n])' = Shortened(n, job.src[n])
<1>1. job' = job
  BY JobStays
<1>2. seek0' = seek0 /\ SourceCutoff(seek0)' = SourceCutoff(seek0)
  BY <1>1 DEF seek0, SourceCutoff, Cutoff
<1>3. \A c : Carried(c)' = Carried(c) /\ Chapter(c)' = Chapter(c)
  BY <1>1, <1>2 DEF Carried, Chapter
<1>4. Parted' = Parted
  BY <1>1, <1>3 DEF Parted
<1>5. \A p : /\ HeadOff(p, TailOff(p))' = HeadOff(p, TailOff(p)) /\ EarlyBy(p)' = EarlyBy(p)
             /\ out_us(p)' = out_us(p) /\ start_us(p)' = start_us(p)
  BY <1>1, <1>2 DEF HeadOff, TailOff, EarlyBy, out_us, start_us
<1>6. \A n : /\ SubGone(job.src[n])' = SubGone(job.src[n])
             /\ Shortened(n, job.src[n])' = Shortened(n, job.src[n])
  BY <1>1, <1>2, <1>5 DEF SubGone, Shortened, HeadOff, TailOff, EarlyBy, out_us, start_us
<1> QED BY <1>1, <1>2, <1>4, <1>6 DEF WindowOpens, ChaptersOrdered

LEMMA ChapterLasts ==
  ASSUME TypeInv, NEW c \in Range(job.chapters)
  PROVE  LET a == Max({c.from, seek0})
             b == Min({c.to, SourceCutoff(seek0)})
         IN
         /\ a \in Int /\ b \in Int
         /\ Chapter(c).lane = "chapter" /\ Chapter(c).len = b - a
         /\ Chapter(c).at = a - (IF job.copyTs THEN 0 ELSE seek0)
         /\ WindowOpens /\ c.from < c.to => (Carried(c) <=> a < b)
         /\ WindowOpens /\ c.from <= c.to /\ Carried(c) => a <= b
<1>1. c \in ChapterType
  <2>1. job.chapters \in Seq(ChapterType)
    BY JobFacts DEF TypeInv
  <2> QED BY <2>1 DEF Range
<1>2. c.from \in Int /\ c.to \in Int
  BY <1>1 DEF ChapterType
<1>3. seek0 \in Int /\ SourceCutoff(seek0) \in Int
  BY WindowFacts DEF TypeInv
<1> DEFINE C == SourceCutoff(seek0)
           a == IF c.from < seek0 THEN seek0 ELSE c.from
           b == IF c.to > C THEN C ELSE c.to
<1>4. a = Max({c.from, seek0}) /\ b = Min({c.to, SourceCutoff(seek0)})
  <2>1. Max({c.from, seek0}) = IF c.from >= seek0 THEN c.from ELSE seek0
    BY <1>2, <1>3, OfTwo
  <2>2. Min({c.to, C}) = IF c.to <= C THEN c.to ELSE C
    BY <1>2, <1>3, OfTwo
  <2> QED BY <1>2, <1>3, <2>1, <2>2
<1>5. a \in Int /\ b \in Int
  BY <1>2, <1>3
<1>6. /\ Chapter(c).lane = "chapter" /\ Chapter(c).len = b - a
      /\ Chapter(c).at = a - (IF job.copyTs THEN 0 ELSE seek0)
  BY DEF Chapter
<1>7. WindowOpens => seek0 < C
  BY RangeNone DEF WindowOpens
<1>8. /\ WindowOpens /\ c.from < c.to => (Carried(c) <=> a < b)
      /\ WindowOpens /\ c.from <= c.to /\ Carried(c) => a <= b
  BY <1>2, <1>3, <1>7 DEF Carried
<1> QED BY <1>4, <1>5, <1>6, <1>8

LEMMA LenInvNext == TypeInv /\ LenInv /\ [Next]_vars => LenInv'
<1> SUFFICES ASSUME TypeInv, LenInv, [Next]_vars, WindowOpens, ChaptersOrdered(job), NEW x \in Range(out')
             PROVE  x.len \in Nat
  BY WindowStays DEF LenInv
<1> DEFINE m == next + 1
           p == job.src[m]
<1>1. CASE x \in Range(out)
  BY <1>1 DEF LenInv
<1>2. ASSUME NEW c \in Range(job.chapters), Carried(c), x = Chapter(c)
      PROVE  x.len \in Nat
  <2> DEFINE a == Max({c.from, seek0})
             b == Min({c.to, SourceCutoff(seek0)})
  <2>1. c.from <= c.to
    BY DEF ChaptersOrdered
  <2>2. a \in Int /\ b \in Int /\ x.len = b - a /\ a <= b
    BY <1>2, <2>1, ChapterLasts
  <2> HIDE DEF a, b
  <2> QED BY <2>2
<1>3. ASSUME Read, x \in Range(write_copy_pkt(m, p))
      PROVE  x.len \in Nat
  <2>1. p \in PacketType /\ m \in Nat
    BY <1>3, ReadFacts
  <2> HIDE DEF m, p
  <2> QED BY <1>3, <2>1, CopyIs
<1>4. ASSUME Read, ~SubGone(p), x = Shortened(m, p)
      PROVE  x.len \in Nat
  <2>1. p \in PacketType /\ m \in Nat
    BY <1>4, ReadFacts
  <2> HIDE DEF m, p
  <2> QED BY <1>4, <2>1, SubIs
<1>5. \/ x \in Range(out)
      \/ \E c \in Range(job.chapters) : Carried(c) /\ x = Chapter(c)
      \/ x.len = 0
      \/ Read /\ x \in Range(write_copy_pkt(m, p))
      \/ Read /\ ~SubGone(p) /\ x = Shortened(m, p)
  BY NewUnits
<1> HIDE DEF m, p
<1> QED BY <1>1, <1>2, <1>3, <1>4, <1>5

\* What a muxer is handed has a type, and a length that is not negative: no cue is left
\* with less than nothing, and no chapter when the window has something in it
\* (write_sub_pkt, copy_chapters); a decoder never keeps more than it may.
THEOREM TimelineTypeCorrect == Spec => [](WindowOpens /\ ChaptersOrdered(job) => TypeOK)
<1> DEFINE Inv == TypeInv /\ LenInv
<1>1. Init => Inv
  <2>1. Init => LenInv
    BY RangeNone DEF Init, LenInv
  <2> QED BY <2>1, TypeInvInit
<1>2. Inv /\ [Next]_vars => Inv'
  BY TypeInvNext, LenInvNext
<1>3. Inv => (WindowOpens /\ ChaptersOrdered(job) => TypeOK)
  <2> SUFFICES ASSUME Inv, WindowOpens, ChaptersOrdered(job) PROVE TypeOK
    OBVIOUS
  <2>1. out \in Seq(AnyUnit)
    BY DEF TypeInv
  <2>2. \A i \in 1..Len(out) : out[i] \in OutType
    <3> SUFFICES ASSUME NEW i \in 1..Len(out) PROVE out[i] \in OutType
      OBVIOUS
    <3>1. out[i] \in Range(out) /\ out[i] \in AnyUnit
      BY <2>1 DEF Range
    <3>2. out[i].len \in Nat
      BY <3>1 DEF LenInv
    <3> QED BY <3>1, <3>2 DEF AnyUnit, OutType, Time
  <2>3. out \in Seq(OutType)
    BY <2>1, <2>2
  <2>4. job \in JobType
    BY JobFacts DEF TypeInv
  <2> QED BY <2>3, <2>4 DEF TypeInv, TypeOK, Time
<1> QED BY <1>1, <1>2, <1>3, PTL DEF Spec

LEMMA CueInvNext == TypeInv /\ CueInv /\ [Next]_vars => CueInv'
<1> SUFFICES ASSUME TypeInv, CueInv, [Next]_vars PROVE CueInv'
  OBVIOUS
<1>1. /\ job' = job /\ next \in Nat /\ next' \in Nat
      /\ next' = next \/ (Read /\ next' = next + 1)
  BY JobStays, NextStays
<1>2. PICK m \in Nat : m = next + 1
  BY <1>1
<1> DEFINE p == job.src[m]
<1>3. ASSUME NEW x \in Range(out'), x.lane = "sub"
      PROVE  \/ x \in Range(out)
             \/ Read /\ p.st = "s" /\ job.sub /\ ~SubGone(p) /\ x = Shortened(m, p)
  <2>1. ~(x.lane = "chapter") /\ ~(x.lane = "enc") /\ ~(x.lane = "cpy")
    BY <1>3
  <2> QED BY <1>2, <2>1, NewUnits
<1>4. Shortened(m, p).lane = "sub" /\ Shortened(m, p).n = m
  BY DEF Shortened
<1>5. Read => next' = m
  BY <1>2, ReadFacts
<1>6. \A x \in Range(out) : x.lane = "sub" => x.n \in 1..next
  BY DEF CueInv
<1>7. \A x \in Range(out') : x.lane = "sub" => x.n \in 1..next'
  <2> TAKE x \in Range(out')
  <2> HAVE x.lane = "sub"
  <2> HIDE DEF p
  <2> QED BY <1>1, <1>2, <1>3, <1>4, <1>5, <1>6
<1>8. Range(out) \subseteq Range(out')
  BY UnitsStay
<1>9. ASSUME NEW n \in 1..next', job.sub, job.src[n].st = "s"
      PROVE  Cue(n)' = IF SubGone(job.src[n]) THEN {} ELSE {Shortened(n, job.src[n])}
  <2>1. Cue(n)' = {x \in Range(out') : x.lane = "sub" /\ x.n = n}
    BY DEF Cue, Range
  <2>2. CASE n \in 1..next
    <3>1. n # m
      BY <1>1, <1>2, <2>2
    <3>2. \A x \in Range(out') : x.lane = "sub" /\ x.n = n => x \in Range(out)
      <4> HIDE DEF p
      <4> QED BY <1>3, <1>4, <3>1
    <3>3. Cue(n)' = Cue(n)
      BY <1>8, <2>1, <3>2 DEF Cue
    <3> QED BY <1>9, <2>2, <3>3 DEF CueInv
  <2>3. CASE n \notin 1..next
    <3>1. Read /\ n = m
      BY <1>1, <1>2, <2>3
    <3>2. p \in PacketType
      BY <1>2, <3>1, ReadFacts
    <3>3. FromSub(m, p) = write_sub_pkt(m, p)
      BY <1>9, <3>1 DEF FromSub
    <3>4. Range(write_sub_pkt(m, p)) = IF SubGone(p) THEN {} ELSE {Shortened(m, p)}
      <4> HIDE DEF p
      <4> QED BY <3>2, SubIs
    <3>5. Range(FromSub(m, p)) \subseteq Range(out')
      BY <1>2, <3>1, ReadUnits
    <3>6. \A x \in Range(out) : ~(x.lane = "sub" /\ x.n = n)
      BY <1>6, <2>3
    <3>7. \A x \in Range(out') : x.lane = "sub" /\ x.n = n => ~SubGone(p) /\ x = Shortened(m, p)
      <4> HIDE DEF p
      <4> QED BY <1>3, <3>6
    <3>8. Cue(n)' = IF SubGone(p) THEN {} ELSE {Shortened(m, p)}
      <4> HIDE DEF p
      <4>1. CASE SubGone(p)
        BY <2>1, <3>7, <4>1
      <4>2. CASE ~SubGone(p)
        <5>1. Shortened(m, p) \in Range(out')
          BY <3>3, <3>4, <3>5, <4>2
        <5> QED BY <1>4, <2>1, <3>1, <3>7, <4>2, <5>1
      <4> QED BY <4>1, <4>2
    <3> QED BY <3>1, <3>8
  <2> QED BY <2>2, <2>3
<1>10. \A n \in 1..next' :
         job'.sub /\ job'.src[n].st = "s" =>
           Cue(n)' = IF SubGone(job.src[n])' THEN {} ELSE {Shortened(n, job.src[n])'}
  BY <1>1, <1>9, WindowStays
<1> QED BY <1>7, <1>10 DEF CueInv

LEMMA ChapInvNext == TypeInv /\ ChapInv /\ [Next]_vars => ChapInv'
<1> SUFFICES ASSUME TypeInv, ChapInv, [Next]_vars
             PROVE  {x \in Range(out') : x.lane = "chapter"} = IF headed' THEN Parted ELSE {}
  BY WindowStays DEF ChapInv, Range
<1>1. CASE WriteHeader
  <2>1. Range(out') = Parted /\ headed'
    BY <1>1, ChaptersAre DEF WriteHeader, Parted
  <2>2. \A x \in Parted : x.lane = "chapter"
    BY DEF Parted, Chapter
  <2> QED BY <2>1, <2>2
<1>2. CASE ~WriteHeader
  <2>1. headed' = headed
    BY <1>2 DEF Next, Read, Flush, Flushed, vars
  <2>2. \A x \in Range(out') : x.lane = "chapter" => x \in Range(out)
    <3> TAKE x \in Range(out')
    <3> HAVE x.lane = "chapter"
    <3>1. ~(x.lane = "sub") /\ ~(x.lane = "enc") /\ ~(x.lane = "cpy")
      OBVIOUS
    <3> QED BY <1>2, <3>1, NewUnits
  <2>3. Range(out) \subseteq Range(out')
    BY UnitsStay
  <2> QED BY <2>1, <2>2, <2>3 DEF ChapInv
<1> QED BY <1>1, <1>2

\* What is handed over of a cue is what the window leaves of it.
LEMMA CueOverlap ==
  ASSUME TypeInv, NEW m \in Nat, NEW p \in PacketType,
         EarlyBy(p) = IF start_us(p) < seek0 THEN seek0 - start_us(p) ELSE 0
  PROVE  Spans(IF SubGone(p) THEN {} ELSE {Shortened(m, p)}) = Overlap(start_us(p), start_us(p) + p.len)
<1> DEFINE C == SourceCutoff(seek0)
<1>1. PICK t \in Int, e \in Int : t = start_us(p) /\ e = t + p.len /\ t <= e /\ seek0 \in Int /\ C \in Int
  BY CueFacts
<1> HIDE DEF C
<1> DEFINE a == IF t < seek0 THEN seek0 ELSE t
           b == IF e > C THEN C ELSE e
<1>2. a = Max({t, seek0}) /\ b = Min({e, C})
  <2>1. Max({t, seek0}) = IF t >= seek0 THEN t ELSE seek0
    BY <1>1, OfTwo
  <2>2. Min({e, C}) = IF e <= C THEN e ELSE C
    BY <1>1, OfTwo
  <2> QED BY <1>1, <2>1, <2>2
<1>3. /\ p.len \in Nat /\ EarlyBy(p) = a - t /\ TailOff(p) = b - t /\ HeadOff(p, TailOff(p)) = b - a
  BY <1>1, CueFacts DEF HeadOff, TailOff, C
<1>4. Shortened(m, p).len = b - a /\ Shortened(m, p).at = a - (IF job.copyTs THEN 0 ELSE seek0)
  BY <1>1, <1>3 DEF Shortened, out_us
<1>5. ~SubGone(p) <=> a < b \/ (t = e /\ a = b /\ t < C)
  <2>1. SubGone(p) <=> t >= C \/ ((a - t > 0 \/ e > C) /\ b - a <= 0)
    <3> HIDE DEF a, b
    <3> QED BY <1>1, <1>3 DEF SubGone, C
  <2> QED BY <1>1, <2>1
<1>6. Spans({}) = {}
  BY DEF Spans
<1>7. \A x : Spans({x}) = {[at |-> x.at, len |-> x.len]}
  BY DEF Spans
<1>8. Overlap(t, e) =
        IF a < b \/ (t = e /\ a = b /\ t < C)
          THEN {[at |-> a - (IF job.copyTs THEN 0 ELSE seek0), len |-> b - a]} ELSE {}
  <2> HIDE DEF a, b
  <2> QED BY <1>2 DEF Overlap, C
<1> HIDE DEF a, b
<1> QED BY <1>1, <1>4, <1>5, <1>6, <1>7, <1>8

\* A cue is shown exactly while it and the window overlap, with or without a time, for
\* every start and window: none is written that the window leaves nothing of, and none is
\* lost that it leaves something of (write_sub_pkt).  The exception is a cue from before 0
\* where the source's timestamps are kept and a start is asked for.
THEOREM CuesAreClipped == Spec => [](CuesFromZero(job) => CuesClipped)
<1> DEFINE Inv == TypeInv /\ CueInv
<1>1. Init => Inv
  <2>1. Init => CueInv
    BY RangeNone DEF Init, CueInv
  <2> QED BY <2>1, TypeInvInit
<1>2. Inv /\ [Next]_vars => Inv'
  BY TypeInvNext, CueInvNext
<1>3. Inv => (CuesFromZero(job) => CuesClipped)
  <2> SUFFICES ASSUME Inv, CuesFromZero(job), NEW n \in 1..next, job.sub, job.src[n].st = "s"
               PROVE  Spans(Cue(n)) = Overlap(start_us(job.src[n]), start_us(job.src[n]) + job.src[n].len)
    BY DEF CuesClipped, Cue
  <2>1. job \in Jobs /\ next \in 0..Len(job.src) /\ Len(job.src) \in Nat
    BY JobFacts DEF TypeInv
  <2>2. n \in Nat /\ n \in 1..Len(job.src)
    BY <2>1
  <2>3. job.src[n] \in PacketType
    BY <2>1, <2>2, JobFacts
  <2>4. Cue(n) = IF SubGone(job.src[n]) THEN {} ELSE {Shortened(n, job.src[n])}
    BY DEF CueInv
  <2>5. EarlyBy(job.src[n]) = IF start_us(job.src[n]) < seek0 THEN seek0 - start_us(job.src[n]) ELSE 0
    BY <2>2, CutToStart
  <2> QED BY <2>2, <2>3, <2>4, <2>5, CueOverlap
<1> QED BY <1>1, <1>2, <1>3, PTL DEF Spec

\* Each chapter is what the window leaves of it, and one outside the window is dropped,
\* when no chapter is empty and the window is not (copy_chapters).
THEOREM ChaptersAreClipped == Spec => [](WindowOpens /\ ChaptersLast(job) => ChaptersClipped)
<1> DEFINE Inv == TypeInv /\ ChapInv
<1>1. Init => Inv
  <2>1. Init => ChapInv
    BY RangeNone DEF Init, ChapInv
  <2> QED BY <2>1, TypeInvInit
<1>2. Inv /\ [Next]_vars => Inv'
  BY TypeInvNext, ChapInvNext
<1>3. Inv => (WindowOpens /\ ChaptersLast(job) => ChaptersClipped)
  <2> SUFFICES ASSUME Inv, WindowOpens, ChaptersLast(job), headed
               PROVE  Spans(Parted) = UNION {Overlap(c.from, c.to) : c \in Range(job.chapters)}
    BY DEF ChaptersClipped, ChapInv
  <2> DEFINE Span(c) == [at |-> Chapter(c).at, len |-> Chapter(c).len]
  <2>1. ASSUME NEW c \in Range(job.chapters)
        PROVE  Overlap(c.from, c.to) = IF Carried(c) THEN {Span(c)} ELSE {}
    <3> DEFINE a == Max({c.from, seek0})
               b == Min({c.to, SourceCutoff(seek0)})
    <3>1. c.from < c.to
      BY DEF ChaptersLast
    <3>2. c.from # c.to
      <4>1. job.chapters \in Seq(ChapterType)
        BY JobFacts DEF TypeInv
      <4>2. c \in ChapterType
        BY <4>1 DEF Range
      <4> QED BY <3>1, <4>2 DEF ChapterType
    <3>3. /\ Carried(c) <=> a < b
          /\ Chapter(c).len = b - a /\ Chapter(c).at = a - (IF job.copyTs THEN 0 ELSE seek0)
      BY <3>1, ChapterLasts
    <3>4. Overlap(c.from, c.to) =
            IF a < b \/ (c.from = c.to /\ a = b /\ c.from < SourceCutoff(seek0))
              THEN {[at |-> a - (IF job.copyTs THEN 0 ELSE seek0), len |-> b - a]} ELSE {}
      BY DEF Overlap
    <3> HIDE DEF a, b
    <3> QED BY <3>2, <3>3, <3>4
  <2>2. Spans(Parted) = {Span(c) : c \in {d \in Range(job.chapters) : Carried(d)}}
    BY DEF Spans, Parted
  <2> HIDE DEF Span
  <2> QED BY <2>1, <2>2
<1> QED BY <1>1, <1>2, <1>3, PTL DEF Spec

\* Both: what has a duration loses exactly what lies outside the window.
THEOREM SpansAreClipped ==
  Spec => [](WindowOpens /\ ChaptersLast(job) /\ CuesFromZero(job) => SpansClipped)
<1>1. (CuesFromZero(job) => CuesClipped) /\ (WindowOpens /\ ChaptersLast(job) => ChaptersClipped)
        => (WindowOpens /\ ChaptersLast(job) /\ CuesFromZero(job) => SpansClipped)
  BY DEF SpansClipped
<1> QED BY <1>1, CuesAreClipped, ChaptersAreClipped, PTL
-----------------------------------------------------------------------------
(***************************************************************************)
(* Timestamps and MuxGuard                                                 *)
(***************************************************************************)
USE DEF MinTs, NOPTS, Ts

\* Sums and differences saturate over the whole range.
THEOREM SumsSaturate == Saturating
  BY TimestampsAssumption DEF Saturating, ts_add, ts_sub, Clamped

\* median3 is the middle value, over the whole range.
THEOREM MedianIsMiddle == Middling
<1> SUFFICES ASSUME NEW a \in Ts, NEW b \in Ts, NEW c \in Ts
             PROVE  IsMiddle(median3(a, b, c), a, b, c)
  BY DEF Middling
<1>1. a \in Int /\ b \in Int /\ c \in Int
  BY TimestampsAssumption
<1> DEFINE m == median3(a, b, c)
<1>2. \/ m = a /\ ((b <= m /\ m <= c) \/ (c <= m /\ m <= b))
      \/ m = b /\ ((c <= m /\ m <= a) \/ (a <= m /\ m <= c))
      \/ m = c /\ ((a <= m /\ m <= b) \/ (b <= m /\ m <= a))
  BY <1>1 DEF median3, FFMIN, FFMAX
<1> QED
  BY <1>2 DEF IsMiddle

\* The earliest dts the guard lets through is the last, or a tick after it.
LEMMA FloorIsNext ==
  ASSUME NEW last \in Ts
  PROVE  /\ Floor(last) \in Ts
         /\ last <= Floor(last) /\ Floor(last) <= last + 1
         /\ Nonstrict => Floor(last) = last
         /\ ~Nonstrict /\ last # MaxTs => Floor(last) = last + 1
  BY TimestampsAssumption DEF Floor, ts_add

\* A guess never has its dts past its pts, nor past the dts it replaces.
LEMMA GuessOrders ==
  ASSUME NEW last \in Ts, NEW p \in Packet
  PROVE  /\ Guess(last, p) \in Packet
         /\ Timed(Guess(last, p)) => Guess(last, p).dts <= Guess(last, p).pts
         /\ Guess(last, p).dts <= p.dts
<1>1. p.pts \in Int /\ p.dts \in Int /\ p.pts \in Ts /\ p.dts \in Ts
  BY TimestampsAssumption DEF Packet
<1>2. ts_add(last, 1) \in Ts
  BY TimestampsAssumption DEF ts_add
<1>3. CASE Timed(p) /\ p.dts > p.pts
  <2> DEFINE m == median3(p.pts, p.dts, ts_add(last, 1))
  <2>1. Guess(last, p) = [pts |-> m, dts |-> m]
    BY <1>3 DEF Guess
  <2>2. m \in Ts /\ m <= p.dts
    BY <1>1, <1>2, <1>3, TimestampsAssumption DEF median3, FFMIN, FFMAX
  <2> HIDE DEF m
  <2> QED
    BY <2>1, <2>2, TimestampsAssumption DEF Packet
<1>4. CASE ~(Timed(p) /\ p.dts > p.pts)
  BY <1>1, <1>4 DEF Guess, Timed
<1> QED
  BY <1>3, <1>4

\* What the guard hands over has its dts at or before its pts, at or after the
\* floor, and past the dts it was given no further than the floor.
LEMMA FixupOrders ==
  ASSUME NEW last \in Ts, NEW type \in Types, NEW p \in Packet
  PROVE  LET q == mux_fixup_ts(last, type, p) IN
         /\ q \in Packet
         /\ ~NoTimestamps /\ Timed(q) => q.dts <= q.pts
         /\ ~NoTimestamps /\ type # "data" /\ last # NOPTS /\ q.dts # NOPTS => Floor(last) <= q.dts
         /\ \/ q.dts <= p.dts
            \/ ~NoTimestamps /\ last # NOPTS /\ q.dts = Floor(last)
<1> DEFINE q == mux_fixup_ts(last, type, p)
           g == Guess(last, p)
<1>1. g \in Packet /\ (Timed(g) => g.dts <= g.pts) /\ g.dts <= p.dts
  BY GuessOrders
<1>2. Floor(last) \in Ts /\ last <= Floor(last)
  BY FloorIsNext
<1> HIDE DEF g
<1>3. g.pts \in Int /\ g.dts \in Int /\ g.pts \in Ts /\ g.dts \in Ts /\ Floor(last) \in Int
  BY <1>1, <1>2, TimestampsAssumption DEF Packet
<1>4. CASE NoTimestamps
  <2>1. q = p
    BY <1>4 DEF mux_fixup_ts
  <2>2. p.dts \in Int
    BY TimestampsAssumption DEF Packet
  <2> QED
    BY <1>4, <2>1, <2>2
<1>5. CASE ~NoTimestamps
  <2>1. q = Clamp(last, type, g)
    BY <1>5 DEF mux_fixup_ts, g
  <2>2. CASE type # "data" /\ g.dts # NOPTS /\ last # NOPTS /\ g.dts < Floor(last)
    <3>1. q = [pts |-> IF g.pts >= g.dts THEN FFMAX(g.pts, Floor(last)) ELSE g.pts,
               dts |-> Floor(last)]
      BY <2>1, <2>2 DEF Clamp
    <3>2. q.dts = Floor(last) /\ q.pts \in Ts /\ q.pts \in Int
      BY <3>1, <1>2, <1>3 DEF FFMAX
    <3>3. q \in Packet
      BY <3>1, <3>2, <1>2 DEF Packet
    <3>4. Timed(q) => q.dts <= q.pts
      <4>1. CASE g.pts >= g.dts
        BY <4>1, <3>1, <1>3 DEF FFMAX
      <4>2. CASE ~(g.pts >= g.dts)
        BY <4>2, <3>1, <1>1, <1>3, <2>2 DEF Timed
      <4> QED
        BY <4>1, <4>2
    <3> QED
      BY <3>2, <3>3, <3>4, <2>2, <1>3, <1>5
  <2>3. CASE ~(type # "data" /\ g.dts # NOPTS /\ last # NOPTS /\ g.dts < Floor(last))
    <3>1. q = g
      BY <2>1, <2>3 DEF Clamp
    <3> QED
      BY <3>1, <2>3, <1>1, <1>3
  <2> QED
    BY <2>2, <2>3
<1> QED
  BY <1>4, <1>5
-----------------------------------------------------------------------------
\* GuardSpec => []GuardTypeOK: no timestamp leaves the range of an integer.
THEOREM GuardTypeCorrect == GuardSpec => []GuardTypeOK
<1>1. GuardInit => GuardTypeOK
  BY TimestampsAssumption, MuxGuardAssumption DEF GuardInit, GuardTypeOK
<1>2. GuardTypeOK /\ [GuardNext]_guardVars => GuardTypeOK'
  <2> SUFFICES ASSUME GuardTypeOK, [GuardNext]_guardVars PROVE GuardTypeOK'
    OBVIOUS
  <2>1. ASSUME NEW s \in Streams, NEW p \in Packet, pmux(s, p) PROVE GuardTypeOK'
    <3> DEFINE q == mux_fixup_ts(last_dts[s], Type[s], p)
    <3>1. last_dts[s] \in Ts /\ muxer[s] \in Ts /\ top[s] \in Ts /\ Type[s] \in Types
      BY MuxGuardAssumption DEF GuardTypeOK
    <3>2. q.dts \in Ts /\ p.dts \in Ts
      BY <3>1, FixupOrders DEF Packet
    <3>3. FFMAX(top[s], p.dts) \in Ts
      BY <3>1, <3>2 DEF FFMAX
    <3>4. handed[s] + 1 \in 0..MaxPackets
      BY <2>1, MuxGuardAssumption DEF GuardTypeOK, pmux
    <3>5. (IF q.dts = NOPTS THEN muxer[s] ELSE q.dts) \in Ts
      BY <3>1, <3>2
    <3> HIDE DEF q
    <3>6. /\ flags' = flags
          /\ last_dts' = [last_dts EXCEPT ![s] = q.dts]
          /\ \/ failed' = {s} /\ muxer' = muxer
             \/ failed' = failed /\ muxer' = [muxer EXCEPT ![s] = IF q.dts = NOPTS THEN @ ELSE q.dts]
          /\ handed' = [handed EXCEPT ![s] = @ + 1]
          /\ top' = [top EXCEPT ![s] = FFMAX(@, p.dts)]
      BY <2>1 DEF pmux, q
    <3> QED
      BY <3>1, <3>2, <3>3, <3>4, <3>5, <3>6 DEF GuardTypeOK
  <2>2. CASE UNCHANGED guardVars
    BY <2>2 DEF GuardTypeOK, guardVars
  <2> QED
    BY <2>1, <2>2 DEF GuardNext
<1> QED
  BY <1>1, <1>2, PTL DEF GuardSpec
-----------------------------------------------------------------------------
\* One packet, as the theorems below need it: only stream s changes, and what is
\* handed over is at most the packet's dts, or just past the last one.
LEMMA PacketStep ==
  ASSUME GuardTypeOK, NEW s \in Streams, NEW p \in Packet, pmux(s, p)
  PROVE  /\ flags' = flags
         /\ \A x \in Streams : x # s => /\ last_dts'[x] = last_dts[x]
                                        /\ top'[x] = top[x] /\ handed'[x] = handed[x]
         /\ handed'[s] = handed[s] + 1
         /\ top[s] <= top'[s]
         /\ \/ last_dts'[s] <= top'[s]
            \/ ~NoTimestamps /\ last_dts[s] # NOPTS /\ last_dts'[s] = Floor(last_dts[s])
<1> DEFINE q == mux_fixup_ts(last_dts[s], Type[s], p)
<1>1. last_dts[s] \in Ts /\ Type[s] \in Types /\ top[s] \in Int /\ p.dts \in Int
  BY MuxGuardAssumption, TimestampsAssumption DEF GuardTypeOK, Packet
<1>2. q \in Packet /\ (q.dts <= p.dts \/ (~NoTimestamps /\ last_dts[s] # NOPTS /\ q.dts = Floor(last_dts[s])))
  BY <1>1, FixupOrders
<1>3. q.dts \in Int
  BY <1>2, TimestampsAssumption DEF Packet
<1> HIDE DEF q
<1>4. /\ flags' = flags
      /\ last_dts' = [last_dts EXCEPT ![s] = q.dts]
      /\ handed' = [handed EXCEPT ![s] = @ + 1]
      /\ top' = [top EXCEPT ![s] = FFMAX(@, p.dts)]
  BY DEF pmux, q
<1>5. /\ last_dts'[s] = q.dts /\ handed'[s] = handed[s] + 1 /\ top'[s] = FFMAX(top[s], p.dts)
      /\ \A x \in Streams : x # s => last_dts'[x] = last_dts[x] /\ top'[x] = top[x] /\ handed'[x] = handed[x]
  BY <1>4 DEF GuardTypeOK
<1>6. top[s] <= top'[s] /\ p.dts <= top'[s]
  BY <1>1, <1>5 DEF FFMAX
<1>7. top'[s] \in Int
  BY <1>1, <1>5 DEF FFMAX
<1> QED
  BY <1>1, <1>2, <1>3, <1>4, <1>5, <1>6, <1>7

\* GuardSpec => []DriftPerPacket: however long the media repeats itself, the guard runs
\* at most a tick per packet ahead of it.
THEOREM DriftIsPerPacket == GuardSpec => []DriftPerPacket
<1>1. GuardInit => DriftPerPacket
  BY DEF GuardInit, DriftPerPacket
<1>2. GuardTypeOK /\ GuardTypeOK' /\ DriftPerPacket /\ [GuardNext]_guardVars => DriftPerPacket'
  <2> SUFFICES ASSUME GuardTypeOK, GuardTypeOK', DriftPerPacket, [GuardNext]_guardVars PROVE DriftPerPacket'
    OBVIOUS
  <2>1. ASSUME NEW s \in Streams, NEW p \in Packet, pmux(s, p) PROVE DriftPerPacket'
    <3> SUFFICES ASSUME NEW x \in Streams, last_dts'[x] # NOPTS
                 PROVE  last_dts'[x] <= top'[x] + handed'[x]
      BY DEF DriftPerPacket
    <3>1. /\ last_dts[x] \in Ts /\ last_dts[x] \in Int /\ last_dts'[x] \in Int
          /\ top[x] \in Int /\ top'[x] \in Int /\ handed[x] \in Nat /\ handed'[x] \in Nat
      BY TimestampsAssumption, MuxGuardAssumption DEF GuardTypeOK
    <3>2. last_dts[x] # NOPTS => last_dts[x] <= top[x] + handed[x]
      BY DEF DriftPerPacket
    <3>3. CASE x # s
      BY <2>1, <3>2, <3>3, PacketStep
    <3>4. CASE x = s
      <4>1. /\ handed'[x] = handed[x] + 1 /\ top[x] <= top'[x]
            /\ \/ last_dts'[x] <= top'[x]
               \/ last_dts[x] # NOPTS /\ last_dts'[x] = Floor(last_dts[x])
        BY <2>1, <3>4, PacketStep
      <4>2. Floor(last_dts[x]) <= last_dts[x] + 1 /\ Floor(last_dts[x]) \in Int
        BY <3>1, FloorIsNext, TimestampsAssumption
      <4> QED
        BY <3>1, <3>2, <4>1, <4>2
    <3> QED
      BY <3>3, <3>4
  <2>2. CASE UNCHANGED guardVars
    BY <2>2 DEF DriftPerPacket, guardVars
  <2> QED
    BY <2>1, <2>2 DEF GuardNext
<1> QED
  BY <1>1, <1>2, GuardTypeCorrect, PTL DEF GuardSpec

\* GuardSpec => []NoNeedlessDrift: no drift at all where the format does not need it.
THEOREM NoDriftWhereNotNeeded == GuardSpec => []NoNeedlessDrift
<1>1. GuardInit => NoNeedlessDrift
  BY TimestampsAssumption DEF GuardInit, NoNeedlessDrift
<1>2. GuardTypeOK /\ GuardTypeOK' /\ NoNeedlessDrift /\ [GuardNext]_guardVars => NoNeedlessDrift'
  <2> SUFFICES ASSUME GuardTypeOK, GuardTypeOK', NoNeedlessDrift, [GuardNext]_guardVars PROVE NoNeedlessDrift'
    OBVIOUS
  <2>1. ASSUME NEW s \in Streams, NEW p \in Packet, pmux(s, p) PROVE NoNeedlessDrift'
    <3>0. flags' = flags
      BY <2>1, PacketStep
    <3> SUFFICES ASSUME Nonstrict \/ NoTimestamps, NEW x \in Streams
                 PROVE  last_dts'[x] <= top'[x]
      BY <3>0 DEF NoNeedlessDrift, Nonstrict, NoTimestamps
    <3>1. last_dts[x] \in Ts /\ last_dts[x] \in Int /\ top[x] \in Int /\ top'[x] \in Int
      BY TimestampsAssumption DEF GuardTypeOK
    <3>2. last_dts[x] <= top[x]
      BY DEF NoNeedlessDrift
    <3>3. CASE x # s
      BY <2>1, <3>2, <3>3, PacketStep
    <3>4. CASE x = s
      <4>1. /\ top[x] <= top'[x]
            /\ \/ last_dts'[x] <= top'[x]
               \/ ~NoTimestamps /\ last_dts'[x] = Floor(last_dts[x])
        BY <2>1, <3>4, PacketStep
      <4>2. Nonstrict => Floor(last_dts[x]) = last_dts[x]
        BY <3>1, FloorIsNext
      <4> QED
        BY <3>1, <3>2, <4>1, <4>2
    <3> QED
      BY <3>3, <3>4
  <2>2. CASE UNCHANGED guardVars
    BY <2>2 DEF NoNeedlessDrift, Nonstrict, NoTimestamps, guardVars
  <2> QED
    BY <2>1, <2>2 DEF GuardNext
<1> QED
  BY <1>1, <1>2, GuardTypeCorrect, PTL DEF GuardSpec

\* GuardSpec => []DriftBounded: the two together.
THEOREM DriftIsBounded == GuardSpec => []DriftBounded
<1>1. DriftPerPacket /\ NoNeedlessDrift => DriftBounded
  BY DEF DriftBounded
<1> QED
  BY <1>1, DriftIsPerPacket, NoDriftWhereNotNeeded, PTL
-----------------------------------------------------------------------------
\* The guard's idea of the last dts is the muxer's, until one is refused or has
\* none.
MuxerAtLast ==
  failed = {} => \A s \in Streams : last_dts[s] # NOPTS => muxer[s] = last_dts[s]

\* GuardSpec => []MuxerAtLast.
LEMMA MuxerStaysAtLast == GuardSpec => []MuxerAtLast
<1>1. GuardInit => MuxerAtLast
  BY DEF GuardInit, MuxerAtLast
<1>2. GuardTypeOK /\ MuxerAtLast /\ [GuardNext]_guardVars => MuxerAtLast'
  <2> SUFFICES ASSUME GuardTypeOK, MuxerAtLast, [GuardNext]_guardVars PROVE MuxerAtLast'
    OBVIOUS
  <2>1. ASSUME NEW s \in Streams, NEW p \in Packet, pmux(s, p) PROVE MuxerAtLast'
    <3> DEFINE q == mux_fixup_ts(last_dts[s], Type[s], p)
    <3>1. /\ failed = {}
          /\ last_dts' = [last_dts EXCEPT ![s] = q.dts]
          /\ \/ failed' = {s}
             \/ muxer' = [muxer EXCEPT ![s] = IF q.dts = NOPTS THEN @ ELSE q.dts]
      BY <2>1 DEF pmux
    <3> HIDE DEF q
    <3> QED
      BY <3>1 DEF MuxerAtLast, GuardTypeOK
  <2>2. CASE UNCHANGED guardVars
    BY <2>2 DEF MuxerAtLast, guardVars
  <2> QED
    BY <2>1, <2>2 DEF GuardNext
<1> QED
  BY <1>1, <1>2, GuardTypeCorrect, PTL DEF GuardSpec

\* GuardSpec => NeverRefused: whatever the media's timestamps, the muxer refuses nothing
\* of an audio, video or subtitle stream, save at the two edges Excused names.
THEOREM GuardHolds == GuardSpec => NeverRefused
<1>1. GuardTypeOK /\ MuxerAtLast /\ [GuardNext]_guardVars => [\A s \in Streams : s \in failed' \ failed => Excused(s)]_guardVars
  <2> SUFFICES ASSUME GuardTypeOK, MuxerAtLast, NEW s \in Streams, NEW p \in Packet, pmux(s, p),
                      NEW x \in Streams, x \in failed' \ failed, ~Excused(x)
               PROVE  FALSE
    BY DEF GuardNext
  <2> DEFINE q == mux_fixup_ts(last_dts[s], Type[s], p)
  <2>1. x = s /\ failed = {} /\ Refuses(s, q)
    BY DEF pmux
  <2>2. last_dts[s] \in Ts /\ muxer[s] \in Ts /\ last_dts[s] \in Int /\ muxer[s] \in Int /\ Type[s] \in Types
    BY MuxGuardAssumption, TimestampsAssumption DEF GuardTypeOK
  <2>3. /\ q \in Packet
        /\ ~NoTimestamps /\ Timed(q) => q.dts <= q.pts
        /\ ~NoTimestamps /\ Type[s] # "data" /\ last_dts[s] # NOPTS /\ q.dts # NOPTS => Floor(last_dts[s]) <= q.dts
    BY <2>2, FixupOrders
  <2>4. Type[s] # "data" /\ last_dts[s] # MaxTs /\ (last_dts[s] = NOPTS => muxer[s] = NOPTS)
    BY <2>1 DEF Excused
  <2> HIDE DEF q
  <2>5. q.dts \in Int /\ q.pts \in Int
    BY <2>3, TimestampsAssumption DEF Packet
  <2>6. ~NoTimestamps /\ q.dts # NOPTS /\ muxer[s] # NOPTS
        /\ (IF Nonstrict THEN q.dts < muxer[s] ELSE q.dts <= muxer[s])
    BY <2>1, <2>3, <2>5 DEF Refuses
  <2>7. muxer[s] = last_dts[s] /\ last_dts[s] # NOPTS
    BY <2>1, <2>4, <2>6 DEF MuxerAtLast
  <2>8. Floor(last_dts[s]) <= q.dts
    BY <2>3, <2>4, <2>6, <2>7
  <2>9. CASE Nonstrict
    BY <2>2, <2>5, <2>6, <2>7, <2>8, <2>9, FloorIsNext
  <2>10. CASE ~Nonstrict
    <3>1. Floor(last_dts[s]) = last_dts[s] + 1
      BY <2>2, <2>4, <2>10, FloorIsNext
    <3> QED
      BY <3>1, <2>2, <2>5, <2>6, <2>7, <2>8, <2>10
  <2> QED
    BY <2>9, <2>10
<1> QED
  BY <1>1, GuardTypeCorrect, MuxerStaysAtLast, PTL DEF GuardSpec, NeverRefused
=============================================================================
