----------------------------- MODULE MCTimeline -----------------------------
(* The jobs Timeline is run on. *)
EXTENDS Timeline

\* Before and after every time of the jobs.
NoTime == -1000

V(d, p) == [st |-> "v", pts |-> p, dts |-> d, len |-> 0]
A(t)    == [st |-> "a", pts |-> t, dts |-> t, len |-> 0]
C(t, l) == [st |-> "s", pts |-> t, dts |-> t, len |-> l]
Untimed(c) == [c EXCEPT !.pts = None, !.dts = None]

\* A clip of reordered video: an I frame, a P that a B between them needs, and
\* again; an open one, whose second B is presented before the P before it.
Closed(b) == <<V(b-1, b), V(b, b+2), V(b+1, b+1), V(b+2, b+4), V(b+3, b+3)>>
Open(b)   == <<V(b-2, b), V(b-1, b+3), V(b, b+1), V(b+1, b+2), V(b+2, b+4)>>

\* The same in a container that does not store decode times, or times some
\* packets not at all.
NoDts(s)    == [n \in DOMAIN s |-> [s[n] EXCEPT !.dts = None]]
DtsOnly(s)  == [n \in DOMAIN s |-> [s[n] EXCEPT !.pts = None]]
FirstBare(s) == [s EXCEPT ![1] = [@ EXCEPT !.pts = None, !.dts = None]]

\* Audio from t on, and audio with nothing where an exact start may be asked for.
Audio(t)  == <<A(t), A(t + 1), A(t + 2), A(t + 3)>>
Sparse    == <<A(0), A(3), A(4), A(6)>>

\* Two streams interleaved, the second from its own beginning.
Woven(a, b) == <<a[1], b[1], a[2], b[2], a[3], b[3], a[4], b[4], a[5]>>

\* Cues from 0 on; the first without a time; and the first from before 0.
Cues == {<<C(0, l1), C(t, l2)>> : l1 \in {0, 2, 7}, t \in 1..5, l2 \in {0, 1, 3}}
        \cup {<<Untimed(C(0, 2)), C(t, 3)>> : t \in 1..3}
EarlyCues == {<<C(-2, l), C(t, 3)>> : l \in {0, 2, 3, 7}, t \in 1..3}

J0 == [chapters |-> <<>>, src |-> <<>>, seek |-> None, accurate |-> FALSE, pads |-> {}, cpys |-> {}, sub |-> FALSE,
       dur |-> 0, end |-> 0, copyTs |-> FALSE]

\* Every window there is: none, short, long, and by its end.
Windowed(J) == {[j EXCEPT !.dur = w[1], !.end = w[2], !.copyTs = c] :
                  j \in J, w \in {<<0, 0>>, <<2, 0>>, <<4, 0>>, <<0, 3>>, <<0, 6>>}, c \in BOOLEAN}

Copies ==
  {[J0 EXCEPT !.src = s, !.cpys = {"v"}, !.seek = k] :
     k \in {None, 2},
     s \in UNION {{Closed(b), Open(b), NoDts(Closed(b)), NoDts(Open(b)), DtsOnly(Open(b)),
                   FirstBare(Closed(b))} : b \in {0, 2}}}
  \cup
  {[J0 EXCEPT !.src = Woven(v, Audio(t)), !.cpys = {"v", "a"}] :
     v \in {Closed(2), Open(2), FirstBare(Open(2))}, t \in 1..3}

Exact ==
  {[J0 EXCEPT !.src = Woven(Closed(0), s) \o c, !.pads = {"v", "a"}, !.sub = TRUE,
              !.seek = k, !.accurate = k # None] :
     s \in {Audio(0), Audio(1), Sparse}, k \in {None, 1, 2}, c \in {<<C(0, 3), C(2, 2)>>, <<C(1, 0), C(3, 4)>>, <<C(-1, 3), Untimed(C(2, 2))>>}}

\* Chapters from the beginning on, and one that begins after any start asked for.
Parts == {<<[from |-> 0, to |-> 2], [from |-> 2, to |-> 7]>>, <<[from |-> 1, to |-> 4], [from |-> 5, to |-> 6]>>}

Titles == {[J0 EXCEPT !.src = c, !.sub = TRUE, !.seek = k] : c \in Cues \cup EarlyCues, k \in {None, 0, 1, 2, 3}}

\* Chapters, with the frames and cues they should stay with, unless the window is
\* empty: copy_ts with an end before the start.
Chaptered ==
  {j \in Windowed({[J0 EXCEPT !.chapters = c, !.src = Closed(0) \o <<C(0, 3)>>, !.pads = {"v"}, !.sub = TRUE,
                              !.seek = k, !.accurate = k # None] : c \in Parts, k \in {None, 1, 3}}) :
     ~(j.copyTs /\ j.end > 0 /\ j.end <= j.seek)}
\* And when it is.
EmptyWindow == {[J0 EXCEPT !.chapters = <<[from |-> 0, to |-> 7]>>, !.src = Closed(2), !.pads = {"v"}, !.seek = 3, !.end = 2, !.copyTs = TRUE]}

\* Without the cues before 0 that are not clipped to the start.
AllJobs == {j \in Windowed(Copies \cup Exact \cup Titles) : CuesFromZero(j)} \cup Chaptered

\* They are what the theorems of TimeProofs ask of a source.
ASSUME Sources == \A j \in AllJobs : DecodeOrder(j) /\ DecodedFirst(j) /\ ChaptersLast(j) /\ CuesFromZero(j)

\* A fast seek to 3 of a file with a key frame at 2.
FastTitles == {[J0 EXCEPT !.src = <<V(2, 2), V(3, 3), C(3, 2), V(4, 4)>>, !.pads = {"v"}, !.sub = TRUE, !.seek = 3]}
\* The same, with audio packets in front of the key frame's in the file.
FastSound == {[J0 EXCEPT !.src = <<A(1), V(2, 2), A(2), V(3, 3), A(3)>>, !.pads = {"v", "a"}, !.seek = 3]}
\* A seek to 3 of a cue from -2 to 5, with the source's timestamps asked for.
EarlyTitles == {[J0 EXCEPT !.src = <<C(-2, 7)>>, !.sub = TRUE, !.seek = 3, !.copyTs = TRUE]}
\* A file whose timestamps begin at 2.
LateStart == {[J0 EXCEPT !.src = <<V(2, 2), V(3, 3), V(4, 4)>>, !.pads = {"v"}]}
\* The fast seek again, with the source's timestamps asked for.
FastCopyTs == {[J0 EXCEPT !.src = <<V(2, 2), V(3, 3)>>, !.pads = {"v"}, !.seek = 3, !.copyTs = TRUE]}
=============================================================================
