------------------------------ MODULE MCFrames ------------------------------
(* The jobs Frames is run on. *)
EXTENDS Frames

J0 == [select |-> [times |-> <<0>>], token |-> TRUE, cap |-> 4,
       times |-> <<0, 2, 3, 5, 6>>, keys |-> {1, 4}, dur |-> 8, seekable |-> TRUE,
       end |-> "eof", silent |-> {}]

\* A video that begins at 1, one without a frame.
Videos == {J0, [J0 EXCEPT !.times = <<1, 2, 4>>, !.keys = {1, 2, 3}], [J0 EXCEPT !.times = <<>>, !.keys = {}]}

Selections ==
  {[times |-> s] : s \in {<<3>>, <<9>>, <<0, 4>>, <<5, 1, 2>>, <<2, 2>>, <<1, 9, 3>>, <<0, 2, 3, 5, 6, 1>>}}
    \cup {[step |-> n] : n \in {0, 1, 2, 3, 5}}
    \cup {[picks |-> s] : s \in {{}, {2}, {1, 3, 5}, 1..5}}
    \cup {[batch |-> n] : n \in {1, 2, 3, 9}}

AllJobs ==
  {[v EXCEPT !.select = s, !.token = k, !.cap = c, !.dur = d, !.seekable = b, !.end = e] :
     v \in Videos, s \in Selections, k \in BOOLEAN, c \in {1, 3, 9}, d \in {8, None},
     b \in BOOLEAN, e \in {"eof", "error"}}

\* The last frame of the video is asked for.
TailJobs  == {[J0 EXCEPT !.select = [times |-> <<6>>]]}
\* The input breaks off with an error that the demuxer takes for the end.
BreakJobs == {[J0 EXCEPT !.select = [times |-> <<3, 9>>], !.end = "ioeof"]}
\* The host fails while the demuxer seeks; while the graph is flushed.
SeekJobs  == {[J0 EXCEPT !.select = [times |-> <<3>>], !.silent = {"seek"}]}
SinkJobs  == {[J0 EXCEPT !.select = [batch |-> 9], !.silent = {"sink"}]}
ThumbJobs == {[J0 EXCEPT !.select = [batch |-> 2]]}
=============================================================================
