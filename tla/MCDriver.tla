------------------------------- MODULE MCDriver -------------------------------
(***************************************************************************)
(* The requests TLC starts the driver with.                                *)
(***************************************************************************)
EXTENDS Driver

KnowsDef == [demuxer |-> {"rate", "range"}, muxer |-> {"flags"},
             v |-> {"b", "g"}, a |-> {"b"}, s |-> {"b"}]

TimesDef == {-1, 1, 3}

EnvironmentsDef ==
  { [native |-> FALSE, socket |-> FALSE, optout |-> FALSE],
    [native |-> TRUE,  socket |-> FALSE, optout |-> FALSE],
    [native |-> TRUE,  socket |-> TRUE,  optout |-> FALSE],
    [native |-> TRUE,  socket |-> TRUE,  optout |-> TRUE] }

Name(n, v) == [x \in {n} |-> v]
File(streams) == [kind |-> "file", known |-> TRUE, streams |-> streams, opts |-> <<>>, seek |-> "none"]

NoOpts == [k \in {"all", "v", "a", "s", "muxer"} |-> {}]
To(map, v, a, s) ==
  [map |-> map, v |-> v, a |-> a, s |-> s, opts |-> NoOpts, meta |-> {}, bsf |-> {},
   set |-> FALSE, wellFormed |-> {v, a, s} # {"none"}, chaptersOk |-> TRUE]

Lane1(label, type) == [label |-> label, type |-> type]
Filter(ins, outs)  == <<[ins |-> ins, outs |-> outs]>>
Job0(inputs, filter, outputs) ==
  [inputs |-> inputs, filter |-> filter, outputs |-> outputs, progress |-> FALSE]

AV     == <<"v", "a">>
Mixed  == <<"a", "v", "s", "v">>
Copied == To(<<>>, "copy", "copy", "none")
Coded  == To(<<>>, "real", "real", "none")

\* No map, no filter: every codec against what the input has.
Defaults ==
  { Job0(<<File(st)>>, <<>>, <<To(<<>>, v, a, "none")>>) :
      st \in {AV, <<"a">>, <<"s">>}, v \in Codecs, a \in {"none", "copy", "real"} }

\* Streams by type, by number of the type and by absolute index, some of them not
\* there, copied or transcoded.
Asked ==
  { Stream(1, "v", -1), Stream(1, "v", 1), Stream(1, "v", 2), Stream(1, "any", 2),
    Stream(1, "any", 9), Stream(1, "s", -1), Stream(2, "s", 0), Stream(3, "v", -1), Garbled }
Tagging == { {}, {Stream(1, "any", 2), Stream(1, "s", -1)} }
Maps ==
  { Job0(<<File(Mixed), File(<<"s">>)>>, <<>>,
         <<[To(m, "copy", "copy", s) EXCEPT !.meta = t, !.bsf = t]>>) :
      m \in {<<e>> : e \in Asked} \cup {p \in Asked \X Asked : p[1] # p[2]},
      s \in Codecs, t \in Tagging }
  \cup { Job0(<<File(Mixed)>>, <<>>, <<To(<<Stream(1, "v", -1)>>, v, a, "none")>>) :
           v \in {"real", "none", "copy"}, a \in {"real", "none"} }

\* A filter with two pads, for one output or split between two, beside copies.
TwoPads == Filter(<<Stream(1, "v", 1), Stream(1, "a", -1)>>, <<Lane1("x", "v"), Lane1("y", "a")>>)
Routes ==
  { <<[Coded EXCEPT !.meta = {Pad("x")}]>>, <<To(<<>>, "real", "copy", "none")>>,
    <<To(<<>>, "bogus", "real", "none")>>,
    <<To(<<Pad("x")>>, "real", "none", "none"), To(<<Pad("y")>>, "none", "real", "none")>>,
    <<To(<<Pad("y"), Stream(1, "v", -1)>>, "copy", "real", "none"),
      [To(<<Pad("x"), Stream(1, "s", -1)>>, "real", "copy", "real")
         EXCEPT !.meta = {Pad("x"), Stream(1, "s", -1)}, !.bsf = {Stream(1, "s", -1)}]>>,
    <<To(<<Pad("x")>>, "real", "none", "none"), To(<<Stream(1, "v", 0)>>, "copy", "none", "none")>>,
    <<To(<<Pad("x"), Pad("y")>>, "real", "real", "none"), Copied>> }
Filters ==
  { Job0(<<File(Mixed)>>, TwoPads, outs) : outs \in Routes }
  \cup { Job0(<<File(Mixed)>>, Filter(<<src>>, <<Lane1("x", "v")>>), <<To(<<Pad("x")>>, "real", "none", "none")>>) :
           src \in {Stream(1, "v", -1), Stream(1, "v", 2), Stream(2, "v", -1), Garbled} }

\* Options of the encoders, of the muxer, and of an input.
Opts(all, v, a, m) == [NoOpts EXCEPT !["all"] = all, !["v"] = v, !["a"] = a, !["muxer"] = m]
Options ==
  { Job0(<<File(AV)>>, <<>>, <<[Coded EXCEPT !.opts = Opts(all, v, a, m)]>>) :
      all \in {{}, {"b"}, {"b", "g"}}, v \in SUBSET {"b", "g"}, a \in SUBSET {"b", "bogus"},
      m \in {{}, {"flags"}, {"bogus"}} }
  \cup { Job0(<<File(Mixed)>>, <<>>,
              <<[To(<<Stream(1, "s", -1)>>, "copy", "none", "real")
                   EXCEPT !.opts = [NoOpts EXCEPT !["all"] = {"b"}, !["s"] = o]]>>) :
           o \in {{}, {"b"}, {"g"}} }
Opened ==
  { Job0(<<[kind |-> k, known |-> known, streams |-> AV, opts |-> o, seek |-> s]>>, <<>>, <<out>>) :
      k \in {"file", "pattern"}, known \in BOOLEAN, s \in {"none", "fast", "accurate", "bad"},
      o \in {<<>>, Name("rate", 1), Name("rate", NotAString), Name("bogus", 1), Name("range", 1),
             Name("range", 5)},
      out \in {Copied, Coded} }
  \cup { Job0(<<[File(AV) EXCEPT !.kind = "concat", !.seek = s]>>, <<>>, <<Copied>>) :
           s \in {"none", "fast", "bad"} }
  \cup { Job0(<<File(AV)>>, <<>>, <<o>>) :
           o \in {[Coded EXCEPT !.set = TRUE], [Coded EXCEPT !.chaptersOk = FALSE],
                  [Coded EXCEPT !.wellFormed = FALSE]} }

\* Every array of Ctx full, and one past that.
Copies(n) == [k \in 1..n |-> Stream(1, "any", k - 1)]
Full3(n)  == Filter([k \in 1..n |-> Stream(1, "v", -1)], [k \in 1..n |-> Lane1(ToString(k), "v")])
Limits ==
  UNION { { Job0([k \in 1..n |-> File(AV)], <<>>, <<Copied>>),
            Job0(<<File(Mixed)>>, <<>>, [k \in 1..n |-> To(<<Stream(1, "v", -1)>>, "copy", "none", "none")]),
            Job0(<<File(Mixed)>>, <<>>, <<To(Copies(n), "copy", "copy", "copy")>>),
            Job0(<<File(<<"s", "s">>)>>, <<>>, <<To(Copies(n - 1), "copy", "copy", "real")>>),
            Job0(<<File(AV)>>, Full3(n), <<Coded>>) } : n \in {2, 3} }
  \cup { Job0(<<File(AV)>>, <<>>, <<To(<<Stream(1, "v", -1), Stream(1, "a", -1)>>, "copy", "copy", "none"), Coded>>),
         Job0(<<>>, <<>>, <<Copied>>), Job0(<<File(AV)>>, <<>>, <<>>) }

Reports == { [j EXCEPT !.progress = TRUE] : j \in {Job0(<<File(AV)>>, <<>>, <<Copied>>)} }

Jobs == Defaults \cup Maps \cup Filters \cup Options \cup Opened \cup Limits \cup Reports

NoJob    == Job0(<<File(AV)>>, <<>>, <<Copied>>)
Absent   == [is |-> "absent", twice |-> 0]
Version(n) == [is |-> "number", twice |-> n]       \* n halves
Base     == [args |-> "job", json |-> TRUE, version |-> Absent, op |-> "version"]
Versions == {Absent, [is |-> "null", twice |-> 0], [is |-> "other", twice |-> 0]}
              \cup {Version(n) : n \in {-2, -1, 0, 3, 4, 5, 6, 7, 8, 9}}

Gated == { [Base EXCEPT !.version = v, !.op = o] :
             v \in Versions, o \in {"version", "probe", "frames", "process", "unknown"} }
         \cup { [Base EXCEPT !.args = m] : m \in {"none", "report", "capabilities"} }
         \cup { [Base EXCEPT !.json = FALSE] }

Probed == { File(AV), [File(AV) EXCEPT !.kind = "pattern"], [File(AV) EXCEPT !.kind = "concat"],
            [File(AV) EXCEPT !.known = FALSE], [File(AV) EXCEPT !.opts = Name("range", 5)],
            [File(AV) EXCEPT !.opts = Name("rate", NotAString)] }

Of(op, jobs) == { <<[Base EXCEPT !.op = op], j>> : j \in jobs }

RequestsDef ==
  { <<r, NoJob>> : r \in Gated }
  \cup Of("probe", { [NoJob EXCEPT !.inputs = ins] : ins \in UNION { [1..n -> Probed] : n \in 0..2 } })
  \cup Of("process", Jobs)

\* Every job meets what the theorems ask of one.
ASSUME Clear == \A b \in Jobs \cup {NoJob} : MapsClear(b) /\ OptionsTaken(b)
=============================================================================
