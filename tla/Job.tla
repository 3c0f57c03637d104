--------------------------------- MODULE Job ---------------------------------
(***************************************************************************)
(* A `process` job around its loop: from the job spec to the headers of    *)
(* its outputs, and from the trailers to the exit code (op_process in      *)
(* src/src/process.c; the opens and closes of src/src/nativeio.c; the      *)
(* progress channel of src/src/progress.c).  What the loop itself does is  *)
(* module Process; here it is a number of packets handed to muxers.        *)
(*                                                                         *)
(* An open file is, over the bridge, a session with the host.  libav is    *)
(* external: any of its calls may fail, a component has the options of     *)
(* `Knows`, and the best stream of a type is the first.  A pad no label of *)
(* a map names is Pad of a name no filter uses.                            *)
(***************************************************************************)
EXTENDS Integers, Sequences, FiniteSets, SequencesExt

CONSTANTS
  MaxInputs, MaxGin, MaxGout, MaxOutputs, MaxCpy, MaxSub,   \* the arrays of Ctx
  Interval,       \* EMIT_INTERVAL_US
  Knows,          \* per component, the options it has
  Watched, Ceiling,   \* options whose value is bounded (spec_option_in_bounds)
  Times,          \* output times of a packet; -1 for none
  MaxPackets      \* bound: packets the loop writes

ASSUME JobAssumption ==
  /\ {MaxInputs, MaxGin, MaxGout, MaxOutputs, MaxCpy, MaxSub, MaxPackets} \subseteq Nat
  /\ Interval \in Nat /\ Times \subseteq Nat \cup {-1}
  /\ DOMAIN Knows = {"demuxer", "muxer", "v", "a", "s"}

VARIABLES
  job, env,       \* the job spec, and the build and environment of the driver
  pc, todo,       \* the stage op_process is in, and what it has still to go through
  rc, malformed,  \* "ok" or "failed"; a request that is wrong in itself
  nIn, nOut,      \* n_in, n_out: what the cleanup goes through
  gin, gout, cpy, sub,
  mux,            \* per output: its streams, and how far its file is
  live,           \* the files that are open
  opened,         \* history: the files whose opening succeeded
  prog, chan,     \* the emitter, and history: what it put on the channel
  replied, exit   \* stdout, and the exit code

libavVars == <<gin, gout, cpy, sub, mux>>
fileVars  == <<nIn, nOut, live, opened>>
progVars  == <<prog, chan>>
jobVars   == <<job, env, pc, todo, rc, malformed, libavVars, fileVars, progVars, replied, exit>>

Running == -1      \* no exit code yet
Codecs  == {"none", "copy", "real", "bogus"}

\* An entry of `map`: the label of a graph pad, or a stream of an input (sel -1:
\* the best of its type; type "any": by absolute index).
Pad(l)          == [kind |-> "pad", name |-> l]
Stream(i, t, n) == [kind |-> "stream", in |-> i, type |-> t, sel |-> n]
Garbled         == [kind |-> "garbled"]      \* scan_index and its callers refuse it
Default(t)      == [kind |-> "default", type |-> t]

Bridged == env.native /\ env.socket
Inputs  == job.inputs
Outputs == job.outputs
In(k)   == <<"in", k>>       \* files: of an input, of an output
Out(k)  == <<"out", k>>
Codec(o, t) == CASE t = "v" -> o.v [] t = "a" -> o.a [] OTHER -> o.s
-----------------------------------------------------------------------------
(* Streams, labels, options *)

\* resolve_map_stream; 0 when there is none.
Resolve(streams, t, sel) ==
  LET before(k) == {j \in 1..(k - 1) : streams[j] = t}
      fits == {k \in DOMAIN streams :
                 IF t = "any" THEN k = sel + 1
                 ELSE streams[k] = t /\ Cardinality(before(k)) = (IF sel < 0 THEN 0 ELSE sel)}
  IN IF fits = {} THEN 0 ELSE CHOOSE k \in fits : TRUE

Best(i, t) == Resolve(Inputs[i].streams, t, -1)

IsPad(e) == e.kind = "pad"

\* Mutant: a lane takes one more than its array holds
FullLate(lane, max) == Len(lane) > max

\* An array of Ctx has no room.
Full(lane, max) == Len(lane) >= max

\* find_output_for_pad: the first output whose map names the label, or the only
\* output when it has no map.  0 when there is none.
OutputFor(label) ==
  LET named == {j \in DOMAIN Outputs : Pad(label) \in ToSet(Outputs[j].map)}
  IN IF named # {} THEN CHOOSE j \in named : \A k \in named : j <= k
     ELSE IF Len(Outputs) = 1 /\ Outputs[1].map = <<>> THEN 1 ELSE 0

\* build_default_graph: a passthrough per codec that encodes, if input 0 has the
\* stream.
Graph(b) ==
  LET lane(t) == IF /\ Codec(b.outputs[1], t) \notin {"none", "copy"}
                    /\ Resolve(b.inputs[1].streams, t, -1) # 0
                   THEN <<t>> ELSE <<>>
      lanes == lane("v") \o lane("a")
  IN IF b.filter # <<>> THEN b.filter[1]
     ELSE [ins  |-> [k \in DOMAIN lanes |-> Stream(1, lanes[k], -1)],
           outs |-> [k \in DOMAIN lanes |-> [label |-> lanes[k], type |-> lanes[k]]]]

\* Mutant: the common dictionary wins
GivenCommonLast(o, t) ==
  [n \in o.opts["all"] \cup o.opts[t] |-> IF n \in o.opts["all"] THEN "all" ELSE t]

\* open_encoder_opts: the common dictionary, then that of the kind over it.
Given(o, t) == [n \in o.opts["all"] \cup o.opts[t] |-> IF n \in o.opts[t] THEN t ELSE "all"]

-----------------------------------------------------------------------------
(* The stages of op_process *)

Stages == <<"parse", "open", "map", "source", "sink", "encode", "copy", "sub", "header",
            "run", "trailer", "end">>

Indices(s) == [k \in DOMAIN s |-> k]

\* What a stage goes through.
Work(stage) ==
  CASE stage \in {"parse", "header", "trailer"} -> Indices(Outputs)
    [] stage = "open"   -> Indices(Inputs)
    [] stage = "map"    -> FlattenSeq([j \in DOMAIN Outputs |->
                             LET es == IF Outputs[j].map = <<>> THEN <<Default("v"), Default("a")>>
                                       ELSE Outputs[j].map
                             IN [k \in DOMAIN es |-> <<j, es[k]>>]])
    [] stage = "source" -> Graph(job).ins
    [] stage = "sink"   -> Graph(job).outs
    [] stage = "encode" -> gout
    [] stage = "copy"   -> cpy
    [] stage = "sub"    -> sub
    [] OTHER            -> <<>>

\* check_encodable_map: an encoder, and no pad in the map to feed it.
Unencodable(o) ==
  /\ o.map # <<>> /\ \A k \in DOMAIN o.map : ~IsPad(o.map[k])
  /\ {o.v, o.a} \ {"none", "copy"} # {}

\* What op_process looks at between two stages.
Passes(stage) ==
  CASE stage = "parse" -> Len(Outputs) > 1 => \A j \in DOMAIN Outputs : Outputs[j].map # <<>>
    [] stage = "open"  -> \A j \in DOMAIN Outputs : ~Unencodable(Outputs[j])
    [] stage = "map"   -> \A c \in ToSet(cpy) : Inputs[c.in].seek # "accurate"
    [] OTHER           -> TRUE

Fail == /\ rc' = "failed" /\ pc' = "end" /\ todo' = <<>>
        /\ UNCHANGED malformed

\* The head of todo is done.
Step == todo' = Tail(todo) /\ UNCHANGED <<pc, rc, malformed>>

\* Between the headers and the loop: progress_open.  With the bridge active the
\* emitter is inert; without, the device may be absent.
ProgressOpen ==
  \E fd \in IF job.progress /\ ~Bridged THEN {"open", "none"} ELSE {"none"} :
    prog' = [on |-> TRUE, fd |-> fd, emitted |-> FALSE,
             frames |-> 0, time |-> 0, size |-> 0, last |-> 0]

NextStage ==
  LET at == CHOOSE n \in DOMAIN Stages : Stages[n] = pc IN
  /\ pc \in ToSet(Stages) \ {"run", "end"} /\ todo = <<>>
  /\ IF ~Passes(pc) THEN Fail /\ UNCHANGED prog
     ELSE /\ pc' = Stages[at + 1]
          /\ todo' = Work(Stages[at + 1])
          /\ IF pc = "header" THEN ProgressOpen ELSE UNCHANGED prog
          /\ UNCHANGED <<rc, malformed>>
  /\ replied' = (pc = "trailer" /\ rc = "ok")
  /\ UNCHANGED <<job, env, libavVars, fileVars, chan, exit>>

Doing(stage) == pc = stage /\ todo # <<>>

\* One output of the spec.  A rejection by parse_output is a malformed request.
ParseOutput ==
  /\ Doing("parse")
  /\ IF nOut >= MaxOutputs THEN Fail /\ UNCHANGED nOut
     ELSE IF ~Outputs[todo[1]].wellFormed
       THEN /\ malformed' = TRUE /\ pc' = "end" /\ todo' = <<>>
            /\ UNCHANGED <<rc, nOut>>
       ELSE Step /\ nOut' = nOut + 1
  /\ UNCHANGED <<job, env, libavVars, nIn, live, opened, progVars, replied, exit>>
-----------------------------------------------------------------------------
(* Files *)

\* Whether a file is read through a context of ours (afio_open_input's custom
\* AVIO), which libav does not close.
Ours(kind) == Bridged /\ kind = "file"

\* What an open that fails may leave behind: libav closes what it opened itself,
\* a session dialled for it stays.
LeftByOpen(kind)  == IF Ours(kind) THEN BOOLEAN ELSE {FALSE}

\* avformat_close_input does not close a context of ours.
LeftByLibav(kind) == Ours(kind)

\* Mutant: the context of ours is not closed.
LeftByLibavToo(kind) == Ours(kind)

\* afio_close_input detaches it, and closes it.
LeftByAfio(kind) == FALSE

NotAString == -1     \* the value of an option that is written as a number

\* spec_option_in_bounds.
InBounds(n, v) == n \in Watched => v <= Ceiling

\* An unknown format, or options that opts_from_json refuses.
Refused(i) ==
  /\ i.kind # "concat"
  /\ \/ ~i.known
     \/ \E n \in DOMAIN i.opts : i.opts[n] = NotAString \/ ~InBounds(n, i.opts[n])

\* Mutant: what the demuxer did not consume is not looked at.
UnconsumedIgnored(i) == FALSE

\* The demuxer of a concat input is given no options.
Unconsumed(i) == i.kind # "concat" /\ ~(DOMAIN i.opts \subseteq Knows["demuxer"])

Set(f, open) == live' = IF open THEN live \cup {f} ELSE live \ {f}

\* Mutant: an input is counted when nothing more can fail (ffmpeg-wasi#27).
CountedLast(k) == k - 1

\* Input k counts as soon as it is open, so that the cleanup closes it.
CountedBefore(k) == k

\* open_one_input or open_concat_input, then the seek of the input.
OpenInput ==
  /\ Doing("open")
  /\ LET k == todo[1]
         i == Inputs[k]
     IN \/ /\ k > MaxInputs \/ Refused(i)
           /\ Fail /\ UNCHANGED <<live, nIn, opened>>
        \/ /\ k <= MaxInputs /\ ~Refused(i)
           /\ \E left \in LeftByOpen(i.kind) : Set(In(k), left)
           /\ Fail /\ UNCHANGED <<nIn, opened>>
        \/ /\ k <= MaxInputs /\ ~Refused(i)      \* unknown option, or no stream information
           /\ Set(In(k), LeftByLibav(i.kind))
           /\ Fail /\ UNCHANGED <<nIn, opened>>
        \/ /\ k <= MaxInputs /\ ~Refused(i) /\ ~Unconsumed(i)
           /\ Set(In(k), TRUE)
           /\ opened' = opened \cup {In(k)}
           /\ \/ Fail /\ i.seek # "none"         \* a seek that is refused, or fails
                 /\ nIn' = CountedBefore(k)
              \/ Step /\ i.seek # "bad"
                 /\ nIn' = k
  /\ UNCHANGED <<job, env, libavVars, nOut, progVars, replied, exit>>
-----------------------------------------------------------------------------
(* Lanes *)

\* Mutant: the lane comes from the letter in the entry (ffmpeg-wasi#21).
IsSubByLetter(e, type) == e.type = "s"

\* The lane comes from the stream that resolved.
IsSub(e, type) == type = "s"

\* add_copy_descriptors and add_default_copy_descriptors, one entry.
AddDescriptor ==
  /\ Doing("map")
  /\ LET j == todo[1][1]
         e == todo[1][2]
         i == IF e.kind = "stream" THEN e.in ELSE 1
         st == Resolve(Inputs[i].streams, e.type, IF e.kind = "stream" THEN e.sel ELSE -1)
         d == [in |-> i, st |-> st, out |-> j, key |-> e]
         transcoded == IsSub(e, Inputs[i].streams[st]) /\ Outputs[j].s \notin {"none", "copy"}
     IN CASE IsPad(e) -> Step /\ UNCHANGED <<cpy, sub>>
          [] e.kind = "default" ->
               IF Codec(Outputs[j], e.type) # "copy" \/ st = 0 THEN Step /\ UNCHANGED <<cpy, sub>>
               ELSE IF Full(cpy, MaxCpy) THEN Fail /\ UNCHANGED <<cpy, sub>>
               ELSE Step /\ cpy' = Append(cpy, d) /\ UNCHANGED sub
          [] OTHER ->
               IF Full(cpy, MaxCpy) \/ e.kind = "garbled" THEN Fail /\ UNCHANGED <<cpy, sub>>
               ELSE IF i > nIn THEN Fail /\ UNCHANGED <<cpy, sub>>
               ELSE IF st = 0 THEN Fail /\ UNCHANGED <<cpy, sub>>
               ELSE IF ~transcoded THEN Step /\ cpy' = Append(cpy, d) /\ UNCHANGED sub
               ELSE IF Full(sub, MaxSub) THEN Fail /\ UNCHANGED <<cpy, sub>>
               ELSE Step /\ sub' = Append(sub, d) /\ UNCHANGED cpy
  /\ UNCHANGED <<job, env, gin, gout, mux, fileVars, progVars, replied, exit>>

\* add_buffersrc, after parse_input_pad.
AddSource ==
  /\ Doing("source")
  /\ LET p == todo[1]
         st == Resolve(Inputs[p.in].streams, p.type, p.sel)
     IN IF p.kind = "garbled" THEN Fail /\ UNCHANGED gin
        ELSE IF Full(gin, MaxGin) \/ p.in > nIn THEN Fail /\ UNCHANGED gin
        ELSE IF st = 0 THEN Fail /\ UNCHANGED gin
        ELSE Step /\ gin' = Append(gin, [in |-> p.in, st |-> st])
  /\ UNCHANGED <<job, env, gout, cpy, sub, mux, fileVars, progVars, replied, exit>>

\* add_buffersink.  "copy" is no encoder's name.
AddSink ==
  /\ Doing("sink")
  /\ LET p == todo[1]
         j == OutputFor(p.label)
     IN IF Full(gout, MaxGout) \/ j = 0 THEN Fail /\ UNCHANGED gout
        ELSE IF Codec(Outputs[j], p.type) # "real" THEN Fail /\ UNCHANGED gout
        ELSE Step /\ gout' = Append(gout, [label |-> p.label, type |-> p.type, out |-> j])
  /\ UNCHANGED <<job, env, gin, cpy, sub, mux, fileVars, progVars, replied, exit>>

\* Every output gets its streams in the order encoded, copied, transcoded.
NewStream(j, key, how, type, src, given, bsf) ==
  /\ Step
  /\ mux' = [mux EXCEPT ![j].streams = Append(@, [key |-> key, how |-> how, type |-> type, src |-> src,
                                                  given |-> given, bsf |-> bsf, meta |-> FALSE])]

Source(d) == [in |-> d.in, st |-> d.st]

\* open_encoder, and setup_sub_stream from its encoder on: what the encoder did
\* not consume it does not have.
Encode(j, t, key, how, src) ==
  LET given == Given(Outputs[j], t) IN
  IF Codec(Outputs[j], t) = "real" /\ DOMAIN given \subseteq Knows[t]
    THEN NewStream(j, key, how, t, src, given, FALSE)
    ELSE Fail /\ UNCHANGED mux

OpenEncoder ==
  /\ Doing("encode")
  /\ Encode(todo[1].out, todo[1].type, Pad(todo[1].label), "encode", todo[1].label)
  /\ UNCHANGED <<job, env, gin, gout, cpy, sub, fileVars, progVars, replied, exit>>

SetupCopy ==
  /\ Doing("copy")
  /\ LET c == todo[1] IN
     NewStream(c.out, c.key, "copy", Inputs[c.in].streams[c.st], Source(c), <<>>, c.key \in Outputs[c.out].bsf)
  /\ UNCHANGED <<job, env, gin, gout, cpy, sub, fileVars, progVars, replied, exit>>

SetupSub ==
  /\ Doing("sub")
  /\ Encode(todo[1].out, "s", todo[1].key, "sub", Source(todo[1]))
  /\ UNCHANGED <<job, env, gin, gout, cpy, sub, fileVars, progVars, replied, exit>>
-----------------------------------------------------------------------------
(* Headers, packets, trailers *)

\* Mutant: the subtitle lane is missed (ffmpeg-wasi#40)
TaggedNoSubs(j) == [n \in DOMAIN mux[j].streams |->
                      [mux[j].streams[n] EXCEPT !.meta = /\ mux[j].streams[n].key \in Outputs[j].meta
                                                         /\ mux[j].streams[n].how # "sub"]]

\* apply_output_metadata: chapters that name no input are refused, and every
\* lane's streams take what stream_metadata says of their entry.
Tagged(j) == [n \in DOMAIN mux[j].streams |->
                [mux[j].streams[n] EXCEPT !.meta = mux[j].streams[n].key \in Outputs[j].meta]]

\* The file is opened, unless the muxer opens its own, and the header written;
\* a muxer takes no header without streams.  Its options are looked at last.
WriteHeader ==
  /\ Doing("header")
  /\ LET j == todo[1]
         o == Outputs[j]
     IN \/ /\ ~o.chaptersOk
           /\ Fail /\ UNCHANGED <<mux, live, opened>>
        \/ /\ o.chaptersOk                      \* not opened, or no header
           /\ \E open \in {FALSE, ~o.set} :
                /\ Set(Out(j), open)
                /\ opened' = IF open THEN opened \cup {Out(j)} ELSE opened
           /\ Fail /\ UNCHANGED mux
        \/ /\ o.chaptersOk /\ mux[j].streams # <<>>
           /\ Set(Out(j), ~o.set)
           /\ opened' = opened \cup {Out(j)}
           /\ mux' = [mux EXCEPT ![j] = [streams |-> Tagged(j), at |-> "header"]]
           /\ IF o.opts["muxer"] \subseteq Knows["muxer"] THEN Step ELSE Fail
  /\ UNCHANGED <<job, env, gin, gout, cpy, sub, nIn, nOut, progVars, replied, exit>>

Part == -1           \* of a record that was not written whole

Totals(p)  == [frames |-> p.frames, time |-> p.time, size |-> p.size]
Broken     == [frames |-> Part, time |-> Part, size |-> Part]

\* Mutant: a short write counts as a record (ffmpeg-wasi#48)
EmitShort(p) ==
  IF p.fd # "open" THEN prog' = p /\ UNCHANGED chan
  ELSE \E put \in {Totals(p), Broken} :
         /\ chan' = Append(chan, put)
         /\ prog' = [p EXCEPT !.emitted = TRUE, !.last = p.time]

\* progress_emit.  A record that is not written whole ends the channel.
Emit(p) ==
  IF p.fd # "open" THEN prog' = p /\ UNCHANGED chan
  ELSE \E put \in {"whole", "part", "nothing"} :
         /\ chan' = CASE put = "whole" -> Append(chan, Totals(p))
                      [] put = "part"  -> Append(chan, Broken)
                      [] OTHER         -> chan
         /\ prog' = IF put = "whole" THEN [p EXCEPT !.emitted = TRUE, !.last = p.time]
                    ELSE [p EXCEPT !.fd = "broken"]

\* progress_note.
Note(p, video, time) ==
  LET q == [p EXCEPT !.size = @ + 1, !.frames = IF video THEN @ + 1 ELSE @,
                     !.time = IF time > @ THEN time ELSE @]
  IN IF ~q.emitted \/ q.time - q.last >= Interval THEN Emit(q)
     ELSE prog' = q /\ UNCHANGED chan

\* A packet reaches pmux: progress is told before the write, which may fail.
Packet ==
  /\ pc = "run" /\ prog.size < MaxPackets
  /\ \E video \in BOOLEAN, time \in Times : Note(prog, video, time)
  /\ \/ Fail
     \/ UNCHANGED <<pc, todo, rc, malformed>>
  /\ UNCHANGED <<job, env, libavVars, fileVars, replied, exit>>

\* The loop and its drains are over.
LoopEnds ==
  /\ pc = "run"
  /\ pc' = "trailer" /\ todo' = Work("trailer")
  /\ UNCHANGED <<job, env, rc, malformed, libavVars, fileVars, progVars, replied, exit>>

\* Mutant: the result of the trailer is not looked at (ffmpeg-wasi#16)
WriteTrailerUnchecked ==
  /\ Doing("trailer")
  /\ mux' \in {[mux EXCEPT ![todo[1]].at = "trailer"], mux}
  /\ todo' = Tail(todo)
  /\ UNCHANGED <<job, env, pc, rc, malformed, gin, gout, cpy, sub, fileVars, progVars, replied, exit>>

\* A trailer that fails leaves the others to be written.  av_write_trailer
\* flushes the file and returns its error, so nothing is left for the close.
WriteTrailer ==
  /\ Doing("trailer")
  /\ \/ /\ mux' = [mux EXCEPT ![todo[1]].at = "trailer"]
        /\ UNCHANGED rc
     \/ rc' = "failed" /\ UNCHANGED mux
  /\ todo' = Tail(todo)
  /\ UNCHANGED <<job, env, pc, malformed, gin, gout, cpy, sub, fileVars, progVars, replied, exit>>

\* Any call of libav between the opens and the end may fail.
CallFails ==
  /\ pc \in {"source", "sink", "encode", "copy", "sub", "run"}
  /\ Fail
  /\ UNCHANGED <<job, env, libavVars, fileVars, progVars, replied, exit>>

\* Mutant: a malformed request is told by rc alone, and flattened.
CodeOfRc == IF rc = "failed" THEN 1 ELSE 0

\* The exit code: what is wrong with the request is not what went wrong with it.
Code == IF malformed THEN 2 ELSE IF rc = "failed" THEN 1 ELSE 0

\* `end:`.  Only what was counted is closed.
Cleanup ==
  /\ pc = "end" /\ exit = Running
  /\ IF prog.on THEN Emit(prog) ELSE UNCHANGED progVars
  /\ live' = {f \in live : IF f[1] = "in" THEN f[2] > nIn \/ LeftByAfio(Inputs[f[2]].kind)
                                          ELSE f[2] > nOut}
  /\ exit' = Code
  /\ UNCHANGED <<job, env, pc, todo, rc, malformed, libavVars, nIn, nOut, opened, replied>>

OpProcess ==
  \/ NextStage \/ ParseOutput \/ OpenInput \/ AddDescriptor \/ AddSource \/ AddSink
  \/ OpenEncoder \/ SetupCopy \/ SetupSub \/ WriteHeader \/ Packet \/ LoopEnds
  \/ WriteTrailer \/ CallFails \/ Cleanup
-----------------------------------------------------------------------------
(* Properties *)

Accepted == pc \in {"run", "trailer"}

\* What output j's entries stand for, from the job alone.
Entries(j) ==
  IF Outputs[j].map # <<>> THEN ToSet(Outputs[j].map)
  ELSE {Pad(p.label) : p \in ToSet(Graph(job).outs)}
         \cup {Default(t) : t \in {u \in {"v", "a"} : Codec(Outputs[j], u) = "copy" /\ Best(1, u) # 0}}

Lane(j, e) ==
  IF IsPad(e) THEN [how |-> "encode", src |-> e.name]
  ELSE LET i  == IF e.kind = "stream" THEN e.in ELSE 1
           st == Resolve(Inputs[i].streams, e.type, IF e.kind = "stream" THEN e.sel ELSE -1)
       IN  [how |-> IF Inputs[i].streams[st] = "s" /\ Outputs[j].s \notin {"none", "copy"}
                      THEN "sub" ELSE "copy",
            src |-> [in |-> i, st |-> st]]

IsList(s) == s \in Seq(ToSet(s))

\* Every entry of a map of job b has a stream to itself: no entry and no label of
\* the filter is there twice, and a pad is one the graph has and no other output
\* names.  What the driver does with another map is in the README.
MapsClear(b) ==
  /\ b.filter # <<>> => LET outs == b.filter[1].outs IN
       IsList(outs) /\ \A m, n \in DOMAIN outs : outs[m].label = outs[n].label => m = n
  /\ \A j \in DOMAIN b.outputs : LET map == b.outputs[j].map IN
       /\ IsList(map) /\ IsInjective(map)
       /\ \A e \in ToSet(map) :
            /\ e.kind # "default"
            /\ IsPad(e) => /\ \E p \in ToSet(Graph(b).outs) : e = Pad(p.label)
                           /\ \A k \in DOMAIN b.outputs : e \in ToSet(b.outputs[k].map) => k = j

\* Output o of job b has a stream of kind t to encode: from a pad, or from a
\* subtitle stream.
Encodes(b, o, t) ==
  \/ \E p \in ToSet(Graph(b).outs) : p.type = t /\ (o.map = <<>> \/ Pad(p.label) \in ToSet(o.map))
  \/ /\ t = "s" /\ o.s \notin {"none", "copy"}
     /\ \E e \in ToSet(o.map) : /\ e.kind = "stream"
                               /\ LET streams == b.inputs[e.in].streams
                                  IN  streams[Resolve(streams, e.type, e.sel)] = "s"

\* What is said of a demuxer or of encoders is said where there is one.  Nothing
\* looks at the options of a concat input (process.c 1829), nor at those of a kind
\* an output does not encode.
OptionsTaken(b) ==
  /\ \A i \in ToSet(b.inputs) : i.kind = "concat" => DOMAIN i.opts = {}
  /\ \A o \in ToSet(b.outputs) :
       /\ o.opts["all"] # {} => \E t \in {"v", "a", "s"} : Encodes(b, o, t)
       /\ \A t \in {"v", "a", "s"} : o.opts[t] # {} => Encodes(b, o, t)

\* "What to mux into this file" (docs/reference/job-spec.md:61): in a job that was
\* accepted every output has one stream for each of its entries and no other, on
\* the lane its source calls for, with the metadata and the bitstream filter its
\* entry names, whichever lane it is on (ffmpeg-wasi#21, #40).
StreamsAsAsked ==
  Accepted => \A j \in DOMAIN Outputs :
    LET got == mux[j].streams IN
    /\ Len(got) = Cardinality(Entries(j))
    /\ \A e \in Entries(j) : \E n \in DOMAIN got :
         /\ got[n].key = e
         /\ [how |-> got[n].how, src |-> got[n].src] = Lane(j, e)
         /\ got[n].meta <=> e \in Outputs[j].meta
         /\ got[n].bsf <=> (e \in Outputs[j].bsf /\ got[n].how = "copy")

\* No option is dropped in silence (ffmpeg-wasi#42, #54): in a job that was
\* accepted each was taken by a component it is addressed to, and what is said of
\* one kind of encoder wins over what is said of all.
OptionsHonoured ==
  Accepted =>
    /\ \A i \in ToSet(Inputs) :
         DOMAIN i.opts \subseteq (IF i.kind = "concat" THEN {} ELSE Knows["demuxer"])
    /\ \A j \in DOMAIN Outputs :
         LET got == {st \in ToSet(mux[j].streams) : st.how # "copy"}
             has(st, n) == n \in Knows[st.type] /\ n \in DOMAIN st.given
         IN  /\ Outputs[j].opts["muxer"] \subseteq Knows["muxer"]
             /\ \A n \in Outputs[j].opts["all"] : \E st \in got : has(st, n)
             /\ \A t \in {"v", "a", "s"} : \A n \in Outputs[j].opts[t] :
                  \E st \in got : st.type = t /\ has(st, n) /\ st.given[n] = t

\* The progress channel carries whole records but for the last, which advance and
\* are no closer than the interval but for the final one; unless the channel broke
\* the job's totals are the last thing on it (ffmpeg-wasi#48, progress.c 60-80).
RecordsSound ==
  /\ \A n \in 1..(Len(chan) - 1) : chan[n].frames # Part
  /\ \A n \in 2..Len(chan) : chan[n].frames # Part =>
       /\ chan[n - 1].frames <= chan[n].frames /\ chan[n - 1].size <= chan[n].size
       /\ chan[n].time - chan[n - 1].time >= (IF n = Len(chan) /\ exit # Running THEN 0 ELSE Interval)
  /\ exit # Running /\ prog.fd = "open" => chan[Len(chan)] = Totals(prog)

\* The limits count what they name: no entry is refused for the copies there are
\* unless it is a copy (docs/reference/limits.md).
LimitsExact ==
  [][AddDescriptor /\ rc' = "failed" /\ todo[1][2].kind = "stream" =>
       LET j == todo[1][1]
           e == todo[1][2]
       IN \/ e.in > nIn \/ Resolve(Inputs[e.in].streams, e.type, e.sel) = 0
          \/ Lane(j, e).how = "copy" /\ Full(cpy, MaxCpy)
          \/ Lane(j, e).how = "sub" /\ Full(sub, MaxSub)]_jobVars
=============================================================================
