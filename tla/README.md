# ffmpeg-wasi in TLA+

ffmpeg-wasi is a small C driver on FFmpeg's libraries, built for wasm and natively. A host gives it
one JSON job per process: `process` (transcode, filter, remux), `frames` (stills), `probe`. On the
native build every byte of media goes through a Unix socket to the host, the *bridge*. This
directory specifies the parts in which something can go wrong that a test would hardly reach: the
bridge, whose two ends fail and lag independently; the loop of `process`, in which decoders,
encoders, filters and bitstream filters hold data back while inputs, sinks and windows end at
different times; and what is around the loop, where a job is taken apart, its files are opened, any
step may fail, and the outcome has to be told.

The specification follows the source, `src/`; `PROJECT.json` maps every definition to its lines.

## The system

| Component | State | Operations | Talks to |
|---|---|---|---|
| Bridge, engine side (`src/nativeio.c`) | a socket per open file; the globals `afio_agreed`, `afio_announce`; an `AVIOContext` per file with its sticky `error` | dial, open, read, write, seek, size, close; move, exists; write a whole file | the host over a socket, libavformat through callbacks |
| Bridge, host side (`internal/ipchost/host.go`) | one goroutine, one file and its position per connection; counters of the fault switches; recorded violations | version answer, open, read, write, seek, size, move, exists | the engine, the served directory |
| File bridge (`build/ffmpeg-file-bridge.patch`) | none of its own | routes the `file:` protocol of libavformat to the bridge | libavformat, `nativeio.c` |
| `process` (`src/process.c`) | `Ctx`: inputs and `eof[]`, graph pads and `closed`, sinks and `done`, rebase offsets, copies, subtitle streams, outputs with their last dts | parse, open, seek, build the graph, write headers, the demux loop, drains, trailers, reply | libav, the bridge, progress |
| `frames` (`src/frames.c`) | one decoder, one graph, one encoder, a count of stills | select by time, interval or scene; write stills | libav, the bridge |
| Driver (`src/driver.c`) | none | version gate, dispatch, probe, capabilities | the operations above |
| Progress (`src/progress.c`) | a descriptor, counters, time of the last record | open, note, emit, finish | a device the host serves |
| Confinement (`src/sandbox.c`) | the reported state | install once at start | the kernel |
| Option bounds, metadata (`src/specopts.c`, `src/meta.c`) | none | validate and copy string pairs | |

Not the system's own logic: the vendored cJSON, the build scripts and shims (`build/`), the Go test
harness and conformance suite (`internal/engine`, `internal/conformance`, `internal/fixture`,
`internal/buildlist`, `tools/`), and `docs/`. The last three were read as statements of what the
program promises.

What is hard in it, and what makes it correct:

* **The bridge** is a request-reply protocol with deadlines, and either end can stop in the middle
  of a frame. A reply must only ever be read by its own request; a failure must be final for its
  file, never look like an end of file and never be lost at close; every call must return; every
  abandoned connection must end at the host. Negotiation must leave both ends speaking the same
  version, at the price of one extra dial against an old host.
* **`process`** must write everything its windows have room for, whatever is held back where; must
  not report success when something it needed failed; must stop when nobody wants more; must not
  hoard frames. These pull against each other: stopping early, skipping finished sinks and closing
  pads are how the job ends, and how frames are lost.
* **Timestamps** come from untrusted media in 64 bits: arithmetic must saturate, and what reaches a
  muxer must advance.
* **`frames`** has the same ends and failures as `process` in two loops of its own.
* **The set-up of a job** routes streams, options and metadata through nested loops over fixed
  arrays, opens files between calls that may fail, and has to refuse what it cannot honour. What it
  drops in silence nobody sees: a stream, an option, an open session.
* **The outcome** is an exit code, a reply and a progress channel. A code must say whether the
  request or the media was wrong; a half-written record must not be taken for a whole one; a
  confinement that is reported must be in force.
* **Replacement**: a muxer writes a temporary name and moves it. The write, the move and whatever
  was given up before are connections of their own, each served when the host gets to it.

The hazards are listed one by one, with their lines and the properties that cover them, in
`PROJECT.json`.

## Modules

| Module | What it is |
|---|---|
| `HostFile` | What the host's operating system does with a file: bytes read at a position, bytes written over or past the end, the target of a seek. |
| `FileSession` | Abstract: a file with a position. A call takes effect at once and succeeds, or fails; after a failure every call fails, and only the failed call itself may still take effect. A close that succeeds says the file is what the calls made it. |
| `BridgeSession` | One open file over the bridge. The engine sends a request, takes the reply header and payload byte by byte, or gives up when its deadline expires or the peer is gone; the host serves when it gets to it, may lie about counts as its fault switches allow, and may vanish between any two bytes. |
| `MCBridgeSession` | Its instances. |
| `BridgeSessionProofs` | The types, `InStep`, `FailureIsFinal`, `PictureExact`, `CloseMeansWritten` and `ReadsAreTrue`, and that the session implements the file of `FileSession` (`KeepsPromise`), as theorems. |
| `BridgeDial`, `MCBridgeDial` | How connections come to be: dial, version, fallback, open, move, exists, against a host of either version that may lag, answer lower or die. |
| `BridgeDialProofs` | `EndsInStep`, `NeverProtests`, `SuccessIsReal`, `DialsAreCheap` and the types, as theorems. |
| `Filters`, `FilterProofs` | What the lanes do to sequences: keep what passes a test, move it in time; and the laws of that, by induction. |
| `Process`, `MCProcess` | `op_process` from its read loop to its exit code. |
| `ProcessJobs` | What the theorems about `LanesWhole` ask of a job. |
| `ProcessProofs` | `LanesWhole`, `SuccessIsHonest`, `FinishedSinksDrained` and the types, as theorems. |
| `Timestamps` | `ts_add`, `ts_sub` and `median3` in integers of any width, with what they should give. |
| `MuxGuard`, `MCMuxGuard` | `pmux` and `mux_fixup_ts`: the guard between the lanes and a muxer that refuses a decode time that does not advance. |
| `Timeline`, `MCTimeline` | Where each lane, and the chapters, put a unit of the source on the timeline of an output, and what the window cuts off. |
| `TimeProofs` | `CopyCutRight`, `LanesAligned`, `SpansClipped` and the types of `Timeline`, and everything the guard's run checks, as theorems. |
| `Frames`, `MCFrames` | The `frames` job: the seek loop and the scene loop. |
| `FramesProofs` | `StillsWhole`, `SuccessIsHonest`, `NamesDiffer` and the types, as theorems. |
| `Job` | `op_process` up to its loop and from its trailers on, with the sessions it owns and its progress channel. |
| `Driver`, `MCDriver` | One process of the driver: confinement, version gate, dispatch, probe, `Job`, exit code. |
| `DriverProofs` | `ConfinementHonest`, `SessionsClosed`, `RecordsSound`, `OutcomeHonest` and the types, as theorems. |
| `Replace`, `MCReplace` | Files written under a temporary name and moved over a known one, with a connection for each step. |
| `ReplaceProofs` | The types and `ReaderSeesWhole`, as theorems. |

### BridgeSession and the code

`phase` is where the engine is in a call: `idle`, waiting for a `head` (`rd_full` of the reply
header) or for the `body` of a read. `SendRequest` is the `wr_full` of a request; `RecvHead` the
header and the code's tests on it (`ReadHead`, `WriteHead`, `SeekHead`, after `afio_read`,
`afio_write`, `afio_seek`); `RecvByte` the payload; `PeerGone` and `DeadlineExpires` the two ways
`recv` fails. All failures go through `afio_fail`, which shuts the socket down. `Close` is
`afio_ipc_close`. `OtherDial` is another session of the same job setting `afio_agreed`. On the host,
`Serve` is one turn of `session` and `doFrame`, `SendPayload` the bytes it writes after a header,
`HostSeesEOF` the end of the connection, `HostVanishes` its death at any point. The elements of the
queues carry `req` and `part`, which no guard reads: they are what `InStep` is stated with.
`outcome`, `seen` and `seenPos` are history.

`KeepsPromise` is the refinement of `FileSession`. Between calls the abstract call is none
(`AbstractCall`); a request still queued after its call failed is the one that may take effect late
(`AbstractLate`); and the file is good, failed or closed as the engine's socket is
(`AbstractHealth`).

### BridgeDial and the code

`Begin` is an open, a move or an existence check up to the preamble (`afio_dial`, `afio_session`);
`GotAnswer` and `NoAnswer` are the two outcomes of waiting for the host's version, with the fallback
to version 1 in `NoAnswer`; `GotReply` and `NoReply` those of waiting for the status. `ServeVersion`
and `ServeFrame` are `session` on the host, with `doOpen`, `doMove` and `doExists`. Each connection
has its own pair of queues, and the host takes its connections in any order.

### Process and the code

`pc` is where `op_process` is: `Read`, `StopInput`, `ReadFails` and `Skip` are the branches of one
turn of the loop over inputs; `FlushSub` the flush of subtitle decoders at the end of an input;
`PullStarts` to `PullEnds` are `pull_sinks`; `Copy` and `Sub` are `copy_packet` and `sub_packet`;
then `Drain`, `flush_copy_bsfs` and `WriteTrailer`. `CallFails` is a libav call returning an error
that its caller passes up to `goto end`. Three callers do not pass everything up, and what they let
pass is not modelled: `copy_one` takes `EAGAIN` and `AVERROR_EOF`, `flush_copy_bsfs` takes
`AVERROR_EOF`, from a write behind a bitstream filter for the filter's own answer (`process.c:1532`,
`1567`), which would be a failure under exit code 0 for a muxer that returns them; the drain of a
finished sink ignores every error (879), of frames nobody wants. The variables are the fields of
`Ctx` of the same name (`eof`, `closed`, `done`, `rebase`) and what libav holds: `dec`, `enc`,
`held` and `cue` are the units a decoder, an encoder, a bitstream filter and a subtitle decoder have
taken and not given back.

libav is external. Whatever holds data back holds `Lag` units until flushed. A chain of the filter
graph is a function from the frames its sources took to the frames it offers: pass everything on,
stop after *n* (with or without telling its source, both happen: see the comment on
`input_is_spent`), repeat the first frame for ever, or play at double speed; two sources are joined
as `concat` does. A packet is its time, in whole units. Packets without timestamps, decode against
presentation order, the duration of a cue and the muxer's guard are in `Timeline` and `MuxGuard`,
where the loop around them is left out. In neither: audio without timestamps, analysis metadata,
progress.

### MuxGuard and the code

One output, its streams, and what the code keeps of each: `last_dts`. `Guess` and `Clamp` are the
two halves of `mux_fixup_ts`, `Floor` the `max` it computes; `pmux` hands over one packet with any
pts and dts of the range, or without. `muxer` and `Refuses` are libavformat: its own last dts and
its test. `handed` and `top` are history. `MaxTs` stands for `INT64_MAX`; the least integer is
`AV_NOPTS_VALUE`, as in C, and every operator is written without a bound on the width.

### Timeline and the code

The variables are the offsets the lanes find for themselves: `rebase` is `gseek[].rebase`,
`cpy_rebase` is `cpy_rebase_us`. `WriteHeader` writes the chapters (`copy_chapters`); `Read` is one
packet through `push_frame` and `drain_encoder` (`Encoded`), `write_copy_pkt` and `write_sub_pkt`;
`Flush` gives up, frame by frame, what a decoder kept to put frames in order, and `Flushed` is the
end of that. Of a cue, `start_us` and `out_us` are the variables of that name, `TailOff` is the clip
at the window's end, and `EarlyBy` has the two branches of `write_sub_pkt` for one that begins too
early: before the output's zero, and only otherwise, under `copy_ts`, before the start. `None` and
`Forever` stand for `AV_NOPTS_VALUE` and `INT64_MAX`. `out` is what was handed to the muxer, with
what it came from. One input and one output are enough here: every offset belongs to one input, and
every window to one output. A source is given from where the demuxer landed.

### Frames and the code

`Select` is `parse_select` and the test on the name; `Seek`, `ReadForward` and `RunsOut` are
`grab_at`; `SceneRead`, `SceneEnds`, `FlushDecoder` and `FlushGraph` are `grab_scene`; `emit_one` is
the function of that name with its `write_frame`. A frame is its number. The decoder keeps `Lag`
frames until flushed; the thumbnail filter keeps a batch and gives its first. Calls whose failure
the code sees are `CallFails`; those whose failure it takes for something else are part of the job
(`silent` and the end `ioeof`), and only the jobs of the runs about them have any.

### Job and Driver and the code

`pc` is the stage `op_process` is in, `todo` what its loop over outputs, inputs, entries, pads or
streams has still to go through; each action is the body of one of those loops: `ParseOutput`
(`parse_output`), `OpenInput` (`open_one_input`, `open_concat_input` and the seek after them),
`AddDescriptor`, `AddSource`, `AddSink`, `OpenEncoder`, `SetupCopy`, `SetupSub`, `WriteHeader`
(`apply_output_metadata`, `open_output`, the header and its options), `WriteTrailer`. `NextStage` is
what stands between two loops, `Passes` its tests. The loop itself, which is `Process`, appears as
`Packet`: a number of packets that reach `pmux`, any of which may fail. `rc` and `malformed` are the
two variables the exit code is made of, and `Cleanup` is `end:`.

`live` holds the files that are open (over the bridge: the sessions), `opened` those whose opening
succeeded. What an open that fails leaves behind depends on whose context the file is read through:
libav closes what it opened, and not what it was given (`LeftByOpen`, `LeftByLibav`, `LeftByAfio`).
libav is external: `Knows` says which options a component has, and what it does not have stays in
the dictionary. Files, streams and options are what the code tells apart: an input is a file, an
image pattern or a concat; a stream is its type; an option has a name and whether its value is a
string and in its bounds. `frames` and the contents of replies are outcomes here.

`prog` is the emitter of `progress.c`: its descriptor, its totals and the time of the last record.
`Install` is `sandbox_install`, with `confined` for what the kernel enforces, `Gate` is `main` from
its arguments to the dispatch, `ProbeInput` is `probe_input`.

### Replace and the code

`tmp` and `target` are the two names and the file behind each, `files` the contents of every file
there has been. The engine's actions are those of the muxer's callbacks: `Open` and `Opened`
(`mux_io_open`), `Write` and `Acked`, `Close` (`mux_io_close`, with the flush of the last chunk and
a Close frame the host does not answer), `Move` and `Moved` (`afmpeg_url_move`). A connection is
reduced to the frame the host has to take from it, the reply, its open file and its position, which
is what `BridgeSession` shows of it. `Opened`, `Acked` and `Moved` may come at any time: without an
"ok" they are a deadline that expired, and the frame stays for the host to take (`DoOpen`,
`DoWrite`, `DoMove`) or to lose. `Retry` is a new attempt after a failure, by the next job or a
muxer that goes on, and waits for nothing: the host may still be about to take what was given up,
and attempts may overlap. `alone` and `sure` are history: whether this attempt began when the host
was done with every earlier one, and the files that became the target in such an attempt.

## What the runs check

Bridge session (`bridge_session`, about 360 000 states). Inputs of two bytes and empty outputs,
three calls, reads and writes of up to two bytes, seeks to -1, 0 and 1 from the start, the position
and the end, a sound host and one with each fault switch on, both versions, a deadline refused and
one accepted. Two calls are enough for the reply of one to be late for the other, the third for a
further call after the damage; two bytes are enough for a payload to be cut in the middle; the
host's lies are of one byte. `Wrap` stands for 2^32 and need only exceed twice a frame.
* `InStep`: a reply is read by the request it answers, as the part it is.
* `PictureExact`: while no call has failed the host's file and position are what the calls add up
  to.
* `CloseMeansWritten`: a successful close leaves a complete file.
* `ReadsAreTrue`: data is the file's, and an end of file is the end of the file.
* `FailureIsFinal`: after a failure nothing succeeds.
* `KeepsPromise`: the session implements `FileSession`.
* `CallsReturn`, `SessionEnds`: every call returns, and a session the engine has left ends at the
  host. Fairness: the engine's steps, because a `recv` with a deadline returns, and the host's
  steps, for `SessionEnds`, because its goroutine runs. Nothing is asked of the host's *answers*: it
  may vanish at any time.

Dialling (`bridge_dial`, 49 000 states). Two operations, opens, moves and existence checks, of two
names inside the root and one outside, on up to four connections, against hosts capped at either
version that may answer lower. Two operations are enough for the second to meet what the first
learned of the host, and for each to fall back or not.
* `EndsInStep`: both ends speak the same version and nothing is read out of place.
* `NeverProtests`: the host has no violation of the order of frames to record (`host.go` 253 to
  296). A refused version and a name outside the root, which it records as well, are not such: the
  first is how negotiation works, the second is for `SuccessIsReal` and the types.
* `SuccessIsReal`: a reported success was done.
* `DialsAreCheap`: no descriptor is lost with a dial that fails, and an old host costs one extra
  dial per job.
* `EverythingEnds`: operations end, and so do, at the host, the connections that were closed.
  Fairness as in the session: the engine's thread and each goroutine of the host run.

Process (`process`, 96 000 states). 848 jobs: one file through one chain, with every way a file
ends, every kind of seek and every window; an encode beside copies and subtitles of the same input;
remuxes; one source split between two outputs with different windows; two inputs joined; endless
inputs and endless filters. Everything holds back one unit, so each lane has something to lose.
Windows of two to four units over files of up to seven, with a margin of one, so that windows and
cutoffs fall inside the files, and an endless input is cut off before `MaxReads`. One libav call may
fail anywhere.
* `LanesWhole`: a job that succeeds has written exactly what its inputs and windows say, on each of
  the three lanes (`FramesWhole`, `CopiesWhole`, `CuesWhole`). The reference is computed from the
  job alone, with no lag, no early end of inputs and no finished sinks.
* `SuccessIsHonest`: no failure under exit code 0.
* `FinishedSinksDrained`: a finished sink has no queue while others go on. It speaks of sinks of one
  source: when the first of two sources that are joined ends, the graph may offer several frames at
  once, of which one pull leaves some for the next.
* `JobsEnd`: every job ends; fairness is that the one thread goes on working (`Work`), and no call
  need fail for it.

The jobs leave out what the next section shows: chains that play their source faster under a window,
and windowed copies of files that start later than their window.

Guard (`mux_guard`, 130 000 states). Two streams, every pair of timestamps in a range of eight,
three packets per stream, formats with and without each flag. The range need only hold a few ticks
at each end: the proofs have no bound.
* `NeverRefused`: the muxer refuses nothing, but at the two edges `Excused` names.
* `DriftBounded`: the guard moves a dts no further than it must.
* `GuardTypeOK`: nothing leaves the range of an integer. That the sums saturate (`Saturating`) is
  proved.

Timeline (`timeline`, 22 000 states). Closed and open groups of pictures, from zero and later, with
both times, one, or none on some packets; audio that begins before, with or after the picture, or
has a hole at the start asked for; cues and chapters inside, outside and across every window: none,
a short and a long duration, two ends, with and without `copy_ts`. Cues also have no time, or begin
before 0.
* `CopyCutRight`: every reference of what is copied is copied (`ReferencesKept`), nothing presented
  inside the window is missing (`WindowFilled`), and nothing is copied that is decoded when the
  window has ended (`NothingPast`).
* `LanesAligned`: streams of one clip keep their distance, copied or not.
* `SpansClipped`: what is left of a cue or a chapter is its overlap with the window.

The jobs leave out a window that ends before it begins, and a cue before 0 under `copy_ts` with a
seek (`CuesFromZero`); `LanesAligned` says of frames and cues after a fast seek nothing: see the
next section for all three.

Frames (`frames`, 19 000 states). Three videos, one of which begins late and one without a frame;
targets in and out of order, repeated and past the end; steps from zero to five with and without a
duration; selections and batches of every kind of size; three caps; seekable or not; ended or broken
off.
* `StillsWhole`: a job by time has the first frame at or after each target, and nothing else; a job
  by scene has the first picks of the whole video.
* `SuccessIsHonest`: no failure under exit code 0.
* `NamesDiffer`: no still overwrites another.

`StillsWhole` speaks, by time, of the targets that lie before the last `Lag` frames;
`EveryTargetAnswered`, of all of them, is what the next section shows to fail.

Driver (`driver`, 390 000 states). 1167 requests, each in four environments: wasm, native without
the bridge, and with it with confinement and without. Jobs of up to two inputs and two outputs:
every codec against what an input has; every ordered pair of map entries, by type, number and index,
there or not, copied or transcoded; filters for one output or two, beside copies; options of every
component, known to it or not; every kind of input, known or not, with every seek; every array of
`Ctx` full and one past it (the arrays hold two, one for subtitles). Versions on both sides of each
bound, in halves. Up to three packets are enough for a record, one held back by the interval and one
after it.
* `StreamsAsAsked`: in a job that is accepted every output has the streams its entries stand for,
  and no other, on the right lane, with their metadata and bitstream filters.
* `OptionsHonoured`: every option of such a job was taken by a component it is addressed to.
* `SessionsClosed`: what was opened is closed, whatever fails afterwards.
* `RecordsSound`: the progress channel has whole records, but for the last, in order and no closer
  than the interval; unless it broke the last has the totals.
* `OutcomeHonest`: exit code and reply say what happened, and whose fault it was.
* `ConfinementHonest`: a confinement that is reported is in force before the first file is opened.

The jobs leave out entries that name no pad or a pad of two outputs (`MapsClear`), options of a
concat input and of a kind of stream the output does not encode (`OptionsTaken`), for which the next
section shows that the code accepts the job and drops them. `SessionsClosed` is about files whose
opening succeeded.

Replacement (`replace`, 61 000 states). Three rounds of two chunks, and two new attempts, which may
overlap with what was given up. Two chunks are enough for a file to be broken after a whole one and
within one; three rounds for a reader to keep a file that has since been replaced, and for an
attempt that overlaps to follow one that did not.
* `ReaderSeesWhole`: what became the target in an attempt that began alone was written whole, and
  nothing touches it afterwards, neither what is done late nor attempts that overlap
  (`FinishedFilesSafe`); as long as nothing failed that is every file there was at the target, and
  what a muxer was told was moved is there (`TargetIsLast`).

Of an attempt that begins while the host is still busy with the one before this cannot be said:
`OverlapIsHarmless`, in the next section.

Each property of a passing run has a mutant: a version of one definition with a plausible bug,
defined beside it, for which TLC finds the property violated.

## What was found

* `exists_reply`: the host's reply to an existence check of a name outside its root is one byte,
  status 0 ("ok"), because the buffer is sent before the status is stored (`host.go:380`). The
  engine waits for the rest and reports an I/O error where the move of the same name is refused.
* `early_stop`: the point where an input is ended early is on the source's timeline, the window on
  the output's. With a chain that plays faster the output is cut short (`process.c:2117`). For an
  input that is not seeked that point counts from zero, while the copy's window counts from the
  first packet: a file that starts later than duration plus a second is copied as nothing
  (`process.c:2116`). Both jobs succeed.
* `fast_titles`: after a fast seek cues take the start asked for as their zero, and each pad of the
  graph its own first frame (`process.c:969`, `process.c:1731`); the lanes are no longer aligned.
* `still_of_last`: `grab_at` does not flush the decoder, so the frames it still holds at the end of
  the file answer no target, and the job succeeds without them (`frames.c:300`).

Each of these is a run that TLC ends with a counterexample. The following are stated too, and fail
in the same way, for the jobs and with the property named; no run repeats them.

| Jobs | Property | What the code does |
|---|---|---|
| `MCProcess!PileJobs` | `NothingPilesUp` | When *every* sink has finished the drain of finished sinks is skipped, and a copy that keeps the input read lets frames pile up in the graph (`process.c:865`). |
| `MCProcess!PastJobs` | `StopsPastWindows` | One output without a window keeps inputs read that only windowed outputs consume (`process.c:2114`). |
| `MCTimeline!FastSound` | `OneClock` | After a fast seek each pad has its own zero: sound and picture of one clip lose their distance (`process.c:969`). |
| `MCTimeline!LateStart` | `ZeroBased` | Frames of an input that is not seeked keep the time at which it begins (`process.c:960`). |
| `MCTimeline!FastCopyTs` | `SourceTimesKept` | Under `copy_ts` a fast seek shifts frames by the distance between the start asked for and the key frame landed on (`process.c:784`). |
| `MCTimeline!EarlyTitles` | `CuesClipped` | Under `copy_ts` with a seek a cue that begins before 0 is put at 0 and shown until the window, from before it: the branch for a negative time is taken first, of which the comment on the other says that it "cannot fire" (`process.c:1732`, `1737`). |
| `MCTimeline!EmptyWindow` | `ChaptersClipped` | With `copy_ts` and an end before the start a chapter is written that ends before it begins (`process.c:1901`). |
| `MCFrames!BreakJobs`, `SeekJobs`, `SinkJobs` | `SuccessIsHonest` | Failures of the host that `frames` takes for an end of file, an input that cannot seek, a sink that has nothing more (`frames.c:324`, `296`, `371`). |
| `MCFrames!ThumbJobs` | `TimesTrue` | A thumbnail is recorded with the time of the last frame of its batch (`frames.c:280`). |
| `mux_guard` as it is | `NothingOverflows` | The guard's difference of two timestamps, formed to decide on a message, does not saturate (`process.c:285`). |
| `driver`, a map entry that names a pad no filter has, or a pad another output has already | `StreamsAsAsked` | An entry is only ever looked up from a pad, so nobody looks for the pad of an entry; the first output that names a pad has it. "What to mux into this file" (`job-spec.md:61`) goes short, and the job succeeds (`process.c`, `find_output_for_pad`). |
| `driver`, options on a concat input | `OptionsHonoured` | The dictionary is not handed to the concat demuxer (`process.c:1829`). |
| `driver`, options of a kind of stream the output does not encode | `OptionsHonoured` | Nothing takes them and nothing looks (`process.c:664`). |
| `MCDriver!Opened` | `EverySessionClosed` | An open that fails after the session was dialled ends in `avformat_close_input`, which leaves a context it was given (`process.c:1821`, `1867`, `1873`, `nativeio.c:580`). |
| `MCDriver!Limits` | `LimitsExact` | A subtitle entry to be transcoded is refused when the array of copies is full, which it does not need (`process.c:1301`). |
| `replace` as it is | `OverlapIsHarmless` | A move, an open or a write that timed out is executed by its goroutine after a new attempt has begun on the same temporary name: a file that is still being written becomes the target (`host.go:346`, `host.go:523`). |

Read off the code, and stated by no property, as each shows in one line: a version above `INT_MAX`
is refused with code 2 where `errors.md` has 3 for one that is too new; an output format that cannot
be found is code 2, and 1 in `errors.md` (117); a connection announces version 2, and 1 in
`driver-invocation-abi.md` (158); `chapters` of an input that does not exist is ignored; `probe`
passes over options that are no strings, which `process` refuses; the options of a muxer are looked
at after its header is written; a label of more than 63 characters is cut, and loses its
`stream_metadata`.

## What is proved

With TLAPS, for every value of the constants that meets `SessionAssumption`: any number of calls,
any size and offset, any files, any fault settings (`BridgeSessionProofs`):

* `TypeCorrect`. One lemma per action. The only types that are not immediate
  are that a frame on the wire carries a call with the fields its kind needs, and that a count read
  from the wire is a number below `Wrap` or a negative one.
* `RepliesStayInStep`. `InStep` is not inductive: it speaks of the front of
  one queue, and says nothing of what is behind it. `InStepInv` strengthens it. Between calls an
  open session has nothing on the wire (`IdleInv`). While a header is awaited there is exactly one
  request outstanding or its reply, and a read's header announces at least as many bytes as follow
  it, all of its own call (`HeadInv`). While a body is awaited no more is on its way than is needed
  (`BodyInv`). The argument rests on `afio_fail`: a call that stops half way leaves bytes on the
  wire, so the session must not stay open. The invariant was checked with TLC before it was proved.
* `FailuresAreFinal`, from the invariant `GivenUp`: after a failed call the
  engine is between calls and its socket no longer open, so no step that completes a call can
  follow.
* `PictureIsExact`, `ClosedMeansWritten`. `PictureExact` speaks of the
  moments between calls. During one the host is ahead of what the engine believes, and `PictureInv`
  says by how much: not at all while the request is untaken (`RequestInv`), by the whole call once
  the reply is on its way, whose header must then say so (`ReplyInv`), by the rest of a read as long
  as all of it can still arrive (`PayloadInv`). After a successful close only the close itself may
  still be queued (`ClosedInv`).
* `ReadsReturnTheFile`, from `ReadInv`: what a read has received, what is on
  its way and what the host has yet to send are, in this order, the file's bytes from where the read
  began, and no header announces fewer than there are.
* `SessionKeepsPromise`. Refinement needs one thing more, what was
  *done* for a call (`DoneInv`): nothing while its request is untaken, exactly the recorded outcome
  when a reply the engine may accept is on its way, and at most one request is ever queued, so that
  what takes effect late is the failed call. Then there is one lemma per action: sending is the
  start of a call or its refusal; taking a header or a byte is its return, its failure or nothing;
  serving is the moment it takes effect, on time or late, or spoils it.

`PictureInv`, `ReadInv` and `DoneInv` rest on `InStepInv` and the types, and all of them were
checked with TLC before they were proved.

For every length of file, number of attempts and way of failing (`ReplaceProofs`):

* `TypeCorrect`, however attempts overlap: no connection writes beyond a file, and no file has two
  names.
* `ReadersSeeWholeFiles`, however attempts overlap. In an attempt that began alone the host is busy
  with the last connection at most, a write goes to the file behind the temporary name, and only a
  whole file is moved (`AloneInv`, of `ConnInv`, `FrameInv`, `ContentInv`). A file once shown is no
  longer behind the temporary name (`ShownInv`), so nobody opens it again; what remains, and what
  the induction rests on, is that when a file becomes the target in such an attempt no connection
  that may still write has it open, not even one given up, and that none does later (`SureInv`). As
  long as nothing failed every attempt began alone (`TargetInv`).

For every value that meets `DialAssumption`, so any number of operations, names and files, and a
host that is capped at either version, answers lower, lags or dies (`BridgeDialProofs`):

* `AlwaysInStep`, `NeverObjected`, `SuccessesAreReal`, `DialsStayCheap` and `TypeCorrect`, all from
  one invariant. It says of every connection, also of those given up, what its host may still read:
  a preamble, alone if it will be answered and with the request behind it if not (`PreambleInv`); a
  first request its version knows, or the close of a file it opened (`SessionInv`); and that the
  engine holds only what it waits on or has handed out (`FdInv`). Of the one connection the engine
  waits on it says what can be found there: at most one answer, which is the version the host has
  adopted (`AnswerInv`), or at most one reply, whose success is the host's if it is whole
  (`ReplyInv`). That condition is why a check of a name outside the root is no false success: the
  reply that says "ok" has one byte of nine. `NeverProtests` needs that a close can only follow an
  open that was tried, `DialsAreCheap` that the announcement falls with the first redial
  (`RedialInv`). `DialInv` was checked with TLC first.

For every set of requests and environments that meets `DriverAssumption` and `JobAssumption`: any
numbers of inputs, outputs and map entries, any sizes of the arrays (`DriverProofs`):

* `ConfinementIsHonest`: the installation is the first step, and the only one that sets what is
  reported or in force (`ConfinedInv`).
* `OpenedIsClosed`: the cleanup closes what is *counted*, so `SessionsClosed` needs that all that is
  open is counted. `PlaceInv` says how far the lists of inputs and outputs have been gone through at
  each stage, and that the count is that far; `FilesInv` that what is open lies within it. A probe
  closes each input before it opens the next.
* `RecordsAreSound`: `RecordsOf` ties the channel to the emitter. As long as the channel works the
  emitter knows what its last record said, so the next can keep the interval and not go back; once a
  write came up short it never writes again, so that a part is last.
* `TypeCorrect`: its parts that are not immediate are that no array of `Ctx` takes more than it
  holds (`ArraysInv`) and that a muxer goes from header to trailer (`MuxInv`).

* `OutcomeIsHonest`: a code is decided at one place and given at another. `VerdictInv` carries what
  is known in between: before the gate nothing is open and nothing decided (`StartInv`); a probe has
  an entry for every input it is past, and none of those it passed was wrong (`ProbeInv`); in a job
  that goes on every output it is past is well formed, a request is malformed only once an output
  was refused, before any was opened, and the trailers behind the present one are written unless one
  of them failed (`StageInv`).
* `StreamsKept`: the maps of a job are gone through entry by entry, and the streams made lane by
  lane, in other stages and from other arrays. `DescInv` says that what a map has been gone through
  of has its descriptor, on the lane its stream calls for, and nothing else has; `SinkInv` that each
  pad has its sink, at an output that asks for it; `StreamInv` that from then on every entry either
  has its stream, which is as it asks, or is in what is left of one of three arrays (`Left`), never
  both. When nothing is left every entry has one stream. That two entries are not taken for one
  rests on `DescsApart` and `SinksApart`.
* `OptionsKept`: `LookedInv` says that what was looked at on the way stays looked at: the options a
  demuxer left over, those a muxer did, and the metadata told at a header. An encoder that opened
  took all it was given (`StreamInv`), and `Taker` finds, for a kind an output encodes, a stream
  that has the encoder.

Both have conditions on the job, without which they are false, as the table above shows.
`MapsClear`: no entry is in a map twice (it would have two streams, where the property counts it
once), no two pads of the filter share a label, and an entry naming a pad names one that the graph
has and no other output names. `OptionsTaken`, for `OptionsKept`: a concat input has no options, and
an output none of a kind it does not encode. TLC evaluates both for every job of the run
(`MCDriver!Clear`).

For every value that meets `ProcessAssumption`, so every job of the set-up's form (`WellFormed`: any
numbers of inputs, chains, copies, subtitle streams and outputs, any packets, windows and ends), and
any number of failing calls (`ProcessProofs`):

* `TypeCorrect`: a pull knows where it returns to, and the other loops count from one.
* `Honest`: `LoopInv` says why a pad closed (its input ended, or all it feeds are trims that have
  had enough), why a sink is done, and what an input that broke off was stopped for before it broke;
  `EndInv` that the drains begin when every input has ended, and the trailers follow one by one.
* `Drained`, from `QueueInv`: a push gives a sink of one source one frame at most, and the pull that
  follows takes it.
* `CuesKept`: what was written of a subtitle stream and what its decoder holds are, in this order,
  what the stream was offered, clipped (`CueInv`); after the flush of its input the decoder holds
  nothing (`FlushInv`); and an input that a stream listens to ended, or was stopped past every
  window (`StopInv`). The last step needs `NearOrder`: packets come in the order of their times, but
  for the second by which the cutoff is widened (`process.c:2117`). Without it the code does lose
  cues, and no demuxer promises it of a file; it is the premise of the early stop.
* `CopiesKept`, `CopiesWholeKept`: the same with `CopyInv` and `HeldInv` for the bitstream filters,
  and `AnchorInv` for the offset that the copies of an input share, which is where one of its
  streams starts. `StartsInTime` asks `NearOrder` counted from that start, for the second has to
  cover what a seek lands short of it: a file that starts later than its window and that second is
  copied as nothing (`early_stop` above). `CopiesWhole` says more than the code does
  when streams start apart, for each is then cut by its own start; so it is proved under
  `StartTogether`, and `CopiesFromOneStart`, which says what the code does, without.
* `FramesKept`: of every chain the encoder was sent, in order, exactly the frames its window has
  room for. The argument follows a frame. What a pad has taken, on its clock, is what its decoder
  has let go of the packets read, and what is not let go the decoder holds (`PadInv`); so what a
  pad took is always the beginning of what it should be given (`PadTaken`), and all of it unless
  it closed early. A sink has made the first so many frames of what its sources took, sent those
  its window has room for, and is done only when none is left or one was past the window
  (`SinkInv`). `SatedInv` is the part with the early end in it: a source that has closed has taken
  all it should, or a frame past the window, or more than its trim asks for, or nothing of what is
  left could be in the window. `EofInv` and `DoneInv` bring it to the end: every input that ended
  has closed its pads, every sink is done and every encoder empty before a trailer is written. Then
  the frames made and those that should be made agree one by one, or are both past the window
  (`Agree`), and the encoder wants none of the latter.
* `LanesKept`: the three together are `LanesWhole`.

`ProcessJobs` holds the conditions on a job, each about the job alone and each needed. For frames
they are `FramesRegular` and `LoopsBounded`:

* `NearOrder`, as above.
* `FramesInOrder`: each pad should be given frames in order, which is what a decoder does for a
  sound file. The code finishes a sink at the first frame past its window.
* `PadsStartInTime`: no pad takes its zero from a later time than its output's window counts from.
  A seek that is not accurate lands at or before the time asked for; where it does not, frames come
  out earlier in the window than their packets were for the cutoff.
* `SourcesReach`: the cutoff of an input knows packets, not what a chain makes of them. A source of
  a chain at double speed, or that another source follows, has given a frame past the window by the
  time its input is past every window. The job of `early_stop` at double speed has not.
* `LoopsBounded` is about the model: what a loop should give is counted to `MaxReads` frames, so its
  window ends before that, or it has none (and then the loop does not end).

All 848 jobs of the run meet them, with `StartsInTime` and `StartTogether`: `Regular` of `MCProcess`
is an invariant that passes when `process.cfg` is given it. The jobs of `early_stop` do not.

For every value that meets `FramesAssumption`: any video, key frames, selection, cap and number of
failing calls (`FramesProofs`):

* `TypeCorrect`; `NamesKept`, for which `NameInv` says that stills are numbered as they are written,
  and `StageInv` that a template without a number allows one.
* `Honest`, where libav tells a failure from an end (`Told`; the code does not when it does not, as
  the table above shows). `LoudInv`: in an input that breaks off no target was passed over, and a
  scene is over only when full.
* `TargetsKept`, for videos whose frames are in order: `AnswerInv` says that what is written so far
  is what the targets behind it are answered with, and that no frame since the seek is at the
  present one. `StillsKept` adds the scenes: what the selector picked of the frames that are out
  (`PickInv`), or the first of each full batch (`BatchInv`), and why the reading stopped
  (`EdgeInv`).

These rest on `FilterProofs`: `Only`, what is left of a sequence by a test, is a fold, of which
nothing can be computed for an unknown sequence. Its laws (of the empty sequence, of `Append`, of
concatenation, of a test that all or none pass) are proved by induction over sequences. The
library's induction theorems take a predicate, which no prover here instantiates; `SetInduction` and
`SeqInduction` take the *set* of the numbers or sequences for which the claim holds, and rest on
`LeastElement`: a set of naturals that is not empty has a least one.

For every value that meets `TimelineAssumption`: any source, any seek, any window, any depth of
reordering (`TimeProofs`):

* `LanesStayAligned`, in two parts, the first under `CuesFromZero`. `ExactStartsKept`: everything
  handed over but a copy is at its time in the source less one number that depends on the job alone
  (`ClockInv`), because at an exact start no pad has another zero than the start asked for
  (`RebaseInv`). `CopiesKeepDistance`: a copy with a time is moved by the shared anchor, which stays
  as it is once found (`PlacedInv`).
* `CopiesCutRight`: the anchor is that of the first packet with a time (`AnchorInv`), and a packet
  is copied if and only if it has no time or is decoded before that anchor's window ends
  (`CopiedInv`), which is also why nothing is copied past it. That no reference is missing follows
  when streams come in decode order (`DecodeOrder`); that nothing of the window is missing, when no
  packet is decoded after it is presented (`DecodedFirst`). Both are what libavformat gives for a
  sound file.
* `SpansAreClipped`: at every moment the cues handed over of a packet are what `Shortened` makes of
  it (`CueInv`), and the chapters are those of the header (`ChapInv`); what is left is arithmetic
  (`CueOverlap`). `CuesAreClipped` assumes `CuesFromZero`: the code does not clip other cues to the
  start (`EarlyTitles` above). For chapters the window must have something in it (`WindowOpens`; see
  `EmptyWindow` above) and a chapter must end after it begins (`ChaptersLast`): one of no length at
  the start asked for is dropped where a cue is kept.
* `TimelineTypeCorrect`: what is not immediate is that nothing is handed over with a negative length
  (`LenInv`), under `WindowOpens`.

TLC evaluates `DecodeOrder`, `DecodedFirst`, `ChaptersLast` and `CuesFromZero` for every job of the
run (`MCTimeline!Sources`).

For every value that meets `TimestampsAssumption` and `MuxGuardAssumption`, so for 64 bits, any
streams and any number of packets (`TimeProofs`):

* `SumsSaturate`, `MedianIsMiddle`: the pure operators, by cases on their arguments.
* `GuardTypeCorrect`: no timestamp leaves the range.
* `DriftIsBounded`: its two parts, `DriftPerPacket` and `NoNeedlessDrift`, are inductive with the
  types, by `PacketStep`: what is handed over is at most the packet's dts, or the floor.
* `GuardHolds`: `NeverRefused` needs `MuxerAtLast`: as long as nothing was refused the guard's idea
  of the last dts and the muxer's are the same, unless the guard has forgotten it. With it the two
  lemmas about the operators close the case: `GuessOrders`, a guess has its dts no later than its
  pts, and `FixupOrders`, so has what is handed over, whose dts is at or past the floor. What
  `Excused` lets out is real: at the top of the range there is no next tick, and a packet without a
  dts overwrites the last one (`process.c:295`).

Only model-checked is liveness, which rests on `ENABLED`: the prover does not handle it.

## What is not modelled

See `components` in `PROJECT.json` for each part and its reason. In short: what a reply says of
streams, and the lists of capabilities; the playlist text of a concat with its quoting, and the
segments the concat demuxer opens; the rights in the confinement's ruleset; the values of tags and
dispositions; audio without timestamps; the set-up of a `frames` job; and by choice cJSON, the build
and the test harness. Time is counted in one base: what rescaling between bases rounds is left out.
Observed and not yet stated as a property: copied streams share the zero of the first packet
*written*, so a bitstream filter that holds packets back moves it.

`Process` and `Job` are two halves of one operation and are not composed: `Job` hands the loop a set
of lanes, which `Process` takes as a job in any form the set-up accepts, and takes back an outcome.
Likewise a connection in `Replace` has the outcomes `BridgeSession` allows a call.

## Plan

Done: the bridge, the loop of `process`, timestamps and timelines, `frames`, the set-up of a job and
the driver, replacement; a theorem for every safety property that a passing run checks. Left is what
the section above lists.
