------------------------------- MODULE Replace --------------------------------
(***************************************************************************)
(* Atomic replacement over the bridge: a muxer writes a file under a       *)
(* temporary name, closes it and moves it onto the name readers know       *)
(* (mux_io_open, mux_io_close and afmpeg_url_move in src/src/nativeio.c;   *)
(* doOpen, doFrame and doMove in src/internal/ipchost/host.go).  Each open *)
(* file and each move is a connection of its own, each served by a         *)
(* goroutine of its own, so that what the engine has given up on may still *)
(* take effect.  A session is reduced to what BridgeSession shows of it:   *)
(* one frame at a time, a failure is final, a close is not acknowledged.   *)
(*                                                                         *)
(* The muxer is external.  It moves only what closed without an error, and *)
(* after a failure it makes no further attempt; one made all the same, by  *)
(* a muxer that goes on or by the next job on the same name, is Retry.     *)
(***************************************************************************)
EXTENDS HostFile, FiniteSets

CONSTANTS
  Size,         \* chunks of a file
  Rounds,       \* bound: files written in place of the target
  Attempts      \* bound: new attempts after a failure

ASSUME ReplaceAssumption == Size \in Nat \ {0} /\ Rounds \in Nat /\ Attempts \in Nat

VARIABLES
  tmp, target,  \* the directory: the file behind each name, 0 for none
  files,        \* the contents of every file there has been; a chunk is a round
  conns,        \* connections: the round they are for, the frame the host has to
                \* take, its reply, its file and its position
  pc, round, sent, err,   \* the muxer, and pb->error of the file it writes
  retries,
  \* History, of which no step depends:
  shown,        \* what was in a file when it became the target
  alone,        \* when this attempt began the host was done with every earlier one
  sure          \* the files that became the target in such an attempt

fileVars  == <<tmp, target, files, shown, sure>>
muxerVars == <<pc, round, sent, err, retries, alone>>
vars      == <<fileVars, muxerVars, conns>>

Torn == -1      \* a chunk of which a part was written

\* The connection in use is the last.
InUse       == Len(conns)
Reply       == conns[InUse].reply
Dial(frame) == conns' = Append(conns, [round |-> round, frame |-> frame, reply |-> "none",
                                       file |-> 0, pos |-> 0])
Send(frame) == conns' = [conns EXCEPT ![InUse].frame = frame, ![InUse].reply = "none"]

\* The host has yet to take something.
Busy == \E k \in DOMAIN conns : conns[k].frame # "none"

Init ==
  /\ tmp = 0 /\ target = 0 /\ files = <<>> /\ shown = [n \in {} |-> <<>>] /\ sure = {}
  /\ conns = <<>>
  /\ pc = "idle" /\ round = 1 /\ sent = 0 /\ err = FALSE /\ retries = 0 /\ alone = TRUE
-----------------------------------------------------------------------------
(* The engine *)

\* mux_io_open: the temporary name, for writing.
Open ==
  /\ pc = "idle" /\ round <= Rounds
  /\ Dial("O") /\ pc' = "opening"
  /\ sent' = 0 /\ err' = FALSE
  /\ UNCHANGED <<fileVars, round, retries, alone>>

\* The reply to the Open, or none in time: afio_dial gives the connection up.
Opened ==
  /\ pc = "opening"
  /\ pc' = IF Reply = "ok" THEN "writing" ELSE "failed"
  /\ UNCHANGED <<fileVars, conns, round, sent, err, retries, alone>>

\* avio_write is void: a file that failed takes the rest and drops it.
Write ==
  /\ pc = "writing" /\ sent < Size
  /\ IF err THEN sent' = sent + 1 /\ UNCHANGED <<pc, conns>>
            ELSE Send("W") /\ pc' = "acking" /\ UNCHANGED sent
  /\ UNCHANGED <<fileVars, round, err, retries, alone>>

\* afio_write's reply.  Anything but the exact count is an error, and ends the
\* connection (afio_fail).
Acked ==
  /\ pc = "acking" /\ pc' = "writing" /\ sent' = sent + 1
  /\ err' = (Reply # "ok")
  /\ UNCHANGED <<fileVars, conns, round, retries, alone>>

\* Mutant: the error of the flush dies in the close (ffmpeg-wasi#54)
ClosesSwallowing(failed) == TRUE

\* mux_io_close returns the error the file is left with.
ClosesWell(failed) == ~failed

\* mux_io_close: the last chunk is written by its flush.  The Close frame is not
\* answered; it may fail to be sent.
Close ==
  /\ pc = "writing" /\ sent = Size
  /\ pc' \in {IF ClosesWell(err) THEN "closed" ELSE "failed", "failed"}
  /\ UNCHANGED <<fileVars, conns, round, sent, err, retries, alone>>

\* afmpeg_url_move: a connection of its own.
Move ==
  /\ pc = "closed" /\ pc' = "moving"
  /\ Dial("M")
  /\ UNCHANGED <<fileVars, round, sent, err, retries, alone>>

Moved ==
  /\ pc = "moving"
  /\ \/ Reply = "ok" /\ pc' = "idle" /\ round' = round + 1 /\ alone' = ~Busy
     \/ Reply # "ok" /\ pc' = "failed" /\ UNCHANGED <<round, alone>>
  /\ UNCHANGED <<fileVars, conns, sent, err, retries>>

\* A new attempt after a failure, in the place of what was to be written.  Nothing
\* makes it wait for the host to be done with the last.
Retry ==
  /\ pc = "failed" /\ retries < Attempts
  /\ pc' = "idle" /\ retries' = retries + 1 /\ round' = round + 1 /\ alone' = ~Busy
  /\ UNCHANGED <<fileVars, sent, err, conns>>
-----------------------------------------------------------------------------
(* The host: one goroutine per connection.  It does not see that the engine *)
(* has given up before it has taken what was sent.                          *)

Answer(k, reply) == conns' = [conns EXCEPT ![k].frame = "none", ![k].reply = reply]

\* doOpen: created, or emptied if it is there.
DoOpen(k) ==
  /\ conns[k].frame = "O"
  /\ \/ /\ LET f == IF tmp = 0 THEN Len(files) + 1 ELSE tmp IN
           /\ files' = IF tmp = 0 THEN Append(files, <<>>) ELSE [files EXCEPT ![f] = <<>>]
           /\ tmp' = f
           /\ conns' = [conns EXCEPT ![k].frame = "none", ![k].reply = "ok", ![k].file = f]
     \/ Answer(k, "refused") /\ UNCHANGED <<files, tmp>>
  /\ UNCHANGED <<target, shown, sure, muxerVars>>

\* doFrame, a Write: into the file that was opened, whatever its name is now.  Too
\* small a count may be acknowledged, and a part of the data be written.
DoWrite(k) ==
  /\ conns[k].frame = "W"
  /\ LET c == conns[k]
         put(chunk) == [files EXCEPT ![c.file] = Written(@, c.pos, <<chunk>>)]
     IN \/ /\ files' = put(c.round)
           /\ \E reply \in {"ok", "short"} :
                conns' = [conns EXCEPT ![k].frame = "none", ![k].reply = reply, ![k].pos = @ + 1]
        \/ /\ files' \in {files, put(Torn)}
           /\ Answer(k, "gone")
  /\ UNCHANGED <<tmp, target, shown, sure, muxerVars>>

\* Mutant: the target is made from the file, which keeps its name
Linked == target' = tmp /\ UNCHANGED tmp

\* os.Rename: one step, and what was behind the target is no longer.
Renamed == target' = tmp /\ tmp' = 0

\* doMove: a rename, or nothing.
DoMove(k) ==
  /\ conns[k].frame = "M"
  /\ \/ /\ tmp # 0
        /\ Renamed
        /\ shown' = [n \in DOMAIN shown \cup {tmp} |-> IF n = tmp THEN files[tmp] ELSE shown[n]]
        /\ sure' = IF alone THEN sure \cup {tmp} ELSE sure
        /\ Answer(k, "ok")
     \/ Answer(k, "refused") /\ UNCHANGED <<tmp, target, shown, sure>>
  /\ UNCHANGED <<files, muxerVars>>

\* The connection is lost before what was sent on it is taken.
Lose(k) ==
  /\ conns[k].frame # "none"
  /\ Answer(k, "gone")
  /\ UNCHANGED <<fileVars, muxerVars>>

Host == \E k \in DOMAIN conns : DoOpen(k) \/ DoWrite(k) \/ DoMove(k) \/ Lose(k)

Next == Open \/ Opened \/ Write \/ Acked \/ Close \/ Move \/ Moved \/ Retry \/ Host

Spec == Init /\ [][Next]_vars
-----------------------------------------------------------------------------
(* Properties *)

\* Every variable keeps its type; a file has at most one name.
TypeOK ==
  /\ pc \in {"idle", "opening", "writing", "acking", "closed", "moving", "failed"}
  /\ {tmp, target} \subseteq 0..Len(files) /\ (tmp = target => tmp = 0)
  /\ round \in 1..(Rounds + 1) /\ sent \in 0..Size /\ err \in BOOLEAN /\ retries \in 0..Attempts
  /\ \A n \in DOMAIN files : files[n] \in Seq({Torn, 0} \cup 1..round)
  /\ \A k \in DOMAIN conns : conns[k].file \in 0..Len(files) /\ conns[k].pos \in 0..Size
  /\ sure \subseteq DOMAIN shown /\ DOMAIN shown \subseteq DOMAIN files

Whole(r) == [k \in 1..Size |-> r]

\* "A concurrent reader sees a whole file or the previous one" (host.go 319-323), of
\* attempts that began when the host was done with the earlier ones: what became the
\* target in one was written whole by one round, and nothing touches it afterwards,
\* however long a reader takes, and whatever is done late or overlaps by then.
FinishedFilesSafe ==
  \A n \in sure : shown[n] \in {Whole(r) : r \in 1..round} /\ files[n] = shown[n]

\* As long as nothing failed that is every file there was at the target, and from one
\* move to the next the target is what was moved there.
TargetIsLast ==
  retries = 0 =>
    /\ sure = DOMAIN shown
    /\ round > 1 =>
         /\ target # 0
         /\ files[target] \in {Whole(r) : r \in (round - 1)..(IF pc \in {"moving", "failed"} THEN round ELSE round - 1)}

\* Both: replacement is atomic for readers (mux_io_open, mux_io_close,
\* afmpeg_url_move, doMove).
ReaderSeesWhole == FinishedFilesSafe /\ TargetIsLast

\* The same of every attempt.
OverlapIsHarmless == \A n \in DOMAIN shown : shown[n] \in {Whole(r) : r \in 1..round} /\ files[n] = shown[n]
=============================================================================
