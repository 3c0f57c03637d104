---------------------------- MODULE BridgeSession ----------------------------
(***************************************************************************)
(* One opened file over the native IPC bridge, after its Open succeeded:   *)
(* the engine's AVIO callbacks (src/src/nativeio.c), the two directions of *)
(* the Unix socket, and the host's session loop                            *)
(* (src/internal/ipchost/host.go), each moving on its own.                 *)
(*                                                                         *)
(* A request frame is one element of toHost; a reply is a header (one      *)
(* element of toEngine) and, for a read, one element per payload byte.     *)
(* The engine sees only the number in an element.  `req` and `part` say    *)
(* whose reply it really is and are read by the properties alone.          *)
(***************************************************************************)
EXTENDS HostFile

CONSTANTS
  MaxCalls,      \* bound: calls made on the session
  MaxSize,       \* bound: bytes in one read or write
  Offsets,       \* the seek offsets tried
  InitialFiles,  \* contents of an input when the session starts
  HostSettings,  \* the host's fault-injection settings (host.go 98-125)
  Deadlines,     \* values of AFMPEG_NATIVE_TIMEOUT tried
  Wrap           \* size of the wire's unsigned count, 2^32 in the code

ASSUME SessionAssumption ==
  /\ MaxCalls \in Nat /\ MaxSize \in Nat
  /\ Offsets \subseteq Int
  /\ InitialFiles \subseteq Seq(Int)
  /\ Deadlines \subseteq Nat
  /\ Wrap \in Nat /\ Wrap > 2 * MaxSize
  /\ HostSettings \subseteq [closeAfterReads : Nat, failReadsAfter : Nat,
                             overstateReadBy : 0..(Wrap - MaxSize - 1), understateWriteBy : Nat]

VARIABLES
  cfg,        \* what never changes: [mode, version, deadline, faults]
  agreed,     \* afio_agreed, one global for every session of the job
  sock,       \* the engine's end: "open", "shut" (afio_fail) or "closed"
  phase,      \* "idle", or what is awaited: a reply's "head" or its "body"
  call,       \* the call in progress (or the last one)
  made,       \* calls made so far
  need, buf,  \* payload bytes still awaited, and those received
  ret,        \* what the last call returned to libav
  pbError,    \* AVIOContext.error is set
  toHost, toEngine,
  host,       \* the session goroutine: "serving" or "ended"
  hostPay,    \* payload bytes it has still to write
  file, pos,  \* the host's file and its position
  reads,      \* the host's count of Read frames
  outcome,    \* history: what the host did for the call in progress
  seen, seenPos  \* history: the file as the engine's successful calls imply it

engineVars  == <<agreed, sock, phase, call, made, need, buf, ret, pbError, seen, seenPos>>
channelVars == <<toHost, toEngine>>
hostVars    == <<host, hostPay, file, pos, reads, outcome>>
vars        == <<cfg, engineVars, channelVars, hostVars>>

\* The first protocol version whose host answers the preamble, and from which
\* a Read count is signed.
Negotiated == 2
ReadFailed == -1

Nothing == [st |-> "none", val |-> 0, data |-> <<>>]
Failed  == [st |-> "failed", val |-> 0, data |-> <<>>]

\* Mutant: 0 is accepted, meaning no deadline.
ZeroAccepted(secs) == secs >= 0

\* afio_set_timeouts: a deadline of 0 is refused, so no session runs without.
DeadlineAccepted(secs) == secs > 0

NoCall  == [op |-> "none", n |-> 0, data |-> <<>>, whence |-> SeekSet]
Reads   == [op : {"R"}, n : 1..MaxSize, data : {<<>>}, whence : {SeekSet}]
Seeks   == [op : {"S"}, n : Offsets, data : {<<>>}, whence : {SeekSet, SeekCur, SeekEnd}]
Sizes   == [op : {"Z"}, n : {0}, data : {<<>>}, whence : {SeekSet}]
\* The k-th call, if a write, writes bytes k: every write is told apart.
Writes(k) == {[op |-> "W", n |-> 0, data |-> [i \in 1..len |-> k], whence |-> SeekSet] :
                 len \in 1..MaxSize}
\* An AVIOContext has a read or a write callback, by the mode it was opened in.
CallsOf(mode, k) == Seeks \cup Sizes \cup (IF mode = "r" THEN Reads ELSE Writes(k))

Configs ==
  {c \in [mode : {"r", "w"}, version : 1..2, deadline : Deadlines, faults : HostSettings] :
      DeadlineAccepted(c.deadline)}

Init ==
  /\ cfg \in Configs
  /\ agreed = cfg.version
  /\ sock = "open" /\ phase = "idle"
  /\ call = NoCall /\ made = 0
  /\ need = 0 /\ buf = <<>>
  /\ ret = Nothing /\ pbError = FALSE
  /\ toHost = <<>> /\ toEngine = <<>>
  /\ host = "serving" /\ hostPay = <<>>
  /\ file \in IF cfg.mode = "w" THEN {<<>>} ELSE InitialFiles   \* O_TRUNC
  /\ pos = 0 /\ reads = 0
  /\ outcome = Nothing
  /\ seen = file /\ seenPos = 0
-----------------------------------------------------------------------------
(* The engine *)

\* Mutant: the failure is reported but the socket left usable.
FailLeavesSocketOpen(c) ==
  /\ UNCHANGED sock
  /\ phase' = "idle" /\ ret' = Failed
  /\ pbError' = (pbError \/ c.op \in {"R", "W"})

\* afio_fail: whatever went wrong, the socket is shut down for good.  libav
\* records a failed read or write, not a failed seek, in AVIOContext.error.
afio_fail(c) ==
  /\ sock' = "shut"
  /\ phase' = "idle"
  /\ ret' = Failed
  /\ pbError' = (pbError \/ c.op \in {"R", "W"})

\* A request goes out.  The send fails on a socket that is shut or whose peer
\* is gone; a write larger than the socket buffer may stall past the deadline
\* with part of the frame sent.
SendRequest ==
  \E c \in CallsOf(cfg.mode, made + 1) :
    /\ phase = "idle" /\ sock # "closed" /\ made < MaxCalls
    /\ call' = c /\ made' = made + 1
    /\ need' = 0 /\ buf' = <<>> /\ outcome' = Nothing
    /\ UNCHANGED <<cfg, agreed, toEngine, host, hostPay, file, pos, reads, seen, seenPos>>
    /\ \/ /\ sock = "open" /\ host = "serving"
          /\ toHost' = Append(toHost, [frame |-> c.op, c |-> c, req |-> made'])
          /\ phase' = "head"
          /\ UNCHANGED <<sock, ret, pbError>>
       \/ /\ sock = "shut" \/ host = "ended"
          /\ afio_fail(c)
          /\ UNCHANGED toHost
       \/ /\ sock = "open" /\ host = "serving" /\ c.op = "W"
          /\ afio_fail(c)
          /\ toHost' = Append(toHost, [frame |-> "partial", c |-> c, req |-> made'])

\* The call returns to libav; what it returned is what the engine now believes.
Complete(st, val, data) ==
  /\ phase' = "idle"
  /\ ret' = [st |-> st, val |-> val, data |-> data]
  /\ seen' = IF call.op = "W" THEN Written(seen, seenPos, call.data) ELSE seen
  /\ seenPos' = CASE call.op = "S" -> val
                  [] call.op = "Z" -> seenPos
                  [] OTHER         -> seenPos + val
  /\ UNCHANGED <<sock, pbError>>

FailCall == afio_fail(call) /\ UNCHANGED <<seen, seenPos>>

\* Mutant: a count that is not positive is an end of file.
NegativeIsEof(v) ==
  IF v <= 0            THEN Complete("eof", 0, <<>>) /\ UNCHANGED need
  ELSE IF v > call.n   THEN FailCall /\ UNCHANGED need
  ELSE /\ phase' = "body" /\ need' = v
       /\ UNCHANGED <<sock, ret, pbError, seen, seenPos>>

\* Mutant: a short acknowledgement is taken for what was written.
ShortAckAccepted(v) ==
  /\ IF v % Wrap <= Len(call.data) THEN Complete("ok", v, <<>>) ELSE FailCall
  /\ UNCHANGED need

\* The reply's header, as each callback reads it.
ReadHead(v) ==
  LET n == v % Wrap IN   \* the same four bytes, unsigned
  IF agreed >= Negotiated /\ v < 0 THEN FailCall /\ UNCHANGED need
  ELSE IF n = 0                    THEN Complete("eof", 0, <<>>) /\ UNCHANGED need
  ELSE IF n > call.n               THEN FailCall /\ UNCHANGED need
  ELSE /\ phase' = "body" /\ need' = n
       /\ UNCHANGED <<sock, ret, pbError, seen, seenPos>>

WriteHead(v) ==
  /\ IF v % Wrap = Len(call.data) THEN Complete("ok", v, <<>>) ELSE FailCall
  /\ UNCHANGED need

SeekHead(v) == Complete("ok", v, <<>>) /\ UNCHANGED need

RecvHead ==
  /\ phase = "head" /\ toEngine # <<>>
  /\ toEngine' = Tail(toEngine)
  /\ LET v == Head(toEngine).val IN
     CASE call.op = "R" -> ReadHead(v)
       [] call.op = "W" -> WriteHead(v)
       [] OTHER         -> SeekHead(v)
  /\ UNCHANGED <<cfg, agreed, call, made, buf, toHost, hostVars>>

RecvByte ==
  /\ phase = "body" /\ toEngine # <<>>
  /\ toEngine' = Tail(toEngine)
  /\ buf' = Append(buf, Head(toEngine).val)
  /\ need' = need - 1
  /\ IF need = 1 THEN Complete("ok", Len(buf'), buf')
                 ELSE UNCHANGED <<phase, sock, ret, pbError, seen, seenPos>>
  /\ UNCHANGED <<cfg, agreed, call, made, toHost, hostVars>>

\* The socket is empty and the host gone: read() returns 0 or an error.
PeerGone ==
  /\ phase # "idle" /\ toEngine = <<>> /\ host = "ended"
  /\ FailCall
  /\ UNCHANGED <<cfg, agreed, call, made, need, buf, channelVars, hostVars>>

\* The socket is empty and SO_RCVTIMEO expires.
DeadlineExpires ==
  /\ phase # "idle" /\ toEngine = <<>> /\ host = "serving"
  /\ cfg.deadline > 0
  /\ FailCall
  /\ UNCHANGED <<cfg, agreed, call, made, need, buf, channelVars, hostVars>>

\* Mutant: the close reports neither.
CloseDiscardsErrors ==
  /\ phase = "idle" /\ sock # "closed"
  /\ sock' = "closed"
  /\ toHost' = IF sock = "open" /\ host = "serving"
                 THEN Append(toHost, [frame |-> "C", c |-> call, req |-> made]) ELSE toHost
  /\ ret' = [Nothing EXCEPT !.st = "closed"]
  /\ UNCHANGED <<cfg, agreed, phase, call, made, need, buf, pbError, toEngine,
                 hostVars, seen, seenPos>>

\* afio_ipc_close, after its avio_flush: an error recorded before, or a Close
\* that could not be sent, is the result; the socket is closed regardless.
Close ==
  /\ phase = "idle" /\ sock # "closed"
  /\ sock' = "closed"
  /\ LET sent == sock = "open" /\ host = "serving" IN
     /\ toHost' = IF sent THEN Append(toHost, [frame |-> "C", c |-> call, req |-> made])
                          ELSE toHost
     /\ ret' = IF sent /\ ~pbError THEN [Nothing EXCEPT !.st = "closed"] ELSE Failed
  /\ UNCHANGED <<cfg, agreed, phase, call, made, need, buf, pbError, toEngine,
                 hostVars, seen, seenPos>>

\* Between calls, another session of the job dials and leaves its own version
\* in afio_agreed.
OtherDial ==
  /\ phase = "idle"
  /\ agreed' \in 1..2
  /\ UNCHANGED <<cfg, sock, phase, call, made, need, buf, ret, pbError,
                 seen, seenPos, channelVars, hostVars>>
-----------------------------------------------------------------------------
(* The host *)

HostEnds == host' = "ended" /\ hostPay' = <<>>

\* A reply's header and payload; a write to a socket the engine has shut down
\* or closed is an error, which ends the session.
Reply(v, payload) ==
  IF sock = "open"
    THEN /\ toEngine' = Append(toEngine, [val |-> v, req |-> Head(toHost).req, part |-> "head"])
         /\ hostPay' = [i \in DOMAIN payload |->
                          [val |-> payload[i], req |-> Head(toHost).req, part |-> "body"]]
         /\ UNCHANGED host
    ELSE HostEnds /\ UNCHANGED toEngine

\* What the host did for the call, noted if the engine still awaits it.
Did(st, val, data) ==
  outcome' = IF phase # "idle" /\ Head(toHost).req = made
               THEN [st |-> st, val |-> val, data |-> data] ELSE outcome

ServeRead(c) ==
  LET n    == reads + 1
      data == BytesAt(file, pos, c.n)
      f    == cfg.faults
  IN
  /\ reads' = n
  /\ \/ /\ f.closeAfterReads > 0 /\ n > f.closeAfterReads
        /\ HostEnds /\ UNCHANGED <<toEngine, pos, outcome>>
     \/ /\ ~(f.closeAfterReads > 0 /\ n > f.closeAfterReads)
        /\ f.failReadsAfter > 0 /\ n > f.failReadsAfter
        /\ IF cfg.version < Negotiated
             THEN HostEnds /\ UNCHANGED toEngine
             ELSE Reply(ReadFailed, <<>>)
        /\ UNCHANGED <<pos, outcome>>
     \/ /\ ~(f.closeAfterReads > 0 /\ n > f.closeAfterReads)
        /\ ~(f.failReadsAfter > 0 /\ n > f.failReadsAfter)
        /\ Reply(Len(data) + f.overstateReadBy, data)
        /\ pos' = pos + Len(data)
        /\ Did(IF data = <<>> THEN "eof" ELSE "ok", Len(data), data)
  /\ UNCHANGED file

\* Mutant: the file was opened to append.
ServeAppend(c) ==
  /\ file' = file \o c.data
  /\ pos' = Len(file')
  /\ Reply(Len(c.data), <<>>) /\ Did("ok", Len(c.data), <<>>)
  /\ UNCHANGED reads

ServeWrite(c) ==
  LET n == Len(c.data)
      u == cfg.faults.understateWriteBy
  IN
  /\ file' = Written(file, pos, c.data)
  /\ pos' = pos + n
  /\ Reply(IF u = 0 THEN n ELSE IF n > u THEN n - u ELSE 0, <<>>)
  /\ Did("ok", n, <<>>)
  /\ UNCHANGED reads

\* The disk fills or fails part-way through the write: no reply, the session
\* ends.
ServeWriteFails(c) ==
  /\ \E k \in 0..(Len(c.data) - 1) :
       /\ file' = Written(file, pos, SubSeq(c.data, 1, k))
       /\ pos' = pos + k
  /\ HostEnds
  /\ Did("failed", 0, <<>>)
  /\ UNCHANGED <<toEngine, reads>>

\* Mutant: a negative target is not refused.
SeekAnywhere(c) ==
  LET p == SeekTarget(file, pos, c.n, c.whence) IN
  /\ Reply(p, <<>>) /\ pos' = p /\ Did("ok", p, <<>>)
  /\ UNCHANGED <<file, reads>>

ServeSeek(c) ==
  LET p == SeekTarget(file, pos, c.n, c.whence) IN
  /\ IF p < 0
       THEN HostEnds /\ UNCHANGED <<toEngine, pos, outcome>>
       ELSE Reply(p, <<>>) /\ pos' = p /\ Did("ok", p, <<>>)
  /\ UNCHANGED <<file, reads>>

ServeSize ==
  /\ Reply(Len(file), <<>>) /\ Did("ok", Len(file), <<>>)
  /\ UNCHANGED <<file, pos, reads>>

\* The session loop takes the next frame.  A frame cut short by the engine's
\* shutdown is an unexpected EOF.
Serve ==
  /\ host = "serving" /\ hostPay = <<>> /\ toHost # <<>>
  /\ toHost' = Tail(toHost)
  /\ LET q == Head(toHost) IN
     \/ q.frame \in {"C", "partial"} /\ HostEnds /\ UNCHANGED <<toEngine, file, pos, reads, outcome>>
     \/ q.frame = "R" /\ ServeRead(q.c)
     \/ q.frame = "W" /\ (ServeWrite(q.c) \/ ServeWriteFails(q.c))
     \/ q.frame = "S" /\ ServeSeek(q.c)
     \/ q.frame = "Z" /\ ServeSize
  /\ UNCHANGED <<cfg, engineVars>>

\* The payload follows its header, byte by byte.
SendPayload ==
  /\ host = "serving" /\ hostPay # <<>>
  /\ IF sock = "open"
       THEN /\ toEngine' = Append(toEngine, Head(hostPay))
            /\ hostPay' = Tail(hostPay)
            /\ UNCHANGED host
       ELSE HostEnds /\ UNCHANGED toEngine
  /\ UNCHANGED <<cfg, engineVars, toHost, file, pos, reads, outcome>>

\* Mutant: only a closed socket, not a shut one, ends the session.
HostIgnoresShutdown ==
  /\ host = "serving" /\ hostPay = <<>> /\ toHost = <<>> /\ sock = "closed"
  /\ HostEnds
  /\ UNCHANGED <<cfg, engineVars, channelVars, file, pos, reads, outcome>>

\* The engine's end is shut and nothing is left to read.
HostSeesEOF ==
  /\ host = "serving" /\ hostPay = <<>> /\ toHost = <<>> /\ sock # "open"
  /\ HostEnds
  /\ UNCHANGED <<cfg, engineVars, channelVars, file, pos, reads, outcome>>

\* The host process dies, or a read of its file fails.
HostVanishes ==
  /\ host = "serving"
  /\ HostEnds
  /\ UNCHANGED <<cfg, engineVars, channelVars, file, pos, reads, outcome>>
-----------------------------------------------------------------------------
EngineStep == RecvHead \/ RecvByte \/ PeerGone \/ DeadlineExpires
HostStep   == Serve \/ SendPayload \/ HostSeesEOF

Next == SendRequest \/ EngineStep \/ Close \/ OtherDial \/ HostStep \/ HostVanishes

Spec == Init /\ [][Next]_vars

\* A thread blocked in read() returns when its condition holds -- bytes, a
\* closed peer, an expired deadline -- and the session goroutine is scheduled.
\* Nothing obliges the host to answer in time, libav to make another call, or
\* anyone to close.
FairSpec == Spec /\ WF_vars(EngineStep) /\ WF_vars(HostStep)
-----------------------------------------------------------------------------
(* Properties *)

CallSet   == Reads \cup Seeks \cup Sizes \cup UNION {Writes(k) : k \in 1..MaxCalls}
Reply_    == [val : Int, req : 0..MaxCalls, part : {"head", "body"}]
Frame     == {f \in [frame : {"R", "W", "S", "Z", "C", "partial"},
                      c : CallSet \cup {NoCall}, req : 0..MaxCalls] :
                f.frame \notin {"C", "partial"} => f.c \in CallSet /\ f.c.op = f.frame}
Result    == [st : {"none", "ok", "eof", "failed", "closed"}, val : Int, data : Seq(Int)]

\* Every variable keeps its type.
TypeOK ==
  /\ cfg \in Configs
  /\ agreed \in 1..2
  /\ sock \in {"open", "shut", "closed"}
  /\ phase \in {"idle", "head", "body"}
  /\ call \in CallSet \cup {NoCall}
  /\ made \in 0..MaxCalls
  /\ need \in Int /\ buf \in Seq(Int)
  /\ ret \in Result /\ outcome \in Result
  /\ pbError \in BOOLEAN
  /\ toHost \in Seq(Frame) /\ toEngine \in Seq(Reply_)
  /\ host \in {"serving", "ended"}
  /\ hostPay \in Seq(Reply_)
  /\ file \in Seq(Int) /\ pos \in Nat
  /\ seen \in Seq(Int) /\ seenPos \in Int
  /\ reads \in Nat

\* Replies stay in step with requests: whatever the engine is about to read
\* belongs to the call in progress and is the part it is about to read it as.
\* This is what afio_fail's shutdown is for (nativeio.c 140-149): bytes of an
\* abandoned reply must never be read as the next reply's header.
InStep ==
  phase # "idle" /\ toEngine # <<>> =>
    Head(toEngine).req = made /\ Head(toEngine).part = phase

\* InStep made inductive: what is queued in either direction, and what the
\* host has still to send, in each phase of a call.  On an open session there
\* is nothing between calls, one frame or its reply while a header is awaited,
\* and no more payload than is awaited after it.
BodiesOnly(q, from) == \A i \in from..Len(q) : q[i].req = made /\ q[i].part = "body"

Supply == Len(toEngine) + Len(hostPay)

IdleInv == phase = "idle" /\ sock = "open" => toHost = <<>> /\ Supply = 0

HeadInv ==
  phase = "head" =>
    /\ sock = "open"
    /\ toHost # <<>> =>
         /\ Supply = 0 /\ Len(toHost) = 1
         /\ toHost[1].frame = call.op /\ toHost[1].c = call /\ toHost[1].req = made
    /\ toEngine = <<>> => hostPay = <<>>
    /\ toEngine # <<>> =>
         /\ toEngine[1].req = made /\ toEngine[1].part = "head"
         /\ BodiesOnly(toEngine, 2) /\ BodiesOnly(hostPay, 1)
         /\ call.op # "R" => Supply = 1
         /\ call.op = "R" =>
              \/ toEngine[1].val = ReadFailed /\ Supply = 1
              \/ toEngine[1].val \in (Supply - 1)..(Wrap - 1)

BodyInv ==
  phase = "body" =>
    /\ sock = "open" /\ toHost = <<>> /\ need > 0 /\ Supply <= need
    /\ BodiesOnly(toEngine, 1) /\ BodiesOnly(hostPay, 1)

InStepInv == IdleInv /\ HeadInv /\ BodyInv

\* Between calls, as long as none failed, the host's file and position are
\* exactly what the successful calls add up to.  The muxers seek back and
\* patch what they wrote, so both matter.
PictureExact ==
  phase = "idle" /\ sock = "open" => file = seen /\ pos = seenPos

\* A close that reports success means every byte written is in the file: no
\* truncated child file under a successful job (ffmpeg-wasi#54).
CloseMeansWritten == ret.st = "closed" => file = seen

\* What a read returns is what the file holds at that position, and an end of
\* file is the end of the file: never a read the host could not serve, whatever
\* version another session left in afio_agreed (ffmpeg-wasi#20).
ReadsAreTrue ==
  phase = "idle" /\ call.op = "R" =>
    /\ ret.st = "ok" => ret.data = BytesAt(file, seenPos - Len(ret.data), call.n)
    /\ ret.st = "eof" => BytesAt(file, seenPos, call.n) = <<>>

\* Once a call has failed, no later one succeeds and the close fails too: the
\* job cannot go on over a hole (nativeio.c 358-361).
FailureIsFinal == [][ret.st = "failed" => ret'.st = "failed"]_ret

\* Every call returns, whatever the host does: that is what the deadline that
\* cannot be switched off is for (nativeio.c 87-104).
CallsReturn == (phase # "idle") ~> (phase = "idle")

\* A session the engine has given up on or closed ends at the host as well, so
\* the host's goroutine and file descriptor are released.
SessionEnds == (sock # "open") ~> (host = "ended")

\* The session implements the abstract file of FileSession.  A call failed by
\* the engine whose request is still queued is the one that may take effect
\* late.
AbstractCall == IF phase = "idle" THEN NoCall ELSE call

AbstractLate ==
  IF phase = "idle" /\ toHost # <<>> /\ Head(toHost).frame \notin {"C", "partial"}
    THEN Head(toHost).c ELSE NoCall

AbstractHealth == CASE sock = "open" -> "ok" [] sock = "shut" -> "failed" [] OTHER -> "closed"

Promise == INSTANCE FileSession WITH
  Calls  <- CallSet,
  NoCall <- NoCall,
  call   <- AbstractCall,
  late   <- AbstractLate,
  health <- AbstractHealth

KeepsPromise == Promise!Spec
=============================================================================
