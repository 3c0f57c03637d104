------------------------ MODULE BridgeSessionProofs -------------------------
(***************************************************************************)
(* A bridge session, for every bound, host and offset.  First its types    *)
(* and framing: every variable keeps its type, replies stay in step with   *)
(* requests, and a failed session stays failed.  Then what it does to its  *)
(* file: what the engine believes of the file is so -- the picture its     *)
(* successful calls add up to, what a successful close says, what its      *)
(* reads returned -- and every step of the engine, the socket and the host *)
(* is a step of the file of FileSession, or none.                          *)
(***************************************************************************)
EXTENDS BridgeSession, TLAPS

-----------------------------------------------------------------------------
(* The file operations *)

\* What the host reads from a file is a run of bytes no longer than was asked.
LEMMA BytesAtType ==
  ASSUME NEW f \in Seq(Int), NEW p \in Nat, NEW n \in Nat
  PROVE  BytesAt(f, p, n) \in Seq(Int) /\ Len(BytesAt(f, p, n)) <= n
  BY DEF BytesAt

\* What a file holds after a write is again a sequence of bytes.
LEMMA WrittenType ==
  ASSUME NEW f \in Seq(Int), NEW p \in Int, NEW d \in Seq(Int)
  PROVE  Written(f, p, d) \in Seq(Int)
<1> DEFINE last == IF p + Len(d) > Len(f) THEN p + Len(d) ELSE Len(f)
           byte(i) == IF i \in (p + 1)..(p + Len(d)) THEN d[i - p]
                      ELSE IF i <= Len(f) THEN f[i] ELSE 0
<1>1. last \in Nat
  OBVIOUS
<1>2. \A i \in 1..last : byte(i) \in Int
  OBVIOUS
<1>3. [i \in 1..last |-> byte(i)] \in Seq(Int)
  <2> HIDE DEF last, byte
  <2> QED BY <1>1, <1>2
<1> QED BY <1>3 DEF Written
-----------------------------------------------------------------------------
(* Types *)

\* The calls a session can see are calls, with the fields each one needs.
LEMMA CallTypes ==
  ASSUME NEW c \in CallSet
  PROVE  /\ c.op \in {"R", "W", "S", "Z"} /\ c.n \in Int
         /\ c.data \in Seq(Int) /\ c.whence \in Int
         /\ c.op = "R" => c.n \in 1..MaxSize
         /\ c.op = "W" => Len(c.data) \in 1..MaxSize
<1> USE DEF SeekSet, SeekCur, SeekEnd
<1>0. MaxSize \in Nat /\ Offsets \subseteq Int /\ MaxCalls \in Nat
  BY SessionAssumption
<1>1. ASSUME NEW k \in 1..MaxCalls, c \in Writes(k)
      PROVE  /\ c.op = "W" /\ c.n = 0 /\ c.whence = 0
             /\ c.data \in Seq(Int) /\ Len(c.data) \in 1..MaxSize
  <2> PICK len \in 1..MaxSize : c = [op |-> "W", n |-> 0, data |-> [i \in 1..len |-> k],
                                    whence |-> SeekSet]
    BY <1>1 DEF Writes
  <2> QED BY <1>0
<1>2. ASSUME c \in Reads
      PROVE  c.op = "R" /\ c.n \in 1..MaxSize /\ c.data = <<>> /\ c.whence = 0
  BY <1>0, <1>2 DEF Reads
<1>3. ASSUME c \in Seeks
      PROVE  c.op = "S" /\ c.n \in Int /\ c.data = <<>> /\ c.whence \in Int
  <2>1. c.op = "S" /\ c.n \in Offsets /\ c.data = <<>> /\ c.whence \in {0, 1, 2}
    BY <1>3 DEF Seeks
  <2>2. c.n \in Int
    BY <1>0, <2>1
  <2>3. c.whence \in Int
    BY <2>1
  <2> QED BY <2>1, <2>2, <2>3, Zenon
<1>4. ASSUME c \in Sizes
      PROVE  c.op = "Z" /\ c.n = 0 /\ c.data = <<>> /\ c.whence = 0
  BY <1>4 DEF Sizes
<1>5. \A d : d = <<>> => d \in Seq(Int)
  <2>1. <<>> \in Seq(Int)
    OBVIOUS
  <2> QED BY <2>1, Zenon
<1>6. CASE c \in Reads
  BY <1>6, <1>0, <1>2, <1>5
<1>7. CASE c \in Seeks
  BY <1>7, <1>3, <1>5
<1>8. CASE c \in Sizes
  BY <1>8, <1>4, <1>5
<1>9. CASE \E k \in 1..MaxCalls : c \in Writes(k)
  BY <1>9, <1>0, <1>1
<1> QED BY <1>6, <1>7, <1>8, <1>9 DEF CallSet

\* Every call the engine may make is one of them.
LEMMA CallsOfType ==
  ASSUME NEW mode, NEW k \in 1..MaxCalls
  PROVE  CallsOf(mode, k) \subseteq CallSet
  BY Zenon DEF CallsOf, CallSet

\* Each way a call can end is a result.
LEMMA ResultTypes ==
  /\ Nothing \in Result /\ Failed \in Result
  /\ \A st \in {"ok", "eof", "failed"}, v \in Int, d \in Seq(Int) :
       [st |-> st, val |-> v, data |-> d] \in Result
  BY DEF Nothing, Failed, Result

\* The files a session can start from are sequences of bytes.
LEMMA FileTypes == <<>> \in Seq(Int) /\ \A f \in InitialFiles : f \in Seq(Int)
<1>1. InitialFiles \subseteq Seq(Int)
  BY SessionAssumption, Zenon
<1> QED BY <1>1

\* A session starts with every variable in its type.
LEMMA InitType == Init => TypeOK
<1> SUFFICES ASSUME Init PROVE TypeOK
  OBVIOUS
<1> USE DEF Init
<1>1. cfg \in Configs /\ cfg.version \in 1..2
  BY DEF Configs
<1>2. file \in Seq(Int)
  BY FileTypes
<1>3. made \in 0..MaxCalls
  BY SessionAssumption
<1>4. toHost \in Seq(Frame) /\ toEngine \in Seq(Reply_) /\ hostPay \in Seq(Reply_) /\ buf \in Seq(Int)
  OBVIOUS
<1>5. call \in CallSet \cup {NoCall}
  OBVIOUS
<1>6. ret \in Result /\ outcome \in Result
  BY ResultTypes
<1>7. /\ agreed \in 1..2 /\ need \in Int /\ pos \in Nat /\ reads \in Nat
      /\ seen \in Seq(Int) /\ seenPos \in Int
  BY <1>1, <1>2
<1>8. sock \in {"open", "shut", "closed"} /\ phase \in {"idle", "head", "body"}
      /\ pbError \in BOOLEAN /\ host \in {"serving", "ended"}
  OBVIOUS
<1> QED BY <1>1, <1>2, <1>3, <1>4, <1>5, <1>6, <1>7, <1>8 DEF TypeOK
-----------------------------------------------------------------------------
(* Type correctness, action by action *)

\* What a queue's operations return, with the type of its elements left closed.
LEMMA QueueTypes ==
  ASSUME NEW S, NEW q \in Seq(S)
  PROVE  /\ q # <<>> => Head(q) \in S /\ Tail(q) \in Seq(S)
         /\ \A x \in S : Append(q, x) \in Seq(S)
         /\ <<>> \in Seq(S)
  OBVIOUS

\* What the engine knows of its own call.
LEMMA CallFacts ==
  ASSUME TypeOK
  PROVE  /\ call.op \in {"R", "W", "S", "Z", "none"} /\ call.n \in Int
         /\ call.data \in Seq(Int) /\ call.whence \in Int
<1>1. CASE call = NoCall
  <2>1. \A d : d = <<>> => d \in Seq(Int)
    <3>1. <<>> \in Seq(Int)
      OBVIOUS
    <3> QED BY <3>1, Zenon
  <2>2. call.op = "none" /\ call.n = 0 /\ call.data = <<>> /\ call.whence = 0
    BY <1>1 DEF NoCall, SeekSet
  <2> QED BY <2>1, <2>2
<1>2. CASE call \in CallSet
  <2>1. /\ call.op \in {"R", "W", "S", "Z"} /\ call.n \in Int
        /\ call.data \in Seq(Int) /\ call.whence \in Int
    BY <1>2, CallTypes
  <2> QED BY <2>1
<1> QED BY <1>1, <1>2 DEF TypeOK

\* The unsigned reading of a wire count.
LEMMA UnsignedType == ASSUME NEW v \in Int PROVE v % Wrap \in 0..(Wrap - 1)
<1>1. Wrap \in Nat /\ Wrap > 0
  BY SessionAssumption
<1> QED BY <1>1

\* The part of the state a call's completion or failure writes.
ResultOK ==
  /\ sock \in {"open", "shut", "closed"} /\ phase \in {"idle", "head", "body"}
  /\ ret \in Result /\ pbError \in BOOLEAN
  /\ seen \in Seq(Int) /\ seenPos \in Int

\* Completing a call and giving the caller its result keeps the types.
LEMMA CompleteType ==
  ASSUME TypeOK, NEW st \in {"ok", "eof"}, NEW v \in Int, NEW d \in Seq(Int),
         Complete(st, v, d)
  PROVE  ResultOK'
<1> USE DEF Complete
<1>1. ret' \in Result
  BY ResultTypes
<1>2. seen' \in Seq(Int)
  BY WrittenType, CallFacts DEF TypeOK
<1>3. seenPos' \in Int
  BY DEF TypeOK
<1>4. /\ sock' \in {"open", "shut", "closed"} /\ phase' \in {"idle", "head", "body"}
      /\ pbError' \in BOOLEAN
  BY DEF TypeOK
<1> QED BY <1>1, <1>2, <1>3, <1>4 DEF ResultOK

\* afio_fail keeps the types: it sets the flag and shuts the socket down.
LEMMA FailType ==
  ASSUME TypeOK, NEW c, afio_fail(c), UNCHANGED <<seen, seenPos>>
  PROVE  ResultOK'
<1>1. pbError' \in BOOLEAN
  BY Zenon DEF afio_fail, TypeOK
<1>2. ret' \in Result
  BY ResultTypes DEF afio_fail
<1> QED BY <1>1, <1>2 DEF afio_fail, TypeOK, ResultOK

\* Queueing a reply header, with or without bytes behind it, keeps the types.
LEMMA ReplyType ==
  ASSUME TypeOK, toHost # <<>>, NEW v \in Int, NEW payload \in Seq(Int), Reply(v, payload)
  PROVE  /\ toEngine' \in Seq(Reply_) /\ hostPay' \in Seq(Reply_)
         /\ host' \in {"serving", "ended"}
<1>1. Head(toHost).req \in 0..MaxCalls
  <2>1. Head(toHost) \in Frame
    BY QueueTypes DEF TypeOK
  <2> QED BY <2>1 DEF Frame
<1>2. CASE sock = "open"
  <2>1. [val |-> v, req |-> Head(toHost).req, part |-> "head"] \in Reply_
    BY <1>1 DEF Reply_
  <2>2. \A i \in DOMAIN payload :
          [val |-> payload[i], req |-> Head(toHost).req, part |-> "body"] \in Reply_
    BY <1>1 DEF Reply_
  <2>3. hostPay' \in Seq(Reply_)
    BY <1>2, <2>2 DEF Reply
  <2>4. toEngine' \in Seq(Reply_)
    BY <1>2, <2>1, QueueTypes DEF Reply, TypeOK
  <2> QED BY <1>2, <2>3, <2>4 DEF Reply, TypeOK
<1>3. CASE sock # "open"
  BY <1>3 DEF Reply, HostEnds, TypeOK
<1> QED BY <1>2, <1>3

\* Recording what the host did for a call keeps the types.
LEMMA DidType ==
  ASSUME TypeOK, NEW st \in {"ok", "eof", "failed"}, NEW v \in Int, NEW d \in Seq(Int),
         Did(st, v, d)
  PROVE  outcome' \in Result
  BY ResultTypes DEF Did, TypeOK

\* Sending a request keeps the types, whichever call it is for.
LEMMA SendRequestType == ASSUME TypeOK, SendRequest PROVE TypeOK'
<1>1. PICK c \in CallsOf(cfg.mode, made + 1) :
        /\ made < MaxCalls /\ call' = c /\ made' = made + 1
        /\ need' = 0 /\ buf' = <<>> /\ outcome' = Nothing
        /\ UNCHANGED <<cfg, agreed, toEngine, host, hostPay, file, pos, reads, seen, seenPos>>
        /\ \/ /\ toHost' = Append(toHost, [frame |-> c.op, c |-> c, req |-> made'])
              /\ phase' = "head"
              /\ UNCHANGED <<sock, ret, pbError>>
           \/ afio_fail(c) /\ UNCHANGED toHost
           \/ /\ afio_fail(c)
              /\ toHost' = Append(toHost, [frame |-> "partial", c |-> c, req |-> made'])
  BY Zenon DEF SendRequest
<1>2. made' \in 1..MaxCalls /\ made' \in 0..MaxCalls
  <2>1. MaxCalls \in Nat
    BY SessionAssumption
  <2> QED BY <1>1, <2>1 DEF TypeOK
<1>3. c \in CallSet
  BY <1>1, <1>2, CallsOfType
<1>4. toHost' \in Seq(Frame)
  <2>1. c.op \in {"R", "W", "S", "Z"}
    BY <1>3, CallTypes
  <2>2. [frame |-> c.op, c |-> c, req |-> made'] \in Frame
    BY <1>2, <1>3, <2>1 DEF Frame
  <2>3. [frame |-> "partial", c |-> c, req |-> made'] \in Frame
    BY <1>2, <1>3 DEF Frame
  <2> HIDE DEF Frame
  <2>4. toHost \in Seq(Frame)
    BY DEF TypeOK
  <2> QED BY <1>1, <2>2, <2>3, <2>4, QueueTypes
<1>5. ResultOK'
  <2>1. CASE afio_fail(c)
    BY <1>1, <2>1, FailType
  <2>2. CASE phase' = "head" /\ UNCHANGED <<sock, ret, pbError>>
    BY <1>1, <2>2 DEF TypeOK, ResultOK
  <2> QED BY <1>1, <2>1, <2>2
<1>6. need' \in Int /\ buf' \in Seq(Int) /\ outcome' \in Result
  BY <1>1, ResultTypes
<1> QED BY <1>1, <1>2, <1>3, <1>4, <1>5, <1>6 DEF TypeOK, ResultOK

\* Receiving a reply header keeps the types, whichever call it answers.
LEMMA RecvHeadType == ASSUME TypeOK, RecvHead PROVE TypeOK'
<1> DEFINE v == Head(toEngine).val
           n == v % Wrap
<1>1. v \in Int /\ toEngine' \in Seq(Reply_)
  <2>1. Head(toEngine) \in Reply_ /\ Tail(toEngine) \in Seq(Reply_)
    BY QueueTypes DEF RecvHead, TypeOK
  <2> QED BY <2>1 DEF RecvHead, Reply_
<1>2. n \in Nat
  BY <1>1, UnsignedType
<1>3. <<>> \in Seq(Int)
  OBVIOUS
<1>4. FailCall => ResultOK'
  BY FailType DEF FailCall
<1>5. \A st \in {"ok", "eof"}, k \in Int : Complete(st, k, <<>>) => ResultOK'
  BY CompleteType, <1>3
<1>6. phase' = "body" /\ UNCHANGED <<sock, ret, pbError, seen, seenPos>> => ResultOK'
  BY DEF TypeOK, ResultOK
<1>7. ResultOK' /\ need' \in Int
  <2> HIDE DEF v, n
  <2>1. CASE ReadHead(v)
    <3>1. \/ FailCall /\ UNCHANGED need
          \/ Complete("eof", 0, <<>>) /\ UNCHANGED need
          \/ phase' = "body" /\ need' = n /\ UNCHANGED <<sock, ret, pbError, seen, seenPos>>
      BY <2>1, Zenon DEF ReadHead, n
    <3> QED BY <3>1, <1>2, <1>4, <1>5, <1>6 DEF TypeOK
  <2>2. CASE WriteHead(v)
    <3>1. (FailCall \/ Complete("ok", v, <<>>)) /\ UNCHANGED need
      BY <2>2, Zenon DEF WriteHead
    <3> QED BY <3>1, <1>1, <1>4, <1>5 DEF TypeOK
  <2>3. CASE SeekHead(v)
    BY <2>3, <1>1, <1>5 DEF SeekHead, TypeOK
  <2> QED BY <2>1, <2>2, <2>3 DEF RecvHead, v
<1> QED BY <1>1, <1>7 DEF RecvHead, hostVars, TypeOK, ResultOK

\* Receiving a byte of a read reply keeps the types.
LEMMA RecvByteType == ASSUME TypeOK, RecvByte PROVE TypeOK'
<1>1. Head(toEngine).val \in Int /\ toEngine' \in Seq(Reply_)
  <2>1. Head(toEngine) \in Reply_ /\ Tail(toEngine) \in Seq(Reply_)
    BY QueueTypes DEF RecvByte, TypeOK
  <2> QED BY <2>1 DEF RecvByte, Reply_
<1>2. buf' \in Seq(Int) /\ Len(buf') \in Int
  BY <1>1 DEF RecvByte, TypeOK
<1>3. ResultOK'
  <2>1. CASE need = 1
    BY <2>1, <1>2, CompleteType DEF RecvByte
  <2>2. CASE need # 1
    BY <2>2 DEF RecvByte, TypeOK, ResultOK
  <2> QED BY <2>1, <2>2
<1> QED BY <1>1, <1>2, <1>3 DEF RecvByte, hostVars, TypeOK, ResultOK
\* The engine's remaining steps give up, close, or see another session dial.
LEMMA EngineRestType ==
  ASSUME TypeOK, PeerGone \/ DeadlineExpires \/ Close \/ OtherDial
  PROVE  TypeOK'
<1>1. CASE PeerGone \/ DeadlineExpires
  <2>1. ResultOK'
    BY <1>1, FailType DEF PeerGone, DeadlineExpires, FailCall
  <2> QED BY <1>1, <2>1 DEF PeerGone, DeadlineExpires, channelVars, hostVars, TypeOK, ResultOK
<1>2. CASE Close
  <2>1. toHost' \in Seq(Frame)
    <3>1. [frame |-> "C", c |-> call, req |-> made] \in Frame
      BY DEF Frame, TypeOK
    <3>2. toHost \in Seq(Frame)
      BY DEF TypeOK
    <3>3. toHost' \in {toHost, Append(toHost, [frame |-> "C", c |-> call, req |-> made])}
      BY <1>2 DEF Close
    <3> QED BY <3>1, <3>2, <3>3, QueueTypes
  <2>2. ret' \in Result
    <3>1. ret' = [Nothing EXCEPT !.st = "closed"] \/ ret' = Failed
      BY <1>2, Zenon DEF Close
    <3>2. [Nothing EXCEPT !.st = "closed"] \in Result
      BY ResultTypes DEF Result
    <3> QED BY <3>1, <3>2, ResultTypes
  <2> QED BY <1>2, <2>1, <2>2 DEF Close, hostVars, TypeOK
<1>3. CASE OtherDial
  BY <1>3 DEF OtherDial, channelVars, hostVars, TypeOK
<1> QED BY <1>1, <1>2, <1>3

\* The configuration's faults are numbers.
LEMMA FaultTypes ==
  ASSUME TypeOK
  PROVE  /\ cfg.faults.overstateReadBy \in 0..(Wrap - MaxSize - 1)
         /\ cfg.faults.overstateReadBy \in Nat /\ cfg.faults.understateWriteBy \in Nat
<1>1. cfg.faults \in HostSettings
  BY DEF TypeOK, Configs
<1>2. HostSettings \subseteq [closeAfterReads : Nat, failReadsAfter : Nat,
                              overstateReadBy : 0..(Wrap - MaxSize - 1), understateWriteBy : Nat]
  BY SessionAssumption, Zenon
<1>3. Wrap \in Nat /\ MaxSize \in Nat
  BY SessionAssumption
<1> QED BY <1>1, <1>2, <1>3

\* What serving a frame leaves behind.
ServedOK ==
  /\ toEngine \in Seq(Reply_) /\ hostPay \in Seq(Reply_) /\ host \in {"serving", "ended"}
  /\ file \in Seq(Int) /\ pos \in Nat /\ reads \in Nat /\ outcome \in Result

\* A host session that ends keeps the types.
LEMMA EndsType ==
  ASSUME TypeOK, HostEnds, UNCHANGED toEngine
  PROVE  /\ toEngine' \in Seq(Reply_) /\ hostPay' \in Seq(Reply_)
         /\ host' \in {"serving", "ended"}
  BY QueueTypes DEF HostEnds, TypeOK

\* Serving a read keeps the types, also when the host lies about the count.
LEMMA ServeReadType ==
  ASSUME TypeOK, toHost # <<>>, NEW c \in CallSet, c.op = "R", ServeRead(c)
  PROVE  ServedOK'
<1> DEFINE data == BytesAt(file, pos, c.n)
<1>0. c.n \in Nat
  <2>1. c.n \in 1..MaxSize /\ MaxSize \in Nat
    BY CallTypes, SessionAssumption
  <2> QED BY <2>1
<1>1. data \in Seq(Int) /\ Len(data) \in Nat
  <2>1. data \in Seq(Int)
    BY <1>0, BytesAtType DEF TypeOK
  <2> QED BY <2>1
<1> HIDE DEF data
<1>2. reads' \in Nat /\ file' \in Seq(Int)
  BY DEF ServeRead, TypeOK
<1>3. \/ HostEnds /\ UNCHANGED <<toEngine, pos, outcome>>
      \/ Reply(ReadFailed, <<>>) /\ UNCHANGED <<pos, outcome>>
      \/ /\ Reply(Len(data) + cfg.faults.overstateReadBy, data)
         /\ pos' = pos + Len(data)
         /\ Did(IF data = <<>> THEN "eof" ELSE "ok", Len(data), data)
  BY Zenon DEF ServeRead, data
<1>4. CASE HostEnds /\ UNCHANGED <<toEngine, pos, outcome>>
  BY <1>2, <1>4, EndsType DEF ServedOK, TypeOK
<1>5. CASE Reply(ReadFailed, <<>>) /\ UNCHANGED <<pos, outcome>>
  <2>1. ReadFailed \in Int /\ <<>> \in Seq(Int)
    BY DEF ReadFailed
  <2> QED BY <1>2, <1>5, <2>1, ReplyType DEF ServedOK, TypeOK
<1>6. CASE /\ Reply(Len(data) + cfg.faults.overstateReadBy, data)
           /\ pos' = pos + Len(data)
           /\ Did(IF data = <<>> THEN "eof" ELSE "ok", Len(data), data)
  <2>1. Len(data) + cfg.faults.overstateReadBy \in Int
    BY <1>1, FaultTypes
  <2>2. outcome' \in Result
    BY <1>1, <1>6, DidType
  <2> QED BY <1>1, <1>2, <1>6, <2>1, <2>2, ReplyType DEF ServedOK, TypeOK
<1> QED BY <1>3, <1>4, <1>5, <1>6

\* Serving a write keeps the types, also when the host acknowledges less.
LEMMA ServeWriteType ==
  ASSUME TypeOK, toHost # <<>>, NEW c \in CallSet, ServeWrite(c) \/ ServeWriteFails(c)
  PROVE  ServedOK'
<1>0. c.data \in Seq(Int) /\ <<>> \in Seq(Int)
  BY CallTypes
<1>1. CASE ServeWrite(c)
  <2>1. file' \in Seq(Int) /\ pos' \in Nat /\ reads' \in Nat
    BY <1>0, <1>1, WrittenType DEF ServeWrite, TypeOK
  <2>2. PICK v \in Int : Reply(v, <<>>)
    BY <1>0, <1>1, FaultTypes DEF ServeWrite
  <2>3. outcome' \in Result
    <3>1. Did("ok", Len(c.data), <<>>) /\ Len(c.data) \in Int
      BY <1>0, <1>1 DEF ServeWrite
    <3> QED BY <1>0, <3>1, DidType
  <2> QED BY <1>0, <2>1, <2>2, <2>3, ReplyType DEF ServedOK
<1>2. CASE ServeWriteFails(c)
  <2>1. PICK k \in 0..(Len(c.data) - 1) :
          file' = Written(file, pos, SubSeq(c.data, 1, k)) /\ pos' = pos + k
    BY <1>2 DEF ServeWriteFails
  <2>2. SubSeq(c.data, 1, k) \in Seq(Int)
    BY <1>0
  <2>3. file' \in Seq(Int) /\ pos' \in Nat /\ reads' \in Nat
    <3>1. file' \in Seq(Int)
      <4>1. \A d \in Seq(Int) : Written(file, pos, d) \in Seq(Int)
        BY WrittenType DEF TypeOK
      <4> QED BY <2>1, <2>2, <4>1
    <3>2. pos' \in Nat
      BY <1>0, <2>1 DEF TypeOK
    <3> QED BY <1>2, <3>1, <3>2 DEF ServeWriteFails, TypeOK
  <2>4. outcome' \in Result
    <3>1. Did("failed", 0, <<>>) /\ 0 \in Int
      BY <1>2 DEF ServeWriteFails
    <3> QED BY <1>0, <3>1, DidType
  <2> QED BY <1>2, <2>3, <2>4, EndsType DEF ServeWriteFails, ServedOK
<1> QED BY <1>1, <1>2

\* Serving a write that fails, a seek or a size request keeps the types.
LEMMA ServeRestType ==
  ASSUME TypeOK, toHost # <<>>, NEW c \in CallSet, ServeSeek(c) \/ ServeSize
  PROVE  ServedOK'
<1>0. <<>> \in Seq(Int) /\ Len(file) \in Int
  BY DEF TypeOK
<1>1. CASE ServeSize
  <2>1. outcome' \in Result
    BY <1>0, <1>1, DidType DEF ServeSize
  <2> QED BY <1>0, <1>1, <2>1, ReplyType DEF ServeSize, ServedOK, TypeOK
<1>2. CASE ServeSeek(c)
  <2> DEFINE p == SeekTarget(file, pos, c.n, c.whence)
  <2>1. p \in Int
    BY <1>0, CallTypes DEF SeekTarget, SeekSet, SeekCur, TypeOK
  <2>2. CASE p < 0
    <3>1. HostEnds /\ UNCHANGED <<toEngine, pos, outcome, file, reads>>
      BY <1>2, <2>2 DEF ServeSeek
    <3> QED BY <3>1, EndsType DEF ServedOK, TypeOK
  <2>3. CASE ~(p < 0)
    <3>1. Reply(p, <<>>) /\ pos' = p /\ Did("ok", p, <<>>) /\ UNCHANGED <<file, reads>>
      BY <1>2, <2>3 DEF ServeSeek
    <3>2. pos' \in Nat
      BY <2>1, <2>3, <3>1
    <3> HIDE DEF p
    <3>3. outcome' \in Result
      BY <1>0, <2>1, <3>1, DidType
    <3> QED BY <1>0, <2>1, <3>1, <3>2, <3>3, ReplyType DEF ServedOK, TypeOK
  <2> QED BY <2>2, <2>3
<1> QED BY <1>1, <1>2

\* Serving any request keeps the types.
LEMMA ServeType == ASSUME TypeOK, Serve PROVE TypeOK'
<1> DEFINE q == Head(toHost)
<1>1. /\ toHost # <<>> /\ q \in Frame /\ toHost' \in Seq(Frame)
      /\ UNCHANGED <<cfg, agreed, sock, phase, call, made, need, buf, ret, pbError, seen, seenPos>>
  <2>1. toHost # <<>> /\ q \in Frame /\ Tail(toHost) \in Seq(Frame)
    BY QueueTypes DEF Serve, TypeOK
  <2> QED BY <2>1 DEF Serve, engineVars
<1>2. \/ HostEnds /\ UNCHANGED <<toEngine, file, pos, reads, outcome>>
      \/ q.frame = "R" /\ ServeRead(q.c)
      \/ q.frame = "W" /\ (ServeWrite(q.c) \/ ServeWriteFails(q.c))
      \/ q.frame = "S" /\ ServeSeek(q.c)
      \/ q.frame = "Z" /\ ServeSize
  BY Zenon DEF Serve
<1>3. ServedOK'
  <2> HIDE DEF q
  <2>1. CASE HostEnds /\ UNCHANGED <<toEngine, file, pos, reads, outcome>>
    BY <2>1, EndsType DEF ServedOK, TypeOK
  <2>2. CASE q.frame \in {"R", "W", "S", "Z"}
    <3>1. q.c \in CallSet /\ q.c.op = q.frame
      BY <1>1, <2>2 DEF Frame
    <3>2. \/ q.c.op = "R" /\ ServeRead(q.c)
          \/ ServeWrite(q.c) \/ ServeWriteFails(q.c)
          \/ ServeSeek(q.c) \/ ServeSize
          \/ HostEnds /\ UNCHANGED <<toEngine, file, pos, reads, outcome>>
      BY <1>2, <3>1, Zenon
    <3> QED BY <1>1, <2>1, <3>1, <3>2, ServeReadType, ServeWriteType, ServeRestType
  <2> QED BY <1>2, <2>1, <2>2
<1> QED BY <1>1, <1>3 DEF TypeOK, ServedOK

\* The host's remaining steps keep the types.
LEMMA HostRestType ==
  ASSUME TypeOK, SendPayload \/ HostSeesEOF \/ HostVanishes
  PROVE  TypeOK'
<1>1. CASE SendPayload
  <2>1. Head(hostPay) \in Reply_ /\ Tail(hostPay) \in Seq(Reply_)
    BY <1>1, QueueTypes DEF SendPayload, TypeOK
  <2>2. /\ toEngine' \in Seq(Reply_) /\ hostPay' \in Seq(Reply_)
        /\ host' \in {"serving", "ended"}
    <3>1. CASE sock = "open"
      <4>1. /\ toEngine' = Append(toEngine, Head(hostPay))
            /\ hostPay' = Tail(hostPay) /\ host' = host
        BY <1>1, <3>1 DEF SendPayload
      <4>2. toEngine \in Seq(Reply_)
        BY DEF TypeOK
      <4> QED BY <2>1, <4>1, <4>2, QueueTypes DEF TypeOK
    <3>2. CASE sock # "open"
      BY <1>1, <3>2, EndsType DEF SendPayload
    <3> QED BY <3>1, <3>2
  <2> QED BY <1>1, <2>2 DEF SendPayload, engineVars, TypeOK
<1>2. CASE HostSeesEOF \/ HostVanishes
  <2>1. /\ HostEnds
        /\ UNCHANGED <<cfg, engineVars, channelVars, file, pos, reads, outcome>>
    BY <1>2, Zenon DEF HostSeesEOF, HostVanishes
  <2>2. /\ toEngine' \in Seq(Reply_) /\ hostPay' \in Seq(Reply_)
        /\ host' \in {"serving", "ended"}
    BY <2>1, EndsType DEF channelVars
  <2> QED BY <2>1, <2>2 DEF engineVars, channelVars, TypeOK
<1> QED BY <1>1, <1>2

\* Every step keeps every variable's type, whatever the host sends.
LEMMA NextType == TypeOK /\ [Next]_vars => TypeOK'
<1> SUFFICES ASSUME TypeOK, [Next]_vars PROVE TypeOK'
  OBVIOUS
<1>1. CASE SendRequest
  BY <1>1, SendRequestType
<1>2. CASE EngineStep
  BY <1>2, RecvHeadType, RecvByteType, EngineRestType DEF EngineStep
<1>3. CASE Close \/ OtherDial
  BY <1>3, EngineRestType
<1>4. CASE HostStep \/ HostVanishes
  BY <1>4, ServeType, HostRestType DEF HostStep
<1>5. CASE UNCHANGED vars
  BY <1>5 DEF vars, engineVars, channelVars, hostVars, TypeOK
<1> QED BY <1>1, <1>2, <1>3, <1>4, <1>5 DEF Next

\* In every behaviour, against every host, each variable keeps its type.
THEOREM TypeCorrect == Spec => []TypeOK
  BY InitType, NextType, PTL DEF Spec

-----------------------------------------------------------------------------
(* Queues *)

\* A queue of length zero is the empty sequence.
LEMMA EmptyQueue == ASSUME NEW S, NEW q \in Seq(S) PROVE (Len(q) = 0) <=> (q = <<>>)
  OBVIOUS

\* The tail of a queue: its length and its elements.
LEMMA TailQueue ==
  ASSUME NEW S, NEW q \in Seq(S), q # <<>>
  PROVE  /\ Len(q) > 0 /\ Len(Tail(q)) = Len(q) - 1
         /\ Head(q) = q[1]
         /\ \A i \in 1..Len(Tail(q)) : Tail(q)[i] = q[i + 1]
  OBVIOUS

\* A queue with one more element: its length and its elements.
LEMMA AppendQueue ==
  ASSUME NEW S, NEW q \in Seq(S), NEW x \in S
  PROVE  /\ Len(Append(q, x)) = Len(q) + 1 /\ Append(q, x) # <<>>
         /\ Append(q, x)[Len(q) + 1] = x
         /\ \A i \in 1..Len(q) : Append(q, x)[i] = q[i]
  OBVIOUS

\* Taking the front of a queue leaves only body bytes, and so does queueing one.
LEMMA BodiesTail ==
  ASSUME TypeOK, NEW q \in Seq(Reply_), q # <<>>, BodiesOnly(q, 2)
  PROVE  BodiesOnly(Tail(q), 1)
<1>1. \A i \in 1..Len(Tail(q)) : i + 1 \in 2..Len(q) /\ Tail(q)[i] = q[i + 1]
  BY TailQueue
<1> QED BY <1>1 DEF BodiesOnly

LEMMA BodiesAppend ==
  ASSUME TypeOK, NEW q \in Seq(Reply_), NEW x \in Reply_, NEW from \in 1..2,
         BodiesOnly(q, from), from <= Len(q) + 1, x.req = made, x.part = "body"
  PROVE  BodiesOnly(Append(q, x), from)
<1> SUFFICES ASSUME NEW i \in from..Len(Append(q, x))
             PROVE  Append(q, x)[i].req = made /\ Append(q, x)[i].part = "body"
  BY DEF BodiesOnly
<1>1. Len(q) \in Nat
  OBVIOUS
<1>2. CASE i = Len(q) + 1
  BY <1>2, AppendQueue
<1>3. CASE i # Len(q) + 1
  <2>1. i \in 1..Len(q) /\ i \in from..Len(q)
    BY <1>1, <1>3, AppendQueue
  <2> QED BY <2>1, AppendQueue DEF BodiesOnly
<1> QED BY <1>2, <1>3
-----------------------------------------------------------------------------
(* The invariant, action by action *)

\* The bytes the host still owes are a natural number.
LEMMA SupplyType ==
  ASSUME TypeOK
  PROVE  /\ Supply \in Nat /\ Len(toEngine) \in Nat /\ Len(hostPay) \in Nat
         /\ Supply = 0 <=> (toEngine = <<>> /\ hostPay = <<>>)
<1>1. Len(toEngine) \in Nat /\ Len(hostPay) \in Nat
  BY DEF TypeOK
<1>2. /\ Len(toEngine) = 0 <=> toEngine = <<>>
      /\ Len(hostPay) = 0 <=> hostPay = <<>>
  BY EmptyQueue DEF TypeOK
<1> QED BY <1>1, <1>2 DEF Supply

\* A failed call leaves nothing for the invariant to say.
LEMMA FailKeeps == ASSUME NEW c, afio_fail(c) PROVE InStepInv'
  BY DEF afio_fail, InStepInv, IdleInv, HeadInv, BodyInv

\* A call sends its request only over an idle wire, so the request is the only one outstanding.
LEMMA SendRequestKeeps == ASSUME TypeOK, InStepInv, SendRequest PROVE InStepInv'
<1>1. PICK c \in CallsOf(cfg.mode, made + 1) :
        /\ phase = "idle"
        /\ call' = c /\ made' = made + 1
        /\ UNCHANGED <<toEngine, hostPay>>
        /\ \/ /\ sock = "open"
              /\ toHost' = Append(toHost, [frame |-> c.op, c |-> c, req |-> made'])
              /\ phase' = "head"
              /\ UNCHANGED sock
           \/ afio_fail(c)
  BY Zenon DEF SendRequest
<1>2. CASE afio_fail(c)
  BY <1>2, FailKeeps
<1>3. CASE /\ sock = "open"
           /\ toHost' = Append(toHost, [frame |-> c.op, c |-> c, req |-> made'])
           /\ phase' = "head"
           /\ UNCHANGED sock
  <2>1. toHost = <<>> /\ Supply = 0
    BY <1>1, <1>3 DEF InStepInv, IdleInv
  <2>2. toEngine' = <<>> /\ hostPay' = <<>> /\ Supply' = 0
    BY <1>1, <2>1, SupplyType DEF Supply
  <2>3. /\ Len(toHost') = 1
        /\ toHost'[1].frame = c.op /\ toHost'[1].c = c /\ toHost'[1].req = made'
    BY <1>3, <2>1
  <2>4. HeadInv'
    BY <1>1, <1>3, <2>2, <2>3 DEF HeadInv
  <2> QED BY <1>3, <2>4 DEF InStepInv, IdleInv, BodyInv
<1> QED BY <1>1, <1>2, <1>3

\* The header received answers the call in progress; what it announces is what follows it.
LEMMA RecvHeadKeeps == ASSUME TypeOK, InStepInv, RecvHead PROVE InStepInv'
<1> DEFINE v == Head(toEngine).val
           n == v % Wrap
<1>0. /\ phase = "head" /\ toEngine # <<>>
      /\ toEngine' = Tail(toEngine)
      /\ UNCHANGED <<call, made, toHost, hostPay>>
      /\ \/ call.op = "R" /\ ReadHead(v)
         \/ call.op # "R" /\ (WriteHead(v) \/ SeekHead(v))
  BY DEF RecvHead, hostVars
<1>1. v \in Int /\ n \in Nat
  <2>1. Head(toEngine) \in Reply_
    BY <1>0, QueueTypes DEF TypeOK
  <2>2. v \in Int
    BY <2>1 DEF Reply_
  <2> QED BY <2>2, UnsignedType
<1>2. toHost' = <<>> /\ Supply' = Supply - 1 /\ Supply > 0
  <2>1. Len(toEngine') = Len(toEngine) - 1 /\ Len(toEngine) > 0
    BY <1>0, TailQueue DEF TypeOK
  <2>2. Supply > 0
    BY <2>1, SupplyType DEF Supply
  <2>3. toHost = <<>>
    BY <1>0, <2>2 DEF InStepInv, HeadInv
  <2> QED BY <1>0, <2>1, <2>2, <2>3, SupplyType DEF Supply
<1>3. sock = "open" /\ BodiesOnly(toEngine, 1)' /\ BodiesOnly(hostPay, 1)'
  <2>1. BodiesOnly(Tail(toEngine), 1)
    BY <1>0, BodiesTail DEF InStepInv, HeadInv, TypeOK
  <2> QED BY <1>0, <2>1 DEF InStepInv, HeadInv, BodiesOnly
<1>4. FailCall => InStepInv'
  BY FailKeeps DEF FailCall
<1>5. \A st, k, d : Supply' = 0 /\ Complete(st, k, d) => InStepInv'
  BY <1>2 DEF Complete, InStepInv, IdleInv, HeadInv, BodyInv
<1>6. CASE call.op # "R"
  <2>1. Supply = 1
    BY <1>0, <1>6 DEF InStepInv, HeadInv
  <2>2. Supply' = 0
    BY <1>2, <2>1, SupplyType
  <2>3. FailCall \/ \E st, k, d : Complete(st, k, d)
    BY <1>0, <1>6, Zenon DEF WriteHead, SeekHead
  <2> QED BY <1>4, <1>5, <2>2, <2>3
<1>7. CASE call.op = "R"
  <2>1. \/ v = ReadFailed /\ Supply = 1
        \/ v \in (Supply - 1)..(Wrap - 1)
    BY <1>0, <1>7, TailQueue DEF InStepInv, HeadInv, TypeOK
  <2>2. call.n \in 1..MaxSize
    BY <1>7, CallTypes DEF TypeOK, NoCall
  <2>3. Wrap \in Nat /\ MaxSize \in Nat /\ Wrap > 2 * MaxSize
    BY SessionAssumption
  <2> HIDE DEF v
  <2>4. v # ReadFailed => n = v
    BY <1>2, <2>1, <2>3, SupplyType
  <2>5. v = ReadFailed => n > call.n
    BY <2>2, <2>3 DEF ReadFailed
  <2> HIDE DEF n
  <2>6. \/ FailCall
        \/ n = 0 /\ Complete("eof", 0, <<>>)
        \/ n # 0 /\ ~(n > call.n) /\ phase' = "body" /\ need' = n /\ UNCHANGED sock
    BY <1>0, <1>7, Zenon DEF ReadHead, n
  <2>7. CASE n = 0 /\ Complete("eof", 0, <<>>)
    <3>1. Supply' = 0
      BY <1>2, <2>1, <2>4, <2>5, <2>7, <2>2, SupplyType
    <3> QED BY <1>5, <2>7, <3>1
  <2>8. CASE n # 0 /\ ~(n > call.n) /\ phase' = "body" /\ need' = n /\ UNCHANGED sock
    <3>1. Supply' <= need'
      BY <1>2, <2>1, <2>4, <2>5, <2>8, SupplyType
    <3> QED BY <1>1, <1>2, <1>3, <2>8, <3>1 DEF InStepInv, IdleInv, HeadInv, BodyInv
  <2> QED BY <1>4, <2>6, <2>7, <2>8
<1> QED BY <1>6, <1>7

\* Each byte received is one of those the header announced.
LEMMA RecvByteKeeps == ASSUME TypeOK, InStepInv, RecvByte PROVE InStepInv'
<1>0. /\ phase = "body" /\ toEngine # <<>>
      /\ toEngine' = Tail(toEngine) /\ need' = need - 1
      /\ UNCHANGED <<call, made, toHost, hostPay>>
      /\ \/ need = 1 /\ Complete("ok", Len(buf'), buf')
         \/ need # 1 /\ UNCHANGED <<phase, sock>>
  BY DEF RecvByte, hostVars
<1>1. /\ sock = "open" /\ toHost' = <<>> /\ need > 0 /\ Supply <= need
      /\ BodiesOnly(toEngine, 1) /\ BodiesOnly(hostPay, 1)
  BY <1>0 DEF InStepInv, BodyInv
<1>2. Supply' = Supply - 1 /\ Supply > 0
  <2>1. Len(toEngine') = Len(toEngine) - 1 /\ Len(toEngine) > 0
    BY <1>0, TailQueue DEF TypeOK
  <2> QED BY <1>0, <2>1, SupplyType DEF Supply
<1>3. CASE need = 1 /\ Complete("ok", Len(buf'), buf')
  <2>1. Supply' = 0
    BY <1>1, <1>2, <1>3, SupplyType
  <2> QED BY <1>1, <1>3, <2>1 DEF Complete, InStepInv, IdleInv, HeadInv, BodyInv
<1>4. CASE need # 1 /\ UNCHANGED <<phase, sock>>
  <2>1. need' > 0 /\ Supply' <= need'
    BY <1>0, <1>1, <1>2, <1>4, SupplyType DEF TypeOK
  <2>2. BodiesOnly(toEngine, 2)
    BY <1>1, SupplyType DEF BodiesOnly
  <2>3. BodiesOnly(Tail(toEngine), 1)
    BY <1>0, <2>2, BodiesTail DEF TypeOK
  <2>4. BodiesOnly(toEngine, 1)' /\ BodiesOnly(hostPay, 1)'
    BY <1>0, <1>1, <2>3 DEF BodiesOnly
  <2> QED BY <1>0, <1>1, <1>4, <2>1, <2>4 DEF InStepInv, IdleInv, HeadInv, BodyInv
<1> QED BY <1>0, <1>3, <1>4

\* Giving up, closing and another dial leave the exchange in step.
LEMMA EngineRestKeeps ==
  ASSUME TypeOK, InStepInv, PeerGone \/ DeadlineExpires \/ Close \/ OtherDial
  PROVE  InStepInv'
<1>1. CASE PeerGone \/ DeadlineExpires
  BY <1>1, FailKeeps DEF PeerGone, DeadlineExpires, FailCall
<1>2. CASE Close
  BY <1>2 DEF Close, InStepInv, IdleInv, HeadInv, BodyInv
<1>3. CASE OtherDial
  BY <1>3 DEF OtherDial, channelVars, hostVars, InStepInv, IdleInv, HeadInv, BodyInv, Supply
<1> QED BY <1>1, <1>2, <1>3

\* Serving a frame: what the invariant says of it.
LEMMA ServeContext ==
  ASSUME TypeOK, InStepInv, Serve
  PROVE  /\ UNCHANGED <<phase, sock, call, made, need>>
         /\ \/ phase = "idle" /\ sock # "open"
            \/ /\ phase = "head" /\ sock = "open"
               /\ toHost # <<>> /\ toHost' = <<>> /\ toEngine = <<>> /\ hostPay = <<>>
               /\ Head(toHost).req = made
               /\ Head(toHost).frame = call.op /\ Head(toHost).c = call
<1>1. toHost # <<>> /\ toHost' = Tail(toHost) /\ UNCHANGED <<phase, sock, call, made, need>>
  BY DEF Serve, engineVars
<1>2. CASE phase = "head"
  <2>1. /\ sock = "open" /\ Supply = 0 /\ Len(toHost) = 1
        /\ toHost[1].frame = call.op /\ toHost[1].c = call /\ toHost[1].req = made
    BY <1>1, <1>2 DEF InStepInv, HeadInv
  <2>2. toEngine = <<>> /\ hostPay = <<>>
    BY <2>1, SupplyType
  <2>3. Head(toHost) = toHost[1] /\ Len(Tail(toHost)) = 0 /\ Tail(toHost) \in Seq(Frame)
    BY <1>1, <2>1, TailQueue, QueueTypes DEF TypeOK
  <2>4. toHost' = <<>>
    BY <1>1, <2>3, EmptyQueue
  <2> QED BY <1>1, <1>2, <2>1, <2>2, <2>3, <2>4
<1>3. CASE phase = "idle"
  BY <1>1, <1>3 DEF InStepInv, IdleInv
<1>4. phase # "body"
  BY <1>1 DEF InStepInv, BodyInv
<1> QED BY <1>1, <1>2, <1>3, <1>4 DEF TypeOK

\* A reply queued for the one outstanding request leaves the exchange in step.
LEMMA ReplyKeeps ==
  ASSUME TypeOK, NEW v \in Int, NEW payload \in Seq(Int), Reply(v, payload),
         phase = "head", sock = "open", toHost # <<>>, toHost' = <<>>, toEngine = <<>>,
         Head(toHost).req = made, UNCHANGED <<phase, sock, call, made, need>>,
         call.op # "R" => Len(payload) = 0,
         call.op = "R" => \/ v = ReadFailed /\ Len(payload) = 0
                          \/ v \in Len(payload)..(Wrap - 1)
  PROVE  InStepInv'
<1> DEFINE head == [val |-> v, req |-> made, part |-> "head"]
<1>1. toEngine' = Append(toEngine, head)
  BY DEF Reply
<1>2. Len(toEngine') = 1 /\ toEngine'[1] = head
  BY <1>1
<1>3. Len(hostPay') = Len(payload) /\ Supply' = 1 + Len(payload)
  <2>1. Len(hostPay') = Len(payload)
    BY DEF Reply
  <2> QED BY <1>2, <2>1 DEF Supply
<1>4. BodiesOnly(toEngine, 2)'
  BY <1>2 DEF BodiesOnly
<1>5. BodiesOnly(hostPay, 1)'
  <2>1. \A i \in 1..Len(payload) : hostPay'[i].req = made /\ hostPay'[i].part = "body"
    BY DEF Reply
  <2> QED BY <1>3, <2>1 DEF BodiesOnly
<1>6. Wrap \in Nat /\ Len(payload) \in Nat
  BY SessionAssumption
<1>7. HeadInv'
  <2>1. toEngine'[1].val = v /\ toEngine'[1].req = made' /\ toEngine'[1].part = "head"
    BY <1>2
  <2>2. toEngine' # <<>>
    <3>1. head \in Reply_
      BY DEF Reply_, TypeOK
    <3> QED BY <1>1, <3>1, AppendQueue DEF TypeOK
  <2>3. call'.op # "R" => Supply' = 1
    BY <1>3
  <2>4. call'.op = "R" =>
          \/ toEngine'[1].val = ReadFailed /\ Supply' = 1
          \/ toEngine'[1].val \in (Supply' - 1)..(Wrap - 1)
    BY <1>3, <1>6, <2>1
  <2> QED BY <1>4, <1>5, <2>1, <2>2, <2>3, <2>4 DEF HeadInv
<1> QED BY <1>7 DEF InStepInv, IdleInv, BodyInv

\* A session that ends with nothing on the wire leaves the call to fail.
LEMMA EndsKeeps ==
  ASSUME TypeOK, HostEnds, UNCHANGED toEngine, phase = "head", sock = "open",
         toHost' = <<>>, toEngine = <<>>, UNCHANGED <<phase, sock, call, made, need>>
  PROVE  InStepInv'
<1>1. hostPay' = <<>> /\ toEngine' = <<>>
  BY DEF HostEnds
<1> QED BY <1>1 DEF InStepInv, IdleInv, HeadInv, BodyInv

\* Serving a request, whichever it is, leaves the exchange in step.
LEMMA ServeKeeps == ASSUME TypeOK, InStepInv, Serve PROVE InStepInv'
<1> DEFINE q == Head(toHost)
<1>1. CASE phase = "idle" /\ sock # "open"
  BY <1>1, ServeContext DEF InStepInv, IdleInv, HeadInv, BodyInv
<1>2. CASE phase = "head"
  <2>0. /\ sock = "open" /\ toHost # <<>> /\ toHost' = <<>> /\ toEngine = <<>>
        /\ q.req = made /\ q.frame = call.op /\ q.c = call
        /\ UNCHANGED <<phase, sock, call, made, need>>
    BY <1>2, ServeContext
  <2>1. \/ HostEnds /\ UNCHANGED toEngine
        \/ call.op = "R" /\ ServeRead(call)
        \/ call.op = "W" /\ (ServeWrite(call) \/ ServeWriteFails(call))
        \/ call.op = "S" /\ ServeSeek(call)
        \/ call.op = "Z" /\ ServeSize
    <3>1. \/ HostEnds /\ UNCHANGED toEngine
          \/ q.frame = "R" /\ ServeRead(q.c)
          \/ q.frame = "W" /\ (ServeWrite(q.c) \/ ServeWriteFails(q.c))
          \/ q.frame = "S" /\ ServeSeek(q.c)
          \/ q.frame = "Z" /\ ServeSize
      BY Zenon DEF Serve
    <3> QED BY <2>0, <3>1
  <2>2. HostEnds /\ UNCHANGED toEngine => InStepInv'
    BY <1>2, <2>0, EndsKeeps
  <2>3. <<>> \in Seq(Int) /\ Len(<<>>) = 0
    OBVIOUS
  <2>4. \A v \in Int : call.op # "R" /\ Reply(v, <<>>) => InStepInv'
    BY <1>2, <2>0, <2>3, ReplyKeeps
  <2>5. CASE call.op = "R" /\ ServeRead(call)
    <3> DEFINE data == BytesAt(file, pos, call.n)
               over == cfg.faults.overstateReadBy
    <3>1. call.n \in 1..MaxSize
      BY <2>5, CallTypes DEF TypeOK, NoCall
    <3>2. Wrap \in Nat /\ MaxSize \in Nat /\ Wrap > 2 * MaxSize
      BY SessionAssumption
    <3>3. data \in Seq(Int) /\ Len(data) <= call.n
      BY <3>1, <3>2, BytesAtType DEF TypeOK
    <3>4. over \in 0..(Wrap - MaxSize - 1)
      BY FaultTypes
    <3> HIDE DEF data, over
    <3>5. \/ HostEnds /\ UNCHANGED toEngine
          \/ Reply(ReadFailed, <<>>)
          \/ Reply(Len(data) + over, data)
      BY <2>5, Zenon DEF ServeRead, data, over
    <3>6. CASE Reply(ReadFailed, <<>>)
      <4>1. ReadFailed \in Int
        BY DEF ReadFailed
      <4> QED BY <1>2, <2>0, <2>3, <2>5, <3>6, <4>1, ReplyKeeps
    <3>7. CASE Reply(Len(data) + over, data)
      <4>1. Len(data) \in Nat
        BY <3>3
      <4>2. Len(data) + over \in Len(data)..(Wrap - 1) /\ Len(data) + over \in Int
        BY <3>1, <3>2, <3>3, <3>4, <4>1
      <4> QED BY <1>2, <2>0, <2>5, <3>3, <3>7, <4>2, ReplyKeeps
    <3> QED BY <2>2, <3>5, <3>6, <3>7
  <2>6. CASE call.op = "W" /\ (ServeWrite(call) \/ ServeWriteFails(call))
    <3>1. call.data \in Seq(Int)
      BY CallFacts
    <3>2. CASE ServeWrite(call)
      <4>1. PICK v \in Int : Reply(v, <<>>)
        BY <3>1, <3>2, FaultTypes DEF ServeWrite
      <4> QED BY <2>4, <2>6, <4>1
    <3>3. CASE ServeWriteFails(call)
      BY <2>2, <3>3, Zenon DEF ServeWriteFails
    <3> QED BY <2>6, <3>2, <3>3
  <2>7. CASE call.op = "S" /\ ServeSeek(call)
    <3>1. SeekTarget(file, pos, call.n, call.whence) \in Int
      BY CallFacts DEF SeekTarget, TypeOK
    <3>2. \/ HostEnds /\ UNCHANGED toEngine
          \/ Reply(SeekTarget(file, pos, call.n, call.whence), <<>>)
      BY <2>7, Zenon DEF ServeSeek
    <3> QED BY <2>2, <2>4, <2>7, <3>1, <3>2
  <2>8. CASE call.op = "Z" /\ ServeSize
    <3>1. Len(file) \in Int
      BY DEF TypeOK
    <3> QED BY <2>4, <2>8, <3>1 DEF ServeSize
  <2> QED BY <2>1, <2>2, <2>5, <2>6, <2>7, <2>8
<1> QED BY <1>1, <1>2, ServeContext

\* Sending payload, reaching the end of the stream and vanishing leave the exchange in step.
LEMMA HostRestKeeps ==
  ASSUME TypeOK, InStepInv, SendPayload \/ HostSeesEOF \/ HostVanishes
  PROVE  InStepInv'
<1>0. UNCHANGED <<phase, sock, call, made, need, toHost>>
  BY DEF SendPayload, HostSeesEOF, HostVanishes, engineVars, channelVars
<1>1. CASE SendPayload /\ sock = "open"
  <2>1. /\ hostPay # <<>>
        /\ toEngine' = Append(toEngine, Head(hostPay)) /\ hostPay' = Tail(hostPay)
    BY <1>1 DEF SendPayload
  <2>2. /\ toEngine \in Seq(Reply_) /\ hostPay \in Seq(Reply_) /\ Head(hostPay) \in Reply_
    BY <2>1, QueueTypes DEF TypeOK
  <2>3. Supply' = Supply /\ Supply # 0
    <3>1. /\ Len(toEngine') = Len(toEngine) + 1 /\ Len(hostPay') = Len(hostPay) - 1
      BY <2>1, <2>2, AppendQueue, TailQueue
    <3> QED BY <2>1, <3>1, SupplyType DEF Supply
  <2>4. BodiesOnly(hostPay, 1) =>
          /\ Head(hostPay).req = made /\ Head(hostPay).part = "body"
          /\ BodiesOnly(hostPay, 1)'
    <3> SUFFICES ASSUME BodiesOnly(hostPay, 1)
                 PROVE  /\ Head(hostPay).req = made /\ Head(hostPay).part = "body"
                        /\ BodiesOnly(hostPay, 1)'
      OBVIOUS
    <3>1. Len(hostPay) > 0 /\ Head(hostPay) = hostPay[1] /\ Len(hostPay) \in Nat
      BY <2>1, <2>2, TailQueue
    <3>2. BodiesOnly(hostPay, 2)
      BY <3>1 DEF BodiesOnly
    <3>3. BodiesOnly(Tail(hostPay), 1)
      BY <2>1, <2>2, <3>2, BodiesTail
    <3> QED BY <1>0, <2>1, <3>1, <3>3 DEF BodiesOnly
  <2>5. CASE phase = "head"
    <3>1. /\ toEngine # <<>> /\ toHost = <<>>
          /\ toEngine[1].req = made /\ toEngine[1].part = "head"
          /\ BodiesOnly(toEngine, 2) /\ BodiesOnly(hostPay, 1)
      BY <2>1, <2>3, <2>5 DEF InStepInv, HeadInv
    <3>2. Len(toEngine) > 0 /\ Len(toEngine) \in Nat
      BY <2>2, <3>1, TailQueue
    <3>3. toEngine'[1] = toEngine[1] /\ toEngine' # <<>>
      BY <2>1, <2>2, <3>2, AppendQueue
    <3>4. BodiesOnly(toEngine', 2)
      BY <2>1, <2>2, <2>4, <3>1, <3>2, BodiesAppend
    <3>5. BodiesOnly(toEngine, 2)'
      BY <1>0, <3>4 DEF BodiesOnly
    <3> QED BY <1>0, <2>3, <2>4, <2>5, <3>1, <3>3, <3>5 DEF InStepInv, IdleInv, HeadInv, BodyInv
  <2>6. CASE phase = "body"
    <3>1. BodiesOnly(toEngine, 1) /\ BodiesOnly(hostPay, 1)
      BY <2>6 DEF InStepInv, BodyInv
    <3>2. BodiesOnly(toEngine', 1)
      BY <2>1, <2>2, <2>4, <3>1, SupplyType, BodiesAppend
    <3>3. BodiesOnly(toEngine, 1)'
      BY <1>0, <3>2 DEF BodiesOnly
    <3> QED BY <1>0, <2>3, <2>4, <2>6, <3>1, <3>3 DEF InStepInv, IdleInv, HeadInv, BodyInv
  <2>7. phase # "idle"
    BY <1>1, <2>3 DEF InStepInv, IdleInv
  <2> QED BY <2>5, <2>6, <2>7 DEF TypeOK
<1>2. CASE HostEnds /\ UNCHANGED toEngine
  <2>1. hostPay' = <<>> /\ Len(hostPay') = 0 /\ toEngine' = toEngine
    BY <1>2 DEF HostEnds
  <2>2. Supply' = Len(toEngine) /\ Supply' <= Supply
    BY <2>1, SupplyType DEF Supply
  <2>3. BodiesOnly(hostPay, 1)' /\ \A from \in 1..2 : BodiesOnly(toEngine, from) => BodiesOnly(toEngine, from)'
    BY <1>0, <2>1 DEF BodiesOnly
  <2>4. toEngine # <<>> => Supply' >= 1
    BY <2>2, SupplyType, EmptyQueue DEF TypeOK
  <2>5. IdleInv'
    BY <1>0, <2>2, SupplyType DEF InStepInv, IdleInv
  <2>6. HeadInv'
    BY <1>0, <2>1, <2>2, <2>3, <2>4, SupplyType DEF InStepInv, HeadInv
  <2>7. BodyInv'
    BY <1>0, <2>2, <2>3, SupplyType DEF InStepInv, BodyInv, TypeOK
  <2> QED BY <2>5, <2>6, <2>7 DEF InStepInv
<1>3. \/ SendPayload /\ sock = "open"
      \/ HostEnds /\ UNCHANGED toEngine
  BY DEF SendPayload, HostSeesEOF, HostVanishes, channelVars
<1> QED BY <1>1, <1>2, <1>3
-----------------------------------------------------------------------------
(* The theorems *)

\* A session starts idle.
LEMMA InStepInvInit == Init => InStepInv
<1> SUFFICES ASSUME Init PROVE InStepInv
  OBVIOUS
<1>1. Len(<<>>) = 0
  OBVIOUS
<1>2. phase = "idle" /\ toHost = <<>> /\ Supply = 0
  BY <1>1 DEF Init, Supply
<1> QED BY <1>2 DEF InStepInv, IdleInv, HeadInv, BodyInv

\* Every step leaves the exchange in step.
LEMMA InStepInvNext == TypeOK /\ InStepInv /\ [Next]_vars => InStepInv'
<1> SUFFICES ASSUME TypeOK, InStepInv, [Next]_vars PROVE InStepInv'
  OBVIOUS
<1>1. CASE SendRequest
  BY <1>1, SendRequestKeeps
<1>2. CASE EngineStep
  BY <1>2, RecvHeadKeeps, RecvByteKeeps, EngineRestKeeps DEF EngineStep
<1>3. CASE Close \/ OtherDial
  BY <1>3, EngineRestKeeps
<1>4. CASE HostStep \/ HostVanishes
  BY <1>4, ServeKeeps, HostRestKeeps DEF HostStep
<1>5. CASE UNCHANGED vars
  BY <1>5 DEF vars, engineVars, channelVars, hostVars,
              InStepInv, IdleInv, HeadInv, BodyInv, Supply, BodiesOnly
<1> QED BY <1>1, <1>2, <1>3, <1>4, <1>5 DEF Next

\* Whatever the host does and however late its replies are, the engine never
\* reads bytes of one reply as another's, nor payload as a header: afio_fail's
\* shutdown is enough (nativeio.c 140-165).
THEOREM RepliesStayInStep == Spec => []InStep
<1>1. TypeOK /\ InStepInv => InStep
  <2> SUFFICES ASSUME TypeOK, InStepInv, phase # "idle", toEngine # <<>>
               PROVE  Head(toEngine).req = made /\ Head(toEngine).part = phase
    BY DEF InStep
  <2>1. Head(toEngine) = toEngine[1] /\ Len(toEngine) > 0
    BY TailQueue DEF TypeOK
  <2>2. CASE phase = "head"
    BY <2>1, <2>2 DEF InStepInv, HeadInv
  <2>3. CASE phase = "body"
    BY <2>1, <2>3, SupplyType DEF InStepInv, BodyInv, BodiesOnly
  <2> QED BY <2>2, <2>3 DEF TypeOK
<1> QED BY <1>1, InStepInvInit, InStepInvNext, TypeCorrect, PTL DEF Spec

\* A failure shuts the socket and leaves no call in progress.
GivenUp == ret.st = "failed" => phase = "idle" /\ sock # "open"

\* The steps that complete a call start from an unfinished one, so they cannot
\* follow a failure.
LEMMA GivenUpNext == GivenUp /\ [Next]_vars => GivenUp' /\ (ret.st = "failed" => ret'.st = "failed")
<1> SUFFICES ASSUME GivenUp, [Next]_vars
             PROVE  GivenUp' /\ (ret.st = "failed" => ret'.st = "failed")
  OBVIOUS
<1> USE DEF GivenUp, Failed
<1>1. ASSUME NEW c, afio_fail(c) PROVE GivenUp' /\ ret'.st = "failed"
  BY <1>1 DEF afio_fail
<1>2. CASE SendRequest
  <2>1. \/ sock = "open" /\ UNCHANGED <<sock, ret>>
        \/ \E c : afio_fail(c)
    BY <1>2, Zenon DEF SendRequest
  <2> QED BY <1>1, <2>1
<1>3. CASE RecvHead
  <2>1. phase = "head"
    BY <1>3 DEF RecvHead
  <2>2. \/ \E v, d : Complete("ok", v, d) \/ Complete("eof", v, d)
        \/ UNCHANGED ret
        \/ afio_fail(call)
    BY <1>3, Zenon DEF RecvHead, ReadHead, WriteHead, SeekHead, FailCall
  <2>3. CASE \E v, d : Complete("ok", v, d) \/ Complete("eof", v, d)
    BY <2>1, <2>3 DEF Complete
  <2>4. CASE UNCHANGED ret
    BY <2>1, <2>4
  <2> QED BY <1>1, <2>2, <2>3, <2>4
<1>4. CASE RecvByte
  BY <1>4 DEF RecvByte, Complete
<1>5. CASE PeerGone \/ DeadlineExpires
  BY <1>1, <1>5 DEF PeerGone, DeadlineExpires, FailCall
<1>6. CASE Close
  <2>1. phase = "idle" /\ phase' = phase /\ sock' = "closed"
    BY <1>6 DEF Close
  <2>2. sock # "open" => ret' = Failed
    BY <1>6, Zenon DEF Close
  <2> QED BY <2>1, <2>2
<1>7. CASE OtherDial \/ HostStep \/ HostVanishes \/ UNCHANGED vars
  <2>1. UNCHANGED <<phase, sock, ret>>
    BY <1>7 DEF OtherDial, HostStep, Serve, SendPayload, HostSeesEOF, HostVanishes, engineVars, vars
  <2> QED BY <2>1
<1> QED BY <1>2, <1>3, <1>4, <1>5, <1>6, <1>7 DEF Next, EngineStep

\* Once a call has failed no later call and no close succeeds: the job cannot
\* go on over a hole (nativeio.c 358-361, 445-455).
THEOREM FailuresAreFinal == Spec => FailureIsFinal
<1>1. Init => GivenUp
  BY DEF Init, Nothing, GivenUp
<1>2. GivenUp /\ [Next]_vars => [ret.st = "failed" => ret'.st = "failed"]_ret
  BY GivenUpNext
<1> QED BY <1>1, <1>2, GivenUpNext, PTL DEF Spec, FailureIsFinal

-----------------------------------------------------------------------------
(* The invariant: where file and position are ahead of the engine's picture *)

Same == file = seen /\ pos = seenPos

\* Nothing was done for a call whose request is not yet taken.
RequestInv == (phase = "idle" /\ sock = "open") \/ (phase = "head" /\ toHost # <<>>) => Same

\* The reply to a call, the whole of it still on its way: the host is ahead by
\* what the call does, and the header says by how much.
ReplyInv ==
  phase = "head" /\ toHost = <<>> /\ toEngine # <<>> =>
    LET v == toEngine[1].val IN
    /\ call.op # "W" => file = seen
    /\ call.op = "R" /\ v = Supply - 1 => pos = seenPos + v
    /\ call.op = "W" => /\ file = Written(seen, seenPos, call.data)
                        /\ pos = seenPos + Len(call.data)
                        /\ v \in 0..Len(call.data)
    /\ call.op = "S" => pos = v
    /\ call.op = "Z" => pos = seenPos

\* The rest of a read, as long as all of it can still arrive.
PayloadInv ==
  phase = "body" =>
    call.op = "R" /\ file = seen /\ (Supply = need => pos = seenPos + Len(buf) + need)

AwaitedInv == phase # "idle" => call # NoCall /\ (phase = "head" => buf = <<>>)

\* Nothing but the Close can follow a successful close.
ClosedInv ==
  ret.st = "closed" =>
    /\ sock = "closed" /\ phase = "idle" /\ file = seen
    /\ \A i \in 1..Len(toHost) : toHost[i].frame = "C"

PictureInv == AwaitedInv /\ RequestInv /\ ReplyInv /\ PayloadInv /\ ClosedInv

USE DEF AwaitedInv, RequestInv, ReplyInv, PayloadInv, ClosedInv

\* A failed call leaves nothing to say: the session is no longer open.
LEMMA FailPicture == ASSUME NEW c, afio_fail(c) PROVE PictureInv'
  BY DEF afio_fail, Failed, PictureInv

\* A call begins with the picture exact.
LEMMA SendRequestPicture == ASSUME TypeOK, InStepInv, PictureInv, SendRequest PROVE PictureInv'
<1>1. PICK c \in CallsOf(cfg.mode, made + 1) :
        /\ phase = "idle" /\ sock # "closed" /\ made < MaxCalls
        /\ call' = c /\ buf' = <<>>
        /\ UNCHANGED <<toEngine, file, pos, seen, seenPos>>
        /\ \/ sock = "open" /\ phase' = "head" /\ UNCHANGED <<sock, ret>>
           \/ afio_fail(c)
  BY Zenon DEF SendRequest
<1>2. CASE afio_fail(c)
  BY <1>2, FailPicture
<1>3. CASE sock = "open" /\ phase' = "head" /\ UNCHANGED <<sock, ret>>
  <2>1. Same /\ toEngine = <<>>
    BY <1>1, <1>3, SupplyType DEF PictureInv, InStepInv, IdleInv
  <2>2. c # NoCall
    <3>1. made + 1 \in 1..MaxCalls
      BY <1>1, SessionAssumption DEF TypeOK
    <3>2. c.op # "none"
      BY <1>1, <3>1, CallsOfType, CallTypes
    <3> QED BY <3>2 DEF NoCall
  <2>3. ret.st # "closed"
    BY <1>3 DEF PictureInv
  <2> QED BY <1>1, <1>3, <2>1, <2>2, <2>3 DEF PictureInv, Same
<1> QED BY <1>1, <1>2, <1>3

\* What a call is, while its reply is awaited.
LEMMA AwaitedCall ==
  ASSUME TypeOK, PictureInv, phase # "idle"
  PROVE  call \in CallSet /\ call.op \in {"R", "W", "S", "Z"}
<1>1. call \in CallSet
  BY DEF PictureInv, TypeOK
<1> QED BY <1>1, CallTypes

\* What a completed call adds to the picture.
LEMMA Completed ==
  ASSUME NEW st, NEW k, NEW d, Complete(st, k, d)
  PROVE  /\ phase' = "idle" /\ sock' = sock /\ ret' = [st |-> st, val |-> k, data |-> d]
         /\ call.op = "W" => seen' = Written(seen, seenPos, call.data)
         /\ call.op # "W" => seen' = seen
         /\ call.op = "S" => seenPos' = k
         /\ call.op = "Z" => seenPos' = seenPos
         /\ call.op \in {"R", "W"} => seenPos' = seenPos + k
<1>1. /\ phase' = "idle" /\ sock' = sock /\ ret' = [st |-> st, val |-> k, data |-> d]
      /\ call.op = "W" => seen' = Written(seen, seenPos, call.data)
      /\ call.op # "W" => seen' = seen
      /\ call.op = "S" => seenPos' = k
  BY Zenon DEF Complete
<1>2. call.op = "Z" => seenPos' = seenPos
  BY Zenon DEF Complete
<1>3. call.op \in {"R", "W"} => seenPos' = seenPos + k
  BY Zenon DEF Complete
<1> QED BY <1>1, <1>2, <1>3

\* A header that completes a call makes the picture what the host did for it.
LEMMA RecvHeadPicture == ASSUME TypeOK, InStepInv, PictureInv, RecvHead PROVE PictureInv'
<1> DEFINE v == Head(toEngine).val
           n == v % Wrap
<1>0. /\ phase = "head" /\ toEngine # <<>>
      /\ toEngine' = Tail(toEngine)
      /\ UNCHANGED <<call, made, buf, toHost, hostPay, file, pos>>
      /\ \/ call.op = "R" /\ ReadHead(v)
         \/ call.op = "W" /\ WriteHead(v)
         \/ call.op \notin {"R", "W"} /\ SeekHead(v)
  BY DEF RecvHead, hostVars
<1>1. v \in Int /\ n \in Nat /\ v = toEngine[1].val
  <2>1. Head(toEngine) \in Reply_ /\ Head(toEngine) = toEngine[1]
    BY <1>0, QueueTypes, TailQueue DEF TypeOK
  <2>2. v \in Int
    BY <2>1 DEF Reply_
  <2> QED BY <2>1, <2>2, UnsignedType
<1>2. toHost = <<>> /\ Supply' = Supply - 1 /\ Supply > 0 /\ sock = "open"
  <2>1. Len(toEngine') = Len(toEngine) - 1 /\ Len(toEngine) > 0
    BY <1>0, TailQueue DEF TypeOK
  <2>2. Supply > 0
    BY <2>1, SupplyType DEF Supply
  <2>3. toHost = <<>> /\ sock = "open"
    BY <1>0, <2>2 DEF InStepInv, HeadInv
  <2> QED BY <1>0, <2>1, <2>2, <2>3, SupplyType DEF Supply
<1>3. ret.st # "closed" /\ call # NoCall /\ buf = <<>>
  BY <1>0 DEF PictureInv
<1>4. FailCall => PictureInv'
  BY FailPicture DEF FailCall
<1>5. ASSUME NEW st \in {"ok", "eof"}, NEW k, NEW d, Complete(st, k, d), file = seen', pos = seenPos'
      PROVE  PictureInv'
  <2>1. phase' = "idle" /\ sock' = sock /\ ret'.st # "closed"
    BY <1>5, Completed
  <2> QED BY <1>0, <1>5, <2>1 DEF PictureInv, Same
<1>6. Wrap \in Nat /\ MaxSize \in Nat /\ Wrap > 2 * MaxSize
  BY SessionAssumption
<1>7. CASE call.op = "R"
  <2>1. /\ file = seen /\ (v = Supply - 1 => pos = seenPos + v)
    BY <1>0, <1>1, <1>2, <1>7 DEF PictureInv
  <2>2. \/ v = ReadFailed /\ Supply = 1
        \/ v \in (Supply - 1)..(Wrap - 1)
    BY <1>0, <1>1, <1>7 DEF InStepInv, HeadInv
  <2>3. call.n \in 1..MaxSize
    BY <1>7, CallTypes DEF TypeOK, NoCall
  <2> HIDE DEF v
  <2>4. v # ReadFailed => n = v
    BY <1>2, <2>2, <1>6, SupplyType
  <2>5. v = ReadFailed => n > call.n
    BY <2>3, <1>6 DEF ReadFailed
  <2> HIDE DEF n
  <2>6. \/ FailCall
        \/ n = 0 /\ Complete("eof", 0, <<>>)
        \/ n # 0 /\ ~(n > call.n) /\ phase' = "body" /\ need' = n /\ UNCHANGED <<sock, ret, seen, seenPos>>
    BY <1>0, <1>7, Zenon DEF ReadHead, n
  <2>7. CASE n = 0 /\ Complete("eof", 0, <<>>)
    <3>1. v = 0 /\ Supply = 1 /\ pos = seenPos
      BY <1>2, <2>1, <2>2, <2>3, <2>4, <2>5, <2>7, SupplyType DEF TypeOK
    <3>2. file = seen' /\ pos = seenPos'
      BY <1>0, <1>7, <2>1, <2>7, <3>1, Completed DEF TypeOK
    <3> QED BY <1>5, <2>7, <3>2
  <2>8. CASE n # 0 /\ ~(n > call.n) /\ phase' = "body" /\ need' = n /\ UNCHANGED <<sock, ret, seen, seenPos>>
    <3>1. n = v
      BY <2>4, <2>5, <2>8
    <3>2. Supply' = need' => pos = seenPos + need'
      BY <1>2, <2>1, <2>8, <3>1, SupplyType
    <3>3. Len(buf') = 0
      BY <1>0, <1>3
    <3>4. seenPos \in Int /\ need' \in Int
      BY <1>1, <2>8 DEF TypeOK
    <3>5. Supply' = need' => pos' = seenPos' + Len(buf') + need'
      BY <1>0, <2>8, <3>2, <3>3, <3>4
    <3> QED BY <1>0, <1>3, <1>7, <2>1, <2>8, <3>5 DEF PictureInv
  <2> QED BY <1>4, <2>6, <2>7, <2>8
<1>8. CASE call.op = "W"
  <2>1. /\ file = Written(seen, seenPos, call.data) /\ pos = seenPos + Len(call.data)
        /\ v \in 0..Len(call.data)
    BY <1>0, <1>1, <1>2, <1>8 DEF PictureInv
  <2>2. Len(call.data) \in 1..MaxSize
    BY <1>0, <1>8, AwaitedCall, CallTypes
  <2>3. n = v
    BY <2>1, <2>2, <1>6
  <2>4. FailCall \/ (n = Len(call.data) /\ Complete("ok", v, <<>>))
    BY <1>0, <1>8, Zenon DEF WriteHead
  <2>5. CASE n = Len(call.data) /\ Complete("ok", v, <<>>)
    <3>1. file = seen' /\ pos = seenPos'
      BY <1>0, <1>8, <2>1, <2>2, <2>3, <2>5, Completed
    <3> QED BY <1>5, <2>5, <3>1
  <2> QED BY <1>4, <2>4, <2>5
<1>9. CASE call.op \in {"S", "Z"}
  <2>1. Complete("ok", v, <<>>)
    BY <1>0, <1>9 DEF SeekHead
  <2>2. /\ file = seen /\ (call.op = "S" => pos = v) /\ (call.op = "Z" => pos = seenPos)
    BY <1>0, <1>1, <1>2, <1>9 DEF PictureInv
  <2>3. file = seen' /\ pos = seenPos'
    BY <1>0, <1>9, <2>1, <2>2, Completed
  <2> QED BY <1>5, <2>1, <2>3
<1> QED BY <1>0, <1>7, <1>8, <1>9, AwaitedCall

\* The last byte of a read is the last the host was ahead by.
LEMMA RecvBytePicture == ASSUME TypeOK, InStepInv, PictureInv, RecvByte PROVE PictureInv'
<1>0. /\ phase = "body" /\ toEngine # <<>>
      /\ toEngine' = Tail(toEngine) /\ need' = need - 1
      /\ buf' = Append(buf, Head(toEngine).val)
      /\ UNCHANGED <<call, toHost, hostPay, file, pos>>
      /\ \/ need = 1 /\ Complete("ok", Len(buf'), buf')
         \/ need # 1 /\ UNCHANGED <<phase, sock, ret, seen, seenPos>>
  BY DEF RecvByte, hostVars
<1>1. /\ call.op = "R" /\ call # NoCall /\ file = seen /\ need > 0 /\ Supply <= need
      /\ (Supply = need => pos = seenPos + Len(buf) + need)
      /\ ret.st # "closed"
  BY <1>0 DEF PictureInv, InStepInv, BodyInv
<1>2. Supply' = Supply - 1 /\ Supply > 0
  <2>1. Len(toEngine') = Len(toEngine) - 1 /\ Len(toEngine) > 0
    BY <1>0, TailQueue DEF TypeOK
  <2> QED BY <1>0, <2>1, SupplyType DEF Supply
<1>3. Len(buf') = Len(buf) + 1 /\ Len(buf) \in Nat
  <2>1. Head(toEngine).val \in Int
    <3>1. Head(toEngine) \in Reply_
      BY <1>0, QueueTypes DEF TypeOK
    <3> QED BY <3>1 DEF Reply_
  <2> QED BY <1>0, <2>1, AppendQueue DEF TypeOK
<1>4. need \in Int /\ seenPos \in Int
  BY DEF TypeOK
<1>5. CASE need = 1 /\ Complete("ok", Len(buf'), buf')
  <2>1. Supply = need
    BY <1>1, <1>2, <1>5, SupplyType
  <2>2. file = seen' /\ pos = seenPos'
    BY <1>1, <1>3, <1>4, <1>5, <2>1, Completed
  <2>3. phase' = "idle" /\ sock' = sock /\ ret'.st # "closed"
    BY <1>5, Completed
  <2> QED BY <1>0, <2>2, <2>3 DEF PictureInv, Same
<1>6. CASE need # 1 /\ UNCHANGED <<phase, sock, ret, seen, seenPos>>
  <2>1. Supply' = need' => pos = seenPos + Len(buf') + need'
    BY <1>0, <1>1, <1>2, <1>3, <1>4, SupplyType
  <2> QED BY <1>0, <1>1, <1>6, <2>1 DEF PictureInv
<1> QED BY <1>0, <1>5, <1>6

\* Giving up says nothing of the file, another dial does not touch it, and a
\* close that succeeds comes when there is nothing on the wire.
LEMMA EngineRestPicture ==
  ASSUME TypeOK, InStepInv, PictureInv, PeerGone \/ DeadlineExpires \/ Close \/ OtherDial
  PROVE  PictureInv'
<1>1. CASE PeerGone \/ DeadlineExpires
  BY <1>1, FailPicture DEF PeerGone, DeadlineExpires, FailCall
<1>2. CASE Close
  <2>1. /\ phase = "idle" /\ phase' = "idle" /\ sock' = "closed"
        /\ UNCHANGED <<file, seen>>
        /\ \/ /\ sock = "open"
              /\ toHost' = Append(toHost, [frame |-> "C", c |-> call, req |-> made])
           \/ ret'.st # "closed"
    BY <1>2, Zenon DEF Close, hostVars, Failed
  <2>2. CASE /\ sock = "open"
             /\ toHost' = Append(toHost, [frame |-> "C", c |-> call, req |-> made])
    <3>1. toHost = <<>> /\ file = seen
      BY <2>1, <2>2 DEF InStepInv, IdleInv, PictureInv, Same
    <3>2. \A i \in 1..Len(toHost') : toHost'[i].frame = "C"
      BY <2>2, <3>1
    <3> QED BY <2>1, <3>1, <3>2 DEF PictureInv
  <2>3. CASE ret'.st # "closed"
    BY <2>1, <2>3 DEF PictureInv
  <2> QED BY <2>1, <2>2, <2>3
<1>3. CASE OtherDial
  BY <1>3 DEF OtherDial, channelVars, hostVars, PictureInv, Same, Supply
<1> QED BY <1>1, <1>2, <1>3

\* A reply that goes out leaves the host ahead by what it did.
LEMMA ReplyPicture ==
  ASSUME TypeOK, PictureInv, NEW v \in Int, NEW payload \in Seq(Int), Reply(v, payload),
         phase = "head", sock = "open", toHost # <<>>, toHost' = <<>>, toEngine = <<>>,
         UNCHANGED <<phase, sock, call, buf, ret, seen, seenPos>>,
         call.op # "W" => file' = seen,
         call.op = "R" /\ v = Len(payload) => pos' = seenPos + v,
         call.op = "W" => /\ file' = Written(seen, seenPos, call.data)
                          /\ pos' = seenPos + Len(call.data)
                          /\ v \in 0..Len(call.data),
         call.op = "S" => pos' = v,
         call.op = "Z" => pos' = seenPos
  PROVE  PictureInv'
<1>1. /\ toEngine' = Append(toEngine, [val |-> v, req |-> Head(toHost).req, part |-> "head"])
      /\ hostPay' = [i \in DOMAIN payload |->
                       [val |-> payload[i], req |-> Head(toHost).req, part |-> "body"]]
  BY DEF Reply
<1>2. Len(toEngine') = 1 /\ toEngine'[1].val = v
  BY <1>1
<1>3. Supply' - 1 = Len(payload)
  <2>1. Len(hostPay') = Len(payload) /\ Len(payload) \in Nat
    BY <1>1
  <2> QED BY <1>2, <2>1 DEF Supply
<1>4. AwaitedInv' /\ ClosedInv'
  BY DEF PictureInv
<1>5. ReplyInv'
  BY <1>2, <1>3
<1> QED BY <1>4, <1>5 DEF PictureInv

\* Serving the one outstanding request, whichever it is, does it once.
LEMMA ServePicture == ASSUME TypeOK, InStepInv, PictureInv, Serve PROVE PictureInv'
<1> DEFINE q == Head(toHost)
<1>0. UNCHANGED <<phase, sock, call, buf, ret, seen, seenPos>>
  BY DEF Serve, engineVars
<1>a. \/ HostEnds /\ UNCHANGED <<toEngine, file, pos>> /\ q.frame \in {"C", "partial"}
      \/ q.frame = "R" /\ ServeRead(q.c)
      \/ q.frame = "W" /\ (ServeWrite(q.c) \/ ServeWriteFails(q.c))
      \/ q.frame = "S" /\ ServeSeek(q.c)
      \/ q.frame = "Z" /\ ServeSize
  BY Zenon DEF Serve
<1>1. CASE phase = "idle" /\ sock # "open"
  <2>1. CASE ret.st # "closed"
    BY <1>0, <1>1, <2>1 DEF PictureInv
  <2>2. CASE ret.st = "closed"
    <3>1. toHost # <<>> /\ toHost' = Tail(toHost)
      BY DEF Serve
    <3>2. /\ q = toHost[1] /\ Len(toHost) > 0 /\ Len(toHost) \in Nat
          /\ Len(toHost') = Len(toHost) - 1
          /\ \A i \in 1..Len(toHost') : toHost'[i] = toHost[i + 1]
      BY <3>1, TailQueue DEF TypeOK
    <3>3. file = seen /\ \A i \in 1..Len(toHost) : toHost[i].frame = "C"
      BY <2>2 DEF PictureInv
    <3>4. q.frame = "C" /\ \A i \in 1..Len(toHost') : toHost'[i].frame = "C"
      BY <3>2, <3>3
    <3>5. file' = file
      BY <1>a, <3>4
    <3> QED BY <1>0, <1>1, <2>2, <3>3, <3>4, <3>5 DEF PictureInv
  <2> QED BY <2>1, <2>2
<1>2. CASE phase = "head"
  <2>0. /\ sock = "open" /\ toHost # <<>> /\ toHost' = <<>> /\ toEngine = <<>>
        /\ q.frame = call.op /\ q.c = call
    BY <1>2, ServeContext
  <2>1. /\ Same /\ call # NoCall /\ buf = <<>> /\ ret.st # "closed"
        /\ call \in CallSet /\ call.op \in {"R", "W", "S", "Z"}
    BY <1>2, <2>0, AwaitedCall DEF PictureInv
  <2>2. HostEnds /\ UNCHANGED toEngine => PictureInv'
    BY <1>0, <1>2, <2>0, <2>1 DEF PictureInv
  <2>3. <<>> \in Seq(Int) /\ Len(<<>>) = 0
    OBVIOUS
  <2>4. CASE call.op = "R" /\ ServeRead(call)
    <3> DEFINE data == BytesAt(file, pos, call.n)
               over == cfg.faults.overstateReadBy
    <3>1. call.n \in Nat /\ over \in Nat
      <4>1. call.n \in 1..MaxSize /\ MaxSize \in Nat
        BY <2>1, <2>4, CallTypes, SessionAssumption
      <4> QED BY <4>1, FaultTypes
    <3>2. data \in Seq(Int)
      BY <3>1, BytesAtType DEF TypeOK
    <3> HIDE DEF data, over
    <3>3. /\ file' = file
          /\ \/ HostEnds /\ UNCHANGED toEngine
             \/ Reply(ReadFailed, <<>>)
             \/ Reply(Len(data) + over, data) /\ pos' = pos + Len(data)
      BY <2>4, Zenon DEF ServeRead, data, over
    <3>4. CASE Reply(ReadFailed, <<>>)
      <4>1. ReadFailed \in Int /\ ReadFailed # 0
        BY DEF ReadFailed
      <4> QED BY <1>0, <1>2, <2>0, <2>1, <2>3, <2>4, <3>3, <3>4, <4>1, ReplyPicture DEF Same
    <3>5. CASE Reply(Len(data) + over, data) /\ pos' = pos + Len(data)
      <4>1. Len(data) + over \in Int /\ (Len(data) + over = Len(data) => pos' = seenPos + (Len(data) + over))
        <5>1. Len(data) \in Nat
          BY <3>2
        <5>2. pos' = seenPos + Len(data)
          BY <2>1, <3>5 DEF Same
        <5> QED BY <3>1, <5>1, <5>2
      <4> QED BY <1>0, <1>2, <2>0, <2>1, <2>4, <3>2, <3>3, <3>5, <4>1, ReplyPicture DEF Same
    <3> QED BY <2>2, <3>3, <3>4, <3>5
  <2>5. CASE call.op = "W" /\ (ServeWrite(call) \/ ServeWriteFails(call))
    <3>1. call.data \in Seq(Int) /\ Len(call.data) \in Nat
      BY <2>1, CallTypes
    <3>2. CASE ServeWrite(call)
      <4> DEFINE u == cfg.faults.understateWriteBy
                 v == IF u = 0 THEN Len(call.data)
                      ELSE IF Len(call.data) > u THEN Len(call.data) - u ELSE 0
      <4>1. v \in 0..Len(call.data) /\ v \in Int
        BY <3>1, FaultTypes
      <4>2. Reply(v, <<>>) /\ file' = Written(file, pos, call.data) /\ pos' = pos + Len(call.data)
        BY <3>2, Zenon DEF ServeWrite
      <4> HIDE DEF v
      <4> QED BY <1>0, <1>2, <2>0, <2>1, <2>3, <2>5, <4>1, <4>2, ReplyPicture DEF Same
    <3>3. CASE ServeWriteFails(call)
      BY <2>2, <3>3, Zenon DEF ServeWriteFails
    <3> QED BY <2>5, <3>2, <3>3
  <2>6. CASE call.op = "S" /\ ServeSeek(call)
    <3> DEFINE p == SeekTarget(file, pos, call.n, call.whence)
    <3>1. p \in Int
      BY CallFacts DEF SeekTarget, TypeOK
    <3> HIDE DEF p
    <3>2. /\ file' = file
          /\ \/ HostEnds /\ UNCHANGED toEngine
             \/ Reply(p, <<>>) /\ pos' = p
      BY <2>6, Zenon DEF ServeSeek, p
    <3>3. CASE Reply(p, <<>>) /\ pos' = p
      BY <1>0, <1>2, <2>0, <2>1, <2>3, <2>6, <3>1, <3>2, <3>3, ReplyPicture DEF Same
    <3> QED BY <2>2, <3>2, <3>3
  <2>7. CASE call.op = "Z" /\ ServeSize
    <3>1. Len(file) \in Int
      BY DEF TypeOK
    <3>2. Reply(Len(file), <<>>) /\ UNCHANGED <<file, pos>>
      BY <2>7 DEF ServeSize
    <3> QED BY <1>0, <1>2, <2>0, <2>1, <2>3, <2>7, <3>1, <3>2, ReplyPicture DEF Same
  <2> QED BY <1>a, <2>0, <2>1, <2>4, <2>5, <2>6, <2>7
<1> QED BY <1>1, <1>2, ServeContext

\* The payload on its way counts as supplied; what a dying host takes with it
\* can no longer complete a read.
LEMMA HostRestPicture ==
  ASSUME TypeOK, InStepInv, PictureInv, SendPayload \/ HostSeesEOF \/ HostVanishes
  PROVE  PictureInv'
<1>0. UNCHANGED <<phase, sock, call, need, buf, ret, toHost, file, pos, seen, seenPos>>
  BY DEF SendPayload, HostSeesEOF, HostVanishes, engineVars, channelVars
<1>1. CASE SendPayload /\ sock = "open"
  <2>1. /\ hostPay # <<>>
        /\ toEngine' = Append(toEngine, Head(hostPay)) /\ hostPay' = Tail(hostPay)
    BY <1>1 DEF SendPayload
  <2>2. toEngine \in Seq(Reply_) /\ hostPay \in Seq(Reply_) /\ Head(hostPay) \in Reply_
    BY <2>1, QueueTypes DEF TypeOK
  <2>3. Supply' = Supply /\ Supply # 0
    <3>1. Len(toEngine') = Len(toEngine) + 1 /\ Len(hostPay') = Len(hostPay) - 1
      BY <2>1, <2>2, AppendQueue, TailQueue
    <3> QED BY <2>1, <3>1, SupplyType DEF Supply
  <2>4. phase = "head" => toEngine # <<>> /\ toEngine'[1] = toEngine[1]
    <3> SUFFICES ASSUME phase = "head" PROVE toEngine # <<>> /\ toEngine'[1] = toEngine[1]
      OBVIOUS
    <3>1. toEngine # <<>>
      BY <2>1 DEF InStepInv, HeadInv
    <3>2. Len(toEngine) > 0 /\ Len(toEngine) \in Nat
      BY <2>2, <3>1, TailQueue
    <3> QED BY <2>1, <2>2, <3>1, <3>2, AppendQueue
  <2> QED BY <1>0, <2>3, <2>4 DEF PictureInv, Same
<1>2. CASE HostEnds /\ UNCHANGED toEngine
  <2>1. hostPay' = <<>> /\ Len(hostPay') = 0 /\ toEngine' = toEngine
    BY <1>2 DEF HostEnds
  <2>2. Supply' = Len(toEngine) /\ Supply' <= Supply /\ Supply' \in Nat /\ Supply \in Nat
    BY <2>1, SupplyType DEF Supply
  <2>3. ReplyInv'
    <3> SUFFICES ASSUME phase = "head", toHost = <<>>, toEngine # <<>>, call.op = "R",
                        toEngine[1].val = Supply' - 1
                 PROVE  Supply' = Supply
      BY <1>0, <2>1 DEF PictureInv
    <3>1. Supply' >= 1
      BY <2>2, SupplyType, EmptyQueue DEF TypeOK
    <3>2. \/ toEngine[1].val = ReadFailed
          \/ toEngine[1].val \in (Supply - 1)..(Wrap - 1)
      BY DEF InStepInv, HeadInv
    <3> QED BY <2>2, <3>1, <3>2, SessionAssumption DEF ReadFailed
  <2>4. PayloadInv'
    <3> SUFFICES ASSUME phase = "body", Supply' = need PROVE Supply' = Supply
      BY <1>0 DEF PictureInv
    <3> QED BY <2>2 DEF InStepInv, BodyInv, TypeOK
  <2> QED BY <1>0, <2>1, <2>3, <2>4 DEF PictureInv, Same
<1>3. \/ SendPayload /\ sock = "open"
      \/ HostEnds /\ UNCHANGED toEngine
  BY DEF SendPayload, HostSeesEOF, HostVanishes, channelVars
<1> QED BY <1>1, <1>2, <1>3
-----------------------------------------------------------------------------
(* The theorems *)

\* A session starts with the picture exact.
LEMMA PictureInvInit == Init => PictureInv
  BY DEF Init, PictureInv, Same, Nothing

\* No step puts the picture out, however the host lies or dies.
LEMMA PictureInvNext == TypeOK /\ InStepInv /\ PictureInv /\ [Next]_vars => PictureInv'
<1> SUFFICES ASSUME TypeOK, InStepInv, PictureInv, [Next]_vars PROVE PictureInv'
  OBVIOUS
<1>1. CASE SendRequest
  BY <1>1, SendRequestPicture
<1>2. CASE EngineStep
  BY <1>2, RecvHeadPicture, RecvBytePicture, EngineRestPicture DEF EngineStep
<1>3. CASE Close \/ OtherDial
  BY <1>3, EngineRestPicture
<1>4. CASE HostStep \/ HostVanishes
  BY <1>4, ServePicture, HostRestPicture DEF HostStep
<1>5. CASE UNCHANGED vars
  BY <1>5 DEF vars, engineVars, channelVars, hostVars, PictureInv, Same, Supply
<1> QED BY <1>1, <1>2, <1>3, <1>4, <1>5 DEF Next

\* As long as no call has failed the host's file and position are what the
\* engine's successful calls add up to: no write is lost or done twice, no short
\* acknowledgement or overlong announcement is taken for a success (nativeio.c
\* 353-420).
THEOREM PictureIsExact == Spec => []PictureExact
<1>1. PictureInv => PictureExact
  BY DEF PictureInv, PictureExact, Same
<1> QED BY <1>1, PictureInvInit, PictureInvNext, InStepInvInit, InStepInvNext, TypeCorrect, PTL DEF Spec

\* A close that reports success leaves the file with every byte written, and
\* nothing the engine sent changes it afterwards (nativeio.c 434-460).
THEOREM ClosedMeansWritten == Spec => []CloseMeansWritten
<1>1. PictureInv => CloseMeansWritten
  BY DEF PictureInv, CloseMeansWritten
<1> QED BY <1>1, PictureInvInit, PictureInvNext, InStepInvInit, InStepInvNext, TypeCorrect, PTL DEF Spec
-----------------------------------------------------------------------------
(* What a read returns *)

\* The bytes the file holds where the read in progress began.
Told == BytesAt(file, seenPos, call.n)

\* From its from-th element on, the i-th of the queue is byte skip + i of d.
Tells(q, skip, from, d) ==
  \A i \in from..Len(q) : skip + i \in 1..Len(d) /\ q[i].val = d[skip + i]

\* The reply to a read is on its way: it announces no less than it is.
AnnouncedInv ==
  phase = "head" /\ toHost = <<>> /\ toEngine # <<>> =>
    /\ seenPos \in Nat
    /\ toEngine[1].val = ReadFailed \/ toEngine[1].val >= Len(Told)
    /\ Tells(toEngine, -1, 2, Told) /\ Tells(hostPay, Len(toEngine) - 1, 1, Told)

\* What is received, on its way and still to be sent are the bytes of the file,
\* and no more is awaited than was announced.
ReceivedInv ==
  phase = "body" =>
    /\ seenPos \in Nat
    /\ Len(buf) + need >= Len(Told)
    /\ \A i \in 1..Len(buf) : i <= Len(Told) /\ buf[i] = Told[i]
    /\ Tells(toEngine, Len(buf), 1, Told) /\ Tells(hostPay, Len(buf) + Len(toEngine), 1, Told)

\* A read that returned data, or the end, left the session open.
ReturnedInv == phase = "idle" /\ ret.st \in {"ok", "eof"} => sock = "open"

ReadInv == call.op = "R" => AnnouncedInv /\ ReceivedInv /\ ReturnedInv /\ ReadsAreTrue

USE DEF AnnouncedInv, ReceivedInv, ReturnedInv, ReadsAreTrue

\* Taking the front of a queue shifts what it tells, putting a byte behind it
\* goes on with it.
LEMMA TellsTail ==
  ASSUME NEW q \in Seq(Reply_), q # <<>>, NEW k \in Int, NEW d \in Seq(Int), Tells(q, k, 2, d)
  PROVE  Tells(Tail(q), k + 1, 1, d)
<1> SUFFICES ASSUME NEW i \in 1..Len(Tail(q))
             PROVE  k + 1 + i \in 1..Len(d) /\ Tail(q)[i].val = d[k + 1 + i]
  BY DEF Tells
<1>1. i + 1 \in 2..Len(q) /\ Tail(q)[i] = q[i + 1] /\ k + (i + 1) = k + 1 + i
  BY TailQueue
<1>2. k + (i + 1) \in 1..Len(d) /\ q[i + 1].val = d[k + (i + 1)]
  BY <1>1 DEF Tells
<1> QED BY <1>1, <1>2

LEMMA TellsAppend ==
  ASSUME NEW q \in Seq(Reply_), NEW x \in Reply_, NEW k \in Int, NEW d \in Seq(Int),
         NEW from \in 1..2, from <= Len(q) + 1, Tells(q, k, from, d),
         k + Len(q) + 1 \in 1..Len(d), x.val = d[k + Len(q) + 1]
  PROVE  Tells(Append(q, x), k, from, d)
<1> SUFFICES ASSUME NEW i \in from..Len(Append(q, x))
             PROVE  k + i \in 1..Len(d) /\ Append(q, x)[i].val = d[k + i]
  BY DEF Tells
<1>1. Len(q) \in Nat
  OBVIOUS
<1>2. CASE i = Len(q) + 1
  BY <1>1, <1>2, AppendQueue
<1>3. CASE i # Len(q) + 1
  <2>1. i \in 1..Len(q) /\ i \in from..Len(q)
    BY <1>1, <1>3, AppendQueue
  <2> QED BY <2>1, AppendQueue DEF Tells
<1> QED BY <1>2, <1>3

\* A read in progress asks for a number of bytes, and they are bytes.
LEMMA ToldType ==
  ASSUME TypeOK, call.op = "R", seenPos \in Nat
  PROVE  call.n \in 1..MaxSize /\ Told \in Seq(Int) /\ Len(Told) \in Nat
<1>1. call.n \in 1..MaxSize /\ MaxSize \in Nat
  BY CallTypes, SessionAssumption DEF TypeOK, NoCall
<1>2. Told \in Seq(Int)
  BY <1>1, BytesAtType DEF Told, TypeOK
<1> QED BY <1>1, <1>2

\* A failed call returned nothing.
LEMMA FailReads == ASSUME NEW c, afio_fail(c) PROVE ReadInv'
  BY DEF afio_fail, Failed, ReadInv

LEMMA SendRequestReads == ASSUME TypeOK, InStepInv, ReadInv, SendRequest PROVE ReadInv'
<1>1. PICK c \in CallsOf(cfg.mode, made + 1) :
        /\ phase = "idle"
        /\ \/ /\ sock = "open" /\ phase' = "head"
              /\ toHost' = Append(toHost, [frame |-> c.op, c |-> c, req |-> made'])
           \/ afio_fail(c)
  BY Zenon DEF SendRequest
<1>2. CASE /\ sock = "open" /\ phase' = "head"
           /\ toHost' = Append(toHost, [frame |-> c.op, c |-> c, req |-> made'])
  <2>1. toHost = <<>>
    BY <1>1, <1>2 DEF InStepInv, IdleInv
  <2>2. Len(toHost') = 1
    BY <1>2, <2>1
  <2> QED BY <1>2, <2>2 DEF ReadInv
<1> QED BY <1>1, <1>2, FailReads

\* The header of a read: the end of the file, or a number of bytes of it.
LEMMA RecvHeadReads == ASSUME TypeOK, InStepInv, PictureInv, ReadInv, RecvHead PROVE ReadInv'
<1> DEFINE v == Head(toEngine).val
           n == v % Wrap
<1>0. /\ phase = "head" /\ toEngine # <<>>
      /\ toEngine' = Tail(toEngine)
      /\ UNCHANGED <<call, buf, toHost, hostPay, file>>
      /\ call.op = "R" => ReadHead(v)
  BY DEF RecvHead, hostVars
<1> SUFFICES ASSUME call.op = "R" PROVE ReadInv'
  BY <1>0 DEF ReadInv
<1>1. /\ Len(toEngine) > 0 /\ Len(toEngine) \in Nat /\ toEngine \in Seq(Reply_)
      /\ Len(toEngine') = Len(toEngine) - 1
      /\ v = toEngine[1].val
  BY <1>0, TailQueue DEF TypeOK
<1>2. v \in Int
  <2>1. Head(toEngine) \in Reply_
    BY <1>0, QueueTypes DEF TypeOK
  <2> QED BY <2>1 DEF Reply_
<1>3. toHost = <<>> /\ sock = "open" /\ buf = <<>>
  <2>1. Supply # 0
    BY <1>0, SupplyType
  <2> QED BY <1>0, <2>1 DEF InStepInv, HeadInv, PictureInv
<1>4. /\ seenPos \in Nat
      /\ v = ReadFailed \/ v >= Len(Told)
      /\ Tells(toEngine, -1, 2, Told) /\ Tells(hostPay, Len(toEngine) - 1, 1, Told)
  BY <1>0, <1>1, <1>3 DEF ReadInv
<1>5. call.n \in 1..MaxSize /\ Told \in Seq(Int) /\ Len(Told) \in Nat
  BY <1>4, ToldType
<1>6. Wrap \in Nat /\ MaxSize \in Nat /\ Wrap > 2 * MaxSize
  BY SessionAssumption
<1>7. \/ v = ReadFailed
      \/ v \in 0..(Wrap - 1)
  <2>1. \/ v = ReadFailed
        \/ v \in (Supply - 1)..(Wrap - 1)
    BY <1>0, <1>1 DEF InStepInv, HeadInv
  <2>2. Supply \in Nat /\ Supply # 0
    BY <1>0, SupplyType
  <2> QED BY <1>6, <2>1, <2>2
<1> HIDE DEF v
<1>8. n \in Nat /\ (v # ReadFailed => n = v) /\ (v = ReadFailed => n > call.n)
  BY <1>2, <1>5, <1>6, <1>7 DEF ReadFailed
<1> HIDE DEF n
<1>9. \/ FailCall
      \/ n = 0 /\ Complete("eof", 0, <<>>)
      \/ n # 0 /\ ~(n > call.n) /\ phase' = "body" /\ need' = n /\ UNCHANGED <<sock, ret, seen, seenPos>>
  BY <1>0, Zenon DEF ReadHead, n
<1>10. CASE n = 0 /\ Complete("eof", 0, <<>>)
  <2>1. Len(Told) = 0
    BY <1>4, <1>5, <1>8, <1>10
  <2>2. Told = <<>>
    BY <1>5, <2>1, EmptyQueue
  <2>3. /\ phase' = "idle" /\ sock' = "open" /\ ret'.st = "eof" /\ seenPos' = seenPos
    BY <1>3, <1>4, <1>10, Completed
  <2>4. BytesAt(file', seenPos', call'.n) = <<>>
    BY <1>0, <2>2, <2>3 DEF Told
  <2> QED BY <1>0, <2>3, <2>4 DEF ReadInv
<1>11. CASE n # 0 /\ ~(n > call.n) /\ phase' = "body" /\ need' = n /\ UNCHANGED <<sock, ret, seen, seenPos>>
  <2>1. Told' = Told
    BY <1>0, <1>11 DEF Told
  <2>2. Tells(toEngine', 0, 1, Told)
    BY <1>0, <1>1, <1>4, <1>5, TellsTail
  <2>3. Len(buf) = 0 /\ Len(buf) + need' >= Len(Told) /\ Len(buf) + Len(toEngine') = Len(toEngine) - 1
    BY <1>1, <1>3, <1>4, <1>5, <1>8, <1>11
  <2>4. \A i \in 1..Len(buf) : i <= Len(Told) /\ buf[i] = Told[i]
    BY <2>3
  <2>5. ReceivedInv'
    BY <1>0, <1>4, <1>11, <2>1, <2>2, <2>3, <2>4 DEF Tells
  <2> QED BY <1>11, <2>5 DEF ReadInv
<1> QED BY <1>9, <1>10, <1>11, FailReads DEF FailCall

\* Each byte received is the next of the file, and the last is the last of it.
LEMMA RecvByteReads == ASSUME TypeOK, InStepInv, PictureInv, ReadInv, RecvByte PROVE ReadInv'
<1> DEFINE x == Head(toEngine).val
<1>0. /\ phase = "body" /\ toEngine # <<>>
      /\ toEngine' = Tail(toEngine) /\ need' = need - 1 /\ buf' = Append(buf, x)
      /\ UNCHANGED <<call, toHost, hostPay, file>>
      /\ \/ need = 1 /\ Complete("ok", Len(buf'), buf')
         \/ need # 1 /\ UNCHANGED <<phase, sock, ret, seen, seenPos>>
  BY DEF RecvByte, hostVars
<1>1. call.op = "R" /\ sock = "open"
  BY <1>0 DEF PictureInv, InStepInv, BodyInv
<1>2. /\ seenPos \in Nat
      /\ Len(buf) + need >= Len(Told)
      /\ \A i \in 1..Len(buf) : i <= Len(Told) /\ buf[i] = Told[i]
      /\ Tells(toEngine, Len(buf), 1, Told) /\ Tells(hostPay, Len(buf) + Len(toEngine), 1, Told)
  BY <1>0, <1>1 DEF ReadInv
<1>3. call.n \in 1..MaxSize /\ Told \in Seq(Int) /\ Len(Told) \in Nat
  BY <1>1, <1>2, ToldType
<1>4. /\ Len(toEngine) > 0 /\ Len(toEngine) \in Nat /\ toEngine \in Seq(Reply_)
      /\ Len(toEngine') = Len(toEngine) - 1 /\ x = toEngine[1].val
  BY <1>0, TailQueue DEF TypeOK
<1>5. x \in Int /\ buf \in Seq(Int) /\ Len(buf) \in Nat /\ need \in Int
  <2>1. Head(toEngine) \in Reply_
    BY <1>0, QueueTypes DEF TypeOK
  <2>2. x \in Int
    BY <2>1 DEF Reply_
  <2> QED BY <2>2 DEF TypeOK
<1> HIDE DEF x
<1>6. Len(buf) + 1 <= Len(Told) /\ x = Told[Len(buf) + 1]
  <2>1. 1 \in 1..Len(toEngine)
    BY <1>4
  <2> QED BY <1>2, <1>3, <1>4, <1>5, <2>1 DEF Tells
<1>7. buf' \in Seq(Int) /\ Len(buf') = Len(buf) + 1
  BY <1>0, <1>5, AppendQueue
<1>8. \A i \in 1..Len(buf') : i <= Len(Told) /\ buf'[i] = Told[i]
  <2> SUFFICES ASSUME NEW i \in 1..Len(buf') PROVE i <= Len(Told) /\ buf'[i] = Told[i]
    OBVIOUS
  <2>1. CASE i = Len(buf) + 1
    BY <1>0, <1>5, <1>6, <2>1, AppendQueue
  <2>2. CASE i # Len(buf) + 1
    <3>1. i \in 1..Len(buf)
      BY <1>5, <1>7, <2>2
    <3> QED BY <1>0, <1>2, <1>5, <3>1, AppendQueue
  <2> QED BY <2>1, <2>2
<1>9. CASE need = 1 /\ Complete("ok", Len(buf'), buf')
  <2>1. Len(buf') = Len(Told)
    BY <1>2, <1>3, <1>5, <1>6, <1>7, <1>9
  <2>2. buf' = Told
    BY <1>3, <1>7, <1>8, <2>1
  <2>3. /\ phase' = "idle" /\ sock' = "open" /\ ret'.st = "ok" /\ ret'.data = buf'
        /\ seenPos' = seenPos + Len(buf')
    BY <1>1, <1>9, Completed
  <2>4. seenPos' - Len(ret'.data) = seenPos
    BY <1>2, <1>5, <1>7, <2>3
  <2>5. ret'.data = BytesAt(file', seenPos' - Len(ret'.data), call'.n)
    BY <1>0, <2>2, <2>3, <2>4 DEF Told
  <2> QED BY <2>3, <2>5 DEF ReadInv
<1>10. CASE need # 1 /\ UNCHANGED <<phase, sock, ret, seen, seenPos>>
  <2>1. Told' = Told
    BY <1>0, <1>10 DEF Told
  <2>2. Tells(toEngine', Len(buf'), 1, Told)
    <3>1. Tells(toEngine, Len(buf), 2, Told)
      BY <1>2, <1>4 DEF Tells
    <3>2. Len(buf) \in Int /\ Told \in Seq(Int)
      BY <1>3, <1>5
    <3>3. Tells(Tail(toEngine), Len(buf) + 1, 1, Told)
      BY <1>0, <1>4, <3>1, <3>2, TellsTail
    <3> QED BY <1>0, <1>7, <3>3
  <2>3. /\ Len(buf') + need' = Len(buf) + need
        /\ Len(buf') + Len(toEngine') = Len(buf) + Len(toEngine)
    BY <1>0, <1>4, <1>5, <1>7
  <2>4. ReceivedInv'
    BY <1>0, <1>2, <1>8, <1>10, <2>1, <2>2, <2>3 DEF Tells
  <2> QED BY <1>0, <1>10, <2>4 DEF ReadInv
<1> QED BY <1>0, <1>9, <1>10

\* Giving up, closing and another dial.
LEMMA EngineRestReads ==
  ASSUME TypeOK, ReadInv, PeerGone \/ DeadlineExpires \/ Close \/ OtherDial
  PROVE  ReadInv'
<1>1. CASE PeerGone \/ DeadlineExpires
  BY <1>1, FailReads DEF PeerGone, DeadlineExpires, FailCall
<1>2. CASE Close
  <2>1. phase' = "idle" /\ ret'.st \notin {"ok", "eof"}
    BY <1>2 DEF Close, Failed, Nothing
  <2> QED BY <2>1 DEF ReadInv
<1>3. CASE OtherDial
  BY <1>3 DEF OtherDial, channelVars, hostVars, ReadInv, Told, Tells
<1> QED BY <1>1, <1>2, <1>3

\* The host tells what its file holds where the engine believes it to be.
LEMMA ServeReads == ASSUME TypeOK, InStepInv, PictureInv, ReadInv, Serve PROVE ReadInv'
<1> DEFINE q == Head(toHost)
           data == BytesAt(file, pos, call.n)
           over == cfg.faults.overstateReadBy
<1>0. UNCHANGED <<phase, sock, call, buf, ret, seen, seenPos>>
  BY DEF Serve, engineVars
<1> SUFFICES ASSUME call.op = "R" PROVE ReadInv'
  BY <1>0 DEF ReadInv
<1>1. CASE phase = "idle" /\ sock # "open"
  BY <1>0, <1>1 DEF ReadInv
<1>2. CASE phase = "head"
  <2>0. /\ sock = "open" /\ toHost # <<>> /\ toEngine = <<>>
        /\ q.frame = "R" /\ q.c = call
    BY <1>2, ServeContext
  <2>1. file = seen /\ pos = seenPos /\ seenPos \in Nat
    BY <1>2, <2>0 DEF PictureInv, Same, TypeOK
  <2>2. data = Told /\ data \in Seq(Int) /\ Len(data) \in Nat /\ over \in Nat
    BY <2>1, ToldType, FaultTypes DEF Told
  <2>3. ServeRead(call)
    BY <2>0, Zenon DEF Serve
  <2> HIDE DEF data, over
  <2>4. /\ file' = file
        /\ \/ HostEnds /\ UNCHANGED toEngine
           \/ Reply(ReadFailed, <<>>)
           \/ Reply(Len(data) + over, data)
    BY <2>3, Zenon DEF ServeRead, data, over
  <2>5. Told' = Told
    BY <1>0, <2>4 DEF Told
  <2>6. ASSUME NEW v, NEW payload \in {<<>>, data}, Reply(v, payload),
               v = ReadFailed \/ v >= Len(data)
        PROVE  ReadInv'
    <3>1. toEngine' = Append(toEngine, [val |-> v, req |-> q.req, part |-> "head"])
      BY <2>0, <2>6 DEF Reply
    <3>2. hostPay' = [i \in DOMAIN payload |-> [val |-> payload[i], req |-> q.req, part |-> "body"]]
      BY <2>0, <2>6 DEF Reply
    <3>3. Len(toEngine') = 1 /\ toEngine'[1].val = v
      BY <2>0, <3>1
    <3>4. Tells(toEngine', -1, 2, Told)
      BY <3>3 DEF Tells
    <3>5. Tells(hostPay', 0, 1, Told)
      <4>1. CASE payload = <<>>
        BY <3>2, <4>1 DEF Tells
      <4>2. CASE payload = data
        <5>1. Len(hostPay') = Len(data) /\ \A i \in 1..Len(data) : hostPay'[i].val = data[i]
          BY <2>2, <3>2, <4>2
        <5> QED BY <2>2, <5>1 DEF Tells
      <4> QED BY <2>6, <4>1, <4>2
    <3>6. AnnouncedInv'
      BY <1>0, <2>1, <2>2, <2>5, <2>6, <3>3, <3>4, <3>5
    <3> QED BY <1>0, <1>2, <3>6 DEF ReadInv
  <2>7. CASE HostEnds /\ UNCHANGED toEngine
    BY <1>0, <1>2, <2>0, <2>7 DEF ReadInv
  <2>8. CASE Reply(ReadFailed, <<>>)
    BY <2>6, <2>8
  <2>9. CASE Reply(Len(data) + over, data)
    <3>1. Len(data) + over >= Len(data)
      BY <2>2
    <3> QED BY <2>6, <2>9, <3>1
  <2> QED BY <2>4, <2>7, <2>8, <2>9
<1> QED BY <1>1, <1>2, ServeContext

\* The payload changes hands in order; a host that dies tells no more.
LEMMA HostRestReads ==
  ASSUME TypeOK, InStepInv, PictureInv, ReadInv, SendPayload \/ HostSeesEOF \/ HostVanishes
  PROVE  ReadInv'
<1>0. UNCHANGED <<phase, sock, call, need, buf, ret, toHost, file, pos, seen, seenPos>>
  BY DEF SendPayload, HostSeesEOF, HostVanishes, engineVars, channelVars
<1>t. Told' = Told
  BY <1>0 DEF Told
<1> SUFFICES ASSUME call.op = "R" PROVE ReadInv'
  BY <1>0 DEF ReadInv
<1>1. CASE SendPayload /\ sock = "open"
  <2> DEFINE x == Head(hostPay)
  <2>1. hostPay # <<>> /\ toEngine' = Append(toEngine, x) /\ hostPay' = Tail(hostPay)
    BY <1>1 DEF SendPayload
  <2>2. /\ toEngine \in Seq(Reply_) /\ hostPay \in Seq(Reply_) /\ x \in Reply_
        /\ Len(toEngine) \in Nat /\ Len(toEngine') = Len(toEngine) + 1
        /\ x = hostPay[1] /\ 1 \in 1..Len(hostPay) /\ Len(buf) \in Nat
    <3>1. toEngine \in Seq(Reply_) /\ hostPay \in Seq(Reply_) /\ x \in Reply_
      BY <2>1, QueueTypes DEF TypeOK
    <3>2. Len(hostPay) > 0 /\ x = hostPay[1] /\ Len(hostPay) \in Nat
      BY <2>1, <3>1, TailQueue
    <3>3. Len(toEngine') = Len(toEngine) + 1 /\ Len(toEngine) \in Nat
      BY <2>1, <3>1, AppendQueue
    <3>4. Len(buf) \in Nat
      BY DEF TypeOK
    <3> QED BY <3>1, <3>2, <3>3, <3>4
  <2> HIDE DEF x
  <2>3. ASSUME NEW k \in Int, NEW from \in 1..2, from <= Len(toEngine) + 1,
               seenPos \in Nat, Tells(toEngine, k, from, Told),
               Tells(hostPay, k + Len(toEngine), 1, Told)
        PROVE  Tells(toEngine', k, from, Told) /\ Tells(hostPay', k + Len(toEngine'), 1, Told)
    <3>1. Told \in Seq(Int) /\ Len(Told) \in Nat
      BY <2>3, ToldType
    <3>2. k + Len(toEngine) + 1 \in 1..Len(Told) /\ x.val = Told[k + Len(toEngine) + 1]
      BY <2>2, <2>3 DEF Tells
    <3>3. Tells(toEngine', k, from, Told)
      BY <2>1, <2>2, <2>3, <3>1, <3>2, TellsAppend
    <3>4. Tells(hostPay, k + Len(toEngine), 2, Told)
      BY <2>3 DEF Tells
    <3>5. k + Len(toEngine) \in Int /\ k + Len(toEngine') = k + Len(toEngine) + 1
      BY <2>2
    <3> QED BY <2>1, <2>2, <3>1, <3>3, <3>4, <3>5, TellsTail
  <2>4. CASE phase = "head"
    <3>1. toHost = <<>> /\ toEngine # <<>>
      <4>1. Supply # 0
        BY <2>1, SupplyType
      <4> QED BY <2>1, <2>4, <4>1 DEF InStepInv, HeadInv
    <3>2. /\ seenPos \in Nat /\ (toEngine[1].val = ReadFailed \/ toEngine[1].val >= Len(Told))
          /\ Tells(toEngine, -1, 2, Told) /\ Tells(hostPay, Len(toEngine) - 1, 1, Told)
      BY <2>4, <3>1 DEF ReadInv
    <3>3. Len(toEngine) > 0
      BY <2>2, <3>1, TailQueue
    <3>4. toEngine'[1] = toEngine[1]
      BY <2>1, <2>2, <3>3, AppendQueue
    <3>5. -1 + Len(toEngine) = Len(toEngine) - 1 /\ -1 + Len(toEngine') = Len(toEngine') - 1
      BY <2>2
    <3>6. Tells(toEngine', -1, 2, Told) /\ Tells(hostPay', Len(toEngine') - 1, 1, Told)
      BY <2>2, <2>3, <3>2, <3>3, <3>5
    <3>7. AnnouncedInv'
      BY <1>0, <1>t, <3>2, <3>4, <3>6
    <3> QED BY <1>0, <2>4, <3>7 DEF ReadInv
  <2>5. CASE phase = "body"
    <3>1. /\ seenPos \in Nat
          /\ Tells(toEngine, Len(buf), 1, Told) /\ Tells(hostPay, Len(buf) + Len(toEngine), 1, Told)
      BY <2>5 DEF ReadInv
    <3>2. Tells(toEngine', Len(buf), 1, Told) /\ Tells(hostPay', Len(buf) + Len(toEngine'), 1, Told)
      BY <2>2, <2>3, <3>1
    <3>3. ReceivedInv'
      BY <1>0, <1>t, <2>5, <3>2 DEF ReadInv
    <3> QED BY <1>0, <2>5, <3>3 DEF ReadInv
  <2>6. CASE phase = "idle"
    BY <1>0, <2>6 DEF ReadInv
  <2> QED BY <2>4, <2>5, <2>6 DEF TypeOK
<1>2. CASE HostEnds /\ UNCHANGED toEngine
  <2>1. hostPay' = <<>> /\ toEngine' = toEngine
    BY <1>2 DEF HostEnds
  <2>2. \A k : Tells(hostPay', k, 1, Told)
    BY <2>1 DEF Tells
  <2> QED BY <1>0, <1>t, <2>1, <2>2 DEF ReadInv
<1>3. \/ SendPayload /\ sock = "open"
      \/ HostEnds /\ UNCHANGED toEngine
  BY DEF SendPayload, HostSeesEOF, HostVanishes, channelVars
<1> QED BY <1>1, <1>2, <1>3

\* Every step keeps what reads return true.
LEMMA ReadInvNext == TypeOK /\ InStepInv /\ PictureInv /\ ReadInv /\ [Next]_vars => ReadInv'
<1> SUFFICES ASSUME TypeOK, InStepInv, PictureInv, ReadInv, [Next]_vars PROVE ReadInv'
  OBVIOUS
<1>1. CASE SendRequest
  BY <1>1, SendRequestReads
<1>2. CASE EngineStep
  BY <1>2, RecvHeadReads, RecvByteReads, EngineRestReads DEF EngineStep
<1>3. CASE Close \/ OtherDial
  BY <1>3, EngineRestReads
<1>4. CASE HostStep \/ HostVanishes
  BY <1>4, ServeReads, HostRestReads DEF HostStep
<1>5. CASE UNCHANGED vars
  BY <1>5 DEF vars, engineVars, channelVars, hostVars, ReadInv, Told, Tells
<1> QED BY <1>1, <1>2, <1>3, <1>4, <1>5 DEF Next

\* What a read returned is what the file holds there, and an end of file is the
\* end of the file, however the host lies about counts, whenever it dies, and
\* whatever version another session left behind (nativeio.c 318-364).
THEOREM ReadsReturnTheFile == Spec => []ReadsAreTrue
<1>1. Init => ReadInv
  BY DEF Init, NoCall, ReadInv
<1>2. ReadInv => ReadsAreTrue
  BY DEF ReadInv
<1> QED BY <1>1, <1>2, ReadInvNext, PictureInvInit, PictureInvNext, InStepInvInit, InStepInvNext,
           TypeCorrect, PTL DEF Spec

-----------------------------------------------------------------------------
(* The invariant: what was done for a call, and what may still be done *)

ReadResult(d) == [st |-> IF d = <<>> THEN "eof" ELSE "ok", val |-> Len(d), data |-> d]
OkResult(v)   == [st |-> "ok", val |-> v, data |-> <<>>]

\* Nothing was done for a call whose request is not yet taken.
UntakenInv == phase = "head" /\ toHost # <<>> => outcome = Nothing

\* A reply on its way that the engine may accept is that of what was done.
RepliedInv ==
  phase = "head" /\ toHost = <<>> /\ toEngine # <<>> =>
    LET v == toEngine[1].val IN
    /\ call.op = "R" /\ v # ReadFailed => outcome = ReadResult(Told)
    /\ call.op = "W" => outcome = OkResult(Len(call.data))
    /\ call.op \in {"S", "Z"} => outcome = OkResult(v)

ReadingInv == phase = "body" => outcome = ReadResult(Told)

\* One frame at most is queued, so that of a failed call is the only one.
OneFrameInv == Len(toHost) <= 1

DoneInv == UntakenInv /\ RepliedInv /\ ReadingInv /\ OneFrameInv

USE DEF UntakenInv, RepliedInv, ReadingInv, OneFrameInv,
        AwaitedInv, RequestInv, ReplyInv, PayloadInv, ClosedInv,
        AnnouncedInv, ReceivedInv, ReturnedInv, ReadsAreTrue

\* What the steps rest on, and is proved to hold in every state.
SessionInv == TypeOK /\ InStepInv /\ PictureInv /\ ReadInv /\ DoneInv

\* Queueing on an idle, open session queues one frame.
LEMMA FirstFrame ==
  ASSUME TypeOK, InStepInv, phase = "idle", sock = "open", NEW f, toHost' = Append(toHost, f)
  PROVE  toHost = <<>> /\ toHost' # <<>> /\ Len(toHost') = 1 /\ Head(toHost') = f
<1>1. toHost = <<>>
  BY DEF InStepInv, IdleInv
<1> QED BY <1>1

LEMMA SendRequestDone == ASSUME TypeOK, InStepInv, DoneInv, SendRequest PROVE DoneInv'
<1>1. PICK c \in CallsOf(cfg.mode, made + 1) :
        /\ phase = "idle" /\ outcome' = Nothing
        /\ \/ /\ sock = "open" /\ phase' = "head"
              /\ toHost' = Append(toHost, [frame |-> c.op, c |-> c, req |-> made'])
           \/ afio_fail(c) /\ UNCHANGED toHost
           \/ /\ sock = "open" /\ afio_fail(c)
              /\ toHost' = Append(toHost, [frame |-> "partial", c |-> c, req |-> made'])
  BY Zenon DEF SendRequest
<1>2. CASE /\ sock = "open" /\ phase' = "head"
           /\ toHost' = Append(toHost, [frame |-> c.op, c |-> c, req |-> made'])
  <2>1. toHost' # <<>> /\ Len(toHost') = 1
    BY <1>1, <1>2, FirstFrame
  <2> QED BY <1>1, <1>2, <2>1 DEF DoneInv
<1>3. CASE afio_fail(c) /\ UNCHANGED toHost
  BY <1>3 DEF afio_fail, DoneInv
<1>4. CASE /\ sock = "open" /\ afio_fail(c)
           /\ toHost' = Append(toHost, [frame |-> "partial", c |-> c, req |-> made'])
  <2>1. Len(toHost') = 1
    BY <1>1, <1>4, FirstFrame
  <2> QED BY <1>4, <2>1 DEF afio_fail, DoneInv
<1> QED BY <1>1, <1>2, <1>3, <1>4

\* What a header leads to: the call fails, or returns what was done for it, or
\* the bytes of a read follow.
LEMMA HeaderReturns ==
  ASSUME SessionInv, RecvHead, ReadInv'
  PROVE  /\ phase = "head" /\ toHost = <<>> /\ sock = "open"
         /\ UNCHANGED <<call, made, toHost, file, pos, outcome>>
         /\ \/ FailCall
            \/ /\ phase' = "idle" /\ UNCHANGED sock
               /\ ret' = outcome /\ outcome.st \in {"ok", "eof"}
            \/ /\ call.op = "R" /\ phase' = "body" /\ UNCHANGED <<sock, ret, seen, seenPos>>
               /\ outcome = ReadResult(Told)
<1> USE DEF SessionInv
<1> DEFINE v == Head(toEngine).val
           n == v % Wrap
<1>0. /\ phase = "head" /\ toEngine # <<>>
      /\ UNCHANGED <<call, made, toHost, file, pos, outcome>>
      /\ \/ call.op = "R" /\ ReadHead(v)
         \/ call.op = "W" /\ WriteHead(v)
         \/ call.op \notin {"R", "W"} /\ SeekHead(v)
  BY DEF RecvHead, hostVars
<1>1. v = toEngine[1].val /\ v \in Int
  <2>1. Head(toEngine) \in Reply_ /\ Head(toEngine) = toEngine[1]
    BY <1>0, QueueTypes, TailQueue DEF TypeOK
  <2> QED BY <2>1 DEF Reply_
<1>2. toHost = <<>> /\ sock = "open"
  <2>1. Supply # 0
    BY <1>0, SupplyType
  <2> QED BY <1>0, <2>1 DEF InStepInv, HeadInv
<1>3. /\ call.op = "R" /\ v # ReadFailed => outcome = ReadResult(Told)
      /\ call.op = "W" => outcome = OkResult(Len(call.data))
      /\ call.op \in {"S", "Z"} => outcome = OkResult(v)
  BY <1>0, <1>1, <1>2 DEF DoneInv
<1>4. Wrap \in Nat /\ MaxSize \in Nat /\ Wrap > 2 * MaxSize
  BY SessionAssumption
<1>5. CASE call.op = "R"
  <2>1. call.n \in 1..MaxSize
    BY <1>5, CallTypes DEF TypeOK, NoCall
  <2> HIDE DEF v
  <2>2. v = ReadFailed => n > call.n
    BY <1>4, <2>1 DEF ReadFailed
  <2> HIDE DEF n
  <2>3. \/ FailCall
        \/ n = 0 /\ Complete("eof", 0, <<>>)
        \/ ~(n > call.n) /\ phase' = "body" /\ UNCHANGED <<sock, ret, seen, seenPos>>
    BY <1>0, <1>5, Zenon DEF ReadHead, n
  <2>4. CASE n = 0 /\ Complete("eof", 0, <<>>)
    <3>1. v # ReadFailed
      BY <2>1, <2>2, <2>4, <1>4
    <3>2. /\ phase' = "idle" /\ UNCHANGED sock /\ seenPos' = seenPos + 0
          /\ ret' = [st |-> "eof", val |-> 0, data |-> <<>>]
      BY <1>5, <2>4, Completed
    <3>3. seenPos' = seenPos
      BY <3>2 DEF TypeOK
    <3>4. Told = <<>>
      BY <1>0, <1>5, <3>2, <3>3 DEF ReadInv, Told
    <3>5. outcome = [st |-> "eof", val |-> 0, data |-> <<>>]
      BY <1>3, <1>5, <3>1, <3>4 DEF ReadResult
    <3> QED BY <1>0, <1>2, <3>2, <3>5
  <2>5. CASE ~(n > call.n) /\ phase' = "body" /\ UNCHANGED <<sock, ret, seen, seenPos>>
    BY <1>0, <1>2, <1>3, <1>5, <2>2, <2>5
  <2> QED BY <1>0, <1>2, <2>3, <2>4, <2>5
<1>6. CASE call.op = "W"
  <2>1. v \in 0..Len(call.data)
    BY <1>0, <1>1, <1>2, <1>6 DEF PictureInv
  <2>2. Len(call.data) \in 1..MaxSize
    BY <1>0, <1>6, AwaitedCall, CallTypes
  <2>3. n = v
    BY <1>4, <2>1, <2>2
  <2>4. FailCall \/ (n = Len(call.data) /\ Complete("ok", v, <<>>))
    BY <1>0, <1>6, Zenon DEF WriteHead
  <2>5. CASE n = Len(call.data) /\ Complete("ok", v, <<>>)
    <3>1. phase' = "idle" /\ UNCHANGED sock /\ ret' = OkResult(Len(call.data))
      BY <2>3, <2>5, Completed DEF OkResult
    <3> QED BY <1>0, <1>2, <1>3, <1>6, <3>1 DEF OkResult
  <2> QED BY <1>0, <1>2, <2>4, <2>5
<1>7. CASE call.op \in {"S", "Z"}
  <2>1. Complete("ok", v, <<>>)
    BY <1>0, <1>7 DEF SeekHead
  <2>2. phase' = "idle" /\ UNCHANGED sock /\ ret' = OkResult(v)
    BY <2>1, Completed DEF OkResult
  <2> QED BY <1>0, <1>2, <1>3, <1>7, <2>2 DEF OkResult
<1> QED BY <1>0, <1>5, <1>6, <1>7, AwaitedCall

\* The last byte of a read returns what was done for it.
LEMMA LastByteReturns ==
  ASSUME SessionInv, RecvByte, ReadInv'
  PROVE  /\ phase = "body" /\ toHost = <<>> /\ sock = "open"
         /\ UNCHANGED <<call, made, toHost, file, pos, outcome, sock>>
         /\ \/ /\ phase' = "idle" /\ ret' = outcome /\ outcome.st \in {"ok", "eof"}
            \/ phase' = "body" /\ UNCHANGED <<ret, seen, seenPos>>
<1> USE DEF SessionInv
<1>0. /\ phase = "body" /\ buf' = Append(buf, Head(toEngine).val) /\ toEngine # <<>>
      /\ UNCHANGED <<call, made, toHost, file, pos, outcome>>
      /\ \/ need = 1 /\ Complete("ok", Len(buf'), buf')
         \/ UNCHANGED <<phase, sock, ret, seen, seenPos>>
  BY DEF RecvByte, hostVars
<1>1. call.op = "R" /\ toHost = <<>> /\ sock = "open" /\ outcome = ReadResult(Told)
  BY <1>0 DEF PictureInv, InStepInv, BodyInv, DoneInv
<1>2. CASE need = 1 /\ Complete("ok", Len(buf'), buf')
  <2>1. /\ phase' = "idle" /\ UNCHANGED sock /\ seenPos' = seenPos + Len(buf')
        /\ ret' = [st |-> "ok", val |-> Len(buf'), data |-> buf']
    BY <1>1, <1>2, Completed
  <2>2. Len(buf') \in Nat /\ Len(buf') # 0
    <3>1. Head(toEngine) \in Reply_
      BY <1>0, QueueTypes DEF TypeOK
    <3>2. Head(toEngine).val \in Int
      BY <3>1 DEF Reply_
    <3> QED BY <1>0, <3>2, AppendQueue DEF TypeOK
  <2>3. seenPos' - Len(ret'.data) = seenPos
    BY <2>1, <2>2 DEF TypeOK
  <2>4. buf' = Told
    BY <1>0, <1>1, <2>1, <2>3 DEF ReadInv, Told
  <2>5. outcome = [st |-> "ok", val |-> Len(buf'), data |-> buf']
    BY <1>1, <2>2, <2>4 DEF ReadResult
  <2> QED BY <1>0, <1>1, <2>1, <2>5
<1> QED BY <1>0, <1>1, <1>2

LEMMA EngineStepDone ==
  ASSUME SessionInv, ReadInv', RecvHead \/ RecvByte \/ PeerGone \/ DeadlineExpires
  PROVE  DoneInv'
<1> USE DEF SessionInv
<1>1. CASE RecvHead
  <2>1. CASE FailCall
    BY <1>1, <2>1, HeaderReturns DEF FailCall, afio_fail, DoneInv
  <2>2. CASE call.op = "R" /\ phase' = "body" /\ UNCHANGED <<sock, ret, seen, seenPos>> /\ outcome = ReadResult(Told)
    <3>1. Told' = Told
      BY <1>1, <2>2, HeaderReturns DEF Told
    <3>2. ReadResult(Told)' = ReadResult(Told)
      BY <3>1 DEF ReadResult
    <3> QED BY <1>1, <2>2, <3>2, HeaderReturns DEF DoneInv
  <2>3. CASE phase' = "idle"
    BY <1>1, <2>3, HeaderReturns DEF DoneInv
  <2> QED BY <1>1, <2>1, <2>2, <2>3, HeaderReturns
<1>2. CASE RecvByte
  <2>1. CASE phase' = "idle"
    BY <1>2, <2>1, LastByteReturns DEF DoneInv
  <2>2. CASE phase' = "body" /\ UNCHANGED <<ret, seen, seenPos>>
    <3>1. Told' = Told
      BY <1>2, <2>2, LastByteReturns DEF Told
    <3>2. ReadResult(Told)' = ReadResult(Told)
      BY <3>1 DEF ReadResult
    <3> QED BY <1>2, <2>2, <3>2, LastByteReturns DEF DoneInv
  <2> QED BY <1>2, <2>1, <2>2, LastByteReturns
<1>3. CASE PeerGone \/ DeadlineExpires
  BY <1>3 DEF PeerGone, DeadlineExpires, FailCall, afio_fail, channelVars, DoneInv
<1> QED BY <1>1, <1>2, <1>3

LEMMA EngineRestDone ==
  ASSUME TypeOK, InStepInv, DoneInv, Close \/ OtherDial
  PROVE  DoneInv'
<1>1. CASE Close
  <2>1. /\ phase = "idle" /\ phase' = "idle"
        /\ \/ sock = "open" /\ toHost' = Append(toHost, [frame |-> "C", c |-> call, req |-> made])
           \/ UNCHANGED toHost
    BY <1>1 DEF Close
  <2>2. Len(toHost') <= 1
    <3>1. CASE sock = "open" /\ toHost' = Append(toHost, [frame |-> "C", c |-> call, req |-> made])
      BY <2>1, <3>1, FirstFrame
    <3> QED BY <2>1, <3>1 DEF DoneInv
  <2> QED BY <2>1, <2>2 DEF DoneInv
<1>2. CASE OtherDial
  BY <1>2 DEF OtherDial, channelVars, hostVars, DoneInv
<1> QED BY <1>1, <1>2

\* What serving the one outstanding request does for it, and with what reply:
\* nothing, and the session ends or the read is refused; or all of it, and the
\* reply says so or is one the engine refuses; or a part of a write, and the
\* session ends.
Served(c) ==
  \/ /\ UNCHANGED <<file, pos, outcome>>
     /\ (HostEnds /\ UNCHANGED toEngine) \/ (c.op = "R" /\ Reply(ReadFailed, <<>>))
  \/ /\ c.op = "R" /\ file' = file /\ pos' = pos + Len(BytesAt(file, pos, c.n))
     /\ outcome' = ReadResult(BytesAt(file, pos, c.n))
     /\ \E v \in Int : Reply(v, BytesAt(file, pos, c.n))
  \/ /\ c.op = "W" /\ file' = Written(file, pos, c.data) /\ pos' = pos + Len(c.data)
     /\ outcome' = OkResult(Len(c.data))
     /\ \E v \in Int : Reply(v, <<>>)
  \/ /\ c.op = "W" /\ outcome' = Failed /\ HostEnds /\ UNCHANGED toEngine
     /\ \E k \in 0..(Len(c.data) - 1) :
          file' = Written(file, pos, SubSeq(c.data, 1, k)) /\ pos' = pos + k
  \/ /\ c.op = "S" /\ SeekTarget(file, pos, c.n, c.whence) >= 0
     /\ file' = file /\ pos' = SeekTarget(file, pos, c.n, c.whence)
     /\ outcome' = OkResult(pos') /\ Reply(pos', <<>>)
  \/ /\ c.op = "Z" /\ UNCHANGED <<file, pos>>
     /\ outcome' = OkResult(Len(file)) /\ Reply(Len(file), <<>>)

LEMMA ServeAwaited ==
  ASSUME TypeOK, InStepInv, PictureInv, Serve, phase = "head"
  PROVE  Served(call)
<1> DEFINE q == Head(toHost)
<1>0. /\ toHost # <<>> /\ toHost' = <<>> /\ q.req = made /\ q.frame = call.op /\ q.c = call
      /\ call \in CallSet /\ call.op \in {"R", "W", "S", "Z"}
  BY ServeContext, AwaitedCall
<1>1. \A st, v, d : Did(st, v, d) => outcome' = [st |-> st, val |-> v, data |-> d]
  BY <1>0 DEF Did
<1>2. \/ call.op = "R" /\ ServeRead(call)
      \/ call.op = "W" /\ (ServeWrite(call) \/ ServeWriteFails(call))
      \/ call.op = "S" /\ ServeSeek(call)
      \/ call.op = "Z" /\ ServeSize
      \/ HostEnds /\ UNCHANGED <<toEngine, file, pos, outcome>>
  BY <1>0, Zenon DEF Serve
<1>3. CASE call.op = "R" /\ ServeRead(call)
  <2> DEFINE data == BytesAt(file, pos, call.n)
             over == cfg.faults.overstateReadBy
  <2>1. Len(data) + over \in Int
    <3>1. call.n \in Nat
      BY <1>3, CallTypes, SessionAssumption DEF TypeOK, NoCall
    <3>2. data \in Seq(Int) /\ over \in Nat
      BY <3>1, BytesAtType, FaultTypes DEF TypeOK
    <3> QED BY <3>2
  <2> HIDE DEF data, over
  <2>2. /\ UNCHANGED file
        /\ \/ HostEnds /\ UNCHANGED <<toEngine, pos, outcome>>
           \/ Reply(ReadFailed, <<>>) /\ UNCHANGED <<pos, outcome>>
           \/ /\ Reply(Len(data) + over, data) /\ pos' = pos + Len(data)
              /\ Did(IF data = <<>> THEN "eof" ELSE "ok", Len(data), data)
    BY <1>3, Zenon DEF ServeRead, data, over
  <2>3. CASE /\ Reply(Len(data) + over, data) /\ pos' = pos + Len(data)
             /\ Did(IF data = <<>> THEN "eof" ELSE "ok", Len(data), data)
    <3>1. outcome' = ReadResult(data)
      BY <1>1, <2>3 DEF ReadResult
    <3> QED BY <1>3, <2>1, <2>2, <2>3, <3>1 DEF Served, data
  <2> QED BY <1>3, <2>2, <2>3 DEF Served
<1>4. CASE call.op = "W" /\ ServeWrite(call)
  <2> DEFINE u == cfg.faults.understateWriteBy
             v == IF u = 0 THEN Len(call.data)
                  ELSE IF Len(call.data) > u THEN Len(call.data) - u ELSE 0
  <2>1. v \in Int
    <3>1. Len(call.data) \in Nat
      BY <1>0, CallTypes
    <3> QED BY <3>1, FaultTypes
  <2>2. /\ Reply(v, <<>>) /\ file' = Written(file, pos, call.data) /\ pos' = pos + Len(call.data)
        /\ Did("ok", Len(call.data), <<>>)
    BY <1>4, Zenon DEF ServeWrite
  <2> HIDE DEF v
  <2>3. outcome' = OkResult(Len(call.data))
    BY <1>1, <2>2 DEF OkResult
  <2> QED BY <1>4, <2>1, <2>2, <2>3 DEF Served
<1>5. CASE call.op = "W" /\ ServeWriteFails(call)
  <2>1. outcome' = Failed
    BY <1>1, <1>5 DEF ServeWriteFails, Failed
  <2> QED BY <1>5, <2>1, Zenon DEF ServeWriteFails, Served
<1>6. CASE call.op = "S" /\ ServeSeek(call)
  <2> DEFINE p == SeekTarget(file, pos, call.n, call.whence)
  <2>1. p \in Int
    BY CallFacts DEF SeekTarget, TypeOK
  <2> HIDE DEF p
  <2>2. /\ UNCHANGED file
        /\ \/ p < 0 /\ HostEnds /\ UNCHANGED <<toEngine, pos, outcome>>
           \/ ~(p < 0) /\ Reply(p, <<>>) /\ pos' = p /\ Did("ok", p, <<>>)
    BY <1>6, Zenon DEF ServeSeek, p
  <2>3. CASE ~(p < 0) /\ Reply(p, <<>>) /\ pos' = p /\ Did("ok", p, <<>>)
    <3>1. outcome' = OkResult(p) /\ p >= 0
      BY <1>1, <2>1, <2>3 DEF OkResult
    <3> QED BY <1>6, <2>2, <2>3, <3>1 DEF Served, p
  <2> QED BY <2>2, <2>3 DEF Served
<1>7. CASE call.op = "Z" /\ ServeSize
  <2>1. outcome' = OkResult(Len(file))
    BY <1>1, <1>7 DEF ServeSize, OkResult
  <2> QED BY <1>7, <2>1 DEF ServeSize, Served
<1> QED BY <1>2, <1>3, <1>4, <1>5, <1>6, <1>7 DEF Served

\* A reply to a request is its header, with its number.
LEMMA ReplyHeader ==
  ASSUME TypeOK, NEW v, NEW payload, Reply(v, payload), sock = "open", toEngine = <<>>
  PROVE  toEngine'[1].val = v
<1>1. toEngine' = <<[val |-> v, req |-> Head(toHost).req, part |-> "head"]>>
  BY DEF Reply
<1> QED BY <1>1

LEMMA ServeDone == ASSUME SessionInv, Serve PROVE DoneInv'
<1> USE DEF SessionInv
<1>0. /\ UNCHANGED <<phase, sock, call, seenPos>>
      /\ toHost # <<>> /\ toHost' = Tail(toHost)
  BY DEF Serve, engineVars
<1>1. Len(toHost') <= 1
  <2>1. Len(toHost') = Len(toHost) - 1 /\ Len(toHost) \in Nat
    BY <1>0, TailQueue DEF TypeOK
  <2> QED BY <2>1 DEF DoneInv
<1>2. CASE phase = "idle"
  BY <1>0, <1>1, <1>2 DEF DoneInv
<1>3. CASE phase = "head"
  <2>1. /\ sock = "open" /\ toEngine = <<>> /\ toHost' = <<>> /\ toHost # <<>>
        /\ file = seen /\ pos = seenPos
    BY <1>0, <1>3, ServeContext DEF PictureInv, Same
  <2>2. Served(call)
    BY <1>3, ServeAwaited
  <2>3. CASE toEngine' = <<>>
    BY <1>0, <1>1, <1>3, <2>1, <2>3 DEF DoneInv
  <2>4. CASE call.op = "R" /\ Reply(ReadFailed, <<>>)
    <3>1. toEngine'[1].val = ReadFailed
      BY <2>1, <2>4, ReplyHeader
    <3> QED BY <1>0, <1>1, <1>3, <2>1, <2>4, <3>1 DEF DoneInv
  <2>5. CASE /\ call.op = "R" /\ file' = file
             /\ outcome' = ReadResult(BytesAt(file, pos, call.n))
    <3>1. Told' = BytesAt(file, pos, call.n)
      BY <1>0, <2>1, <2>5 DEF Told
    <3>2. outcome' = ReadResult(Told)'
      BY <2>5, <3>1 DEF ReadResult
    <3> QED BY <1>0, <1>1, <1>3, <2>1, <2>5, <3>2 DEF DoneInv
  <2>6. CASE call.op = "W" /\ outcome' = OkResult(Len(call.data))
    <3>1. outcome' = OkResult(Len(call.data))'
      BY <1>0, <2>6 DEF OkResult
    <3> QED BY <1>0, <1>1, <1>3, <2>1, <2>6, <3>1 DEF DoneInv
  <2>7. ASSUME NEW v, call.op \in {"S", "Z"}, outcome' = OkResult(v), Reply(v, <<>>)
        PROVE  DoneInv'
    <3>1. toEngine'[1].val = v
      BY <2>1, <2>7, ReplyHeader
    <3>2. outcome' = OkResult(toEngine[1].val)'
      BY <2>7, <3>1 DEF OkResult
    <3> QED BY <1>0, <1>1, <1>3, <2>1, <2>7, <3>2 DEF DoneInv
  <2> QED BY <2>1, <2>2, <2>3, <2>4, <2>5, <2>6, <2>7 DEF Served
<1> QED BY <1>2, <1>3, ServeContext

LEMMA HostRestDone ==
  ASSUME SessionInv, SendPayload \/ HostSeesEOF \/ HostVanishes
  PROVE  DoneInv'
<1> USE DEF SessionInv
<1>0. UNCHANGED <<phase, sock, call, toHost, file, seenPos, outcome>>
  BY DEF SendPayload, HostSeesEOF, HostVanishes, engineVars, channelVars
<1>1. UNCHANGED <<Told, ReadResult(Told)>>
  BY <1>0 DEF Told, ReadResult
<1>2. phase = "head" /\ toEngine' # <<>> => toEngine # <<>> /\ toEngine'[1] = toEngine[1]
  <2> SUFFICES ASSUME phase = "head", toEngine' # toEngine
               PROVE  toEngine # <<>> /\ toEngine'[1] = toEngine[1]
    OBVIOUS
  <2>1. hostPay # <<>> /\ toEngine' = Append(toEngine, Head(hostPay))
    BY DEF SendPayload, HostSeesEOF, HostVanishes, channelVars
  <2>2. /\ toEngine # <<>> /\ toEngine \in Seq(Reply_) /\ Head(hostPay) \in Reply_
    BY <2>1, QueueTypes DEF TypeOK, InStepInv, HeadInv
  <2>3. Len(toEngine) > 0 /\ Len(toEngine) \in Nat
    BY <2>2, TailQueue
  <2> QED BY <2>1, <2>2, <2>3, AppendQueue
<1>3. UNCHANGED OkResult(Len(call.data)) /\ (toEngine'[1] = toEngine[1] => UNCHANGED OkResult(toEngine[1].val))
  BY <1>0 DEF OkResult
<1> QED BY <1>0, <1>1, <1>2, <1>3 DEF DoneInv

\* The invariant, in every state.
LEMMA SessionInvInit == Init => SessionInv
<1> SUFFICES ASSUME Init PROVE SessionInv
  OBVIOUS
<1>1. ReadInv
  BY DEF Init, NoCall, ReadInv
<1>2. Len(<<>>) = 0
  OBVIOUS
<1>3. DoneInv
  BY <1>2 DEF Init, DoneInv
<1> QED BY <1>1, <1>3, InitType, InStepInvInit, PictureInvInit DEF SessionInv

LEMMA SessionInvNext == SessionInv /\ [Next]_vars => SessionInv'
<1> SUFFICES ASSUME SessionInv, [Next]_vars PROVE SessionInv'
  OBVIOUS
<1>1. TypeOK' /\ InStepInv' /\ PictureInv' /\ ReadInv'
  BY NextType, InStepInvNext, PictureInvNext, ReadInvNext DEF SessionInv
<1>2. DoneInv'
  <2>1. CASE SendRequest
    BY <2>1, SendRequestDone DEF SessionInv
  <2>2. CASE EngineStep
    BY <1>1, <2>2, EngineStepDone DEF EngineStep
  <2>3. CASE Close \/ OtherDial
    BY <2>3, EngineRestDone DEF SessionInv
  <2>4. CASE HostStep \/ HostVanishes
    BY <2>4, ServeDone, HostRestDone DEF HostStep
  <2>5. CASE UNCHANGED vars
    <3>1. UNCHANGED <<phase, call, toHost, toEngine, outcome, file, seenPos>>
      BY <2>5 DEF vars, engineVars, channelVars, hostVars
    <3>2. UNCHANGED <<ReadResult(Told), OkResult(Len(call.data)), OkResult(toEngine[1].val)>>
      BY <3>1 DEF ReadResult, OkResult, Told
    <3> QED BY <3>1, <3>2 DEF SessionInv, DoneInv
  <2> QED BY <2>1, <2>2, <2>3, <2>4, <2>5 DEF Next
<1> QED BY <1>1, <1>2 DEF SessionInv
-----------------------------------------------------------------------------
(* The file the session stands for *)

\* Both modules speak of the host's files in the same words.
LEMMA SameFile ==
  ASSUME NEW f, NEW p, NEW n, NEW w, NEW d
  PROVE  /\ Promise!BytesAt(f, p, n) = BytesAt(f, p, n)
         /\ Promise!Written(f, p, d) = Written(f, p, d)
         /\ Promise!SeekTarget(f, p, n, w) = SeekTarget(f, p, n, w)
         /\ Promise!Nothing = Nothing /\ Promise!Failed = Failed
<1>1. Promise!BytesAt(f, p, n) = BytesAt(f, p, n) /\ Promise!Written(f, p, d) = Written(f, p, d)
  BY DEF Promise!BytesAt, BytesAt, Promise!Written, Written
<1>2. Promise!SeekTarget(f, p, n, w) = SeekTarget(f, p, n, w)
  BY Zenon DEF Promise!SeekTarget, SeekTarget, Promise!SeekSet, SeekSet, Promise!SeekCur, SeekCur
<1> QED BY <1>1, <1>2 DEF Promise!Nothing, Nothing, Promise!Failed, Failed

\* What each call does to the file.
LEMMA Effects ==
  ASSUME NEW c, NEW f, NEW p
  PROVE  /\ c.op = "R" => /\ Promise!ResultOf(c, f, p) = ReadResult(BytesAt(f, p, c.n))
                          /\ Promise!FileAfter(c, f, p) = f
                          /\ Promise!PosAfter(c, f, p) = p + Len(BytesAt(f, p, c.n))
         /\ c.op = "W" => /\ Promise!ResultOf(c, f, p) = OkResult(Len(c.data))
                          /\ Promise!FileAfter(c, f, p) = Written(f, p, c.data)
                          /\ Promise!PosAfter(c, f, p) = p + Len(c.data)
         /\ c.op = "S" => /\ Promise!ResultOf(c, f, p) = OkResult(SeekTarget(f, p, c.n, c.whence))
                          /\ Promise!FileAfter(c, f, p) = f
                          /\ Promise!PosAfter(c, f, p) = SeekTarget(f, p, c.n, c.whence)
         /\ c.op = "Z" => /\ Promise!ResultOf(c, f, p) = OkResult(Len(f))
                          /\ Promise!FileAfter(c, f, p) = f
                          /\ Promise!PosAfter(c, f, p) = p
         /\ Promise!CanTakeEffect(c, f, p) <=> (c.op = "S" => SeekTarget(f, p, c.n, c.whence) >= 0)
<1>0. /\ Promise!BytesAt(f, p, c.n) = BytesAt(f, p, c.n)
      /\ Promise!Written(f, p, c.data) = Written(f, p, c.data)
      /\ Promise!SeekTarget(f, p, c.n, c.whence) = SeekTarget(f, p, c.n, c.whence)
  BY SameFile
<1>1. c.op = "R" => /\ Promise!ResultOf(c, f, p) = ReadResult(BytesAt(f, p, c.n))
                    /\ Promise!FileAfter(c, f, p) = f
                    /\ Promise!PosAfter(c, f, p) = p + Len(BytesAt(f, p, c.n))
  BY <1>0, Zenon DEF Promise!ResultOf, Promise!FileAfter, Promise!PosAfter, ReadResult
<1>2. c.op = "W" => /\ Promise!ResultOf(c, f, p) = OkResult(Len(c.data))
                    /\ Promise!FileAfter(c, f, p) = Written(f, p, c.data)
                    /\ Promise!PosAfter(c, f, p) = p + Len(c.data)
  BY <1>0, Zenon DEF Promise!ResultOf, Promise!FileAfter, Promise!PosAfter, OkResult
<1>3. c.op = "S" => /\ Promise!ResultOf(c, f, p) = OkResult(SeekTarget(f, p, c.n, c.whence))
                    /\ Promise!FileAfter(c, f, p) = f
                    /\ Promise!PosAfter(c, f, p) = SeekTarget(f, p, c.n, c.whence)
  BY <1>0, Zenon DEF Promise!ResultOf, Promise!FileAfter, Promise!PosAfter, OkResult
<1>4. c.op = "Z" => /\ Promise!ResultOf(c, f, p) = OkResult(Len(f))
                    /\ Promise!FileAfter(c, f, p) = f
                    /\ Promise!PosAfter(c, f, p) = p
  BY <1>0, Zenon DEF Promise!ResultOf, Promise!FileAfter, Promise!PosAfter, OkResult
<1> QED BY <1>0, <1>1, <1>2, <1>3, <1>4 DEF Promise!CanTakeEffect

\* Whether calls can succeed.
LEMMA Healths ==
  /\ sock = "open" => AbstractHealth = "ok"
  /\ sock = "shut" => AbstractHealth = "failed"
  /\ sock = "closed" => AbstractHealth = "closed"
  /\ sock' = "open" => AbstractHealth' = "ok"
  /\ sock' = "shut" => AbstractHealth' = "failed"
  /\ sock' = "closed" => AbstractHealth' = "closed"
  /\ UNCHANGED sock => UNCHANGED AbstractHealth
  BY Zenon DEF AbstractHealth

\* A call in progress has nothing left of an earlier one.
LEMMA CallLate ==
  /\ phase # "idle" => AbstractCall = call /\ AbstractLate = NoCall
  /\ phase' # "idle" => AbstractCall' = call' /\ AbstractLate' = NoCall
  /\ phase = "idle" => AbstractCall = NoCall
  /\ phase' = "idle" => AbstractCall' = NoCall
  /\ toHost = <<>> => AbstractLate = NoCall
  /\ toHost' = <<>> => AbstractLate' = NoCall
  /\ UNCHANGED <<phase, toHost>> => UNCHANGED AbstractLate
  /\ UNCHANGED <<phase, call>> => UNCHANGED AbstractCall
  BY DEF AbstractCall, AbstractLate
-----------------------------------------------------------------------------
(* Every step is one of the file's *)

\* Nothing the file shows has changed.
LEMMA Stutters ==
  ASSUME UNCHANGED <<file, pos, made, outcome, ret, AbstractCall, AbstractLate, AbstractHealth>>
  PROVE  UNCHANGED Promise!vars
  BY DEF Promise!vars

\* Failing a call.
LEMMA FailSteps ==
  ASSUME SessionInv, phase # "idle", FailCall, UNCHANGED <<call, made, toHost, file, pos, outcome>>
  PROVE  Promise!Fail
<1> USE DEF SessionInv
<1>1. /\ phase' = "idle" /\ sock' = "shut" /\ ret' = Failed
      /\ call # NoCall /\ AbstractCall = call /\ AbstractCall' = NoCall /\ AbstractHealth' = "failed"
  BY CallLate, Healths DEF FailCall, afio_fail, PictureInv
<1>2. Promise!Failed = Failed /\ Promise!Nothing = Nothing
  BY SameFile
<1>3. \/ AbstractLate' = NoCall
      \/ AbstractLate' = call /\ outcome = Nothing
  <2>1. CASE toHost = <<>>
    BY <2>1, CallLate
  <2>2. CASE toHost # <<>>
    <3>1. phase = "head"
      BY <2>2 DEF InStepInv, BodyInv, TypeOK
    <3>2. Head(toHost).c = call /\ outcome = Nothing
      BY <2>2, <3>1, TailQueue DEF InStepInv, HeadInv, DoneInv, TypeOK
    <3> QED BY <3>2 DEF AbstractLate
  <2> QED BY <2>1, <2>2
<1> QED BY <1>1, <1>2, <1>3 DEF Promise!Fail

\* A call starts, or is refused with nothing sent that the host could serve.
LEMMA SendRequestSteps ==
  ASSUME SessionInv, SendRequest
  PROVE  Promise!Refuse \/ \E c \in CallSet : Promise!Start(c)
<1> USE DEF SessionInv
<1>1. PICK c \in CallsOf(cfg.mode, made + 1) :
        /\ phase = "idle" /\ sock # "closed" /\ made < MaxCalls
        /\ call' = c /\ made' = made + 1 /\ outcome' = Nothing
        /\ UNCHANGED <<file, pos>>
        /\ \/ /\ sock = "open" /\ phase' = "head" /\ UNCHANGED <<sock, ret>>
           \/ afio_fail(c) /\ UNCHANGED toHost
           \/ /\ sock = "open" /\ afio_fail(c)
              /\ toHost' = Append(toHost, [frame |-> "partial", c |-> c, req |-> made'])
  BY Zenon DEF SendRequest
<1>2. Promise!Failed = Failed /\ Promise!Nothing = Nothing
  BY SameFile
<1>3. CASE sock = "open" /\ phase' = "head" /\ UNCHANGED <<sock, ret>>
  <2>1. c \in CallSet
    <3>1. made + 1 \in 1..MaxCalls
      BY <1>1, SessionAssumption DEF TypeOK
    <3> QED BY <1>1, <3>1, CallsOfType
  <2>2. toHost = <<>>
    BY <1>1, <1>3 DEF InStepInv, IdleInv
  <2>3. Promise!Start(c)
    BY <1>1, <1>2, <1>3, <2>2, CallLate, Healths DEF Promise!Start
  <2> QED BY <2>1, <2>3
<1>4. ASSUME afio_fail(c), UNCHANGED AbstractLate PROVE Promise!Refuse
  <2>1. phase' = "idle" /\ sock' = "shut" /\ ret' = Failed
    BY <1>4 DEF afio_fail
  <2>2. AbstractHealth \in {"ok", "failed"} /\ AbstractHealth' = "failed"
    BY <1>1, <2>1, Healths DEF TypeOK
  <2> QED BY <1>1, <1>2, <1>4, <2>1, <2>2, CallLate DEF Promise!Refuse
<1>5. CASE afio_fail(c) /\ UNCHANGED toHost
  <2>1. UNCHANGED AbstractLate
    BY <1>1, <1>5, CallLate DEF afio_fail
  <2> QED BY <1>4, <1>5, <2>1
<1>6. CASE /\ sock = "open" /\ afio_fail(c)
           /\ toHost' = Append(toHost, [frame |-> "partial", c |-> c, req |-> made'])
  <2>1. toHost = <<>> /\ Head(toHost').frame = "partial"
    BY <1>1, <1>6, FirstFrame
  <2>2. UNCHANGED AbstractLate
    BY <2>1 DEF AbstractLate
  <2> QED BY <1>4, <1>6, <2>2
<1> QED BY <1>1, <1>3, <1>5, <1>6

\* A reply returns what was done, or does not show yet; whatever else happens
\* while one is awaited fails the call.
LEMMA EngineSteps ==
  ASSUME SessionInv, SessionInv', EngineStep
  PROVE  Promise!Return \/ Promise!Fail \/ UNCHANGED Promise!vars
<1>0. ReadInv' /\ (phase # "idle" => AbstractCall = call /\ call # NoCall)
  BY CallLate DEF SessionInv, PictureInv
<1>1. ASSUME phase # "idle", phase' = "idle", ret' = outcome, outcome.st \in {"ok", "eof"}, toHost = <<>>,
             UNCHANGED <<call, made, toHost, file, pos, outcome, sock>>
      PROVE  Promise!Return
  BY <1>0, <1>1, CallLate, Healths DEF Promise!Return
<1>2. ASSUME phase # "idle", phase' = "body", UNCHANGED <<call, made, file, pos, outcome, sock, ret>>
      PROVE  UNCHANGED Promise!vars
  BY <1>2, CallLate, Healths, Stutters
<1>3. CASE RecvHead
  BY <1>0, <1>1, <1>2, <1>3, HeaderReturns, FailSteps
<1>4. CASE RecvByte
  BY <1>0, <1>1, <1>2, <1>4, LastByteReturns
<1>5. CASE PeerGone \/ DeadlineExpires
  BY <1>5, FailSteps DEF PeerGone, DeadlineExpires, channelVars, hostVars
<1> QED BY <1>3, <1>4, <1>5 DEF EngineStep

\* The close, and another dial, which does not show.
LEMMA CloseSteps == ASSUME SessionInv, Close PROVE Promise!Close
<1> USE DEF SessionInv
<1>1. /\ phase = "idle" /\ UNCHANGED <<phase, call, made, file, pos, outcome>>
      /\ sock # "closed" /\ sock' = "closed"
      /\ \/ sock = "open" /\ toHost' = Append(toHost, [frame |-> "C", c |-> call, req |-> made])
         \/ UNCHANGED toHost
      /\ \/ ret' = Failed
         \/ sock = "open" /\ ret' = [st |-> "closed", val |-> 0, data |-> <<>>]
  BY DEF Close, hostVars, Nothing
<1>2. UNCHANGED AbstractLate
  <2>1. CASE sock = "open" /\ toHost' = Append(toHost, [frame |-> "C", c |-> call, req |-> made])
    <3>1. toHost = <<>> /\ Head(toHost').frame = "C"
      BY <1>1, <2>1, FirstFrame
    <3> QED BY <3>1 DEF AbstractLate
  <2> QED BY <1>1, <2>1, CallLate
<1>3. /\ AbstractHealth \in {"ok", "failed"} /\ AbstractHealth' = "closed"
      /\ sock = "open" => AbstractHealth = "ok"
  BY <1>1, Healths DEF TypeOK
<1>4. Promise!Failed = Failed
  BY SameFile
<1> QED BY <1>1, <1>2, <1>3, <1>4, CallLate DEF Promise!Close

LEMMA OtherDialSteps == ASSUME OtherDial PROVE UNCHANGED Promise!vars
<1>1. UNCHANGED <<phase, call, toHost, sock, file, pos, made, outcome, ret>>
  BY DEF OtherDial, channelVars, hostVars
<1> QED BY <1>1, CallLate, Healths, Stutters

\* The host serves the call in progress: it takes effect, is spoilt, or not yet.
LEMMA ServeSteps ==
  ASSUME SessionInv, Serve, phase = "head"
  PROVE  Promise!TakeEffect \/ Promise!Spoil \/ UNCHANGED Promise!vars
<1> USE DEF SessionInv
<1>1. /\ UNCHANGED <<phase, sock, call, made, ret>> /\ toHost # <<>>
      /\ UNCHANGED <<AbstractCall, AbstractLate, AbstractHealth>>
      /\ AbstractCall = call /\ call # NoCall /\ outcome = Nothing
  <2>1. UNCHANGED <<phase, sock, call, made, ret>> /\ toHost # <<>>
    BY DEF Serve, engineVars
  <2> QED BY <2>1, CallLate, Healths DEF PictureInv, DoneInv
<1>2. Promise!Failed = Failed /\ Promise!Nothing = Nothing
  BY SameFile
<1>3. Served(call)
  BY ServeAwaited
<1>4. ASSUME Promise!CanTakeEffect(call, file, pos),
             outcome' = Promise!ResultOf(call, file, pos),
             file' = Promise!FileAfter(call, file, pos),
             pos' = Promise!PosAfter(call, file, pos)
      PROVE  Promise!TakeEffect
  BY <1>1, <1>2, <1>4 DEF Promise!TakeEffect
<1>5. CASE UNCHANGED <<file, pos, outcome>>
  BY <1>1, <1>5, Stutters
<1>6. CASE /\ call.op = "R" /\ file' = file /\ pos' = pos + Len(BytesAt(file, pos, call.n))
           /\ outcome' = ReadResult(BytesAt(file, pos, call.n))
  BY <1>4, <1>6, Effects
<1>7. CASE /\ call.op = "W" /\ file' = Written(file, pos, call.data) /\ pos' = pos + Len(call.data)
           /\ outcome' = OkResult(Len(call.data))
  BY <1>4, <1>7, Effects
<1>8. CASE /\ call.op = "W" /\ outcome' = Failed
           /\ \E k \in 0..(Len(call.data) - 1) :
                file' = Written(file, pos, SubSeq(call.data, 1, k)) /\ pos' = pos + k
  <2>1. \E k \in 0..(Len(call.data) - 1) :
          file' = Promise!Written(file, pos, SubSeq(call.data, 1, k)) /\ pos' = pos + k
    BY <1>8, SameFile
  <2> QED BY <1>1, <1>2, <1>8, <2>1 DEF Promise!Spoil
<1>9. CASE /\ call.op = "S" /\ SeekTarget(file, pos, call.n, call.whence) >= 0
           /\ file' = file /\ pos' = SeekTarget(file, pos, call.n, call.whence)
           /\ outcome' = OkResult(pos')
  BY <1>4, <1>9, Effects
<1>10. CASE /\ call.op = "Z" /\ UNCHANGED <<file, pos>> /\ outcome' = OkResult(Len(file))
  BY <1>4, <1>10, Effects
<1> QED BY <1>3, <1>5, <1>6, <1>7, <1>8, <1>9, <1>10 DEF Served

\* The host serves a call that failed: it takes effect late, or is lost.
LEMMA ServeLateSteps ==
  ASSUME SessionInv, Serve, phase = "idle"
  PROVE  Promise!LateEffect \/ Promise!LateLost \/ UNCHANGED Promise!vars
<1> USE DEF SessionInv
<1> DEFINE q == Head(toHost)
<1>1. /\ UNCHANGED <<phase, sock, call, made, ret>> /\ toHost # <<>>
      /\ UNCHANGED <<AbstractCall, AbstractHealth>>
      /\ AbstractLate' = NoCall
  <2>1. UNCHANGED <<phase, sock, call, made, ret>> /\ toHost # <<>> /\ toHost' = Tail(toHost)
    BY DEF Serve, engineVars
  <2>2. Len(toHost') = 0 /\ toHost' \in Seq(Frame)
    <3>1. Len(toHost) > 0 /\ Len(toHost') = Len(toHost) - 1 /\ Len(toHost) \in Nat
      BY <2>1, TailQueue DEF TypeOK
    <3>2. Len(toHost) = 1
      BY <3>1 DEF DoneInv
    <3> QED BY <2>1, <3>1, <3>2, QueueTypes DEF TypeOK
  <2>3. toHost' = <<>>
    BY <2>2, EmptyQueue
  <2> QED BY <2>1, <2>3, CallLate, Healths
<1>2. \A st, v, d : Did(st, v, d) => UNCHANGED outcome
  BY DEF Did
<1>3. \/ q.frame \in {"C", "partial"} /\ UNCHANGED <<file, pos, outcome>>
      \/ q.frame = "R" /\ ServeRead(q.c)
      \/ q.frame = "W" /\ (ServeWrite(q.c) \/ ServeWriteFails(q.c))
      \/ q.frame = "S" /\ ServeSeek(q.c)
      \/ q.frame = "Z" /\ ServeSize
  BY Zenon DEF Serve
<1>4. CASE q.frame \in {"C", "partial"} /\ UNCHANGED <<file, pos, outcome>>
  <2>1. UNCHANGED AbstractLate
    BY <1>1, <1>4 DEF AbstractLate
  <2> QED BY <1>1, <1>4, <2>1, Stutters
<1>5. CASE q.frame \notin {"C", "partial"}
  <2>1. q.c.op = q.frame /\ AbstractLate = q.c /\ q.c # NoCall /\ q.c.n \in Int
    <3>1. q \in Frame
      BY <1>1, QueueTypes DEF TypeOK
    <3>2. q.c \in CallSet /\ q.c.op = q.frame
      BY <1>5, <3>1 DEF Frame
    <3>3. q.c.op # "none" /\ q.c.n \in Int
      BY <3>2, CallTypes
    <3> QED BY <1>1, <1>5, <3>2, <3>3 DEF AbstractLate, NoCall
  <2>2. ASSUME UNCHANGED <<file, pos, outcome>> PROVE Promise!LateLost
    BY <1>1, <2>1, <2>2 DEF Promise!LateLost
  <2>3. ASSUME Promise!CanTakeEffect(q.c, file, pos), UNCHANGED outcome,
               file' = Promise!FileAfter(q.c, file, pos),
               pos' = Promise!PosAfter(q.c, file, pos)
        PROVE  Promise!LateEffect
    BY <1>1, <2>1, <2>3 DEF Promise!LateEffect
  <2>4. CASE q.frame = "R" /\ ServeRead(q.c)
    <3>1. /\ file' = file /\ UNCHANGED outcome
          /\ pos' = pos \/ pos' = pos + Len(BytesAt(file, pos, q.c.n))
      BY <1>2, <2>4, Zenon DEF ServeRead
    <3> QED BY <2>1, <2>2, <2>3, <2>4, <3>1, Effects
  <2>5. CASE q.frame = "W" /\ ServeWrite(q.c)
    <3>1. /\ file' = Written(file, pos, q.c.data) /\ pos' = pos + Len(q.c.data)
          /\ UNCHANGED outcome
      BY <1>2, <2>5, Zenon DEF ServeWrite
    <3> QED BY <2>1, <2>3, <2>5, <3>1, Effects
  <2>6. CASE q.frame = "W" /\ ServeWriteFails(q.c)
    <3>1. /\ UNCHANGED outcome
          /\ \E k \in 0..(Len(q.c.data) - 1) :
               file' = Written(file, pos, SubSeq(q.c.data, 1, k)) /\ pos' = pos + k
      BY <1>2, <2>6, Zenon DEF ServeWriteFails
    <3>2. \E k \in 0..(Len(q.c.data) - 1) :
            file' = Promise!Written(file, pos, SubSeq(q.c.data, 1, k)) /\ pos' = pos + k
      BY <3>1, SameFile
    <3>3. q.c.op = "W" => Promise!CanTakeEffect(q.c, file, pos)
      BY Effects
    <3> QED BY <1>1, <2>1, <2>6, <3>1, <3>2, <3>3 DEF Promise!LateEffect
  <2>7. CASE q.frame = "S" /\ ServeSeek(q.c)
    <3> DEFINE p == SeekTarget(file, pos, q.c.n, q.c.whence)
    <3>1. p \in Int
      BY <2>1 DEF SeekTarget, TypeOK
    <3> HIDE DEF p
    <3>2. /\ file' = file /\ UNCHANGED outcome
          /\ pos' = pos \/ (~(p < 0) /\ pos' = p)
      BY <1>2, <2>7, Zenon DEF ServeSeek, p
    <3>3. CASE pos' = pos
      BY <2>2, <3>2, <3>3
    <3>4. CASE ~(p < 0) /\ pos' = p
      <4>1. p >= 0
        BY <3>1, <3>4
      <4> QED BY <2>1, <2>3, <2>7, <3>2, <3>4, <4>1, Effects DEF p
    <3> QED BY <3>2, <3>3, <3>4
  <2>8. CASE q.frame = "Z" /\ ServeSize
    <3>1. UNCHANGED <<file, pos, outcome>>
      BY <1>2, <2>8 DEF ServeSize
    <3> QED BY <2>2, <3>1
  <2> QED BY <1>3, <1>5, <2>4, <2>5, <2>6, <2>7, <2>8
<1> QED BY <1>3, <1>4, <1>5

\* What else the host does does not show.
LEMMA HostRestSteps ==
  ASSUME SendPayload \/ HostSeesEOF \/ HostVanishes
  PROVE  UNCHANGED Promise!vars
<1>1. UNCHANGED <<phase, call, toHost, sock, file, pos, made, outcome, ret>>
  BY DEF SendPayload, HostSeesEOF, HostVanishes, engineVars, channelVars
<1> QED BY <1>1, CallLate, Healths, Stutters
-----------------------------------------------------------------------------
(* The theorem *)

\* To libav a bridged file is a file: a call that returns took effect exactly
\* once and returned the truth; one that fails took effect at most once, maybe
\* late, and is the last to have any effect (nativeio.c 140-165, 329-460,
\* host.go 206-245, 460-560).
THEOREM SessionKeepsPromise == Spec => KeepsPromise
<1>1. Init => Promise!Init
  <2> SUFFICES ASSUME Init PROVE Promise!Init
    OBVIOUS
  <2>1. AbstractCall = NoCall /\ AbstractLate = NoCall /\ AbstractHealth = "ok"
    BY CallLate, Healths DEF Init
  <2>2. file \in Seq(Int)
    BY InitType DEF TypeOK
  <2>3. Promise!Nothing = Nothing
    BY SameFile
  <2> QED BY <2>1, <2>2, <2>3 DEF Init, Promise!Init
<1>2. SessionInv /\ SessionInv' /\ [Next]_vars => [Promise!Next]_(Promise!vars)
  <2> SUFFICES ASSUME SessionInv, SessionInv', [Next]_vars
               PROVE  Promise!Next \/ UNCHANGED Promise!vars
    OBVIOUS
  <2>1. CASE SendRequest
    BY <2>1, SendRequestSteps DEF Promise!Next
  <2>2. CASE EngineStep
    BY <2>2, EngineSteps DEF Promise!Next
  <2>3. CASE Close
    BY <2>3, CloseSteps DEF Promise!Next
  <2>4. CASE OtherDial
    BY <2>4, OtherDialSteps
  <2>5. CASE Serve
    BY <2>5, ServeContext, ServeSteps, ServeLateSteps DEF SessionInv, Promise!Next
  <2>6. CASE SendPayload \/ HostSeesEOF \/ HostVanishes
    BY <2>6, HostRestSteps
  <2>7. CASE UNCHANGED vars
    <3>1. UNCHANGED <<phase, call, toHost, sock, file, pos, made, outcome, ret>>
      BY <2>7 DEF vars, engineVars, channelVars, hostVars
    <3> QED BY <3>1, CallLate, Healths, Stutters
  <2> QED BY <2>1, <2>2, <2>3, <2>4, <2>5, <2>6, <2>7 DEF Next, HostStep
<1> QED BY <1>1, <1>2, SessionInvInit, SessionInvNext, PTL DEF Spec, KeepsPromise, Promise!Spec
=============================================================================
