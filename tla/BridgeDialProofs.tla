-------------------------- MODULE BridgeDialProofs ---------------------------
(***************************************************************************)
(* Negotiation, for any number of operations, names and files, hosts of    *)
(* either version that may lag behind, give lower answers or die: both     *)
(* ends of every connection speak the same version, replies are read as    *)
(* what they are, and the host never has to object.                        *)
(***************************************************************************)
EXTENDS BridgeDial, TLAPS

-----------------------------------------------------------------------------
(* The invariant *)

Asked      == Opens \cup Moves \cup Checks
CloseFrame == [tag |-> "C", v |-> 0, op |-> NoOp]
Part(o)    == IF o.kind = "E" THEN "exists" ELSE "status"

\* The engine waits for something on connection c.
Current(c) == pc # "idle" /\ conn = c

FreshInv(c) ==
  c > dials => /\ fd[c] = "none" /\ session[c] = "none" /\ spoken[c] = 0 /\ hostVersion[c] = 0
               /\ toHost[c] = <<>> /\ toEngine[c] = <<>> /\ ~attempted[c]

\* The preamble is on its way: alone when it will be answered, else with the
\* request behind it.
PreambleInv(c) ==
  session[c] = "version" =>
    /\ ~attempted[c] /\ toEngine[c] = <<>>
    /\ \/ spoken[c] = 0 /\ toHost[c] = <<Version(2)>>
       \/ /\ spoken[c] = 1
          /\ \E o \in Opens : toHost[c] = <<Version(1), Request(o)>> /\ (Current(c) => o = op)

\* A host in session has read everything, or has a first request before it that
\* its version knows, or the end of a connection it has opened a file on.
SessionInv(c) ==
  session[c] = "ready" =>
    /\ spoken[c] # 0 => spoken[c] = hostVersion[c]
    /\ \/ toHost[c] = <<>>
       \/ \E o \in Asked :
            /\ toHost[c] = <<Request(o)>> /\ ~attempted[c] /\ spoken[c] # 0
            /\ o.kind # "O" => hostVersion[c] = 2
            /\ Current(c) => o = op /\ toEngine[c] = <<>>
       \/ toHost[c] = <<CloseFrame>> /\ attempted[c] /\ fd[c] = "closed"

FdInv(c) ==
  /\ fd[c] = "mine" <=> Current(c)
  /\ fd[c] = "given" => attempted[c]

ConnInv(c) == FreshInv(c) /\ PreambleInv(c) /\ SessionInv(c) /\ FdInv(c)

\* What the engine waits for, and what it may find.
AnswerInv ==
  pc = "answer" =>
    /\ spoken[conn] = 0 /\ ~attempted[conn]
    /\ op.kind = "O" => announce = 2
    /\ \/ toEngine[conn] = <<>>
       \/ \E a \in 1..2 : /\ toEngine[conn] = <<[part |-> "answer", val |-> a, bytes |-> 1]>>
                          /\ hostVersion[conn] = a

ReplyInv ==
  pc = "reply" =>
    /\ spoken[conn] # 0
    /\ \/ toEngine[conn] = <<>>
       \/ \E r \in [part : {Part(op)}, val : 0..2, bytes : {1, 9}] :
            /\ toEngine[conn] = <<r>> /\ attempted[conn]
            /\ r.val = 0 /\ (op.kind = "E" => r.bytes = 9) => truth[conn] = "done"

WaitInv == pc # "idle" => conn \in Conns /\ conn <= dials /\ op \in Asked

\* What was done once is not done again.
RetInv == ret.st = "ok" => ret.conn \in Conns /\ attempted[ret.conn] /\ truth[ret.conn] = "done"

RedialInv == redials <= 1 /\ (announce = 2 => redials = 0)

DialInv ==
  /\ TypeOK
  /\ \A c \in Conns : ConnInv(c)
  /\ WaitInv /\ AnswerInv /\ ReplyInv /\ RetInv /\ RedialInv
  /\ protests = {}

-----------------------------------------------------------------------------
(* Frames, queues, and connections nothing happens on *)

Frame  == [tag : {"V", "O", "M", "E", "C"}, v : 0..2, op : Asked \cup {NoOp}]
Answer == [part : {"answer", "status", "exists"}, val : 0..2, bytes : {1, 9}]

LEMMA Queues ==
  /\ \A x : Head(<<x>>) = x /\ Tail(<<x>>) = <<>> /\ <<x>> # <<>> /\ Append(<<>>, x) = <<x>>
  /\ \A x, y : Head(<<x, y>>) = x /\ Tail(<<x, y>>) = <<y>> /\ <<x, y>> # <<>>
  OBVIOUS

LEMMA AskedTypes ==
  ASSUME NEW o \in Asked
  PROVE  /\ o # NoOp
         /\ o.kind \in {"O", "M", "E"}
         /\ o.kind = "O" => o \in Opens
         /\ o.kind = "M" => o \in Moves
         /\ o.kind = "E" => o \in Checks
         /\ Request(o).tag = o.kind /\ Request(o).op = o
         /\ Request(o) \in Frame
  BY DEF Asked, Opens, Moves, Checks, NoOp, Request, Frame

LEMMA OtherFrames ==
  /\ \A v \in 0..2 : Version(v) \in Frame /\ Version(v).v = v /\ Version(v).tag = "V"
  /\ CloseFrame \in Frame /\ CloseFrame.tag = "C"
  BY DEF Version, CloseFrame, Frame

\* A connection the engine does not wait on after the step, on which it has done
\* no more than close its end, be given the file, or take something it had read.
LEMMA LeftAlone ==
  ASSUME NEW c \in Conns, ConnInv(c), ~Current(c)', dials \in Nat, dials' \in Nat, dials' >= dials,
         c <= dials \/ c > dials',
         UNCHANGED <<spoken[c], toHost[c], session[c], hostVersion[c], attempted[c]>>,
         \/ UNCHANGED toEngine[c]
         \/ c <= dials /\ session[c] # "version",
         \/ ~Current(c) /\ UNCHANGED fd[c]
         \/ c <= dials /\ fd'[c] = "closed"
         \/ c <= dials /\ fd'[c] = "given" /\ attempted[c] /\ fd[c] # "closed"
  PROVE  ConnInv(c)'
<1>1. c \in Nat
  BY DEF Conns
<1>2. FreshInv(c)'
  BY <1>1 DEF ConnInv, FreshInv, FdInv
<1>3. PreambleInv(c)'
  BY DEF ConnInv, PreambleInv
<1>4. FdInv(c)'
  BY DEF ConnInv, FdInv
<1>5. SessionInv(c)'
  <2>1. fd[c] = "closed" => fd'[c] = "closed"
    OBVIOUS
  <2> QED BY <2>1 DEF ConnInv, SessionInv
<1> QED BY <1>2, <1>3, <1>4, <1>5 DEF ConnInv

\* A connection on which nothing happens, while the engine waits as it did.
LEMMA Untouched ==
  ASSUME NEW c \in Conns, ConnInv(c),
         UNCHANGED <<fd[c], spoken[c], toHost[c], toEngine[c], session[c], hostVersion[c],
                     attempted[c], dials, pc, op, conn>>
  PROVE  ConnInv(c)'
<1>1. Current(c)' <=> Current(c)
  BY DEF Current
<1>2. FreshInv(c)' /\ FdInv(c)'
  BY <1>1 DEF ConnInv, FreshInv, FdInv
<1>3. PreambleInv(c)' /\ SessionInv(c)'
  BY <1>1 DEF ConnInv, PreambleInv, SessionInv
<1> QED BY <1>2, <1>3 DEF ConnInv

\* A connection made, for a first or a second try.
LEMMA ConnectKeeps ==
  ASSUME DialInv, NEW o \in Asked, NEW v \in 1..2, dials + 1 \in Conns, Connect(dials + 1, o, v),
         v = 1 => o \in Opens,
         v = 2 /\ o.kind = "O" => announce' = 2,
         op' = o, UNCHANGED <<toEngine, hostVersion, attempted, truth>>,
         fd'[dials + 1] = "mine",
         \A c \in Conns \ {dials + 1} : IF Current(c) THEN fd'[c] = "closed" ELSE fd'[c] = fd[c]
  PROVE  /\ \A c \in Conns : ConnInv(c)'
         /\ WaitInv' /\ AnswerInv' /\ ReplyInv'
<1> PICK n \in Conns : n = dials + 1
  OBVIOUS
<1>0. TypeOK /\ Frame = [tag : {"V", "O", "M", "E", "C"}, v : 0..2,
                         op : Opens \cup Moves \cup Checks \cup {NoOp}]
  BY DEF DialInv, Frame, Asked
<1>1. /\ dials' = n /\ conn' = n /\ dials \in Nat /\ n \in Nat
      /\ session \in [Conns -> {"none", "version", "ready", "ended"}]
      /\ toHost \in [Conns -> Seq(Frame)] /\ spoken \in [Conns -> 0..2]
  <2>1. dials' = n /\ conn' = n
    BY DEF Connect
  <2>2. dials \in Nat /\ n \in Nat
    BY <1>0 DEF TypeOK, Conns
  <2> QED BY <1>0, <2>1, <2>2 DEF TypeOK
<1>2. /\ session' = [session EXCEPT ![n] = "version"]
      /\ \/ /\ v = 2 /\ toHost' = [toHost EXCEPT ![n] = <<Version(2)>>]
            /\ pc' = "answer" /\ UNCHANGED spoken
         \/ /\ v = 1 /\ toHost' = [toHost EXCEPT ![n] = <<Version(1), Request(o)>>]
            /\ pc' = "reply" /\ spoken' = [spoken EXCEPT ![n] = 1]
  <2>1. CASE v = 2
    BY <2>1 DEF Connect, Negotiated
  <2>2. CASE v = 1
    BY <2>2 DEF Connect, Negotiated
  <2> QED BY <2>1, <2>2
<1>3. /\ spoken[n] = 0 /\ hostVersion[n] = 0 /\ toEngine[n] = <<>> /\ ~attempted[n]
      /\ ConnInv(n)
  BY <1>1 DEF DialInv, ConnInv, FreshInv
<1>4. ASSUME NEW c \in Conns, c # n PROVE ConnInv(c)'
  <2>1. ConnInv(c) /\ ~Current(c)' /\ (c <= dials \/ c > n)
    BY <1>1, <1>4 DEF DialInv, Current, Conns
  <2>2. UNCHANGED <<spoken[c], toHost[c], session[c], hostVersion[c], attempted[c], toEngine[c]>>
    BY <1>1, <1>2, <1>4
  <2>3. \/ ~Current(c) /\ UNCHANGED fd[c]
        \/ c <= dials /\ fd'[c] = "closed"
    BY <1>4 DEF DialInv, WaitInv, Current
  <2>4. dials' >= dials
    BY <1>1
  <2> QED BY <1>1, <2>1, <2>2, <2>3, <2>4, LeftAlone
<1>5. ConnInv(n)'
  <2>1. Current(n)' /\ fd'[n] = "mine" /\ session'[n] = "version"
    BY <1>1, <1>2 DEF Current
  <2>2. FreshInv(n)' /\ SessionInv(n)' /\ FdInv(n)'
    BY <1>1, <2>1 DEF FreshInv, SessionInv, FdInv
  <2>3. PreambleInv(n)'
    BY <1>1, <1>2, <1>3 DEF PreambleInv
  <2> QED BY <2>2, <2>3 DEF ConnInv
<1>6. WaitInv'
  BY <1>1 DEF WaitInv
<1>7. AnswerInv' /\ ReplyInv'
  BY <1>1, <1>2, <1>3 DEF AnswerInv, ReplyInv
<1> QED BY <1>4, <1>5, <1>6, <1>7

-----------------------------------------------------------------------------
(* The engine *)

LEMMA FrameType ==
  /\ Frame = [tag : {"V", "O", "M", "E", "C"}, v : 0..2, op : Opens \cup Moves \cup Checks \cup {NoOp}]
  /\ Answer = [part : {"answer", "status", "exists"}, val : 0..2, bytes : {1, 9}]
  /\ Asked = Opens \cup Moves \cup Checks
  BY DEF Frame, Answer, Asked

LEMMA ConnectTypes ==
  ASSUME TypeOK, NEW o \in Asked, NEW v \in 1..2, dials + 1 \in Conns, Connect(dials + 1, o, v)
  PROVE  /\ dials' \in Conns /\ dials' = dials + 1 /\ conn' \in Conns
         /\ pc' \in {"answer", "reply"} /\ agreed' \in 1..2
         /\ session' \in [Conns -> {"none", "version", "ready", "ended"}]
         /\ spoken' \in [Conns -> 0..2]
         /\ toHost' \in [Conns -> Seq(Frame)]
<1>1. dials' = dials + 1 /\ conn' = dials + 1 /\ session' = [session EXCEPT ![dials + 1] = "version"]
  BY DEF Connect
<1>2. \/ /\ toHost' = [toHost EXCEPT ![dials + 1] = <<Version(v)>>]
         /\ pc' = "answer" /\ UNCHANGED <<spoken, agreed>>
      \/ /\ toHost' = [toHost EXCEPT ![dials + 1] = <<Version(v), Request(o)>>]
         /\ pc' = "reply" /\ spoken' = [spoken EXCEPT ![dials + 1] = v] /\ agreed' = v
  BY DEF Connect
<1>3. <<Version(v)>> \in Seq(Frame) /\ <<Version(v), Request(o)>> \in Seq(Frame)
  <2>1. Version(v) \in Frame /\ Request(o) \in Frame
    BY OtherFrames, AskedTypes
  <2> QED BY <2>1
<1>4. /\ session \in [Conns -> {"none", "version", "ready", "ended"}] /\ agreed \in 1..2
      /\ spoken \in [Conns -> 0..2] /\ toHost \in [Conns -> Seq(Frame)]
  BY FrameType DEF TypeOK
<1>5. toHost' \in [Conns -> Seq(Frame)]
  BY <1>2, <1>3, <1>4
<1>6. session' \in [Conns -> {"none", "version", "ready", "ended"}]
  BY <1>1, <1>4
<1>7. pc' \in {"answer", "reply"} /\ agreed' \in 1..2
  BY <1>2, <1>4
<1>8. spoken' \in [Conns -> 0..2]
  <2>1. v \in 0..2
    OBVIOUS
  <2> QED BY <1>2, <1>4, <2>1
<1> QED BY <1>1, <1>5, <1>6, <1>7, <1>8

LEMMA BeginKeeps == ASSUME DialInv, Begin PROVE DialInv'
<1> PICK o \in Asked :
       /\ pc = "idle" /\ ops < MaxOps /\ dials + 1 \in Conns
       /\ ops' = ops + 1
       /\ IF hostUp
            THEN /\ Connect(dials + 1, o, Announced(o))
                 /\ op' = o
                 /\ fd' = [fd EXCEPT ![dials + 1] = "mine"]
                 /\ UNCHANGED ret
            ELSE /\ Finish("error", 0)
                 /\ UNCHANGED <<conn, dials, fd, session, toHost, spoken, agreed>>
  <2> HIDE DEF Connect, Finish, Announced
  <2> QED BY DEF Begin, Asked
<1>1. UNCHANGED <<maxVersion, hostUp, announce, redials, toEngine, hostVersion, attempted,
                  opened, present, protests, truth>>
  <2> HIDE DEF Connect, Finish, Announced
  <2> QED BY DEF Begin
<1>2. TypeOK /\ RedialInv /\ protests = {} /\ RetInv
  BY DEF DialInv
<1>3. ops' \in 0..MaxOps
  BY <1>2, DialAssumption DEF TypeOK
<1>4. CASE hostUp
  <2>1. /\ Connect(dials + 1, o, Announced(o)) /\ op' = o /\ UNCHANGED ret
        /\ fd' = [fd EXCEPT ![dials + 1] = "mine"]
    BY <1>4
  <2>2. Announced(o) \in 1..2 /\ (Announced(o) = 1 => o \in Opens)
        /\ (Announced(o) = 2 /\ o.kind = "O" => announce' = 2)
    BY <1>1, <1>2, AskedTypes DEF Announced, Newest, TypeOK
  <2>3. fd \in [Conns -> {"none", "mine", "given", "closed"}]
    BY <1>2 DEF TypeOK
  <2>4. /\ fd'[dials + 1] = "mine"
        /\ \A c \in Conns \ {dials + 1} : IF Current(c) THEN fd'[c] = "closed" ELSE fd'[c] = fd[c]
    BY <2>1, <2>3 DEF Current
  <2> HIDE DEF Announced, Connect
  <2>5. (\A c \in Conns : ConnInv(c)') /\ WaitInv' /\ AnswerInv' /\ ReplyInv'
    BY <1>1, <2>1, <2>2, <2>4, ConnectKeeps
  <2>6. TypeOK'
    <3>1. /\ dials' \in Conns /\ dials' = dials + 1 /\ conn' \in Conns
          /\ pc' \in {"answer", "reply"} /\ agreed' \in 1..2
          /\ session' \in [Conns -> {"none", "version", "ready", "ended"}]
          /\ spoken' \in [Conns -> 0..2]
          /\ toHost' \in [Conns -> Seq(Frame)]
      BY <1>2, <2>1, <2>2, ConnectTypes
    <3>2. fd' \in [Conns -> {"none", "mine", "given", "closed"}] /\ redials' \in 0..dials'
      BY <1>1, <1>2, <2>1, <2>3, <3>1 DEF TypeOK, Conns
    <3> QED BY <1>1, <1>2, <1>3, <2>1, <3>1, <3>2, FrameType DEF TypeOK
  <2> QED BY <1>1, <1>2, <2>1, <2>5, <2>6 DEF DialInv, RetInv, RedialInv
<1>5. CASE ~hostUp
  <2>1. /\ pc' = "idle" /\ op' = NoOp /\ ret' = [st |-> "error", conn |-> 0]
        /\ UNCHANGED <<conn, dials, fd, session, toHost, spoken, agreed>>
    BY <1>5 DEF Finish
  <2>2. ASSUME NEW c \in Conns PROVE ConnInv(c)'
    <3>1. ConnInv(c) /\ ~Current(c) /\ ~Current(c)'
      BY <2>1 DEF DialInv, Current
    <3>2. dials \in Nat /\ c \in Nat
      BY <1>2 DEF TypeOK, Conns
    <3> QED BY <1>1, <2>1, <3>1, <3>2, LeftAlone
  <2>3. TypeOK'
    BY <1>1, <1>2, <1>3, <2>1 DEF TypeOK
  <2> QED BY <1>1, <1>2, <2>1, <2>2, <2>3
         DEF DialInv, WaitInv, AnswerInv, ReplyInv, RetInv, RedialInv
<1> QED BY <1>4, <1>5

\* What is known of the connection the engine waits on.
LEMMA Waiting ==
  ASSUME DialInv, pc # "idle"
  PROVE  /\ TypeOK /\ conn \in Conns /\ conn <= dials /\ dials \in Nat /\ op \in Asked
         /\ fd[conn] = "mine"
         /\ toEngine[conn] # <<>> => session[conn] # "version"
<1>1. TypeOK /\ conn \in Conns /\ conn <= dials /\ op \in Asked
  BY DEF DialInv, WaitInv
<1>2. dials \in Nat
  BY <1>1 DEF TypeOK, Conns
<1> PICK k \in Conns : k = conn
  BY <1>1
<1>3. Current(k) /\ FdInv(k) /\ PreambleInv(k)
  BY DEF DialInv, ConnInv, Current
<1>4. fd[k] = "mine" /\ (toEngine[k] # <<>> => session[k] # "version")
  BY <1>3 DEF FdInv, PreambleInv
<1> QED BY <1>1, <1>2, <1>4

\* The engine stops to wait: it closes its end, or has it given out.
LEMMA StopKeeps ==
  ASSUME DialInv, pc # "idle", NEW st \in {"ok", "error", "absent"}, NEW last \in {"given", "closed"},
         Finish(st, conn), fd' = [fd EXCEPT ![conn] = last],
         UNCHANGED <<conn, dials, redials, spoken, toHost, protests>>, UNCHANGED hostVars,
         announce' \in {announce, 1},
         \/ UNCHANGED toEngine
         \/ toEngine[conn] # <<>> /\ toEngine' = [toEngine EXCEPT ![conn] = Tail(@)],
         last = "given" => attempted[conn],
         st = "ok" => attempted[conn] /\ truth[conn] = "done",
         UNCHANGED <<maxVersion, hostUp, agreed, ops>>
  PROVE  DialInv'
<1> PICK k \in Conns : k = conn
  BY Waiting
<1>1. /\ TypeOK /\ k <= dials /\ dials \in Nat /\ op \in Asked /\ fd[k] = "mine"
      /\ toEngine[k] # <<>> => session[k] # "version"
  BY Waiting
<1>2. /\ pc' = "idle" /\ op' = NoOp /\ ret' = [st |-> st, conn |-> k]
      /\ UNCHANGED <<session, hostVersion, attempted, opened, present, protests, truth>>
  BY DEF Finish, hostVars
<1>3. fd \in [Conns -> {"none", "mine", "given", "closed"}] /\ toEngine \in [Conns -> Seq(Answer)]
  BY <1>1, FrameType DEF TypeOK
<1>4. \A c \in Conns : c # k => fd'[c] = fd[c] /\ toEngine'[c] = toEngine[c]
  BY <1>3
<1>5. fd'[k] = last /\ (toEngine'[k] = toEngine[k] \/ session[k] # "version")
  BY <1>1, <1>3
<1>6. ASSUME NEW c \in Conns PROVE ConnInv(c)'
  <2>1. ConnInv(c) /\ ~Current(c)' /\ c \in Nat
    BY <1>2 DEF DialInv, Current, Conns
  <2>2. CASE c = k
    BY <1>1, <1>2, <1>5, <2>1, <2>2, LeftAlone
  <2>3. CASE c # k
    <3>1. ~Current(c) /\ UNCHANGED <<fd[c], toEngine[c]>>
      BY <1>4, <2>3 DEF Current
    <3> QED BY <1>1, <1>2, <2>1, <3>1, LeftAlone
  <2> QED BY <2>2, <2>3
<1>7. TypeOK'
  <2>1. fd' \in [Conns -> {"none", "mine", "given", "closed"}]
    BY <1>3
  <2>2. toEngine' \in [Conns -> Seq(Answer)]
    <3>1. toEngine[conn] # <<>> => Tail(toEngine[conn]) \in Seq(Answer)
      BY <1>3
    <3> QED BY <1>3, <3>1
  <2>3. announce' \in 1..2
    BY <1>1 DEF TypeOK
  <2> QED BY <1>1, <1>2, <2>1, <2>2, <2>3, FrameType DEF TypeOK
<1>8. RetInv' /\ RedialInv' /\ protests' = {}
  BY <1>1, <1>2 DEF DialInv, RetInv, RedialInv, TypeOK
<1> QED BY <1>2, <1>6, <1>7, <1>8 DEF DialInv, WaitInv, AnswerInv, ReplyInv

LEMMA GotAnswerKeeps == ASSUME DialInv, GotAnswer PROVE DialInv'
<1>1. /\ pc = "answer" /\ TypeOK /\ conn \in Conns /\ conn <= dials /\ dials \in Nat /\ op \in Asked
      /\ fd[conn] = "mine" /\ Arrived
  BY Waiting DEF GotAnswer
<1> PICK k \in Conns : k = conn
  BY <1>1
<1> PICK a \in 1..2 : toEngine[k] = <<[part |-> "answer", val |-> a, bytes |-> 1]>> /\ hostVersion[k] = a
  BY <1>1 DEF DialInv, AnswerInv, Arrived
<1>2. Head(toEngine[k]).val = a /\ Tail(toEngine[k]) = <<>> /\ toEngine[k] # <<>>
  BY Queues
<1>3. spoken[k] = 0 /\ ~attempted[k] /\ session[k] # "version" /\ fd[k] = "mine" /\ k <= dials /\ k \in Nat
  BY <1>1, <1>2, Waiting DEF DialInv, AnswerInv, Conns
<1>4. /\ toEngine' = [toEngine EXCEPT ![k] = <<>>]
      /\ UNCHANGED <<maxVersion, hostUp, announce, conn, ops, dials, redials>> /\ UNCHANGED hostVars
  BY <1>2 DEF GotAnswer
<1>5. toEngine \in [Conns -> Seq(Answer)] /\ toHost \in [Conns -> Seq(Frame)]
      /\ fd \in [Conns -> {"none", "mine", "given", "closed"}] /\ spoken \in [Conns -> 0..2]
      /\ agreed \in 1..2
  BY <1>1, FrameType DEF TypeOK
<1>6. CASE ~AnswerAccepted(op, a)
  <2>1. CloseFd(conn) /\ Finish("error", conn) /\ UNCHANGED <<agreed, spoken, toHost>>
    <3> HIDE DEF CloseFd, Finish, AnswerAccepted
    <3> QED BY <1>2, <1>6 DEF GotAnswer
  <2>2. toEngine' = [toEngine EXCEPT ![conn] = Tail(@)] /\ toEngine[conn] # <<>>
    BY <1>2 DEF GotAnswer
  <2>3. fd' = [fd EXCEPT ![conn] = "closed"] /\ protests' = protests
    BY <1>4, <2>1 DEF CloseFd, hostVars
  <2> HIDE DEF Finish
  <2> QED BY <1>1, <1>4, <2>1, <2>2, <2>3, StopKeeps
<1>7. CASE AnswerAccepted(op, a)
  <2>1. /\ agreed' = a /\ spoken' = [spoken EXCEPT ![k] = a]
        /\ IF session[k] # "ended"
             THEN /\ toHost' = [toHost EXCEPT ![k] = Append(@, Request(op))]
                  /\ pc' = "reply"
                  /\ UNCHANGED <<op, fd, ret>>
             ELSE CloseFd(k) /\ Finish("error", k) /\ UNCHANGED toHost
    <3> HIDE DEF CloseFd, Finish, AnswerAccepted
    <3> QED BY <1>2, <1>7 DEF GotAnswer, Adopt
  <2>2. UNCHANGED <<session, hostVersion, attempted, opened, present, protests, truth>>
    BY <1>4 DEF hostVars
  <2>3. /\ spoken' \in [Conns -> 0..2] /\ spoken'[k] = a /\ agreed' \in 1..2
        /\ toEngine' \in [Conns -> Seq(Answer)] /\ toEngine'[k] = <<>>
        /\ \A c \in Conns : c # k => UNCHANGED <<spoken[c], toEngine[c]>>
    <3>1. a \in 0..2 /\ <<>> \in Seq(Answer)
      OBVIOUS
    <3> QED BY <1>4, <1>5, <2>1, <3>1
  <2>4. CASE session[k] # "ended"
    <3>1. /\ toHost' = [toHost EXCEPT ![k] = Append(@, Request(op))]
          /\ pc' = "reply" /\ UNCHANGED <<op, fd, ret>>
      BY <2>1, <2>4
    <3>2. Request(op) \in Frame
      BY <1>1, AskedTypes
    <3>3. toHost' \in [Conns -> Seq(Frame)] /\ toHost'[k] = Append(toHost[k], Request(op))
          /\ \A c \in Conns : c # k => toHost'[c] = toHost[c]
      <4> HIDE DEF Request
      <4>1. Append(toHost[k], Request(op)) \in Seq(Frame)
        BY <1>5, <3>2
      <4> QED BY <1>5, <3>1, <4>1
    <3>4. session[k] = "ready" => toHost'[k] = <<Request(op)>>
      BY <1>3, <3>3, Queues DEF DialInv, ConnInv, SessionInv
    <3>5. op.kind # "O" => a = 2
      BY <1>7 DEF AnswerAccepted, Negotiated
    <3>6. Current(k)' /\ op' = op /\ fd'[k] = "mine"
      BY <1>1, <1>3, <1>4, <3>1 DEF Current
    <3>7. ASSUME NEW c \in Conns PROVE ConnInv(c)'
      <4>1. CASE c = k
        <5>0. ~(k > dials)'
          BY <1>1, <1>3, <1>4
        <5>1. FreshInv(k)' /\ PreambleInv(k)' /\ FdInv(k)'
          BY <5>0, <1>3, <2>2, <3>6 DEF FreshInv, PreambleInv, FdInv
        <5>2. SessionInv(k)'
          BY <1>1, <1>3, <2>2, <2>3, <3>4, <3>5, <3>6 DEF SessionInv
        <5> QED BY <4>1, <5>1, <5>2 DEF ConnInv
      <4>2. CASE c # k
        <5>1. ConnInv(c) /\ ~Current(c) /\ ~Current(c)' /\ c \in Nat
          BY <1>4, <4>2 DEF DialInv, Current, Conns
        <5>2. UNCHANGED <<spoken[c], toHost[c], session[c], hostVersion[c], attempted[c], toEngine[c], fd[c]>>
          BY <2>2, <2>3, <3>1, <3>3, <4>2
        <5> QED BY <1>1, <1>4, <5>1, <5>2, LeftAlone
      <4> QED BY <4>1, <4>2
    <3>8. TypeOK'
      BY <1>1, <1>4, <2>2, <2>3, <3>1, <3>3, FrameType DEF TypeOK
    <3>9. WaitInv' /\ AnswerInv' /\ ReplyInv'
      BY <1>1, <1>4, <2>3, <3>1 DEF WaitInv, AnswerInv, ReplyInv
    <3>10. RetInv' /\ RedialInv' /\ protests' = {}
      BY <1>4, <2>2, <3>1 DEF DialInv, RetInv, RedialInv
    <3> QED BY <3>7, <3>8, <3>9, <3>10 DEF DialInv
  <2>5. CASE session[k] = "ended"
    <3>1. /\ fd' = [fd EXCEPT ![k] = "closed"] /\ UNCHANGED toHost
          /\ pc' = "idle" /\ op' = NoOp /\ ret' = [st |-> "error", conn |-> k]
      BY <2>1, <2>5 DEF CloseFd, Finish
    <3>2. fd'[k] = "closed" /\ fd' \in [Conns -> {"none", "mine", "given", "closed"}]
          /\ \A c \in Conns : c # k => fd'[c] = fd[c]
      BY <1>5, <3>1
    <3>3. ASSUME NEW c \in Conns PROVE ConnInv(c)'
      <4>1. CASE c = k
        <5>0. ~(k > dials)'
          BY <1>1, <1>3, <1>4
        <5>1. FreshInv(k)' /\ PreambleInv(k)' /\ SessionInv(k)' /\ FdInv(k)'
          BY <5>0, <2>2, <2>5, <3>1, <3>2 DEF FreshInv, PreambleInv, SessionInv, FdInv, Current
        <5> QED BY <4>1, <5>1 DEF ConnInv
      <4>2. CASE c # k
        <5>1. ConnInv(c) /\ ~Current(c) /\ ~Current(c)' /\ c \in Nat
          BY <1>4, <4>2 DEF DialInv, Current, Conns
        <5>2. UNCHANGED <<spoken[c], toHost[c], session[c], hostVersion[c], attempted[c], toEngine[c], fd[c]>>
          BY <2>2, <2>3, <3>1, <3>2, <4>2
        <5> QED BY <1>1, <1>4, <5>1, <5>2, LeftAlone
      <4> QED BY <4>1, <4>2
    <3>4. TypeOK'
      BY <1>1, <1>4, <2>2, <2>3, <3>1, <3>2, FrameType DEF TypeOK
    <3>5. WaitInv' /\ AnswerInv' /\ ReplyInv' /\ RetInv' /\ RedialInv' /\ protests' = {}
      BY <1>4, <2>2, <3>1 DEF DialInv, WaitInv, AnswerInv, ReplyInv, RetInv, RedialInv
    <3> QED BY <3>3, <3>4, <3>5 DEF DialInv
  <2> QED BY <2>4, <2>5
<1> QED BY <1>6, <1>7

LEMMA NoAnswerKeeps == ASSUME DialInv, NoAnswer PROVE DialInv'
<1>1. /\ pc = "answer" /\ TypeOK /\ conn \in Conns /\ conn <= dials /\ dials \in Nat /\ op \in Asked
      /\ fd[conn] = "mine"
  BY Waiting DEF NoAnswer, FallBack
<1>2. /\ announce' = IF op.kind = "O" THEN 1 ELSE announce
      /\ UNCHANGED <<maxVersion, hostUp, ops, toEngine, hostVersion, attempted, opened, present, protests, truth>>
  <2> HIDE DEF Connect, CloseFd, Finish
  <2> QED BY DEF NoAnswer, FallBack, Oldest
<1>3. CASE op.kind = "O" /\ hostUp
  <2>1. /\ dials + 1 \in Conns /\ Connect(dials + 1, op, 1) /\ redials' = redials + 1
        /\ fd' = [fd EXCEPT ![conn] = "closed", ![dials + 1] = "mine"] /\ UNCHANGED <<op, ret>>
    <3> HIDE DEF Connect, CloseFd, Finish
    <3> QED BY <1>3 DEF NoAnswer, FallBack, Oldest
  <2>2. redials = 0
    BY <1>1, <1>3 DEF DialInv, AnswerInv, RedialInv
  <2>3. op \in Opens
    BY <1>1, <1>3, AskedTypes
  <2>4. /\ fd \in [Conns -> {"none", "mine", "given", "closed"}]
        /\ fd' \in [Conns -> {"none", "mine", "given", "closed"}]
        /\ fd'[dials + 1] = "mine"
        /\ \A c \in Conns \ {dials + 1} : IF Current(c) THEN fd'[c] = "closed" ELSE fd'[c] = fd[c]
    BY <1>1, <2>1 DEF TypeOK, Current
  <2> HIDE DEF Connect
  <2>5. (\A c \in Conns : ConnInv(c)') /\ WaitInv' /\ AnswerInv' /\ ReplyInv'
    BY <1>1, <1>2, <2>1, <2>3, <2>4, ConnectKeeps
  <2>6. TypeOK'
    <3>1. /\ dials' \in Conns /\ dials' = dials + 1 /\ conn' \in Conns
          /\ pc' \in {"answer", "reply"} /\ agreed' \in 1..2
          /\ session' \in [Conns -> {"none", "version", "ready", "ended"}]
          /\ spoken' \in [Conns -> 0..2]
          /\ toHost' \in [Conns -> Seq(Frame)]
      BY <1>1, <2>1, ConnectTypes
    <3>2. redials' \in 0..dials' /\ announce' \in 1..2
      BY <1>1, <1>2, <1>3, <2>1, <2>2, <3>1
    <3> QED BY <1>1, <1>2, <2>1, <2>4, <3>1, <3>2, FrameType DEF TypeOK
  <2>7. RetInv' /\ RedialInv' /\ protests' = {}
    BY <1>2, <1>3, <2>1, <2>2 DEF DialInv, RetInv, RedialInv
  <2> QED BY <2>5, <2>6, <2>7 DEF DialInv
<1>4. CASE ~(op.kind = "O" /\ hostUp)
  <2>1. CloseFd(conn) /\ Finish("error", conn)
        /\ UNCHANGED <<dials, redials, conn, session, toHost, spoken, agreed>>
    <3> HIDE DEF Connect, CloseFd, Finish
    <3> QED BY <1>4 DEF NoAnswer, FallBack
  <2>2. fd' = [fd EXCEPT ![conn] = "closed"] /\ UNCHANGED hostVars /\ announce' \in {announce, 1}
    BY <1>2, <2>1 DEF CloseFd, hostVars
  <2> HIDE DEF Finish
  <2> QED BY <1>1, <1>2, <2>1, <2>2, StopKeeps
<1> QED BY <1>3, <1>4

LEMMA GotReplyKeeps == ASSUME DialInv, GotReply PROVE DialInv'
<1>1. /\ pc = "reply" /\ TypeOK /\ conn \in Conns /\ op \in Asked /\ Arrived
  BY Waiting DEF GotReply
<1> PICK r \in [part : {Part(op)}, val : 0..2, bytes : {1, 9}] :
       /\ toEngine[conn] = <<r>> /\ attempted[conn]
       /\ r.val = 0 /\ (op.kind = "E" => r.bytes = 9) => truth[conn] = "done"
  BY <1>1 DEF DialInv, ReplyInv, Arrived
<1>2. Head(toEngine[conn]) = r /\ toEngine[conn] # <<>>
  BY Queues
<1> PICK st \in {"ok", "error", "absent"} :
       st = Meaning(op, r) /\ (st = "ok" => r.val = 0)
  <2>1. CASE r.val = 0
    BY <2>1 DEF Meaning
  <2>2. CASE r.val # 0 /\ op.kind = "E"
    BY <2>2 DEF Meaning
  <2>3. CASE r.val # 0 /\ op.kind # "E"
    BY <2>3 DEF Meaning
  <2> QED BY <2>1, <2>2, <2>3
<1>3. op.kind = "E" => r.bytes = 9
  BY <1>1, <1>2 DEF Arrived
<1> HIDE DEF Finish, Meaning
<1>4. /\ Finish(st, conn)
      /\ fd' = [fd EXCEPT ![conn] = IF op.kind = "O" /\ st = "ok" THEN "given" ELSE "closed"]
      /\ toEngine' = [toEngine EXCEPT ![conn] = Tail(@)]
      /\ UNCHANGED <<maxVersion, hostUp, announce, agreed, conn, ops, dials, redials, spoken, toHost>>
      /\ UNCHANGED hostVars
  BY <1>2 DEF GotReply
<1> PICK last \in {"given", "closed"} : last = IF op.kind = "O" /\ st = "ok" THEN "given" ELSE "closed"
  OBVIOUS
<1>5. fd' = [fd EXCEPT ![conn] = last] /\ protests' = protests
  BY <1>4 DEF hostVars
<1> QED BY <1>1, <1>2, <1>3, <1>4, <1>5, StopKeeps

LEMMA NoReplyKeeps == ASSUME DialInv, NoReply PROVE DialInv'
<1>1. /\ pc = "reply" /\ Finish("error", conn) /\ fd' = [fd EXCEPT ![conn] = "closed"]
      /\ UNCHANGED <<maxVersion, hostUp, announce, agreed, conn, ops, dials, redials, spoken, toHost, toEngine>>
      /\ UNCHANGED hostVars /\ protests' = protests
  BY DEF NoReply, CloseFd, hostVars
<1> HIDE DEF Finish
<1> QED BY <1>1, StopKeeps

LEMMA CloseFileKeeps == ASSUME DialInv, CloseFile PROVE DialInv'
<1> PICK k \in Conns :
      /\ pc = "idle" /\ fd[k] = "given" /\ fd' = [fd EXCEPT ![k] = "closed"]
      /\ toHost' = IF session[k] # "ended" THEN [toHost EXCEPT ![k] = Append(@, CloseFrame)] ELSE toHost
      /\ UNCHANGED <<maxVersion, hostUp, announce, agreed, pc, op, conn, ops, dials, redials,
                     spoken, ret, toEngine>>
      /\ UNCHANGED hostVars
  BY DEF CloseFile, CloseFd, CloseFrame
<1>0. TypeOK
  BY DEF DialInv
<1>1. /\ TypeOK /\ dials \in Nat /\ fd \in [Conns -> {"none", "mine", "given", "closed"}]
      /\ toHost \in [Conns -> Seq(Frame)]
  <2>1. dials \in Nat
    BY <1>0 DEF TypeOK, Conns
  <2> QED BY <1>0, <2>1, FrameType DEF TypeOK
<1>2. UNCHANGED <<session, hostVersion, attempted, opened, present, protests, truth>>
  BY DEF hostVars
<1>3. attempted[k] /\ ConnInv(k)
  BY DEF DialInv, ConnInv, FdInv
<1>4. session[k] # "version" /\ k <= dials /\ k \in Nat
  BY <1>1, <1>3 DEF ConnInv, PreambleInv, FreshInv, Conns
<1>5. Append(toHost[k], CloseFrame) \in Seq(Frame)
  BY <1>1, OtherFrames
<1> HIDE DEF CloseFrame
<1>6. /\ fd' \in [Conns -> {"none", "mine", "given", "closed"}] /\ fd'[k] = "closed"
      /\ toHost' \in [Conns -> Seq(Frame)]
      /\ session[k] # "ended" => toHost'[k] = Append(toHost[k], CloseFrame)
      /\ \A c \in Conns : c # k => UNCHANGED <<fd[c], toHost[c]>>
  BY <1>1, <1>5
<1>7. ASSUME NEW c \in Conns PROVE ConnInv(c)'
  <2>1. CASE c = k
    <3>1. session[k] = "ready" => toHost[k] = <<>>
      BY <1>3 DEF ConnInv, SessionInv
    <3>2. session[k] = "ready" => toHost'[k] = <<CloseFrame>>
      BY <1>6, <3>1, Queues
    <3>3. SessionInv(k)'
      BY <1>2, <1>3, <1>6, <3>2 DEF ConnInv, SessionInv
    <3>4. ~(k > dials)'
      BY <1>1, <1>4
    <3>5. FreshInv(k)' /\ PreambleInv(k)' /\ FdInv(k)'
      BY <3>4, <1>2, <1>4, <1>6 DEF FreshInv, PreambleInv, FdInv, Current
    <3> QED BY <2>1, <3>3, <3>5 DEF ConnInv
  <2>2. CASE c # k
    <3>1. ConnInv(c) /\ UNCHANGED <<fd[c], spoken[c], toHost[c], toEngine[c], session[c],
                                    hostVersion[c], attempted[c], dials, pc, op, conn>>
      BY <1>2, <1>6, <2>2 DEF DialInv
    <3> QED BY <3>1, Untouched
  <2> QED BY <2>1, <2>2
<1>8. TypeOK'
  BY <1>1, <1>2, <1>6, FrameType DEF TypeOK
<1>9. WaitInv' /\ AnswerInv' /\ ReplyInv' /\ RetInv' /\ RedialInv' /\ protests' = {}
  BY <1>2 DEF DialInv, WaitInv, AnswerInv, ReplyInv, RetInv, RedialInv
<1> QED BY <1>7, <1>8, <1>9 DEF DialInv

-----------------------------------------------------------------------------
(* The host *)

\* A step of the host on connection c.
LEMMA HostKeeps ==
  ASSUME DialInv, NEW c \in Conns, UNCHANGED engineVars, TypeOK', protests' = {},
         \A d \in Conns \ {c} :
           UNCHANGED <<toHost[d], toEngine[d], session[d], hostVersion[d], attempted[d], truth[d]>>,
         ConnInv(c)',
         attempted[c] => attempted'[c] /\ truth'[c] = truth[c],
         Current(c) => AnswerInv' /\ ReplyInv'
  PROVE  DialInv'
<1>1. UNCHANGED <<announce, agreed, pc, op, conn, ops, dials, redials, fd, spoken, ret>>
  BY DEF engineVars
<1>2. ASSUME NEW d \in Conns PROVE ConnInv(d)'
  <2>1. CASE d = c
    BY <2>1
  <2>2. CASE d # c
    <3>1. ConnInv(d)
      BY DEF DialInv
    <3> HIDE DEF ConnInv
    <3> QED BY <1>1, <2>2, <3>1, Untouched
  <2> QED BY <2>1, <2>2
<1>3. WaitInv' /\ RedialInv'
  BY <1>1 DEF DialInv, WaitInv, RedialInv
<1>4. RetInv'
  BY <1>1 DEF DialInv, RetInv
<1>5. AnswerInv' /\ ReplyInv'
  <2>1. CASE Current(c)
    BY <2>1
  <2>2. CASE pc = "idle"
    BY <1>1, <2>2 DEF AnswerInv, ReplyInv
  <2>3. CASE pc # "idle" /\ conn # c
    <3> PICK k \in Conns : k = conn
      BY <2>3 DEF DialInv, WaitInv
    <3>1. UNCHANGED <<toEngine[k], hostVersion[k], attempted[k], truth[k]>>
      BY <2>3
    <3>2. AnswerInv'
      BY <1>1, <3>1 DEF DialInv, AnswerInv
    <3>3. ReplyInv'
      <4> HIDE DEF Part
      <4> QED BY <1>1, <3>1 DEF DialInv, ReplyInv
    <3> QED BY <3>2, <3>3
  <2> QED BY <2>1, <2>2, <2>3 DEF Current
<1> QED BY <1>2, <1>3, <1>4, <1>5 DEF DialInv

LEMMA ServeVersionKeeps == ASSUME DialInv, NEW c \in Conns, ServeVersion(c) PROVE DialInv'
<1>1. /\ TypeOK /\ protests = {} /\ ConnInv(c) /\ AnswerInv /\ ReplyInv
      /\ session[c] = "version" /\ toHost[c] # <<>>
      /\ toHost' = [toHost EXCEPT ![c] = Tail(@)]
      /\ UNCHANGED <<maxVersion, hostUp, attempted, opened, present, protests, truth>>
      /\ UNCHANGED engineVars
  BY DEF ServeVersion, DialInv
<1>2. UNCHANGED <<announce, agreed, pc, op, conn, ops, dials, redials, fd, spoken, ret>>
  BY <1>1 DEF engineVars
<1>3. /\ session \in [Conns -> {"none", "version", "ready", "ended"}]
      /\ toHost \in [Conns -> Seq(Frame)] /\ toEngine \in [Conns -> Seq(Answer)]
      /\ hostVersion \in [Conns -> 0..2] /\ maxVersion \in 1..2
  BY <1>1, FrameType, DialAssumption DEF TypeOK
<1>4. /\ ~attempted[c] /\ toEngine[c] = <<>>
      /\ \/ spoken[c] = 0 /\ toHost[c] = <<Version(2)>>
         \/ /\ spoken[c] = 1
            /\ \E o \in Opens : toHost[c] = <<Version(1), Request(o)>> /\ (Current(c) => o = op)
  BY <1>1 DEF ConnInv, PreambleInv
<1>5. FreshInv(c)' /\ FdInv(c)'
  <2>1. ~(c > dials)' /\ (Current(c)' <=> Current(c))
    BY <1>1, <1>2 DEF ConnInv, FreshInv, Current
  <2> QED BY <1>1, <1>2, <2>1 DEF ConnInv, FreshInv, FdInv
\* What was read leaves the rest of what was sent.
<1>6. Tail(toHost[c]) \in Seq(Frame)
  BY <1>1, <1>3
<1>7. /\ toHost' \in [Conns -> Seq(Frame)] /\ toHost'[c] = Tail(toHost[c])
      /\ \A d \in Conns \ {c} : toHost'[d] = toHost[d]
  BY <1>1, <1>3, <1>6
<1>8. ASSUME NEW s \in {"ready", "ended"}, NEW h \in 0..2, NEW q \in Seq(Answer),
             session' = [session EXCEPT ![c] = s],
             hostVersion' = [hostVersion EXCEPT ![c] = h],
             toEngine' = [toEngine EXCEPT ![c] = q],
             \/ q = <<>>
             \/ spoken[c] = 0 /\ h \in 1..2 /\ q = <<[part |-> "answer", val |-> h, bytes |-> 1]>>,
             s = "ready" => SessionInv(c)'
      PROVE  DialInv'
  <2>1. /\ session' \in [Conns -> {"none", "version", "ready", "ended"}] /\ session'[c] = s
        /\ hostVersion' \in [Conns -> 0..2] /\ hostVersion'[c] = h
        /\ toEngine' \in [Conns -> Seq(Answer)] /\ toEngine'[c] = q
        /\ \A d \in Conns \ {c} : UNCHANGED <<toEngine[d], session[d], hostVersion[d]>>
    BY <1>3, <1>8
  <2>2. TypeOK'
    BY <1>1, <1>2, <1>7, <2>1, FrameType DEF TypeOK
  <2>3. ConnInv(c)'
    <3>1. PreambleInv(c)'
      BY <2>1 DEF PreambleInv
    <3>2. SessionInv(c)'
      BY <1>8, <2>1 DEF SessionInv
    <3> QED BY <1>5, <3>1, <3>2 DEF ConnInv
  <2>4. Current(c) => AnswerInv' /\ ReplyInv'
    <3> SUFFICES ASSUME Current(c) PROVE AnswerInv' /\ ReplyInv'
      OBVIOUS
    <3>1. AnswerInv'
      BY <1>1, <1>2, <1>8, <2>1 DEF AnswerInv, Current
    <3>2. ReplyInv'
      <4>1. pc = "reply" => spoken[c] # 0
        BY <1>1 DEF ReplyInv, Current
      <4>2. pc = "reply" => toEngine'[conn'] = <<>> /\ spoken'[conn'] # 0
        BY <1>2, <1>8, <2>1, <4>1 DEF Current
      <4> QED BY <1>2, <4>2 DEF ReplyInv
    <3> QED BY <3>1, <3>2
  <2>5. \A d \in Conns \ {c} :
          UNCHANGED <<toHost[d], toEngine[d], session[d], hostVersion[d], attempted[d], truth[d]>>
    BY <1>1, <1>7, <2>1
  <2> QED BY <1>1, <1>4, <2>2, <2>3, <2>4, <2>5, HostKeeps
<1>9. toEngine = [toEngine EXCEPT ![c] = <<>>] /\ hostVersion = [hostVersion EXCEPT ![c] = @]
      /\ hostVersion[c] \in 0..2 /\ <<>> \in Seq(Answer)
  BY <1>3, <1>4
<1>10. CASE spoken[c] = 0 /\ toHost[c] = <<Version(2)>>
  <2>1. Head(toHost[c]).v = 2 /\ toHost'[c] = <<>>
    BY <1>7, <1>10, Queues, OtherFrames
  <2>2. CASE 2 > maxVersion
    <3>1. session' = [session EXCEPT ![c] = "ended"] /\ UNCHANGED <<hostVersion, toEngine>>
      BY <1>3, <2>1, <2>2 DEF ServeVersion, Ends, ToEngine
    <3> QED BY <1>8, <1>9, <3>1
  <2>3. CASE 2 <= maxVersion
    <3> PICK a \in Answers :
          /\ hostVersion' = [hostVersion EXCEPT ![c] = a]
          /\ IF Hears(c)
               THEN ToEngine(c, "answer", a, 1) /\ session' = [session EXCEPT ![c] = "ready"]
               ELSE Ends(c) /\ UNCHANGED toEngine
      <4> HIDE DEF ToEngine, Hears, Ends
      <4> QED BY <1>3, <2>1, <2>3 DEF ServeVersion, Answered, Negotiated
    <3>1. a \in 1..2 /\ a \in 0..2
      BY DialAssumption
    <3>2. CASE Hears(c)
      <4> DEFINE q == <<[part |-> "answer", val |-> a, bytes |-> 1]>>
      <4>1. q \in Seq(Answer)
        BY <3>1 DEF Answer
      <4>2. /\ toEngine' = [toEngine EXCEPT ![c] = q] /\ session' = [session EXCEPT ![c] = "ready"]
        BY <1>4, <3>2, Queues DEF ToEngine
      <4>3. SessionInv(c)'
        BY <1>2, <1>10, <2>1 DEF SessionInv
      <4> QED BY <1>8, <1>10, <3>1, <4>1, <4>2, <4>3
    <3>3. CASE ~Hears(c)
      <4>1. session' = [session EXCEPT ![c] = "ended"] /\ UNCHANGED toEngine
        BY <3>3 DEF Ends
      <4> QED BY <1>8, <1>9, <3>1, <4>1
    <3> QED BY <3>2, <3>3
  <2> QED BY <1>3, <2>2, <2>3
<1>11. ASSUME spoken[c] = 1, NEW o \in Opens, toHost[c] = <<Version(1), Request(o)>>, Current(c) => o = op
       PROVE  DialInv'
  <2>1. Head(toHost[c]).v = 1 /\ toHost'[c] = <<Request(o)>>
    BY <1>7, <1>11, Queues, OtherFrames
  <2>2. /\ hostVersion' = [hostVersion EXCEPT ![c] = 1]
        /\ session' = [session EXCEPT ![c] = "ready"] /\ UNCHANGED toEngine
    BY <1>3, <2>1 DEF ServeVersion, Answered, Negotiated
  <2>3. hostVersion'[c] = 1
    BY <1>3, <2>2
  <2>4. o \in Asked /\ o.kind = "O"
    BY DEF Asked, Opens
  <2>5. SessionInv(c)'
    <3>1. Current(c)' => o = op' /\ toEngine'[c] = <<>>
      BY <1>2, <1>4, <1>11, <2>2 DEF Current
    <3> QED BY <1>1, <1>2, <1>4, <1>11, <2>1, <2>3, <2>4, <3>1 DEF SessionInv
  <2>6. toEngine' = [toEngine EXCEPT ![c] = <<>>] /\ <<>> \in Seq(Answer) /\ 1 \in 0..2
    BY <1>9, <2>2
  <2> HIDE DEF SessionInv
  <2> QED BY <1>8, <2>2, <2>5, <2>6
<1> QED BY <1>4, <1>10, <1>11

\* What serving a request comes to.
LEMMA Served ==
  ASSUME TypeOK, NEW c \in Conns, NEW o \in Asked,
         o.kind = "O" => DoOpen(c, o), o.kind = "M" => DoMove(c, o), o.kind = "E" => DoExists(c, o)
  PROVE  \E t \in {"done", "refused"}, r \in [part : {Part(o)}, val : 0..2, bytes : {1, 9}] :
           /\ attempted' = [attempted EXCEPT ![c] = TRUE]
           /\ truth' = [truth EXCEPT ![c] = t]
           /\ toEngine' = toEngine \/ toEngine' = [toEngine EXCEPT ![c] = Append(@, r)]
           /\ session' = session \/ session' = [session EXCEPT ![c] = "ended"]
           /\ r.val = 0 /\ (o.kind = "E" => r.bytes = 9) => t = "done"
           /\ present' \subseteq Inside /\ opened' \in [Conns -> BOOLEAN]
           /\ protests' = protests
<1> DEFINE Sent(r) == /\ toEngine' = toEngine \/ toEngine' = [toEngine EXCEPT ![c] = Append(@, r)]
                      /\ session' = session \/ session' = [session EXCEPT ![c] = "ended"]
<1>1. ASSUME NEW p, NEW v, NEW n, NEW stays, Reply(c, p, v, n, stays)
      PROVE  Sent([part |-> p, val |-> v, bytes |-> n])
  BY <1>1 DEF Reply, ToEngine, Ends
<1>2. present \subseteq Inside /\ opened \in [Conns -> BOOLEAN]
  BY DEF TypeOK
<1>3. CASE o.kind = "O"
  <2> DEFINE ok == o.a \in Inside /\ (o.mode = "w" \/ o.a \in present)
             t  == IF ok THEN "done" ELSE "refused"
             v  == IF ok THEN 0 ELSE 1
             r  == [part |-> "status", val |-> v, bytes |-> 1]
  <2>1. /\ attempted' = [attempted EXCEPT ![c] = TRUE] /\ truth' = [truth EXCEPT ![c] = t]
        /\ Reply(c, "status", v, 1, o.a \in Inside) /\ protests' = protests
        /\ present' = IF ok /\ o.mode = "w" THEN present \cup {o.a} ELSE present
        /\ opened' = [opened EXCEPT ![c] = ok /\ Hears(c)]
    <3> HIDE DEF Reply, Hears
    <3> QED BY <1>3 DEF DoOpen
  <2>2. Sent(r)
    <3> HIDE DEF Sent
    <3> QED BY <1>1, <2>1
  <2>3. r \in [part : {Part(o)}, val : 0..2, bytes : {1, 9}] /\ t \in {"done", "refused"}
        /\ (r.val = 0 => t = "done")
    BY <1>3 DEF Part
  <2>4. present' \subseteq Inside
    BY <1>2, <2>1
  <2>5. opened' \in [Conns -> BOOLEAN]
    <3>1. (ok /\ Hears(c)) \in BOOLEAN
      OBVIOUS
    <3> HIDE DEF ok, Hears
    <3> QED BY <1>2, <2>1, <3>1
  <2> HIDE DEF t, r, v, ok
  <2> QED BY <2>1, <2>2, <2>3, <2>4, <2>5
<1>4. CASE o.kind = "M"
  <2> DEFINE ok == {o.a, o.b} \subseteq Inside /\ o.a \in present
             t  == IF ok THEN "done" ELSE "refused"
             v  == IF ok THEN 0 ELSE 1
             r  == [part |-> "status", val |-> v, bytes |-> 1]
  <2>1. /\ attempted' = [attempted EXCEPT ![c] = TRUE] /\ truth' = [truth EXCEPT ![c] = t]
        /\ Reply(c, "status", v, 1, FALSE) /\ UNCHANGED <<opened, protests>>
        /\ present' = IF ok THEN (present \ {o.a}) \cup {o.b} ELSE present
    <3> HIDE DEF Reply
    <3> QED BY <1>4 DEF DoMove
  <2>2. Sent(r)
    <3> HIDE DEF Sent
    <3> QED BY <1>1, <2>1
  <2>3. r \in [part : {Part(o)}, val : 0..2, bytes : {1, 9}] /\ t \in {"done", "refused"}
        /\ (r.val = 0 => t = "done")
    BY <1>4 DEF Part
  <2>4. present' \subseteq Inside
    BY <1>2, <2>1
  <2> HIDE DEF t, r, v, ok
  <2> QED BY <1>2, <2>1, <2>2, <2>3, <2>4
<1>5. CASE o.kind = "E"
  <2> DEFINE t == IF o.a \in present THEN "done" ELSE "refused"
             v == IF o.a \in Outside \/ o.a \in present THEN 0 ELSE 1
             n == IF o.a \in Outside THEN 1 ELSE 9
             r == [part |-> "exists", val |-> v, bytes |-> n]
  <2>1. /\ attempted' = [attempted EXCEPT ![c] = TRUE] /\ truth' = [truth EXCEPT ![c] = t]
        /\ Reply(c, "exists", v, n, FALSE) /\ UNCHANGED <<opened, present, protests>>
    <3>1. CASE o.a \in Outside
      <4> HIDE DEF Reply
      <4> QED BY <1>5, <3>1 DEF DoExists
    <3>2. CASE o.a \notin Outside
      <4> HIDE DEF Reply
      <4> QED BY <1>5, <3>2 DEF DoExists
    <3> QED BY <3>1, <3>2
  <2>2. Sent(r)
    <3> HIDE DEF Sent
    <3> QED BY <1>1, <2>1
  <2>3. r \in [part : {Part(o)}, val : 0..2, bytes : {1, 9}] /\ t \in {"done", "refused"}
        /\ (r.val = 0 /\ r.bytes = 9 => t = "done")
    BY <1>5 DEF Part
  <2> HIDE DEF t, r, v, n
  <2> QED BY <1>2, <1>5, <2>1, <2>2, <2>3
<1> QED BY <1>3, <1>4, <1>5, AskedTypes

LEMMA ServeFrameKeeps == ASSUME DialInv, NEW c \in Conns, ServeFrame(c) PROVE DialInv'
<1>1. /\ TypeOK /\ protests = {} /\ ConnInv(c) /\ AnswerInv /\ ReplyInv
      /\ session[c] = "ready" /\ toHost[c] # <<>>
      /\ toHost' = [toHost EXCEPT ![c] = Tail(@)]
      /\ UNCHANGED <<maxVersion, hostUp, hostVersion>> /\ UNCHANGED engineVars
  BY DEF ServeFrame, DialInv
<1>2. UNCHANGED <<announce, agreed, pc, op, conn, ops, dials, redials, fd, spoken, ret>>
  BY <1>1 DEF engineVars
<1>3. /\ session \in [Conns -> {"none", "version", "ready", "ended"}]
      /\ toHost \in [Conns -> Seq(Frame)] /\ toEngine \in [Conns -> Seq(Answer)]
      /\ attempted \in [Conns -> BOOLEAN] /\ truth \in [Conns -> {"nothing", "done", "refused"}]
  BY <1>1, FrameType DEF TypeOK
<1>4. Tail(toHost[c]) \in Seq(Frame)
  BY <1>1, <1>3
<1>5. /\ toHost' \in [Conns -> Seq(Frame)] /\ toHost'[c] = Tail(toHost[c])
      /\ \A d \in Conns \ {c} : toHost'[d] = toHost[d]
  BY <1>1, <1>3, <1>4
<1>6. /\ ~(c > dials)' /\ (Current(c)' <=> Current(c))
      /\ spoken[c] # 0 => spoken[c] = hostVersion[c]
      /\ fd[c] = "mine" <=> Current(c)
      /\ \/ \E o \in Asked :
              /\ toHost[c] = <<Request(o)>> /\ ~attempted[c] /\ spoken[c] # 0
              /\ o.kind # "O" => hostVersion[c] = 2
              /\ Current(c) => o = op /\ toEngine[c] = <<>>
         \/ toHost[c] = <<CloseFrame>> /\ attempted[c] /\ fd[c] = "closed"
  BY <1>1, <1>2 DEF ConnInv, FreshInv, SessionInv, FdInv, Current
<1>7. ASSUME NEW o \in Asked, toHost[c] = <<Request(o)>>, ~attempted[c], spoken[c] # 0,
             o.kind # "O" => hostVersion[c] = 2,
             Current(c) => o = op /\ toEngine[c] = <<>>
      PROVE  DialInv'
  <2>1. Head(toHost[c]) = Request(o) /\ toHost'[c] = <<>>
    BY <1>5, <1>7, Queues
  <2>2. Request(o).tag = o.kind /\ Request(o).op = o /\ o.kind \in {"O", "M", "E"}
    BY AskedTypes
  <2>3. Violation(c, Request(o)) = "none"
    <3>1. CASE o.kind = "O"
      BY <1>7, <2>2, <3>1 DEF Violation
    <3>2. CASE o.kind \in {"M", "E"}
      BY <1>7, <2>2, <3>2 DEF Violation, Negotiated
    <3> QED BY <2>2, <3>1, <3>2
  <2>4. /\ o.kind = "O" => DoOpen(c, o)
        /\ o.kind = "M" => DoMove(c, o)
        /\ o.kind = "E" => DoExists(c, o)
    <3> HIDE DEF DoOpen, DoMove, DoExists, Violation, Protest, Request
    <3>1. CASE o.kind = "O"
      BY <2>1, <2>2, <2>3, <3>1 DEF ServeFrame
    <3>2. CASE o.kind = "M"
      BY <2>1, <2>2, <2>3, <3>2 DEF ServeFrame
    <3>3. CASE o.kind = "E"
      BY <2>1, <2>2, <2>3, <3>3 DEF ServeFrame
    <3> QED BY <2>2, <3>1, <3>2, <3>3
  <2> PICK t \in {"done", "refused"}, r \in [part : {Part(o)}, val : 0..2, bytes : {1, 9}] :
         /\ attempted' = [attempted EXCEPT ![c] = TRUE]
         /\ truth' = [truth EXCEPT ![c] = t]
         /\ toEngine' = toEngine \/ toEngine' = [toEngine EXCEPT ![c] = Append(@, r)]
         /\ session' = session \/ session' = [session EXCEPT ![c] = "ended"]
         /\ r.val = 0 /\ (o.kind = "E" => r.bytes = 9) => t = "done"
         /\ present' \subseteq Inside /\ opened' \in [Conns -> BOOLEAN]
         /\ protests' = protests
    <3> HIDE DEF DoOpen, DoMove, DoExists, Part
    <3> QED BY <1>1, <2>4, Served
  <2>5. r \in Answer
    BY DEF Part, Answer
  <2>6. /\ attempted' \in [Conns -> BOOLEAN] /\ attempted'[c]
        /\ truth' \in [Conns -> {"nothing", "done", "refused"}] /\ truth'[c] = t
        /\ session' \in [Conns -> {"none", "version", "ready", "ended"}]
        /\ session'[c] \in {"ready", "ended"}
        /\ \A d \in Conns \ {c} : UNCHANGED <<attempted[d], truth[d], session[d]>>
    BY <1>1, <1>3
  <2>7. /\ toEngine' \in [Conns -> Seq(Answer)]
        /\ toEngine'[c] = toEngine[c] \/ toEngine'[c] = Append(toEngine[c], r)
        /\ \A d \in Conns \ {c} : toEngine'[d] = toEngine[d]
    <3>1. Append(toEngine[c], r) \in Seq(Answer)
      BY <1>3, <2>5
    <3>2. CASE toEngine' = toEngine
      BY <1>3, <3>2
    <3>3. CASE toEngine' = [toEngine EXCEPT ![c] = Append(@, r)]
      <4> PICK q \in Seq(Answer) : q = Append(toEngine[c], r)
        BY <3>1
      <4> QED BY <1>3, <3>3
    <3> QED BY <3>2, <3>3
  <2>8. TypeOK'
    BY <1>1, <1>2, <1>5, <2>6, <2>7, FrameType DEF TypeOK
  <2>9. ConnInv(c)'
    <3>1. FreshInv(c)' /\ PreambleInv(c)'
      BY <1>6, <2>6 DEF FreshInv, PreambleInv
    <3>2. SessionInv(c)' /\ FdInv(c)'
      BY <1>1, <1>2, <1>6, <2>1, <2>6 DEF SessionInv, FdInv
    <3> QED BY <3>1, <3>2 DEF ConnInv
  <2>10. Current(c) => AnswerInv' /\ ReplyInv'
    <3> SUFFICES ASSUME Current(c) PROVE AnswerInv' /\ ReplyInv'
      OBVIOUS
    <3>1. pc = "reply" /\ conn = c /\ o = op
      BY <1>1, <1>7 DEF AnswerInv, Current, TypeOK
    <3>2. toEngine'[c] = <<>> \/ toEngine'[c] = <<r>>
      BY <1>7, <2>7, Queues
    <3> HIDE DEF Part
    <3> QED BY <1>2, <1>7, <2>6, <3>1, <3>2 DEF AnswerInv, ReplyInv
  <2>11. \A d \in Conns \ {c} :
           UNCHANGED <<toHost[d], toEngine[d], session[d], hostVersion[d], attempted[d], truth[d]>>
    BY <1>1, <1>5, <2>6, <2>7
  <2> QED BY <1>1, <1>7, <2>8, <2>9, <2>10, <2>11, HostKeeps
<1>8. ASSUME toHost[c] = <<CloseFrame>>, attempted[c], fd[c] = "closed"
      PROVE  DialInv'
  <2>1. Head(toHost[c]) = CloseFrame /\ CloseFrame.tag = "C"
    BY <1>8, Queues, OtherFrames
  <2>2. Violation(c, CloseFrame) = "none"
    BY <1>8, <2>1 DEF Violation
  <2>3. /\ session' = [session EXCEPT ![c] = "ended"]
        /\ UNCHANGED <<toEngine, attempted, opened, present, protests, truth>>
    <3> HIDE DEF Violation, CloseFrame, DoOpen, DoMove, DoExists, Protest
    <3> QED BY <2>1, <2>2 DEF ServeFrame, Ends
  <2>4. /\ session' \in [Conns -> {"none", "version", "ready", "ended"}] /\ session'[c] = "ended"
        /\ \A d \in Conns \ {c} : session'[d] = session[d]
    BY <1>3, <2>3
  <2>5. TypeOK'
    BY <1>1, <1>2, <1>5, <2>3, <2>4, FrameType DEF TypeOK
  <2>6. ConnInv(c)'
    BY <1>2, <1>6, <1>8, <2>3, <2>4 DEF ConnInv, FreshInv, PreambleInv, SessionInv, FdInv
  <2>7. ~Current(c)
    BY <1>6, <1>8
  <2>8. \A d \in Conns \ {c} :
          UNCHANGED <<toHost[d], toEngine[d], session[d], hostVersion[d], attempted[d], truth[d]>>
    BY <1>1, <1>5, <2>3, <2>4
  <2> QED BY <1>1, <2>3, <2>5, <2>6, <2>7, <2>8, HostKeeps
<1> QED BY <1>6, <1>7, <1>8

LEMMA SessionEOFKeeps == ASSUME DialInv, NEW c \in Conns, SessionEOF(c) PROVE DialInv'
<1>1. /\ TypeOK /\ protests = {} /\ ConnInv(c) /\ fd[c] = "closed" /\ session[c] \in {"version", "ready"}
      /\ session' = [session EXCEPT ![c] = "ended"]
      /\ UNCHANGED <<maxVersion, hostUp, toHost, toEngine, hostVersion, attempted, opened,
                     present, protests, truth>>
      /\ UNCHANGED engineVars
  BY DEF SessionEOF, Ends, DialInv
<1>2. UNCHANGED <<announce, agreed, pc, op, conn, ops, dials, redials, fd, spoken, ret>>
  BY <1>1 DEF engineVars
<1>3. /\ session' \in [Conns -> {"none", "version", "ready", "ended"}] /\ session'[c] = "ended"
      /\ \A d \in Conns \ {c} : session'[d] = session[d]
  BY <1>1 DEF TypeOK
<1>4. TypeOK'
  BY <1>1, <1>2, <1>3 DEF TypeOK
<1>5. ~Current(c) /\ ~Current(c)' /\ ~(c > dials)'
  BY <1>1, <1>2 DEF ConnInv, FdInv, FreshInv, Current
<1>6. ConnInv(c)'
  BY <1>1, <1>2, <1>3, <1>5 DEF ConnInv, FreshInv, PreambleInv, SessionInv, FdInv
<1> HIDE DEF Current, ConnInv
<1> QED BY <1>1, <1>3, <1>4, <1>5, <1>6, HostKeeps

LEMMA HostDiesKeeps == ASSUME DialInv, HostDies PROVE DialInv'
<1>1. /\ TypeOK /\ hostUp' = FALSE
      /\ session' = [c \in Conns |-> IF session[c] = "none" THEN "none" ELSE "ended"]
      /\ UNCHANGED <<maxVersion, toHost, toEngine, hostVersion, attempted, opened, present,
                     protests, truth>>
      /\ UNCHANGED <<announce, agreed, pc, op, conn, ops, dials, redials, fd, spoken, ret>>
  BY DEF HostDies, DialInv, engineVars
<1>2. TypeOK'
  BY <1>1 DEF TypeOK
<1>3. ASSUME NEW c \in Conns PROVE ConnInv(c)'
  <2>1. ConnInv(c) /\ session'[c] \in {"none", "ended"} /\ (session[c] = "none" => session'[c] = "none")
    BY <1>1 DEF DialInv
  <2> QED BY <1>1, <2>1 DEF ConnInv, FreshInv, PreambleInv, SessionInv, FdInv, Current
<1>4. WaitInv' /\ AnswerInv' /\ ReplyInv' /\ RetInv' /\ RedialInv' /\ protests' = {}
  BY <1>1 DEF DialInv, WaitInv, AnswerInv, ReplyInv, RetInv, RedialInv
<1> QED BY <1>2, <1>3, <1>4 DEF DialInv

-----------------------------------------------------------------------------
(* Theorems *)

LEMMA DialInvInit == Init => DialInv
<1> SUFFICES ASSUME Init PROVE DialInv
  OBVIOUS
<1>1. /\ maxVersion \in HostMax /\ hostUp = TRUE /\ announce = 2 /\ agreed = 2
      /\ pc = "idle" /\ op = NoOp /\ conn = 0 /\ ops = 0 /\ dials = 0 /\ redials = 0
      /\ present = Present0 /\ protests = {} /\ ret = [st |-> "none", conn |-> 0]
  BY DEF Init, Newest
<1>2. TypeOK
  <2>1. ops \in 0..MaxOps
    BY <1>1, DialAssumption
  <2>2. present \subseteq Inside
    BY <1>1, DialAssumption
  <2>3. toHost \in [Conns -> Seq(Frame)] /\ toEngine \in [Conns -> Seq(Answer)]
    BY DEF Init
  <2> QED BY <1>1, <2>1, <2>2, <2>3, FrameType DEF Init, TypeOK
<1>3. ASSUME NEW c \in Conns PROVE ConnInv(c)
  BY DEF Init, ConnInv, FreshInv, PreambleInv, SessionInv, FdInv, Current
<1>4. WaitInv /\ AnswerInv /\ ReplyInv /\ RetInv /\ RedialInv
  BY <1>1 DEF WaitInv, AnswerInv, ReplyInv, RetInv, RedialInv
<1> QED BY <1>1, <1>2, <1>3, <1>4 DEF DialInv

LEMMA DialInvStutter == ASSUME DialInv, UNCHANGED vars PROVE DialInv'
<1>1. /\ UNCHANGED <<maxVersion, hostUp, toHost, toEngine, session, hostVersion, attempted,
                     opened, present, protests, truth>>
      /\ UNCHANGED <<announce, agreed, pc, op, conn, ops, dials, redials, fd, spoken, ret>>
  BY DEF vars, engineVars, hostVars
<1>2. TypeOK'
  BY <1>1 DEF DialInv, TypeOK
<1>3. ASSUME NEW c \in Conns PROVE ConnInv(c)'
  <2>1. ConnInv(c)
    BY DEF DialInv
  <2> HIDE DEF ConnInv
  <2> QED BY <1>1, <2>1, Untouched
<1>4. WaitInv' /\ AnswerInv' /\ ReplyInv' /\ RetInv' /\ RedialInv' /\ protests' = {}
  BY <1>1 DEF DialInv, WaitInv, AnswerInv, ReplyInv, RetInv, RedialInv
<1> QED BY <1>2, <1>3, <1>4 DEF DialInv

LEMMA DialInvNext == ASSUME DialInv, [Next]_vars PROVE DialInv'
<1>1. CASE Begin
  BY <1>1, BeginKeeps
<1>2. CASE GotAnswer
  BY <1>2, GotAnswerKeeps
<1>3. CASE NoAnswer
  BY <1>3, NoAnswerKeeps
<1>4. CASE GotReply
  BY <1>4, GotReplyKeeps
<1>5. CASE NoReply
  BY <1>5, NoReplyKeeps
<1>6. CASE CloseFile
  BY <1>6, CloseFileKeeps
<1>7. ASSUME NEW c \in Conns, HostStep(c) PROVE DialInv'
  BY <1>7, ServeVersionKeeps, ServeFrameKeeps, SessionEOFKeeps DEF HostStep
<1>8. CASE HostDies
  BY <1>8, HostDiesKeeps
<1>9. CASE UNCHANGED vars
  BY <1>9, DialInvStutter
<1> QED BY <1>1, <1>2, <1>3, <1>4, <1>5, <1>6, <1>7, <1>8, <1>9 DEF Next, EngineStep

LEMMA DialInvAlways == Spec => []DialInv
<1> USE DialInvInit, DialInvNext
<1> QED BY PTL DEF Spec

\* The types of the engine's, the host's and the connections' state.
THEOREM TypeCorrect == Spec => []TypeOK
<1>1. DialInv => TypeOK
  BY DEF DialInv
<1> QED BY <1>1, DialInvAlways, PTL

\* Both ends of a connection speak the same version, and what the engine reads
\* is what it waits for: an answer as an answer, a reply as the reply to its
\* request.
THEOREM AlwaysInStep == Spec => []EndsInStep
<1>1. ASSUME DialInv PROVE EndsInStep
  <2>1. ASSUME NEW c \in Conns, session[c] = "ready", spoken[c] # 0 PROVE spoken[c] = hostVersion[c]
    BY <1>1, <2>1 DEF DialInv, ConnInv, SessionInv
  <2>2. ASSUME pc # "idle", toEngine[conn] # <<>>
        PROVE  Head(toEngine[conn]).part =
                 (IF pc = "answer" THEN "answer" ELSE IF op.kind = "E" THEN "exists" ELSE "status")
    <3>1. CASE pc = "answer"
      BY <1>1, <2>2, <3>1, Queues DEF DialInv, AnswerInv
    <3>2. CASE pc = "reply"
      BY <1>1, <2>2, <3>2, Queues DEF DialInv, ReplyInv, Part
    <3> QED BY <1>1, <2>2, <3>1, <3>2 DEF DialInv, TypeOK
  <2> QED BY <2>1, <2>2 DEF EndsInStep
<1> QED BY <1>1, DialInvAlways, PTL

\* The host never records a violation of the protocol.
THEOREM NeverObjected == Spec => []NeverProtests
<1>1. DialInv => NeverProtests
  BY DEF DialInv, NeverProtests
<1> QED BY <1>1, DialInvAlways, PTL

\* An operation reported done was done, whatever the host answered, and when.
THEOREM SuccessesAreReal == Spec => []SuccessIsReal
<1>1. DialInv => SuccessIsReal
  BY DEF DialInv, RetInv, SuccessIsReal
<1> QED BY <1>1, DialInvAlways, PTL

\* No connection is left behind by a failed dial, and at most one operation of a
\* job dials twice.
THEOREM DialsStayCheap == Spec => []DialsAreCheap
<1>1. DialInv => DialsAreCheap
  BY DEF DialInv, ConnInv, FdInv, Current, RedialInv, DialsAreCheap
<1> QED BY <1>1, DialInvAlways, PTL
=============================================================================
