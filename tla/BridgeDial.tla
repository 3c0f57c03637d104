----------------------------- MODULE BridgeDial -----------------------------
(***************************************************************************)
(* How the engine obtains sessions from the host: one connection per       *)
(* opened file (afio_dial), and one per Move or Exists (afio_session), in  *)
(* src/src/nativeio.c, against the session loop and doOpen, doMove and     *)
(* doExists of src/internal/ipchost/host.go.  The engine is one thread     *)
(* that makes one operation at a time; every connection has a goroutine of *)
(* its own at the host, which may lag behind, so that an operation the     *)
(* engine has given up on may still be carried out.                        *)
(*                                                                         *)
(* The frames of an opened file are module BridgeSession.                  *)
(***************************************************************************)
EXTENDS Integers, Sequences, FiniteSets

CONSTANTS
  MaxOps,      \* bound: operations in a job; each may take two dials
  Inside,      \* names under the served root
  Outside,     \* names that escape it, which resolve refuses
  Present0,    \* the files there at the start
  HostMax,     \* versions the host may be capped at (Host.MaxVersion)
  Answers      \* what a host may answer a v2 preamble with

ASSUME DialAssumption ==
  /\ MaxOps \in Nat
  /\ Inside \cap Outside = {} /\ Present0 \subseteq Inside
  /\ HostMax \subseteq 1..2 /\ Answers \subseteq 1..2

VARIABLES
  maxVersion,          \* the host's, fixed
  hostUp,              \* the host process is there
  announce, agreed,    \* afio_announce, afio_agreed
  pc,                  \* "idle", or what is awaited: "answer" or "reply"
  op, conn,            \* the operation in progress and its connection
  ops, dials, redials, \* history: operations, connections made, those for a second try
  fd,                  \* per connection: "none", "mine", "given", "closed"
  spoken,              \* per connection: the version the engine speaks, 0 until it knows
  toHost, toEngine,
  session,             \* per connection: "none", "version", "ready", "ended"
  hostVersion,         \* per connection: the version the host speaks
  attempted, opened,   \* per connection: Open tried, and succeeded
  present,             \* the files under the root
  protests,            \* protocol violations the host recorded (h.errs)
  truth,               \* history: what the host did on the connection
  ret                  \* outcome of the last operation, and its connection

engineVars == <<announce, agreed, pc, op, conn, ops, dials, redials, fd, spoken, ret>>
hostVars   == <<session, hostVersion, attempted, opened, present, protests, truth>>
vars       == <<maxVersion, hostUp, engineVars, toHost, toEngine, hostVars>>

Negotiated == 2      \* AFIO_PROTO_NEGOTIATED, protocolVersionNegotiated
Newest     == 2      \* AFIO_PROTO_VERSION
Oldest     == 1      \* AFIO_PROTO_MIN

Conns == 1..(2 * MaxOps)
Names == Inside \cup Outside
NoName == "no name"

Opens  == [kind : {"O"}, mode : {"r", "w"}, a : Names, b : {NoName}]
Moves  == [kind : {"M"}, mode : {"-"}, a : Names, b : Names]
Checks == [kind : {"E"}, mode : {"-"}, a : Names, b : {NoName}]
NoOp   == [kind |-> "none", mode |-> "-", a |-> NoName, b |-> NoName]

Init ==
  /\ maxVersion \in HostMax /\ hostUp = TRUE
  /\ announce = Newest /\ agreed = Newest
  /\ pc = "idle" /\ op = NoOp /\ conn = 0
  /\ ops = 0 /\ dials = 0 /\ redials = 0
  /\ fd = [c \in Conns |-> "none"] /\ spoken = [c \in Conns |-> 0]
  /\ toHost = [c \in Conns |-> <<>>] /\ toEngine = [c \in Conns |-> <<>>]
  /\ session = [c \in Conns |-> "none"] /\ hostVersion = [c \in Conns |-> 0]
  /\ attempted = [c \in Conns |-> FALSE] /\ opened = [c \in Conns |-> FALSE]
  /\ present = Present0
  /\ protests = {}
  /\ truth = [c \in Conns |-> "nothing"]
  /\ ret = [st |-> "none", conn |-> 0]
-----------------------------------------------------------------------------
(* The engine *)

Version(v) == [tag |-> "V", v |-> v, op |-> NoOp]
Request(o) == [tag |-> o.kind, v |-> 0, op |-> o]

Finish(st, c) == pc' = "idle" /\ op' = NoOp /\ ret' = [st |-> st, conn |-> c]

CloseFd(c) == fd' = [fd EXCEPT ![c] = "closed"]

\* Connection c is made for operation o and the preamble sent.  Below the
\* version that is negotiated the request follows at once.
Connect(c, o, v) ==
  /\ dials' = c /\ conn' = c
  /\ session' = [session EXCEPT ![c] = "version"]
  /\ IF v >= Negotiated
       THEN /\ toHost' = [toHost EXCEPT ![c] = <<Version(v)>>]
            /\ pc' = "answer"
            /\ UNCHANGED <<spoken, agreed>>
       ELSE /\ toHost' = [toHost EXCEPT ![c] = <<Version(v), Request(o)>>]
            /\ pc' = "reply"
            /\ spoken' = [spoken EXCEPT ![c] = v]
            /\ agreed' = v

\* afio_dial announces what the job has settled on; afio_session needs the
\* negotiation and always announces the newest version.
Announced(o) == IF o.kind = "O" THEN announce ELSE Newest

\* An operation begins.
Begin ==
  \E o \in Opens \cup Moves \cup Checks :
    /\ pc = "idle" /\ ops < MaxOps /\ dials + 1 \in Conns
    /\ ops' = ops + 1
    /\ IF hostUp
         THEN /\ Connect(dials + 1, o, Announced(o))
              /\ op' = o
              /\ fd' = [fd EXCEPT ![dials + 1] = "mine"]
              /\ UNCHANGED ret
         ELSE /\ Finish("error", 0)                              \* connect refused
              /\ UNCHANGED <<conn, dials, fd, session, toHost, spoken, agreed>>
    /\ UNCHANGED <<maxVersion, hostUp, announce, redials, toEngine, hostVersion, attempted,
                   opened, present, protests, truth>>

\* rd_full is satisfied.  When it is not, waiting ends because the host closed
\* the connection or the deadline expired.
Arrived ==
  LET wanted == IF op.kind = "E" /\ pc = "reply" THEN 9 ELSE 1
  IN  toEngine[conn] # <<>> /\ Head(toEngine[conn]).bytes >= wanted

\* Mutants: the answer is read and not acted on; any answer will do.
AdoptAnnounced(a) == agreed' = Announced(op) /\ spoken' = [spoken EXCEPT ![conn] = Announced(op)]
AcceptAny(o, a) == a \in Oldest..Newest

\* The host's answer is the version the engine speaks from here on.
Adopt(a) == agreed' = a /\ spoken' = [spoken EXCEPT ![conn] = a]

\* The versions a host may answer with: afio_dial takes any up to its own,
\* afio_session only one that has the Move and Exists frames.
AnswerAccepted(o, a) ==
  IF o.kind = "O" THEN a \in Oldest..announce ELSE a >= Negotiated

\* The host answers the preamble; the request follows, unless the answer is
\* refused or the host is gone by now.
GotAnswer ==
  /\ pc = "answer" /\ Arrived
  /\ toEngine' = [toEngine EXCEPT ![conn] = Tail(@)]
  /\ LET a == Head(toEngine[conn]).val IN
     IF AnswerAccepted(op, a)
       THEN /\ Adopt(a)
            /\ IF session[conn] # "ended"
                 THEN /\ toHost' = [toHost EXCEPT ![conn] = Append(@, Request(op))]
                      /\ pc' = "reply"
                      /\ UNCHANGED <<op, fd, ret>>
                 ELSE CloseFd(conn) /\ Finish("error", conn) /\ UNCHANGED toHost
       ELSE /\ CloseFd(conn) /\ Finish("error", conn)
            /\ UNCHANGED <<agreed, spoken, toHost>>
  /\ UNCHANGED <<maxVersion, hostUp, announce, conn, ops, dials, redials, hostVars>>

\* No answer to the preamble.  An open notes what to announce from now on and
\* dials once more; a Move or Exists fails.
FallBack(noted, dialled, oldFd) ==
  /\ pc = "answer" /\ ~Arrived
  /\ announce' = IF op.kind = "O" THEN noted ELSE announce
  /\ IF op.kind = "O" /\ hostUp
       THEN /\ dials + 1 \in Conns
            /\ Connect(dials + 1, op, dialled)
            /\ redials' = redials + 1
            /\ fd' = [fd EXCEPT ![conn] = oldFd, ![dials + 1] = "mine"]
            /\ UNCHANGED <<op, ret>>
       ELSE /\ CloseFd(conn) /\ Finish("error", conn)
            /\ UNCHANGED <<dials, redials, conn, session, toHost, spoken, agreed>>
  /\ UNCHANGED <<maxVersion, hostUp, ops, toEngine, hostVersion, attempted,
                 opened, present, protests, truth>>

\* Mutants: the first connection stays open; the host's age is not remembered;
\* the second dial announces what the first did.
RedialLeaks    == FallBack(Oldest, Oldest, "mine")
RedialForgets  == FallBack(announce, Oldest, "closed")
RedialAsBefore == FallBack(announce, announce, "closed")

NoAnswer == FallBack(Oldest, Oldest, "closed")

\* Mutant: a refusal is not told from success.
StatusIgnored(o, r) == IF o.kind = "O" /\ r.val # 0 THEN "error" ELSE "ok"

\* What a reply means to the caller: afio_dial_at's status, afmpeg_url_move's,
\* and afmpeg_url_check's, where a name that is not there is an ordinary answer.
Meaning(o, r) ==
  CASE r.val = 0      -> "ok"
    [] o.kind = "E"   -> "absent"
    [] OTHER          -> "error"

GotReply ==
  /\ pc = "reply" /\ Arrived
  /\ toEngine' = [toEngine EXCEPT ![conn] = Tail(@)]
  /\ LET st == Meaning(op, Head(toEngine[conn])) IN
     /\ Finish(st, conn)
     /\ fd' = [fd EXCEPT ![conn] = IF op.kind = "O" /\ st = "ok" THEN "given" ELSE "closed"]
  /\ UNCHANGED <<maxVersion, hostUp, announce, agreed, conn, ops, dials, redials, spoken, toHost, hostVars>>

NoReply ==
  /\ pc = "reply" /\ ~Arrived
  /\ CloseFd(conn) /\ Finish("error", conn)
  /\ UNCHANGED <<maxVersion, hostUp, announce, agreed, conn, ops, dials, redials, spoken, toHost, toEngine,
                 hostVars>>

\* The caller is done with an opened file (afio_ipc_close, afmpeg_url_close).
CloseFile ==
  \E c \in Conns :
    /\ pc = "idle" /\ fd[c] = "given"
    /\ CloseFd(c)
    /\ toHost' = IF session[c] # "ended"
                   THEN [toHost EXCEPT ![c] = Append(@, [tag |-> "C", v |-> 0, op |-> NoOp])]
                   ELSE toHost
    /\ UNCHANGED <<maxVersion, hostUp, announce, agreed, pc, op, conn, ops, dials, redials,
                   spoken, ret, toEngine, hostVars>>
-----------------------------------------------------------------------------
(* The host, for each connection *)

\* The reply's length in bytes tells a whole Exists reply from a truncated one.
ToEngine(c, part, v, n) ==
  toEngine' = [toEngine EXCEPT ![c] = Append(@, [part |-> part, val |-> v, bytes |-> n])]

\* A write to a connection the engine has closed fails.
Hears(c) == fd[c] # "closed"

Ends(c) == session' = [session EXCEPT ![c] = "ended"]

\* Mutant: every preamble is answered, also one that predates the answer.
AnsweredAlways(v) == v >= Oldest

\* A driver that announces less than the negotiated version expects no answer
\* and would take it for the status of its Open.
Answered(v) == v >= Negotiated

\* The preamble: a version out of range ends the session; one that knows the
\* negotiation is answered with the version to speak.
ServeVersion(c) ==
  /\ session[c] = "version" /\ toHost[c] # <<>>
  /\ toHost' = [toHost EXCEPT ![c] = Tail(@)]
  /\ LET v == Head(toHost[c]).v IN
     \/ /\ v > maxVersion
        /\ Ends(c) /\ UNCHANGED <<hostVersion, toEngine>>
     \/ /\ v <= maxVersion /\ ~Answered(v)
        /\ hostVersion' = [hostVersion EXCEPT ![c] = v]
        /\ session' = [session EXCEPT ![c] = "ready"] /\ UNCHANGED toEngine
     \/ /\ v <= maxVersion /\ Answered(v)
        /\ \E a \in Answers :
             /\ hostVersion' = [hostVersion EXCEPT ![c] = a]
             /\ IF Hears(c)
                  THEN ToEngine(c, "answer", a, 1) /\ session' = [session EXCEPT ![c] = "ready"]
                  ELSE Ends(c) /\ UNCHANGED toEngine
  /\ UNCHANGED <<maxVersion, hostUp, engineVars, attempted, opened, present, protests, truth>>

\* A reply is sent; the session goes on only after an Open.
Reply(c, part, v, n, stays) ==
  /\ IF Hears(c) THEN ToEngine(c, part, v, n) ELSE UNCHANGED toEngine
  /\ IF Hears(c) /\ stays THEN UNCHANGED session ELSE Ends(c)

Protest(c, what) ==
  /\ protests' = protests \cup {what}
  /\ Ends(c)
  /\ UNCHANGED <<toEngine, attempted, opened, present, truth>>

\* doOpen: a name outside the root or a missing input is refused; an output is
\* created, or truncated.
DoOpen(c, o) ==
  LET ok == o.a \in Inside /\ (o.mode = "w" \/ o.a \in present) IN
  /\ attempted' = [attempted EXCEPT ![c] = TRUE]
  /\ present' = IF ok /\ o.mode = "w" THEN present \cup {o.a} ELSE present
  /\ opened' = [opened EXCEPT ![c] = ok /\ Hears(c)]
  /\ truth' = [truth EXCEPT ![c] = IF ok THEN "done" ELSE "refused"]
  /\ Reply(c, "status", IF ok THEN 0 ELSE 1, 1, o.a \in Inside)
  /\ UNCHANGED protests

\* Mutant: the names are not resolved against the root.
MoveAnywhere(c, o) ==
  LET ok == o.a \in present IN
  /\ attempted' = [attempted EXCEPT ![c] = TRUE]
  /\ present' = IF ok THEN (present \ {o.a}) \cup {o.b} ELSE present
  /\ truth' = [truth EXCEPT ![c] = IF ok THEN "done" ELSE "refused"]
  /\ Reply(c, "status", IF ok THEN 0 ELSE 1, 1, FALSE)
  /\ UNCHANGED <<opened, protests>>

\* doMove: the rename happens whole or not at all, and says which.
DoMove(c, o) ==
  LET ok == {o.a, o.b} \subseteq Inside /\ o.a \in present IN
  /\ attempted' = [attempted EXCEPT ![c] = TRUE]
  /\ present' = IF ok THEN (present \ {o.a}) \cup {o.b} ELSE present
  /\ truth' = [truth EXCEPT ![c] = IF ok THEN "done" ELSE "refused"]
  /\ Reply(c, "status", IF ok THEN 0 ELSE 1, 1, FALSE)
  /\ UNCHANGED <<opened, protests>>

\* doExists: a name outside the root gets the first byte of an untouched reply.
DoExists(c, o) ==
  LET there == o.a \in present IN
  /\ attempted' = [attempted EXCEPT ![c] = TRUE]
  /\ truth' = [truth EXCEPT ![c] = IF there THEN "done" ELSE "refused"]
  /\ IF o.a \in Outside
       THEN Reply(c, "exists", 0, 1, FALSE)
       ELSE Reply(c, "exists", IF there THEN 0 ELSE 1, 9, FALSE)
  /\ UNCHANGED <<opened, present, protests>>

\* What is wrong with frame f on connection c, if anything.
Violation(c, f) ==
  CASE f.tag = "O" /\ attempted[c]                             -> "second Open"
    [] f.tag \in {"M", "E"} /\ hostVersion[c] < Negotiated     -> "frame needs v2"
    [] f.tag \in {"M", "E"} /\ attempted[c]                    -> "after an Open"
    [] f.tag = "C" /\ ~attempted[c]                            -> "Close before any Open"
    [] f.tag = "V" /\ ~opened[c]                               -> "frame before Open"
    [] OTHER                                                   -> "none"

\* The session loop takes the next frame.
ServeFrame(c) ==
  /\ session[c] = "ready" /\ toHost[c] # <<>>
  /\ toHost' = [toHost EXCEPT ![c] = Tail(@)]
  /\ LET f == Head(toHost[c]) IN
     IF Violation(c, f) # "none" THEN Protest(c, Violation(c, f))
     ELSE CASE f.tag = "O" -> DoOpen(c, f.op)
            [] f.tag = "M" -> DoMove(c, f.op)
            [] f.tag = "E" -> DoExists(c, f.op)
            [] OTHER -> Ends(c) /\ UNCHANGED <<toEngine, attempted, opened, present, protests, truth>>
  /\ UNCHANGED <<maxVersion, hostUp, engineVars, hostVersion>>

\* Mutant: an end of stream between frames is not noticed.
EOFOnlyInPreamble(c) ==
  /\ session[c] = "version" /\ toHost[c] = <<>> /\ fd[c] = "closed"
  /\ Ends(c)
  /\ UNCHANGED <<maxVersion, hostUp, engineVars, toHost, toEngine, hostVersion, attempted,
                 opened, present, protests, truth>>

\* The engine has closed and nothing is left to read.
SessionEOF(c) ==
  /\ session[c] \in {"version", "ready"} /\ toHost[c] = <<>> /\ fd[c] = "closed"
  /\ Ends(c)
  /\ UNCHANGED <<maxVersion, hostUp, engineVars, toHost, toEngine, hostVersion, attempted,
                 opened, present, protests, truth>>

\* The host process dies, with all its sessions.
HostDies ==
  /\ hostUp
  /\ hostUp' = FALSE
  /\ session' = [c \in Conns |-> IF session[c] = "none" THEN "none" ELSE "ended"]
  /\ UNCHANGED <<maxVersion, engineVars, toHost, toEngine, hostVersion, attempted, opened,
                 present, protests, truth>>
-----------------------------------------------------------------------------
EngineStep == GotAnswer \/ NoAnswer \/ GotReply \/ NoReply
HostStep(c) == ServeVersion(c) \/ ServeFrame(c) \/ SessionEOF(c)

Next == Begin \/ EngineStep \/ CloseFile \/ (\E c \in Conns : HostStep(c)) \/ HostDies

Spec == Init /\ [][Next]_vars

\* A blocked read returns at the latest when its deadline expires.
FairSpec == Spec /\ WF_vars(EngineStep) /\ \A c \in Conns : WF_vars(HostStep(c))
-----------------------------------------------------------------------------
(* Properties *)

\* Every variable keeps its type.
TypeOK ==
  /\ maxVersion \in HostMax /\ hostUp \in BOOLEAN
  /\ announce \in 1..2 /\ agreed \in 1..2
  /\ pc \in {"idle", "answer", "reply"}
  /\ op \in Opens \cup Moves \cup Checks \cup {NoOp} /\ conn \in Conns \cup {0}
  /\ ops \in 0..MaxOps /\ dials \in Conns \cup {0} /\ redials \in 0..dials
  /\ fd \in [Conns -> {"none", "mine", "given", "closed"}]
  /\ spoken \in [Conns -> 0..2]
  /\ toHost \in [Conns -> Seq([tag : {"V", "O", "M", "E", "C"}, v : 0..2,
                               op : Opens \cup Moves \cup Checks \cup {NoOp}])]
  /\ toEngine \in [Conns -> Seq([part : {"answer", "status", "exists"}, val : 0..2, bytes : {1, 9}])]
  /\ session \in [Conns -> {"none", "version", "ready", "ended"}]
  /\ hostVersion \in [Conns -> 0..2]
  /\ attempted \in [Conns -> BOOLEAN] /\ opened \in [Conns -> BOOLEAN]
  /\ present \subseteq Inside
  /\ truth \in [Conns -> {"nothing", "done", "refused"}]

\* On every connection that got past the preamble both ends speak the same
\* version, and the engine reads an answer only as an answer and a reply only as
\* the reply to what it asked: none is missed, invented, or read as something
\* else (nativeio.c 231-233).
EndsInStep ==
  /\ \A c \in Conns : session[c] = "ready" /\ spoken[c] # 0 => spoken[c] = hostVersion[c]
  /\ pc # "idle" /\ toEngine[conn] # <<>> =>
       Head(toEngine[conn]).part =
         (IF pc = "answer" THEN "answer" ELSE IF op.kind = "E" THEN "exists" ELSE "status")

\* The host never has to object to the order of the engine's frames: no second Open on
\* a connection, no Move or Exists on a version without them, nothing before an Open
\* (host.go 253-296).  A version it refuses and a name outside its root it records too,
\* but those are answers to what the engine may ask.
NeverProtests == protests = {}

\* A success is one: the host did what the operation asked.  The operation may
\* also have been done when it is reported failed, never the reverse.
SuccessIsReal == ret.st = "ok" => truth[ret.conn] = "done"

\* A failed dial costs nothing: the engine keeps no connection but those of the
\* files it handed out, and an old host costs the job one second try, not one
\* per file (nativeio.c 236-248).
DialsAreCheap ==
  /\ pc = "idle" => \A c \in Conns : fd[c] # "mine"
  /\ redials <= 1

\* Every operation ends, and so does, at the host, every connection the engine
\* has closed.
EverythingEnds ==
  /\ (pc # "idle") ~> (pc = "idle")
  /\ \A c \in Conns : (fd[c] = "closed") ~> (session[c] = "ended")

\* The contract of the Exists reply, "Exists ... -> status u8, size u64" with
\* status 0 meaning ok (host.go 40): a reply saying ok is about a file that is
\* there.
ExistsReplyHonest ==
  \A c \in Conns : \A i \in 1..Len(toEngine[c]) :
    toEngine[c][i].part = "exists" /\ toEngine[c][i].val = 0 => truth[c] = "done"
=============================================================================
