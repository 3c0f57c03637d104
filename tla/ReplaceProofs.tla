---------------------------- MODULE ReplaceProofs -----------------------------
(***************************************************************************)
(* Replacement is atomic for readers, for files of any length, any number  *)
(* of them and of failed attempts, however they overlap: of every attempt  *)
(* that began when the host was done with the earlier ones.                *)
(***************************************************************************)
EXTENDS Replace, TLAPS

-----------------------------------------------------------------------------
(* The invariant *)

Frames  == {"none", "O", "W", "M"}
Replies == {"none", "ok", "short", "refused", "gone"}
Conn    == [round : Nat, frame : Frames, reply : Replies, file : Nat, pos : Nat]
Stages  == {"idle", "opening", "writing", "acking", "closed", "moving", "failed"}

TypeInv ==
  /\ conns \in Seq(Conn)
  /\ files \in Seq(Seq(Int))
  /\ tmp \in 0..Len(files) /\ target \in 0..Len(files)
  /\ pc \in Stages /\ round \in Nat \ {0} /\ sent \in 0..Size /\ err \in BOOLEAN /\ retries \in Nat
  /\ alone \in BOOLEAN

\* A connection has a frame to take or a reply; there is one as soon as there is an
\* attempt, which is not sent more than a file.
LinkInv ==
  /\ \A k \in 1..Len(conns) : conns[k].frame = "none" <=> conns[k].reply # "none"
  /\ conns = <<>> => pc = "idle"
  /\ pc = "acking" => sent < Size

\* The first n chunks of this round; the file behind the temporary name holds
\* them, and the connection in use writes to it next.
Prefix(n) == [i \in 1..n |-> round]
Last      == conns[InUse]
Good(n)   == tmp # 0 /\ files[tmp] = Prefix(n)
Ready(n)  == Good(n) /\ Last.file = tmp /\ Last.pos = n

\* The host is busy with the last connection at most, and with none where the
\* muxer knows how it stands.
Quiet == pc \in {"idle", "closed"} \/ (pc = "writing" /\ ~err)

ConnInv == \A k \in 1..Len(conns) : k # Len(conns) \/ Quiet => conns[k].frame = "none"

\* What it is busy with: a write, even one given up, goes to the file behind the
\* temporary name, and only a file that is whole is moved.
FrameInv ==
  conns # <<>> =>
    /\ pc \notin {"idle", "failed"} => Last.round = round
    /\ Last.frame = "O" => pc \in {"opening", "failed"} /\ Last.pos = 0
    /\ Last.frame = "W" => pc \in {"writing", "acking", "failed"} /\ tmp # 0 /\ Last.file = tmp
    /\ Last.frame = "M" => pc \in {"moving", "failed"} /\ Good(Size)

\* What the file holds as long as nothing has failed.
ContentInv ==
  /\ pc = "opening" => sent = 0 /\ (Last.reply = "ok" => Ready(0))
  /\ pc = "writing" /\ ~err => Ready(sent)
  /\ pc = "acking" => /\ Last.frame = "W" => Ready(sent)
                      /\ Last.reply = "ok" => Ready(sent + 1)
  /\ pc = "closed" => Good(Size)
  /\ pc = "moving" /\ Last.reply = "ok" => target # 0 /\ files[target] = Prefix(Size)

\* All of this holds of an attempt that is not met by anything of an earlier one.
AloneInv == alone => ConnInv /\ FrameInv /\ ContentInv

\* What was ever the target is no longer behind the temporary name, however late.
ShownInv ==
  /\ DOMAIN shown \subseteq 1..Len(files) /\ tmp \notin DOMAIN shown
  /\ target # 0 => target \in DOMAIN shown

\* A connection that may still write to its file.
Writes(k) == conns[k].frame = "W" \/ (k = Len(conns) /\ pc \in {"opening", "writing", "acking"})

\* What such an attempt made the target is whole, and no connection can write to it any
\* more, of whatever attempt.
SureInv ==
  /\ sure \subseteq DOMAIN shown
  /\ \A n \in sure : files[n] = shown[n] /\ \E r \in 1..round : shown[n] = Whole(r)
  /\ \A k \in 1..Len(conns) : Writes(k) => conns[k].file \notin sure

\* Unless an attempt has failed, that is every file, and the target is the last.
TargetInv ==
  retries = 0 =>
    /\ alone /\ sure = DOMAIN shown
    /\ round > 1 =>
         /\ target # 0
         /\ \/ files[target] = Whole(round - 1)
            \/ pc \in {"moving", "failed"} /\ files[target] = Whole(round)

ReplaceInv == TypeInv /\ LinkInv /\ AloneInv /\ ShownInv /\ SureInv /\ TargetInv

USE DEF Stages

-----------------------------------------------------------------------------
(* Connections and files *)

\* A dialled connection is the last.
LEMMA Dialled ==
  ASSUME TypeInv, NEW f \in Frames \ {"none"}, Dial(f)
  PROVE  /\ conns' \in Seq(Conn) /\ conns' # <<>> /\ Len(conns') = Len(conns) + 1
         /\ \A k \in 1..Len(conns) : conns'[k] = conns[k]
         /\ Last' = [round |-> round, frame |-> f, reply |-> "none", file |-> 0, pos |-> 0]
<1> DEFINE c == [round |-> round, frame |-> f, reply |-> "none", file |-> 0, pos |-> 0]
<1>1. c \in Conn
  BY DEF Conn, Replies, TypeInv
<1> HIDE DEF c
<1>2. conns \in Seq(Conn) /\ conns' = Append(conns, c)
  BY DEF TypeInv, Dial, c
<1>3. /\ conns' \in Seq(Conn) /\ conns' # <<>> /\ Len(conns') = Len(conns) + 1
      /\ \A k \in 1..Len(conns) : conns'[k] = conns[k]
      /\ conns'[Len(conns')] = c
  BY <1>1, <1>2
<1> QED BY <1>3 DEF Last, InUse, c

\* A change to one connection leaves the others.
LEMMA Changed ==
  ASSUME TypeInv, NEW k \in 1..Len(conns), NEW c \in Conn, conns' = [conns EXCEPT ![k] = c]
  PROVE  /\ conns' \in Seq(Conn) /\ Len(conns') = Len(conns) /\ conns' # <<>>
         /\ conns'[k] = c /\ \A j \in 1..Len(conns) : j # k => conns'[j] = conns[j]
  BY DEF TypeInv

\* So does a change to one file.
LEMMA FileChanged ==
  ASSUME TypeInv, NEW k \in 1..Len(files), NEW f \in Seq(Int), files' = [files EXCEPT ![k] = f]
  PROVE  /\ files' \in Seq(Seq(Int)) /\ Len(files') = Len(files)
         /\ files'[k] = f /\ \A j \in 1..Len(files) : j # k => files'[j] = files[j]
  BY DEF TypeInv

\* A file is written chunk by chunk.
LEMMA NextChunk ==
  ASSUME NEW n \in Nat, round \in Nat
  PROVE  Written(Prefix(n), n, <<round>>) = Prefix(n + 1)
<1>1. Len(Prefix(n)) = n /\ Len(<<round>>) = 1 /\ <<round>> # <<>>
  BY DEF Prefix
<1>2. Written(Prefix(n), n, <<round>>) =
        [i \in 1..(n + 1) |-> IF i \in (n + 1)..(n + 1) THEN <<round>>[i - n]
                              ELSE IF i <= n THEN Prefix(n)[i] ELSE 0]
  BY <1>1 DEF Written
<1>3. \A i \in 1..(n + 1) :
        (IF i \in (n + 1)..(n + 1) THEN <<round>>[i - n]
         ELSE IF i <= n THEN Prefix(n)[i] ELSE 0) = round
  BY DEF Prefix
<1> QED BY <1>2, <1>3 DEF Prefix

LEMMA WrittenSeq ==
  ASSUME NEW f \in Seq(Int), NEW p \in Nat, NEW x \in Int
  PROVE  Written(f, p, <<x>>) \in Seq(Int)
<1>1. Len(<<x>>) = 1 /\ <<x>> # <<>> /\ Len(f) \in Nat
  OBVIOUS
<1> DEFINE n == IF p + 1 > Len(f) THEN p + 1 ELSE Len(f)
<1>2. Written(f, p, <<x>>) =
        [i \in 1..n |-> IF i \in (p + 1)..(p + 1) THEN <<x>>[i - p] ELSE IF i <= Len(f) THEN f[i] ELSE 0]
  BY <1>1 DEF Written
<1>3. n \in Nat
  BY <1>1
<1>4. \A i \in 1..n :
        (IF i \in (p + 1)..(p + 1) THEN <<x>>[i - p] ELSE IF i <= Len(f) THEN f[i] ELSE 0) \in Int
  <2> SUFFICES ASSUME NEW i \in 1..n
               PROVE (IF i \in (p + 1)..(p + 1) THEN <<x>>[i - p] ELSE IF i <= Len(f) THEN f[i] ELSE 0) \in Int
    OBVIOUS
  <2>1. i \in (p + 1)..(p + 1) => <<x>>[i - p] = x
    OBVIOUS
  <2>2. i <= Len(f) => f[i] \in Int
    BY <1>1
  <2> QED BY <2>1, <2>2
<1> HIDE DEF n
<1> QED BY <1>2, <1>3, <1>4
-----------------------------------------------------------------------------
(* The muxer's steps *)

\* The last connection is one of them.
LEMMA LastOne ==
  ASSUME TypeInv, conns # <<>>
  PROVE  /\ Len(conns) \in 1..Len(conns) /\ Last = conns[Len(conns)] /\ Last \in Conn
         /\ Reply = Last.reply
<1>1. Len(conns) \in 1..Len(conns)
  BY DEF TypeInv
<1> QED BY <1>1 DEF TypeInv, Last, InUse, Reply

LEMMA DialKeeps == ASSUME ReplaceInv, Open \/ Move PROVE ReplaceInv'
<1> USE DEF ReplaceInv
<1>1. PICK f \in {"O", "M"} :
        /\ Dial(f) /\ UNCHANGED <<tmp, target, files, shown, sure, alone, round, retries>>
        /\ pc \in {"idle", "closed"}
        /\ \/ f = "O" /\ pc' = "opening" /\ sent' = 0 /\ err' = FALSE
           \/ f = "M" /\ pc = "closed" /\ pc' = "moving" /\ UNCHANGED <<sent, err>>
  BY DEF Open, Move, fileVars
<1>2. /\ conns' \in Seq(Conn) /\ conns' # <<>> /\ Len(conns') = Len(conns) + 1
      /\ \A k \in 1..Len(conns) : conns'[k] = conns[k]
      /\ Last' = [round |-> round, frame |-> f, reply |-> "none", file |-> 0, pos |-> 0]
  BY <1>1, Dialled DEF Frames
<1>3. TypeInv'
  <2>1. 0 \in 0..Size
    BY ReplaceAssumption
  <2>2. sent' \in 0..Size /\ pc' \in Stages
    BY <1>1, <2>1 DEF TypeInv
  <2>3. err' \in BOOLEAN
    BY <1>1, Zenon DEF TypeInv
  <2> QED BY <1>1, <1>2, <2>2, <2>3 DEF TypeInv
<1>4. /\ \A k \in 1..Len(conns') : k = Len(conns') \/ (k \in 1..Len(conns) /\ conns'[k] = conns[k])
      /\ conns'[Len(conns')] = Last' /\ Len(conns) \in Nat
  BY <1>2 DEF TypeInv, Last, InUse
<1>5. LinkInv'
  <2>1. \A k \in 1..Len(conns') : conns'[k].frame = "none" <=> conns'[k].reply # "none"
    BY <1>2, <1>4 DEF LinkInv
  <2> QED BY <1>1, <1>2, <2>1 DEF LinkInv
<1>6. AloneInv'
  <2> SUFFICES ASSUME alone PROVE ConnInv' /\ FrameInv' /\ ContentInv'
    BY <1>1 DEF AloneInv
  <2>1. ConnInv /\ FrameInv /\ ContentInv
    BY DEF AloneInv
  <2>2. ConnInv'
    BY <1>1, <1>4, <2>1 DEF ConnInv, Quiet
  <2>3. f = "M" => Good(Size)'
    BY <1>1, <2>1 DEF ContentInv, Good, Prefix
  <2> QED BY <1>1, <1>2, <2>2, <2>3 DEF FrameInv, ContentInv
<1>7. ShownInv' /\ TargetInv'
  BY <1>1 DEF ShownInv, TargetInv
<1>8. SureInv'
  <2>1. ASSUME NEW k \in 1..Len(conns'), Writes(k)' PROVE conns'[k].file \notin sure
    <3>1. CASE k = Len(conns')
      <4>1. conns'[k].file = 0 /\ 0 \notin sure
        BY <1>2, <1>4, <3>1 DEF SureInv, ShownInv
      <4> QED BY <4>1
    <3>2. CASE k # Len(conns')
      <4>1. k \in 1..Len(conns) /\ conns'[k] = conns[k] /\ conns'[k].frame = "W"
        BY <1>4, <2>1, <3>2 DEF Writes
      <4> QED BY <4>1 DEF Writes, SureInv
    <3> QED BY <3>1, <3>2
  <2> QED BY <1>1, <2>1 DEF SureInv, Whole
<1> QED BY <1>3, <1>5, <1>6, <1>7, <1>8

\* What the muxer makes of a reply, or of none.
LEMMA ReplyKeeps == ASSUME ReplaceInv, Opened \/ Acked \/ Close PROVE ReplaceInv'
<1> USE DEF ReplaceInv
<1>1. /\ UNCHANGED <<tmp, target, files, shown, sure, alone, conns, round, retries>>
      /\ \/ pc = "opening" /\ pc' \in {"writing", "failed"} /\ UNCHANGED <<sent, err>>
            /\ (pc' = "writing" => Reply = "ok")
         \/ pc = "acking" /\ pc' = "writing" /\ sent' = sent + 1 /\ err' = (Reply # "ok")
         \/ pc = "writing" /\ sent = Size /\ UNCHANGED <<sent, err>>
            /\ pc' \in {"closed", "failed"} /\ (pc' = "closed" => ~err)
  BY DEF Opened, Acked, Close, ClosesWell, fileVars
<1>2. /\ conns # <<>> /\ Last \in Conn /\ Reply = Last.reply
      /\ Len(conns) \in 1..Len(conns) /\ Last = conns[Len(conns)]
  BY <1>1, LastOne DEF LinkInv
<1>3. /\ UNCHANGED Last /\ (\A n : UNCHANGED <<Good(n), Ready(n)>>) /\ (\A r : UNCHANGED Whole(r))
  BY <1>1 DEF Last, InUse, Good, Ready, Prefix, Whole
<1>4. TypeInv'
  <2>1. sent' \in 0..Size
    BY <1>1, ReplaceAssumption DEF TypeInv, LinkInv
  <2>2. pc' \in Stages /\ err' \in BOOLEAN
    BY <1>1 DEF TypeInv
  <2> QED BY <1>1, <2>1, <2>2 DEF TypeInv
<1>5. Last.frame = "none" <=> Last.reply # "none"
  BY <1>2 DEF LinkInv
<1>6. LinkInv'
  BY <1>1, <1>2 DEF LinkInv
<1>7. AloneInv'
  <2> SUFFICES ASSUME alone PROVE ConnInv' /\ FrameInv' /\ ContentInv'
    BY <1>1 DEF AloneInv
  <2>1. ConnInv /\ FrameInv /\ ContentInv
    BY DEF AloneInv
  <2>2. Quiet' => Last.frame = "none"
    <3>1. CASE pc = "opening"
      BY <1>1, <1>2, <1>5, <3>1 DEF Quiet
    <3>2. CASE pc = "acking"
      BY <1>1, <1>2, <1>5, <3>2 DEF Quiet
    <3>3. CASE pc = "writing"
      BY <1>1, <1>2, <2>1, <3>3 DEF Quiet, ConnInv
    <3> QED BY <1>1, <3>1, <3>2, <3>3
  <2>3. ConnInv'
    BY <1>1, <1>2, <2>1, <2>2 DEF ConnInv
  <2>4. FrameInv'
    <3>1. Last.frame \in {"O", "W", "M"} => pc' # "closed"
      BY <2>2 DEF Quiet
    <3> QED BY <1>1, <1>2, <1>3, <1>5, <2>1, <3>1 DEF FrameInv
  <2>5. CASE pc = "opening"
    BY <1>1, <1>2, <1>3, <2>1, <2>3, <2>4, <2>5 DEF ContentInv
  <2>6. CASE pc = "acking"
    BY <1>1, <1>2, <1>3, <2>1, <2>3, <2>4, <2>6 DEF ContentInv
  <2>7. CASE pc = "writing"
    BY <1>1, <1>2, <1>3, <2>1, <2>3, <2>4, <2>7 DEF ContentInv, Ready
  <2> QED BY <1>1, <2>5, <2>6, <2>7
<1>8. ShownInv' /\ TargetInv'
  BY <1>1, <1>3 DEF ShownInv, TargetInv
<1>9. SureInv'
  <2>1. \A k \in 1..Len(conns) : Writes(k)' => Writes(k)
    BY <1>1 DEF Writes
  <2> QED BY <1>1, <1>3, <2>1 DEF SureInv
<1> QED BY <1>4, <1>6, <1>7, <1>8, <1>9

LEMMA WriteKeeps == ASSUME ReplaceInv, Write PROVE ReplaceInv'
<1> USE DEF ReplaceInv
<1>1. /\ pc = "writing" /\ sent < Size
      /\ UNCHANGED <<tmp, target, files, shown, sure, alone, round, err, retries>>
      /\ \/ err /\ sent' = sent + 1 /\ UNCHANGED <<pc, conns>>
         \/ ~err /\ Send("W") /\ pc' = "acking" /\ UNCHANGED sent
  BY DEF Write, fileVars
<1>2. /\ conns # <<>> /\ Last \in Conn
      /\ Len(conns) \in 1..Len(conns) /\ Last = conns[Len(conns)]
  BY <1>1, LastOne DEF LinkInv
<1>3. (\A n : UNCHANGED Good(n)) /\ (\A r : UNCHANGED Whole(r))
  BY <1>1 DEF Good, Prefix, Whole
<1>4. ShownInv'
  BY <1>1 DEF ShownInv
<1>5. TargetInv'
  BY <1>1, <1>3 DEF TargetInv
<1>6. CASE err /\ sent' = sent + 1 /\ UNCHANGED <<pc, conns>>
  <2>1. TypeInv'
    BY <1>1, <1>6, ReplaceAssumption DEF TypeInv
  <2>2. UNCHANGED Last
    BY <1>6 DEF Last, InUse
  <2>3. LinkInv'
    BY <1>1, <1>6 DEF LinkInv
  <2>4. AloneInv'
    BY <1>1, <1>3, <1>6, <2>2 DEF AloneInv, ConnInv, Quiet, FrameInv, ContentInv
  <2>5. SureInv'
    BY <1>1, <1>3, <1>6 DEF SureInv, Writes
  <2> QED BY <1>4, <1>5, <2>1, <2>3, <2>4, <2>5
<1>7. CASE ~err /\ Send("W") /\ pc' = "acking" /\ UNCHANGED sent
  <2> DEFINE c == [Last EXCEPT !.frame = "W", !.reply = "none"]
  <2>1. c \in Conn /\ c.round = Last.round /\ c.file = Last.file /\ c.pos = Last.pos
        /\ c.frame = "W" /\ c.reply = "none"
    BY <1>2 DEF Conn, Frames, Replies
  <2>2. conns' = [conns EXCEPT ![Len(conns)] = c]
    BY <1>2, <1>7 DEF Send, InUse, TypeInv
  <2> HIDE DEF c
  <2>3. /\ conns' \in Seq(Conn) /\ Len(conns') = Len(conns) /\ conns' # <<>>
        /\ conns'[Len(conns)] = c /\ \A j \in 1..Len(conns) : j # Len(conns) => conns'[j] = conns[j]
    BY <1>2, <2>1, <2>2, Changed
  <2>4. Last' = c
    BY <2>3 DEF Last, InUse
  <2>5. TypeInv'
    BY <1>1, <1>7, <2>3 DEF TypeInv
  <2>6. LinkInv'
    BY <1>1, <1>7, <2>1, <2>3 DEF LinkInv
  <2>7. AloneInv'
    <3> SUFFICES ASSUME alone PROVE ConnInv' /\ FrameInv' /\ ContentInv'
      BY <1>1 DEF AloneInv
    <3>1. ConnInv /\ FrameInv /\ ContentInv
      BY DEF AloneInv
    <3>2. ConnInv'
      BY <1>1, <1>7, <2>1, <2>3, <3>1 DEF ConnInv, Quiet
    <3>3. Ready(sent) /\ Last.round = round
      BY <1>1, <1>2, <1>7, <3>1 DEF ContentInv, FrameInv
    <3>4. Ready(sent)'
      BY <1>1, <1>7, <2>1, <2>4, <3>3 DEF Ready, Good, Prefix
    <3> QED BY <1>1, <1>7, <2>1, <2>4, <3>2, <3>3, <3>4 DEF FrameInv, ContentInv, Ready, Good
  <2>8. SureInv'
    <3>1. ASSUME NEW k \in 1..Len(conns'), Writes(k)' PROVE Writes(k) /\ conns'[k].file = conns[k].file
      BY <1>1, <1>2, <2>1, <2>3, <3>1 DEF Writes
    <3> QED BY <1>1, <1>3, <2>3, <3>1 DEF SureInv
  <2> QED BY <1>4, <1>5, <2>5, <2>6, <2>7, <2>8
<1> QED BY <1>1, <1>6, <1>7

\* The round is over: what was moved is the target of the next, or the attempt has
\* failed, and what is left of it at the host may meet the next.
LEMMA RoundKeeps == ASSUME ReplaceInv, Moved \/ Retry PROVE ReplaceInv'
<1> USE DEF ReplaceInv
<1>1. /\ UNCHANGED <<tmp, target, files, shown, sure, conns, sent, err>>
      /\ \/ pc = "moving" /\ Reply = "ok" /\ pc' = "idle" /\ alone' = ~Busy /\ round' = round + 1
            /\ UNCHANGED retries
         \/ pc = "moving" /\ pc' = "failed" /\ UNCHANGED <<round, retries, alone>>
         \/ pc = "failed" /\ pc' = "idle" /\ alone' = ~Busy /\ round' = round + 1 /\ retries' = retries + 1
  BY DEF Moved, Retry, fileVars
<1>2. /\ conns # <<>> /\ Last \in Conn /\ Reply = Last.reply
      /\ Len(conns) \in 1..Len(conns) /\ Last = conns[Len(conns)]
  BY <1>1, LastOne DEF LinkInv
<1>3. UNCHANGED Last /\ (\A r : UNCHANGED Whole(r)) /\ Prefix(Size) = Whole(round)
  BY <1>1 DEF Last, InUse, Whole, Prefix
<1>4. TypeInv'
  <2>1. alone' \in BOOLEAN
    BY <1>1, Zenon DEF TypeInv
  <2> QED BY <1>1, <2>1 DEF TypeInv
<1>5. LinkInv'
  BY <1>1, <1>2 DEF LinkInv
<1>6. AloneInv'
  <2>1. CASE pc' = "idle"
    <3> SUFFICES ASSUME ~Busy PROVE ConnInv' /\ FrameInv' /\ ContentInv'
      BY <1>1, <2>1 DEF AloneInv
    <3>1. \A k \in 1..Len(conns) : conns[k].frame = "none"
      BY DEF Busy, TypeInv
    <3>2. ConnInv'
      BY <1>1, <3>1 DEF ConnInv
    <3> QED BY <1>1, <1>2, <1>3, <2>1, <3>1, <3>2 DEF FrameInv, ContentInv
  <2>2. CASE pc' = "failed"
    <3> SUFFICES ASSUME alone PROVE ConnInv' /\ FrameInv' /\ ContentInv'
      BY <1>1, <2>2 DEF AloneInv
    <3>1. ConnInv /\ FrameInv /\ ContentInv
      BY DEF AloneInv
    <3>2. ConnInv'
      BY <1>1, <2>2, <3>1 DEF ConnInv, Quiet
    <3>3. UNCHANGED Good(Size)
      BY <1>1, <2>2 DEF Good, Prefix
    <3> QED BY <1>1, <1>2, <1>3, <2>2, <3>1, <3>2, <3>3 DEF FrameInv, ContentInv
  <2> QED BY <1>1, <2>1, <2>2
<1>7. ShownInv'
  BY <1>1 DEF ShownInv
<1>8. SureInv'
  <2>1. \A r \in 1..round : r \in 1..round'
    BY <1>1 DEF TypeInv
  <2>2. \A k \in 1..Len(conns) : Writes(k)' => Writes(k)
    BY <1>1 DEF Writes
  <2> QED BY <1>1, <1>3, <2>1, <2>2 DEF SureInv
<1>9. TargetInv'
  <2> SUFFICES ASSUME retries' = 0 PROVE TargetInv'
    BY DEF TargetInv
  <2>1. retries = 0 /\ pc = "moving" /\ alone /\ ConnInv /\ ContentInv
    BY <1>1 DEF TypeInv, TargetInv, AloneInv
  <2>2. CASE pc' = "idle"
    <3>1. ~Busy
      <4>1. Last.frame = "none"
        BY <1>1, <1>2, <2>1, <2>2 DEF LinkInv
      <4>2. \A k \in 1..Len(conns) : conns[k].frame = "none"
        BY <1>2, <2>1, <4>1 DEF ConnInv
      <4> QED BY <4>2 DEF Busy, TypeInv
    <3>2. target # 0 /\ files[target] = Whole(round) /\ round' - 1 = round
      BY <1>1, <1>2, <1>3, <2>1, <2>2 DEF ContentInv, TypeInv
    <3> QED BY <1>1, <1>3, <2>1, <2>2, <3>1, <3>2 DEF TargetInv
  <2>3. CASE pc' = "failed"
    BY <1>1, <1>3, <2>1, <2>3 DEF TargetInv
  <2> QED BY <1>1, <2>1, <2>2, <2>3
<1> QED BY <1>4, <1>5, <1>6, <1>7, <1>8, <1>9
-----------------------------------------------------------------------------
(* The host's steps *)

\* The host takes a frame and answers.  In an attempt that is met by nothing earlier it
\* is the frame of the last connection.
LEMMA Answered ==
  ASSUME ReplaceInv, NEW k \in DOMAIN conns, conns[k].frame # "none", UNCHANGED <<pc, err, sent>>,
         NEW c \in Conn, c.frame = "none", c.reply # "none", conns' = [conns EXCEPT ![k] = c]
  PROVE  /\ k \in 1..Len(conns) /\ conns' \in Seq(Conn) /\ conns' # <<>> /\ conns # <<>>
         /\ Len(conns') = Len(conns) /\ conns'[k] = c
         /\ \A j \in 1..Len(conns) : j # k => conns'[j] = conns[j]
         /\ \A j \in 1..Len(conns) : Writes(j)' => Writes(j)
         /\ LinkInv'
         /\ alone => k = Len(conns) /\ Last' = c /\ Last = conns[k] /\ ~Quiet /\ ConnInv'
<1> USE DEF ReplaceInv
<1>1. k \in 1..Len(conns) /\ conns # <<>>
  BY DEF TypeInv
<1>2. /\ conns' \in Seq(Conn) /\ Len(conns') = Len(conns) /\ conns' # <<>>
      /\ conns'[k] = c /\ \A j \in 1..Len(conns) : j # k => conns'[j] = conns[j]
  BY <1>1, Changed
<1>3. \A j \in 1..Len(conns) : Writes(j)' => Writes(j)
  BY <1>1, <1>2 DEF Writes
<1>4. LinkInv'
  BY <1>1, <1>2 DEF LinkInv
<1>5. ASSUME alone PROVE k = Len(conns) /\ Last' = c /\ Last = conns[k] /\ ~Quiet /\ ConnInv'
  <2>1. ConnInv
    BY <1>5 DEF AloneInv
  <2>2. k = Len(conns) /\ ~Quiet
    BY <1>1, <2>1 DEF ConnInv
  <2>3. Last' = c /\ Last = conns[k]
    BY <1>2, <2>2 DEF Last, InUse
  <2> QED BY <1>1, <1>2, <2>1, <2>2, <2>3 DEF ConnInv, Quiet
<1> QED BY <1>1, <1>2, <1>3, <1>4, <1>5

\* Whatever is done to a file that is not sure, what was shown stays.
LEMMA ShownStays ==
  ASSUME ReplaceInv, files' \in Seq(Seq(Int)), Len(files') >= Len(files),
         \A n \in sure : files'[n] = files[n],
         tmp' = tmp \/ tmp' \notin 0..Len(files),
         Len(conns') = Len(conns), \A j \in 1..Len(conns) : Writes(j)' => conns'[j].file \notin sure,
         UNCHANGED <<target, shown, sure, alone, round, retries, pc>>
  PROVE  ShownInv' /\ SureInv' /\ TargetInv'
<1> USE DEF ReplaceInv
<1>1. \A r : UNCHANGED Whole(r)
  BY DEF Whole
<1>2. DOMAIN shown \subseteq 1..Len(files') /\ tmp' \notin DOMAIN shown
  <2>1. Len(files) \in Nat /\ Len(files') \in Nat
    BY DEF TypeInv
  <2> QED BY <2>1 DEF ShownInv
<1>3. ShownInv'
  BY <1>2 DEF ShownInv
<1>4. SureInv'
  BY <1>1 DEF SureInv
<1>5. TargetInv'
  BY <1>1 DEF TargetInv, ShownInv
<1> QED BY <1>3, <1>4, <1>5

\* A refusal, or none: nothing was done.
LEMMA NothingDone ==
  ASSUME ReplaceInv, NEW k \in DOMAIN conns, conns[k].frame # "none",
         NEW r \in Replies \ {"none", "ok"}, Answer(k, r), UNCHANGED <<fileVars, muxerVars>>
  PROVE  ReplaceInv'
<1> USE DEF ReplaceInv
<1> DEFINE c == [conns[k] EXCEPT !.frame = "none", !.reply = r]
<1>1. conns[k] \in Conn
  BY DEF TypeInv
<1>2. c \in Conn /\ c.frame = "none" /\ c.reply = r /\ c.round = conns[k].round /\ c.file = conns[k].file
  BY <1>1 DEF Conn, Frames, Replies
<1>3. conns' = [conns EXCEPT ![k] = c]
  BY <1>1 DEF Answer, TypeInv
<1> HIDE DEF c
<1>4. UNCHANGED <<tmp, target, files, shown, sure, alone, pc, round, sent, err, retries>>
  BY DEF fileVars, muxerVars
<1>5. /\ k \in 1..Len(conns) /\ conns' \in Seq(Conn) /\ conns' # <<>> /\ conns # <<>>
      /\ Len(conns') = Len(conns) /\ conns'[k] = c
      /\ \A j \in 1..Len(conns) : j # k => conns'[j] = conns[j]
      /\ \A j \in 1..Len(conns) : Writes(j)' => Writes(j)
      /\ LinkInv'
      /\ alone => k = Len(conns) /\ Last' = c /\ Last = conns[k] /\ ~Quiet /\ ConnInv'
  BY <1>2, <1>3, <1>4, Answered
<1>6. TypeInv'
  BY <1>4, <1>5 DEF TypeInv
<1>7. AloneInv'
  <2> SUFFICES ASSUME alone PROVE FrameInv' /\ ContentInv'
    BY <1>4, <1>5 DEF AloneInv
  <2> QED BY <1>2, <1>4, <1>5 DEF AloneInv, FrameInv, ContentInv, Quiet
<1>8. ShownInv' /\ TargetInv'
  BY <1>4 DEF ShownInv, TargetInv, Whole
<1>9. SureInv'
  <2>1. \A j \in 1..Len(conns) : conns'[j].file = conns[j].file
    BY <1>2, <1>5
  <2> QED BY <1>4, <1>5, <2>1 DEF SureInv, Whole
<1> QED BY <1>5, <1>6, <1>7, <1>8, <1>9

\* Opening makes a file, or empties the one that is there, which no reader has.
LEMMA DoOpenKeeps == ASSUME ReplaceInv, NEW k \in DOMAIN conns, DoOpen(k) PROVE ReplaceInv'
<1> USE DEF ReplaceInv
<1> DEFINE f == IF tmp = 0 THEN Len(files) + 1 ELSE tmp
           c == [conns[k] EXCEPT !.frame = "none", !.reply = "ok", !.file = f]
<1>1. CASE Answer(k, "refused") /\ UNCHANGED <<files, tmp>>
  <2>1. conns[k].frame # "none" /\ "refused" \in Replies \ {"none", "ok"} /\ UNCHANGED <<fileVars, muxerVars>>
    BY <1>1 DEF DoOpen, Replies, fileVars
  <2> QED BY <1>1, <2>1, NothingDone
<1>2. CASE /\ files' = IF tmp = 0 THEN Append(files, <<>>) ELSE [files EXCEPT ![f] = <<>>]
           /\ tmp' = f
           /\ conns' = [conns EXCEPT ![k].frame = "none", ![k].reply = "ok", ![k].file = f]
  <2>1. conns[k] \in Conn /\ f \in Nat \ {0} /\ Len(files) \in Nat
    BY DEF TypeInv
  <2> HIDE DEF f
  <2>2. /\ c \in Conn /\ c.frame = "none" /\ c.reply = "ok" /\ c.round = conns[k].round
        /\ c.file = f /\ c.pos = conns[k].pos
    BY <2>1 DEF Conn, Frames, Replies
  <2>3. conns' = [conns EXCEPT ![k] = c]
    BY <1>2, <2>1 DEF TypeInv
  <2> HIDE DEF c
  <2>4. conns[k].frame = "O" /\ UNCHANGED <<target, shown, sure, alone, pc, round, sent, err, retries>>
    BY DEF DoOpen, muxerVars
  <2>5. /\ k \in 1..Len(conns) /\ conns' \in Seq(Conn) /\ conns' # <<>> /\ conns # <<>>
        /\ Len(conns') = Len(conns) /\ conns'[k] = c
        /\ \A j \in 1..Len(conns) : j # k => conns'[j] = conns[j]
        /\ \A j \in 1..Len(conns) : Writes(j)' => Writes(j)
        /\ LinkInv'
        /\ alone => k = Len(conns) /\ Last' = c /\ Last = conns[k] /\ ~Quiet /\ ConnInv'
    BY <2>2, <2>3, <2>4, Answered
  <2>6. /\ files' \in Seq(Seq(Int)) /\ Len(files') >= Len(files) /\ f \in 1..Len(files')
        /\ files'[f] = <<>>
        /\ \A n \in 1..Len(files) : n # f => files'[n] = files[n]
        /\ f = tmp \/ f \notin 0..Len(files)
    <3>1. <<>> \in Seq(Int)
      OBVIOUS
    <3>2. CASE tmp = 0
      BY <1>2, <2>1, <3>1, <3>2 DEF TypeInv, f
    <3>3. CASE tmp # 0
      BY <1>2, <2>1, <3>1, <3>3 DEF TypeInv, f
    <3> QED BY <3>2, <3>3
  <2>7. TypeInv'
    BY <1>2, <2>4, <2>5, <2>6 DEF TypeInv
  <2>8. AloneInv'
    <3> SUFFICES ASSUME alone PROVE FrameInv' /\ ContentInv'
      BY <2>4, <2>5 DEF AloneInv
    <3>1. pc \in {"opening", "failed"} /\ Last.pos = 0 /\ (pc = "opening" => Last.round = round /\ sent = 0)
      BY <2>4, <2>5 DEF AloneInv, FrameInv, ContentInv
    <3>2. Prefix(0)' = <<>>
      BY DEF Prefix
    <3>3. Ready(0)'
      BY <1>2, <2>1, <2>2, <2>5, <2>6, <3>1, <3>2 DEF Ready, Good
    <3> QED BY <2>2, <2>4, <2>5, <3>1, <3>3 DEF FrameInv, ContentInv
  <2>9. f \notin sure
    BY <2>6 DEF SureInv, ShownInv
  <2>10. \A n \in sure : files'[n] = files[n]
    BY <2>6, <2>9 DEF SureInv, ShownInv
  <2>11. \A j \in 1..Len(conns) : Writes(j)' => conns'[j].file \notin sure
    BY <2>2, <2>5, <2>9 DEF SureInv
  <2>12. ShownInv' /\ SureInv' /\ TargetInv'
    BY <1>2, <2>4, <2>5, <2>6, <2>10, <2>11, ShownStays
  <2> QED BY <2>5, <2>7, <2>8, <2>12
<1> QED BY <1>1, <1>2 DEF DoOpen

\* A write, in time or late, goes to a file that is not sure.
LEMMA DoWriteKeeps == ASSUME ReplaceInv, NEW k \in DOMAIN conns, DoWrite(k) PROVE ReplaceInv'
<1> USE DEF ReplaceInv
<1>1. /\ conns[k].frame = "W" /\ conns[k] \in Conn
      /\ UNCHANGED <<tmp, target, shown, sure, alone, pc, round, sent, err, retries>>
  BY DEF DoWrite, muxerVars, TypeInv
<1>2. PICK r \in {"ok", "short", "gone"}, p \in Nat, x \in Int :
        /\ conns' = [conns EXCEPT ![k] = [conns[k] EXCEPT !.frame = "none", !.reply = r, !.pos = p]]
        /\ \/ files' = files
           \/ files' = [files EXCEPT ![conns[k].file] = Written(@, conns[k].pos, <<x>>)]
        /\ r = "ok" => /\ p = conns[k].pos + 1 /\ x = conns[k].round
                       /\ files' = [files EXCEPT ![conns[k].file] = Written(@, conns[k].pos, <<x>>)]
  <2>1. conns[k].round \in Int /\ conns[k].pos \in Nat /\ conns[k].pos + 1 \in Nat /\ Torn \in Int
    BY <1>1 DEF Conn, Torn
  <2>2. CASE \E reply \in {"ok", "short"} :
               /\ files' = [files EXCEPT ![conns[k].file] = Written(@, conns[k].pos, <<conns[k].round>>)]
               /\ conns' = [conns EXCEPT ![k].frame = "none", ![k].reply = reply, ![k].pos = @ + 1]
    <3>1. PICK reply \in {"ok", "short"} :
            /\ files' = [files EXCEPT ![conns[k].file] = Written(@, conns[k].pos, <<conns[k].round>>)]
            /\ conns' = [conns EXCEPT ![k].frame = "none", ![k].reply = reply, ![k].pos = @ + 1]
      BY <2>2
    <3>2. conns' = [conns EXCEPT ![k] = [conns[k] EXCEPT !.frame = "none", !.reply = reply,
                                                         !.pos = conns[k].pos + 1]]
      BY <1>1, <3>1 DEF TypeInv, Conn
    <3> QED BY <2>1, <3>1, <3>2
  <2>3. CASE /\ files' \in {files, [files EXCEPT ![conns[k].file] = Written(@, conns[k].pos, <<Torn>>)]}
             /\ Answer(k, "gone")
    <3>1. conns' = [conns EXCEPT ![k] = [conns[k] EXCEPT !.frame = "none", !.reply = "gone",
                                                         !.pos = conns[k].pos]]
      BY <1>1, <2>3 DEF Answer, TypeInv, Conn
    <3> QED BY <2>1, <2>3, <3>1
  <2> QED BY <2>2, <2>3 DEF DoWrite
<1> DEFINE c == [conns[k] EXCEPT !.frame = "none", !.reply = r, !.pos = p]
<1>3. /\ c \in Conn /\ c.frame = "none" /\ c.reply = r /\ c.round = conns[k].round
      /\ c.file = conns[k].file /\ c.pos = p
  BY <1>1 DEF Conn, Frames, Replies
<1>4. conns' = [conns EXCEPT ![k] = c]
  BY <1>2
<1> HIDE DEF c
<1>5. /\ k \in 1..Len(conns) /\ conns' \in Seq(Conn) /\ conns' # <<>> /\ conns # <<>>
      /\ Len(conns') = Len(conns) /\ conns'[k] = c
      /\ \A j \in 1..Len(conns) : j # k => conns'[j] = conns[j]
      /\ \A j \in 1..Len(conns) : Writes(j)' => Writes(j)
      /\ LinkInv'
      /\ alone => k = Len(conns) /\ Last' = c /\ Last = conns[k] /\ ~Quiet /\ ConnInv'
  BY <1>1, <1>2, <1>3, <1>4, Answered
<1>6. PICK n \in Nat : n = conns[k].file /\ n \notin sure
  BY <1>1, <1>5 DEF Conn, SureInv, Writes
<1>7. /\ files' \in Seq(Seq(Int)) /\ Len(files') = Len(files)
      /\ \A i \in 1..Len(files) : i # n => files'[i] = files[i]
      /\ r = "ok" /\ n \in 1..Len(files) => files'[n] = Written(files[n], conns[k].pos, <<conns[k].round>>)
  <2>1. CASE files' = files
    <3>1. r = "ok" /\ n \in 1..Len(files) => files'[n] = Written(files[n], conns[k].pos, <<conns[k].round>>)
      <4> SUFFICES ASSUME r = "ok", n \in DOMAIN files
                   PROVE  files'[n] = Written(files[n], conns[k].pos, <<conns[k].round>>)
        BY DEF TypeInv
      <4>1. files' = [files EXCEPT ![n] = Written(files[n], conns[k].pos, <<conns[k].round>>)]
        BY <1>2, <1>6
      <4> QED BY <4>1
    <3> QED BY <2>1, <3>1 DEF TypeInv
  <2>2. CASE files' = [files EXCEPT ![n] = Written(files[n], conns[k].pos, <<x>>)]
    <3>1. CASE n \in 1..Len(files)
      <4>1. Written(files[n], conns[k].pos, <<x>>) \in Seq(Int)
        <5>1. conns[k].pos \in Nat /\ files[n] \in Seq(Int)
          BY <1>1, <3>1 DEF Conn, TypeInv
        <5> QED BY <5>1, WrittenSeq
      <4>2. /\ files' \in Seq(Seq(Int)) /\ Len(files') = Len(files)
            /\ files'[n] = Written(files[n], conns[k].pos, <<x>>)
            /\ \A i \in 1..Len(files) : i # n => files'[i] = files[i]
        BY <2>2, <3>1, <4>1, FileChanged
      <4>3. r = "ok" => x = conns[k].round
        BY <1>2
      <4> QED BY <4>2, <4>3
    <3>2. CASE n \notin 1..Len(files)
      <4>1. files' = files
        <5>1. files \in Seq(Seq(Int))
          BY DEF TypeInv
        <5>2. PICK w : files' = [files EXCEPT ![n] = w]
          BY <2>2
        <5> HIDE DEF ReplaceInv
        <5> QED BY <3>2, <5>1, <5>2
      <4> QED BY <3>2, <4>1 DEF TypeInv
    <3> QED BY <3>1, <3>2
  <2> QED BY <1>2, <1>6, <2>1, <2>2
<1>8. TypeInv'
  BY <1>1, <1>5, <1>7 DEF TypeInv
<1>9. AloneInv'
  <2> SUFFICES ASSUME alone PROVE FrameInv' /\ ContentInv'
    BY <1>1, <1>5 DEF AloneInv
  <2>1. ConnInv /\ FrameInv /\ ContentInv
    BY DEF AloneInv
  <2>2. /\ pc \in {"writing", "acking", "failed"} /\ tmp # 0 /\ conns[k].file = tmp /\ n = tmp
        /\ tmp \in 1..Len(files)
    BY <1>1, <1>5, <1>6, <2>1 DEF FrameInv, TypeInv
  <2>3. pc = "acking" /\ r = "ok" => Ready(sent + 1)'
    <3> SUFFICES ASSUME pc = "acking", r = "ok" PROVE Ready(sent + 1)'
      OBVIOUS
    <3>1. files[tmp] = Prefix(sent) /\ conns[k].pos = sent /\ conns[k].round = round
      BY <1>1, <1>5, <2>1 DEF ContentInv, FrameInv, Ready, Good
    <3>2. files'[tmp] = Prefix(sent + 1)
      <4>1. sent \in Nat /\ round \in Nat
        BY ReplaceAssumption DEF TypeInv
      <4> QED BY <1>7, <2>2, <3>1, <4>1, NextChunk
    <3>3. files'[tmp'] = Prefix(sent + 1)'
      BY <1>1, <3>2 DEF Prefix
    <3> QED BY <1>1, <1>2, <1>3, <1>5, <2>2, <3>1, <3>3 DEF Ready, Good
  <2> QED BY <1>1, <1>3, <1>5, <2>1, <2>2, <2>3 DEF FrameInv, ContentInv, Quiet
<1>10. ShownInv' /\ SureInv' /\ TargetInv'
  <2>1. Len(files') >= Len(files)
    BY <1>7 DEF TypeInv
  <2>2. \A i \in sure : files'[i] = files[i]
    BY <1>6, <1>7 DEF SureInv, ShownInv
  <2>3. \A j \in 1..Len(conns) : Writes(j)' => conns'[j].file \notin sure
    <3>1. \A j \in 1..Len(conns) : conns'[j].file = conns[j].file
      BY <1>3, <1>5
    <3> QED BY <1>5, <3>1 DEF SureInv
  <2> QED BY <1>1, <1>5, <1>7, <2>1, <2>2, <2>3, ShownStays
<1> QED BY <1>5, <1>8, <1>9, <1>10

\* A move, in time or late, shows a whole file, unless an earlier attempt met this one;
\* it never touches what was shown before.
LEMMA DoMoveKeeps == ASSUME ReplaceInv, NEW k \in DOMAIN conns, DoMove(k) PROVE ReplaceInv'
<1> USE DEF ReplaceInv
<1> DEFINE c == [conns[k] EXCEPT !.frame = "none", !.reply = "ok"]
<1>1. CASE Answer(k, "refused") /\ UNCHANGED <<tmp, target, shown, sure>>
  <2>1. conns[k].frame # "none" /\ "refused" \in Replies \ {"none", "ok"} /\ UNCHANGED <<fileVars, muxerVars>>
    BY <1>1 DEF DoMove, Replies, fileVars
  <2> QED BY <1>1, <2>1, NothingDone
<1>2. CASE /\ tmp # 0 /\ Renamed /\ Answer(k, "ok")
           /\ shown' = [n \in DOMAIN shown \cup {tmp} |-> IF n = tmp THEN files[tmp] ELSE shown[n]]
           /\ sure' = IF alone THEN sure \cup {tmp} ELSE sure
  <2>1. /\ conns[k].frame = "M" /\ conns[k] \in Conn
        /\ UNCHANGED <<files, alone, pc, round, sent, err, retries>> /\ target' = tmp /\ tmp' = 0
    BY <1>2 DEF DoMove, muxerVars, Renamed, TypeInv
  <2>2. c \in Conn /\ c.frame = "none" /\ c.reply = "ok" /\ c.round = conns[k].round /\ c.file = conns[k].file
    BY <2>1 DEF Conn, Frames, Replies
  <2>3. conns' = [conns EXCEPT ![k] = c]
    BY <1>2, <2>1 DEF Answer, TypeInv
  <2> HIDE DEF c
  <2>4. /\ k \in 1..Len(conns) /\ conns' \in Seq(Conn) /\ conns' # <<>> /\ conns # <<>>
        /\ Len(conns') = Len(conns) /\ conns'[k] = c
        /\ \A j \in 1..Len(conns) : j # k => conns'[j] = conns[j]
        /\ \A j \in 1..Len(conns) : Writes(j)' => Writes(j)
        /\ LinkInv'
        /\ alone => k = Len(conns) /\ Last' = c /\ Last = conns[k] /\ ~Quiet /\ ConnInv'
    BY <2>1, <2>2, <2>3, Answered
  <2>5. tmp \in 1..Len(files) /\ tmp \notin DOMAIN shown /\ tmp \notin sure
    BY <1>2 DEF TypeInv, ShownInv, SureInv
  <2>6. alone => pc \in {"moving", "failed"} /\ files[tmp] = Whole(round)
    BY <2>1, <2>4 DEF AloneInv, FrameInv, Good, Prefix, Whole
  <2>7. TypeInv'
    BY <2>1, <2>4, <2>5 DEF TypeInv
  <2>8. AloneInv'
    <3> SUFFICES ASSUME alone PROVE FrameInv' /\ ContentInv'
      BY <2>1, <2>4 DEF AloneInv
    <3>1. Prefix(Size)' = Whole(round)
      BY <2>1 DEF Prefix, Whole
    <3> QED BY <1>2, <2>1, <2>2, <2>4, <2>6, <3>1 DEF AloneInv, FrameInv, ContentInv
  <2>9. DOMAIN shown' = DOMAIN shown \cup {tmp} /\ shown'[tmp] = files[tmp]
        /\ \A n \in DOMAIN shown : shown'[n] = shown[n]
    BY <1>2, <2>5
  <2>10. ShownInv'
    BY <1>2, <2>1, <2>5, <2>9 DEF ShownInv
  <2>11. SureInv'
    <3>1. sure' \subseteq DOMAIN shown'
      BY <1>2, <2>9 DEF SureInv
    <3>2. ASSUME NEW n \in sure'
          PROVE  files[n] = shown'[n] /\ \E r \in 1..round : shown'[n] = Whole(r)
      <4>1. CASE n \in sure
        BY <2>9, <4>1 DEF SureInv
      <4>2. CASE n \notin sure
        <5>1. n = tmp /\ alone /\ round \in 1..round
          BY <1>2, <4>2 DEF TypeInv
        <5> QED BY <2>6, <2>9, <5>1
      <4> QED BY <4>1, <4>2
    <3>3. ASSUME NEW j \in 1..Len(conns), Writes(j)' PROVE conns'[j].file \notin sure'
      <4>1. CASE alone
        BY <2>1, <2>2, <2>4, <2>6, <3>3, <4>1 DEF Writes, AloneInv, ConnInv
      <4>2. CASE ~alone
        <5>1. conns'[j].file = conns[j].file /\ sure' = sure
          BY <1>2, <2>2, <2>4, <4>2
        <5> QED BY <2>4, <3>3, <5>1 DEF SureInv
      <4> QED BY <4>1, <4>2
    <3> QED BY <2>1, <2>4, <3>1, <3>2, <3>3 DEF SureInv, Whole
  <2>12. TargetInv'
    <3> SUFFICES ASSUME retries = 0 PROVE TargetInv'
      BY <2>1 DEF TargetInv
    <3>1. alone /\ sure = DOMAIN shown
      BY DEF TargetInv
    <3> QED BY <1>2, <2>1, <2>6, <2>9, <3>1 DEF TargetInv, Whole
  <2> QED BY <2>4, <2>7, <2>8, <2>10, <2>11, <2>12
<1> QED BY <1>1, <1>2 DEF DoMove

LEMMA LoseKeeps == ASSUME ReplaceInv, NEW k \in DOMAIN conns, Lose(k) PROVE ReplaceInv'
<1>1. conns[k].frame # "none" /\ "gone" \in Replies \ {"none", "ok"}
  BY DEF Lose, Replies
<1> QED BY <1>1, NothingDone DEF Lose
-----------------------------------------------------------------------------
(* The theorem *)

LEMMA ReplaceInvInit == Init => ReplaceInv
<1> SUFFICES ASSUME Init PROVE ReplaceInv
  OBVIOUS
<1>1. Len(<<>>) = 0 /\ 0 \in 0..Size
  BY ReplaceAssumption
<1>2. TypeInv /\ LinkInv
  <2>1. err \in BOOLEAN /\ alone \in BOOLEAN
    BY Zenon DEF Init
  <2>2. conns \in Seq(Conn) /\ files \in Seq(Seq(Int))
    BY DEF Init
  <2> QED BY <1>1, <2>1, <2>2 DEF Init, TypeInv, LinkInv
<1>3. AloneInv
  BY <1>1 DEF Init, AloneInv, ConnInv, FrameInv, ContentInv
<1>4. DOMAIN shown = {} /\ sure = {} /\ target = 0
  BY DEF Init
<1>5. ShownInv /\ SureInv
  BY <1>1, <1>4 DEF Init, ShownInv, SureInv
<1>6. TargetInv
  BY <1>4 DEF Init, TargetInv
<1> QED BY <1>2, <1>3, <1>5, <1>6 DEF ReplaceInv

LEMMA ReplaceInvNext == ReplaceInv /\ [Next]_vars => ReplaceInv'
<1> SUFFICES ASSUME ReplaceInv, [Next]_vars PROVE ReplaceInv'
  OBVIOUS
<1>1. CASE Open \/ Move
  BY <1>1, DialKeeps
<1>2. CASE Opened \/ Acked \/ Close
  BY <1>2, ReplyKeeps
<1>3. CASE Write
  BY <1>3, WriteKeeps
<1>4. CASE Moved \/ Retry
  BY <1>4, RoundKeeps
<1>5. CASE Host
  BY <1>5, DoOpenKeeps, DoWriteKeeps, DoMoveKeeps, LoseKeeps DEF Host
<1>6. CASE UNCHANGED vars
  <2>1. UNCHANGED <<tmp, target, files, shown, sure, alone, pc, round, sent, err, retries, conns>>
    BY <1>6 DEF vars, fileVars, muxerVars
  <2>2. /\ UNCHANGED <<Last, Quiet>> /\ (\A n : UNCHANGED <<Good(n), Ready(n), Prefix(n), Whole(n)>>)
        /\ \A k : UNCHANGED Writes(k)
    BY <2>1 DEF Last, Quiet, Good, Ready, Prefix, Whole, Writes, InUse
  <2>3. AloneInv'
    BY <2>1, <2>2 DEF ReplaceInv, AloneInv, ConnInv, FrameInv, ContentInv
  <2>4. ShownInv' /\ SureInv' /\ TargetInv'
    BY <2>1, <2>2 DEF ReplaceInv, ShownInv, SureInv, TargetInv
  <2> QED BY <2>1, <2>3, <2>4 DEF ReplaceInv, TypeInv, LinkInv
<1> QED BY <1>1, <1>2, <1>3, <1>4, <1>5, <1>6 DEF Next

\* A reader of the target sees a whole file or the previous one, whatever the host
\* acknowledges, refuses, loses or does late, of every attempt that began when the host
\* was done with the earlier ones; and no later attempt, and nothing late, reaches what
\* it has put there (host.go 319-323, nativeio.c 671-688).
THEOREM ReadersSeeWholeFiles == Spec => []ReaderSeesWhole
<1>1. ReplaceInv => ReaderSeesWhole
  <2> SUFFICES ASSUME ReplaceInv PROVE ReaderSeesWhole
    OBVIOUS
  <2>1. FinishedFilesSafe
    BY DEF ReplaceInv, SureInv, FinishedFilesSafe
  <2>2. TargetIsLast
    <3> SUFFICES ASSUME retries = 0 PROVE TargetIsLast
      BY DEF TargetIsLast
    <3>1. sure = DOMAIN shown
      BY DEF ReplaceInv, TargetInv
    <3>2. ASSUME round > 1
          PROVE  /\ target # 0
                 /\ files[target] \in {Whole(r) : r \in (round - 1)..(IF pc \in {"moving", "failed"}
                                                                       THEN round ELSE round - 1)}
      <4> DEFINE last == IF pc \in {"moving", "failed"} THEN round ELSE round - 1
      <4>1. /\ target # 0
            /\ \/ files[target] = Whole(round - 1)
               \/ pc \in {"moving", "failed"} /\ files[target] = Whole(round)
        BY <3>2 DEF ReplaceInv, TargetInv
      <4>2. round \in Nat
        BY DEF ReplaceInv, TypeInv
      <4>3. round - 1 \in (round - 1)..last
        BY <4>2
      <4>4. pc \in {"moving", "failed"} => round \in (round - 1)..last
        BY <4>2
      <4> HIDE DEF last
      <4>5. files[target] \in {Whole(r) : r \in (round - 1)..last}
        BY <4>1, <4>3, <4>4
      <4> QED BY <4>1, <4>5 DEF last
    <3> QED BY <3>1, <3>2 DEF TargetIsLast
  <2> QED BY <2>1, <2>2 DEF ReaderSeesWhole
<1> QED BY <1>1, ReplaceInvInit, ReplaceInvNext, PTL DEF Spec
-----------------------------------------------------------------------------
(* What everything is bounded by, however attempts overlap *)

BoundConn(r, n) == [round : 1..r, frame : Frames, reply : Replies, file : 0..n, pos : 0..Size]
Chunk(r) == {Torn, 0} \cup 1..r

ConnBound == conns \in Seq(BoundConn(round, Len(files)))
FileBound == files \in Seq(Seq(Chunk(round)))

\* The muxer takes up a round only while there are rounds left; no file has two names,
\* and what was shown is a file.
ScalarBound ==
  /\ pc \in Stages /\ round \in 1..(Rounds + 1) /\ (pc # "idle" => round <= Rounds)
  /\ sent \in 0..Size /\ err \in BOOLEAN /\ retries \in 0..Attempts
  /\ tmp \in 0..Len(files) /\ target \in 0..Len(files) /\ (tmp = target => tmp = 0)
  /\ DOMAIN shown \subseteq 1..Len(files) /\ sure \subseteq DOMAIN shown

\* No connection is asked for more than a file: what is written on the one in use is no
\* more than was sent, and a reply that says otherwise is not taken for one.
PosInv ==
  /\ conns = <<>> => pc = "idle"
  /\ \A k \in 1..Len(conns) : /\ conns[k].frame # "none" => conns[k].reply = "none"
                              /\ conns[k].frame = "W" => conns[k].pos < Size
  /\ pc = "opening" => sent = 0 /\ Last.pos = 0 /\ Last.frame # "W"
  /\ pc = "writing" /\ ~err => Last.pos <= sent /\ Last.frame = "none"
  /\ pc = "acking" => sent < Size /\ Last.pos <= sent + 1 /\ (Last.frame = "W" => Last.pos <= sent)

BoundInv == ConnBound /\ FileBound /\ ScalarBound /\ PosInv

LEMMA Widened ==
  ASSUME NEW r \in Nat, NEW q \in Nat, r <= q, NEW n \in Nat, NEW m \in Nat, n <= m
  PROVE  /\ \A s \in Seq(BoundConn(r, n)) : s \in Seq(BoundConn(q, m))
         /\ \A s \in Seq(Seq(Chunk(r))) : s \in Seq(Seq(Chunk(q)))
<1>1. BoundConn(r, n) \subseteq BoundConn(q, m)
  BY DEF BoundConn
<1>2. \A s \in Seq(BoundConn(r, n)) : s \in Seq(BoundConn(q, m))
  BY <1>1
<1>3. Chunk(r) \subseteq Chunk(q)
  BY DEF Chunk
<1>4. Seq(Chunk(r)) \subseteq Seq(Chunk(q))
  <2> HIDE DEF Chunk
  <2> QED BY <1>3
<1>5. \A s \in Seq(Seq(Chunk(r))) : s \in Seq(Seq(Chunk(q)))
  BY <1>4
<1> QED BY <1>2, <1>5

LEMMA LastBound ==
  ASSUME ConnBound, conns # <<>>
  PROVE  /\ Len(conns) \in 1..Len(conns) /\ Len(conns) \in Nat /\ Last = conns[Len(conns)]
         /\ Last \in BoundConn(round, Len(files)) /\ Reply = Last.reply
<1>1. Len(conns) \in 1..Len(conns) /\ Len(conns) \in Nat
  BY DEF ConnBound
<1> QED BY <1>1 DEF ConnBound, Last, InUse, Reply

LEMMA BoundNats ==
  ASSUME BoundInv
  PROVE  round \in Nat /\ Len(files) \in Nat /\ Rounds \in Nat /\ Attempts \in Nat /\ Size \in Nat \ {0}
BY ReplaceAssumption DEF BoundInv, ScalarBound, FileBound

\* The muxer dials: the new connection is in use.
LEMMA DialBound == ASSUME BoundInv, Open \/ Move PROVE BoundInv'
<1> USE DEF BoundInv
<1>1. PICK f \in {"O", "M"} :
        /\ Dial(f) /\ UNCHANGED <<tmp, target, files, shown, sure, round, retries>> /\ round <= Rounds
        /\ \/ f = "O" /\ pc' = "opening" /\ sent' = 0 /\ err' = FALSE
           \/ f = "M" /\ pc' = "moving" /\ UNCHANGED <<sent, err>>
  BY DEF Open, Move, fileVars, ScalarBound
<1> DEFINE c == [round |-> round, frame |-> f, reply |-> "none", file |-> 0, pos |-> 0]
<1>2. c \in BoundConn(round, Len(files)) /\ c.frame = f /\ c.reply = "none" /\ c.pos = 0
  BY BoundNats DEF BoundConn, Frames, Replies, ScalarBound
<1>3. conns' = Append(conns, c)
  BY <1>1 DEF Dial
<1> HIDE DEF c
<1>4. /\ conns' \in Seq(BoundConn(round, Len(files))) /\ Len(conns') = Len(conns) + 1 /\ Len(conns) \in Nat
      /\ conns' # <<>> /\ conns'[Len(conns) + 1] = c /\ \A k \in 1..Len(conns) : conns'[k] = conns[k]
  BY <1>2, <1>3 DEF ConnBound
<1>5. ConnBound' /\ FileBound'
  BY <1>1, <1>4 DEF ConnBound, FileBound
<1>6. ScalarBound'
  <2>1. sent' \in 0..Size /\ pc' \in Stages
    BY <1>1, BoundNats DEF ScalarBound
  <2>2. err' \in BOOLEAN
    BY <1>1, Zenon DEF ScalarBound
  <2> QED BY <1>1, <2>1, <2>2 DEF ScalarBound
<1>7. PosInv'
  <2>1. Last' = c
    BY <1>4 DEF Last, InUse
  <2>2. ASSUME NEW k \in 1..Len(conns')
        PROVE  /\ conns'[k].frame # "none" => conns'[k].reply = "none"
               /\ conns'[k].frame = "W" => conns'[k].pos < Size
    <3>1. k \in 1..Len(conns) \/ k = Len(conns) + 1
      BY <1>4
    <3>2. CASE k \in 1..Len(conns)
      BY <1>4, <3>2 DEF PosInv
    <3>3. CASE k = Len(conns) + 1
      BY <1>2, <1>4, <3>3
    <3> QED BY <3>1, <3>2, <3>3
  <2> QED BY <1>1, <1>2, <1>4, <2>1, <2>2 DEF PosInv
<1> QED BY <1>5, <1>6, <1>7

\* It makes something of a reply, or starts again.
LEMMA ReplyBound == ASSUME BoundInv, Opened \/ Acked \/ Close \/ Moved \/ Retry PROVE BoundInv'
<1> USE DEF BoundInv
<1>1. /\ UNCHANGED <<tmp, target, files, shown, sure, conns>> /\ pc # "idle"
      /\ \/ pc = "opening" /\ pc' \in {"writing", "failed"} /\ UNCHANGED <<sent, err, round, retries>>
            /\ (pc' = "writing" => Reply = "ok")
         \/ pc = "acking" /\ pc' = "writing" /\ sent' = sent + 1 /\ err' = (Reply # "ok")
            /\ UNCHANGED <<round, retries>>
         \/ pc' \in {"closed", "failed"} /\ UNCHANGED <<sent, err, round, retries>>
         \/ pc' = "idle" /\ round' = round + 1 /\ UNCHANGED <<sent, err>>
            /\ retries' \in {retries, retries + 1} /\ (retries' # retries => retries < Attempts)
  BY DEF Opened, Acked, Close, Moved, Retry, fileVars
<1>2. round <= round' /\ round \in Nat /\ round' \in Nat /\ Len(files) \in Nat
  BY <1>1, BoundNats
<1>3. ConnBound' /\ FileBound'
  <2>1. conns \in Seq(BoundConn(round', Len(files))) /\ files \in Seq(Seq(Chunk(round')))
    BY <1>2, Widened DEF ConnBound, FileBound
  <2> QED BY <1>1, <2>1 DEF ConnBound, FileBound
<1>4. conns # <<>>
  BY <1>1 DEF PosInv
<1>5. /\ Len(conns) \in 1..Len(conns) /\ Len(conns) \in Nat /\ Last = conns[Len(conns)]
      /\ Last.pos \in 0..Size /\ Reply = Last.reply /\ (Reply # "none" => Last.frame = "none")
  BY <1>4, LastBound DEF PosInv, BoundConn
<1>6. ScalarBound'
  <2>1. sent' \in 0..Size
    BY <1>1, BoundNats DEF ScalarBound, PosInv
  <2>2. err' \in BOOLEAN
    BY <1>1 DEF ScalarBound
  <2>3. round' \in 1..(Rounds + 1) /\ (pc' # "idle" => round' <= Rounds) /\ retries' \in 0..Attempts /\ pc' \in Stages
    BY <1>1, <1>2, BoundNats DEF ScalarBound
  <2> QED BY <1>1, <2>1, <2>2, <2>3 DEF ScalarBound
<1>7. PosInv'
  <2>1. UNCHANGED Last
    BY <1>1 DEF Last, InUse
  <2>2. CASE pc = "opening" /\ pc' = "writing" /\ UNCHANGED sent /\ Reply = "ok"
    BY <1>1, <1>4, <1>5, <2>1, <2>2 DEF PosInv
  <2>3. CASE pc = "acking" /\ pc' = "writing" /\ sent' = sent + 1 /\ err' = (Reply # "ok")
    BY <1>1, <1>4, <1>5, <2>1, <2>3 DEF PosInv
  <2>4. CASE pc' \in {"closed", "failed", "idle"}
    BY <1>1, <1>4, <2>4 DEF PosInv
  <2> QED BY <1>1, <2>2, <2>3, <2>4
<1> QED BY <1>3, <1>6, <1>7

\* A change to one connection.
LEMMA ConnSet ==
  ASSUME ConnBound, NEW n, NEW j \in 1..Len(conns), NEW c \in BoundConn(round, n),
         conns \in Seq(BoundConn(round, n)), conns' = [conns EXCEPT ![j] = c]
  PROVE  /\ conns' \in Seq(BoundConn(round, n)) /\ Len(conns') = Len(conns) /\ conns' # <<>> /\ conns # <<>>
         /\ conns'[j] = c /\ \A i \in 1..Len(conns) : i # j => conns'[i] = conns[i]
<1>1. Len(conns) \in Nat /\ DOMAIN conns = 1..Len(conns)
  OBVIOUS
<1> DEFINE S == BoundConn(round, n)
<1> HIDE DEF S
<1> QED BY <1>1 DEF S

LEMMA WriteBound == ASSUME BoundInv, Write PROVE BoundInv'
<1> USE DEF BoundInv
<1>1. /\ pc = "writing" /\ sent < Size
      /\ UNCHANGED <<tmp, target, files, shown, sure, round, err, retries>>
      /\ \/ err /\ sent' = sent + 1 /\ UNCHANGED <<pc, conns>>
         \/ ~err /\ Send("W") /\ pc' = "acking" /\ UNCHANGED sent
  BY DEF Write, fileVars
<1>2. /\ conns # <<>> /\ Len(conns) \in 1..Len(conns) /\ Last = conns[Len(conns)]
      /\ Last \in BoundConn(round, Len(files))
  BY <1>1, LastBound DEF PosInv
<1>3. FileBound'
  BY <1>1 DEF FileBound
<1>4. ScalarBound'
  <2>1. sent' \in 0..Size /\ pc' \in Stages
    BY <1>1, BoundNats DEF ScalarBound
  <2> QED BY <1>1, <2>1 DEF ScalarBound
<1>5. CASE err /\ sent' = sent + 1 /\ UNCHANGED <<pc, conns>>
  <2>1. UNCHANGED Last
    BY <1>5 DEF Last, InUse
  <2> QED BY <1>1, <1>3, <1>4, <1>5, <2>1 DEF ConnBound, PosInv
<1>6. CASE ~err /\ Send("W") /\ pc' = "acking" /\ UNCHANGED sent
  <2> DEFINE c == [Last EXCEPT !.frame = "W", !.reply = "none"]
  <2>1. c \in BoundConn(round, Len(files)) /\ c.frame = "W" /\ c.reply = "none" /\ c.pos = Last.pos
    BY <1>2 DEF BoundConn, Frames, Replies
  <2>2. conns' = [conns EXCEPT ![Len(conns)] = c]
    BY <1>2, <1>6 DEF Send, InUse, ConnBound
  <2> HIDE DEF c
  <2>3. /\ conns' \in Seq(BoundConn(round, Len(files))) /\ Len(conns') = Len(conns) /\ conns' # <<>>
        /\ conns'[Len(conns)] = c /\ \A i \in 1..Len(conns) : i # Len(conns) => conns'[i] = conns[i]
    BY <1>2, <2>1, <2>2, ConnSet DEF ConnBound
  <2>4. ConnBound'
    BY <1>1, <2>3 DEF ConnBound
  <2>5. Last' = c /\ Last.pos <= sent
    BY <1>1, <1>6, <2>3 DEF Last, InUse, PosInv
  <2>6. c.pos \in Nat /\ c.pos < Size /\ c.pos <= sent + 1 /\ sent \in Nat
    BY <1>1, <2>1, <2>5, BoundNats DEF BoundConn, ScalarBound
  <2>7. PosInv'
    BY <1>1, <1>6, <2>1, <2>3, <2>5, <2>6 DEF PosInv
  <2> QED BY <1>3, <1>4, <2>4, <2>7
<1> QED BY <1>1, <1>5, <1>6

\* What the host does to a connection whose frame it takes: it answers, and the position
\* moves by one chunk at most, by which it wrote.
LEMMA TakenPos ==
  ASSUME BoundInv, NEW j \in DOMAIN conns, conns[j].frame # "none", UNCHANGED <<pc, sent, err, round>>,
         NEW c \in BoundConn(round, Len(files')), c.frame = "none", conns' = [conns EXCEPT ![j] = c],
         c.pos = conns[j].pos \/ (conns[j].frame = "W" /\ c.pos = conns[j].pos + 1),
         Len(files) <= Len(files'), Len(files') \in Nat
  PROVE  ConnBound' /\ PosInv'
<1> USE DEF BoundInv
<1>1. j \in 1..Len(conns) /\ Len(conns) \in Nat /\ conns \in Seq(BoundConn(round, Len(files')))
  BY BoundNats, Widened DEF ConnBound
<1>2. /\ conns' \in Seq(BoundConn(round, Len(files'))) /\ Len(conns') = Len(conns) /\ conns' # <<>> /\ conns # <<>>
      /\ conns'[j] = c /\ \A i \in 1..Len(conns) : i # j => conns'[i] = conns[i]
  BY <1>1, ConnSet
<1>3. ConnBound'
  BY <1>2 DEF ConnBound
<1>4. Last' = IF j = Len(conns) THEN c ELSE Last
  BY <1>1, <1>2 DEF Last, InUse
<1>5. /\ Last = conns[Len(conns)] /\ Last \in BoundConn(round, Len(files)) /\ Last.pos \in Nat
      /\ conns[j].pos \in Nat /\ sent \in Nat
  <2>1. 0..Size \subseteq Nat /\ Len(conns) \in 1..Len(conns)
    BY <1>1, <1>2, BoundNats
  <2>2. conns[j] \in BoundConn(round, Len(files)) /\ conns[Len(conns)] \in BoundConn(round, Len(files))
    BY <1>1, <2>1 DEF ConnBound
  <2>3. Last = conns[Len(conns)]
    BY <1>2 DEF Last, InUse
  <2>4. conns[j].pos \in 0..Size /\ conns[Len(conns)].pos \in 0..Size
    BY <2>2 DEF BoundConn
  <2> QED BY <2>1, <2>2, <2>3, <2>4 DEF ScalarBound
<1>6. \A i \in 1..Len(conns') : /\ conns'[i].frame # "none" => conns'[i].reply = "none"
                                /\ conns'[i].frame = "W" => conns'[i].pos < Size
  BY <1>1, <1>2 DEF PosInv
<1>7. CASE j = Len(conns)
  <2>1. pc = "opening" => c.pos = 0
    BY <1>5, <1>7 DEF PosInv
  <2>2. ~(pc = "writing" /\ ~err)
    BY <1>5, <1>7 DEF PosInv
  <2>3. pc = "acking" => c.pos <= sent + 1
    BY <1>5, <1>7 DEF PosInv
  <2> QED BY <1>2, <1>3, <1>4, <1>6, <1>7, <2>1, <2>2, <2>3 DEF PosInv
<1>8. CASE j # Len(conns)
  BY <1>2, <1>3, <1>4, <1>6, <1>8 DEF PosInv
<1> QED BY <1>7, <1>8

\* The chunks of a file after one is written.
LEMMA ChunksWritten ==
  ASSUME NEW S, 0 \in S, NEW f \in Seq(S), NEW p \in Nat, NEW x \in S
  PROVE  Written(f, p, <<x>>) \in Seq(S)
<1>1. Len(<<x>>) = 1 /\ <<x>> # <<>> /\ Len(f) \in Nat
  OBVIOUS
<1> DEFINE n == IF p + 1 > Len(f) THEN p + 1 ELSE Len(f)
<1>2. Written(f, p, <<x>>) =
        [i \in 1..n |-> IF i \in (p + 1)..(p + 1) THEN <<x>>[i - p] ELSE IF i <= Len(f) THEN f[i] ELSE 0]
  BY <1>1 DEF Written
<1>3. n \in Nat
  BY <1>1
<1>4. \A i \in 1..n :
        (IF i \in (p + 1)..(p + 1) THEN <<x>>[i - p] ELSE IF i <= Len(f) THEN f[i] ELSE 0) \in S
  <2> SUFFICES ASSUME NEW i \in 1..n
               PROVE (IF i \in (p + 1)..(p + 1) THEN <<x>>[i - p] ELSE IF i <= Len(f) THEN f[i] ELSE 0) \in S
    OBVIOUS
  <2>1. i \in (p + 1)..(p + 1) => <<x>>[i - p] = x
    OBVIOUS
  <2>2. i <= Len(f) => f[i] \in S
    BY <1>1
  <2> QED BY <2>1, <2>2
<1> HIDE DEF n
<1> QED BY <1>2, <1>3, <1>4

LEMMA HostBound == ASSUME BoundInv, Host PROVE BoundInv'
<1> USE DEF BoundInv
<1>1. PICK j \in DOMAIN conns : DoOpen(j) \/ DoWrite(j) \/ DoMove(j) \/ Lose(j)
  BY DEF Host
<1>2. /\ UNCHANGED <<pc, round, sent, err, retries>> /\ conns[j].frame # "none"
  BY <1>1 DEF DoOpen, DoWrite, DoMove, Lose, muxerVars
<1>3. /\ conns[j] \in BoundConn(round, Len(files)) /\ round \in Nat /\ Len(files) \in Nat /\ Size \in Nat
      /\ round \in 1..round /\ files \in Seq(Seq(Chunk(round)))
  BY BoundNats DEF ConnBound, FileBound, ScalarBound
<1>4. ASSUME NEW r \in Replies, Answer(j, r), Len(files') = Len(files)
      PROVE  ConnBound' /\ PosInv'
  <2> DEFINE c == [conns[j] EXCEPT !.frame = "none", !.reply = r]
  <2>1. c \in BoundConn(round, Len(files')) /\ c.frame = "none" /\ c.pos = conns[j].pos
    BY <1>3, <1>4 DEF BoundConn, Frames
  <2>2. conns' = [conns EXCEPT ![j] = c]
    BY <1>3, <1>4 DEF Answer, ConnBound
  <2> HIDE DEF c
  <2>3. Len(files) <= Len(files') /\ Len(files') \in Nat
    BY <1>3, <1>4
  <2> QED BY <1>2, <2>1, <2>2, <2>3, TakenPos
<1>5. CASE DoOpen(j)
  <2>1. CASE Answer(j, "refused") /\ UNCHANGED <<files, tmp>>
    <3>1. UNCHANGED <<target, shown, sure>>
      BY <1>5 DEF DoOpen
    <3> QED BY <1>2, <1>4, <2>1, <3>1 DEF Replies, FileBound, ScalarBound
  <2>2. CASE ~(Answer(j, "refused") /\ UNCHANGED <<files, tmp>>)
    <3>1. PICK f : f = IF tmp = 0 THEN Len(files) + 1 ELSE tmp
      OBVIOUS
    <3>2. /\ files' = IF tmp = 0 THEN Append(files, <<>>) ELSE [files EXCEPT ![f] = <<>>]
          /\ tmp' = f /\ UNCHANGED <<target, shown, sure>>
          /\ conns' = [conns EXCEPT ![j].frame = "none", ![j].reply = "ok", ![j].file = f]
      BY <1>5, <2>2, <3>1 DEF DoOpen
    <3>3. /\ files' \in Seq(Seq(Chunk(round))) /\ Len(files') \in Nat /\ Len(files) <= Len(files')
          /\ f \in 1..Len(files')
      <4>1. <<>> \in Seq(Chunk(round))
        OBVIOUS
      <4>2. CASE tmp = 0
        BY <1>3, <3>1, <3>2, <4>1, <4>2
      <4>3. CASE tmp # 0
        BY <1>3, <3>1, <3>2, <4>1, <4>3 DEF ScalarBound
      <4> QED BY <4>2, <4>3
    <3> DEFINE c == [conns[j] EXCEPT !.frame = "none", !.reply = "ok", !.file = f]
    <3>4. c \in BoundConn(round, Len(files')) /\ c.frame = "none" /\ c.pos = conns[j].pos
      <4>1. f \in 0..Len(files')
        BY <3>3
      <4> QED BY <1>3, <4>1 DEF BoundConn, Frames, Replies
    <3>5. conns' = [conns EXCEPT ![j] = c]
      BY <1>3, <3>2 DEF ConnBound
    <3> HIDE DEF c
    <3>6. ConnBound' /\ PosInv'
      BY <1>2, <3>3, <3>4, <3>5, TakenPos
    <3>7. ScalarBound'
      <4>1. tmp' # target' /\ target \in 0..Len(files') /\ tmp' \in 0..Len(files')
        BY <1>3, <3>1, <3>2, <3>3 DEF ScalarBound
      <4>2. DOMAIN shown \subseteq 1..Len(files')
        BY <1>3, <3>3 DEF ScalarBound
      <4> QED BY <1>2, <3>2, <4>1, <4>2 DEF ScalarBound
    <3> QED BY <1>2, <3>3, <3>6, <3>7 DEF FileBound
  <2> QED BY <2>1, <2>2
<1>6. CASE DoWrite(j)
  <2>1. UNCHANGED <<tmp, target, shown, sure>> /\ conns[j].frame = "W"
    BY <1>6 DEF DoWrite
  <2>2. PICK x \in Chunk(round) :
          \/ files' = files
          \/ files' = [files EXCEPT ![conns[j].file] = Written(@, conns[j].pos, <<x>>)]
    <3>1. conns[j].round \in Chunk(round) /\ Torn \in Chunk(round)
      BY <1>3 DEF BoundConn, Chunk
    <3> QED BY <1>6, <3>1 DEF DoWrite
  <2>3. files' \in Seq(Seq(Chunk(round))) /\ Len(files') = Len(files)
    <3>1. CASE files' = files
      BY <1>3, <3>1
    <3>2. CASE files' = [files EXCEPT ![conns[j].file] = Written(@, conns[j].pos, <<x>>)]
      <4>1. PICK n \in 0..Len(files), p \in Nat : n = conns[j].file /\ p = conns[j].pos
        BY <1>3 DEF BoundConn
      <4>2. n \in 1..Len(files) => Written(files[n], p, <<x>>) \in Seq(Chunk(round))
        <5>1. PICK S : S = Chunk(round)
          OBVIOUS
        <5>2. 0 \in S /\ x \in S
          BY <5>1 DEF Chunk
        <5>3. SUFFICES ASSUME n \in 1..Len(files) PROVE Written(files[n], p, <<x>>) \in Seq(S)
          BY <5>1
        <5>4. PICK g \in Seq(S) : g = files[n]
          BY <1>3, <5>1, <5>3
        <5>5. Written(g, p, <<x>>) \in Seq(S)
          BY <5>2, ChunksWritten
        <5> QED BY <5>4, <5>5
      <4>3. files' = [files EXCEPT ![n] = Written(files[n], p, <<x>>)]
        BY <3>2, <4>1
      <4>4. PICK T : T = Seq(Chunk(round))
        OBVIOUS
      <4>5. PICK w : w = Written(files[n], p, <<x>>)
        OBVIOUS
      <4>6. files \in Seq(T) /\ (n \in 1..Len(files) => w \in T) /\ files' = [files EXCEPT ![n] = w]
        BY <1>3, <4>2, <4>3, <4>4, <4>5
      <4>7. files' \in Seq(T) /\ Len(files') = Len(files)
        <5>1. PICK g \in Seq(T), m \in Nat : g = files /\ m = Len(g)
          BY <4>6
        <5>2. DOMAIN g = 1..m /\ \A i \in 1..m : g[i] \in T
          BY <5>1
        <5>3. files' = [i \in 1..m |-> IF i = n THEN w ELSE g[i]]
          BY <4>6, <5>1, <5>2
        <5>4. \A i \in 1..m : (IF i = n THEN w ELSE g[i]) \in T
          BY <4>6, <5>1, <5>2
        <5> QED BY <5>1, <5>3, <5>4
      <4> QED BY <4>4, <4>7
    <3> QED BY <2>2, <3>1, <3>2
  <2>4. FileBound' /\ ScalarBound'
    BY <1>2, <2>1, <2>3 DEF FileBound, ScalarBound
  <2>5. CASE Answer(j, "gone")
    BY <1>4, <2>3, <2>4, <2>5 DEF Replies
  <2>6. CASE ~Answer(j, "gone")
    <3>1. PICK r \in {"ok", "short"} :
            conns' = [conns EXCEPT ![j].frame = "none", ![j].reply = r, ![j].pos = @ + 1]
      BY <1>6, <2>6 DEF DoWrite
    <3> DEFINE c == [conns[j] EXCEPT !.frame = "none", !.reply = r, !.pos = @ + 1]
    <3>2. conns[j].pos < Size
      BY <1>3, <2>1 DEF PosInv, ConnBound
    <3>3. c \in BoundConn(round, Len(files')) /\ c.frame = "none" /\ c.pos = conns[j].pos + 1
      <4>1. conns[j].pos \in 0..Size
        BY <1>3 DEF BoundConn
      <4>2. conns[j].pos + 1 \in 0..Size
        BY <1>3, <3>2, <4>1
      <4> QED BY <1>3, <2>3, <4>2 DEF BoundConn, Frames, Replies
    <3>4. conns' = [conns EXCEPT ![j] = c]
      BY <1>3, <3>1 DEF ConnBound
    <3> HIDE DEF c
    <3>5. ConnBound' /\ PosInv'
      <4>1. Len(files) <= Len(files') /\ Len(files') \in Nat
        BY <1>3, <2>3
      <4> QED BY <1>2, <2>1, <3>3, <3>4, <4>1, TakenPos
    <3> QED BY <2>4, <3>5
  <2> QED BY <2>5, <2>6
<1>7. CASE DoMove(j)
  <2>1. UNCHANGED files
    BY <1>7 DEF DoMove
  <2>2. ConnBound' /\ PosInv'
    BY <1>4, <1>7, <2>1 DEF DoMove, Replies
  <2>3. ScalarBound'
    <3>1. CASE UNCHANGED <<tmp, target, shown, sure>>
      BY <1>2, <2>1, <3>1 DEF ScalarBound
    <3>2. CASE ~UNCHANGED <<tmp, target, shown, sure>>
      <4>1. tmp # 0 /\ target' = tmp /\ tmp' = 0 /\ DOMAIN shown' = DOMAIN shown \cup {tmp}
        BY <1>7, <3>2 DEF DoMove, Renamed
      <4>2. sure' \subseteq DOMAIN shown'
        BY <1>7, <3>2, <4>1 DEF DoMove, ScalarBound
      <4> QED BY <1>2, <1>3, <2>1, <4>1, <4>2 DEF ScalarBound
    <3> QED BY <3>1, <3>2
  <2> QED BY <1>2, <2>1, <2>2, <2>3 DEF FileBound
<1>8. CASE Lose(j)
  <2>1. UNCHANGED <<tmp, target, files, shown, sure>> /\ Answer(j, "gone")
    BY <1>8 DEF Lose, fileVars
  <2> QED BY <1>2, <1>4, <2>1 DEF Replies, FileBound, ScalarBound
<1> QED BY <1>1, <1>5, <1>6, <1>7, <1>8

LEMMA BoundInvInit == ASSUME Init PROVE BoundInv
<1>1. err \in BOOLEAN
  BY Zenon DEF Init
<1>2. conns \in Seq(BoundConn(round, Len(files))) /\ files \in Seq(Seq(Chunk(round))) /\ Len(files) = 0
  BY DEF Init
<1>3. DOMAIN shown = {} /\ sure = {}
  BY DEF Init
<1>4. 0 \in 0..Size /\ 0 \in 0..Attempts /\ 1 \in 1..(Rounds + 1)
  BY ReplaceAssumption
<1>5. ScalarBound
  BY <1>1, <1>2, <1>3, <1>4 DEF Init, ScalarBound
<1> QED BY <1>2, <1>5 DEF Init, BoundInv, ConnBound, FileBound, PosInv

LEMMA BoundInvNext == ASSUME BoundInv, [Next]_vars PROVE BoundInv'
<1>1. CASE UNCHANGED vars
  <2>1. UNCHANGED <<tmp, target, files, shown, sure, pc, round, sent, err, retries, conns>>
    BY <1>1 DEF vars, fileVars, muxerVars
  <2> QED BY <2>1 DEF BoundInv, ConnBound, FileBound, ScalarBound, PosInv, Last, InUse
<1> QED BY <1>1, DialBound, ReplyBound, WriteBound, HostBound DEF Next

\* Everything stays within its bounds, however attempts overlap and whatever the host
\* does late: no connection writes beyond a file, no file ever has two names, and what a
\* reader has been shown is never forgotten.
THEOREM TypeCorrect == Spec => []TypeOK
<1>1. BoundInv => TypeOK
  <2> SUFFICES ASSUME BoundInv PROVE TypeOK
    OBVIOUS
  <2>1. \A n \in DOMAIN files : files[n] \in Seq({Torn, 0} \cup 1..round)
    BY DEF BoundInv, FileBound, Chunk
  <2>2. \A k \in DOMAIN conns : conns[k].file \in 0..Len(files) /\ conns[k].pos \in 0..Size
    <3>1. \A k \in DOMAIN conns : conns[k] \in BoundConn(round, Len(files))
      BY DEF BoundInv, ConnBound
    <3> QED BY <3>1 DEF BoundConn
  <2>3. DOMAIN shown \subseteq DOMAIN files
    BY DEF BoundInv, ScalarBound, FileBound
  <2> QED BY <2>1, <2>2, <2>3 DEF BoundInv, ScalarBound, TypeOK
<1>2. BoundInv /\ [Next]_vars => BoundInv'
  BY BoundInvNext
<1> QED BY <1>1, <1>2, BoundInvInit, PTL DEF Spec
=============================================================================
