----------------------------- MODULE FileSession -----------------------------
(***************************************************************************)
(* What a bridged file promises libav's I/O layer, with no protocol in     *)
(* sight.  One call at a time is made on the file.  A call that returns a  *)
(* result took effect exactly once, between its start and its return, and  *)
(* its result is the true one.  A call that fails took effect at most      *)
(* once, wholly or, for a write, up to a prefix -- possibly only AFTER the *)
(* failure was reported -- and it is the last call that can have any       *)
(* effect: every later one fails.  A close succeeds only if no call failed *)
(* and the session is still whole.                                         *)
(***************************************************************************)
EXTENDS HostFile

CONSTANTS
  Calls,    \* the calls libav may make: records with op "R", "W", "S" or "Z"
  NoCall    \* what `call` and `late` hold when there is no call

VARIABLES
  file, pos,   \* the file and its position
  call,        \* the call in progress
  made,        \* how many calls were made
  outcome,     \* what the call in progress did: the result it must return
  late,        \* a failed call that may still take effect
  ret,         \* what the last call returned
  health       \* "ok", "failed" (no later call succeeds) or "closed"

vars == <<file, pos, call, made, outcome, late, ret, health>>

Nothing == [st |-> "none", val |-> 0, data |-> <<>>]
Failed  == [st |-> "failed", val |-> 0, data |-> <<>>]

\* The result a call has on file f at position p.
ResultOf(c, f, p) ==
  CASE c.op = "R" -> LET d == BytesAt(f, p, c.n)
                     IN  [st |-> IF d = <<>> THEN "eof" ELSE "ok", val |-> Len(d), data |-> d]
    [] c.op = "W" -> [st |-> "ok", val |-> Len(c.data), data |-> <<>>]
    [] c.op = "S" -> [st |-> "ok", val |-> SeekTarget(f, p, c.n, c.whence), data |-> <<>>]
    [] OTHER      -> [st |-> "ok", val |-> Len(f), data |-> <<>>]

\* The file and the position after it.
FileAfter(c, f, p) == IF c.op = "W" THEN Written(f, p, c.data) ELSE f

PosAfter(c, f, p) ==
  CASE c.op = "R" -> p + Len(BytesAt(f, p, c.n))
    [] c.op = "W" -> p + Len(c.data)
    [] c.op = "S" -> SeekTarget(f, p, c.n, c.whence)
    [] OTHER      -> p

\* A seek before the start of the file has no effect to have.
CanTakeEffect(c, f, p) == c.op = "S" => SeekTarget(f, p, c.n, c.whence) >= 0

Init ==
  /\ file \in Seq(Int) /\ pos = 0
  /\ call = NoCall /\ late = NoCall
  /\ made = 0
  /\ outcome = Nothing /\ ret = Nothing
  /\ health = "ok"

\* A call starts.
Start(c) ==
  /\ call = NoCall /\ health = "ok"
  /\ call' = c
  /\ made' = made + 1
  /\ outcome' = Nothing
  /\ UNCHANGED <<file, pos, late, ret, health>>

\* The call in progress takes effect.
TakeEffect ==
  /\ call # NoCall /\ outcome = Nothing
  /\ CanTakeEffect(call, file, pos)
  /\ outcome' = ResultOf(call, file, pos)
  /\ file' = FileAfter(call, file, pos)
  /\ pos' = PosAfter(call, file, pos)
  /\ UNCHANGED <<call, made, late, ret, health>>

\* It returns what it did.
Return ==
  /\ call # NoCall /\ outcome.st \in {"ok", "eof"}
  /\ ret' = outcome
  /\ call' = NoCall
  /\ UNCHANGED <<file, pos, made, outcome, late, health>>

\* A write takes effect up to a prefix; it can only fail.
Spoil ==
  /\ call # NoCall /\ call.op = "W" /\ outcome = Nothing
  /\ \E k \in 0..(Len(call.data) - 1) :
       /\ file' = Written(file, pos, SubSeq(call.data, 1, k))
       /\ pos' = pos + k
  /\ outcome' = Failed
  /\ UNCHANGED <<call, made, late, ret, health>>

\* The call fails, whatever it did; what it has not done yet it may still do.
Fail ==
  /\ call # NoCall
  /\ ret' = Failed
  /\ health' = "failed"
  /\ late' \in IF outcome = Nothing THEN {call, NoCall} ELSE {NoCall}
  /\ call' = NoCall
  /\ UNCHANGED <<file, pos, made, outcome>>

\* A call is refused outright: it never has an effect.
Refuse ==
  /\ call = NoCall /\ health \in {"ok", "failed"}
  /\ made' = made + 1
  /\ ret' = Failed
  /\ health' = "failed"
  /\ outcome' = Nothing
  /\ UNCHANGED <<file, pos, call, late>>

\* The failed call takes effect after all, once, wholly or up to a prefix.
LateEffect ==
  /\ late # NoCall /\ CanTakeEffect(late, file, pos)
  /\ \/ /\ file' = FileAfter(late, file, pos)
        /\ pos' = PosAfter(late, file, pos)
     \/ /\ late.op = "W"
        /\ \E k \in 0..(Len(late.data) - 1) :
             /\ file' = Written(file, pos, SubSeq(late.data, 1, k))
             /\ pos' = pos + k
  /\ late' = NoCall
  /\ UNCHANGED <<call, made, outcome, ret, health>>

\* Or it never does: the host ends the session first.
LateLost ==
  /\ late # NoCall
  /\ late' = NoCall
  /\ UNCHANGED <<file, pos, call, made, outcome, ret, health>>

\* The file is closed; the close may fail even when nothing else did.
Close ==
  /\ call = NoCall /\ health \in {"ok", "failed"}
  /\ health' = "closed"
  /\ \/ ret' = Failed
     \/ health = "ok" /\ ret' = [st |-> "closed", val |-> 0, data |-> <<>>]
  /\ UNCHANGED <<file, pos, call, made, outcome, late>>

Next ==
  \/ \E c \in Calls : Start(c)
  \/ TakeEffect \/ Return \/ Spoil \/ Fail \/ Refuse \/ LateEffect \/ LateLost \/ Close

Spec == Init /\ [][Next]_vars
=============================================================================
