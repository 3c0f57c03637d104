------------------------------- MODULE Driver --------------------------------
(***************************************************************************)
(* The driver: one process, one request, one exit code (main, op_probe in  *)
(* src/src/driver.c; src/src/sandbox.c), around the `process` operation of *)
(* module Job.  `frames` is here its outcome: module Frames has the rest.  *)
(***************************************************************************)
EXTENDS Job

CONSTANTS
  Requests,            \* what the driver may be started with: [args, json, version, op],
                       \* and the job spec of op
  Environments,        \* [native, socket, optout]
  Vocabulary, MaxInt   \* AFMPEG_VOCAB_VERSION; INT_MAX

ASSUME DriverAssumption ==
  /\ Vocabulary \in Nat /\ MaxInt \in Nat
  /\ \A r \in Requests :
    /\ DOMAIN r[1] = {"args", "json", "version", "op"}
    /\ r[1].version \in [is : {"absent", "null", "number", "other"}, twice : Int]
    /\ \A s \in {r[2].inputs, r[2].outputs} : Len(s) \in Nat /\ DOMAIN s = 1..Len(s)

VARIABLES
  request,
  sandbox, confined,   \* sandbox_state(), and what the kernel enforces
  results              \* of a probe, per input so far: "streams" or "error"

vars == <<request, sandbox, confined, results, jobVars>>

Init ==
  /\ \E r \in Requests : request = r[1] /\ job = r[2]
  /\ env \in Environments
  /\ pc = "install" /\ todo = <<>> /\ rc = "ok" /\ malformed = FALSE
  /\ sandbox = "unset" /\ confined = FALSE
  /\ nIn = 0 /\ nOut = 0
  /\ gin = <<>> /\ gout = <<>> /\ cpy = <<>> /\ sub = <<>>
  /\ mux = [j \in DOMAIN job.outputs |-> [streams |-> <<>>, at |-> "none"]]
  /\ live = {} /\ opened = {} /\ results = <<>>
  /\ prog = [on |-> FALSE, fd |-> "none", emitted |-> FALSE, frames |-> 0, time |-> 0,
             size |-> 0, last |-> 0]
  /\ chan = <<>> /\ replied = FALSE /\ exit = Running

\* Mutant: the kernel's answer to the last step is not looked at.
InstallUnchecked(works) == sandbox' = "landlock" /\ confined' = works

\* The kernel's part of sandbox_install: unless every step of it works the
\* process runs on unconfined, and says so.
Landlock(works) == sandbox' = (IF works THEN "landlock" ELSE "unavailable") /\ confined' = works

\* sandbox_install, before anything a job can name is opened.
Install ==
  /\ pc = "install" /\ pc' = "gate"
  /\ CASE ~env.native -> sandbox' = "unavailable" /\ UNCHANGED confined
       [] env.native /\ (~env.socket \/ env.optout) -> sandbox' = "disabled" /\ UNCHANGED confined
       [] OTHER -> \E works \in BOOLEAN : Landlock(works)
  /\ UNCHANGED <<request, results, job, env, todo, rc, malformed, libavVars, fileVars, progVars,
                 replied, exit>>

\* Mutant: only numbers are looked at, and as integers (ffmpeg-wasi#56).
VersionReadLoosely(v) == v.is = "number" /\ v.twice < 0

\* A version is absent, null, or a number, here doubled: a fraction is odd.
VersionUnreadable(v) ==
  \/ v.is = "other"
  \/ v.is = "number" /\ (v.twice % 2 # 0 \/ v.twice \notin 0..(2 * MaxInt))

TooNew(v) == v.is = "number" /\ v.twice > 2 * Vocabulary

Quit(code) ==
  /\ exit' = code /\ replied' = (code = 0) /\ pc' = "out" /\ todo' = <<>>

\* main, from argv to the operation it dispatches to.
Gate ==
  /\ pc = "gate"
  /\ LET r == request
         run(stage, work) == pc' = stage /\ todo' = work /\ UNCHANGED <<replied, exit>>
     IN IF r.args # "job"
          THEN \E code \in IF r.args = "capabilities" THEN {0, 1} ELSE {0} : Quit(code)
        ELSE IF ~r.json \/ VersionUnreadable(r.version) THEN Quit(2)
        ELSE IF TooNew(r.version) THEN Quit(3)
        ELSE CASE r.op = "version" -> Quit(0)
               [] r.op = "frames"  -> \E code \in {0, 1, 2} : Quit(code)
               [] r.op = "probe"   -> run("probe", Indices(Inputs))
               [] r.op = "process" /\ Inputs # <<>> /\ Outputs # <<>> -> run("parse", Work("parse"))
               [] OTHER            -> Quit(2)
  /\ UNCHANGED <<request, sandbox, confined, results, job, env, rc, malformed, libavVars,
                 fileVars, progVars>>

\* An input of a probe that is refused: it has a path, and its options are bounded
\* as those of `process`, but one that is no string is passed over.
Misasked(i) == i.kind = "concat" \/ ~i.known \/ \E n \in DOMAIN i.opts : ~InBounds(n, i.opts[n])

\* probe_input: opened, described and closed.  A file that cannot be read is an
\* entry of the reply, not the end of it; options left over are not looked at.
ProbeInput ==
  /\ pc = "probe" /\ todo # <<>>
  /\ LET k == todo[1]
         i == Inputs[k]
         tell(what) == /\ results' = Append(results, what)
                       /\ todo' = Tail(todo)
                       /\ UNCHANGED <<pc, replied, exit>>
     IN IF Misasked(i) THEN Quit(2) /\ UNCHANGED <<live, opened, results>>
        ELSE \/ /\ tell("error")                              \* not opened
                /\ \E left \in LeftByOpen(i.kind) : Set(In(k), left)
                /\ UNCHANGED opened
             \/ /\ \E what \in {"error", "streams"} : tell(what)
                /\ Set(In(k), LeftByAfio(i.kind))
                /\ opened' = opened \cup {In(k)}
  /\ UNCHANGED <<request, sandbox, confined, job, env, rc, malformed, libavVars, nIn, nOut, progVars>>

ProbeReply ==
  /\ pc = "probe" /\ todo = <<>>
  /\ Quit(0)
  /\ UNCHANGED <<request, sandbox, confined, results, job, env, rc, malformed, libavVars,
                 fileVars, progVars>>

Next ==
  \/ Install \/ Gate \/ ProbeInput \/ ProbeReply
  \/ OpProcess /\ UNCHANGED <<request, sandbox, confined, results>>

Spec == Init /\ [][Next]_vars
-----------------------------------------------------------------------------
(* Properties *)

\* Every variable keeps its type.
TypeOK ==
  /\ DOMAIN request = {"args", "json", "version", "op"} /\ env \in Environments
  /\ pc \in ToSet(Stages) \cup {"install", "gate", "probe", "out"}
  /\ rc \in {"ok", "failed"} /\ malformed \in BOOLEAN /\ replied \in BOOLEAN
  /\ sandbox \in {"unset", "unavailable", "disabled", "landlock"} /\ confined \in BOOLEAN
  /\ nIn \in 0..MaxInputs /\ nOut \in 0..MaxOutputs
  /\ Len(gin) <= MaxGin /\ Len(gout) <= MaxGout /\ Len(cpy) <= MaxCpy /\ Len(sub) <= MaxSub
  /\ live \subseteq {In(k) : k \in DOMAIN Inputs} \cup {Out(j) : j \in DOMAIN Outputs}
  /\ \A j \in DOMAIN mux : mux[j].at \in {"none", "header", "trailer"}
  /\ prog.fd \in {"none", "open", "broken"}
  /\ exit \in {Running} \cup 0..3

\* What is wrong with a request in itself: what only its writer can mend.
Wrong(r) ==
  \/ ~r.json
  \/ r.version.is = "other"
  \/ r.version.is = "number" /\ r.version.twice \notin {2 * n : n \in 0..MaxInt}
  \/ ~TooNew(r.version) /\
       CASE r.op = "probe" -> \E i \in ToSet(Inputs) : Misasked(i)
         [] r.op = "process" ->
              \/ Inputs = <<>> \/ Outputs = <<>>
              \/ \E j \in DOMAIN Outputs : j <= MaxOutputs /\ ~Outputs[j].wellFormed
         [] OTHER -> r.op \notin {"version", "frames"}

\* The exit code says what happened (docs/reference/errors.md): 2 a request that
\* has to be mended, 3 one for a newer engine, neither of which has touched an
\* output; 0 exactly when there is a reply, and then every output is complete and
\* every input of a probe is in the reply.
OutcomeHonest ==
  exit # Running =>
    /\ replied <=> exit = 0
    /\ request.args = "job" /\ request.op # "frames" => (exit = 2 <=> Wrong(request))
    /\ exit = 3 => TooNew(request.version)
    /\ exit \in {2, 3} => \A j \in DOMAIN Outputs : Out(j) \notin opened
    /\ exit = 0 /\ pc = "end" => \A j \in DOMAIN Outputs : mux[j].at = "trailer"
    /\ exit = 0 /\ results # <<>> => Len(results) = Len(Inputs)

\* No file that was opened is left open, whatever failed after it (ffmpeg-wasi#27).
SessionsClosed == exit # Running => live \cap opened = {}

\* None is, whether its open succeeded or not.
EverySessionClosed == exit # Running => live = {}

\* A state of confinement that is reported is enforced, from before the first
\* file is opened (sandbox.c 88-90, driver.c 414-416).
ConfinementHonest ==
  /\ sandbox = "landlock" => confined
  /\ opened # {} => sandbox # "unset"
=============================================================================
