----------------------------- MODULE DriverProofs -----------------------------
(***************************************************************************)
(* What the driver leaves behind, for every request, any number of inputs  *)
(* and outputs, and whatever call of libav or of the host fails: no file   *)
(* that was opened, no confinement that is only reported, no progress      *)
(* record that is not whole but the last.  What it gives, when it accepts  *)
(* a job: the streams its maps ask for, and every option taken.            *)
(***************************************************************************)
EXTENDS Driver, SequenceTheorems, FilterProofs, FiniteSetTheorems

-----------------------------------------------------------------------------
(* Confinement *)

ConfinedInv ==
  /\ pc = "install" => sandbox = "unset" /\ opened = {}
  /\ pc # "install" => sandbox # "unset"
  /\ sandbox = "landlock" => confined

\* Only the installation sets what is confined, and it comes first.
LEMMA ConfinementStays ==
  ASSUME ConfinedInv, pc # "install", pc' # "install", UNCHANGED <<sandbox, confined>>
  PROVE  ConfinedInv'
  BY DEF ConfinedInv

\* What a stage of the job can be.
LEMMA StageNames ==
  /\ DOMAIN Stages = 1..12
  /\ ToSet(Stages) = {"parse", "open", "map", "source", "sink", "encode", "copy", "sub", "header",
                      "run", "trailer", "end"}
<1>1. DOMAIN Stages = 1..12
  BY DEF Stages
<1>2. \A n \in 1..12 : Stages[n] \in {"parse", "open", "map", "source", "sink", "encode", "copy",
                                      "sub", "header", "run", "trailer", "end"}
  BY DEF Stages
<1>3. /\ Stages[1] = "parse" /\ Stages[2] = "open" /\ Stages[3] = "map" /\ Stages[4] = "source"
      /\ Stages[5] = "sink" /\ Stages[6] = "encode" /\ Stages[7] = "copy" /\ Stages[8] = "sub"
      /\ Stages[9] = "header" /\ Stages[10] = "run" /\ Stages[11] = "trailer" /\ Stages[12] = "end"
  BY DEF Stages
<1>4. ToSet(Stages) = {Stages[n] : n \in 1..12}
  BY <1>1 DEF ToSet
<1> QED BY <1>1, <1>2, <1>3, <1>4

\* The stage that follows a stage.
Following(s) ==
  CASE s = "parse" -> "open"   [] s = "open" -> "map"       [] s = "map" -> "source"
    [] s = "source" -> "sink"  [] s = "sink" -> "encode"    [] s = "encode" -> "copy"
    [] s = "copy" -> "sub"     [] s = "sub" -> "header"     [] s = "header" -> "run"
    [] s = "run" -> "trailer"  [] s = "trailer" -> "end"    [] OTHER -> s

LEMMA NextOfStage ==
  ASSUME NextStage
  PROVE  /\ todo = <<>> /\ pc \in ToSet(Stages) \ {"run", "end"}
         /\ UNCHANGED <<job, env, libavVars, fileVars, chan, exit>>
         /\ \/ Fail /\ UNCHANGED prog
            \/ /\ pc' = Following(pc) /\ todo' = Work(Following(pc))
               /\ Passes(pc)
               /\ IF pc = "header" THEN ProgressOpen ELSE UNCHANGED prog
               /\ UNCHANGED <<rc, malformed>>
<1> DEFINE at == CHOOSE n \in DOMAIN Stages : Stages[n] = pc
<1>1. pc \in ToSet(Stages) \ {"run", "end"} /\ todo = <<>>
  BY DEF NextStage
<1>2. \E n \in DOMAIN Stages : Stages[n] = pc
  BY <1>1 DEF ToSet
<1>3. at \in DOMAIN Stages /\ Stages[at] = pc
  BY <1>2
<1>4. at \in 1..11 /\ Stages[at + 1] = Following(pc)
  <2> HIDE DEF at
  <2>1. at \in 1..12
    BY <1>3, StageNames
  <2> QED BY <1>1, <1>3, <2>1 DEF Stages, Following
<1>5. /\ \/ Fail /\ UNCHANGED prog
         \/ /\ Passes(pc)
            /\ pc' = Stages[at + 1] /\ todo' = Work(Stages[at + 1])
            /\ IF pc = "header" THEN ProgressOpen ELSE UNCHANGED prog
            /\ UNCHANGED <<rc, malformed>>
      /\ UNCHANGED <<job, env, libavVars, fileVars, chan, exit>>
  <2> HIDE DEF Fail, Passes, Work, ProgressOpen
  <2> QED BY Zenon DEF NextStage
<1> HIDE DEF at
<1> QED BY <1>1, <1>4, <1>5

\* What follows the gate: nothing, a probe, or a job.
LEMMA GateCases ==
  ASSUME Gate
  PROVE  /\ pc = "gate"
         /\ \/ \E code \in 0..3 : Quit(code)
            \/ /\ pc' = "probe" /\ todo' = Indices(Inputs) /\ UNCHANGED <<replied, exit>>
            \/ /\ pc' = "parse" /\ todo' = Work("parse") /\ UNCHANGED <<replied, exit>>
         /\ pc' \in {"out", "probe", "parse"}
         /\ UNCHANGED <<request, sandbox, confined, results, job, env, rc, malformed, libavVars,
                        fileVars, progVars>>
<1> HIDE DEF Quit, Work
<1>1. \/ \E code \in {0, 1, 2, 3} : Quit(code)
      \/ /\ pc' = "probe" /\ todo' = Indices(Inputs) /\ UNCHANGED <<replied, exit>>
      \/ /\ pc' = "parse" /\ todo' = Work("parse") /\ UNCHANGED <<replied, exit>>
  BY DEF Gate
<1>2. pc' \in {"out", "probe", "parse"}
  BY <1>1 DEF Quit
<1> QED BY <1>1, <1>2 DEF Gate

\* A step of the job begins and ends in one of its stages.
LEMMA OpProcessStages == ASSUME OpProcess PROVE pc \in ToSet(Stages) /\ pc' \in ToSet(Stages)
<1>1. CASE NextStage
  <2>1. pc' = "end" \/ pc' = Following(pc)
    BY <1>1, NextOfStage DEF Fail
  <2> QED BY <1>1, <2>1, NextOfStage, StageNames DEF Following
<1>2. CASE ParseOutput \/ OpenInput
  BY <1>2, StageNames DEF ParseOutput, OpenInput, Doing, Fail, Step
<1>3. CASE AddDescriptor
  <2>1. pc = "map" /\ (Fail \/ Step)
    <3> HIDE DEF Fail, Step
    <3> QED BY <1>3 DEF AddDescriptor, Doing
  <2> QED BY <2>1, StageNames DEF Fail, Step
<1>4. CASE AddSource \/ AddSink
  BY <1>4, StageNames DEF AddSource, AddSink, Doing, Fail, Step
<1>5. CASE OpenEncoder \/ SetupCopy \/ SetupSub
  BY <1>5, StageNames DEF OpenEncoder, SetupCopy, SetupSub, Encode, NewStream, Doing, Fail, Step
<1>6. CASE WriteHeader
  BY <1>6, StageNames DEF WriteHeader, Doing, Fail, Step
<1>7. CASE Packet \/ LoopEnds \/ CallFails
  BY <1>7, StageNames DEF Packet, LoopEnds, CallFails, Fail
<1>8. CASE WriteTrailer \/ Cleanup
  BY <1>8, StageNames DEF WriteTrailer, Cleanup, Doing
<1> QED BY <1>1, <1>2, <1>3, <1>4, <1>5, <1>6, <1>7, <1>8 DEF OpProcess

LEMMA ConfinedInvNext == ConfinedInv /\ [Next]_vars => ConfinedInv'
<1> SUFFICES ASSUME ConfinedInv, [Next]_vars PROVE ConfinedInv'
  OBVIOUS
<1>1. CASE Install
  <2>1. /\ pc = "install" /\ pc' = "gate" /\ UNCHANGED opened
        /\ \/ sandbox' \in {"unavailable", "disabled"} /\ UNCHANGED confined
           \/ \E works \in BOOLEAN : Landlock(works)
    BY <1>1 DEF Install, fileVars
  <2> QED BY <2>1 DEF ConfinedInv, Landlock
<1>2. CASE Gate \/ ProbeInput \/ ProbeReply
  <2>1. pc # "install" /\ UNCHANGED <<sandbox, confined>> /\ pc' \in {pc, "out", "probe", "parse"}
    <3>1. CASE Gate
      BY <3>1, GateCases
    <3>2. CASE ProbeInput \/ ProbeReply
      BY <3>2 DEF ProbeInput, ProbeReply, Quit
    <3> QED BY <1>2, <3>1, <3>2
  <2> QED BY <2>1, ConfinementStays
<1>3. CASE OpProcess /\ UNCHANGED <<request, sandbox, confined, results>>
  <2>1. pc \in ToSet(Stages) /\ pc' \in ToSet(Stages)
    BY <1>3, OpProcessStages
  <2> QED BY <1>3, <2>1, StageNames, ConfinementStays
<1>4. CASE UNCHANGED vars
  BY <1>4 DEF vars, jobVars, fileVars, ConfinedInv
<1> QED BY <1>1, <1>2, <1>3, <1>4 DEF Next

\* A state of confinement that is reported is enforced, and there is one before
\* the first file is opened (sandbox.c 88-90, driver.c 414-416).
THEOREM ConfinementIsHonest == Spec => []ConfinementHonest
<1>1. Init => ConfinedInv
  BY DEF Init, ConfinedInv
<1>2. ConfinedInv => ConfinementHonest
  BY DEF ConfinedInv, ConfinementHonest
<1> QED BY <1>1, <1>2, ConfinedInvNext, PTL DEF Spec

-----------------------------------------------------------------------------
(* Where the driver is in its work *)

\* What is left of 1..n after the first m.
Rest(n, m) == [k \in 1..(n - m) |-> m + k]

LEMMA RestFacts ==
  ASSUME NEW n \in Nat, NEW m \in 0..n
  PROVE  /\ Rest(n, m) = <<>> <=> m = n
         /\ m < n => Rest(n, m)[1] = m + 1 /\ Tail(Rest(n, m)) = Rest(n, m + 1)
<1>1. Rest(n, m) \in Seq(Nat) /\ Len(Rest(n, m)) = n - m
  BY DEF Rest
<1>2. Rest(n, m) = <<>> <=> m = n
  BY <1>1
<1>3. ASSUME m < n PROVE Rest(n, m)[1] = m + 1 /\ Tail(Rest(n, m)) = Rest(n, m + 1)
  <2>1. Rest(n, m)[1] = m + 1
    BY <1>3 DEF Rest
  <2>2. /\ Tail(Rest(n, m)) \in Seq(Nat) /\ Len(Tail(Rest(n, m))) = n - (m + 1)
        /\ \A k \in 1..(n - (m + 1)) : Tail(Rest(n, m))[k] = Rest(n, m)[k + 1]
    <3>1. ASSUME NEW s \in Seq(Nat), Len(s) = n - m
          PROVE  /\ Tail(s) \in Seq(Nat) /\ Len(Tail(s)) = n - (m + 1)
                 /\ \A k \in 1..(n - (m + 1)) : Tail(s)[k] = s[k + 1]
      BY <1>3, <3>1
    <3> QED BY <1>1, <3>1
  <2>3. \A k \in 1..(n - (m + 1)) : Rest(n, m)[k + 1] = m + 1 + k
    BY <1>3 DEF Rest
  <2>4. /\ Rest(n, m + 1) \in Seq(Nat) /\ Len(Rest(n, m + 1)) = n - (m + 1)
        /\ \A k \in 1..(n - (m + 1)) : Rest(n, m + 1)[k] = m + 1 + k
    BY <1>3 DEF Rest
  <2>5. Tail(Rest(n, m)) = Rest(n, m + 1)
    <3> DEFINE s == Tail(Rest(n, m))
               t == Rest(n, m + 1)
    <3>1. s \in Seq(Nat) /\ t \in Seq(Nat) /\ Len(s) = Len(t) /\ \A k \in 1..Len(s) : s[k] = t[k]
      BY <2>2, <2>3, <2>4
    <3> HIDE DEF s, t
    <3>2. s = t
      BY <3>1, SeqEqual
    <3> QED BY <3>2 DEF s, t
  <2> QED BY <2>1, <2>5
<1> QED BY <1>2, <1>3

LEMMA IndicesAre ==
  ASSUME NEW s, Len(s) \in Nat, DOMAIN s = 1..Len(s)
  PROVE  Indices(s) = Rest(Len(s), 0)
  BY DEF Indices, Rest

JobInv == \A s \in {Inputs, Outputs} : Len(s) \in Nat /\ DOMAIN s = 1..Len(s)

\* The inputs are opened, the outputs parsed and their headers written in order;
\* what is counted is what was gone through.
PlaceInv ==
  /\ pc \in ToSet(Stages) \cup {"install", "gate", "probe", "out"}
  /\ nIn \in 0..Len(Inputs) /\ nOut \in 0..Len(Outputs)
  /\ pc \in {"install", "gate", "parse"} => nIn = 0
  /\ pc \in {"install", "gate"} => nOut = 0
  /\ pc = "parse" => todo = Rest(Len(Outputs), nOut)
  /\ pc = "open" => todo = Rest(Len(Inputs), nIn)
  /\ pc \in ToSet(Stages) \ {"parse", "end"} => nOut = Len(Outputs)
  /\ pc = "header" => \E m \in 0..Len(Outputs) : todo = Rest(Len(Outputs), m)

\* The files the cleanup goes through.
Counted == {In(k) : k \in 1..nIn} \cup {Out(j) : j \in 1..nOut}

\* The job counts every file it opens; a probe closes each before the next.
FilesInv ==
  /\ pc \in {"install", "gate"} => opened = {}
  /\ pc \in ToSet(Stages) => opened \subseteq Counted
  /\ pc = "probe" => \E m \in 0..Len(Inputs) :
       todo = Rest(Len(Inputs), m) /\ opened \subseteq {In(k) : k \in 1..m}
  /\ pc \in {"probe", "out"} \/ exit # Running => live \cap opened = {}
  /\ exit # Running => pc \in {"end", "out"}

ClosedInv == JobInv /\ PlaceInv /\ FilesInv

\* A step that goes on with a list, or fails, and touches no file.
LEMMA WorkStep ==
  ASSUME ClosedInv, pc \in ToSet(Stages), UNCHANGED <<job, fileVars, exit>>,
         \/ Fail
         \/ pc' = pc /\ pc \notin {"parse", "open", "header"}
  PROVE  ClosedInv'
<1>1. JobInv'
  BY DEF ClosedInv, JobInv, Inputs, Outputs
<1>2. UNCHANGED <<nIn, nOut, live, opened, Inputs, Outputs, Counted>>
  BY DEF fileVars, Inputs, Outputs, Counted
<1>3. pc' \in ToSet(Stages) /\ (pc' = "end" \/ (pc' = pc /\ pc \notin {"parse", "open", "header"}))
  BY StageNames DEF Fail
<1>4. PlaceInv'
  BY <1>2, <1>3, StageNames DEF ClosedInv, PlaceInv
<1>5. FilesInv'
  BY <1>2, <1>3, StageNames DEF ClosedInv, FilesInv
<1> QED BY <1>1, <1>4, <1>5 DEF ClosedInv

\* Before the work begins.
LEMMA StartClosed == ASSUME ClosedInv, Install \/ Gate \/ ProbeReply PROVE ClosedInv'
<1>1. JobInv' /\ UNCHANGED <<Inputs, Outputs, nIn, nOut, live, opened, Counted>>
  BY DEF ClosedInv, JobInv, Inputs, Outputs, Install, Gate, ProbeReply, fileVars, Counted
<1>2. CASE Install
  <2>1. pc = "install" /\ pc' = "gate" /\ UNCHANGED exit
    BY <1>2 DEF Install
  <2> QED BY <1>1, <2>1, StageNames DEF ClosedInv, PlaceInv, FilesInv
<1>3. CASE Gate
  <2>1. /\ pc = "gate"
        /\ \/ pc' = "out"
           \/ pc' = "probe" /\ todo' = Rest(Len(Inputs), 0) /\ UNCHANGED exit
           \/ pc' = "parse" /\ todo' = Rest(Len(Outputs), 0) /\ UNCHANGED exit
    BY <1>3, GateCases, IndicesAre DEF Quit, Work, ClosedInv, JobInv
  <2>2. nIn = 0 /\ nOut = 0 /\ opened = {} /\ 0 \in 0..Len(Inputs) /\ (exit # Running => pc = "end")
    BY <2>1 DEF ClosedInv, PlaceInv, FilesInv
  <2>3. PlaceInv'
    BY <1>1, <2>1, <2>2, StageNames DEF ClosedInv, PlaceInv
  <2>4. FilesInv'
    BY <1>1, <2>1, <2>2, StageNames DEF ClosedInv, FilesInv
  <2> QED BY <1>1, <2>3, <2>4 DEF ClosedInv
<1>4. CASE ProbeReply
  <2>1. pc = "probe" /\ pc' = "out"
    BY <1>4 DEF ProbeReply, Quit
  <2> QED BY <1>1, <2>1, StageNames DEF ClosedInv, PlaceInv, FilesInv
<1> QED BY <1>2, <1>3, <1>4

LEMMA Lengths == ASSUME ClosedInv PROVE Len(Inputs) \in Nat /\ Len(Outputs) \in Nat
  BY DEF ClosedInv, JobInv

\* Where the list of inputs or outputs is not yet through, its head is the next.
LEMMA NextOne ==
  ASSUME NEW n \in Nat, NEW m \in 0..n, todo = Rest(n, m), todo # <<>>
  PROVE  m < n /\ todo[1] = m + 1 /\ Tail(todo) = Rest(n, m + 1)
<1>1. m # n
  BY RestFacts
<1>2. m < n
  BY <1>1
<1> QED BY <1>2, RestFacts

LEMMA ProbeInputClosed == ASSUME ClosedInv, ProbeInput PROVE ClosedInv'
<1>1. JobInv' /\ UNCHANGED <<Inputs, Outputs, nIn, nOut>>
  BY DEF ClosedInv, JobInv, Inputs, Outputs, ProbeInput
<1>2. pc = "probe" /\ todo # <<>>
  BY DEF ProbeInput
<1>3. PICK m \in 0..Len(Inputs) : todo = Rest(Len(Inputs), m) /\ opened \subseteq {In(k) : k \in 1..m}
  BY <1>2 DEF ClosedInv, FilesInv
<1>4. m < Len(Inputs) /\ todo[1] = m + 1 /\ Tail(todo) = Rest(Len(Inputs), m + 1)
  BY <1>2, <1>3, NextOne DEF ClosedInv, JobInv
<1>5. live \cap opened = {} /\ (exit # Running => pc = "end")
  BY <1>2 DEF ClosedInv, FilesInv
<1>6. \/ pc' = "out" /\ UNCHANGED <<live, opened>>
      \/ /\ pc' = pc /\ todo' = Tail(todo) /\ UNCHANGED exit
         /\ \/ (\E left \in BOOLEAN : Set(In(m + 1), left)) /\ UNCHANGED opened
            \/ Set(In(m + 1), FALSE) /\ opened' = opened \cup {In(m + 1)}
  <2> DEFINE i == Inputs[todo[1]]
  <2>1. CASE Misasked(i)
    BY <2>1 DEF ProbeInput, Quit
  <2>2. CASE ~Misasked(i)
    <3>1. /\ pc' = pc /\ todo' = Tail(todo) /\ UNCHANGED exit
          /\ \/ (\E left \in LeftByOpen(i.kind) : Set(In(todo[1]), left)) /\ UNCHANGED opened
             \/ Set(In(todo[1]), LeftByAfio(i.kind)) /\ opened' = opened \cup {In(todo[1])}
      <4> HIDE DEF Set, LeftByOpen, LeftByAfio, Misasked
      <4> QED BY <2>2 DEF ProbeInput
    <3> QED BY <1>4, <3>1 DEF LeftByOpen, LeftByAfio
  <2> QED BY <2>1, <2>2
<1>7. PlaceInv'
  BY <1>1, <1>2, <1>6, StageNames DEF ClosedInv, PlaceInv
<1>8. FilesInv'
  <2>1. CASE pc' = "out" /\ UNCHANGED <<live, opened>>
    BY <1>5, <2>1, StageNames DEF FilesInv
  <2>2. CASE /\ pc' = pc /\ todo' = Tail(todo) /\ UNCHANGED exit
             /\ \/ (\E left \in BOOLEAN : Set(In(m + 1), left)) /\ UNCHANGED opened
                \/ Set(In(m + 1), FALSE) /\ opened' = opened \cup {In(m + 1)}
    <3>1. live' \cap opened' = {}
      <4>1. In(m + 1) \notin opened
        BY <1>3 DEF In
      <4> QED BY <1>5, <2>2, <4>1 DEF Set
    <3>2. m + 1 \in 0..Len(Inputs)' /\ todo' = Rest(Len(Inputs)', m + 1)
      BY <1>1, <1>4, <2>2 DEF ClosedInv, JobInv
    <3>3. opened' \subseteq {In(k) : k \in 1..(m + 1)}
      <4>1. m \in Nat
        BY <1>1, Lengths
      <4>2. {In(k) : k \in 1..m} \subseteq {In(k) : k \in 1..(m + 1)}
        BY <4>1
      <4>3. In(m + 1) \in {In(k) : k \in 1..(m + 1)}
        BY <4>1
      <4> QED BY <1>3, <2>2, <4>2, <4>3
    <3> QED BY <1>2, <1>5, <2>2, <3>1, <3>2, <3>3, StageNames DEF FilesInv
  <2> QED BY <1>6, <2>1, <2>2
<1> QED BY <1>1, <1>7, <1>8 DEF ClosedInv

LEMMA NextStageClosed == ASSUME ClosedInv, NextStage PROVE ClosedInv'
<1>1. todo = <<>> /\ pc \in ToSet(Stages) \ {"run", "end"} /\ UNCHANGED <<job, fileVars, exit>>
  BY NextOfStage
<1>2. CASE Fail
  BY <1>1, <1>2, WorkStep
<1>3. CASE pc' = Following(pc) /\ todo' = Work(Following(pc))
  <2>1. JobInv' /\ UNCHANGED <<Inputs, Outputs, nIn, nOut, live, opened, exit, Counted>>
    BY <1>1 DEF ClosedInv, JobInv, Inputs, Outputs, fileVars, Counted
  <2>2. pc' \in ToSet(Stages) \ {"parse"} /\ exit = Running
    BY <1>1, <1>3, StageNames DEF Following, ClosedInv, FilesInv
  <2>3. nOut = Len(Outputs)
    <3>1. CASE pc = "parse"
      <4>1. todo = Rest(Len(Outputs), nOut) /\ nOut \in 0..Len(Outputs)
        BY <3>1 DEF ClosedInv, PlaceInv
      <4> QED BY <1>1, <4>1, Lengths, RestFacts
    <3>2. CASE pc # "parse"
      BY <1>1, <3>2 DEF ClosedInv, PlaceInv
    <3> QED BY <3>1, <3>2
  <2>4. pc' = "open" => nIn = 0 /\ todo' = Rest(Len(Inputs), 0)
    <3>1. pc' = "open" => pc = "parse"
      BY <1>1, <1>3, StageNames DEF Following
    <3>2. pc' = "open" => todo' = Indices(Inputs)
      BY <1>3 DEF Work
    <3> QED BY <3>1, <3>2, IndicesAre DEF ClosedInv, JobInv, PlaceInv
  <2>5. pc' = "header" => todo' = Rest(Len(Outputs), 0)
    <3>1. pc' = "header" => todo' = Indices(Outputs)
      BY <1>3 DEF Work
    <3> QED BY <3>1, IndicesAre DEF ClosedInv, JobInv
  <2>6. PlaceInv'
    BY <2>1, <2>2, <2>3, <2>4, <2>5, Lengths, StageNames DEF ClosedInv, PlaceInv
  <2>7. FilesInv'
    BY <1>1, <2>1, <2>2, StageNames DEF ClosedInv, FilesInv
  <2> QED BY <2>1, <2>6, <2>7 DEF ClosedInv
<1> QED BY <1>2, <1>3, NextOfStage

LEMMA ParseOutputClosed == ASSUME ClosedInv, ParseOutput PROVE ClosedInv'
<1>1. pc = "parse" /\ todo # <<>>
  BY DEF ParseOutput, Doing
<1>2. JobInv' /\ UNCHANGED <<Inputs, Outputs, nIn, live, opened, exit>>
  BY DEF ClosedInv, JobInv, Inputs, Outputs, ParseOutput
<1>3. todo = Rest(Len(Outputs), nOut) /\ nIn = 0 /\ nOut \in 0..Len(Outputs)
  BY <1>1 DEF ClosedInv, PlaceInv
<1>4. nOut < Len(Outputs) /\ Tail(todo) = Rest(Len(Outputs), nOut + 1)
  BY <1>1, <1>3, Lengths, NextOne
<1>5. \/ pc' = "end" /\ nOut' = nOut
      \/ pc' = pc /\ todo' = Tail(todo) /\ nOut' = nOut + 1
  BY DEF ParseOutput, Fail, Step
<1>6. nOut' \in 0..Len(Outputs) /\ nOut' \in nOut..(nOut + 1)
  BY <1>3, <1>4, <1>5, Lengths
<1>7. PlaceInv'
  BY <1>1, <1>2, <1>3, <1>4, <1>5, <1>6, StageNames DEF ClosedInv, PlaceInv
<1>8. FilesInv'
  <2>1. Counted \subseteq Counted'
    <3>1. 1..nOut \subseteq 1..nOut'
      BY <1>3, <1>6, Lengths
    <3> QED BY <1>2, <3>1 DEF Counted
  <2> QED BY <1>1, <1>2, <1>5, <2>1, StageNames DEF ClosedInv, FilesInv
<1> QED BY <1>2, <1>7, <1>8 DEF ClosedInv

\* An input that is open counts, whatever fails next.
LEMMA OpenInputClosed == ASSUME ClosedInv, OpenInput PROVE ClosedInv'
<1>1. pc = "open" /\ todo # <<>>
  BY DEF OpenInput, Doing
<1>2. JobInv' /\ UNCHANGED <<Inputs, Outputs, nOut, exit>>
  BY DEF ClosedInv, JobInv, Inputs, Outputs, OpenInput
<1>3. todo = Rest(Len(Inputs), nIn) /\ nIn \in 0..Len(Inputs) /\ nIn \in Nat
  BY <1>1, Lengths DEF ClosedInv, PlaceInv
<1>4. nIn < Len(Inputs) /\ todo[1] = nIn + 1 /\ Tail(todo) = Rest(Len(Inputs), nIn + 1)
  BY <1>1, <1>3, Lengths, NextOne
<1>5. \/ pc' = "end" /\ UNCHANGED <<nIn, opened>>
      \/ /\ nIn' = nIn + 1 /\ opened' = opened \cup {In(nIn + 1)}
         /\ pc' = "end" \/ (pc' = pc /\ todo' = Tail(todo))
  <2>1. \/ Fail /\ UNCHANGED <<nIn, opened>>
        \/ /\ opened' = opened \cup {In(todo[1])}
           /\ \/ Fail /\ nIn' = todo[1]
              \/ Step /\ nIn' = todo[1]
    <3> HIDE DEF Fail, Step, Refused, Unconsumed, Set, LeftByOpen, LeftByLibav
    <3> QED BY DEF OpenInput, CountedBefore
  <2> QED BY <1>4, <2>1 DEF Fail, Step
<1>6. nIn' \in 0..Len(Inputs) /\ nIn' \in nIn..(nIn + 1)
  BY <1>3, <1>4, <1>5, Lengths
<1>7. PlaceInv'
  BY <1>1, <1>2, <1>3, <1>4, <1>5, <1>6, StageNames DEF ClosedInv, PlaceInv
<1>8. FilesInv'
  <2>1. opened \subseteq Counted /\ exit = Running
    BY <1>1, StageNames DEF ClosedInv, FilesInv
  <2>2. Counted \subseteq Counted'
    <3>1. 1..nIn \subseteq 1..nIn'
      BY <1>3, <1>6
    <3> QED BY <1>2, <3>1 DEF Counted
  <2>3. opened' \subseteq Counted'
    <3>1. CASE UNCHANGED <<nIn, opened>>
      BY <2>1, <2>2, <3>1
    <3>2. CASE nIn' = nIn + 1 /\ opened' = opened \cup {In(nIn + 1)}
      <4>1. In(nIn + 1) \in Counted'
        BY <1>3, <3>2 DEF Counted
      <4> QED BY <2>1, <2>2, <3>2, <4>1
    <3> QED BY <1>5, <3>1, <3>2
  <2> QED BY <1>1, <1>2, <1>5, <2>1, <2>3, StageNames DEF FilesInv
<1> QED BY <1>2, <1>7, <1>8 DEF ClosedInv

\* What the other stages of the set-up and of the loop do.
LEMMA WorkCases ==
  ASSUME \/ AddDescriptor \/ AddSource \/ AddSink \/ OpenEncoder \/ SetupCopy \/ SetupSub
         \/ Packet \/ WriteTrailer \/ CallFails
  PROVE  /\ pc \in {"map", "source", "sink", "encode", "copy", "sub", "run", "trailer"}
         /\ UNCHANGED <<job, env, fileVars, replied, exit>>
         /\ Fail \/ (UNCHANGED <<pc, malformed>> /\ (rc' = rc \/ rc' = "failed"))
<1>1. CASE AddDescriptor
  <2>1. pc = "map" /\ UNCHANGED <<job, env, fileVars, replied, exit>> /\ (Fail \/ Step)
    <3> HIDE DEF Fail, Step
    <3> QED BY <1>1 DEF AddDescriptor, Doing
  <2> QED BY <2>1 DEF Step
<1>2. CASE AddSource
  BY <1>2 DEF AddSource, Doing, Step
<1>3. CASE AddSink
  BY <1>3 DEF AddSink, Doing, Step
<1>4. CASE OpenEncoder \/ SetupCopy \/ SetupSub
  BY <1>4 DEF OpenEncoder, SetupCopy, SetupSub, Encode, NewStream, Doing, Step
<1>5. CASE Packet
  BY <1>5 DEF Packet
<1>6. CASE WriteTrailer
  BY <1>6 DEF WriteTrailer, Doing, fileVars
<1>7. CASE CallFails
  BY <1>7 DEF CallFails
<1> QED BY <1>1, <1>2, <1>3, <1>4, <1>5, <1>6, <1>7

LEMMA WriteHeaderClosed == ASSUME ClosedInv, WriteHeader PROVE ClosedInv'
<1>1. pc = "header" /\ todo # <<>>
  BY DEF WriteHeader, Doing
<1>2. JobInv' /\ UNCHANGED <<Inputs, Outputs, nIn, nOut, exit, Counted>>
  BY DEF ClosedInv, JobInv, Inputs, Outputs, WriteHeader, Counted
<1>3. PICK m \in 0..Len(Outputs) : todo = Rest(Len(Outputs), m)
  BY <1>1 DEF ClosedInv, PlaceInv
<1>4. m \in Nat /\ m < Len(Outputs) /\ todo[1] = m + 1 /\ Tail(todo) = Rest(Len(Outputs), m + 1)
  BY <1>1, <1>3, Lengths, NextOne
<1>5. /\ opened' \subseteq opened \cup {Out(m + 1)}
      /\ pc' = "end" \/ (pc' = pc /\ todo' = Tail(todo))
  <2>1. opened' \subseteq opened \cup {Out(todo[1])} /\ (Fail \/ Step)
    <3> HIDE DEF Fail, Step, Set, Tagged, Out
    <3> QED BY DEF WriteHeader
  <2> QED BY <1>4, <2>1 DEF Fail, Step
<1>6. PlaceInv'
  <2>1. pc' = "header" => m + 1 \in 0..Len(Outputs)' /\ todo' = Rest(Len(Outputs)', m + 1)
    <3>1. Len(Outputs)' = Len(Outputs)
      BY <1>2
    <3>2. m + 1 \in 0..Len(Outputs)
      BY <1>4, Lengths
    <3>3. pc' = "header" => todo' = Rest(Len(Outputs), m + 1)
      BY <1>4, <1>5
    <3> QED BY <3>1, <3>2, <3>3
  <2> QED BY <1>1, <1>2, <1>5, <2>1, StageNames DEF ClosedInv, PlaceInv
<1>7. FilesInv'
  <2>1. opened \subseteq Counted /\ exit = Running /\ nOut = Len(Outputs)
    BY <1>1, StageNames DEF ClosedInv, FilesInv, PlaceInv
  <2>2. Out(m + 1) \in Counted
    BY <1>4, <2>1, Lengths DEF Counted
  <2> QED BY <1>1, <1>2, <1>5, <2>1, <2>2, StageNames DEF FilesInv
<1> QED BY <1>2, <1>6, <1>7 DEF ClosedInv

LEMMA LoopEndsClosed == ASSUME ClosedInv, LoopEnds PROVE ClosedInv'
<1>1. /\ pc = "run" /\ pc' = "trailer" /\ UNCHANGED <<nIn, nOut, live, opened, exit>>
      /\ JobInv' /\ UNCHANGED <<Inputs, Outputs, Counted>>
  BY DEF LoopEnds, fileVars, ClosedInv, JobInv, Inputs, Outputs, Counted
<1> QED BY <1>1, StageNames DEF ClosedInv, PlaceInv, FilesInv

\* What is counted is closed.
LEMMA CleanupClosed == ASSUME ClosedInv, Cleanup PROVE ClosedInv'
<1>1. /\ pc = "end" /\ UNCHANGED <<pc, todo, nIn, nOut, opened>>
      /\ JobInv' /\ UNCHANGED <<Inputs, Outputs, Counted>>
  BY DEF Cleanup, ClosedInv, JobInv, Inputs, Outputs, Counted
<1>2. opened \subseteq Counted
  BY <1>1, StageNames DEF ClosedInv, FilesInv
<1>3. live' \cap opened = {}
  <2> SUFFICES ASSUME NEW f \in opened, f \in live' PROVE FALSE
    OBVIOUS
  <2>1. nIn \in Nat /\ nOut \in Nat
    BY Lengths DEF ClosedInv, PlaceInv
  <2>2. IF f[1] = "in" THEN f[2] > nIn ELSE f[2] > nOut
    BY DEF Cleanup, LeftByAfio
  <2>3. CASE \E k \in 1..nIn : f = In(k)
    BY <2>1, <2>2, <2>3 DEF In
  <2>4. CASE \E j \in 1..nOut : f = Out(j)
    BY <2>1, <2>2, <2>4 DEF Out
  <2> QED BY <1>2, <2>3, <2>4 DEF Counted
<1>4. PlaceInv'
  BY <1>1, StageNames DEF ClosedInv, PlaceInv
<1>5. FilesInv'
  BY <1>1, <1>2, <1>3, StageNames DEF FilesInv
<1> QED BY <1>1, <1>4, <1>5 DEF ClosedInv

LEMMA ClosedInvInit == Init => ClosedInv
<1> SUFFICES ASSUME Init PROVE ClosedInv
  OBVIOUS
<1>1. PICK r \in Requests : job = r[2]
  BY DEF Init
<1>2. JobInv
  BY <1>1, DriverAssumption DEF JobInv, Inputs, Outputs
<1>3. /\ pc = "install" /\ nIn = 0 /\ nOut = 0 /\ opened = {} /\ exit = Running
      /\ Len(Inputs) \in Nat /\ Len(Outputs) \in Nat
  BY <1>2 DEF Init, JobInv
<1> QED BY <1>2, <1>3, StageNames DEF ClosedInv, PlaceInv, FilesInv

LEMMA ClosedInvNext == ClosedInv /\ [Next]_vars => ClosedInv'
<1> SUFFICES ASSUME ClosedInv, [Next]_vars PROVE ClosedInv'
  OBVIOUS
<1>1. CASE Install \/ Gate \/ ProbeReply
  BY <1>1, StartClosed
<1>2. CASE ProbeInput
  BY <1>2, ProbeInputClosed
<1>3. CASE NextStage
  BY <1>3, NextStageClosed
<1>4. CASE ParseOutput \/ OpenInput \/ WriteHeader
  BY <1>4, ParseOutputClosed, OpenInputClosed, WriteHeaderClosed
<1>5. CASE \/ AddDescriptor \/ AddSource \/ AddSink \/ OpenEncoder \/ SetupCopy \/ SetupSub
           \/ Packet \/ WriteTrailer \/ CallFails
  <2>1. /\ pc \in {"map", "source", "sink", "encode", "copy", "sub", "run", "trailer"}
        /\ UNCHANGED <<job, fileVars, exit>>
        /\ Fail \/ pc' = pc
    BY <1>5, WorkCases
  <2> QED BY <2>1, StageNames, WorkStep
<1>6. CASE LoopEnds \/ Cleanup
  BY <1>6, LoopEndsClosed, CleanupClosed
<1>7. CASE UNCHANGED vars
  <2>1. /\ UNCHANGED <<pc, todo, nIn, nOut, live, opened, exit, Inputs, Outputs, Counted>>
        /\ JobInv'
    BY <1>7 DEF vars, jobVars, fileVars, ClosedInv, JobInv, Inputs, Outputs, Counted
  <2> QED BY <2>1 DEF ClosedInv, PlaceInv, FilesInv
<1> QED BY <1>1, <1>2, <1>3, <1>4, <1>5, <1>6, <1>7 DEF Next, OpProcess

\* No file that was opened is left open when the driver exits, whatever failed
\* after it (ffmpeg-wasi#27).
THEOREM OpenedIsClosed == Spec => []SessionsClosed
<1>1. ClosedInv => SessionsClosed
  BY DEF ClosedInv, FilesInv, SessionsClosed
<1> QED BY <1>1, ClosedInvInit, ClosedInvNext, PTL DEF Spec

-----------------------------------------------------------------------------
(* Progress *)

Emitter == [on : BOOLEAN, fd : {"none", "open", "broken"}, emitted : BOOLEAN,
            frames : Nat, time : Nat, size : Nat, last : Nat]
Record  == [frames : Int, time : Int, size : Int]

\* Channel c as emitter p left it: only the last record may be a part, the records
\* advance and keep the interval, but for the last, which keeps g; and as long as
\* the channel works the emitter knows what the last one said.
RecordsOf(p, c, g) ==
  /\ p \in Emitter /\ c \in Seq(Record)
  /\ \A n \in 1..(Len(c) - 1) : c[n].frames # Part
  /\ \A n \in 2..Len(c) : c[n].frames # Part =>
       /\ c[n - 1].frames <= c[n].frames /\ c[n - 1].size <= c[n].size
       /\ c[n].time - c[n - 1].time >= (IF n = Len(c) THEN g ELSE Interval)
  /\ p.fd = "none" => c = <<>>
  /\ p.fd = "open" =>
       /\ p.on /\ (p.emitted <=> c # <<>>) /\ p.last <= p.time
       /\ c # <<>> => /\ c[Len(c)].frames \in 0..p.frames /\ c[Len(c)].size <= p.size
                      /\ c[Len(c)].time = p.last

RecordInv ==
  /\ RecordsOf(prog, chan, IF exit = Running THEN Interval ELSE 0)
  /\ pc \notin {"run", "trailer", "end"} => prog.fd = "none"
  /\ exit # Running => pc \in {"end", "out"}
  /\ exit # Running /\ prog.fd = "open" => chan[Len(chan)] = Totals(prog)

\* A record after those there are.
LEMMA OneMoreRecord ==
  ASSUME NEW p, NEW c, NEW r \in Record, NEW q \in Emitter, NEW g \in Nat,
         RecordsOf(p, c, Interval), p.fd = "open",
         q.fd = "open" => q.on /\ q.emitted /\ q.last <= q.time /\ r.frames \in 0..q.frames
                          /\ r.size <= q.size /\ r.time = q.last,
         q.fd # "none",
         r.frames # Part => p.frames <= r.frames /\ p.size <= r.size
                            /\ (p.emitted => r.time - p.last >= g)
  PROVE  RecordsOf(q, Append(c, r), g)
<1> DEFINE d == Append(c, r)
<1>1. /\ d \in Seq(Record) /\ Len(d) = Len(c) + 1 /\ d # <<>> /\ d[Len(d)] = r
      /\ \A n \in 1..Len(c) : d[n] = c[n]
      /\ Len(c) \in Nat /\ (c = <<>> <=> Len(c) = 0)
  BY DEF RecordsOf
<1> HIDE DEF d
<1>2. \A n \in 1..Len(c) : c[n].frames # Part
  <2>1. c # <<>> => c[Len(c)].frames \in Nat
    BY DEF RecordsOf, Emitter
  <2> QED BY <1>1, <2>1 DEF RecordsOf, Part
<1>3. \A n \in 1..(Len(d) - 1) : d[n].frames # Part
  BY <1>1, <1>2
<1>4. ASSUME NEW n \in 2..Len(d), d[n].frames # Part
      PROVE  /\ d[n - 1].frames <= d[n].frames /\ d[n - 1].size <= d[n].size
             /\ d[n].time - d[n - 1].time >= (IF n = Len(d) THEN g ELSE Interval)
  <2>1. CASE n \in 2..Len(c)
    <3>1. d[n] = c[n] /\ d[n - 1] = c[n - 1] /\ n # Len(d)
      BY <1>1, <2>1
    <3>2. /\ c[n - 1].frames <= c[n].frames /\ c[n - 1].size <= c[n].size
          /\ c[n].time - c[n - 1].time >= Interval
      <4>1. CASE n = Len(c)
        BY <1>2, <2>1, <4>1 DEF RecordsOf
      <4>2. CASE n # Len(c)
        BY <1>2, <2>1, <4>2 DEF RecordsOf
      <4> QED BY <4>1, <4>2
    <3> QED BY <3>1, <3>2
  <2>2. CASE n = Len(d)
    <3>1. c # <<>> /\ d[n] = r /\ d[n - 1] = c[Len(c)]
      BY <1>1, <2>2
    <3>2. c[Len(c)] \in Record
      BY <1>1, <3>1 DEF RecordsOf
    <3>3. /\ p \in Emitter /\ p.emitted
          /\ c[Len(c)].frames <= p.frames /\ c[Len(c)].size <= p.size /\ c[Len(c)].time = p.last
      BY <3>1 DEF RecordsOf, Emitter
    <3>4. p.frames <= r.frames /\ p.size <= r.size /\ r.time - p.last >= g
      BY <1>4, <3>1, <3>3
    <3> DEFINE l == c[Len(c)]
    <3>5. /\ l.frames \in Int /\ l.size \in Int /\ l.time \in Int
          /\ r.frames \in Int /\ r.size \in Int /\ r.time \in Int
          /\ p.frames \in Int /\ p.size \in Int /\ p.last \in Int
      BY <3>2, <3>3 DEF Record, Emitter
    <3> HIDE DEF l
    <3>6. l.frames <= r.frames /\ l.size <= r.size /\ r.time - l.time >= g
      BY <3>3, <3>4, <3>5 DEF l
    <3> QED BY <2>2, <3>1, <3>6 DEF l
  <2> QED BY <1>1, <2>1, <2>2
<1>5. q.fd = "open" => /\ q.on /\ (q.emitted <=> d # <<>>) /\ q.last <= q.time
                       /\ d[Len(d)].frames \in 0..q.frames /\ d[Len(d)].size <= q.size
                       /\ d[Len(d)].time = q.last
  BY <1>1
<1>6. RecordsOf(q, d, g)
  BY <1>1, <1>3, <1>4, <1>5 DEF RecordsOf
<1> QED BY <1>6 DEF d

\* Records that keep the interval keep any shorter one.
LEMMA Slacker ==
  ASSUME NEW p, NEW q \in Emitter, NEW c, NEW g \in 0..Interval, RecordsOf(p, c, Interval),
         q.fd = "none" => p.fd = "none",
         q.fd = "open" => /\ p.fd = "open" /\ q.on /\ q.emitted = p.emitted /\ q.last = p.last
                          /\ q.last <= q.time /\ p.frames <= q.frames /\ p.size <= q.size
  PROVE  RecordsOf(q, c, g)
<1>1. p \in Emitter /\ c \in Seq(Record) /\ Len(c) \in Nat
  BY DEF RecordsOf
<1>2. \A n \in 2..Len(c) : c[n] \in Record /\ c[n - 1] \in Record
  BY <1>1
<1>3. ASSUME NEW n \in 2..Len(c), c[n].frames # Part
      PROVE  /\ c[n - 1].frames <= c[n].frames /\ c[n - 1].size <= c[n].size
             /\ c[n].time - c[n - 1].time >= (IF n = Len(c) THEN g ELSE Interval)
  <2>1. /\ c[n - 1].frames <= c[n].frames /\ c[n - 1].size <= c[n].size
        /\ c[n].time - c[n - 1].time >= Interval
    <3>1. CASE n = Len(c)
      BY <1>3, <3>1 DEF RecordsOf
    <3>2. CASE n # Len(c)
      BY <1>3, <3>2 DEF RecordsOf
    <3> QED BY <3>1, <3>2
  <2> DEFINE gap == c[n].time - c[n - 1].time
  <2>2. gap \in Int
    BY <1>2 DEF Record
  <2>3. g \in Int /\ Interval \in Int /\ g <= Interval
    BY JobAssumption
  <2> HIDE DEF gap
  <2>4. gap >= (IF n = Len(c) THEN g ELSE Interval)
    <3>1. gap >= Interval
      BY <2>1 DEF gap
    <3> QED BY <2>2, <2>3, <3>1
  <2> QED BY <2>1, <2>4 DEF gap
<1>4. c # <<>> => c[Len(c)] \in Record
  BY <1>1
<1>5. q.fd = "open" =>
        /\ q.on /\ (q.emitted <=> c # <<>>) /\ q.last <= q.time
        /\ c # <<>> => /\ c[Len(c)].frames \in 0..q.frames /\ c[Len(c)].size <= q.size
                       /\ c[Len(c)].time = q.last
  BY <1>1, <1>4 DEF RecordsOf, Emitter, Record
<1>6. /\ \A n \in 1..(Len(c) - 1) : c[n].frames # Part
      /\ q.fd = "none" => c = <<>>
  BY DEF RecordsOf
<1> QED BY <1>1, <1>3, <1>5, <1>6 DEF RecordsOf

\* What an emission puts on an open channel, and what it knows of it.
LEMMA EmitKeeps ==
  ASSUME NEW p, NEW g \in 0..Interval, RecordsOf(p, chan, Interval), Emit(p),
         p.fd = "open" => p.time >= p.last /\ (p.emitted => p.time - p.last >= g)
  PROVE  /\ RecordsOf(prog', chan', g)
         /\ prog'.fd = "none" <=> p.fd = "none"
         /\ prog'.fd = "open" => chan'[Len(chan')] = Totals(prog')
<1>1. p \in Emitter /\ p.frames \in Nat /\ p.size \in Nat /\ p.time \in Nat /\ p.last \in Nat
  BY DEF RecordsOf, Emitter
<1>2. CASE p.fd # "open"
  <2>1. prog' = p /\ chan' = chan
    BY <1>2 DEF Emit
  <2>2. RecordsOf(p, chan, g)
    BY <1>1, <1>2, Slacker
  <2> QED BY <1>2, <2>1, <2>2
<1>3. CASE p.fd = "open"
  <2> DEFINE known  == [p EXCEPT !.emitted = TRUE, !.last = p.time]
             broken == [p EXCEPT !.fd = "broken"]
  <2>1. \/ chan' = Append(chan, Totals(p)) /\ prog' = known
        \/ chan' = Append(chan, Broken) /\ prog' = broken
        \/ chan' = chan /\ prog' = broken
    <3> HIDE DEF known, broken
    <3>1. \E put \in {"whole", "part", "nothing"} :
            /\ chan' = CASE put = "whole" -> Append(chan, Totals(p))
                         [] put = "part"  -> Append(chan, Broken)
                         [] OTHER         -> chan
            /\ prog' = IF put = "whole" THEN known ELSE broken
      BY <1>3, Zenon DEF Emit, known, broken
    <3> QED BY <3>1
  <2>2. /\ known \in Emitter /\ known.fd = "open" /\ known.emitted /\ known.on = p.on
        /\ known.last = p.time /\ known.time = p.time /\ known.frames = p.frames
        /\ known.size = p.size
    BY <1>1, <1>3 DEF Emitter
  <2>3. broken \in Emitter /\ broken.fd = "broken"
    BY <1>1 DEF Emitter
  <2>4. /\ Totals(p) \in Record /\ Totals(p).frames = p.frames /\ Totals(p).size = p.size
        /\ Totals(p).time = p.time
        /\ Broken \in Record /\ Broken.frames = Part
    BY <1>1 DEF Totals, Broken, Record, Part
  <2>5. g \in Nat /\ p.on
    BY <1>3, JobAssumption DEF RecordsOf
  <2> HIDE DEF known, broken
  <2>6. CASE chan' = Append(chan, Totals(p)) /\ prog' = known
    <3>1. RecordsOf(known, Append(chan, Totals(p)), g)
      <4>1. known.on /\ known.last <= known.time /\ known.fd # "none"
        BY <1>1, <2>2, <2>5
      <4>2. /\ Totals(p).frames \in 0..known.frames /\ Totals(p).size <= known.size
            /\ Totals(p).time = known.last
            /\ p.frames <= Totals(p).frames /\ p.size <= Totals(p).size
        BY <1>1, <2>2, <2>4
      <4>3. p.emitted => Totals(p).time - p.last >= g
        BY <1>3, <2>4
      <4> QED BY <1>3, <2>2, <2>4, <2>5, <4>1, <4>2, <4>3, OneMoreRecord
    <3>2. chan'[Len(chan')] = Totals(p)
      BY <2>4, <2>6 DEF RecordsOf
    <3>3. Totals(known) = Totals(p)
      BY <2>2 DEF Totals
    <3> QED BY <1>3, <2>2, <2>6, <3>1, <3>2, <3>3
  <2>7. CASE chan' = Append(chan, Broken) /\ prog' = broken
    <3>1. RecordsOf(broken, Append(chan, Broken), g)
      BY <1>3, <2>3, <2>4, <2>5, OneMoreRecord
    <3> QED BY <1>3, <2>3, <2>7, <3>1
  <2>8. CASE chan' = chan /\ prog' = broken
    <3>1. RecordsOf(broken, chan, g)
      BY <2>3, Slacker
    <3> QED BY <1>3, <2>3, <2>8, <3>1
  <2> QED BY <2>1, <2>6, <2>7, <2>8
<1> QED BY <1>2, <1>3

\* A packet advances the totals, and is told when the interval has passed.
LEMMA NoteKeeps ==
  ASSUME NEW video \in BOOLEAN, NEW time \in Times, RecordsOf(prog, chan, Interval),
         Note(prog, video, time)
  PROVE  RecordsOf(prog', chan', Interval)
<1> DEFINE f == IF video THEN prog.frames + 1 ELSE prog.frames
           t == IF time > prog.time THEN time ELSE prog.time
           s == prog.size + 1
           q == [prog EXCEPT !.size = s, !.frames = f, !.time = t]
<1>1. /\ prog \in Emitter /\ prog.frames \in Nat /\ prog.size \in Nat /\ prog.time \in Nat
      /\ prog.last \in Nat /\ time \in Int
  BY JobAssumption DEF RecordsOf, Emitter
<1>2. /\ q \in Emitter /\ q.size = s /\ q.frames = f /\ q.time = t
      /\ q.fd = prog.fd /\ q.on = prog.on /\ q.emitted = prog.emitted /\ q.last = prog.last
  <2>1. f \in Nat /\ t \in Nat /\ s \in Nat
    BY <1>1
  <2>2. q = [prog EXCEPT !.size = s, !.frames = f, !.time = t]
    OBVIOUS
  <2> HIDE DEF f, t, s, q
  <2> QED BY <1>1, <2>1, <2>2 DEF Emitter
<1>3. \/ Emit(q) /\ (~q.emitted \/ q.time - q.last >= Interval)
      \/ prog' = q /\ UNCHANGED chan
  <2> HIDE DEF Emit
  <2> QED BY DEF Note
<1> HIDE DEF q
<1>4. /\ q.size \in Nat /\ q.frames \in Nat /\ q.time \in Nat
      /\ prog.size <= q.size /\ prog.frames <= q.frames /\ prog.time <= q.time
  BY <1>1, <1>2
<1>5. q \in Emitter
  BY <1>2
<1>6. Interval \in 0..Interval /\ (prog.fd = "open" => prog.on /\ prog.last <= prog.time)
  BY JobAssumption DEF RecordsOf
<1>7. RecordsOf(q, chan, Interval) /\ (q.fd = "open" => q.last <= q.time)
  <2>1. q.fd = "open" => q.last <= q.time
    BY <1>1, <1>2, <1>4, <1>6
  <2> QED BY <1>2, <1>4, <1>5, <1>6, <2>1, Slacker
<1>8. CASE Emit(q) /\ (~q.emitted \/ q.time - q.last >= Interval)
  <2>1. q.fd = "open" => q.time >= q.last /\ (q.emitted => q.time - q.last >= Interval)
    BY <1>1, <1>2, <1>4, <1>7, <1>8
  <2> QED BY <1>6, <1>7, <1>8, <2>1, EmitKeeps
<1> QED BY <1>3, <1>7, <1>8

\* A step that puts nothing on the channel.
LEMMA SilentStep ==
  ASSUME RecordInv, UNCHANGED <<prog, chan>>,
         \/ /\ UNCHANGED exit
            /\ pc' \notin {"run", "trailer", "end"} => pc \notin {"run", "trailer", "end"}
            /\ exit = Running
         \/ pc \notin {"run", "trailer", "end"} /\ pc' = "out"
  PROVE  RecordInv'
<1>1. CASE /\ UNCHANGED exit
           /\ pc' \notin {"run", "trailer", "end"} => pc \notin {"run", "trailer", "end"}
           /\ exit = Running
  BY <1>1 DEF RecordInv
<1>2. CASE pc \notin {"run", "trailer", "end"} /\ pc' = "out"
  <2>1. prog.fd = "none" /\ chan = <<>> /\ prog \in Emitter
    BY <1>2 DEF RecordInv, RecordsOf
  <2>2. \A g : RecordsOf(prog, chan, g)
    BY <2>1 DEF RecordsOf
  <2> QED BY <1>2, <2>1, <2>2 DEF RecordInv
<1> QED BY <1>1, <1>2

LEMMA NextStageRecords == ASSUME RecordInv, NextStage PROVE RecordInv'
<1>1. pc \in ToSet(Stages) \ {"run", "end"} /\ UNCHANGED <<chan, exit>>
  BY NextOfStage
<1>2. exit = Running
  BY <1>1, StageNames DEF RecordInv
<1>3. CASE UNCHANGED prog
  <2>1. pc' = "end" \/ pc' = Following(pc)
    BY NextOfStage DEF Fail
  <2>2. pc' \notin {"run", "trailer", "end"} => pc \notin {"run", "trailer", "end"}
    BY <1>1, <2>1, StageNames DEF Following
  <2> QED BY <1>1, <1>2, <1>3, <2>2, SilentStep
<1>4. CASE pc = "header" /\ pc' = Following(pc) /\ ProgressOpen
  <2>1. chan = <<>> /\ pc' = "run"
    BY <1>4 DEF RecordInv, RecordsOf, Following
  <2>2. prog' \in Emitter /\ prog'.fd \in {"open", "none"} /\ prog'.on /\ ~prog'.emitted
        /\ prog'.last <= prog'.time
    BY <1>4 DEF ProgressOpen, Emitter
  <2>3. RecordsOf(prog', chan', Interval)
    BY <1>1, <2>1, <2>2 DEF RecordsOf
  <2> QED BY <1>1, <1>2, <2>1, <2>3 DEF RecordInv
<1>5. UNCHANGED prog \/ (pc = "header" /\ pc' = Following(pc) /\ ProgressOpen)
  <2>1. (Fail /\ UNCHANGED prog) \/ (pc' = Following(pc) /\ (IF pc = "header" THEN ProgressOpen ELSE UNCHANGED prog))
    BY NextOfStage
  <2> HIDE DEF ProgressOpen
  <2> QED BY <2>1
<1> QED BY <1>3, <1>4, <1>5

LEMMA PacketRecords == ASSUME RecordInv, Packet PROVE RecordInv'
<1>1. /\ pc = "run" /\ UNCHANGED exit /\ pc' \in {"end", "run"}
      /\ \E video \in BOOLEAN, time \in Times : Note(prog, video, time)
  <2> HIDE DEF Note
  <2> QED BY DEF Packet, Fail
<1>2. exit = Running /\ RecordsOf(prog, chan, Interval)
  BY <1>1 DEF RecordInv
<1>3. RecordsOf(prog', chan', Interval)
  BY <1>1, <1>2, NoteKeeps
<1> QED BY <1>1, <1>2, <1>3 DEF RecordInv

\* The last record is of the totals, however soon.
LEMMA CleanupRecords == ASSUME RecordInv, Cleanup PROVE RecordInv'
<1>1. /\ pc = "end" /\ exit = Running /\ UNCHANGED pc /\ exit' \in {0, 1, 2}
      /\ IF prog.on THEN Emit(prog) ELSE UNCHANGED <<prog, chan>>
  <2> HIDE DEF Emit
  <2> QED BY DEF Cleanup, Code, progVars
<1>2. RecordsOf(prog, chan, Interval) /\ 0 \in 0..Interval /\ exit' # Running
  BY <1>1, JobAssumption DEF RecordInv, Running
<1>3. prog \in Emitter /\ (prog.fd = "open" => prog.on /\ prog.time >= prog.last)
  BY <1>2 DEF RecordsOf, Emitter
<1>4. RecordsOf(prog', chan', 0) /\ (prog'.fd = "open" => chan'[Len(chan')] = Totals(prog'))
  <2>1. CASE Emit(prog)
    <3>1. prog.fd = "open" => prog.time - prog.last >= 0
      BY <1>3 DEF Emitter
    <3> QED BY <1>2, <1>3, <2>1, <3>1, EmitKeeps
  <2>2. CASE ~prog.on /\ UNCHANGED <<prog, chan>>
    <3>1. RecordsOf(prog, chan, 0)
      BY <1>2, <1>3, <2>2, Slacker
    <3> QED BY <1>3, <2>2, <3>1
  <2> QED BY <1>1, <2>1, <2>2
<1> QED BY <1>1, <1>2, <1>4 DEF RecordInv

LEMMA RecordInvInit == Init => RecordInv
<1> SUFFICES ASSUME Init PROVE RecordInv
  OBVIOUS
<1>1. chan = <<>> /\ exit = Running /\ pc = "install"
  BY DEF Init
<1>2. prog \in Emitter /\ prog.fd = "none"
  BY DEF Init, Emitter
<1>3. RecordsOf(prog, chan, Interval)
  BY <1>1, <1>2 DEF RecordsOf
<1> QED BY <1>1, <1>2, <1>3 DEF RecordInv

LEMMA RecordInvNext == RecordInv /\ [Next]_vars => RecordInv'
<1> SUFFICES ASSUME RecordInv, [Next]_vars PROVE RecordInv'
  OBVIOUS
<1>1. CASE Install \/ Gate \/ ProbeInput \/ ProbeReply
  <2>1. /\ pc \in {"install", "gate", "probe"} /\ UNCHANGED <<prog, chan>>
        /\ pc' = "out" \/ (UNCHANGED exit /\ pc' \in {"gate", "probe", "parse"})
    <3>1. CASE Install
      BY <3>1 DEF Install, progVars
    <3>2. CASE Gate
      <4>1. pc = "gate" /\ UNCHANGED <<prog, chan>> /\ pc' \in {"out", "probe", "parse"}
        BY <3>2, GateCases DEF progVars
      <4>2. pc' = "out" \/ UNCHANGED exit
        BY <3>2, GateCases DEF Quit
      <4> QED BY <4>1, <4>2
    <3>3. CASE ProbeInput
      BY <3>3 DEF ProbeInput, Quit, progVars
    <3>4. CASE ProbeReply
      BY <3>4 DEF ProbeReply, Quit, progVars
    <3> QED BY <1>1, <3>1, <3>2, <3>3, <3>4
  <2>2. exit = Running
    BY <2>1 DEF RecordInv
  <2> QED BY <2>1, <2>2, SilentStep
<1>2. CASE NextStage
  BY <1>2, NextStageRecords
<1>3. CASE Packet \/ Cleanup
  BY <1>3, PacketRecords, CleanupRecords
<1>4. CASE \/ ParseOutput \/ OpenInput \/ AddDescriptor \/ AddSource \/ AddSink \/ OpenEncoder
           \/ SetupCopy \/ SetupSub \/ WriteHeader \/ WriteTrailer \/ CallFails \/ LoopEnds
  <2>1. UNCHANGED <<prog, chan, exit>>
    BY <1>4 DEF ParseOutput, OpenInput, AddDescriptor, AddSource, AddSink, OpenEncoder, SetupCopy,
                SetupSub, WriteHeader, WriteTrailer, CallFails, LoopEnds, progVars
  <2>2. /\ pc \in {"parse", "open", "map", "source", "sink", "encode", "copy", "sub", "header",
                   "run", "trailer"}
        /\ pc' \in {pc, "end", "trailer"}
    <3>1. CASE ParseOutput \/ OpenInput \/ WriteHeader
      BY <3>1 DEF ParseOutput, OpenInput, WriteHeader, Doing, Fail, Step
    <3>2. CASE LoopEnds
      BY <3>2 DEF LoopEnds
    <3>3. CASE \/ AddDescriptor \/ AddSource \/ AddSink \/ OpenEncoder \/ SetupCopy \/ SetupSub
               \/ WriteTrailer \/ CallFails
      BY <3>3, WorkCases DEF Fail
    <3> QED BY <1>4, <3>1, <3>2, <3>3
  <2>3. exit = Running
    BY <2>2 DEF RecordInv
  <2> QED BY <2>1, <2>2, <2>3, SilentStep
<1>5. CASE UNCHANGED vars
  BY <1>5 DEF vars, jobVars, progVars, RecordInv
<1> QED BY <1>1, <1>2, <1>3, <1>4, <1>5 DEF Next, OpProcess

\* The progress channel carries whole records but for the last, which advance and
\* are no closer than the interval but for the final one; unless the channel broke
\* the job's totals are the last thing on it (ffmpeg-wasi#48, progress.c 60-80).
THEOREM RecordsAreSound == Spec => []RecordsSound
<1>1. RecordInv => RecordsSound
  BY DEF RecordInv, RecordsOf, RecordsSound
<1> QED BY <1>1, RecordInvInit, RecordInvNext, PTL DEF Spec

-----------------------------------------------------------------------------
(* Types *)

\* An array of Ctx holds a list no longer than it.
Holds(s, max) == (\E S : s \in Seq(S)) /\ Len(s) <= max

LEMMA OneMoreHeld ==
  ASSUME NEW s, NEW e, NEW max \in Nat, Holds(s, max), ~Full(s, max)
  PROVE  Holds(Append(s, e), max)
<1>1. PICK S : s \in Seq(S)
  BY DEF Holds
<1>2. Append(s, e) \in Seq(S \cup {e}) /\ Len(Append(s, e)) = Len(s) + 1 /\ Len(s) \in Nat
  <2>1. s \in Seq(S \cup {e})
    BY <1>1
  <2> QED BY <2>1
<1> QED BY <1>2 DEF Holds, Full

ArraysInv ==
  /\ nIn \in 0..MaxInputs /\ nOut \in 0..MaxOutputs
  /\ Holds(gin, MaxGin) /\ Holds(gout, MaxGout) /\ Holds(cpy, MaxCpy) /\ Holds(sub, MaxSub)

\* Every lane is looked at before it takes one more.
LEMMA DescriptorFits == ASSUME ArraysInv, AddDescriptor PROVE Holds(cpy, MaxCpy)' /\ Holds(sub, MaxSub)'
<1>1. /\ cpy' = cpy \/ (~Full(cpy, MaxCpy) /\ \E d : cpy' = Append(cpy, d))
      /\ sub' = sub \/ (~Full(sub, MaxSub) /\ \E d : sub' = Append(sub, d))
  <2> HIDE DEF Fail, Step, Full, Resolve, Codec, IsSub, IsPad
  <2> QED BY DEF AddDescriptor
<1>2. MaxCpy \in Nat /\ MaxSub \in Nat /\ Holds(cpy, MaxCpy) /\ Holds(sub, MaxSub)
  BY JobAssumption DEF ArraysInv
<1>3. \A c : c = cpy \/ (~Full(cpy, MaxCpy) /\ \E d : c = Append(cpy, d)) => Holds(c, MaxCpy)
  BY <1>2, OneMoreHeld
<1>4. \A c : c = sub \/ (~Full(sub, MaxSub) /\ \E d : c = Append(sub, d)) => Holds(c, MaxSub)
  BY <1>2, OneMoreHeld
<1>5. Holds(cpy', MaxCpy) /\ Holds(sub', MaxSub)
  BY <1>1, <1>3, <1>4
<1> QED BY <1>5 DEF Holds

LEMMA PadFits == ASSUME ArraysInv, AddSource \/ AddSink PROVE Holds(gin, MaxGin)' /\ Holds(gout, MaxGout)'
<1>1. /\ gin' = gin \/ (~Full(gin, MaxGin) /\ \E d : gin' = Append(gin, d))
      /\ gout' = gout \/ (~Full(gout, MaxGout) /\ \E d : gout' = Append(gout, d))
  <2> HIDE DEF Fail, Step, Full, Resolve, Codec, OutputFor
  <2> QED BY DEF AddSource, AddSink
<1>2. MaxGin \in Nat /\ MaxGout \in Nat /\ Holds(gin, MaxGin) /\ Holds(gout, MaxGout)
  BY JobAssumption DEF ArraysInv
<1>3. \A c : c = gin \/ (~Full(gin, MaxGin) /\ \E d : c = Append(gin, d)) => Holds(c, MaxGin)
  BY <1>2, OneMoreHeld
<1>4. \A c : c = gout \/ (~Full(gout, MaxGout) /\ \E d : c = Append(gout, d)) => Holds(c, MaxGout)
  BY <1>2, OneMoreHeld
<1>5. Holds(gin', MaxGin) /\ Holds(gout', MaxGout)
  BY <1>1, <1>3, <1>4
<1> QED BY <1>5 DEF Holds

LEMMA OpenFits == ASSUME ClosedInv, ArraysInv, OpenInput PROVE nIn' \in 0..MaxInputs
<1>1. pc = "open" /\ todo # <<>>
  BY DEF OpenInput, Doing
<1>2. todo = Rest(Len(Inputs), nIn) /\ nIn \in 0..Len(Inputs)
  BY <1>1 DEF ClosedInv, PlaceInv
<1>3. todo[1] = nIn + 1
  BY <1>1, <1>2, Lengths, NextOne
<1>4. nIn' = nIn \/ (todo[1] <= MaxInputs /\ nIn' = todo[1])
  <2> HIDE DEF Fail, Step, Refused, Unconsumed, Set, LeftByOpen, LeftByLibav
  <2> QED BY DEF OpenInput, CountedBefore
<1> QED BY <1>3, <1>4, JobAssumption DEF ArraysInv

LEMMA ArraysInvNext == ClosedInv /\ ArraysInv /\ [Next]_vars => ArraysInv'
<1> SUFFICES ASSUME ClosedInv, ArraysInv, [Next]_vars PROVE ArraysInv'
  OBVIOUS
<1>1. CASE \/ Install \/ ProbeInput \/ ProbeReply \/ OpenEncoder \/ SetupCopy \/ SetupSub \/ WriteHeader
           \/ Packet \/ LoopEnds \/ WriteTrailer \/ CallFails \/ Cleanup \/ UNCHANGED vars
  <2>1. UNCHANGED <<nIn, nOut, gin, gout, cpy, sub>>
    BY <1>1 DEF Install, ProbeInput, ProbeReply, OpenEncoder, SetupCopy, SetupSub, WriteHeader,
                Packet, LoopEnds, WriteTrailer, CallFails, Cleanup, vars, jobVars, fileVars, libavVars
  <2> QED BY <2>1 DEF ArraysInv, Holds
<1>2. CASE Gate \/ NextStage
  <2>1. UNCHANGED <<nIn, nOut, gin, gout, cpy, sub>>
    BY <1>2, GateCases, NextOfStage DEF fileVars, libavVars
  <2> QED BY <2>1 DEF ArraysInv, Holds
<1>3. CASE ParseOutput
  <2>1. /\ UNCHANGED <<nIn, gin, gout, cpy, sub>>
        /\ nOut' = nOut \/ (nOut < MaxOutputs /\ nOut' = nOut + 1)
    <3>1. UNCHANGED <<nIn, gin, gout, cpy, sub>>
      BY <1>3 DEF ParseOutput, libavVars
    <3>2. nOut' = nOut \/ (~(nOut >= MaxOutputs) /\ nOut' = nOut + 1)
      BY <1>3 DEF ParseOutput
    <3> QED BY <3>1, <3>2, JobAssumption DEF ArraysInv
  <2> QED BY <2>1, JobAssumption DEF ArraysInv, Holds
<1>4. CASE OpenInput
  <2>1. UNCHANGED <<nOut, gin, gout, cpy, sub>>
    BY <1>4 DEF OpenInput, libavVars
  <2> QED BY <1>4, <2>1, OpenFits DEF ArraysInv, Holds
<1>5. CASE AddDescriptor
  <2>1. UNCHANGED <<nIn, nOut, gin, gout>>
    BY <1>5 DEF AddDescriptor, fileVars
  <2> QED BY <1>5, <2>1, DescriptorFits DEF ArraysInv, Holds
<1>6. CASE AddSource \/ AddSink
  <2>1. UNCHANGED <<nIn, nOut, cpy, sub>>
    BY <1>6 DEF AddSource, AddSink, fileVars
  <2> QED BY <1>6, <2>1, PadFits DEF ArraysInv, Holds
<1> QED BY <1>1, <1>2, <1>3, <1>4, <1>5, <1>6 DEF Next, OpProcess

Muxer(m) == m = [streams |-> m.streams, at |-> m.at] /\ m.at \in {"none", "header", "trailer"}

MuxInv == \A j \in DOMAIN mux : Muxer(mux[j])

\* A stream more, a header or a trailer.
LEMMA MuxSteps ==
  ASSUME OpenEncoder \/ SetupCopy \/ SetupSub \/ WriteHeader \/ WriteTrailer
  PROVE  \/ UNCHANGED mux
         \/ \E j, s : mux' = [mux EXCEPT ![j].streams = s]
         \/ \E j, s : mux' = [mux EXCEPT ![j] = [streams |-> s, at |-> "header"]]
         \/ \E j : mux' = [mux EXCEPT ![j].at = "trailer"]
<1>1. CASE OpenEncoder \/ SetupSub
  <2>1. \E j, t, key, how, src : Encode(j, t, key, how, src)
    <3> HIDE DEF Encode
    <3> QED BY <1>1 DEF OpenEncoder, SetupSub
  <2>2. UNCHANGED mux \/ \E j, key, how, t, src, given, bsf : NewStream(j, key, how, t, src, given, bsf)
    <3> HIDE DEF NewStream, Given, Codec
    <3> QED BY <2>1 DEF Encode
  <2> QED BY <2>2 DEF NewStream
<1>2. CASE SetupCopy
  BY <1>2 DEF SetupCopy, NewStream
<1>3. CASE WriteHeader
  <2> HIDE DEF Tagged, Set, Fail, Step
  <2> QED BY <1>3 DEF WriteHeader
<1>4. CASE WriteTrailer
  BY <1>4 DEF WriteTrailer
<1> QED BY <1>1, <1>2, <1>3, <1>4

LEMMA MuxInvNext == MuxInv /\ [Next]_vars => MuxInv'
<1> SUFFICES ASSUME MuxInv, [Next]_vars PROVE MuxInv'
  OBVIOUS
<1>1. CASE UNCHANGED mux
  BY <1>1 DEF MuxInv
<1>2. CASE OpenEncoder \/ SetupCopy \/ SetupSub \/ WriteHeader \/ WriteTrailer
  <2>1. ASSUME NEW j, NEW s, mux' = [mux EXCEPT ![j].streams = s] PROVE MuxInv'
    <3>1. ASSUME NEW i \in DOMAIN mux PROVE Muxer(mux'[i])
      <4>1. CASE i = j
        <5>1. mux'[i] = [mux[i] EXCEPT !.streams = s]
          BY <2>1, <4>1
        <5>2. Muxer(mux[i])
          BY DEF MuxInv
        <5> QED BY <5>1, <5>2 DEF Muxer
      <4>2. CASE i # j
        BY <2>1, <4>2 DEF MuxInv
      <4> QED BY <4>1, <4>2
    <3> QED BY <2>1, <3>1 DEF MuxInv, Muxer
  <2>2. ASSUME NEW j, NEW s, mux' = [mux EXCEPT ![j] = [streams |-> s, at |-> "header"]] PROVE MuxInv'
    <3>1. ASSUME NEW i \in DOMAIN mux PROVE Muxer(mux'[i])
      BY <2>2 DEF MuxInv, Muxer
    <3> QED BY <2>2, <3>1 DEF MuxInv, Muxer
  <2>3. ASSUME NEW j, mux' = [mux EXCEPT ![j].at = "trailer"] PROVE MuxInv'
    <3>1. ASSUME NEW i \in DOMAIN mux PROVE Muxer(mux'[i])
      <4>1. CASE i = j
        <5>1. mux'[i] = [mux[i] EXCEPT !.at = "trailer"]
          BY <2>3, <4>1
        <5>2. Muxer(mux[i])
          BY DEF MuxInv
        <5> QED BY <5>1, <5>2 DEF Muxer
      <4>2. CASE i # j
        BY <2>3, <4>2 DEF MuxInv
      <4> QED BY <4>1, <4>2
    <3> QED BY <2>3, <3>1 DEF MuxInv, Muxer
  <2> QED BY <1>1, <1>2, <2>1, <2>2, <2>3, MuxSteps
<1>3. CASE \/ Install \/ ProbeInput \/ ProbeReply \/ ParseOutput \/ OpenInput \/ AddDescriptor \/ AddSource
           \/ AddSink \/ Packet \/ LoopEnds \/ CallFails \/ Cleanup \/ UNCHANGED vars
  BY <1>1, <1>3 DEF Install, ProbeInput, ProbeReply, ParseOutput, OpenInput, AddDescriptor, AddSource,
                    AddSink, Packet, LoopEnds, CallFails, Cleanup, vars, jobVars, libavVars
<1>4. CASE Gate \/ NextStage
  BY <1>1, <1>4, GateCases, NextOfStage DEF libavVars
<1> QED BY <1>2, <1>3, <1>4 DEF Next, OpProcess

\* The files of the job.
Files == {In(k) : k \in DOMAIN Inputs} \cup {Out(j) : j \in DOMAIN Outputs}

LEMMA LiveInvNext == ClosedInv /\ live \subseteq Files /\ [Next]_vars => (live \subseteq Files)'
<1> SUFFICES ASSUME ClosedInv, live \subseteq Files, [Next]_vars PROVE (live \subseteq Files)'
  OBVIOUS
<1>1. UNCHANGED job
  <2>1. CASE Gate \/ NextStage
    BY <2>1, GateCases, NextOfStage
  <2> QED BY <2>1 DEF Next, OpProcess, Install, ProbeInput, ProbeReply, ParseOutput, OpenInput,
                   AddDescriptor, AddSource, AddSink, OpenEncoder, SetupCopy, SetupSub, WriteHeader,
                   Packet, LoopEnds, WriteTrailer, CallFails, Cleanup, vars, jobVars
<1>2. Files' = Files
  BY <1>1 DEF Files, Inputs, Outputs
<1>3. CASE \/ Install \/ ProbeReply \/ ParseOutput \/ AddDescriptor \/ AddSource \/ AddSink \/ OpenEncoder
           \/ SetupCopy \/ SetupSub \/ Packet \/ LoopEnds \/ WriteTrailer \/ CallFails \/ UNCHANGED vars
  <2>1. UNCHANGED live
    BY <1>3 DEF Install, ProbeReply, ParseOutput, AddDescriptor, AddSource, AddSink, OpenEncoder,
                SetupCopy, SetupSub, Packet, LoopEnds, WriteTrailer, CallFails, vars, jobVars, fileVars
  <2> QED BY <1>2, <2>1
<1>4. CASE Gate \/ NextStage
  <2>1. UNCHANGED live
    BY <1>4, GateCases, NextOfStage DEF fileVars
  <2> QED BY <1>2, <2>1
<1>5. CASE Cleanup
  <2>1. live' \subseteq live
    BY <1>5 DEF Cleanup
  <2> QED BY <1>2, <2>1
<1>6. CASE OpenInput \/ ProbeInput
  <2>1. todo[1] \in DOMAIN Inputs
    <3>1. PICK m \in 0..Len(Inputs) : todo = Rest(Len(Inputs), m) /\ todo # <<>>
      BY <1>6, StageNames DEF OpenInput, ProbeInput, Doing, ClosedInv, PlaceInv, FilesInv
    <3>2. m < Len(Inputs) /\ todo[1] = m + 1 /\ m \in Nat
      BY <3>1, Lengths, NextOne
    <3>3. DOMAIN Inputs = 1..Len(Inputs)
      BY DEF ClosedInv, JobInv
    <3> QED BY <3>2, <3>3, Lengths
  <2>2. live' = live \/ \E open : Set(In(todo[1]), open)
    <3> HIDE DEF Set, Fail, Step, Quit, Refused, Unconsumed, Misasked, LeftByOpen, LeftByLibav, LeftByAfio
    <3>1. CASE OpenInput
      BY <3>1 DEF OpenInput
    <3>2. CASE ProbeInput
      BY <3>2 DEF ProbeInput
    <3> QED BY <1>6, <3>1, <3>2
  <2>3. live' \subseteq live \cup {In(todo[1])}
    BY <2>2 DEF Set
  <2> QED BY <1>2, <2>1, <2>3 DEF Files
<1>7. CASE WriteHeader
  <2>1. todo[1] \in DOMAIN Outputs
    <3>1. PICK m \in 0..Len(Outputs) : todo = Rest(Len(Outputs), m) /\ todo # <<>>
      BY <1>7, StageNames DEF WriteHeader, Doing, ClosedInv, PlaceInv
    <3>2. m < Len(Outputs) /\ todo[1] = m + 1 /\ m \in Nat
      BY <3>1, Lengths, NextOne
    <3>3. DOMAIN Outputs = 1..Len(Outputs)
      BY DEF ClosedInv, JobInv
    <3> QED BY <3>2, <3>3, Lengths
  <2>2. live' = live \/ \E open : Set(Out(todo[1]), open)
    <3> HIDE DEF Set, Fail, Step, Tagged
    <3> QED BY <1>7 DEF WriteHeader
  <2>3. live' \subseteq live \cup {Out(todo[1])}
    BY <2>2 DEF Set
  <2> QED BY <1>2, <2>1, <2>3 DEF Files
<1> QED BY <1>3, <1>4, <1>5, <1>6, <1>7 DEF Next, OpProcess

OutcomeInv ==
  /\ DOMAIN request = {"args", "json", "version", "op"} /\ env \in Environments
  /\ rc \in {"ok", "failed"} /\ malformed \in BOOLEAN /\ replied \in BOOLEAN
  /\ sandbox \in {"unset", "unavailable", "disabled", "landlock"} /\ confined \in BOOLEAN
  /\ exit \in {Running} \cup 0..3

LEMMA QuitOutcome ==
  ASSUME NEW code \in 0..3, Quit(code)
  PROVE  replied' \in BOOLEAN /\ exit' \in {Running} \cup 0..3
  BY DEF Quit

LEMMA OutcomeInvNext == OutcomeInv /\ [Next]_vars => OutcomeInv'
<1> SUFFICES ASSUME OutcomeInv, [Next]_vars PROVE OutcomeInv'
  OBVIOUS
<1>1. CASE Install
  <2>1. UNCHANGED <<request, env, rc, malformed, replied, exit>>
    BY <1>1 DEF Install
  <2>2. sandbox' \in {"unset", "unavailable", "disabled", "landlock"} /\ confined' \in BOOLEAN
    <3>1. \/ sandbox' \in {"unavailable", "disabled"} /\ UNCHANGED confined
          \/ \E works \in BOOLEAN : Landlock(works)
      BY <1>1 DEF Install
    <3> QED BY <3>1 DEF Landlock, OutcomeInv
  <2> QED BY <2>1, <2>2 DEF OutcomeInv
<1>2. CASE Gate \/ ProbeInput \/ ProbeReply
  <2>1. UNCHANGED <<request, env, rc, malformed, sandbox, confined>>
    BY <1>2 DEF Gate, ProbeInput, ProbeReply
  <2>2. UNCHANGED <<replied, exit>> \/ \E code \in 0..3 : Quit(code)
    <3> HIDE DEF Quit, Misasked, Set
    <3>1. CASE Gate
      BY <3>1, GateCases
    <3>2. CASE ProbeInput
      BY <3>2 DEF ProbeInput
    <3>3. CASE ProbeReply
      BY <3>3 DEF ProbeReply
    <3> QED BY <1>2, <3>1, <3>2, <3>3
  <2> QED BY <2>1, <2>2, QuitOutcome DEF OutcomeInv
<1>3. CASE OpProcess /\ UNCHANGED <<request, sandbox, confined, results>>
  <2>1. CASE NextStage
    <3>1. UNCHANGED <<env, exit>> /\ replied' \in BOOLEAN
      BY <2>1, NextOfStage DEF NextStage
    <3>2. UNCHANGED malformed /\ rc' \in {rc, "failed"}
      BY <2>1, NextOfStage DEF Fail
    <3> QED BY <1>3, <3>1, <3>2 DEF OutcomeInv
  <2>2. CASE ParseOutput \/ OpenInput \/ WriteHeader
    <3>1. UNCHANGED <<env, exit, replied>> /\ rc' \in {rc, "failed"} /\ malformed' \in {malformed, TRUE}
      <4>1. CASE ParseOutput
        BY <4>1 DEF ParseOutput, Fail, Step
      <4>2. CASE OpenInput \/ WriteHeader
        <5>1. Fail \/ Step
          <6> HIDE DEF Fail, Step, Refused, Unconsumed, Set, Tagged, LeftByOpen, LeftByLibav
          <6> QED BY <4>2 DEF OpenInput, WriteHeader
        <5> QED BY <4>2, <5>1 DEF OpenInput, WriteHeader, Fail, Step
      <4> QED BY <2>2, <4>1, <4>2
    <3> QED BY <1>3, <3>1 DEF OutcomeInv
  <2>3. CASE \/ AddDescriptor \/ AddSource \/ AddSink \/ OpenEncoder \/ SetupCopy \/ SetupSub
             \/ Packet \/ WriteTrailer \/ CallFails
    <3>1. UNCHANGED <<env, exit, replied, malformed>> /\ rc' \in {rc, "failed"}
      BY <2>3, WorkCases DEF Fail
    <3> QED BY <1>3, <3>1 DEF OutcomeInv
  <2>4. CASE LoopEnds
    BY <1>3, <2>4 DEF LoopEnds, OutcomeInv
  <2>5. CASE Cleanup
    <3>1. UNCHANGED <<env, rc, malformed, replied>> /\ exit' \in 0..3
      BY <2>5 DEF Cleanup, Code
    <3> QED BY <1>3, <3>1 DEF OutcomeInv
  <2> QED BY <1>3, <2>1, <2>2, <2>3, <2>4, <2>5 DEF OpProcess
<1>4. CASE UNCHANGED vars
  BY <1>4 DEF vars, jobVars, OutcomeInv
<1> QED BY <1>1, <1>2, <1>3, <1>4 DEF Next

TypeInv ==
  ClosedInv /\ RecordInv /\ ArraysInv /\ MuxInv /\ live \subseteq Files /\ OutcomeInv

LEMMA TypeInvInit == Init => TypeInv
<1> SUFFICES ASSUME Init PROVE TypeInv
  OBVIOUS
<1>1. ArraysInv
  <2>1. Holds(<<>>, MaxGin) /\ Holds(<<>>, MaxGout) /\ Holds(<<>>, MaxCpy) /\ Holds(<<>>, MaxSub)
    <3>1. <<>> \in Seq({}) /\ Len(<<>>) = 0
      OBVIOUS
    <3> QED BY <3>1, JobAssumption DEF Holds
  <2> QED BY <2>1, JobAssumption DEF Init, ArraysInv
<1>2. MuxInv
  BY DEF Init, MuxInv, Muxer
<1>3. OutcomeInv
  <2>1. PICK r \in Requests : request = r[1]
    BY DEF Init
  <2>2. DOMAIN request = {"args", "json", "version", "op"}
    BY <2>1, DriverAssumption
  <2> QED BY <2>2 DEF Init, OutcomeInv
<1> QED BY <1>1, <1>2, <1>3, ClosedInvInit, RecordInvInit DEF TypeInv, Init

\* Every variable keeps its type: in particular the arrays of Ctx never hold more
\* than they have room for, and only files the job names are open.
THEOREM TypeCorrect == Spec => []TypeOK
<1>1. TypeInv /\ [Next]_vars => TypeInv'
  BY ClosedInvNext, RecordInvNext, ArraysInvNext, MuxInvNext, LiveInvNext, OutcomeInvNext DEF TypeInv
<1>2. TypeInv => TypeOK
  <2> SUFFICES ASSUME TypeInv PROVE TypeOK
    OBVIOUS
  <2>1. pc \in ToSet(Stages) \cup {"install", "gate", "probe", "out"}
    BY DEF TypeInv, ClosedInv, PlaceInv
  <2>2. /\ nIn \in 0..MaxInputs /\ nOut \in 0..MaxOutputs
        /\ Len(gin) <= MaxGin /\ Len(gout) <= MaxGout /\ Len(cpy) <= MaxCpy /\ Len(sub) <= MaxSub
    BY DEF TypeInv, ArraysInv, Holds
  <2>3. \A j \in DOMAIN mux : mux[j].at \in {"none", "header", "trailer"}
    BY DEF TypeInv, MuxInv, Muxer
  <2>4. prog.fd \in {"none", "open", "broken"}
    BY DEF TypeInv, RecordInv, RecordsOf, Emitter
  <2> QED BY <2>1, <2>2, <2>3, <2>4 DEF TypeInv, OutcomeInv, Files, TypeOK
<1> QED BY <1>1, <1>2, TypeInvInit, PTL DEF Spec

-----------------------------------------------------------------------------
(* The outcome *)

\* A request that is read, and is for this engine.
Readable(r) == r.args = "job" /\ r.json /\ ~VersionUnreadable(r.version) /\ ~TooNew(r.version)

\* An output that parse_output rejects, if it comes to it.
Misformed(j) == j <= MaxOutputs /\ ~Outputs[j].wellFormed

NoOutput   == \A j \in DOMAIN Outputs : Out(j) \notin opened
AllWritten == \A j \in DOMAIN Outputs : mux[j].at = "trailer"

RequestInv ==
  /\ request.version \in [is : {"absent", "null", "number", "other"}, twice : Int]
  /\ DOMAIN mux = DOMAIN Outputs

StartInv ==
  pc \in {"install", "gate"} =>
    rc = "ok" /\ malformed = FALSE /\ replied = FALSE /\ results = <<>> /\ NoOutput

\* A probe has an entry for each input it has gone through, all of them rightly asked.
ProbeInv ==
  pc = "probe" =>
    /\ Readable(request) /\ request.op = "probe" /\ NoOutput
    /\ \E m \in 0..Len(Inputs) :
         /\ todo = Rest(Len(Inputs), m) /\ Len(results) = m /\ \E S : results \in Seq(S)
         /\ \A k \in 1..m : ~Misasked(Inputs[k])

\* A malformed output is known as such once it has been come to, and the job then ends
\* before anything is opened; a job that reaches its end otherwise, and without a
\* failure, comes there from its last trailer, and replies.
StageInv ==
  pc \in ToSet(Stages) =>
    /\ Readable(request) /\ request.op = "process"
    /\ Inputs # <<>> /\ Outputs # <<>> /\ results = <<>>
    /\ pc # "end" => malformed = FALSE /\ replied = FALSE
    /\ pc = "parse" => NoOutput /\ \A j \in 1..nOut : ~Misformed(j)
    /\ pc \notin {"parse", "end"} => \A j \in DOMAIN Outputs : ~Misformed(j)
    /\ pc = "trailer" => \E m \in 0..Len(Outputs) :
         /\ todo = Rest(Len(Outputs), m)
         /\ rc = "ok" => \A j \in 1..m : mux[j].at = "trailer"
    /\ pc = "end" =>
         /\ malformed <=> \E j \in DOMAIN Outputs : Misformed(j)
         /\ malformed => NoOutput
         /\ replied <=> rc = "ok" /\ ~malformed
         /\ replied => AllWritten
         /\ exit # Running => exit = Code

OverInv == pc = "out" => exit \in 0..3 /\ OutcomeHonest

VerdictInv == RequestInv /\ StartInv /\ ProbeInv /\ StageInv /\ OverInv

LEMMA VerdictInit == Init => VerdictInv
<1> SUFFICES ASSUME Init PROVE VerdictInv
  OBVIOUS
<1>1. PICK r \in Requests : request = r[1] /\ job = r[2]
  BY DEF Init
<1>2. request.version \in [is : {"absent", "null", "number", "other"}, twice : Int]
  BY <1>1, DriverAssumption
<1>3. DOMAIN mux = DOMAIN Outputs
  BY DEF Init, Outputs
<1>4. pc = "install" /\ rc = "ok" /\ malformed = FALSE /\ replied = FALSE /\ results = <<>> /\ NoOutput
  BY DEF Init, NoOutput
<1> QED BY <1>2, <1>3, <1>4, StageNames DEF VerdictInv, RequestInv, StartInv, ProbeInv, StageInv, OverInv

\* What is wrong with a request, where the driver gets to look.
LEMMA WrongCases ==
  ASSUME RequestInv, request.args = "job"
  PROVE  /\ ~request.json \/ VersionUnreadable(request.version) => Wrong(request)
         /\ request.json /\ ~VersionUnreadable(request.version) /\ TooNew(request.version) => ~Wrong(request)
         /\ Readable(request) =>
              /\ request.op \in {"version", "frames"} => ~Wrong(request)
              /\ request.op = "probe" => (Wrong(request) <=> \E i \in ToSet(Inputs) : Misasked(i))
              /\ request.op = "process" =>
                   (Wrong(request) <=> Inputs = <<>> \/ Outputs = <<>> \/ \E j \in DOMAIN Outputs : Misformed(j))
              /\ request.op \notin {"version", "frames", "probe", "process"} => Wrong(request)
<1> DEFINE v == request.version
<1>1. VersionUnreadable(v) <=> \/ v.is = "other"
                               \/ v.is = "number" /\ v.twice \notin {2 * n : n \in 0..MaxInt}
  <2>1. v.twice \in Int /\ MaxInt \in Nat
    BY DriverAssumption DEF RequestInv
  <2>2. ASSUME NEW x \in Int
        PROVE  (x % 2 # 0 \/ x \notin 0..(2 * MaxInt)) <=> x \notin {2 * n : n \in 0..MaxInt}
    <3>1. ASSUME x \in {2 * n : n \in 0..MaxInt} PROVE x % 2 = 0 /\ x \in 0..(2 * MaxInt)
      BY <2>1, <3>1
    <3>2. ASSUME x % 2 = 0, x \in 0..(2 * MaxInt) PROVE x \in {2 * n : n \in 0..MaxInt}
      <4>1. x \div 2 \in 0..MaxInt /\ x = 2 * (x \div 2)
        BY <2>1, <3>2
      <4> QED BY <4>1
    <3> QED BY <3>1, <3>2
  <2> HIDE DEF v
  <2> QED BY <2>1, <2>2 DEF VersionUnreadable
<1> HIDE DEF v
<1>2. Wrong(request) <=>
        \/ ~request.json
        \/ VersionUnreadable(v)
        \/ ~TooNew(v) /\
             CASE request.op = "probe" -> \E i \in ToSet(Inputs) : Misasked(i)
               [] request.op = "process" ->
                    Inputs = <<>> \/ Outputs = <<>> \/ \E j \in DOMAIN Outputs : Misformed(j)
               [] OTHER -> request.op \notin {"version", "frames"}
  BY <1>1 DEF Wrong, Misformed, v
<1> QED BY <1>2 DEF Readable, v

LEMMA WrongStays == ASSUME UNCHANGED <<request, job>> PROVE Wrong(request)' <=> Wrong(request)
  BY DEF Wrong, Misasked, InBounds, Inputs, Outputs

\* Leaving with a code and, where the driver says so, a reply.
LEMMA QuitVerdict ==
  ASSUME VerdictInv, NEW code \in 0..3, Quit(code), UNCHANGED <<request, job, mux>>,
         request.args = "job" /\ request.op # "frames" => (code = 2 <=> Wrong(request)),
         code = 3 => TooNew(request.version),
         NoOutput, UNCHANGED opened,
         code = 0 => results' = <<>> \/ Len(results') = Len(Inputs)
  PROVE  VerdictInv'
<1>1. pc' = "out" /\ exit' = code /\ replied' = (code = 0) /\ UNCHANGED <<Inputs, Outputs>>
  BY DEF Quit, Inputs, Outputs
<1>2. Wrong(request)' <=> Wrong(request)
  BY WrongStays
<1>3. TooNew(request.version)' <=> TooNew(request.version)
  BY DEF TooNew
<1>4. \A j \in DOMAIN Outputs' : Out(j)' \notin opened'
  BY <1>1 DEF NoOutput, Out
<1>5. OutcomeHonest'
  BY <1>1, <1>2, <1>3, <1>4 DEF OutcomeHonest
<1> QED BY <1>1, <1>5, StageNames DEF VerdictInv, RequestInv, StartInv, ProbeInv, StageInv, OverInv

LEMMA GateVerdict == ASSUME ClosedInv, VerdictInv, Gate PROVE VerdictInv'
<1>1. /\ pc = "gate" /\ results = <<>> /\ NoOutput /\ malformed = FALSE /\ replied = FALSE
      /\ UNCHANGED <<request, job, opened, mux, nOut, rc, malformed, results, Inputs, Outputs>>
  BY DEF Gate, fileVars, libavVars, Inputs, Outputs, VerdictInv, StartInv
<1>2. ASSUME NEW code \in 0..3, Quit(code),
             request.args = "job" /\ request.op # "frames" => (code = 2 <=> Wrong(request)),
             code = 3 => TooNew(request.version)
      PROVE  VerdictInv'
  BY <1>1, <1>2, QuitVerdict
<1>3. CASE request.args # "job"
  <2>1. \E code \in 0..1 : Quit(code)
    <3> HIDE DEF Quit
    <3> QED BY <1>3 DEF Gate
  <2> QED BY <1>2, <1>3, <2>1
<1>4. CASE request.args = "job" /\ (~request.json \/ VersionUnreadable(request.version))
  <2>1. Quit(2)
    <3> HIDE DEF Quit, VersionUnreadable
    <3> QED BY <1>4 DEF Gate
  <2> QED BY <1>2, <1>4, <2>1, WrongCases DEF VerdictInv
<1>5. CASE request.args = "job" /\ request.json /\ ~VersionUnreadable(request.version) /\ TooNew(request.version)
  <2>1. Quit(3)
    <3> HIDE DEF Quit, VersionUnreadable, TooNew
    <3> QED BY <1>5 DEF Gate
  <2> QED BY <1>2, <1>5, <2>1, WrongCases DEF VerdictInv
<1>6. CASE Readable(request)
  <2> DEFINE stay == UNCHANGED <<replied, exit>>
  <2>1. CASE request.op = "version"
    <3>1. Quit(0)
      <4> HIDE DEF Quit, VersionUnreadable, TooNew
      <4> QED BY <1>6, <2>1 DEF Gate, Readable
    <3> QED BY <1>2, <1>6, <2>1, <3>1, WrongCases DEF VerdictInv
  <2>2. CASE request.op = "frames"
    <3>1. \E code \in 0..2 : Quit(code)
      <4> HIDE DEF Quit, VersionUnreadable, TooNew
      <4> QED BY <1>6, <2>2 DEF Gate, Readable
    <3> QED BY <1>2, <2>2, <3>1
  <2>3. CASE request.op = "probe"
    <3>1. pc' = "probe" /\ todo' = Indices(Inputs) /\ stay
      <4> HIDE DEF Quit, VersionUnreadable, TooNew
      <4> QED BY <1>6, <2>3 DEF Gate, Readable
    <3>2. Len(Inputs)' = Len(Inputs) /\ Len(Inputs) \in Nat /\ Indices(Inputs) = Rest(Len(Inputs), 0)
      BY <1>1, IndicesAre, Lengths DEF ClosedInv, JobInv
    <3>3. ProbeInv'
      <4>1. /\ Readable(request)' /\ (request.op = "probe")' /\ NoOutput'
        BY <1>1, <1>6, <2>3 DEF Readable, VersionUnreadable, TooNew, NoOutput, Out
      <4>2. /\ 0 \in 0..Len(Inputs)' /\ todo' = Rest(Len(Inputs)', 0) /\ Len(results') = 0
            /\ results' \in Seq({})
        BY <1>1, <3>1, <3>2
      <4>3. \A k \in 1..0 : ~Misasked(Inputs'[k])
        OBVIOUS
      <4> QED BY <4>1, <4>2, <4>3 DEF ProbeInv, Misasked, InBounds
    <3> QED BY <1>1, <3>1, <3>3, StageNames DEF VerdictInv, RequestInv, StartInv, StageInv, OverInv
  <2>4. CASE request.op = "process" /\ Inputs # <<>> /\ Outputs # <<>>
    <3>1. pc' = "parse" /\ stay
      <4> HIDE DEF Quit, VersionUnreadable, TooNew
      <4> QED BY <1>6, <2>4 DEF Gate, Readable
    <3>2. nOut = 0
      BY <1>1 DEF ClosedInv, PlaceInv
    <3>3. StageInv'
      <4>1. /\ Readable(request)' /\ NoOutput'
        BY <1>1, <1>6, <2>3 DEF Readable, VersionUnreadable, TooNew, NoOutput, Out
      <4>2. \A j \in 1..nOut' : ~Misformed(j)'
        BY <1>1, <3>2
      <4> QED BY <1>1, <2>4, <3>1, <4>1, <4>2 DEF StageInv
    <3> QED BY <1>1, <3>1, <3>3, StageNames DEF VerdictInv, RequestInv, StartInv, ProbeInv, OverInv
  <2>5. CASE \/ request.op \notin {"version", "frames", "probe", "process"}
             \/ request.op = "process" /\ (Inputs = <<>> \/ Outputs = <<>>)
    <3>1. Quit(2)
      <4> HIDE DEF Quit, VersionUnreadable, TooNew
      <4> QED BY <1>6, <2>5 DEF Gate, Readable
    <3>2. Wrong(request)
      BY <1>6, <2>5, WrongCases DEF VerdictInv, Readable
    <3> QED BY <1>2, <3>1, <3>2
  <2> QED BY <2>1, <2>2, <2>3, <2>4, <2>5
<1> QED BY <1>3, <1>4, <1>5, <1>6 DEF Readable

LEMMA ProbeVerdict == ASSUME ClosedInv, VerdictInv, ProbeInput \/ ProbeReply PROVE VerdictInv'
<1>1. /\ pc = "probe" /\ Readable(request) /\ request.op = "probe" /\ NoOutput
      /\ UNCHANGED <<request, job, mux, nOut, rc, malformed, Inputs, Outputs>>
  BY DEF ProbeInput, ProbeReply, fileVars, libavVars, Inputs, Outputs, VerdictInv, ProbeInv
<1>2. PICK m \in 0..Len(Inputs) :
        /\ todo = Rest(Len(Inputs), m) /\ Len(results) = m /\ \E S : results \in Seq(S)
        /\ \A k \in 1..m : ~Misasked(Inputs[k])
  BY <1>1 DEF VerdictInv, ProbeInv
<1>3. Wrong(request) <=> \E i \in ToSet(Inputs) : Misasked(i)
  BY <1>1, WrongCases DEF VerdictInv, Readable
<1>4. Len(Inputs) \in Nat /\ DOMAIN Inputs = 1..Len(Inputs) /\ ToSet(Inputs) = {Inputs[k] : k \in 1..Len(Inputs)}
  BY DEF ClosedInv, JobInv, ToSet
<1>5. CASE ProbeReply
  <2>1. todo = <<>> /\ Quit(0) /\ UNCHANGED <<results, opened>>
    BY <1>5 DEF ProbeReply, fileVars
  <2>2. m = Len(Inputs)
    BY <1>2, <1>4, <2>1, RestFacts
  <2>3. ~Wrong(request) /\ Len(results) = Len(Inputs)
    BY <1>2, <1>3, <1>4, <2>2
  <2> QED BY <1>1, <2>1, <2>3, QuitVerdict
<1>6. CASE ProbeInput
  <2>1. m < Len(Inputs) /\ todo[1] = m + 1 /\ Tail(todo) = Rest(Len(Inputs), m + 1) /\ m \in Nat
    BY <1>2, <1>4, <1>6, NextOne DEF ProbeInput
  <2>2. CASE Misasked(Inputs[m + 1])
    <3>1. Quit(2) /\ UNCHANGED <<opened, results>>
      <4> HIDE DEF Quit, Misasked, Set, LeftByOpen, LeftByAfio
      <4> QED BY <1>6, <2>1, <2>2 DEF ProbeInput
    <3>2. Wrong(request)
      <4>1. Inputs[m + 1] \in ToSet(Inputs)
        BY <1>4, <2>1
      <4> QED BY <1>3, <2>2, <4>1
    <3> QED BY <1>1, <3>1, <3>2, QuitVerdict
  <2>3. CASE ~Misasked(Inputs[m + 1])
    <3>1. /\ pc' = pc /\ todo' = Tail(todo) /\ \E what \in {"error", "streams"} : results' = Append(results, what)
          /\ opened' = opened \/ opened' = opened \cup {In(m + 1)}
      <4> HIDE DEF Quit, Misasked, Set, LeftByOpen, LeftByAfio, In
      <4> QED BY <1>6, <2>1, <2>3 DEF ProbeInput
    <3>2. Len(results') = m + 1 /\ \E S : results' \in Seq(S)
      <4>1. PICK S : results \in Seq(S)
        BY <1>2
      <4>2. PICK what \in {"error", "streams"} : results' = Append(results, what)
        BY <3>1
      <4>3. results \in Seq(S \cup {"error", "streams"})
        BY <4>1
      <4> QED BY <1>2, <4>2, <4>3, <2>1
    <3>3. NoOutput'
      BY <1>1, <3>1 DEF NoOutput, In, Out
    <3>4. \A k \in 1..(m + 1) : ~Misasked(Inputs[k])
      BY <1>2, <2>1, <2>3
    <3>5. \A k \in 1..(m + 1) : ~Misasked(Inputs'[k])
      BY <1>1, <3>4
    <3>6. Readable(request)' /\ (request.op = "probe")'
      BY <1>1 DEF Readable, VersionUnreadable, TooNew
    <3>7. /\ m + 1 \in 0..Len(Inputs)' /\ todo' = Rest(Len(Inputs)', m + 1)
      BY <1>1, <1>4, <2>1, <3>1
    <3>8. ProbeInv'
      BY <3>2, <3>3, <3>5, <3>6, <3>7 DEF ProbeInv
    <3> QED BY <1>1, <3>1, <3>8, StageNames DEF VerdictInv, RequestInv, StartInv, StageInv, OverInv
  <2> QED BY <2>2, <2>3
<1> QED BY <1>5, <1>6

\* A step of the job that leaves the request as it is.
LEMMA StageVerdict ==
  ASSUME VerdictInv, UNCHANGED <<request, job, results>>, DOMAIN mux' = DOMAIN mux,
         pc \in ToSet(Stages), pc' \in ToSet(Stages),
         /\ pc' # "end" => malformed' = FALSE /\ replied' = FALSE
         /\ pc' = "parse" => NoOutput' /\ \A j \in 1..nOut' : ~Misformed(j)
         /\ pc' \notin {"parse", "end"} => \A j \in DOMAIN Outputs : ~Misformed(j)
         /\ pc' = "trailer" => \E m \in 0..Len(Outputs) :
              /\ todo' = Rest(Len(Outputs), m)
              /\ rc' = "ok" => \A j \in 1..m : mux'[j].at = "trailer"
         /\ pc' = "end" =>
              /\ malformed' <=> \E j \in DOMAIN Outputs : Misformed(j)
              /\ malformed' => NoOutput'
              /\ replied' <=> rc' = "ok" /\ ~malformed'
              /\ replied' => AllWritten'
              /\ exit' # Running => exit' = Code'
  PROVE  VerdictInv'
<1>1. UNCHANGED <<Inputs, Outputs>> /\ \A j : Misformed(j)' <=> Misformed(j)
  BY DEF Inputs, Outputs, Misformed
<1>2. Readable(request)' /\ (request.op = "process")' /\ Inputs' # <<>> /\ Outputs' # <<>> /\ results' = <<>>
  BY <1>1 DEF VerdictInv, StageInv, Readable, VersionUnreadable, TooNew
<1>3. StageInv'
  BY <1>1, <1>2 DEF StageInv
<1> QED BY <1>1, <1>3, StageNames DEF VerdictInv, RequestInv, StartInv, ProbeInv, OverInv

\* Giving up, with everything parsed or what is parsed well formed.
LEMMA FailVerdict ==
  ASSUME ClosedInv, VerdictInv, pc \in ToSet(Stages), pc # "end", Fail, UNCHANGED <<request, job, results, exit>>,
         DOMAIN mux' = DOMAIN mux, replied' = FALSE,
         \A j \in DOMAIN Outputs : ~Misformed(j)
  PROVE  VerdictInv'
<1>1. pc' = "end" /\ rc' = "failed" /\ malformed' = FALSE
  BY DEF Fail, VerdictInv, StageInv
<1>2. exit' = Running
  BY StageNames DEF ClosedInv, FilesInv
<1> QED BY <1>1, <1>2, StageVerdict, StageNames

\* Where the outputs are all parsed, none of them is misformed.
LEMMA Parsed ==
  ASSUME ClosedInv, VerdictInv, pc \in ToSet(Stages) \ {"end"}, pc = "parse" => todo = <<>>
  PROVE  \A j \in DOMAIN Outputs : ~Misformed(j)
<1>1. CASE pc = "parse"
  <2>1. todo = Rest(Len(Outputs), nOut) /\ nOut \in 0..Len(Outputs) /\ DOMAIN Outputs = 1..Len(Outputs)
    BY <1>1 DEF ClosedInv, PlaceInv, JobInv
  <2>2. nOut = Len(Outputs)
    BY <1>1, <2>1, Lengths, RestFacts
  <2> QED BY <1>1, <2>1, <2>2, StageNames DEF VerdictInv, StageInv
<1>2. CASE pc # "parse"
  BY <1>2 DEF VerdictInv, StageInv
<1> QED BY <1>1, <1>2

LEMMA NextStageVerdict == ASSUME ClosedInv, VerdictInv, NextStage, UNCHANGED <<request, results>> PROVE VerdictInv'
<1>1. /\ todo = <<>> /\ pc \in ToSet(Stages) \ {"run", "end"} /\ UNCHANGED <<job, mux, opened, nOut, exit>>
      /\ replied' = (pc = "trailer" /\ rc = "ok") /\ UNCHANGED <<Inputs, Outputs>>
  BY NextOfStage DEF NextStage, libavVars, fileVars, Inputs, Outputs
<1>2. \A j \in DOMAIN Outputs : ~Misformed(j)
  BY <1>1, Parsed
<1>3. CASE ~Passes(pc)
  <2>1. Fail
    <3> HIDE DEF Fail, Passes, Work
    <3> QED BY <1>3, Zenon DEF NextStage
  <2>2. pc # "trailer"
    BY <1>3 DEF Passes
  <2> QED BY <1>1, <1>2, <2>1, <2>2, FailVerdict
<1>4. CASE Passes(pc)
  <2>1. pc' = Following(pc) /\ UNCHANGED <<rc, malformed>>
    <3>1. ~Fail \/ Passes(pc)
      BY <1>4
    <3>2. UNCHANGED <<rc, malformed>>
      <4> HIDE DEF Fail, Passes, Work, ProgressOpen
      <4> QED BY <1>4, Zenon DEF NextStage
    <3>3. pc' = Following(pc)
      <4> DEFINE at == CHOOSE n \in DOMAIN Stages : Stages[n] = pc
      <4>1. pc' = Stages[at + 1]
        <5> HIDE DEF Fail, Passes, Work, ProgressOpen
        <5> QED BY <1>4, Zenon DEF NextStage
      <4>2. at \in DOMAIN Stages /\ Stages[at] = pc
        BY <1>1 DEF ToSet
      <4> HIDE DEF at
      <4>3. at \in 1..12
        BY <4>2, StageNames
      <4> QED BY <1>1, <4>1, <4>2, <4>3 DEF Stages, Following
    <3> QED BY <3>2, <3>3
  <2>2. malformed = FALSE /\ exit = Running
    BY <1>1, StageNames DEF VerdictInv, StageInv, ClosedInv, FilesInv
  <2>3. CASE pc = "trailer"
    <3>1. pc' = "end"
      BY <2>1, <2>3 DEF Following
    <3>2. rc = "ok" => AllWritten
      <4>1. PICK m \in 0..Len(Outputs) :
              todo = Rest(Len(Outputs), m) /\ (rc = "ok" => \A j \in 1..m : mux[j].at = "trailer")
        BY <1>1, <2>3 DEF VerdictInv, StageInv
      <4>2. m = Len(Outputs) /\ DOMAIN Outputs = 1..Len(Outputs)
        BY <1>1, <4>1, Lengths, RestFacts DEF ClosedInv, JobInv
      <4> QED BY <4>1, <4>2 DEF AllWritten
    <3>3. AllWritten' <=> AllWritten
      BY <1>1 DEF AllWritten
    <3> QED BY <1>1, <1>2, <2>1, <2>2, <2>3, <3>1, <3>2, <3>3, StageNames, StageVerdict
  <2>4. CASE pc # "trailer"
    <3>1. pc' \in ToSet(Stages) \ {"parse", "trailer", "end"} /\ replied' = FALSE
      BY <1>1, <2>1, <2>4, StageNames DEF Following
    <3> QED BY <1>1, <1>2, <2>1, <2>2, <3>1, StageVerdict
  <2> QED BY <2>3, <2>4
<1> QED BY <1>3, <1>4

LEMMA ParseOutputVerdict == ASSUME ClosedInv, VerdictInv, ParseOutput, UNCHANGED <<request, results>> PROVE VerdictInv'
<1>1. /\ pc = "parse" /\ todo # <<>> /\ UNCHANGED <<job, mux, opened, exit, replied>> /\ UNCHANGED <<Inputs, Outputs>>
  BY DEF ParseOutput, Doing, libavVars, Inputs, Outputs
<1>2. /\ malformed = FALSE /\ replied = FALSE /\ exit = Running /\ NoOutput
      /\ \A j \in 1..nOut : ~Misformed(j)
  BY <1>1, StageNames DEF VerdictInv, StageInv, ClosedInv, FilesInv
<1>3. /\ todo[1] = nOut + 1 /\ nOut \in Nat /\ nOut < Len(Outputs) /\ Len(Outputs) \in Nat
      /\ DOMAIN Outputs = 1..Len(Outputs) /\ MaxOutputs \in Nat
  <2>1. todo = Rest(Len(Outputs), nOut) /\ nOut \in 0..Len(Outputs)
    BY <1>1 DEF ClosedInv, PlaceInv
  <2>2. Len(Outputs) \in Nat /\ DOMAIN Outputs = 1..Len(Outputs)
    BY DEF ClosedInv, JobInv
  <2>3. todo[1] = nOut + 1 /\ nOut < Len(Outputs)
    BY <1>1, <2>1, <2>2, NextOne
  <2>4. MaxOutputs \in Nat
    BY JobAssumption
  <2> QED BY <2>1, <2>2, <2>3, <2>4
<1>4. CASE nOut >= MaxOutputs
  <2>1. Fail
    BY <1>4 DEF ParseOutput
  <2>2. \A j \in DOMAIN Outputs : ~Misformed(j)
    BY <1>2, <1>3, <1>4 DEF Misformed
  <2> QED BY <1>1, <1>2, <2>1, <2>2, StageNames, FailVerdict
<1>5. CASE ~(nOut >= MaxOutputs) /\ ~Outputs[todo[1]].wellFormed
  <2>1. malformed' = TRUE /\ pc' = "end" /\ UNCHANGED <<rc, nOut>>
    BY <1>5 DEF ParseOutput
  <2>2. Misformed(nOut + 1) /\ nOut + 1 \in DOMAIN Outputs
    BY <1>3, <1>5 DEF Misformed
  <2>3. NoOutput'
    BY <1>1, <1>2 DEF NoOutput, Out
  <2> QED BY <1>1, <1>2, <2>1, <2>2, <2>3, StageNames, StageVerdict
<1>6. CASE ~(nOut >= MaxOutputs) /\ Outputs[todo[1]].wellFormed
  <2>1. Step /\ nOut' = nOut + 1
    BY <1>6 DEF ParseOutput
  <2>2. \A j \in 1..nOut' : ~Misformed(j)
    BY <1>2, <1>3, <1>6, <2>1 DEF Misformed
  <2>3. NoOutput'
    BY <1>1, <1>2 DEF NoOutput, Out
  <2> QED BY <1>1, <1>2, <2>1, <2>2, <2>3, StageNames, StageVerdict DEF Step
<1> QED BY <1>4, <1>5, <1>6

\* Between the parsing and the trailers.
LEMMA WorkVerdict ==
  ASSUME ClosedInv, VerdictInv, UNCHANGED <<request, job, results, replied, exit>>, DOMAIN mux' = DOMAIN mux,
         pc \in ToSet(Stages) \ {"parse", "trailer", "end"},
         Fail \/ (pc' = pc /\ UNCHANGED malformed)
  PROVE  VerdictInv'
<1>1. (\A j \in DOMAIN Outputs : ~Misformed(j)) /\ malformed = FALSE /\ replied = FALSE
  BY DEF VerdictInv, StageInv
<1>2. CASE Fail
  BY <1>1, <1>2, FailVerdict
<1>3. CASE pc' = pc /\ UNCHANGED malformed
  BY <1>1, <1>3, StageVerdict
<1> QED BY <1>2, <1>3

LEMMA WriteTrailerVerdict == ASSUME ClosedInv, MuxInv, VerdictInv, WriteTrailer, UNCHANGED <<request, results>> PROVE VerdictInv'
<1>1. /\ pc = "trailer" /\ todo # <<>> /\ pc' = pc /\ todo' = Tail(todo)
      /\ UNCHANGED <<job, opened, exit, replied, malformed, Inputs, Outputs>>
      /\ \/ mux' = [mux EXCEPT ![todo[1]].at = "trailer"] /\ UNCHANGED rc
         \/ rc' = "failed" /\ UNCHANGED mux
  BY DEF WriteTrailer, Doing, fileVars, Inputs, Outputs
<1>2. malformed = FALSE /\ replied = FALSE /\ (\A j \in DOMAIN Outputs : ~Misformed(j))
  BY <1>1, StageNames DEF VerdictInv, StageInv
<1>3. PICK m \in 0..Len(Outputs) :
        todo = Rest(Len(Outputs), m) /\ (rc = "ok" => \A j \in 1..m : mux[j].at = "trailer")
  BY <1>1, StageNames DEF VerdictInv, StageInv
<1>4. m \in Nat /\ m < Len(Outputs) /\ todo[1] = m + 1 /\ Tail(todo) = Rest(Len(Outputs), m + 1)
  BY <1>1, <1>3, Lengths, NextOne
<1>5. DOMAIN mux = 1..Len(Outputs) /\ Len(Outputs) \in Nat
  BY DEF VerdictInv, RequestInv, ClosedInv, JobInv
<1>6. rc' = "ok" => \A j \in 1..(m + 1) : mux'[j].at = "trailer"
  <2> SUFFICES ASSUME rc' = "ok", NEW j \in 1..(m + 1) PROVE mux'[j].at = "trailer"
    OBVIOUS
  <2>1. rc = "ok" /\ mux' = [mux EXCEPT ![m + 1].at = "trailer"] /\ m + 1 \in DOMAIN mux /\ j \in DOMAIN mux
    BY <1>1, <1>4, <1>5
  <2>2. CASE j = m + 1
    <3>1. mux'[j] = [mux[j] EXCEPT !.at = "trailer"]
      BY <2>1, <2>2
    <3>2. Muxer(mux[j])
      BY <2>1 DEF MuxInv
    <3> QED BY <3>1, <3>2 DEF Muxer
  <2>3. CASE j # m + 1
    BY <1>3, <1>4, <2>1, <2>3
  <2> QED BY <2>2, <2>3
<1>7. m + 1 \in 0..Len(Outputs) /\ todo' = Rest(Len(Outputs), m + 1) /\ DOMAIN mux' = DOMAIN mux
  BY <1>1, <1>4, <1>5
<1>8. \E n \in 0..Len(Outputs) :
        todo' = Rest(Len(Outputs), n) /\ (rc' = "ok" => \A j \in 1..n : mux'[j].at = "trailer")
  BY <1>6, <1>7
<1> QED BY <1>1, <1>2, <1>7, <1>8, StageNames, StageVerdict

LEMMA LoopEndsVerdict == ASSUME ClosedInv, VerdictInv, LoopEnds, UNCHANGED <<request, results>> PROVE VerdictInv'
<1>1. /\ pc = "run" /\ pc' = "trailer" /\ todo' = Work("trailer")
      /\ UNCHANGED <<job, mux, opened, exit, replied, malformed>>
  BY DEF LoopEnds, fileVars, libavVars
<1>2. malformed = FALSE /\ replied = FALSE /\ (\A j \in DOMAIN Outputs : ~Misformed(j))
  BY <1>1, StageNames DEF VerdictInv, StageInv
<1>3. \E m \in 0..Len(Outputs) :
        todo' = Rest(Len(Outputs), m) /\ (rc' = "ok" => \A j \in 1..m : mux'[j].at = "trailer")
  <2>1. todo' = Rest(Len(Outputs), 0) /\ 0 \in 0..Len(Outputs)
    BY <1>1, IndicesAre DEF Work, ClosedInv, JobInv
  <2> QED BY <2>1
<1> QED BY <1>1, <1>2, <1>3, StageNames, StageVerdict

LEMMA CleanupVerdict == ASSUME ClosedInv, VerdictInv, Cleanup, UNCHANGED <<request, results>> PROVE VerdictInv'
<1>1. /\ pc = "end" /\ pc' = "end" /\ UNCHANGED <<job, mux, opened, replied, malformed, rc, Inputs, Outputs>>
      /\ exit' = Code
  BY DEF Cleanup, libavVars, Inputs, Outputs
<1>2. /\ malformed <=> \E j \in DOMAIN Outputs : Misformed(j)
      /\ malformed => NoOutput
      /\ replied <=> rc = "ok" /\ ~malformed
      /\ replied => AllWritten
  BY <1>1, StageNames DEF VerdictInv, StageInv
<1>3. Code' = Code /\ (NoOutput' <=> NoOutput) /\ (AllWritten' <=> AllWritten)
  BY <1>1 DEF Code, NoOutput, AllWritten, Out
<1> QED BY <1>1, <1>2, <1>3, StageNames, StageVerdict

LEMMA VerdictInvNext == ASSUME ClosedInv, MuxInv, VerdictInv, [Next]_vars PROVE VerdictInv'
<1>1. CASE UNCHANGED vars
  BY <1>1 DEF vars, jobVars, fileVars, libavVars, VerdictInv, RequestInv, StartInv, ProbeInv, StageInv, OverInv,
              OutcomeHonest, NoOutput, AllWritten, Misformed, Misasked, Readable, VersionUnreadable, TooNew,
              Inputs, Outputs, Out, Wrong, Code
<1>2. CASE Install
  <2>1. /\ pc = "install" /\ pc' = "gate"
        /\ UNCHANGED <<request, results, job, rc, malformed, mux, opened, replied, exit>>
    BY <1>2 DEF Install, fileVars, libavVars
  <2> QED BY <2>1, StageNames DEF VerdictInv, RequestInv, StartInv, ProbeInv, StageInv, OverInv, NoOutput, Out, Outputs
<1>3. CASE Gate \/ ProbeInput \/ ProbeReply
  BY <1>3, GateVerdict, ProbeVerdict
<1>4. CASE OpProcess /\ UNCHANGED <<request, sandbox, confined, results>>
  <2>1. CASE NextStage \/ ParseOutput \/ LoopEnds \/ WriteTrailer \/ Cleanup
    BY <1>4, <2>1, NextStageVerdict, ParseOutputVerdict, LoopEndsVerdict, WriteTrailerVerdict, CleanupVerdict
  <2>2. CASE AddDescriptor \/ AddSource \/ AddSink \/ OpenEncoder \/ SetupCopy \/ SetupSub \/ Packet \/ CallFails
    <3>1. /\ pc \in {"map", "source", "sink", "encode", "copy", "sub", "run", "trailer"} /\ pc # "trailer"
          /\ UNCHANGED <<job, replied, exit>> /\ (Fail \/ UNCHANGED <<pc, malformed>>)
      <4>1. pc # "trailer"
        BY <2>2 DEF AddDescriptor, AddSource, AddSink, OpenEncoder, SetupCopy, SetupSub, Packet, CallFails, Doing
      <4> QED BY <2>2, <4>1, WorkCases
    <3>2. DOMAIN mux' = DOMAIN mux
      <4>1. CASE OpenEncoder \/ SetupCopy \/ SetupSub
        BY <4>1, MuxSteps
      <4>2. CASE AddDescriptor \/ AddSource \/ AddSink \/ Packet \/ CallFails
        BY <4>2 DEF AddDescriptor, AddSource, AddSink, Packet, CallFails, libavVars
      <4> QED BY <2>2, <4>1, <4>2
    <3> QED BY <1>4, <3>1, <3>2, StageNames, WorkVerdict
  <2>3. CASE OpenInput \/ WriteHeader
    <3>1. /\ pc \in {"open", "header"} /\ UNCHANGED <<job, replied, exit>> /\ (Fail \/ UNCHANGED <<pc, malformed>>)
      <4>1. Fail \/ Step
        <5> HIDE DEF Fail, Step, Refused, Unconsumed, Set, Tagged, LeftByOpen, LeftByLibav
        <5> QED BY <2>3 DEF OpenInput, WriteHeader
      <4> QED BY <2>3, <4>1 DEF OpenInput, WriteHeader, Doing, Step
    <3>2. DOMAIN mux' = DOMAIN mux
      <4>1. CASE OpenInput
        BY <4>1 DEF OpenInput, libavVars
      <4>2. CASE WriteHeader
        BY <4>2, MuxSteps
      <4> QED BY <2>3, <4>1, <4>2
    <3> QED BY <1>4, <3>1, <3>2, StageNames, WorkVerdict
  <2> QED BY <1>4, <2>1, <2>2, <2>3 DEF OpProcess
<1> QED BY <1>1, <1>2, <1>3, <1>4 DEF Next

\* The exit code says what happened, for every request and whatever fails: 2 exactly when
\* there is something to mend in it, 3 when it is for a newer engine, and neither after an
\* output was touched; 0 exactly with a reply, and then every output has its trailer and
\* every input of a probe its entry (main, op_process; docs/reference/errors.md).
THEOREM OutcomeIsHonest == Spec => []OutcomeHonest
<1>1. Init => ClosedInv /\ MuxInv /\ OutcomeInv /\ VerdictInv
  BY TypeInvInit, VerdictInit DEF TypeInv
<1>2. ClosedInv /\ MuxInv /\ OutcomeInv /\ VerdictInv /\ [Next]_vars
      => (ClosedInv /\ MuxInv /\ OutcomeInv /\ VerdictInv)'
  BY ClosedInvNext, MuxInvNext, OutcomeInvNext, VerdictInvNext
<1>3. ClosedInv /\ OutcomeInv /\ VerdictInv => OutcomeHonest
  <2> SUFFICES ASSUME ClosedInv, OutcomeInv, VerdictInv, exit # Running PROVE OutcomeHonest
    BY DEF OutcomeHonest
  <2>1. CASE pc = "out"
    BY <2>1 DEF VerdictInv, OverInv
  <2>2. CASE pc = "end"
    <3>1. /\ malformed <=> \E j \in DOMAIN Outputs : Misformed(j)
          /\ malformed => NoOutput
          /\ replied <=> rc = "ok" /\ ~malformed
          /\ replied => AllWritten
          /\ exit = Code /\ results = <<>>
          /\ Readable(request) /\ request.op = "process" /\ Inputs # <<>> /\ Outputs # <<>>
      BY <2>2, StageNames DEF VerdictInv, StageInv
    <3>2. /\ exit \in 0..2 /\ (exit = 2 <=> malformed) /\ (exit = 0 <=> rc = "ok" /\ ~malformed)
      BY <3>1 DEF Code, OutcomeInv
    <3>3. Wrong(request) <=> malformed
      BY <3>1, WrongCases DEF VerdictInv, Readable
    <3> QED BY <3>1, <3>2, <3>3 DEF OutcomeHonest, NoOutput, AllWritten
  <2> QED BY <2>1, <2>2 DEF ClosedInv, FilesInv
<1> QED BY <1>1, <1>2, <1>3, PTL DEF Spec

-----------------------------------------------------------------------------
(* Lists without repetitions *)

\* A list that has nothing twice.
Proper(s) == IsList(s) /\ IsInjective(s)

\* What a list is made of.
LEMMA ListIs ==
  ASSUME NEW s
  PROVE  /\ IsList(s) => Len(s) \in Nat /\ DOMAIN s = 1..Len(s) /\ ToSet(s) = {s[n] : n \in 1..Len(s)}
         /\ \A S : s \in Seq(S) => IsList(s) /\ ToSet(s) \subseteq S
<1>1. ASSUME IsList(s)
      PROVE  Len(s) \in Nat /\ DOMAIN s = 1..Len(s) /\ ToSet(s) = {s[n] : n \in 1..Len(s)}
  BY <1>1 DEF IsList, ToSet
<1>2. ASSUME NEW S, s \in Seq(S)
      PROVE  IsList(s) /\ ToSet(s) \subseteq S
  <2>1. Len(s) \in Nat /\ DOMAIN s = 1..Len(s) /\ \A n \in 1..Len(s) : s[n] \in S
    BY <1>2
  <2>2. ToSet(s) = {s[n] : n \in 1..Len(s)}
    BY <2>1 DEF ToSet
  <2>3. s = [n \in 1..Len(s) |-> s[n]]
    BY <1>2
  <2>4. [n \in 1..Len(s) |-> s[n]] \in Seq(ToSet(s))
    BY <2>1, <2>2
  <2> QED BY <2>1, <2>2, <2>3, <2>4 DEF IsList
<1> QED BY <1>1, <1>2

\* The empty list has nothing twice.
LEMMA EmptyIsProper == Proper(<<>>) /\ ToSet(<<>>) = {}
  BY DEF Proper, IsList, IsInjective, ToSet

\* An empty list has no members, and only it.
LEMMA EmptyIs == ASSUME NEW s, IsList(s), ToSet(s) = {} PROVE s = <<>>
<1>1. Len(s) = 0
  BY ListIs
<1> QED BY <1>1 DEF IsList

\* The tail of a list without repetitions is without its head.
LEMMA TailIs ==
  ASSUME NEW s, Proper(s), s # <<>>
  PROVE  /\ s[1] \in ToSet(s) /\ Proper(Tail(s)) /\ ToSet(Tail(s)) = ToSet(s) \ {s[1]}
<1>1. PICK S : s \in Seq(S)
  BY DEF Proper, IsList
<1>2. /\ Len(s) \in Nat /\ Len(s) # 0 /\ DOMAIN s = 1..Len(s) /\ ToSet(s) = {s[n] : n \in 1..Len(s)}
      /\ \A m, n \in 1..Len(s) : s[m] = s[n] => m = n
  BY <1>1, ListIs DEF Proper, IsInjective
<1> DEFINE t == Tail(s)
<1>3. t \in Seq(S) /\ Len(t) = Len(s) - 1 /\ \A n \in 1..(Len(s) - 1) : t[n] = s[n + 1]
  BY <1>1, <1>2
<1> HIDE DEF t
<1>4. DOMAIN t = 1..(Len(s) - 1) /\ IsList(t) /\ ToSet(t) = {t[n] : n \in 1..(Len(s) - 1)}
  BY <1>3, ListIs
<1>5. IsInjective(t)
  BY <1>2, <1>3, <1>4 DEF IsInjective
<1>6. ToSet(t) \subseteq ToSet(s) \ {s[1]}
  BY <1>2, <1>3, <1>4
<1>7. ASSUME NEW x \in ToSet(s), x # s[1] PROVE x \in ToSet(t)
  <2>1. PICK n \in 1..Len(s) : x = s[n]
    BY <1>2
  <2>2. n - 1 \in 1..(Len(s) - 1) /\ t[n - 1] = s[n]
    BY <1>2, <1>3, <1>7, <2>1
  <2> QED BY <1>4, <2>1, <2>2
<1>8. s[1] \in ToSet(s)
  BY <1>2
<1> QED BY <1>4, <1>5, <1>6, <1>7, <1>8 DEF t, Proper

\* The same of a list that may have repetitions.
LEMMA TailWithin ==
  ASSUME NEW s, IsList(s), s # <<>>
  PROVE  s[1] \in ToSet(s) /\ IsList(Tail(s)) /\ ToSet(s) = ToSet(Tail(s)) \cup {s[1]}
<1>1. PICK S : s \in Seq(S)
  BY DEF IsList
<1>2. Len(s) \in Nat /\ Len(s) # 0 /\ DOMAIN s = 1..Len(s) /\ ToSet(s) = {s[n] : n \in 1..Len(s)}
  BY <1>1, ListIs
<1> DEFINE t == Tail(s)
<1>3. t \in Seq(S) /\ Len(t) = Len(s) - 1 /\ \A n \in 1..(Len(s) - 1) : t[n] = s[n + 1]
  BY <1>1, <1>2
<1> HIDE DEF t
<1>4. DOMAIN t = 1..(Len(s) - 1) /\ IsList(t) /\ ToSet(t) = {t[n] : n \in 1..(Len(s) - 1)}
  BY <1>3, ListIs
<1>5. ToSet(t) \subseteq ToSet(s) /\ s[1] \in ToSet(s)
  BY <1>2, <1>3, <1>4
<1>6. ASSUME NEW x \in ToSet(s), x # s[1] PROVE x \in ToSet(t)
  <2>1. PICK n \in 1..Len(s) : x = s[n]
    BY <1>2
  <2>2. n - 1 \in 1..(Len(s) - 1) /\ t[n - 1] = s[n]
    BY <1>2, <1>3, <1>6, <2>1
  <2> QED BY <1>4, <2>1, <2>2
<1> QED BY <1>4, <1>5, <1>6 DEF t

\* One element more at the end.
LEMMA AppendIs ==
  ASSUME NEW s, IsList(s), NEW x
  PROVE  /\ IsList(Append(s, x)) /\ ToSet(Append(s, x)) = ToSet(s) \cup {x}
         /\ DOMAIN Append(s, x) = 1..(Len(s) + 1)
         /\ Append(s, x)[Len(s) + 1] = x /\ \A n \in 1..Len(s) : Append(s, x)[n] = s[n]
         /\ IsInjective(s) /\ x \notin ToSet(s) => IsInjective(Append(s, x))
<1>1. /\ s \in Seq(ToSet(s) \cup {x}) /\ Len(s) \in Nat /\ DOMAIN s = 1..Len(s)
      /\ ToSet(s) = {s[n] : n \in 1..Len(s)}
  <2>1. s \in Seq(ToSet(s))
    BY DEF IsList
  <2> QED BY <2>1, ListIs
<1> DEFINE t == Append(s, x)
<1>2. /\ t \in Seq(ToSet(s) \cup {x}) /\ Len(t) = Len(s) + 1
      /\ t[Len(s) + 1] = x /\ \A n \in 1..Len(s) : t[n] = s[n]
  BY <1>1
<1> HIDE DEF t
<1>3. IsList(t) /\ DOMAIN t = 1..(Len(s) + 1) /\ ToSet(t) = {t[n] : n \in 1..(Len(s) + 1)}
  BY <1>1, <1>2, ListIs
<1>4. ToSet(t) = ToSet(s) \cup {x}
  <2>1. ToSet(t) \subseteq ToSet(s) \cup {x}
    BY <1>2, ListIs
  <2>2. ASSUME NEW y \in ToSet(s) PROVE y \in ToSet(t)
    <3>1. PICK n \in 1..Len(s) : y = s[n]
      BY <1>1
    <3>2. n \in 1..(Len(s) + 1) /\ t[n] = y
      BY <1>1, <1>2, <3>1
    <3> QED BY <1>3, <3>2
  <2>3. x \in ToSet(t)
    BY <1>1, <1>2, <1>3
  <2> QED BY <2>1, <2>2, <2>3
<1>5. ASSUME IsInjective(s), x \notin ToSet(s) PROVE IsInjective(t)
  <2>1. \A m, n \in 1..Len(s) : s[m] = s[n] => m = n
    BY <1>1, <1>5 DEF IsInjective
  <2>2. \A n \in 1..Len(s) : s[n] # x
    BY <1>1, <1>5
  <2>3. ASSUME NEW m \in 1..(Len(s) + 1), NEW n \in 1..(Len(s) + 1), t[m] = t[n] PROVE m = n
    BY <1>1, <1>2, <2>1, <2>2, <2>3
  <2> QED BY <1>3, <2>3 DEF IsInjective
<1> QED BY <1>2, <1>3, <1>4, <1>5 DEF t

\* Two lists that share nothing, one after the other.
LEMMA ConcatIs ==
  ASSUME NEW a, NEW b, Proper(a), Proper(b), ToSet(a) \cap ToSet(b) = {}
  PROVE  Proper(a \o b) /\ ToSet(a \o b) = ToSet(a) \cup ToSet(b)
<1> DEFINE S == ToSet(a) \cup ToSet(b)
           L == Len(a)
           M == Len(b)
           c == a \o b
<1>1. /\ a \in Seq(S) /\ L \in Nat /\ DOMAIN a = 1..L /\ ToSet(a) = {a[n] : n \in 1..L}
      /\ b \in Seq(S) /\ M \in Nat /\ DOMAIN b = 1..M /\ ToSet(b) = {b[n] : n \in 1..M}
  <2>1. a \in Seq(ToSet(a)) /\ b \in Seq(ToSet(b))
    BY DEF Proper, IsList
  <2> QED BY <2>1, ListIs DEF Proper
<1>2. /\ c \in Seq(S) /\ Len(c) = L + M
      /\ \A n \in 1..L : c[n] = a[n]
      /\ \A n \in 1..M : c[L + n] = b[n]
  BY <1>1
<1> HIDE DEF c, L, M, S
<1>3. IsList(c) /\ DOMAIN c = 1..(L + M) /\ ToSet(c) = {c[n] : n \in 1..(L + M)} /\ ToSet(c) \subseteq S
  BY <1>1, <1>2, ListIs
<1>4. \A n \in 1..(L + M) : (n \in 1..L /\ c[n] = a[n]) \/ (n - L \in 1..M /\ c[n] = b[n - L])
  <2> SUFFICES ASSUME NEW n \in 1..(L + M), n \notin 1..L PROVE n - L \in 1..M /\ c[n] = b[n - L]
    BY <1>2
  <2>1. n - L \in 1..M /\ L + (n - L) = n
    BY <1>1
  <2> QED BY <1>2, <2>1
<1>5. S \subseteq ToSet(c)
  <2>1. ASSUME NEW n \in 1..L PROVE a[n] \in ToSet(c)
    <3>1. n \in 1..(L + M)
      BY <1>1
    <3> QED BY <1>2, <1>3, <3>1
  <2>2. ASSUME NEW n \in 1..M PROVE b[n] \in ToSet(c)
    <3>1. L + n \in 1..(L + M)
      BY <1>1
    <3> QED BY <1>2, <1>3, <3>1
  <2> QED BY <1>1, <2>1, <2>2 DEF S
<1>6. IsInjective(c)
  <2>1. /\ \A m, n \in 1..L : a[m] = a[n] => m = n
        /\ \A m, n \in 1..M : b[m] = b[n] => m = n
        /\ \A m \in 1..L, n \in 1..M : a[m] # b[n]
    <3>1. \A m, n \in 1..L : a[m] = a[n] => m = n
      BY <1>1 DEF Proper, IsInjective
    <3>2. \A m, n \in 1..M : b[m] = b[n] => m = n
      BY <1>1 DEF Proper, IsInjective
    <3>3. \A m \in 1..L, n \in 1..M : a[m] # b[n]
      <4>1. \A m \in 1..L, n \in 1..M : a[m] \in ToSet(a) /\ b[n] \in ToSet(b)
        BY <1>1
      <4> QED BY <4>1
    <3> QED BY <3>1, <3>2, <3>3
  <2>2. ASSUME NEW m \in 1..(L + M), NEW n \in 1..(L + M), c[m] = c[n] PROVE m = n
    <3>1. CASE m \in 1..L /\ c[m] = a[m]
      BY <1>1, <1>4, <2>1, <2>2, <3>1
    <3>2. CASE m - L \in 1..M /\ c[m] = b[m - L]
      <4>1. n - L \in 1..M /\ c[n] = b[n - L]
        BY <1>4, <2>1, <2>2, <3>2
      <4>2. m - L = n - L
        BY <2>1, <2>2, <3>2, <4>1
      <4> QED BY <1>1, <4>2
    <3> QED BY <1>4, <3>1, <3>2
  <2> QED BY <1>3, <2>2 DEF IsInjective
<1> QED BY <1>3, <1>5, <1>6 DEF Proper, c, S

\* A list of lists that share nothing, one after the other.
LEMMA FlatIs ==
  ASSUME NEW ss, IsList(ss), \A n \in DOMAIN ss : Proper(ss[n]),
         \A m, n \in DOMAIN ss : m # n => ToSet(ss[m]) \cap ToSet(ss[n]) = {}
  PROVE  Proper(FlattenSeq(ss)) /\ ToSet(FlattenSeq(ss)) = UNION {ToSet(ss[n]) : n \in DOMAIN ss}
<1> DEFINE L == Len(ss)
           Is(g, N) == g = [i \in 1..N |-> IF i = 1 THEN ss[i] ELSE g[i-1] \o ss[i]]
<1>1. L \in Nat /\ DOMAIN ss = 1..L
  BY ListIs
<1>2. CASE L = 0
  <2>1. ss = <<>> /\ FlattenSeq(ss) = ss
    BY <1>2 DEF IsList, FlattenSeq
  <2>2. UNION {ToSet(ss[n]) : n \in DOMAIN ss} = {}
    BY <1>1, <1>2
  <2> QED BY <2>1, <2>2, EmptyIsProper
<1>3. CASE L # 0
  <2> DEFINE Q == {N \in Nat : \E g : Is(g, N)}
  <2>1. 0 \in Q
    <3>1. Is([i \in 1..0 |-> <<>>], 0)
      OBVIOUS
    <3> QED BY <3>1
  <2>2. ASSUME NEW N \in Nat, N \in Q
        PROVE  N + 1 \in Q
    <3>1. PICK g : Is(g, N)
      BY <2>2
    <3> DEFINE h == [i \in 1..(N+1) |-> IF i <= N THEN g[i] ELSE IF i = 1 THEN ss[i] ELSE g[i-1] \o ss[i]]
    <3>2. \A i \in 1..N : g[i] = IF i = 1 THEN ss[i] ELSE g[i-1] \o ss[i]
      BY <3>1
    <3>3. ASSUME NEW i \in 1..(N+1)
          PROVE  h[i] = IF i = 1 THEN ss[i] ELSE h[i-1] \o ss[i]
      <4>1. i <= N => h[i] = g[i]
        OBVIOUS
      <4>2. i # 1 => h[i-1] = g[i-1]
        OBVIOUS
      <4> QED BY <3>2, <4>1, <4>2
    <3>4. Is(h, N+1)
      BY <3>3
    <3>5. \E g1 : Is(g1, N+1)
      <4> HIDE DEF h, Is
      <4> QED BY <3>4
    <3> HIDE DEF Is
    <3> QED BY <3>5
  <2>3. \E g : Is(g, L)
    <3> HIDE DEF Q
    <3>1. Nat \subseteq Q
      BY <2>1, <2>2, SetInduction
    <3> QED BY <1>1, <3>1 DEF Q
  <2>4. Is(CHOOSE g : Is(g, L), L)
    BY <2>3
  <2> DEFINE f == CHOOSE g : Is(g, L)
  <2>5. FlattenSeq(ss) = f[L]
    BY <1>3 DEF FlattenSeq
  <2>6. Is(f, L)
    BY <2>4
  <2> HIDE DEF f
  <2>7. \A i \in 1..L : f[i] = IF i = 1 THEN ss[i] ELSE f[i-1] \o ss[i]
    BY <2>6
  <2> DEFINE All(i) == UNION {ToSet(ss[n]) : n \in 1..i}
             R == {i \in Nat : i \in 1..L => Proper(f[i]) /\ ToSet(f[i]) = All(i)}
  <2>8. 0 \in R
    OBVIOUS
  <2>9. ASSUME NEW i \in Nat, i \in R
        PROVE  i + 1 \in R
    <3> SUFFICES ASSUME i + 1 \in 1..L
                 PROVE  Proper(f[i + 1]) /\ ToSet(f[i + 1]) = All(i + 1)
      OBVIOUS
    <3>1. Proper(ss[i + 1]) /\ All(i + 1) = All(i) \cup ToSet(ss[i + 1])
      BY <1>1
    <3>2. CASE i = 0
      <4>1. f[i + 1] = ss[i + 1] /\ All(i) = {}
        BY <2>7, <3>2
      <4> QED BY <3>1, <4>1
    <3>3. CASE i # 0
      <4>1. i \in 1..L /\ f[i + 1] = f[i] \o ss[i + 1]
        <5>1. i \in 1..L /\ (i + 1) - 1 = i /\ i + 1 # 1
          BY <1>1, <3>3
        <5>2. f[i + 1] = f[(i + 1) - 1] \o ss[i + 1]
          BY <2>7, <5>1
        <5> QED BY <5>1, <5>2
      <4>2. Proper(f[i]) /\ ToSet(f[i]) = All(i)
        BY <2>9, <4>1
      <4>3. All(i) \cap ToSet(ss[i + 1]) = {}
        BY <1>1
      <4> HIDE DEF All
      <4>4. Proper(f[i] \o ss[i + 1]) /\ ToSet(f[i] \o ss[i + 1]) = ToSet(f[i]) \cup ToSet(ss[i + 1])
        BY <3>1, <4>2, <4>3, ConcatIs
      <4> QED BY <3>1, <4>1, <4>2, <4>4
    <3> QED BY <3>2, <3>3
  <2>10. L \in R
    <3> HIDE DEF R
    <3>1. Nat \subseteq R
      BY <2>8, <2>9, SetInduction
    <3> QED BY <1>1, <3>1
  <2> QED BY <1>1, <1>3, <2>5, <2>10
<1> QED BY <1>2, <1>3

-----------------------------------------------------------------------------
(* What the maps ask for *)

\* The entries of all maps, each with its output.
AskedFor == UNION {{<<j, e>> : e \in Entries(j)} : j \in DOMAIN Outputs}

\* Which lane an entry is on, by what its output and its stream are.
How(q) == Lane(q[1], q[2]).how

\* The descriptor of an entry, the sink of a pad, and what they stand for.
DescOf(q) ==
  LET i == IF q[2].kind = "stream" THEN q[2].in ELSE 1 IN
  [in |-> i, st |-> Resolve(Inputs[i].streams, q[2].type, IF q[2].kind = "stream" THEN q[2].sel ELSE -1),
   out |-> q[1], key |-> q[2]]
SinkOf(p) == [label |-> p.label, type |-> p.type, out |-> OutputFor(p.label)]
OfDesc(c) == <<c.out, c.key>>
OfSink(g) == <<g.out, Pad(g.label)>>

Mapped   == {"source", "sink", "encode", "copy", "sub", "header", "run", "trailer"}
Sunk     == Mapped \ {"source", "sink"}

Descs(how, left) == {DescOf(q) : q \in {p \in AskedFor : p \notin left /\ How(p) = how}}

\* What has been gone through of the maps has its descriptors.
DescInv ==
  /\ pc \in {"map"} \cup Mapped =>
       LET left == IF pc = "map" THEN ToSet(todo) ELSE {} IN
       /\ Proper(cpy) /\ ToSet(cpy) = Descs("copy", left)
       /\ Proper(sub) /\ ToSet(sub) = Descs("sub", left)
  /\ pc = "map" => Proper(todo) /\ ToSet(todo) \subseteq ToSet(Work("map"))
  /\ pc \notin {"map", "end"} \cup Mapped => cpy = <<>> /\ sub = <<>>

\* Each pad gone through has its sink, at an output that asks for it.
SinkInv ==
  /\ pc \in {"sink"} \cup Sunk =>
       LET left == IF pc = "sink" THEN ToSet(todo) ELSE {} IN
       /\ Proper(gout) /\ ToSet(gout) = {SinkOf(p) : p \in ToSet(Graph(job).outs) \ left}
       /\ \A g \in ToSet(gout) : g.out # 0
  /\ pc = "sink" => Proper(todo) /\ ToSet(todo) \subseteq ToSet(Graph(job).outs)
  /\ pc \notin {"sink", "end"} \cup Sunk => gout = <<>>

\* A stream is as its entry asks.
RightStream(j, st) ==
  /\ st = [key |-> st.key, how |-> st.how, type |-> st.type, src |-> st.src, given |-> st.given,
           bsf |-> st.bsf, meta |-> st.meta]
  /\ [how |-> st.how, src |-> st.src] = Lane(j, st.key)
  /\ st.bsf <=> (st.key \in Outputs[j].bsf /\ st.how = "copy")
  /\ st.how # "copy" => st.given = Given(Outputs[j], st.type) /\ DOMAIN st.given \subseteq Knows[st.type]
  /\ st.how = "sub" => st.type = "s"
  /\ st.how = "encode" => \E p \in ToSet(Graph(job).outs) : st.key = Pad(p.label) /\ st.type = p.type

\* The entries that have their stream, and those that are still to get one.
Got  == UNION {{<<j, mux[j].streams[n].key>> : n \in DOMAIN mux[j].streams} : j \in DOMAIN mux}
Left ==
  CASE pc = "encode" -> {OfSink(g) : g \in ToSet(todo)}
                          \cup {OfDesc(c) : c \in ToSet(cpy)} \cup {OfDesc(c) : c \in ToSet(sub)}
    [] pc = "copy"   -> {OfDesc(c) : c \in ToSet(todo)} \cup {OfDesc(c) : c \in ToSet(sub)}
    [] pc = "sub"    -> {OfDesc(c) : c \in ToSet(todo)}
    [] OTHER         -> {}

\* The array a stage of streams goes through.
LaneOf == CASE pc = "encode" -> gout [] pc = "copy" -> cpy [] OTHER -> sub

\* Every stream is as its entry asks, and no entry has two.
StreamsRight ==
  /\ DOMAIN mux = DOMAIN Outputs
  /\ \A j \in DOMAIN mux :
       /\ IsList(mux[j].streams)
       /\ \A n \in DOMAIN mux[j].streams : RightStream(j, mux[j].streams[n])
       /\ \A m, n \in DOMAIN mux[j].streams :
            mux[j].streams[m].key = mux[j].streams[n].key => m = n

\* From the sinks on, each entry has its stream or is left for a stage to come.
StreamInv ==
  /\ StreamsRight
  /\ pc \notin {"end"} \cup Sunk => Got = {}
  /\ pc \in Sunk => Got \cup Left = AskedFor /\ Got \cap Left = {}
  /\ pc \in {"encode", "copy", "sub"} => Proper(todo) /\ ToSet(todo) \subseteq ToSet(LaneOf)

\* What op_process looks at on the way: the maps, the options no demuxer took, and
\* at each header the options of the muxer, when it has told the streams' metadata.
MapsGiven == Len(Outputs) > 1 => \A j \in DOMAIN Outputs : Outputs[j].map # <<>>

HeaderDone(j) ==
  /\ Outputs[j].opts["muxer"] \subseteq Knows["muxer"]
  /\ \A n \in DOMAIN mux[j].streams : mux[j].streams[n].meta <=> mux[j].streams[n].key \in Outputs[j].meta

MapsLooked == pc \in {"open", "map"} \cup Mapped => MapsGiven

OptionsLooked ==
  \A k \in DOMAIN Inputs :
    (pc = "open" /\ k \notin ToSet(todo)) \/ pc \in {"map"} \cup Mapped => ~Unconsumed(Inputs[k])

HeadersLooked ==
  \A j \in DOMAIN Outputs :
    (pc = "header" /\ j \notin ToSet(todo)) \/ pc \in {"run", "trailer"} => HeaderDone(j)

LookedInv == MapsLooked /\ OptionsLooked /\ HeadersLooked
-----------------------------------------------------------------------------

\* The pads of the graph are told apart by their labels.
LEMMA GraphPads ==
  ASSUME MapsClear(job)
  PROVE  /\ Proper(Graph(job).outs)
         /\ \A p, q \in ToSet(Graph(job).outs) : p.label = q.label => p = q
<1> DEFINE outs == Graph(job).outs
<1> SUFFICES IsList(outs) /\ \A m, n \in DOMAIN outs : outs[m].label = outs[n].label => m = n
  <2> HIDE DEF outs
  <2>1. IsInjective(outs)
    BY DEF IsInjective
  <2>2. \A p, q \in ToSet(outs) : p.label = q.label => p = q
    BY DEF ToSet
  <2> QED BY <2>1, <2>2 DEF Proper, outs
<1>1. CASE job.filter # <<>>
  BY <1>1 DEF Graph, MapsClear
<1>2. CASE job.filter = <<>>
  <2> DEFINE lane(t) == IF /\ Codec(job.outputs[1], t) \notin {"none", "copy"}
                           /\ Resolve(job.inputs[1].streams, t, -1) # 0
                          THEN <<t>> ELSE <<>>
             lanes == lane("v") \o lane("a")
             g == [k \in DOMAIN lanes |-> [label |-> lanes[k], type |-> lanes[k]]]
  <2>1. outs = g
    BY <1>2 DEF Graph
  <2>2. lane("v") \in {<<>>, <<"v">>} /\ lane("a") \in {<<>>, <<"a">>}
    <3> HIDE DEF Codec, Resolve
    <3> QED OBVIOUS
  <2> DEFINE S == {"v", "a"}
  <2>3. \/ lanes \in Seq(S) /\ Len(lanes) = 0
        \/ lanes \in Seq(S) /\ Len(lanes) = 1
        \/ lanes \in Seq(S) /\ Len(lanes) = 2 /\ lanes[1] = "v" /\ lanes[2] = "a"
    <3>1. /\ lane("v") \in Seq(S) /\ (Len(lane("v")) = 0 \/ (Len(lane("v")) = 1 /\ lane("v")[1] = "v"))
          /\ lane("a") \in Seq(S) /\ (Len(lane("a")) = 0 \/ (Len(lane("a")) = 1 /\ lane("a")[1] = "a"))
      <4>1. ASSUME NEW T, NEW x \in T
            PROVE  <<>> \in Seq(T) /\ <<x>> \in Seq(T) /\ Len(<<x>>) = 1 /\ <<x>>[1] = x
        OBVIOUS
      <4>2. Len(<<>>) = 0
        OBVIOUS
      <4> HIDE DEF lane
      <4>3. CASE lane("v") = <<>>
        BY <2>2, <4>1, <4>2, <4>3
      <4>4. CASE lane("v") = <<"v">>
        BY <2>2, <4>1, <4>2, <4>4
      <4> QED BY <2>2, <4>3, <4>4
    <3>2. ASSUME NEW T, NEW a \in Seq(T), NEW b \in Seq(T)
          PROVE  /\ a \o b \in Seq(T) /\ Len(a \o b) = Len(a) + Len(b)
                 /\ \A n \in 1..Len(a) : (a \o b)[n] = a[n]
                 /\ \A n \in 1..Len(b) : (a \o b)[Len(a) + n] = b[n]
      OBVIOUS
    <3> DEFINE a == lane("v")
               b == lane("a")
    <3>3. /\ lanes \in Seq(S) /\ Len(lanes) = Len(a) + Len(b)
          /\ \A n \in 1..Len(a) : lanes[n] = a[n]
          /\ \A n \in 1..Len(b) : lanes[Len(a) + n] = b[n]
      <4> HIDE DEF lane
      <4> QED BY <3>1, <3>2
    <3> HIDE DEF a, b, lanes
    <3>4. /\ Len(a) = 0 \/ (Len(a) = 1 /\ a[1] = "v")
          /\ Len(b) = 0 \/ (Len(b) = 1 /\ b[1] = "a")
      BY <3>1 DEF a, b
    <3> QED BY <3>3, <3>4
  <2> HIDE DEF lanes, S
  <2>4. Len(lanes) \in Nat /\ DOMAIN lanes = 1..Len(lanes)
    <3>1. lanes \in Seq(S)
      BY <2>3
    <3> QED BY <3>1
  <2>5. IsList(g) /\ DOMAIN g = 1..Len(lanes)
    <3>1. g \in Seq({g[k] : k \in DOMAIN lanes})
      BY <2>4
    <3> QED BY <2>4, <3>1, ListIs
  <2>6. \A m, n \in DOMAIN g : g[m].label = g[n].label => m = n
    BY <2>3, <2>4
  <2> QED BY <2>1, <2>5, <2>6
<1> QED BY <1>1, <1>2

\* What op_process goes through for output j.
Es(j) == IF Outputs[j].map = <<>> THEN {Default("v"), Default("a")} ELSE ToSet(Outputs[j].map)

\* The stage of the maps goes through the entries of all of them, each once.
LEMMA WorkMap ==
  ASSUME JobInv, MapsClear(job)
  PROVE  /\ Proper(Work("map"))
         /\ ToSet(Work("map")) = UNION {{<<j, e>> : e \in Es(j)} : j \in DOMAIN Outputs}
<1> DEFINE es(j) == IF Outputs[j].map = <<>> THEN <<Default("v"), Default("a")>> ELSE Outputs[j].map
           row(j) == [k \in DOMAIN es(j) |-> <<j, es(j)[k]>>]
           ss == [j \in DOMAIN Outputs |-> row(j)]
<1>1. Work("map") = FlattenSeq(ss)
  BY DEF Work
<1>2. ASSUME NEW j \in DOMAIN Outputs
      PROVE  Proper(es(j)) /\ ToSet(es(j)) = Es(j)
  <2>1. CASE Outputs[j].map = <<>>
    <3> DEFINE a == Default("v")
               b == Default("a")
    <3>1. a # b
      BY DEF Default
    <3>2. es(j) = <<a, b>>
      BY <2>1
    <3> HIDE DEF a, b
    <3>3. <<a, b>> \in Seq({a, b}) /\ DOMAIN <<a, b>> = {1, 2} /\ <<a, b>>[1] = a /\ <<a, b>>[2] = b
      OBVIOUS
    <3>4. IsInjective(<<a, b>>)
      BY <3>1, <3>3 DEF IsInjective
    <3>5. ToSet(<<a, b>>) = {a, b}
      BY <3>3 DEF ToSet
    <3> QED BY <2>1, <3>2, <3>3, <3>4, <3>5, ListIs DEF Proper, Es, a, b
  <2>2. CASE Outputs[j].map # <<>>
    BY <2>2 DEF MapsClear, Proper, Es, Outputs
  <2> QED BY <2>1, <2>2
<1> HIDE DEF es
<1>3. ASSUME NEW j \in DOMAIN Outputs
      PROVE  Proper(row(j)) /\ ToSet(row(j)) = {<<j, e>> : e \in Es(j)}
  <2> DEFINE s == es(j)
             r == row(j)
  <2>1. Len(s) \in Nat /\ DOMAIN s = 1..Len(s) /\ ToSet(s) = {s[n] : n \in 1..Len(s)} /\ IsInjective(s)
    BY <1>2, ListIs DEF Proper
  <2>2. r = [k \in DOMAIN s |-> <<j, s[k]>>]
    OBVIOUS
  <2>3. ToSet(s) = Es(j)
    BY <1>2
  <2> HIDE DEF r, s
  <2>4. r \in Seq({<<j, e>> : e \in Es(j)})
    BY <2>1, <2>2, <2>3
  <2>5. DOMAIN r = 1..Len(s) /\ \A k \in 1..Len(s) : r[k] = <<j, s[k]>>
    BY <2>1, <2>2
  <2>6. IsInjective(r)
    BY <2>1, <2>5 DEF IsInjective
  <2>7. ToSet(r) = {<<j, e>> : e \in Es(j)}
    <3>1. ToSet(r) = {r[k] : k \in 1..Len(s)}
      BY <2>5 DEF ToSet
    <3>2. ASSUME NEW e \in Es(j) PROVE <<j, e>> \in ToSet(r)
      <4>1. PICK n \in 1..Len(s) : e = s[n]
        BY <2>1, <2>3
      <4> QED BY <2>5, <3>1, <4>1
    <3>3. ASSUME NEW k \in 1..Len(s) PROVE r[k] \in {<<j, e>> : e \in Es(j)}
      <4>1. s[k] \in Es(j)
        BY <2>1, <2>3
      <4> QED BY <2>5, <4>1
    <3> QED BY <3>1, <3>2, <3>3
  <2> QED BY <2>4, <2>6, <2>7, ListIs DEF Proper, r
<1> HIDE DEF row
<1>4. IsList(ss) /\ DOMAIN ss = DOMAIN Outputs
  <2>1. Len(Outputs) \in Nat /\ DOMAIN Outputs = 1..Len(Outputs)
    BY DEF JobInv
  <2>2. ss \in Seq({row(j) : j \in DOMAIN Outputs})
    BY <2>1
  <2> QED BY <2>2, ListIs
<1>5. \A n \in DOMAIN ss : ss[n] = row(n)
  OBVIOUS
<1> HIDE DEF ss
<1>6. \A m, n \in DOMAIN ss : m # n => ToSet(ss[m]) \cap ToSet(ss[n]) = {}
  BY <1>3, <1>4, <1>5
<1>7. \A n \in DOMAIN ss : Proper(ss[n]) /\ ToSet(ss[n]) = {<<n, e>> : e \in Es(n)}
  BY <1>3, <1>4, <1>5
<1>8. Proper(FlattenSeq(ss)) /\ ToSet(FlattenSeq(ss)) = UNION {ToSet(ss[n]) : n \in DOMAIN ss}
  BY <1>4, <1>6, <1>7, FlatIs
<1> QED BY <1>1, <1>4, <1>7, <1>8

\* The kinds of entry there are.
LEMMA EntryKinds ==
  ASSUME MapsClear(job), NEW j \in DOMAIN Outputs, NEW e \in Es(j)
  PROVE  /\ IsPad(e) => Outputs[j].map # <<>> /\ e = Pad(e.name)
         /\ e.kind = "default" <=> Outputs[j].map = <<>>
         /\ Outputs[j].map = <<>> => e \in {Default("v"), Default("a")}
<1>1. CASE Outputs[j].map = <<>>
  BY <1>1 DEF Es, Default, IsPad
<1>2. CASE Outputs[j].map # <<>>
  <2>1. e \in ToSet(job.outputs[j].map) /\ j \in DOMAIN job.outputs
    BY <1>2 DEF Es, Outputs
  <2>2. e.kind # "default"
    BY <2>1 DEF MapsClear
  <2>3. ASSUME IsPad(e) PROVE \E p \in ToSet(Graph(job).outs) : e = Pad(p.label)
    BY <2>1, <2>3 DEF MapsClear
  <2>4. \A l : Pad(l) = Pad(Pad(l).name)
    BY DEF Pad
  <2> QED BY <1>2, <2>2, <2>3, <2>4
<1> QED BY <1>1, <1>2

\* An entry of a map is asked for; of what stands in for a map, what is copied.
LEMMA AskedOf ==
  ASSUME MapsClear(job), NEW j \in DOMAIN Outputs, NEW e \in Es(j)
  PROVE  <<j, e>> \in AskedFor <=>
           (e.kind = "default" => Codec(Outputs[j], e.type) = "copy" /\ Best(1, e.type) # 0)
<1>1. <<j, e>> \in AskedFor <=> e \in Entries(j)
  BY DEF AskedFor
<1>2. CASE Outputs[j].map = <<>>
  <2>1. PICK t \in {"v", "a"} : e = Default(t)
    BY <1>2 DEF Es
  <2>2. e.kind = "default" /\ e.type = t
    BY <2>1 DEF Default
  <2>3. \A l : e # Pad(l)
    BY <2>2 DEF Pad
  <2>4. \A u : e = Default(u) => u = t
    BY <2>1 DEF Default
  <2>5. Entries(j) = {Pad(p.label) : p \in ToSet(Graph(job).outs)}
                       \cup {Default(u) : u \in {v \in {"v", "a"} : Codec(Outputs[j], v) = "copy" /\ Best(1, v) # 0}}
    BY <1>2 DEF Entries
  <2>6. e \in Entries(j) <=> Codec(Outputs[j], t) = "copy" /\ Best(1, t) # 0
    <3> HIDE DEF Codec, Best, Entries
    <3> QED BY <2>1, <2>3, <2>4, <2>5
  <2> QED BY <1>1, <2>2, <2>6
<1>3. CASE Outputs[j].map # <<>>
  BY <1>1, <1>3, EntryKinds DEF Entries, Es
<1> QED BY <1>2, <1>3

\* The best stream of a type is of that type.
LEMMA ResolvedType ==
  ASSUME NEW streams, NEW t, t # "any", Resolve(streams, t, -1) # 0
  PROVE  streams[Resolve(streams, t, -1)] = t
<1> DEFINE before(k) == {j \in 1..(k - 1) : streams[j] = t}
           fits == {k \in DOMAIN streams : streams[k] = t /\ Cardinality(before(k)) = 0}
<1>1. Resolve(streams, t, -1) = IF fits = {} THEN 0 ELSE CHOOSE k \in fits : TRUE
  BY DEF Resolve
<1>2. fits # {} /\ Resolve(streams, t, -1) \in fits
  <2> HIDE DEF fits
  <2> QED BY <1>1
<1> QED BY <1>2

\* One entry of a map gets the descriptor it asks for, on the lane of its stream.
LEMMA OneDescriptor ==
  ASSUME MapsClear(job), AddDescriptor, NEW j \in DOMAIN Outputs, NEW e \in Es(j), todo[1] = <<j, e>>
  PROVE  /\ pc = "map" /\ todo # <<>> /\ UNCHANGED <<job, gin, gout, mux>>
         /\ \/ Fail
            \/ /\ Step
               /\ cpy' = (IF <<j, e>> \in AskedFor /\ How(<<j, e>>) = "copy"
                            THEN Append(cpy, DescOf(<<j, e>>)) ELSE cpy)
               /\ sub' = (IF <<j, e>> \in AskedFor /\ How(<<j, e>>) = "sub"
                            THEN Append(sub, DescOf(<<j, e>>)) ELSE sub)
<1> DEFINE i == IF e.kind = "stream" THEN e.in ELSE 1
           st == Resolve(Inputs[i].streams, e.type, IF e.kind = "stream" THEN e.sel ELSE -1)
           d == [in |-> i, st |-> st, out |-> j, key |-> e]
           transcoded == IsSub(e, Inputs[i].streams[st]) /\ Outputs[j].s \notin {"none", "copy"}
           q == <<j, e>>
<1>1. q[1] = j /\ q[2] = e /\ DescOf(q) = d /\ How(q) = Lane(j, e).how
  BY DEF DescOf, How
<1>2. pc = "map" /\ todo # <<>> /\ UNCHANGED <<job, gin, gout, mux>>
  BY DEF AddDescriptor, Doing
<1>3. \/ IsPad(e) /\ Step /\ UNCHANGED <<cpy, sub>>
      \/ /\ e.kind = "default" /\ (Codec(Outputs[j], e.type) # "copy" \/ st = 0)
         /\ Step /\ UNCHANGED <<cpy, sub>>
      \/ /\ e.kind = "default" /\ Codec(Outputs[j], e.type) = "copy" /\ st # 0
         /\ Step /\ cpy' = Append(cpy, d) /\ UNCHANGED sub
      \/ /\ ~IsPad(e) /\ e.kind # "default" /\ ~transcoded
         /\ Step /\ cpy' = Append(cpy, d) /\ UNCHANGED sub
      \/ /\ ~IsPad(e) /\ e.kind # "default" /\ transcoded
         /\ Step /\ sub' = Append(sub, d) /\ UNCHANGED cpy
      \/ Fail
  <2>1. todo[1][1] = j /\ todo[1][2] = e
    OBVIOUS
  <2> HIDE DEF Step, Fail, IsPad, Codec, Full, IsSub, Resolve
  <2>2. CASE IsPad(e)
    BY <2>1, <2>2 DEF AddDescriptor
  <2>3. CASE ~IsPad(e) /\ e.kind = "default"
    BY <2>1, <2>3 DEF AddDescriptor
  <2>4. CASE ~IsPad(e) /\ e.kind # "default"
    BY <2>1, <2>4 DEF AddDescriptor
  <2> QED BY <2>2, <2>3, <2>4
<1> HIDE DEF i, st, d, transcoded, q
<1>4. ASSUME e.kind = "default"
      PROVE  /\ st = Best(1, e.type)
             /\ q \in AskedFor <=> Codec(Outputs[j], e.type) = "copy" /\ st # 0
             /\ st # 0 => How(q) = "copy"
  <2>1. st = Best(1, e.type) /\ i = 1 /\ e.type \in {"v", "a"} /\ ~IsPad(e)
    BY <1>4, EntryKinds DEF st, i, Best, Default, IsPad
  <2>2. q \in AskedFor <=> Codec(Outputs[j], e.type) = "copy" /\ st # 0
    <3> HIDE DEF Codec
    <3> QED BY <1>4, <2>1, AskedOf DEF q
  <2>3. ASSUME st # 0 PROVE How(q) = "copy"
    <3>1. Inputs[1].streams[st] = e.type
      BY <2>1, <2>3, ResolvedType DEF Best
    <3>2. Lane(j, e).how = IF Inputs[i].streams[st] = "s" /\ Outputs[j].s \notin {"none", "copy"}
                             THEN "sub" ELSE "copy"
      BY <2>1 DEF Lane, st, i
    <3> QED BY <1>1, <2>1, <3>1, <3>2
  <2> QED BY <2>1, <2>2, <2>3
<1>5. ASSUME ~IsPad(e), e.kind # "default"
      PROVE  q \in AskedFor /\ How(q) = (IF transcoded THEN "sub" ELSE "copy")
  <2>1. Lane(j, e).how = IF Inputs[i].streams[st] = "s" /\ Outputs[j].s \notin {"none", "copy"}
                           THEN "sub" ELSE "copy"
    BY <1>5 DEF Lane, st, i
  <2> QED BY <1>1, <1>5, <2>1, AskedOf DEF q, transcoded, IsSub
<1>6. ASSUME IsPad(e) PROVE How(q) = "encode"
  BY <1>1, <1>6 DEF Lane
<1>7. "copy" # "sub" /\ "copy" # "encode" /\ "sub" # "encode"
  OBVIOUS
<1> HIDE DEF How, AskedFor, DescOf, Codec, Step, Fail
<1>8. \/ Fail
      \/ /\ Step
         /\ cpy' = (IF q \in AskedFor /\ How(q) = "copy" THEN Append(cpy, DescOf(q)) ELSE cpy)
         /\ sub' = (IF q \in AskedFor /\ How(q) = "sub" THEN Append(sub, DescOf(q)) ELSE sub)
  BY <1>1, <1>3, <1>4, <1>5, <1>6, <1>7
<1> QED BY <1>2, <1>8 DEF q

\* What the job alone decides stays as it is.
LEMMA JobStays ==
  ASSUME UNCHANGED job
  PROVE  /\ Inputs' = Inputs /\ Outputs' = Outputs /\ AskedFor' = AskedFor
         /\ Work("map")' = Work("map") /\ Graph(job)' = Graph(job)
         /\ \A how, left : Descs(how, left)' = Descs(how, left)
         /\ \A p : SinkOf(p)' = SinkOf(p)
         /\ \A j, st : RightStream(j, st)' = RightStream(j, st)
<1>1. Inputs' = Inputs /\ Outputs' = Outputs
  BY DEF Inputs, Outputs
<1>2. \A t, i : Best(i, t)' = Best(i, t)
  BY <1>1 DEF Best
<1>3. Graph(job)' = Graph(job)
  OBVIOUS
<1>4. \A j, e : Lane(j, e)' = Lane(j, e)
  BY <1>1 DEF Lane
<1>5. \A j : Entries(j)' = Entries(j)
  BY <1>1, <1>2, <1>3 DEF Entries
<1>6. AskedFor' = AskedFor
  BY <1>1, <1>5 DEF AskedFor
<1>7. \A q : DescOf(q)' = DescOf(q) /\ How(q)' = How(q)
  BY <1>1, <1>4 DEF DescOf, How
<1>8. \A how, left : Descs(how, left)' = Descs(how, left)
  BY <1>6, <1>7 DEF Descs
<1>9. Work("map")' = Work("map")
  BY <1>1 DEF Work
<1>10. \A p : SinkOf(p)' = SinkOf(p)
  BY <1>1 DEF SinkOf, OutputFor
<1>11. \A j, st : RightStream(j, st)' = RightStream(j, st)
  BY <1>1, <1>3, <1>4 DEF RightStream
<1> QED BY <1>1, <1>3, <1>6, <1>8, <1>9, <1>10, <1>11

\* A step of a job that goes on.
LEMMA GoingOn ==
  ASSUME [Next]_vars, pc' # "end"
  PROVE  /\ UNCHANGED job
         /\ \/ /\ UNCHANGED <<pc, todo, libavVars>>
            \/ /\ pc \in {"install", "gate", "probe"} /\ pc' \in {"gate", "probe", "out", "parse"}
               /\ UNCHANGED libavVars
            \/ /\ pc' = Following(pc) /\ pc \in ToSet(Stages) \ {"run", "end"}
               /\ todo = <<>> /\ todo' = Work(Following(pc)) /\ Passes(pc)
               /\ UNCHANGED libavVars
            \/ pc \in {"parse", "open"} /\ UNCHANGED <<pc, libavVars>> /\ todo # <<>> /\ todo' = Tail(todo)
            \/ AddDescriptor \/ AddSource \/ AddSink \/ OpenEncoder \/ SetupCopy \/ SetupSub
            \/ WriteHeader \/ WriteTrailer
            \/ pc = "run" /\ pc' = "trailer" /\ UNCHANGED libavVars
<1>1. CASE Install \/ ProbeInput \/ ProbeReply
  BY <1>1 DEF Install, ProbeInput, ProbeReply, Quit
<1>2. CASE Gate
  BY <1>2, GateCases
<1>3. CASE NextStage
  BY <1>3, NextOfStage DEF Fail
<1>4. CASE ParseOutput
  BY <1>4 DEF ParseOutput, Doing, Fail, Step
<1>5. CASE OpenInput
  <2>1. pc = "open" /\ UNCHANGED <<job, libavVars>> /\ todo # <<>> /\ (Fail \/ Step)
    <3> HIDE DEF Fail, Step, Refused, Unconsumed, Set, LeftByOpen, LeftByLibav
    <3> QED BY <1>5 DEF OpenInput, Doing
  <2> QED BY <2>1 DEF Fail, Step
<1>6. CASE \/ AddDescriptor \/ AddSource \/ AddSink \/ OpenEncoder \/ SetupCopy \/ SetupSub \/ WriteTrailer
  BY <1>6, WorkCases
<1>7. CASE WriteHeader
  BY <1>7 DEF WriteHeader
<1>8. CASE Packet \/ LoopEnds \/ CallFails \/ Cleanup
  BY <1>8 DEF Packet, LoopEnds, CallFails, Cleanup, Fail
<1>9. CASE UNCHANGED vars
  BY <1>9 DEF vars, jobVars
<1> QED BY <1>1, <1>2, <1>3, <1>4, <1>5, <1>6, <1>7, <1>8, <1>9 DEF Next, OpProcess

-----------------------------------------------------------------------------
(* Descriptors *)

\* A descriptor tells the entry it was made of.
LEMMA DescsGrow ==
  ASSUME NEW left, NEW q \in left, NEW how
  PROVE  /\ Descs(how, left \ {q}) = Descs(how, left) \cup
              (IF q \in AskedFor /\ How(q) = how THEN {DescOf(q)} ELSE {})
         /\ \A j, e : q = <<j, e>> => DescOf(q) \notin Descs(how, left)
<1>1. \A p : p \in AskedFor => p = <<p[1], p[2]>>
  BY DEF AskedFor
<1>2. \A p : DescOf(p).out = p[1] /\ DescOf(p).key = p[2]
  BY DEF DescOf
<1>3. ASSUME NEW j, NEW e, q = <<j, e>>, DescOf(q) \in Descs(how, left) PROVE FALSE
  <2>1. PICK p \in AskedFor : p \notin left /\ DescOf(p) = DescOf(q)
    BY <1>3 DEF Descs
  <2>2. p = <<p[1], p[2]>> /\ q = <<q[1], q[2]>> /\ p[1] = q[1] /\ p[2] = q[2]
    BY <1>1, <1>2, <1>3, <2>1
  <2>3. p = q
    BY <2>2
  <2> QED BY <2>1, <2>3
<1>4. Descs(how, left \ {q}) = Descs(how, left) \cup
              (IF q \in AskedFor /\ How(q) = how THEN {DescOf(q)} ELSE {})
  <2> HIDE DEF AskedFor, How, DescOf
  <2> QED BY DEF Descs
<1> QED BY <1>3, <1>4

\* A lane that takes the descriptor of the entry if it is for it, and no other.
LEMMA LaneGrows ==
  ASSUME NEW lane, NEW how, NEW left, NEW j, NEW e, <<j, e>> \in left,
         Proper(lane), ToSet(lane) = Descs(how, left)
  PROVE  IF <<j, e>> \in AskedFor /\ How(<<j, e>>) = how
           THEN /\ Proper(Append(lane, DescOf(<<j, e>>)))
                /\ ToSet(Append(lane, DescOf(<<j, e>>))) = Descs(how, left \ {<<j, e>>})
           ELSE Descs(how, left \ {<<j, e>>}) = Descs(how, left)
<1> DEFINE q == <<j, e>>
           d == DescOf(q)
<1>1. q \in left /\ q = <<j, e>>
  OBVIOUS
<1> HIDE DEF q
<1>2. /\ Descs(how, left \ {q}) = Descs(how, left) \cup
              (IF q \in AskedFor /\ How(q) = how THEN {d} ELSE {})
      /\ d \notin Descs(how, left)
  BY <1>1, DescsGrow
<1>3. Proper(Append(lane, d)) /\ ToSet(Append(lane, d)) = ToSet(lane) \cup {d}
  BY <1>2, AppendIs DEF Proper
<1> HIDE DEF d
<1>4. IF q \in AskedFor /\ How(q) = how
        THEN Proper(Append(lane, d)) /\ ToSet(Append(lane, d)) = Descs(how, left \ {q})
        ELSE Descs(how, left \ {q}) = Descs(how, left)
  BY <1>2, <1>3
<1> QED BY <1>4 DEF q, d

\* The stages with descriptors, and those with sinks, by name.
LEMMA StagesOfLanes ==
  /\ Mapped = {"source", "sink", "encode", "copy", "sub", "header", "run", "trailer"}
  /\ Sunk = {"encode", "copy", "sub", "header", "run", "trailer"}
  BY DEF Mapped, Sunk

\* One entry of a map gets its descriptor, and the invariant holds of the rest.
LEMMA AddDescriptorDescs == ASSUME JobInv, MapsClear(job), DescInv, AddDescriptor, pc' # "end" PROVE DescInv'
<1>1. pc = "map" /\ todo # <<>>
  BY DEF AddDescriptor, Doing
<1>2. /\ Proper(todo) /\ ToSet(todo) \subseteq ToSet(Work("map"))
      /\ Proper(cpy) /\ ToSet(cpy) = Descs("copy", ToSet(todo))
      /\ Proper(sub) /\ ToSet(sub) = Descs("sub", ToSet(todo))
  BY <1>1 DEF DescInv
<1>3. todo[1] \in ToSet(todo) /\ Proper(Tail(todo)) /\ ToSet(Tail(todo)) = ToSet(todo) \ {todo[1]}
  BY <1>1, <1>2, TailIs
<1>4. PICK j \in DOMAIN Outputs : \E e \in Es(j) : todo[1] = <<j, e>>
  BY <1>2, <1>3, WorkMap
<1>5. PICK e \in Es(j) : todo[1] = <<j, e>>
  BY <1>4
<1>6. /\ UNCHANGED job
      /\ \/ Fail
         \/ /\ Step
            /\ cpy' = (IF <<j, e>> \in AskedFor /\ How(<<j, e>>) = "copy"
                         THEN Append(cpy, DescOf(<<j, e>>)) ELSE cpy)
            /\ sub' = (IF <<j, e>> \in AskedFor /\ How(<<j, e>>) = "sub"
                         THEN Append(sub, DescOf(<<j, e>>)) ELSE sub)
  BY <1>5, OneDescriptor
<1>7. pc' = "map" /\ todo' = Tail(todo)
      /\ cpy' = (IF <<j, e>> \in AskedFor /\ How(<<j, e>>) = "copy"
                   THEN Append(cpy, DescOf(<<j, e>>)) ELSE cpy)
      /\ sub' = (IF <<j, e>> \in AskedFor /\ How(<<j, e>>) = "sub"
                   THEN Append(sub, DescOf(<<j, e>>)) ELSE sub)
  <2> HIDE DEF AskedFor, How, DescOf
  <2> QED BY <1>1, <1>6 DEF Fail, Step
<1>8. <<j, e>> \in ToSet(todo) /\ ToSet(todo') = ToSet(todo) \ {<<j, e>>}
  BY <1>3, <1>5, <1>7
<1>9. Proper(cpy') /\ ToSet(cpy') = Descs("copy", ToSet(todo'))
  <2>1. IF <<j, e>> \in AskedFor /\ How(<<j, e>>) = "copy"
          THEN /\ Proper(Append(cpy, DescOf(<<j, e>>)))
               /\ ToSet(Append(cpy, DescOf(<<j, e>>))) = Descs("copy", ToSet(todo) \ {<<j, e>>})
          ELSE Descs("copy", ToSet(todo) \ {<<j, e>>}) = Descs("copy", ToSet(todo))
    BY <1>2, <1>8, LaneGrows
  <2> QED BY <1>2, <1>7, <1>8, <2>1
<1>10. Proper(sub') /\ ToSet(sub') = Descs("sub", ToSet(todo'))
  <2>1. IF <<j, e>> \in AskedFor /\ How(<<j, e>>) = "sub"
          THEN /\ Proper(Append(sub, DescOf(<<j, e>>)))
               /\ ToSet(Append(sub, DescOf(<<j, e>>))) = Descs("sub", ToSet(todo) \ {<<j, e>>})
          ELSE Descs("sub", ToSet(todo) \ {<<j, e>>}) = Descs("sub", ToSet(todo))
    BY <1>2, <1>8, LaneGrows
  <2> QED BY <1>2, <1>7, <1>8, <2>1
<1>11. \A how, left : Descs(how, left)' = Descs(how, left)
  BY <1>6, JobStays
<1>12. Work("map")' = Work("map")
  BY <1>6, JobStays
<1>13. Proper(todo') /\ ToSet(todo') \subseteq ToSet(Work("map"))
  BY <1>2, <1>3, <1>7
<1> HIDE DEF Proper, Descs, Work
<1> QED BY <1>7, <1>9, <1>10, <1>11, <1>12, <1>13 DEF DescInv

\* Where each action of the set-up is taken, and what it leaves alone.
LEMMA InMap == ASSUME AddDescriptor, pc' # "end"
  PROVE  pc = "map" /\ pc' = pc /\ todo # <<>> /\ todo' = Tail(todo) /\ UNCHANGED <<job, gout, mux>>
<1>1. pc = "map" /\ todo # <<>> /\ UNCHANGED <<job, gout, mux>> /\ (Fail \/ Step)
  <2> HIDE DEF Fail, Step
  <2> QED BY DEF AddDescriptor, Doing
<1> QED BY <1>1 DEF Fail, Step

\* A source, which leaves the lanes alone.
LEMMA InSource == ASSUME AddSource, pc' # "end"
  PROVE  pc = "source" /\ pc' = pc /\ todo # <<>> /\ todo' = Tail(todo) /\ UNCHANGED <<job, gout, cpy, sub, mux>>
<1>1. pc = "source" /\ todo # <<>> /\ UNCHANGED <<job, gout, cpy, sub, mux>> /\ (Fail \/ Step)
  <2> HIDE DEF Fail, Step
  <2> QED BY DEF AddSource, Doing
<1> QED BY <1>1 DEF Fail, Step

\* A sink is that of the pad whose turn it is, at an output.
LEMMA InSink == ASSUME AddSink, pc' # "end"
  PROVE  /\ pc = "sink" /\ pc' = pc /\ todo # <<>> /\ todo' = Tail(todo) /\ UNCHANGED <<job, cpy, sub, mux>>
         /\ OutputFor(todo[1].label) # 0 /\ gout' = Append(gout, SinkOf(todo[1]))
<1>1. /\ pc = "sink" /\ todo # <<>> /\ UNCHANGED <<job, cpy, sub, mux>>
      /\ \/ Fail
         \/ Step /\ OutputFor(todo[1].label) # 0 /\ gout' = Append(gout, SinkOf(todo[1]))
  <2> HIDE DEF Fail, Step, OutputFor, Codec, Full
  <2> QED BY DEF AddSink, Doing, SinkOf
<1> QED BY <1>1 DEF Fail, Step

\* The stream that an encoder gives, or a copy.
NewRecord(key, how, type, src, given, bsf) ==
  [key |-> key, how |-> how, type |-> type, src |-> src, given |-> given, bsf |-> bsf, meta |-> FALSE]

\* Output j takes one more stream.
OneStream(j, st) == mux' = [mux EXCEPT ![j].streams = Append(@, st)]

\* An encoder that opens took all its options.
LEMMA Encoded ==
  ASSUME NEW j, NEW t, NEW key, NEW how, NEW src, Encode(j, t, key, how, src), pc' # "end"
  PROVE  /\ Step /\ DOMAIN Given(Outputs[j], t) \subseteq Knows[t]
         /\ OneStream(j, NewRecord(key, how, t, src, Given(Outputs[j], t), FALSE))
<1>1. \/ Fail
      \/ /\ DOMAIN Given(Outputs[j], t) \subseteq Knows[t]
         /\ NewStream(j, key, how, t, src, Given(Outputs[j], t), FALSE)
  <2> HIDE DEF Fail, NewStream, Given, Codec
  <2> QED BY DEF Encode
<1>2. ~Fail
  BY DEF Fail
<1> HIDE DEF Given, Step
<1> QED BY <1>1, <1>2 DEF NewStream, NewRecord, OneStream

\* The stream of a sink.
LEMMA InEncode == ASSUME OpenEncoder, pc' # "end"
  PROVE  /\ pc = "encode" /\ pc' = pc /\ todo # <<>> /\ todo' = Tail(todo) /\ UNCHANGED <<job, gout, cpy, sub>>
         /\ LET g == todo[1]
                given == Given(Outputs[g.out], g.type)
            IN /\ DOMAIN given \subseteq Knows[g.type]
               /\ OneStream(g.out, NewRecord(Pad(g.label), "encode", g.type, g.label, given, FALSE))
<1>1. /\ pc = "encode" /\ todo # <<>> /\ UNCHANGED <<job, gout, cpy, sub>>
      /\ Encode(todo[1].out, todo[1].type, Pad(todo[1].label), "encode", todo[1].label)
  <2> HIDE DEF Encode
  <2> QED BY DEF OpenEncoder, Doing
<1> HIDE DEF Given, NewRecord
<1>2. /\ Step /\ DOMAIN Given(Outputs[todo[1].out], todo[1].type) \subseteq Knows[todo[1].type]
      /\ OneStream(todo[1].out, NewRecord(Pad(todo[1].label), "encode", todo[1].type, todo[1].label,
                                           Given(Outputs[todo[1].out], todo[1].type), FALSE))
  BY <1>1, Encoded
<1>3. pc' = pc /\ todo' = Tail(todo)
  BY <1>2 DEF Step
<1> QED BY <1>1, <1>2, <1>3

\* The stream of a copy.
LEMMA InCopy == ASSUME SetupCopy, pc' # "end"
  PROVE  /\ pc = "copy" /\ pc' = pc /\ todo # <<>> /\ todo' = Tail(todo) /\ UNCHANGED <<job, gout, cpy, sub>>
         /\ LET c == todo[1] IN
            OneStream(c.out, NewRecord(c.key, "copy", Inputs[c.in].streams[c.st], Source(c), <<>>,
                                       c.key \in Outputs[c.out].bsf))
BY DEF SetupCopy, Doing, NewStream, NewRecord, Step, OneStream

\* The stream of a subtitle that is transcoded.
LEMMA InSub == ASSUME SetupSub, pc' # "end"
  PROVE  /\ pc = "sub" /\ pc' = pc /\ todo # <<>> /\ todo' = Tail(todo) /\ UNCHANGED <<job, gout, cpy, sub>>
         /\ LET c == todo[1]
                given == Given(Outputs[c.out], "s")
            IN /\ DOMAIN given \subseteq Knows["s"]
               /\ OneStream(c.out, NewRecord(c.key, "sub", "s", Source(c), given, FALSE))
<1>1. /\ pc = "sub" /\ todo # <<>> /\ UNCHANGED <<job, gout, cpy, sub>>
      /\ Encode(todo[1].out, "s", todo[1].key, "sub", Source(todo[1]))
  <2> HIDE DEF Encode
  <2> QED BY DEF SetupSub, Doing
<1> HIDE DEF Given, NewRecord, Source
<1>2. /\ Step /\ DOMAIN Given(Outputs[todo[1].out], "s") \subseteq Knows["s"]
      /\ OneStream(todo[1].out, NewRecord(todo[1].key, "sub", "s", Source(todo[1]),
                                           Given(Outputs[todo[1].out], "s"), FALSE))
  BY <1>1, Encoded
<1>3. pc' = pc /\ todo' = Tail(todo)
  BY <1>2 DEF Step
<1> QED BY <1>1, <1>2, <1>3

\* A header that is written, and the options of its muxer taken.
LEMMA InHeader == ASSUME WriteHeader, pc' # "end"
  PROVE  /\ pc = "header" /\ pc' = pc /\ todo # <<>> /\ todo' = Tail(todo) /\ UNCHANGED <<job, gout, cpy, sub>>
         /\ Outputs[todo[1]].opts["muxer"] \subseteq Knows["muxer"]
         /\ mux' = [mux EXCEPT ![todo[1]] = [streams |-> Tagged(todo[1]), at |-> "header"]]
<1>1. /\ pc = "header" /\ todo # <<>> /\ UNCHANGED <<job, gout, cpy, sub>>
      /\ \/ Fail
         \/ /\ Step /\ Outputs[todo[1]].opts["muxer"] \subseteq Knows["muxer"]
            /\ mux' = [mux EXCEPT ![todo[1]] = [streams |-> Tagged(todo[1]), at |-> "header"]]
  <2> HIDE DEF Fail, Step, Tagged, Set
  <2> QED BY DEF WriteHeader, Doing
<1> QED BY <1>1 DEF Fail, Step

\* A trailer changes no stream.
LEMMA InTrailer == ASSUME WriteTrailer, pc' # "end"
  PROVE  /\ pc = "trailer" /\ pc' = pc /\ todo # <<>> /\ todo' = Tail(todo) /\ UNCHANGED <<job, gout, cpy, sub>>
         /\ mux' = [mux EXCEPT ![todo[1]].at = "trailer"] \/ UNCHANGED mux
BY DEF WriteTrailer, Doing

\* The stages in their order.
LEMMA NextStages ==
  ASSUME pc \in ToSet(Stages) \ {"run", "end"}
  PROVE  \/ pc = "parse" /\ Following(pc) = "open"
         \/ pc = "open" /\ Following(pc) = "map"
         \/ pc = "map" /\ Following(pc) = "source"
         \/ pc = "source" /\ Following(pc) = "sink"
         \/ pc = "sink" /\ Following(pc) = "encode"
         \/ pc = "encode" /\ Following(pc) = "copy"
         \/ pc = "copy" /\ Following(pc) = "sub"
         \/ pc = "sub" /\ Following(pc) = "header"
         \/ pc = "header" /\ Following(pc) = "run"
         \/ pc = "trailer" /\ Following(pc) = "end"
BY StageNames DEF Following

\* Before the first entry there is nothing for a descriptor.
LEMMA NoDescs ==
  ASSUME JobInv, MapsClear(job)
  PROVE  Descs("copy", ToSet(Work("map"))) = {} /\ Descs("sub", ToSet(Work("map"))) = {}
<1> SUFFICES ASSUME NEW q \in AskedFor, q \notin ToSet(Work("map")), How(q) \in {"copy", "sub"} PROVE FALSE
  BY DEF Descs
<1>1. PICK j \in DOMAIN Outputs : \E e \in Entries(j) : q = <<j, e>>
  BY DEF AskedFor
<1>2. PICK e \in Entries(j) : q = <<j, e>>
  BY <1>1
<1>3. e \notin Es(j)
  BY <1>2, WorkMap
<1>4. Outputs[j].map = <<>>
  BY <1>3 DEF Entries, Es
<1>5. \E l : e = Pad(l)
  BY <1>2, <1>3, <1>4 DEF Entries, Es
<1>6. How(q) = "encode"
  BY <1>2, <1>5 DEF How, Lane, IsPad, Pad
<1> QED BY <1>6

\* Every step keeps what the descriptors stand for.
LEMMA DescInvNext ==
  ASSUME JobInv, MapsClear(job), DescInv, [Next]_vars, pc # "end", pc' # "end"
  PROVE  DescInv'
<1>1. UNCHANGED job
  BY GoingOn
<1>2. /\ \A how, left : Descs(how, left)' = Descs(how, left)
      /\ Work("map")' = Work("map")
  BY <1>1, JobStays
<1> HIDE DEF Work, Descs, Proper, Passes
<1>3. ASSUME UNCHANGED <<cpy, sub>>,
             (pc' = pc /\ pc # "map") \/ (pc \in Mapped /\ pc' \in Mapped)
               \/ (pc \notin {"map"} \cup Mapped /\ pc' \notin {"map"} \cup Mapped)
      PROVE  DescInv'
  BY <1>2, <1>3, StagesOfLanes DEF DescInv
<1>4. CASE UNCHANGED <<pc, todo, libavVars>>
  BY <1>2, <1>4 DEF DescInv, libavVars
<1>5. CASE /\ pc \in {"install", "gate", "probe"} /\ pc' \in {"gate", "probe", "out", "parse"}
           /\ UNCHANGED libavVars
  BY <1>3, <1>5, StagesOfLanes DEF libavVars
<1>6. CASE /\ pc' = Following(pc) /\ pc \in ToSet(Stages) \ {"run", "end"}
           /\ todo = <<>> /\ todo' = Work(Following(pc)) /\ UNCHANGED libavVars
  <2>1. UNCHANGED <<cpy, sub>>
    BY <1>6 DEF libavVars
  <2>2. CASE pc = "open" /\ pc' = "map"
    <3>1. cpy = <<>> /\ sub = <<>>
      BY <2>2, StagesOfLanes DEF DescInv
    <3>2. todo' = Work("map") /\ pc' = "map"
      BY <1>6, <2>2
    <3>3. Proper(todo') /\ Descs("copy", ToSet(todo')) = {} /\ Descs("sub", ToSet(todo')) = {}
      BY <3>2, WorkMap, NoDescs
    <3>4. cpy' = <<>> /\ sub' = <<>> /\ Proper(<<>>) /\ ToSet(<<>>) = {}
      BY <2>1, <3>1, EmptyIsProper
    <3>5. pc' \in {"map"} \cup Mapped
      BY <3>2
    <3> QED BY <1>2, <3>2, <3>3, <3>4, <3>5 DEF DescInv
  <2>3. CASE pc = "map" /\ pc' = "source"
    <3>1. ToSet(todo) = {}
      BY <1>6, EmptyIsProper
    <3> QED BY <1>2, <2>1, <2>3, <3>1, StagesOfLanes DEF DescInv
  <2>4. CASE ~(pc = "open" /\ pc' = "map") /\ ~(pc = "map" /\ pc' = "source")
    <3>1. \/ pc \in Mapped /\ pc' \in Mapped
          \/ pc \notin {"map"} \cup Mapped /\ pc' \notin {"map"} \cup Mapped
      BY <1>6, <2>4, NextStages, StagesOfLanes
    <3> QED BY <1>3, <2>1, <3>1
  <2> QED BY <2>2, <2>3, <2>4
<1>7. CASE pc \in {"parse", "open"} /\ UNCHANGED <<pc, libavVars>>
  BY <1>3, <1>7 DEF libavVars
<1>8. CASE AddDescriptor
  BY <1>8, AddDescriptorDescs
<1>9. CASE \/ AddSource \/ AddSink \/ OpenEncoder \/ SetupCopy \/ SetupSub \/ WriteHeader \/ WriteTrailer
  <2>1. pc' = pc /\ pc # "map" /\ UNCHANGED <<cpy, sub>>
    <3>1. CASE AddSource \/ AddSink
      BY <3>1, InSource, InSink
    <3>2. CASE OpenEncoder \/ SetupCopy \/ SetupSub
      BY <3>2, InEncode, InCopy, InSub
    <3>3. CASE WriteHeader \/ WriteTrailer
      BY <3>3, InHeader, InTrailer
    <3> QED BY <1>9, <3>1, <3>2, <3>3
  <2> QED BY <1>3, <2>1
<1>10. CASE pc = "run" /\ pc' = "trailer" /\ UNCHANGED libavVars
  BY <1>3, <1>10, StagesOfLanes DEF libavVars
<1> QED BY <1>4, <1>5, <1>6, <1>7, <1>8, <1>9, <1>10, GoingOn

-----------------------------------------------------------------------------
(* Sinks *)

\* One pad gets its sink, and the invariant holds of the rest.
LEMMA AddSinkSinks == ASSUME MapsClear(job), SinkInv, AddSink, pc' # "end" PROVE SinkInv'
<1> DEFINE outs == Graph(job).outs
           p == todo[1]
<1>1. /\ pc = "sink" /\ pc' = pc /\ todo # <<>> /\ todo' = Tail(todo) /\ UNCHANGED job
      /\ OutputFor(p.label) # 0 /\ gout' = Append(gout, SinkOf(p))
  BY InSink
<1>2. /\ Proper(todo) /\ ToSet(todo) \subseteq ToSet(outs)
      /\ Proper(gout) /\ ToSet(gout) = {SinkOf(r) : r \in ToSet(outs) \ ToSet(todo)}
      /\ \A g \in ToSet(gout) : g.out # 0
  BY <1>1 DEF SinkInv
<1>3. p \in ToSet(todo) /\ Proper(todo') /\ ToSet(todo') = ToSet(todo) \ {p}
  BY <1>1, <1>2, TailIs
<1>4. /\ Graph(job)' = Graph(job)
      /\ \A r : SinkOf(r)' = SinkOf(r)
  BY <1>1, JobStays
<1>5. SinkOf(p) \notin ToSet(gout)
  <2> SUFFICES ASSUME NEW r \in ToSet(outs) \ ToSet(todo), SinkOf(r) = SinkOf(p) PROVE FALSE
    BY <1>2
  <2>1. r.label = p.label
    BY DEF SinkOf
  <2>2. \A s, t \in ToSet(outs) : s.label = t.label => s = t
    BY GraphPads
  <2> QED BY <1>2, <1>3, <2>1, <2>2
<1>6. Proper(gout') /\ ToSet(gout') = ToSet(gout) \cup {SinkOf(p)}
  BY <1>1, <1>2, <1>5, AppendIs DEF Proper
<1>7. ToSet(gout') = {SinkOf(r) : r \in ToSet(outs) \ ToSet(todo')}
  <2>1. ToSet(outs) \ ToSet(todo') = (ToSet(outs) \ ToSet(todo)) \cup {p}
    BY <1>2, <1>3
  <2> HIDE DEF outs, p
  <2> QED BY <1>2, <1>6, <2>1
<1>8. \A g \in ToSet(gout') : g.out # 0
  BY <1>1, <1>2, <1>6 DEF SinkOf
<1>9. ToSet(todo') \subseteq ToSet(outs)
  BY <1>2, <1>3
<1> HIDE DEF Graph, Proper
<1> QED BY <1>1, <1>3, <1>4, <1>6, <1>7, <1>8, <1>9 DEF SinkInv

\* Every step keeps what the sinks stand for.
LEMMA SinkInvNext ==
  ASSUME MapsClear(job), SinkInv, [Next]_vars, pc # "end", pc' # "end"
  PROVE  SinkInv'
<1>1. UNCHANGED job
  BY GoingOn
<1>2. Graph(job)' = Graph(job) /\ \A p : SinkOf(p)' = SinkOf(p)
  BY <1>1, JobStays
<1> HIDE DEF Work, Proper, Graph, Passes
<1>3. ASSUME UNCHANGED gout,
             (pc' = pc /\ pc # "sink") \/ (pc \in Sunk /\ pc' \in Sunk)
               \/ (pc \notin {"sink"} \cup Sunk /\ pc' \notin {"sink"} \cup Sunk)
      PROVE  SinkInv'
  BY <1>2, <1>3, StagesOfLanes DEF SinkInv
<1>4. CASE UNCHANGED <<pc, todo, libavVars>>
  BY <1>2, <1>4 DEF SinkInv, libavVars
<1>5. CASE /\ pc \in {"install", "gate", "probe"} /\ pc' \in {"gate", "probe", "out", "parse"}
           /\ UNCHANGED libavVars
  BY <1>3, <1>5, StagesOfLanes DEF libavVars
<1>6. CASE /\ pc' = Following(pc) /\ pc \in ToSet(Stages) \ {"run", "end"}
           /\ todo = <<>> /\ todo' = Work(Following(pc)) /\ UNCHANGED libavVars
  <2>1. UNCHANGED gout
    BY <1>6 DEF libavVars
  <2>2. CASE pc = "source" /\ pc' = "sink"
    <3>1. gout = <<>>
      BY <2>2, StagesOfLanes DEF SinkInv
    <3>2. todo' = Graph(job).outs /\ pc' = "sink"
      BY <1>6, <2>2 DEF Work
    <3>3. Proper(todo')
      BY <3>2, GraphPads
    <3>4. gout' = <<>> /\ Proper(<<>>) /\ ToSet(<<>>) = {}
      BY <2>1, <3>1, EmptyIsProper
    <3>5. {SinkOf(p) : p \in ToSet(Graph(job).outs) \ ToSet(todo')} = {}
      BY <3>2
    <3> QED BY <1>2, <3>2, <3>3, <3>4, <3>5 DEF SinkInv
  <2>3. CASE pc = "sink" /\ pc' = "encode"
    <3>1. ToSet(todo) = {}
      BY <1>6, EmptyIsProper
    <3> QED BY <1>2, <2>1, <2>3, <3>1, StagesOfLanes DEF SinkInv
  <2>4. CASE ~(pc = "source" /\ pc' = "sink") /\ ~(pc = "sink" /\ pc' = "encode")
    <3>1. \/ pc \in Sunk /\ pc' \in Sunk
          \/ pc \notin {"sink"} \cup Sunk /\ pc' \notin {"sink"} \cup Sunk
      BY <1>6, <2>4, NextStages, StagesOfLanes
    <3> QED BY <1>3, <2>1, <3>1
  <2> QED BY <2>2, <2>3, <2>4
<1>7. CASE pc \in {"parse", "open"} /\ UNCHANGED <<pc, libavVars>>
  BY <1>3, <1>7 DEF libavVars
<1>8. CASE AddSink
  BY <1>8, AddSinkSinks
<1>9. CASE \/ AddDescriptor \/ AddSource \/ OpenEncoder \/ SetupCopy \/ SetupSub \/ WriteHeader \/ WriteTrailer
  <2>1. pc' = pc /\ pc # "sink" /\ UNCHANGED gout
    <3>1. CASE AddDescriptor \/ AddSource
      BY <3>1, InMap, InSource
    <3>2. CASE OpenEncoder \/ SetupCopy \/ SetupSub
      BY <3>2, InEncode, InCopy, InSub
    <3>3. CASE WriteHeader \/ WriteTrailer
      BY <3>3, InHeader, InTrailer
    <3> QED BY <1>9, <3>1, <3>2, <3>3
  <2> QED BY <1>3, <2>1
<1>10. CASE pc = "run" /\ pc' = "trailer" /\ UNCHANGED libavVars
  BY <1>3, <1>10, StagesOfLanes DEF libavVars
<1> QED BY <1>4, <1>5, <1>6, <1>7, <1>8, <1>9, <1>10, GoingOn

-----------------------------------------------------------------------------
(* Entries and lanes *)

\* Where a pad that a map names goes.
LEMMA PadsGo ==
  ASSUME JobInv, MapsClear(job), MapsGiven, NEW l
  PROVE  /\ \A j \in DOMAIN Outputs : Pad(l) \in ToSet(Outputs[j].map) => OutputFor(l) = j
         /\ \A j \in DOMAIN Outputs : Outputs[j].map = <<>> => OutputFor(l) = j
         /\ OutputFor(l) # 0 =>
              /\ OutputFor(l) \in DOMAIN Outputs
              /\ LET o == Outputs[OutputFor(l)] IN o.map = <<>> \/ Pad(l) \in ToSet(o.map)
<1> DEFINE named == {j \in DOMAIN Outputs : Pad(l) \in ToSet(Outputs[j].map)}
<1>1. OutputFor(l) = IF named # {} THEN CHOOSE j \in named : \A k \in named : j <= k
                     ELSE IF Len(Outputs) = 1 /\ Outputs[1].map = <<>> THEN 1 ELSE 0
  BY DEF OutputFor
<1>2. DOMAIN Outputs = 1..Len(Outputs) /\ Len(Outputs) \in Nat
  BY DEF JobInv
<1>3. \A j, k \in named : j = k
  <2> SUFFICES ASSUME NEW j \in named, NEW k \in named PROVE k = j
    OBVIOUS
  <2>1. Pad(l) \in ToSet(job.outputs[j].map) /\ Pad(l) \in ToSet(job.outputs[k].map)
        /\ j \in DOMAIN job.outputs /\ k \in DOMAIN job.outputs
    BY DEF Outputs
  <2>2. IsPad(Pad(l))
    BY DEF Pad, IsPad
  <2> QED BY <2>1, <2>2 DEF MapsClear
<1>4. ASSUME NEW j \in named PROVE OutputFor(l) = j
  <2>1. \A k \in named : j <= k
    BY <1>2, <1>3
  <2>2. \E i \in named : \A k \in named : i <= k
    BY <2>1
  <2>3. (CHOOSE i \in named : \A k \in named : i <= k) \in named
    <3> HIDE DEF named
    <3> QED BY <2>2
  <2>4. OutputFor(l) \in named
    <3> HIDE DEF named
    <3> QED BY <1>1, <2>3
  <2> QED BY <1>3, <2>4
<1>5. ASSUME NEW j \in DOMAIN Outputs, Outputs[j].map = <<>> PROVE OutputFor(l) = j
  <2>1. Len(Outputs) = 1 /\ j = 1
    BY <1>2, <1>5 DEF MapsGiven
  <2>2. named = {}
    BY <1>2, <1>5, <2>1, EmptyIsProper
  <2> QED BY <1>1, <1>5, <2>1, <2>2
<1>6. ASSUME OutputFor(l) # 0
      PROVE  /\ OutputFor(l) \in DOMAIN Outputs
             /\ LET o == Outputs[OutputFor(l)] IN o.map = <<>> \/ Pad(l) \in ToSet(o.map)
  <2>1. CASE named # {}
    <3>1. OutputFor(l) \in named
      BY <1>4, <2>1
    <3> QED BY <3>1
  <2>2. CASE named = {}
    <3>1. OutputFor(l) = 1 /\ Len(Outputs) = 1 /\ Outputs[1].map = <<>>
      BY <1>1, <1>6, <2>2
    <3> QED BY <1>2, <3>1
  <2> QED BY <2>1, <2>2
<1> QED BY <1>4, <1>5, <1>6

\* An entry is encoded if it is a pad, and only then.
LEMMA Hows ==
  /\ \A q : How(q) \in {"encode", "copy", "sub"} /\ (How(q) = "encode" <=> IsPad(q[2]))
  /\ \A l : IsPad(Pad(l)) /\ Pad(l).name = l
BY DEF How, Lane, Pad, IsPad

\* The pads that have a sink are those asked for.
LEMMA SinksAsked ==
  ASSUME JobInv, MapsClear(job), MapsGiven,
         ToSet(gout) = {SinkOf(p) : p \in ToSet(Graph(job).outs)}, \A g \in ToSet(gout) : g.out # 0
  PROVE  {OfSink(g) : g \in ToSet(gout)} = {q \in AskedFor : How(q) = "encode"}
<1> DEFINE outs == Graph(job).outs
<1>1. ToSet(gout) = {SinkOf(p) : p \in ToSet(outs)} /\ \A g \in ToSet(gout) : g.out # 0
  OBVIOUS
<1>2. ASSUME NEW g \in ToSet(gout)
      PROVE  OfSink(g) \in AskedFor /\ How(OfSink(g)) = "encode"
  <2>1. PICK p \in ToSet(outs) : g = SinkOf(p)
    BY <1>1
  <2>2. g.out # 0 /\ g.out = OutputFor(p.label) /\ g.label = p.label
    BY <1>1, <2>1 DEF SinkOf
  <2>3. /\ g.out \in DOMAIN Outputs
        /\ Outputs[g.out].map = <<>> \/ Pad(g.label) \in ToSet(Outputs[g.out].map)
    BY <2>2, PadsGo
  <2>4. Pad(g.label) \in Entries(g.out)
    BY <2>2, <2>3 DEF Entries
  <2>5. OfSink(g) \in AskedFor
    BY <2>3, <2>4 DEF AskedFor, OfSink
  <2> QED BY <2>5, Hows DEF OfSink
<1>3. ASSUME NEW q \in AskedFor, How(q) = "encode"
      PROVE  \E g \in ToSet(gout) : q = OfSink(g)
  <2>1. PICK j \in DOMAIN Outputs : \E e \in Entries(j) : q = <<j, e>>
    BY DEF AskedFor
  <2>2. PICK e \in Entries(j) : q = <<j, e>>
    BY <2>1
  <2>3. IsPad(e)
    BY <1>3, <2>2, Hows
  <2>4. PICK p \in ToSet(outs) : e = Pad(p.label) /\ OutputFor(p.label) = j
    <3>1. CASE Outputs[j].map # <<>>
      <4>1. e \in ToSet(job.outputs[j].map) /\ j \in DOMAIN job.outputs /\ e \in ToSet(Outputs[j].map)
        BY <2>2, <3>1 DEF Entries, Outputs
      <4>2. \E p \in ToSet(outs) : e = Pad(p.label)
        BY <2>3, <4>1 DEF MapsClear
      <4> QED BY <4>1, <4>2, PadsGo
    <3>2. CASE Outputs[j].map = <<>>
      <4>1. \E p \in ToSet(outs) : e = Pad(p.label)
        BY <2>2, <2>3, <3>2 DEF Entries, IsPad, Default
      <4> QED BY <3>2, <4>1, PadsGo
    <3> QED BY <3>1, <3>2
  <2>5. SinkOf(p) \in ToSet(gout) /\ OfSink(SinkOf(p)) = q
    BY <1>1, <2>2, <2>4 DEF OfSink, SinkOf
  <2> QED BY <2>5
<1> QED BY <1>2, <1>3

\* The descriptors are those of what is copied, and of what is transcoded.
LEMMA DescsAsked ==
  ASSUME DescInv, pc \in Mapped
  PROVE  /\ ToSet(cpy) = {DescOf(q) : q \in {p \in AskedFor : How(p) = "copy"}}
         /\ ToSet(sub) = {DescOf(q) : q \in {p \in AskedFor : How(p) = "sub"}}
         /\ {OfDesc(c) : c \in ToSet(cpy)} = {q \in AskedFor : How(q) = "copy"}
         /\ {OfDesc(c) : c \in ToSet(sub)} = {q \in AskedFor : How(q) = "sub"}
<1>1. /\ ToSet(cpy) = {DescOf(q) : q \in {p \in AskedFor : How(p) = "copy"}}
      /\ ToSet(sub) = {DescOf(q) : q \in {p \in AskedFor : How(p) = "sub"}}
  BY StagesOfLanes DEF DescInv, Descs
<1>2. \A q \in AskedFor : OfDesc(DescOf(q)) = q
  <2>1. \A q : q \in AskedFor => q = <<q[1], q[2]>>
    BY DEF AskedFor
  <2> QED BY <2>1 DEF OfDesc, DescOf
<1> HIDE DEF AskedFor, How, DescOf, OfDesc
<1> QED BY <1>1, <1>2

\* An entry that is asked for is one of its output.
LEMMA AskedIs ==
  /\ \A q \in AskedFor : q = <<q[1], q[2]>> /\ q[1] \in DOMAIN Outputs /\ q[2] \in Entries(q[1])
  /\ \A j \in DOMAIN Outputs : \A e \in Entries(j) : <<j, e>> \in AskedFor
BY DEF AskedFor

\* An output takes one more stream, of an entry that had none.
LEMMA StreamAdded ==
  ASSUME StreamsRight, MuxInv, UNCHANGED job, NEW j \in DOMAIN mux, NEW st,
         OneStream(j, st), RightStream(j, st), <<j, st.key>> \notin Got
  PROVE  StreamsRight' /\ Got' = Got \cup {<<j, st.key>>}
<1> DEFINE s == mux[j].streams
           t == Append(s, st)
<1>1. /\ DOMAIN mux = DOMAIN Outputs /\ IsList(s)
      /\ mux[j] = [streams |-> s, at |-> mux[j].at]
  BY DEF StreamsRight, MuxInv, Muxer
<1>2. /\ DOMAIN mux' = DOMAIN mux /\ mux'[j].streams = t
      /\ \A i \in DOMAIN mux : i # j => mux'[i] = mux[i]
  BY <1>1 DEF OneStream
<1>3. /\ IsList(t) /\ Len(s) \in Nat /\ DOMAIN s = 1..Len(s) /\ DOMAIN t = 1..(Len(s) + 1)
      /\ t[Len(s) + 1] = st /\ \A n \in 1..Len(s) : t[n] = s[n]
  BY <1>1, AppendIs, ListIs
<1>4. /\ Outputs' = Outputs
      /\ \A i, r : RightStream(i, r)' = RightStream(i, r)
  BY JobStays
<1> HIDE DEF s, t
<1>5. /\ \A n \in 1..Len(s) : RightStream(j, s[n])
      /\ \A m, n \in 1..Len(s) : s[m].key = s[n].key => m = n
  BY <1>3 DEF StreamsRight, s
<1>6. \A n \in 1..Len(s) : s[n].key # st.key
  BY <1>3 DEF Got, s
<1>7. \A n \in DOMAIN t : RightStream(j, t[n])
  BY <1>3, <1>5
<1>8. \A m, n \in DOMAIN t : t[m].key = t[n].key => m = n
  BY <1>3, <1>5, <1>6
<1>9. StreamsRight'
  <2>1. ASSUME NEW i \in DOMAIN mux
        PROVE  /\ IsList(mux'[i].streams)
               /\ \A n \in DOMAIN mux'[i].streams : RightStream(i, mux'[i].streams[n])
               /\ \A m, n \in DOMAIN mux'[i].streams :
                    mux'[i].streams[m].key = mux'[i].streams[n].key => m = n
    <3>1. CASE i = j
      BY <1>2, <1>3, <1>7, <1>8, <3>1
    <3>2. CASE i # j
      BY <1>2, <3>2 DEF StreamsRight
    <3> QED BY <3>1, <3>2
  <2> HIDE DEF RightStream
  <2> QED BY <1>1, <1>2, <1>4, <2>1 DEF StreamsRight
<1>10. Got' = Got \cup {<<j, st.key>>}
  <2> DEFINE K(m, i) == {<<i, m[i].streams[n].key>> : n \in DOMAIN m[i].streams}
  <2>1. K(mux', j) = K(mux, j) \cup {<<j, st.key>>}
    <3>1. K(mux', j) = {<<j, t[n].key>> : n \in 1..(Len(s) + 1)}
      BY <1>2, <1>3
    <3>2. K(mux, j) = {<<j, s[n].key>> : n \in 1..Len(s)}
      BY <1>3 DEF s
    <3>3. ASSUME NEW n \in 1..(Len(s) + 1) PROVE <<j, t[n].key>> \in K(mux, j) \cup {<<j, st.key>>}
      <4> HIDE DEF K
      <4>1. CASE n = Len(s) + 1
        BY <1>3, <4>1
      <4>2. CASE n # Len(s) + 1
        <5>1. n \in 1..Len(s) /\ t[n] = s[n]
          BY <1>3, <4>2
        <5> QED BY <3>2, <5>1
      <4> QED BY <4>1, <4>2
    <3>4. ASSUME NEW n \in 1..Len(s) PROVE <<j, s[n].key>> \in K(mux', j)
      <4>1. n \in 1..(Len(s) + 1) /\ t[n] = s[n]
        BY <1>3
      <4> QED BY <3>1, <4>1
    <3>5. <<j, st.key>> \in K(mux', j)
      <4>1. Len(s) + 1 \in 1..(Len(s) + 1) /\ t[Len(s) + 1] = st
        BY <1>3
      <4> QED BY <3>1, <4>1
    <3> HIDE DEF K
    <3> QED BY <3>1, <3>2, <3>3, <3>4, <3>5
  <2>2. \A i \in DOMAIN mux : i # j => K(mux', i) = K(mux, i)
    BY <1>2
  <2>3. Got = UNION {K(mux, i) : i \in DOMAIN mux} /\ Got' = UNION {K(mux', i) : i \in DOMAIN mux}
    BY <1>2 DEF Got
  <2> HIDE DEF K
  <2> QED BY <2>1, <2>2, <2>3
<1> QED BY <1>9, <1>10

\* Sinks tell their pads apart, and descriptors their entries.
LEMMA SinksApart ==
  ASSUME MapsClear(job), SinkInv, pc \in Sunk
  PROVE  \A g, h \in ToSet(gout) : OfSink(g) = OfSink(h) => g = h
<1> SUFFICES ASSUME NEW g \in ToSet(gout), NEW h \in ToSet(gout), OfSink(g) = OfSink(h) PROVE g = h
  OBVIOUS
<1>1. ToSet(gout) = {SinkOf(p) : p \in ToSet(Graph(job).outs)}
  BY StagesOfLanes DEF SinkInv
<1>2. PICK p \in ToSet(Graph(job).outs) : g = SinkOf(p)
  BY <1>1
<1>3. PICK r \in ToSet(Graph(job).outs) : h = SinkOf(r)
  BY <1>1
<1>4. p.label = r.label
  <2>1. OfSink(g)[2] = OfSink(h)[2] /\ OfSink(g)[2].name = g.label /\ OfSink(h)[2].name = h.label
    BY DEF OfSink, Pad
  <2> QED BY <1>2, <1>3, <2>1 DEF SinkOf
<1>5. p = r
  BY <1>4, GraphPads
<1> QED BY <1>2, <1>3, <1>5

\* A descriptor tells its entry, and its stream is the source of the lane.
LEMMA DescsApart ==
  /\ \A q \in AskedFor : OfDesc(DescOf(q)) = q
  /\ \A q : /\ DescOf(q).out = q[1] /\ DescOf(q).key = q[2]
            /\ Source(DescOf(q)) = Lane(q[1], q[2]).src \/ IsPad(q[2])
<1>1. \A q \in AskedFor : OfDesc(DescOf(q)) = q
  BY AskedIs DEF OfDesc, DescOf
<1>2. \A q : DescOf(q).out = q[1] /\ DescOf(q).key = q[2]
  BY DEF DescOf
<1>3. \A q : ~IsPad(q[2]) => Source(DescOf(q)) = Lane(q[1], q[2]).src
  BY DEF DescOf, Source, Lane
<1> QED BY <1>1, <1>2, <1>3

\* The lane an entry is on, as a record.
LEMMA LaneIs ==
  \A j, e : Lane(j, e) = [how |-> Lane(j, e).how, src |-> Lane(j, e).src]
BY DEF Lane

\* The stream of a copy is as its entry asks.
LEMMA CopyIsRight ==
  ASSUME NEW q \in AskedFor, How(q) = "copy", NEW type
  PROVE  LET c == DescOf(q)
             st == NewRecord(c.key, "copy", type, Source(c), <<>>, c.key \in Outputs[c.out].bsf)
         IN  RightStream(c.out, st) /\ <<c.out, st.key>> = q
<1> DEFINE c == DescOf(q)
           b == c.key \in Outputs[c.out].bsf
           st == NewRecord(c.key, "copy", type, Source(c), <<>>, b)
<1>1. q = <<q[1], q[2]>> /\ c.out = q[1] /\ c.key = q[2] /\ Source(c) = Lane(q[1], q[2]).src
  BY AskedIs, DescsApart, Hows
<1>2. Lane(q[1], q[2]).how = "copy"
  BY DEF How
<1>3. b \in BOOLEAN
  OBVIOUS
<1>4. b <=> q[2] \in Outputs[q[1]].bsf
  BY <1>1
<1> HIDE DEF c, b
<1>5. /\ st.key = q[2] /\ st.how = "copy" /\ st.src = Lane(q[1], q[2]).src /\ st.bsf = b
      /\ st = [key |-> st.key, how |-> st.how, type |-> st.type, src |-> st.src, given |-> st.given,
               bsf |-> st.bsf, meta |-> st.meta]
  BY <1>1 DEF NewRecord
<1> HIDE DEF st
<1>6. [how |-> st.how, src |-> st.src] = Lane(q[1], q[2])
  BY <1>2, <1>5, LaneIs
<1>7. RightStream(q[1], st)
  BY <1>4, <1>5, <1>6 DEF RightStream
<1> QED BY <1>1, <1>5, <1>7 DEF st, c, b

\* The stream of a subtitle that is transcoded is as its entry asks.
LEMMA SubIsRight ==
  ASSUME NEW q \in AskedFor, How(q) = "sub", DOMAIN Given(Outputs[q[1]], "s") \subseteq Knows["s"]
  PROVE  LET c == DescOf(q)
             st == NewRecord(c.key, "sub", "s", Source(c), Given(Outputs[c.out], "s"), FALSE)
         IN  RightStream(c.out, st) /\ <<c.out, st.key>> = q
<1> DEFINE c == DescOf(q)
           st == NewRecord(c.key, "sub", "s", Source(c), Given(Outputs[c.out], "s"), FALSE)
<1>1. q = <<q[1], q[2]>> /\ c.out = q[1] /\ c.key = q[2] /\ Source(c) = Lane(q[1], q[2]).src
  BY AskedIs, DescsApart, Hows
<1>2. Lane(q[1], q[2]).how = "sub"
  BY DEF How
<1> HIDE DEF c
<1>5. /\ st.key = q[2] /\ st.how = "sub" /\ st.src = Lane(q[1], q[2]).src /\ st.bsf = FALSE
      /\ st.type = "s" /\ st.given = Given(Outputs[q[1]], "s")
      /\ st = [key |-> st.key, how |-> st.how, type |-> st.type, src |-> st.src, given |-> st.given,
               bsf |-> st.bsf, meta |-> st.meta]
  BY <1>1 DEF NewRecord
<1> HIDE DEF st
<1>6. [how |-> st.how, src |-> st.src] = Lane(q[1], q[2])
  BY <1>2, <1>5, LaneIs
<1>7. RightStream(q[1], st)
  BY <1>5, <1>6 DEF RightStream
<1> QED BY <1>1, <1>5, <1>7 DEF st, c

\* The stream of a sink is as its pad asks.
LEMMA EncodedIsRight ==
  ASSUME NEW p \in ToSet(Graph(job).outs), NEW g, g = SinkOf(p),
         DOMAIN Given(Outputs[g.out], g.type) \subseteq Knows[g.type]
  PROVE  LET st == NewRecord(Pad(g.label), "encode", g.type, g.label, Given(Outputs[g.out], g.type), FALSE)
         IN  RightStream(g.out, st) /\ <<g.out, st.key>> = OfSink(g)
<1> DEFINE st == NewRecord(Pad(g.label), "encode", g.type, g.label, Given(Outputs[g.out], g.type), FALSE)
<1>1. g.label = p.label /\ g.type = p.type
  BY DEF SinkOf
<1>2. /\ st.key = Pad(g.label) /\ st.how = "encode" /\ st.src = g.label /\ st.bsf = FALSE
      /\ st.type = g.type /\ st.given = Given(Outputs[g.out], g.type)
      /\ st = [key |-> st.key, how |-> st.how, type |-> st.type, src |-> st.src, given |-> st.given,
               bsf |-> st.bsf, meta |-> st.meta]
  BY DEF NewRecord
<1> HIDE DEF st
<1>3. [how |-> st.how, src |-> st.src] = Lane(g.out, st.key)
  BY <1>2, Hows DEF Lane
<1>4. RightStream(g.out, st)
  BY <1>1, <1>2, <1>3 DEF RightStream
<1>5. <<g.out, st.key>> = OfSink(g)
  BY <1>2 DEF OfSink
<1> QED BY <1>4, <1>5 DEF st

-----------------------------------------------------------------------------
(* Streams *)

\* The step of one entry: its stream is there, and it is no longer left.
LEMMA OneDone ==
  ASSUME StreamInv, MuxInv, UNCHANGED job, pc \in {"encode", "copy", "sub"}, pc' = pc,
         NEW j, NEW st, OneStream(j, st), RightStream(j, st), <<j, st.key>> \in Left,
         Left' = Left \ {<<j, st.key>>},
         Proper(todo'), ToSet(todo') \subseteq ToSet(LaneOf), UNCHANGED LaneOf
  PROVE  StreamInv'
<1>1. StreamsRight /\ Got \cup Left = AskedFor /\ Got \cap Left = {}
  BY StagesOfLanes DEF StreamInv
<1>2. j \in DOMAIN mux /\ <<j, st.key>> \notin Got
  <2>1. <<j, st.key>> \in AskedFor
    BY <1>1
  <2>2. <<j, st.key>>[1] \in DOMAIN Outputs
    BY <2>1, AskedIs
  <2> QED BY <1>1, <2>2 DEF StreamsRight
<1>3. StreamsRight' /\ Got' = Got \cup {<<j, st.key>>}
  BY <1>1, <1>2, StreamAdded
<1>4. AskedFor' = AskedFor
  BY JobStays
<1>5. Got' \cup Left' = AskedFor' /\ Got' \cap Left' = {}
  <2> DEFINE x == <<j, st.key>>
  <2> HIDE DEF x, StreamsRight
  <2>1. Got' = Got \cup {x} /\ Left' = Left \ {x} /\ x \in Left
    BY <1>3 DEF x
  <2> QED BY <1>1, <1>4, <2>1
<1>6. pc' \in {"encode", "copy", "sub"} /\ pc' \in Sunk
  BY StagesOfLanes
<1> HIDE DEF StreamsRight, Proper, LaneOf
<1> QED BY <1>3, <1>5, <1>6 DEF StreamInv

\* A lane's descriptors tell their entries apart.
LEMMA DescsTold ==
  ASSUME DescInv, pc \in Mapped
  PROVE  /\ \A c, d \in ToSet(cpy) : OfDesc(c) = OfDesc(d) => c = d
         /\ \A c, d \in ToSet(sub) : OfDesc(c) = OfDesc(d) => c = d
<1>1. /\ ToSet(cpy) = {DescOf(q) : q \in {p \in AskedFor : How(p) = "copy"}}
      /\ ToSet(sub) = {DescOf(q) : q \in {p \in AskedFor : How(p) = "sub"}}
  BY DescsAsked
<1>2. \A q \in AskedFor : OfDesc(DescOf(q)) = q
  BY DescsApart
<1> HIDE DEF AskedFor, How, DescOf, OfDesc
<1> QED BY <1>1, <1>2

\* OpenEncoder moves one pad from those that are left to those that have a stream.
LEMMA StreamEncoded ==
  ASSUME MuxInv, MapsClear(job), DescInv, SinkInv, StreamInv, OpenEncoder, pc' # "end"
  PROVE  StreamInv'
<1> DEFINE g == todo[1]
           given == Given(Outputs[g.out], g.type)
           st == NewRecord(Pad(g.label), "encode", g.type, g.label, given, FALSE)
           x == OfSink(g)
           B == {OfDesc(c) : c \in ToSet(cpy)} \cup {OfDesc(c) : c \in ToSet(sub)}
<1>1. /\ pc = "encode" /\ pc' = pc /\ todo # <<>> /\ todo' = Tail(todo) /\ UNCHANGED <<job, gout, cpy, sub>>
      /\ DOMAIN given \subseteq Knows[g.type] /\ OneStream(g.out, st)
  BY InEncode
<1>2. /\ Proper(todo) /\ ToSet(todo) \subseteq ToSet(gout)
      /\ Left = {OfSink(h) : h \in ToSet(todo)} \cup B
      /\ LaneOf = gout /\ LaneOf' = gout'
      /\ pc \in Sunk /\ pc \in Mapped
  BY <1>1, StagesOfLanes DEF StreamInv, Left, LaneOf
<1>3. g \in ToSet(todo) /\ Proper(todo') /\ ToSet(todo') = ToSet(todo) \ {g}
  BY <1>1, <1>2, TailIs
<1>4. PICK p \in ToSet(Graph(job).outs) : g = SinkOf(p)
  <2>1. ToSet(gout) = {SinkOf(p) : p \in ToSet(Graph(job).outs)}
    BY <1>1, StagesOfLanes DEF SinkInv
  <2> HIDE DEF g
  <2> QED BY <1>2, <1>3, <2>1
<1>5. RightStream(g.out, st) /\ <<g.out, st.key>> = x
  BY <1>1, <1>4, EncodedIsRight
<1>6. x \notin B
  <2>1. B = {q \in AskedFor : How(q) = "copy"} \cup {q \in AskedFor : How(q) = "sub"}
    BY <1>2, DescsAsked
  <2>2. How(x) = "encode"
    BY Hows DEF OfSink
  <2> HIDE DEF B, x, How, AskedFor
  <2> QED BY <2>1, <2>2
<1>7. \A h \in ToSet(gout) : OfSink(h) = OfSink(g) => h = g
  BY <1>2, <1>3, SinksApart
<1>8. Left' = {OfSink(h) : h \in ToSet(todo')} \cup B
  BY <1>1 DEF Left, OfSink, OfDesc
<1>9. x \in Left /\ Left' = Left \ {x}
  <2> HIDE DEF B, OfSink, g
  <2> QED BY <1>2, <1>3, <1>6, <1>7, <1>8
<1>10. ToSet(todo') \subseteq ToSet(LaneOf) /\ UNCHANGED LaneOf
  BY <1>1, <1>2, <1>3
<1> HIDE DEF g, st, x, given, B
<1>11. <<g.out, st.key>> \in Left /\ Left' = Left \ {<<g.out, st.key>>}
  BY <1>5, <1>9
<1> QED BY <1>1, <1>3, <1>5, <1>10, <1>11, OneDone

\* SetupCopy does so with one entry that is copied.
LEMMA StreamCopied ==
  ASSUME MuxInv, DescInv, StreamInv, SetupCopy, pc' # "end"
  PROVE  StreamInv'
<1> DEFINE c == todo[1]
           type == Inputs[c.in].streams[c.st]
           st == NewRecord(c.key, "copy", type, Source(c), <<>>, c.key \in Outputs[c.out].bsf)
           B == {OfDesc(d) : d \in ToSet(sub)}
<1>1. /\ pc = "copy" /\ pc' = pc /\ todo # <<>> /\ todo' = Tail(todo) /\ UNCHANGED <<job, gout, cpy, sub>>
      /\ OneStream(c.out, st)
  BY InCopy
<1>2. /\ Proper(todo) /\ ToSet(todo) \subseteq ToSet(cpy)
      /\ Left = {OfDesc(d) : d \in ToSet(todo)} \cup B
      /\ LaneOf = cpy /\ LaneOf' = cpy'
      /\ pc \in Sunk /\ pc \in Mapped
  BY <1>1, StagesOfLanes DEF StreamInv, Left, LaneOf
<1>3. c \in ToSet(todo) /\ Proper(todo') /\ ToSet(todo') = ToSet(todo) \ {c}
  BY <1>1, <1>2, TailIs
<1>4. PICK q \in AskedFor : How(q) = "copy" /\ c = DescOf(q)
  <2>1. ToSet(cpy) = {DescOf(q) : q \in {p \in AskedFor : How(p) = "copy"}}
    BY <1>2, DescsAsked
  <2> HIDE DEF c, AskedFor, How, DescOf
  <2> QED BY <1>2, <1>3, <2>1
<1> HIDE DEF type
<1>5. RightStream(c.out, st) /\ <<c.out, st.key>> = q
  BY <1>4, CopyIsRight
<1>6. q \notin B /\ OfDesc(c) = q
  <2>1. B = {r \in AskedFor : How(r) = "sub"}
    BY <1>2, DescsAsked
  <2>2. OfDesc(c) = q
    BY <1>4, DescsApart
  <2> HIDE DEF B, c, How, AskedFor
  <2> QED BY <1>4, <2>1, <2>2
<1>7. \A d \in ToSet(cpy) : OfDesc(d) = OfDesc(c) => d = c
  BY <1>2, <1>3, DescsTold
<1>8. Left' = {OfDesc(d) : d \in ToSet(todo')} \cup B
  BY <1>1 DEF Left, OfDesc
<1>9. q \in Left /\ Left' = Left \ {q}
  <2> HIDE DEF B, OfDesc, c
  <2> QED BY <1>2, <1>3, <1>6, <1>7, <1>8
<1>10. ToSet(todo') \subseteq ToSet(LaneOf) /\ UNCHANGED LaneOf
  BY <1>1, <1>2, <1>3
<1> HIDE DEF c, st, B
<1>11. <<c.out, st.key>> \in Left /\ Left' = Left \ {<<c.out, st.key>>}
  BY <1>5, <1>9
<1> QED BY <1>1, <1>3, <1>5, <1>10, <1>11, OneDone

\* SetupSub does so with one subtitle entry.
LEMMA StreamTranscoded ==
  ASSUME MuxInv, DescInv, StreamInv, SetupSub, pc' # "end"
  PROVE  StreamInv'
<1> DEFINE c == todo[1]
           given == Given(Outputs[c.out], "s")
           st == NewRecord(c.key, "sub", "s", Source(c), given, FALSE)
<1>1. /\ pc = "sub" /\ pc' = pc /\ todo # <<>> /\ todo' = Tail(todo) /\ UNCHANGED <<job, gout, cpy, sub>>
      /\ DOMAIN given \subseteq Knows["s"] /\ OneStream(c.out, st)
  BY InSub
<1>2. /\ Proper(todo) /\ ToSet(todo) \subseteq ToSet(sub)
      /\ Left = {OfDesc(d) : d \in ToSet(todo)}
      /\ LaneOf = sub /\ LaneOf' = sub'
      /\ pc \in Sunk /\ pc \in Mapped
  BY <1>1, StagesOfLanes DEF StreamInv, Left, LaneOf
<1>3. c \in ToSet(todo) /\ Proper(todo') /\ ToSet(todo') = ToSet(todo) \ {c}
  BY <1>1, <1>2, TailIs
<1>4. PICK q \in AskedFor : How(q) = "sub" /\ c = DescOf(q)
  <2>1. ToSet(sub) = {DescOf(q) : q \in {p \in AskedFor : How(p) = "sub"}}
    BY <1>2, DescsAsked
  <2> HIDE DEF c, AskedFor, How, DescOf
  <2> QED BY <1>2, <1>3, <2>1
<1>5. RightStream(c.out, st) /\ <<c.out, st.key>> = q
  <2>1. c.out = q[1]
    BY <1>4, DescsApart, Hows
  <2>2. DOMAIN Given(Outputs[q[1]], "s") \subseteq Knows["s"]
    BY <1>1, <2>1
  <2> QED BY <1>4, <2>2, SubIsRight
<1>6. OfDesc(c) = q
  BY <1>4, DescsApart
<1>7. \A d \in ToSet(sub) : OfDesc(d) = OfDesc(c) => d = c
  BY <1>2, <1>3, DescsTold
<1>8. Left' = {OfDesc(d) : d \in ToSet(todo')}
  BY <1>1 DEF Left, OfDesc
<1>9. q \in Left /\ Left' = Left \ {q}
  <2> HIDE DEF OfDesc, c
  <2> QED BY <1>2, <1>3, <1>6, <1>7, <1>8
<1>10. ToSet(todo') \subseteq ToSet(LaneOf) /\ UNCHANGED LaneOf
  BY <1>1, <1>2, <1>3
<1> HIDE DEF c, st, given
<1>11. <<c.out, st.key>> \in Left /\ Left' = Left \ {<<c.out, st.key>>}
  BY <1>5, <1>9
<1> QED BY <1>1, <1>3, <1>5, <1>10, <1>11, OneDone

\* What apply_output_metadata makes of the streams of an output.
LEMMA TaggedIs ==
  ASSUME StreamsRight, NEW j \in DOMAIN mux
  PROVE  LET s == mux[j].streams IN
         /\ DOMAIN Tagged(j) = DOMAIN s /\ IsList(Tagged(j))
         /\ \A n \in DOMAIN s : /\ RightStream(j, Tagged(j)[n]) /\ Tagged(j)[n].key = s[n].key
                                /\ Tagged(j)[n].meta = (s[n].key \in Outputs[j].meta)
<1> DEFINE s == mux[j].streams
           t == Tagged(j)
<1>1. /\ IsList(s) /\ \A n \in DOMAIN s : RightStream(j, s[n])
  BY DEF StreamsRight
<1>2. Len(s) \in Nat /\ DOMAIN s = 1..Len(s)
  BY <1>1, ListIs
<1>3. t = [n \in DOMAIN s |-> [s[n] EXCEPT !.meta = s[n].key \in Outputs[j].meta]]
  BY DEF Tagged
<1> HIDE DEF s, t
<1>4. t \in Seq({t[n] : n \in 1..Len(s)})
  <2> DEFINE S == {t[n] : n \in 1..Len(s)}
  <2>1. t = [n \in 1..Len(s) |-> t[n]] /\ \A n \in 1..Len(s) : t[n] \in S
    BY <1>2, <1>3
  <2> HIDE DEF S
  <2>2. t \in [1..Len(s) -> S]
    BY <2>1
  <2> QED BY <1>2, <2>2 DEF S
<1>5. DOMAIN t = DOMAIN s /\ IsList(t)
  BY <1>3, <1>4, ListIs
<1>6. ASSUME NEW n \in DOMAIN s
      PROVE  RightStream(j, t[n]) /\ t[n].key = s[n].key /\ t[n].meta = (s[n].key \in Outputs[j].meta)
  <2> DEFINE r == s[n]
             u == t[n]
             b == r.key \in Outputs[j].meta
  <2>1. u = [r EXCEPT !.meta = b]
    BY <1>3
  <2>2. RightStream(j, r)
    BY <1>1
  <2> HIDE DEF r, u, b
  <2>3. r = [key |-> r.key, how |-> r.how, type |-> r.type, src |-> r.src, given |-> r.given,
             bsf |-> r.bsf, meta |-> r.meta]
    BY <2>2 DEF RightStream
  <2>4. u = [key |-> r.key, how |-> r.how, type |-> r.type, src |-> r.src, given |-> r.given,
             bsf |-> r.bsf, meta |-> b]
    BY <2>1, <2>3
  <2>5. /\ u.key = r.key /\ u.how = r.how /\ u.type = r.type /\ u.src = r.src /\ u.given = r.given
        /\ u.bsf = r.bsf /\ u.meta = b
    BY <2>4
  <2>6. RightStream(j, u)
    <3>1. u = [key |-> u.key, how |-> u.how, type |-> u.type, src |-> u.src, given |-> u.given,
               bsf |-> u.bsf, meta |-> u.meta]
      BY <2>4, <2>5
    <3>2. [how |-> u.how, src |-> u.src] = Lane(j, u.key)
      BY <2>2, <2>5 DEF RightStream
    <3> QED BY <2>2, <2>5, <3>1, <3>2 DEF RightStream
  <2> QED BY <2>5, <2>6 DEF r, u, b
<1> QED BY <1>5, <1>6 DEF s, t

\* A header or a trailer leaves each stream with its entry.
LEMMA SameKeys ==
  ASSUME StreamsRight, UNCHANGED job, DOMAIN mux' = DOMAIN mux,
         \A j \in DOMAIN mux : mux'[j].streams \in {mux[j].streams, Tagged(j)}
  PROVE  StreamsRight' /\ Got' = Got
<1>1. /\ Outputs' = Outputs
      /\ \A i, r : RightStream(i, r)' = RightStream(i, r)
  BY JobStays
<1>2. ASSUME NEW j \in DOMAIN mux
      PROVE  /\ IsList(mux'[j].streams) /\ DOMAIN mux'[j].streams = DOMAIN mux[j].streams
             /\ \A n \in DOMAIN mux[j].streams :
                  RightStream(j, mux'[j].streams[n]) /\ mux'[j].streams[n].key = mux[j].streams[n].key
             /\ \A m, n \in DOMAIN mux[j].streams :
                  mux[j].streams[m].key = mux[j].streams[n].key => m = n
  <2> DEFINE s == mux[j].streams
             t == mux'[j].streams
  <2>1. /\ IsList(s) /\ \A n \in DOMAIN s : RightStream(j, s[n])
        /\ \A m, n \in DOMAIN s : s[m].key = s[n].key => m = n
    BY DEF StreamsRight
  <2>2. t = s \/ t = Tagged(j)
    OBVIOUS
  <2>3. /\ DOMAIN Tagged(j) = DOMAIN s /\ IsList(Tagged(j))
        /\ \A n \in DOMAIN s : RightStream(j, Tagged(j)[n]) /\ Tagged(j)[n].key = s[n].key
    BY TaggedIs
  <2> HIDE DEF s, t, RightStream
  <2>4. /\ IsList(t) /\ DOMAIN t = DOMAIN s
        /\ \A n \in DOMAIN s : RightStream(j, t[n]) /\ t[n].key = s[n].key
    BY <2>1, <2>2, <2>3
  <2> QED BY <2>1, <2>4 DEF s, t
<1>3. StreamsRight'
  <2>1. DOMAIN mux' = DOMAIN Outputs
    BY DEF StreamsRight
  <2> HIDE DEF RightStream
  <2> QED BY <1>1, <1>2, <2>1 DEF StreamsRight
<1>4. Got' = Got
  <2> DEFINE K(m, i) == {<<i, m[i].streams[n].key>> : n \in DOMAIN m[i].streams}
  <2>1. ASSUME NEW j \in DOMAIN mux PROVE K(mux', j) = K(mux, j)
    <3>1. /\ DOMAIN mux'[j].streams = DOMAIN mux[j].streams
          /\ \A n \in DOMAIN mux[j].streams : mux'[j].streams[n].key = mux[j].streams[n].key
      BY <1>2
    <3> QED BY <3>1
  <2>2. Got = UNION {K(mux, i) : i \in DOMAIN mux} /\ Got' = UNION {K(mux', i) : i \in DOMAIN mux}
    BY DEF Got
  <2> HIDE DEF K
  <2> QED BY <2>1, <2>2
<1> QED BY <1>3, <1>4

\* The streams go unchanged from a stage to the next, which leaves what it has to do.
LEMMA StreamStage ==
  ASSUME JobInv, MapsClear(job), MapsGiven, DescInv, SinkInv, StreamInv, UNCHANGED <<job, libavVars>>,
         pc' = Following(pc), pc \in ToSet(Stages) \ {"run", "end"}, todo = <<>>,
         todo' = Work(Following(pc)), pc' # "end"
  PROVE  StreamInv'
<1>1. UNCHANGED <<gout, cpy, sub, mux>>
  BY DEF libavVars
<1>2. StreamsRight' /\ Got' = Got
  <2>1. StreamsRight /\ \A i, r : RightStream(i, r)' = RightStream(i, r) /\ Outputs' = Outputs
    BY JobStays DEF StreamInv
  <2>2. StreamsRight'
    <3> HIDE DEF RightStream
    <3> QED BY <1>1, <2>1 DEF StreamsRight
  <2> QED BY <1>1, <2>2 DEF Got
<1>3. AskedFor' = AskedFor
  BY JobStays
<1>4. ToSet(todo) = {} /\ Proper(<<>>) /\ ToSet(<<>>) = {}
  BY EmptyIsProper
<1> DEFINE E == {OfSink(g) : g \in ToSet(gout)}
           C == {OfDesc(c) : c \in ToSet(cpy)}
           S == {OfDesc(c) : c \in ToSet(sub)}
<1>5. pc \in {"parse", "open", "map", "source"} => pc' \notin {"end"} \cup Sunk /\ pc \notin {"end"} \cup Sunk
  BY NextStages, StagesOfLanes
<1>6. CASE pc \in {"parse", "open", "map", "source"}
  <2>1. Got = {} /\ pc' \notin {"encode", "copy", "sub"}
    BY <1>5, <1>6, StagesOfLanes DEF StreamInv
  <2> QED BY <1>2, <1>5, <1>6, <2>1 DEF StreamInv
<1>7. CASE pc = "sink"
  <2>1. pc' = "encode" /\ todo' = gout /\ Got = {}
    BY <1>7, NextStages, StagesOfLanes DEF StreamInv, Work
  <2>2. /\ Proper(gout) /\ ToSet(gout) = {SinkOf(p) : p \in ToSet(Graph(job).outs)}
        /\ \A g \in ToSet(gout) : g.out # 0
    BY <1>4, <1>7 DEF SinkInv
  <2>3. E = {q \in AskedFor : How(q) = "encode"}
    BY <2>2, SinksAsked
  <2>4. C = {q \in AskedFor : How(q) = "copy"} /\ S = {q \in AskedFor : How(q) = "sub"}
    BY <1>7, DescsAsked, StagesOfLanes
  <2>5. \A q : How(q) \in {"encode", "copy", "sub"}
    BY Hows
  <2>6. Left' = (E \cup C) \cup S
    BY <1>1, <2>1 DEF Left, OfSink, OfDesc
  <2>7. Left' = AskedFor
    <3> HIDE DEF E, C, S, How, AskedFor
    <3> QED BY <2>3, <2>4, <2>5, <2>6
  <2>8. LaneOf' = gout
    BY <1>1, <2>1 DEF LaneOf
  <2>9. Proper(todo') /\ ToSet(todo') \subseteq ToSet(LaneOf')
    BY <2>1, <2>2, <2>8
  <2> HIDE DEF StreamsRight, Proper, AskedFor
  <2> QED BY <1>2, <1>3, <2>1, <2>7, <2>9 DEF StreamInv, Sunk, Mapped
<1>8. CASE pc \in {"encode", "copy", "sub", "header"}
  <2>1. pc \in Sunk /\ pc' \in Sunk /\ pc \in Mapped
    BY <1>8, NextStages, StagesOfLanes
  <2>2. Got \cup Left = AskedFor /\ Got \cap Left = {} /\ Proper(cpy) /\ Proper(sub)
    BY <2>1, StagesOfLanes DEF StreamInv, DescInv
  <2>3. Left' = Left
    <3>1. CASE pc = "encode"
      <4>1. pc' = "copy" /\ todo' = cpy
        BY <3>1, NextStages DEF Work
      <4>2. Left' = C \cup S
        BY <1>1, <4>1 DEF Left, OfDesc
      <4>3. Left = ({OfSink(g) : g \in ToSet(todo)} \cup C) \cup S
        BY <3>1 DEF Left
      <4> QED BY <1>4, <4>2, <4>3
    <3>2. CASE pc = "copy"
      <4>1. pc' = "sub" /\ todo' = sub
        BY <3>2, NextStages DEF Work
      <4>2. Left' = S
        BY <1>1, <4>1 DEF Left, OfDesc
      <4>3. Left = {OfDesc(c) : c \in ToSet(todo)} \cup S
        BY <3>2 DEF Left
      <4> QED BY <1>4, <4>2, <4>3
    <3>3. CASE pc = "sub"
      <4>1. pc' = "header"
        BY <3>3, NextStages
      <4>2. Left' = {}
        BY <4>1 DEF Left
      <4>3. Left = {OfDesc(c) : c \in ToSet(todo)}
        BY <3>3 DEF Left
      <4> QED BY <1>4, <4>2, <4>3
    <3>4. CASE pc = "header"
      <4>1. pc' = "run"
        BY <3>4, NextStages
      <4> QED BY <3>4, <4>1 DEF Left
    <3> QED BY <1>8, <3>1, <3>2, <3>3, <3>4
  <2>4. pc' \in {"encode", "copy", "sub"} => Proper(todo') /\ ToSet(todo') \subseteq ToSet(LaneOf')
    <3>1. CASE pc = "encode"
      <4>1. pc' = "copy" /\ todo' = cpy
        BY <3>1, NextStages DEF Work
      <4>2. LaneOf' = cpy
        BY <1>1, <4>1 DEF LaneOf
      <4> QED BY <2>2, <4>1, <4>2
    <3>2. CASE pc = "copy"
      <4>1. pc' = "sub" /\ todo' = sub
        BY <3>2, NextStages DEF Work
      <4>2. LaneOf' = sub
        BY <1>1, <4>1 DEF LaneOf
      <4> QED BY <2>2, <4>1, <4>2
    <3>3. CASE pc \in {"sub", "header"}
      BY <3>3, NextStages
    <3> QED BY <1>8, <3>1, <3>2, <3>3
  <2> HIDE DEF StreamsRight, Proper, AskedFor
  <2> QED BY <1>2, <1>3, <2>1, <2>2, <2>3, <2>4 DEF StreamInv
<1>9. pc # "trailer"
  BY NextStages
<1> QED BY <1>6, <1>7, <1>8, <1>9, NextStages

\* Headers and trailers leave each entry its stream.
LEMMA StreamWritten ==
  ASSUME MuxInv, StreamInv, WriteHeader \/ WriteTrailer, pc' # "end"
  PROVE  StreamInv'
<1>1. /\ pc \in {"header", "trailer"} /\ pc' = pc /\ UNCHANGED job
      /\ \/ mux' = [mux EXCEPT ![todo[1]] = [streams |-> Tagged(todo[1]), at |-> "header"]]
         \/ mux' = [mux EXCEPT ![todo[1]].at = "trailer"]
         \/ UNCHANGED mux
  BY InHeader, InTrailer
<1>2. DOMAIN mux' = DOMAIN mux
  BY <1>1
<1>3. ASSUME NEW j \in DOMAIN mux PROVE mux'[j].streams \in {mux[j].streams, Tagged(j)}
  <2>1. mux[j] = [streams |-> mux[j].streams, at |-> mux[j].at]
    BY DEF MuxInv, Muxer
  <2> HIDE DEF Tagged
  <2>2. CASE mux' = [mux EXCEPT ![todo[1]] = [streams |-> Tagged(todo[1]), at |-> "header"]]
    <3>1. CASE j = todo[1]
      <4>1. mux'[j] = [streams |-> Tagged(j), at |-> "header"]
        BY <2>2, <3>1
      <4> QED BY <4>1
    <3>2. CASE j # todo[1]
      BY <2>2, <3>2
    <3> QED BY <3>1, <3>2
  <2>3. CASE mux' = [mux EXCEPT ![todo[1]].at = "trailer"]
    <3>1. CASE j = todo[1]
      <4>1. mux'[j] = [mux[j] EXCEPT !.at = "trailer"]
        BY <2>3, <3>1
      <4> QED BY <2>1, <4>1
    <3>2. CASE j # todo[1]
      BY <2>3, <3>2
    <3> QED BY <3>1, <3>2
  <2> QED BY <1>1, <2>2, <2>3
<1>4. StreamsRight' /\ Got' = Got
  BY <1>1, <1>2, <1>3, SameKeys DEF StreamInv
<1>5. AskedFor' = AskedFor
  BY <1>1, JobStays
<1>6. Left = {} /\ Left' = {}
  BY <1>1 DEF Left
<1>7. pc \in Sunk /\ pc' \in Sunk /\ pc' \notin {"encode", "copy", "sub"}
  BY <1>1, StagesOfLanes
<1>8. Got' \cup Left' = AskedFor' /\ Got' \cap Left' = {}
  BY <1>4, <1>5, <1>6, <1>7 DEF StreamInv
<1> HIDE DEF StreamsRight, Got, Left, AskedFor
<1> QED BY <1>4, <1>7, <1>8 DEF StreamInv

\* Every step keeps each entry its stream, or its place in what is left.
LEMMA StreamInvNext ==
  ASSUME JobInv, MuxInv, MapsClear(job), pc \in Mapped => MapsGiven,
         DescInv, SinkInv, StreamInv, [Next]_vars, pc # "end", pc' # "end"
  PROVE  StreamInv'
<1>1. UNCHANGED job
  BY GoingOn
<1>2. AskedFor' = AskedFor
  BY <1>1, JobStays
<1>3. ASSUME UNCHANGED mux PROVE StreamsRight' /\ Got' = Got
  <2>1. StreamsRight /\ \A i, r : RightStream(i, r)' = RightStream(i, r) /\ Outputs' = Outputs
    BY <1>1, JobStays DEF StreamInv
  <2>2. StreamsRight'
    <3> HIDE DEF RightStream
    <3> QED BY <1>3, <2>1 DEF StreamsRight
  <2> QED BY <1>3, <2>2 DEF Got
<1>4. ASSUME UNCHANGED mux, pc \notin {"end"} \cup Sunk, pc' \notin {"end"} \cup Sunk
      PROVE  StreamInv'
  <2>1. pc' \notin {"encode", "copy", "sub"} /\ Got = {}
    BY <1>4, StagesOfLanes DEF StreamInv
  <2> HIDE DEF StreamsRight, Got
  <2> QED BY <1>3, <1>4, <2>1 DEF StreamInv
<1>5. CASE UNCHANGED <<pc, todo, libavVars>>
  <2>1. UNCHANGED <<pc, todo, gout, cpy, sub, mux>>
    BY <1>5 DEF libavVars
  <2>2. Left' = Left
    BY <2>1 DEF Left, OfSink, OfDesc
  <2>3. LaneOf' = LaneOf
    BY <2>1 DEF LaneOf
  <2> HIDE DEF StreamsRight, Got, Left, LaneOf, AskedFor, Proper
  <2> QED BY <1>2, <1>3, <2>1, <2>2, <2>3 DEF StreamInv
<1>6. CASE /\ pc \in {"install", "gate", "probe"} /\ pc' \in {"gate", "probe", "out", "parse"}
           /\ UNCHANGED libavVars
  BY <1>4, <1>6, StagesOfLanes DEF libavVars
<1>7. CASE /\ pc' = Following(pc) /\ pc \in ToSet(Stages) \ {"run", "end"}
           /\ todo = <<>> /\ todo' = Work(Following(pc)) /\ UNCHANGED libavVars
  <2>1. CASE pc \in Mapped
    BY <1>1, <1>7, <2>1, StreamStage
  <2>2. CASE pc \notin Mapped
    <3>1. pc \notin {"end"} \cup Sunk /\ pc' \notin {"end"} \cup Sunk
      BY <1>7, <2>2, NextStages, StagesOfLanes
    <3> QED BY <1>4, <1>7, <3>1 DEF libavVars
  <2> QED BY <2>1, <2>2
<1>8. CASE pc \in {"parse", "open"} /\ UNCHANGED <<pc, libavVars>>
  BY <1>4, <1>8, StagesOfLanes DEF libavVars
<1>9. CASE AddDescriptor \/ AddSource \/ AddSink
  <2>1. pc' = pc /\ pc \in {"map", "source", "sink"} /\ UNCHANGED mux
    BY <1>9, InMap, InSource, InSink
  <2> QED BY <1>4, <2>1, StagesOfLanes
<1>10. CASE OpenEncoder \/ SetupCopy \/ SetupSub
  BY <1>10, StreamEncoded, StreamCopied, StreamTranscoded
<1>11. CASE WriteHeader \/ WriteTrailer
  BY <1>11, StreamWritten
<1>12. CASE pc = "run" /\ pc' = "trailer" /\ UNCHANGED libavVars
  <2>1. Left = {} /\ Left' = {}
    BY <1>12 DEF Left
  <2>2. UNCHANGED mux /\ pc \in Sunk /\ pc' \in Sunk /\ pc' \notin {"encode", "copy", "sub"}
    BY <1>12, StagesOfLanes DEF libavVars
  <2> HIDE DEF StreamsRight, Got, Left, LaneOf, AskedFor, Proper
  <2> QED BY <1>2, <1>3, <2>1, <2>2 DEF StreamInv
<1> HIDE DEF StreamInv
<1> QED BY <1>5, <1>6, <1>7, <1>8, <1>9, <1>10, <1>11, <1>12, GoingOn

-----------------------------------------------------------------------------
(* What is looked at on the way *)

\* An input whose turn is over had no option left.
LEMMA InputLookedAt ==
  ASSUME OpenInput, pc' # "end"
  PROVE  /\ pc = "open" /\ pc' = pc /\ todo # <<>> /\ todo' = Tail(todo) /\ UNCHANGED <<job, libavVars>>
         /\ ~Unconsumed(Inputs[todo[1]])
<1>1. /\ pc = "open" /\ todo # <<>> /\ UNCHANGED <<job, libavVars>>
      /\ Fail \/ (Step /\ ~Unconsumed(Inputs[todo[1]]))
  <2> HIDE DEF Fail, Step, Refused, Unconsumed, Set, LeftByOpen, LeftByLibav
  <2> QED BY DEF OpenInput, Doing
<1> QED BY <1>1 DEF Fail, Step

\* An `open` that goes on.
LEMMA AtOpen ==
  ASSUME [Next]_vars, pc = "open", pc' # "end"
  PROVE  UNCHANGED <<pc, todo>> \/ OpenInput \/ (pc' = "map" /\ todo = <<>>)
<1>1. CASE Install \/ ProbeInput \/ ProbeReply
  BY <1>1 DEF Install, ProbeInput, ProbeReply
<1>2. CASE Gate
  BY <1>2, GateCases
<1>3. CASE NextStage
  BY <1>3, NextOfStage, NextStages DEF Fail
<1>4. CASE \/ ParseOutput \/ AddDescriptor \/ AddSource \/ AddSink \/ OpenEncoder \/ SetupCopy \/ SetupSub
           \/ WriteHeader \/ WriteTrailer
  BY <1>4 DEF ParseOutput, AddDescriptor, AddSource, AddSink, OpenEncoder, SetupCopy, SetupSub,
              WriteHeader, WriteTrailer, Doing
<1>5. CASE Packet \/ LoopEnds \/ CallFails \/ Cleanup
  BY <1>5 DEF Packet, LoopEnds, CallFails, Cleanup
<1>6. CASE UNCHANGED vars
  BY <1>6 DEF vars, jobVars
<1> QED BY <1>1, <1>2, <1>3, <1>4, <1>5, <1>6 DEF Next, OpProcess

\* What is left of the first n numbers, as a list.
LEMMA RestIsList ==
  ASSUME NEW n \in Nat, NEW m \in 0..n
  PROVE  IsList(Rest(n, m)) /\ ToSet(Rest(n, 0)) = 1..n
<1>1. Rest(n, m) \in Seq(Nat)
  BY DEF Rest
<1>2. ToSet(Rest(n, 0)) = 1..n
  BY DEF Rest, ToSet
<1> QED BY <1>1, <1>2, ListIs

\* Every step keeps that the maps were looked at.
LEMMA MapsLookedNext ==
  ASSUME MapsLooked, [Next]_vars, pc # "end", pc' # "end"
  PROVE  MapsLooked'
<1>1. UNCHANGED job
  BY GoingOn
<1>2. MapsGiven' = MapsGiven
  BY <1>1 DEF MapsGiven, Outputs
<1>3. \/ pc' = pc
      \/ pc' \in {"gate", "probe", "out", "parse"}
      \/ pc = "run" /\ pc' = "trailer"
      \/ pc' = Following(pc) /\ pc \in ToSet(Stages) \ {"run", "end"} /\ Passes(pc)
  <2>1. CASE AddDescriptor \/ AddSource \/ AddSink
    BY <2>1, InMap, InSource, InSink
  <2>2. CASE OpenEncoder \/ SetupCopy \/ SetupSub
    BY <2>2, InEncode, InCopy, InSub
  <2>3. CASE WriteHeader \/ WriteTrailer
    BY <2>3, InHeader, InTrailer
  <2> QED BY <2>1, <2>2, <2>3, GoingOn
<1>4. CASE pc' = Following(pc) /\ pc \in ToSet(Stages) \ {"run", "end"} /\ Passes(pc)
  <2>1. CASE pc = "parse"
    <3>1. MapsGiven
      BY <1>4, <2>1 DEF Passes, MapsGiven
    <3> QED BY <1>2, <3>1 DEF MapsLooked
  <2>2. CASE pc # "parse"
    BY <1>2, <1>4, <2>2, NextStages, StagesOfLanes DEF MapsLooked
  <2> QED BY <2>1, <2>2
<1> QED BY <1>2, <1>3, <1>4, StagesOfLanes DEF MapsLooked

\* Every step keeps that the inputs gone through had no option left.
LEMMA OptionsLookedNext ==
  ASSUME ClosedInv, OptionsLooked, [Next]_vars, pc # "end", pc' # "end"
  PROVE  OptionsLooked'
<1>1. UNCHANGED job
  BY GoingOn
<1>2. Inputs' = Inputs
  BY <1>1, JobStays
<1> SUFFICES ASSUME NEW k \in DOMAIN Inputs,
                    (pc' = "open" /\ k \notin ToSet(todo')) \/ pc' \in {"map"} \cup Mapped
             PROVE  ~Unconsumed(Inputs[k])
  BY <1>2 DEF OptionsLooked, Unconsumed
<1>3. DOMAIN Inputs = 1..Len(Inputs) /\ Len(Inputs) \in Nat
  BY DEF ClosedInv, JobInv
<1>4. CASE pc \in {"map"} \cup Mapped
  BY <1>4, StagesOfLanes DEF OptionsLooked
<1>5. CASE pc = "open"
  <2>1. CASE UNCHANGED <<pc, todo>>
    BY <1>5, <2>1, StagesOfLanes DEF OptionsLooked
  <2>2. CASE OpenInput
    <3>1. pc' = "open" /\ todo # <<>> /\ todo' = Tail(todo) /\ ~Unconsumed(Inputs[todo[1]])
      BY <1>5, <2>2, InputLookedAt
    <3>2. IsList(todo)
      BY <1>3, <1>5, RestIsList, StageNames DEF ClosedInv, PlaceInv
    <3>3. ToSet(todo) = ToSet(todo') \cup {todo[1]}
      BY <3>1, <3>2, TailWithin
    <3>4. k \notin ToSet(todo')
      BY <3>1, StagesOfLanes
    <3> QED BY <1>5, <3>1, <3>3, <3>4 DEF OptionsLooked
  <2>3. CASE pc' = "map" /\ todo = <<>>
    BY <1>5, <2>3, EmptyIsProper DEF OptionsLooked
  <2> QED BY <1>5, <2>1, <2>2, <2>3, AtOpen
<1>6. CASE pc \notin {"open", "map"} \cup Mapped
  <2>1. \/ pc' = pc
        \/ pc' \in {"gate", "probe", "out", "parse"}
        \/ pc' = Following(pc) /\ pc \in ToSet(Stages) \ {"run", "end"} /\ todo' = Work(Following(pc))
    <3>1. CASE AddDescriptor \/ AddSource \/ AddSink
      BY <1>6, <3>1, InMap, InSource, InSink
    <3>2. CASE OpenEncoder \/ SetupCopy \/ SetupSub
      BY <3>2, InEncode, InCopy, InSub
    <3>3. CASE WriteHeader \/ WriteTrailer
      BY <3>3, InHeader, InTrailer
    <3> QED BY <1>6, <3>1, <3>2, <3>3, GoingOn, StagesOfLanes
  <2>2. pc = "parse" /\ pc' = "open" /\ todo' = Work("open")
    BY <1>6, <2>1, NextStages, StagesOfLanes
  <2>3. Work("open") = Rest(Len(Inputs), 0)
    BY <1>3, IndicesAre DEF Work
  <2>4. ToSet(todo') = DOMAIN Inputs
    BY <1>3, <2>2, <2>3, RestIsList
  <2> QED BY <2>2, <2>4, StagesOfLanes
<1> QED BY <1>4, <1>5, <1>6

\* One header tells the metadata of its streams, and looks at the options of its muxer.
LEMMA HeaderLookedAt ==
  ASSUME ClosedInv, MuxInv, StreamsRight, HeadersLooked, WriteHeader, pc' # "end"
  PROVE  HeadersLooked'
<1>1. /\ pc = "header" /\ pc' = pc /\ todo # <<>> /\ todo' = Tail(todo) /\ UNCHANGED job
      /\ Outputs[todo[1]].opts["muxer"] \subseteq Knows["muxer"]
      /\ mux' = [mux EXCEPT ![todo[1]] = [streams |-> Tagged(todo[1]), at |-> "header"]]
  BY InHeader
<1>2. Outputs' = Outputs /\ DOMAIN mux = DOMAIN Outputs
  BY <1>1, JobStays DEF StreamsRight
<1>3. ToSet(todo) = ToSet(todo') \cup {todo[1]}
  <2>1. Len(Outputs) \in Nat
    BY DEF ClosedInv, JobInv
  <2>2. PICK m \in 0..Len(Outputs) : todo = Rest(Len(Outputs), m)
    BY <1>1 DEF ClosedInv, PlaceInv
  <2>3. IsList(todo)
    BY <2>1, <2>2, RestIsList
  <2> QED BY <1>1, <2>3, TailWithin
<1> SUFFICES ASSUME NEW j \in DOMAIN Outputs, j \notin ToSet(todo') PROVE HeaderDone(j)'
  BY <1>1, <1>2 DEF HeadersLooked
<1>4. CASE j = todo[1]
  <2>1. mux'[j] = [streams |-> Tagged(j), at |-> "header"]
    <3> HIDE DEF Tagged
    <3> QED BY <1>1, <1>2, <1>4
  <2>2. mux'[j].streams = Tagged(j)
    BY <2>1
  <2>3. /\ DOMAIN Tagged(j) = DOMAIN mux[j].streams
        /\ \A n \in DOMAIN mux[j].streams :
             /\ Tagged(j)[n].key = mux[j].streams[n].key
             /\ Tagged(j)[n].meta = (mux[j].streams[n].key \in Outputs[j].meta)
    BY <1>2, TaggedIs
  <2> HIDE DEF Tagged
  <2> QED BY <1>1, <1>2, <1>4, <2>2, <2>3 DEF HeaderDone
<1>5. CASE j # todo[1]
  <2>1. HeaderDone(j)
    BY <1>1, <1>3, <1>5 DEF HeadersLooked
  <2>2. mux'[j] = mux[j]
    BY <1>1, <1>2, <1>5
  <2> QED BY <1>2, <2>1, <2>2 DEF HeaderDone
<1> QED BY <1>4, <1>5

\* Every step keeps that of the headers gone through.
LEMMA HeadersLookedNext ==
  ASSUME ClosedInv, MuxInv, StreamsRight, HeadersLooked, [Next]_vars, pc # "end", pc' # "end"
  PROVE  HeadersLooked'
<1>1. UNCHANGED job /\ Outputs' = Outputs
  BY GoingOn, JobStays
<1>2. ASSUME \A j \in DOMAIN Outputs : mux'[j].streams = mux[j].streams,
             \/ pc' \notin {"header", "run", "trailer"}
             \/ pc \in {"run", "trailer"}
             \/ pc = "header" /\ todo = <<>>
             \/ pc' = pc /\ todo' = todo
      PROVE  HeadersLooked'
  <2> SUFFICES ASSUME NEW j \in DOMAIN Outputs,
                      (pc' = "header" /\ j \notin ToSet(todo')) \/ pc' \in {"run", "trailer"}
               PROVE  HeaderDone(j)'
    BY <1>1 DEF HeadersLooked
  <2>1. HeaderDone(j)
    BY <1>2, EmptyIsProper DEF HeadersLooked
  <2> QED BY <1>1, <1>2, <2>1 DEF HeaderDone
<1>3. ASSUME UNCHANGED mux PROVE \A j \in DOMAIN Outputs : mux'[j].streams = mux[j].streams
  BY <1>3
<1>4. CASE UNCHANGED <<pc, todo, libavVars>>
  BY <1>2, <1>4 DEF libavVars
<1>5. CASE /\ pc \in {"install", "gate", "probe"} /\ pc' \in {"gate", "probe", "out", "parse"}
           /\ UNCHANGED libavVars
  BY <1>2, <1>5 DEF libavVars
<1>6. CASE /\ pc' = Following(pc) /\ pc \in ToSet(Stages) \ {"run", "end"}
           /\ todo = <<>> /\ todo' = Work(Following(pc)) /\ UNCHANGED libavVars
  <2>1. CASE pc = "sub"
    <3>1. pc' = "header" /\ todo' = Work("header")
      BY <1>6, <2>1, NextStages
    <3>2. Work("header") = Rest(Len(Outputs), 0) /\ Len(Outputs) \in Nat /\ DOMAIN Outputs = 1..Len(Outputs)
      BY IndicesAre DEF Work, ClosedInv, JobInv
    <3>3. ToSet(todo') = DOMAIN Outputs
      BY <3>1, <3>2, RestIsList
    <3> QED BY <1>1, <3>1, <3>3 DEF HeadersLooked
  <2>2. CASE pc # "sub"
    <3>1. pc' \notin {"header", "run", "trailer"} \/ (pc = "header" /\ todo = <<>>)
      BY <1>6, <2>2, NextStages
    <3> QED BY <1>2, <1>6, <3>1 DEF libavVars
  <2> QED BY <2>1, <2>2
<1>7. CASE pc \in {"parse", "open"} /\ UNCHANGED <<pc, libavVars>>
  BY <1>2, <1>7 DEF libavVars
<1>8. CASE AddDescriptor \/ AddSource \/ AddSink \/ OpenEncoder \/ SetupCopy \/ SetupSub
  <2>1. pc' \notin {"header", "run", "trailer"}
    BY <1>8, InMap, InSource, InSink, InEncode, InCopy, InSub
  <2> QED BY <2>1 DEF HeadersLooked
<1>9. CASE WriteHeader
  BY <1>9, HeaderLookedAt
<1>10. CASE WriteTrailer
  <2>1. mux' = [mux EXCEPT ![todo[1]].at = "trailer"] \/ UNCHANGED mux
    BY <1>10, InTrailer
  <2>2. ASSUME NEW j \in DOMAIN Outputs PROVE mux'[j].streams = mux[j].streams
    <3>1. mux[j] = [streams |-> mux[j].streams, at |-> mux[j].at]
      BY DEF MuxInv, Muxer, StreamsRight
    <3>2. CASE j = todo[1] /\ mux' = [mux EXCEPT ![todo[1]].at = "trailer"]
      <4>1. mux'[j] = [mux[j] EXCEPT !.at = "trailer"]
        BY <3>2 DEF StreamsRight
      <4> QED BY <3>1, <4>1
    <3>3. CASE ~(j = todo[1] /\ mux' = [mux EXCEPT ![todo[1]].at = "trailer"])
      BY <2>1, <3>3 DEF StreamsRight
    <3> QED BY <3>2, <3>3
  <2>3. pc = "trailer"
    BY <1>10, InTrailer
  <2> QED BY <1>2, <2>2, <2>3
<1>11. CASE pc = "run" /\ pc' = "trailer" /\ UNCHANGED libavVars
  BY <1>2, <1>11 DEF libavVars
<1> HIDE DEF HeadersLooked
<1> QED BY <1>4, <1>5, <1>6, <1>7, <1>8, <1>9, <1>10, <1>11, GoingOn

-----------------------------------------------------------------------------
(* The invariant of the lanes *)

\* An operation that is over stays so.
LEMMA NeverOut == ASSUME [Next]_vars, pc = "end" PROVE pc' = "end"
<1>1. CASE Install \/ Gate \/ ProbeInput \/ ProbeReply
  BY <1>1 DEF Install, Gate, ProbeInput, ProbeReply
<1>2. CASE NextStage
  BY <1>2, NextOfStage DEF Fail
<1>3. CASE \/ ParseOutput \/ OpenInput \/ AddDescriptor \/ AddSource \/ AddSink \/ OpenEncoder \/ SetupCopy
           \/ SetupSub \/ WriteHeader \/ WriteTrailer
  BY <1>3 DEF ParseOutput, OpenInput, AddDescriptor, AddSource, AddSink, OpenEncoder, SetupCopy, SetupSub,
              WriteHeader, WriteTrailer, Doing
<1>4. CASE Packet \/ LoopEnds \/ CallFails \/ Cleanup
  BY <1>4 DEF Packet, LoopEnds, CallFails, Cleanup
<1>5. CASE UNCHANGED vars
  BY <1>5 DEF vars, jobVars
<1> QED BY <1>1, <1>2, <1>3, <1>4, <1>5 DEF Next, OpProcess

\* Of a job whose maps are clear, until it ends.
LaneInv == MapsClear(job) /\ pc # "end" => DescInv /\ SinkInv /\ StreamInv /\ LookedInv

\* It holds at the start,
LEMMA LaneInvInit == Init => LaneInv
<1> SUFFICES ASSUME Init PROVE LaneInv
  OBVIOUS
<1>1. /\ pc = "install" /\ todo = <<>> /\ gout = <<>> /\ cpy = <<>> /\ sub = <<>>
      /\ mux = [j \in DOMAIN Outputs |-> [streams |-> <<>>, at |-> "none"]]
  BY DEF Init, Outputs
<1>2. DescInv /\ SinkInv
  BY <1>1, StagesOfLanes DEF DescInv, SinkInv
<1>3. DOMAIN mux = DOMAIN Outputs /\ \A j \in DOMAIN mux : mux[j].streams = <<>>
  BY <1>1
<1>4. IsList(<<>>) /\ DOMAIN <<>> = {}
  BY EmptyIsProper DEF Proper
<1>5. StreamsRight /\ Got = {}
  <2> HIDE DEF RightStream
  <2> QED BY <1>3, <1>4 DEF StreamsRight, Got
<1>6. StreamInv
  <2> HIDE DEF StreamsRight, Got
  <2> QED BY <1>1, <1>5, StagesOfLanes DEF StreamInv
<1>7. LookedInv
  BY <1>1, StagesOfLanes DEF LookedInv, MapsLooked, OptionsLooked, HeadersLooked
<1> QED BY <1>2, <1>6, <1>7 DEF LaneInv

\* and every step keeps it.
LEMMA LaneInvNext == ClosedInv /\ MuxInv /\ LaneInv /\ [Next]_vars => LaneInv'
<1> SUFFICES ASSUME ClosedInv, MuxInv, LaneInv, [Next]_vars, MapsClear(job)', pc' # "end" PROVE LaneInv'
  BY DEF LaneInv
<1>1. UNCHANGED job
  BY GoingOn
<1>2. MapsClear(job)
  BY <1>1
<1>3. pc # "end"
  <2> SUFFICES ASSUME pc = "end" PROVE FALSE
    OBVIOUS
  <2> QED BY NeverOut
<1>4. DescInv /\ SinkInv /\ StreamInv /\ LookedInv /\ JobInv
  BY <1>2, <1>3 DEF LaneInv, ClosedInv
<1>5. pc \in Mapped => MapsGiven
  BY <1>4 DEF LookedInv, MapsLooked
<1>6. DescInv'
  BY <1>2, <1>3, <1>4, DescInvNext
<1>7. SinkInv'
  BY <1>2, <1>3, <1>4, SinkInvNext
<1>8. StreamInv'
  BY <1>2, <1>3, <1>4, <1>5, StreamInvNext
<1>9. LookedInv'
  <2>1. MapsLooked /\ OptionsLooked /\ HeadersLooked /\ StreamsRight
    BY <1>4 DEF LookedInv, StreamInv
  <2>2. MapsLooked' /\ OptionsLooked' /\ HeadersLooked'
    BY <1>3, <2>1, MapsLookedNext, OptionsLookedNext, HeadersLookedNext
  <2> QED BY <2>2 DEF LookedInv
<1> QED BY <1>6, <1>7, <1>8, <1>9 DEF LaneInv

-----------------------------------------------------------------------------
(* A job that was accepted *)

\* In a job that was accepted every entry has its stream, and every stream its entry.
LEMMA EntriesServed ==
  ASSUME StreamInv, LookedInv, Accepted, NEW j \in DOMAIN Outputs
  PROVE  LET s == mux[j].streams IN
         /\ IsList(s) /\ \A m, n \in DOMAIN s : s[m].key = s[n].key => m = n
         /\ \A n \in DOMAIN s : s[n].key \in Entries(j)
         /\ \A e \in Entries(j) : \E n \in DOMAIN s : s[n].key = e
         /\ \A n \in DOMAIN s : /\ RightStream(j, s[n]) /\ s[n].how = Lane(j, s[n].key).how
                                /\ s[n].meta <=> s[n].key \in Outputs[j].meta
<1> DEFINE s == mux[j].streams
<1>1. Left = {} /\ pc \in Sunk
  BY StagesOfLanes DEF Accepted, Left
<1>2. Got = AskedFor /\ j \in DOMAIN mux /\ StreamsRight
  BY <1>1 DEF StreamInv, StreamsRight
<1>3. /\ IsList(s) /\ \A m, n \in DOMAIN s : s[m].key = s[n].key => m = n
      /\ \A n \in DOMAIN s : RightStream(j, s[n])
  BY <1>2 DEF StreamsRight
<1>4. ASSUME NEW n \in DOMAIN s PROVE s[n].key \in Entries(j)
  <2> DEFINE q == <<j, s[n].key>>
  <2>1. q \in Got
    BY <1>2 DEF Got
  <2>2. q[2] \in Entries(q[1])
    BY <1>2, <2>1, AskedIs
  <2> QED BY <2>2
<1>5. ASSUME NEW e \in Entries(j) PROVE \E n \in DOMAIN s : s[n].key = e
  <2>1. <<j, e>> \in Got
    BY <1>2, AskedIs
  <2>2. PICK i \in DOMAIN mux : \E n \in DOMAIN mux[i].streams : <<j, e>> = <<i, mux[i].streams[n].key>>
    BY <2>1 DEF Got
  <2>3. PICK n \in DOMAIN mux[i].streams : <<j, e>> = <<i, mux[i].streams[n].key>>
    BY <2>2
  <2>4. i = j /\ e = mux[i].streams[n].key
    BY <2>3
  <2> QED BY <2>4
<1>6. \A n \in DOMAIN s : s[n].meta <=> s[n].key \in Outputs[j].meta
  BY DEF LookedInv, HeadersLooked, HeaderDone, Accepted
<1>7. ASSUME NEW n \in DOMAIN s PROVE s[n].how = Lane(j, s[n].key).how
  <2>1. [how |-> s[n].how, src |-> s[n].src] = Lane(j, s[n].key)
    BY <1>3 DEF RightStream
  <2>2. [how |-> s[n].how, src |-> s[n].src].how = s[n].how
    OBVIOUS
  <2> QED BY <2>1, <2>2
<1> HIDE DEF s, RightStream
<1>8. /\ IsList(s) /\ \A m, n \in DOMAIN s : s[m].key = s[n].key => m = n
      /\ \A n \in DOMAIN s : s[n].key \in Entries(j)
      /\ \A e \in Entries(j) : \E n \in DOMAIN s : s[n].key = e
      /\ \A n \in DOMAIN s : /\ RightStream(j, s[n]) /\ s[n].how = Lane(j, s[n].key).how
                             /\ s[n].meta <=> s[n].key \in Outputs[j].meta
  BY <1>3, <1>4, <1>5, <1>6, <1>7
<1> QED BY <1>8 DEF s

\* As many streams as entries.
LEMMA EntriesCounted ==
  ASSUME StreamInv, LookedInv, Accepted, NEW j \in DOMAIN Outputs
  PROVE  Len(mux[j].streams) = Cardinality(Entries(j))
<1> DEFINE s == mux[j].streams
           E == Entries(j)
           N == 1..Len(s)
           f == [n \in N |-> s[n].key]
<1>1. /\ IsList(s) /\ \A m, n \in DOMAIN s : s[m].key = s[n].key => m = n
      /\ \A n \in DOMAIN s : s[n].key \in E
      /\ \A e \in E : \E n \in DOMAIN s : s[n].key = e
  BY EntriesServed
<1>2. Len(s) \in Nat /\ DOMAIN s = N
  BY <1>1, ListIs
<1> HIDE DEF s, E
<1>3. f \in Bijection(N, E)
  BY <1>1, <1>2 DEF Bijection, Injection, Surjection, IsInjective
<1>4. ExistsBijection(N, E)
  BY <1>3 DEF ExistsBijection
<1>5. IsFiniteSet(N) /\ Cardinality(N) = Len(s)
  <2>1. IsFiniteSet(N) /\ Cardinality(N) = IF 1 > Len(s) THEN 0 ELSE Len(s) - 1 + 1
    BY <1>2, FS_Interval
  <2> QED BY <1>2, <2>1
<1>6. Cardinality(E) = Cardinality(N)
  <2> HIDE DEF N
  <2> QED BY <1>4, <1>5, FS_Bijection
<1> QED BY <1>5, <1>6 DEF s, E

\* It gives what is said of the streams of a job that was accepted.
LEMMA AsAsked == ASSUME StreamInv, LookedInv PROVE StreamsAsAsked
<1> SUFFICES ASSUME Accepted, NEW j \in DOMAIN Outputs
             PROVE  LET got == mux[j].streams IN
                    /\ Len(got) = Cardinality(Entries(j))
                    /\ \A e \in Entries(j) : \E n \in DOMAIN got :
                         /\ got[n].key = e
                         /\ [how |-> got[n].how, src |-> got[n].src] = Lane(j, e)
                         /\ got[n].meta <=> e \in Outputs[j].meta
                         /\ got[n].bsf <=> (e \in Outputs[j].bsf /\ got[n].how = "copy")
  BY DEF StreamsAsAsked
<1> DEFINE s == mux[j].streams
<1>0. \A n \in DOMAIN s : /\ RightStream(j, s[n]) /\ s[n].how = Lane(j, s[n].key).how
                          /\ s[n].meta <=> s[n].key \in Outputs[j].meta
  BY EntriesServed
<1>1. ASSUME NEW e \in Entries(j)
      PROVE  \E n \in DOMAIN s : /\ s[n].key = e
                                 /\ [how |-> s[n].how, src |-> s[n].src] = Lane(j, e)
                                 /\ s[n].meta <=> e \in Outputs[j].meta
                                 /\ s[n].bsf <=> (e \in Outputs[j].bsf /\ s[n].how = "copy")
  <2>1. PICK n \in DOMAIN s : s[n].key = e
    BY EntriesServed
  <2>2. RightStream(j, s[n]) /\ (s[n].meta <=> s[n].key \in Outputs[j].meta)
    BY <1>0
  <2> HIDE DEF s
  <2>3. [how |-> s[n].how, src |-> s[n].src] = Lane(j, e)
    BY <2>1, <2>2 DEF RightStream
  <2>4. s[n].bsf <=> (e \in Outputs[j].bsf /\ s[n].how = "copy")
    BY <2>1, <2>2 DEF RightStream
  <2> QED BY <2>1, <2>2, <2>3, <2>4
<1> QED BY <1>1, EntriesCounted

\* A kind an output encodes has an encoder there.
LEMMA Taker ==
  ASSUME MapsClear(job), StreamInv, LookedInv, Accepted, NEW j \in DOMAIN Outputs,
         NEW t, Encodes(job, Outputs[j], t)
  PROVE  \E st \in ToSet(mux[j].streams) :
           /\ st.how # "copy" /\ st.type = t
           /\ st.given = Given(Outputs[j], t) /\ DOMAIN st.given \subseteq Knows[t]
<1> DEFINE s == mux[j].streams
           o == Outputs[j]
<1>0. \A n \in DOMAIN s : /\ RightStream(j, s[n]) /\ s[n].how = Lane(j, s[n].key).how
                          /\ s[n].meta <=> s[n].key \in Outputs[j].meta
  BY EntriesServed
<1>1. ASSUME NEW n \in DOMAIN s, s[n].how # "copy", s[n].type = t
      PROVE  \E st \in ToSet(s) : /\ st.how # "copy" /\ st.type = t
                                  /\ st.given = Given(o, t) /\ DOMAIN st.given \subseteq Knows[t]
  <2>1. RightStream(j, s[n])
    BY <1>0
  <2>2. s[n] \in ToSet(s)
    BY DEF ToSet
  <2> HIDE DEF s, Given
  <2>3. s[n].given = Given(o, t) /\ DOMAIN s[n].given \subseteq Knows[t]
    BY <1>1, <2>1 DEF RightStream
  <2> QED BY <1>1, <2>2, <2>3
<1>2. ASSUME NEW p \in ToSet(Graph(job).outs), p.type = t, o.map = <<>> \/ Pad(p.label) \in ToSet(o.map)
      PROVE  \E n \in DOMAIN s : s[n].how # "copy" /\ s[n].type = t
  <2>1. Pad(p.label) \in Entries(j)
    BY <1>2, EmptyIsProper DEF Entries
  <2>2. PICK n \in DOMAIN s : s[n].key = Pad(p.label)
    BY <2>1, EntriesServed
  <2>3. RightStream(j, s[n]) /\ s[n].how = Lane(j, s[n].key).how
    BY <1>0
  <2> HIDE DEF s
  <2>4. s[n].how = "encode"
    BY <2>2, <2>3, Hows DEF Lane
  <2>5. PICK r \in ToSet(Graph(job).outs) : s[n].key = Pad(r.label) /\ s[n].type = r.type
    BY <2>3, <2>4 DEF RightStream
  <2>6. r.label = p.label
    BY <2>2, <2>5, Hows
  <2>7. r = p
    BY <2>6, GraphPads
  <2> QED BY <1>2, <2>4, <2>5, <2>7
<1>3. ASSUME t = "s", o.s \notin {"none", "copy"}, NEW e \in ToSet(o.map), e.kind = "stream",
             Inputs[e.in].streams[Resolve(Inputs[e.in].streams, e.type, e.sel)] = "s"
      PROVE  \E n \in DOMAIN s : s[n].how # "copy" /\ s[n].type = t
  <2>1. e \in Entries(j)
    BY <1>3, EmptyIsProper DEF Entries
  <2>2. PICK n \in DOMAIN s : s[n].key = e
    BY <2>1, EntriesServed
  <2>3. RightStream(j, s[n]) /\ s[n].how = Lane(j, s[n].key).how
    BY <1>0
  <2>4. Lane(j, e).how = "sub"
    BY <1>3 DEF Lane, IsPad
  <2> HIDE DEF s
  <2>5. s[n].how = "sub"
    BY <2>2, <2>3, <2>4
  <2>6. s[n].type = "s"
    BY <2>3, <2>5 DEF RightStream
  <2> QED BY <1>3, <2>5, <2>6
<1>4. \E n \in DOMAIN s : s[n].how # "copy" /\ s[n].type = t
  <2>1. CASE \E p \in ToSet(Graph(job).outs) : p.type = t /\ (o.map = <<>> \/ Pad(p.label) \in ToSet(o.map))
    <3> HIDE DEF s, o
    <3> QED BY <1>2, <2>1
  <2>2. CASE /\ t = "s" /\ o.s \notin {"none", "copy"}
             /\ \E e \in ToSet(o.map) :
                  /\ e.kind = "stream"
                  /\ Inputs[e.in].streams[Resolve(Inputs[e.in].streams, e.type, e.sel)] = "s"
    <3> HIDE DEF s, o, Resolve
    <3> QED BY <1>3, <2>2
  <2> QED BY <2>1, <2>2 DEF Encodes, Inputs
<1> HIDE DEF s, o
<1>5. \E st \in ToSet(s) : /\ st.how # "copy" /\ st.type = t
                           /\ st.given = Given(o, t) /\ DOMAIN st.given \subseteq Knows[t]
  BY <1>1, <1>4
<1> QED BY <1>5 DEF s, o

\* It gives what is said of the options of a job that was accepted.
LEMMA Honoured ==
  ASSUME JobInv, MapsClear(job), OptionsTaken(job), StreamInv, LookedInv
  PROVE  OptionsHonoured
<1> SUFFICES ASSUME Accepted PROVE OptionsHonoured
  BY DEF OptionsHonoured
<1>1. ASSUME NEW i \in ToSet(Inputs)
      PROVE  DOMAIN i.opts \subseteq (IF i.kind = "concat" THEN {} ELSE Knows["demuxer"])
  <2>1. PICK k \in DOMAIN Inputs : i = Inputs[k]
    BY DEF ToSet
  <2>2. ~Unconsumed(i)
    BY <2>1, StagesOfLanes DEF LookedInv, OptionsLooked, Accepted
  <2>3. i.kind = "concat" => DOMAIN i.opts = {}
    BY DEF OptionsTaken, Inputs
  <2> QED BY <2>2, <2>3 DEF Unconsumed
<1>2. ASSUME NEW j \in DOMAIN Outputs
      PROVE  LET got == {st \in ToSet(mux[j].streams) : st.how # "copy"}
                 has(st, n) == n \in Knows[st.type] /\ n \in DOMAIN st.given
             IN  /\ Outputs[j].opts["muxer"] \subseteq Knows["muxer"]
                 /\ \A n \in Outputs[j].opts["all"] : \E st \in got : has(st, n)
                 /\ \A t \in {"v", "a", "s"} : \A n \in Outputs[j].opts[t] :
                      \E st \in got : st.type = t /\ has(st, n) /\ st.given[n] = t
  <2> DEFINE o == Outputs[j]
             got == {st \in ToSet(mux[j].streams) : st.how # "copy"}
             has(st, n) == n \in Knows[st.type] /\ n \in DOMAIN st.given
  <2>1. o.opts["muxer"] \subseteq Knows["muxer"]
    BY DEF LookedInv, HeadersLooked, HeaderDone, Accepted
  <2>2. /\ o.opts["all"] # {} => \E t \in {"v", "a", "s"} : Encodes(job, o, t)
        /\ \A t \in {"v", "a", "s"} : o.opts[t] # {} => Encodes(job, o, t)
    <3>1. o \in ToSet(job.outputs)
      BY DEF Outputs, ToSet
    <3> HIDE DEF o
    <3> QED BY <3>1 DEF OptionsTaken
  <2>3. ASSUME NEW t, Encodes(job, o, t)
        PROVE  \E st \in got : /\ st.type = t
                               /\ st.given = Given(o, t) /\ DOMAIN st.given \subseteq Knows[t]
    <3>1. PICK st \in ToSet(mux[j].streams) :
                 /\ st.how # "copy" /\ st.type = t
                 /\ st.given = Given(o, t) /\ DOMAIN st.given \subseteq Knows[t]
      BY <2>3, Taker
    <3> HIDE DEF o
    <3> QED BY <3>1
  <2>4. ASSUME NEW t PROVE /\ DOMAIN Given(o, t) = o.opts["all"] \cup o.opts[t]
                           /\ \A n \in o.opts[t] : Given(o, t)[n] = t
    BY DEF Given
  <2> HIDE DEF o, got
  <2>5. ASSUME NEW n \in o.opts["all"] PROVE \E st \in got : has(st, n)
    <3>1. PICK t \in {"v", "a", "s"} : Encodes(job, o, t)
      BY <2>2
    <3>2. PICK st \in got : st.type = t /\ st.given = Given(o, t) /\ DOMAIN st.given \subseteq Knows[t]
      BY <2>3, <3>1
    <3> QED BY <2>4, <3>2
  <2>6. ASSUME NEW t \in {"v", "a", "s"}, NEW n \in o.opts[t]
        PROVE  \E st \in got : st.type = t /\ has(st, n) /\ st.given[n] = t
    <3>1. Encodes(job, o, t)
      BY <2>2
    <3>2. PICK st \in got : st.type = t /\ st.given = Given(o, t) /\ DOMAIN st.given \subseteq Knows[t]
      BY <2>3, <3>1
    <3> QED BY <2>4, <3>2
  <2> QED BY <2>1, <2>5, <2>6 DEF o, got
<1> QED BY <1>1, <1>2 DEF OptionsHonoured

\* The lanes' invariant, with those it rests on.
LEMMA LaneInvHolds == Spec => [](ClosedInv /\ MuxInv /\ LaneInv)
<1>1. Init => ClosedInv /\ MuxInv /\ LaneInv
  BY TypeInvInit, LaneInvInit DEF TypeInv
<1>2. ClosedInv /\ MuxInv /\ LaneInv /\ [Next]_vars => (ClosedInv /\ MuxInv /\ LaneInv)'
  BY ClosedInvNext, MuxInvNext, LaneInvNext
<1> QED BY <1>1, <1>2, PTL DEF Spec

\* Every output of a job that was accepted has one stream for each of its entries and
\* no other, from the source and on the lane the entry stands for, with its metadata
\* and its bitstream filter: for every job whose maps are clear, however many inputs,
\* outputs and entries there are and whatever else fails (the map of an output,
\* docs/reference/job-spec.md:53; ffmpeg-wasi#21, #40).
THEOREM StreamsKept == Spec => [](MapsClear(job) => StreamsAsAsked)
<1>1. ClosedInv /\ MuxInv /\ LaneInv => (MapsClear(job) => StreamsAsAsked)
  <2> SUFFICES ASSUME LaneInv, MapsClear(job), Accepted PROVE StreamsAsAsked
    BY DEF StreamsAsAsked
  <2>1. pc # "end"
    BY DEF Accepted
  <2> QED BY <2>1, AsAsked DEF LaneInv
<1> QED BY <1>1, LaneInvHolds, PTL

\* No option of a job that was accepted was dropped: each was taken by a component it
\* is addressed to, and that of one kind of encoder wins over that of all
\* (process.c, open_encoder_opts; ffmpeg-wasi#42, #54).
THEOREM OptionsKept == Spec => [](MapsClear(job) /\ OptionsTaken(job) => OptionsHonoured)
<1>1. ClosedInv /\ MuxInv /\ LaneInv => (MapsClear(job) /\ OptionsTaken(job) => OptionsHonoured)
  <2> SUFFICES ASSUME ClosedInv, LaneInv, MapsClear(job), OptionsTaken(job), Accepted PROVE OptionsHonoured
    BY DEF OptionsHonoured
  <2>1. pc # "end"
    BY DEF Accepted
  <2> QED BY <2>1, Honoured DEF LaneInv, ClosedInv
<1> QED BY <1>1, LaneInvHolds, PTL
=============================================================================
