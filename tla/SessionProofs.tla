--------------------------- MODULE SessionProofs ---------------------------
(***************************************************************************)
(* Proofs about a run of the program, for any command lines, any           *)
(* checkpoint, any dense tensors, any ring and any host.                   *)
(*   The pipes: the lines are told apart by the request they are about.    *)
(*   main(): what has been established is stated for each part of it.      *)
(*   The warm-up pass: what its reader has outstanding was submitted since *)
(*   the last drain, so that it fits the ring; the plan is followed        *)
(*   through the sort, the merge and the chunks, each a fold whose         *)
(*   prefixes cover the tensors seen.  The same invariant carries the      *)
(*   refinement of the reader's interface.                                 *)
(*   The budgets: wrapped or not, a wanted size is some size, and each     *)
(*   budget is cut to the RAM beside the reserve, which the floor of two   *)
(*   GiB keeps below the RAM.                                              *)
(*   The index of the weights: of the tensors dispatched to a slot, the    *)
(*   last is there, along any prefix of the tensors found.                 *)
(***************************************************************************)
EXTENDS Session, WeightIndex, FoldLemmas

-----------------------------------------------------------------------------
(* The invariant of the tokenizer's pipes *)

Lines == [for : Nat, what : {"ready", "stray", "none", "whole", "error", "torn"}]

PipeTypes ==
    /\ asked \in Nat /\ late \in Nat
    /\ toChild \in Seq(Nat)
    /\ fromChild \in Seq(Lines)
    /\ reply \in Lines
    /\ child \in {"none", "loading", "serving", "gone"}

\* before a process is there, and once it has torn a line
ChildIsTold ==
    /\ child = "none" => bridge \in {"closed", "failed"}
    /\ bridge = "closed" => /\ child = "none" /\ reply = NoLine
                            /\ toChild = <<>> /\ fromChild = <<>>
    /\ reply.what = "torn" => child = "gone"
    /\ \A i \in DOMAIN fromChild : fromChild[i].what = "torn" => child = "gone"

\* The ready signal is the last line the child has printed, nothing being asked of it.
StartsInOrder ==
    bridge = "starting" =>
        /\ toChild = <<>> /\ reply = NoLine
        /\ \A i \in DOMAIN fromChild :
            fromChild[i] = Ready => i = Len(fromChild) /\ child # "loading"

\* Between requests nothing is in the pipes of a child that lives.
RestsEmpty ==
    bridge = "idle" =>
        /\ child # "loading"
        /\ fromChild = <<>>
        /\ Alive => toChild = <<>>
        /\ reply # NoLine => reply.for = asked

\* The request asked is in one pipe, or its reply in the other.
AsksOnce ==
    bridge = "asking" =>
        /\ child # "loading" /\ reply = NoLine
        /\ \A i \in DOMAIN fromChild : i = 1 /\ fromChild[i].for = asked
        /\ Alive => toChild = IF fromChild = <<>> THEN <<asked>> ELSE <<>>

PipesInv ==
    /\ PipeTypes
    /\ ChildIsTold
    /\ late = 0 => StartsInOrder /\ RestsEmpty /\ AsksOnce

-----------------------------------------------------------------------------
(* The invariant of main() *)

Offloads == cmd.gpuExperts > 0 => gpuOn

Generating == {"loop", "output", "decoded", "shutdown", "leaving", "ended"}

\* What the parts that are over have established for those that are next.
Established ==
    /\ pc \notin {"parse", "configure", "index", "leaving", "ended"} => ~cmd.mtp
    /\ pc \in {"dump", "dump ids", "dump text"} => cmd.dump
    /\ pc \in {"prompt", "encoded", "loop", "output", "decoded", "shutdown"} => Offloads
    /\ pc \in {"parse", "configure"} => ~device /\ ~gpuOn
    /\ device \/ gpuOn => gpu = "cuda"
    /\ CpuOnly => gpu # "cuda"

\* The prompt is there before a token, and torn only by a child that died of it.
PromptIsTold ==
    /\ pc \notin Generating => prompt = "none" /\ ~(made > 0)
    /\ pc = "loop" => prompt \in {"whole", "torn", "empty"}
    /\ made > 0 => prompt \in {"whole", "torn"} /\ Offloads
    /\ prompt = "torn" => child = "gone"

Succeeds ==
    exit = 0 => /\ pc \in {"leaving", "ended"}
                /\ cmd.mode = {} => ~cmd.mtp /\ (Offloads \/ cmd.dump)

MainInv == Established /\ PromptIsTold /\ Succeeds

-----------------------------------------------------------------------------
(* The invariant of the warm-up pass and of its reader *)

Busy == {w \in Workers : worker[w] \in {"calling", "counting"}}

\* A read is in one place.
OnePlace ==
    /\ reading \cap completed = {} /\ reading \cap failed = {} /\ reading \cap lost = {}
    /\ completed \cap failed = {} /\ completed \cap lost = {} /\ failed \cap lost = {}
    /\ \A w \in Busy : job[w] \notin reading \cup completed \cup failed \cup lost
    /\ \A w, v \in Busy : job[w] = job[v] => w = v

\* It is answered when its worker has called, not before.
AnsweredInPlace ==
    /\ answered \cap (reading \cup completed \cup failed \cup lost) = {}
    /\ \A w \in Busy : job[w] \in answered <=> worker[w] = "counting"

WorkerPlaces == {"unborn", "waiting", "calling", "counting", "notifying", "gone"}

ReaderTypes ==
    /\ worker \in [Workers -> WorkerPlaces]
    /\ DOMAIN job = Workers
    /\ submitted \in Nat
    /\ Outstanding \subseteq 1..submitted
    /\ answered \subseteq 1..submitted

CountIsExact == pending = Cardinality(Outstanding)

\* What is outstanding was submitted in the present turn of the ring.
InOneTurn ==
    /\ \A r \in Outstanding : submitted - r < Pool
    /\ warm = "submitting" /\ caller = "free" =>
        \A r \in Outstanding : submitted - r < submitted % Pool
    /\ caller = "drained" => Outstanding = {}

PlanIsFollowed ==
    /\ warm = "idle" => submitted = 0
    /\ warm # "idle" /\ warm # "over" => plan \in Plans
    /\ plan \in Plans \cup {<<>>}
    /\ submitted \in 0..Len(plan)
    /\ warm \in {"last", "stopping"} => submitted = Len(plan)

ReaderInv == ReaderTypes /\ OnePlace /\ AnsweredInPlace /\ CountIsExact

WarmInv == ReaderInv /\ InOneTurn /\ PlanIsFollowed

-----------------------------------------------------------------------------
(* The pipes *)

HostCalls == Spawn \/ SpawnFails \/ Ask \/ Stop \/ CallStep

\* A line at the end of the child's output, and the lines before it.
LEMMA LineAppended ==
    ASSUME NEW lines \in Seq(Lines), NEW line \in Lines
    PROVE  /\ Append(lines, line) \in Seq(Lines)
           /\ Len(Append(lines, line)) = Len(lines) + 1
           /\ Append(lines, line) # <<>>
           /\ DOMAIN Append(lines, line) = 1..(Len(lines) + 1)
           /\ DOMAIN lines = 1..Len(lines) /\ Len(lines) \in Nat
           /\ \A i \in 1..Len(lines) : Append(lines, line)[i] = lines[i]
           /\ Append(lines, line)[Len(lines) + 1] = line
OBVIOUS

\* The first line taken.
LEMMA LineTaken ==
    ASSUME NEW lines \in Seq(Lines), lines # <<>>
    PROVE  /\ Tail(lines) \in Seq(Lines)
           /\ Head(lines) \in Lines /\ Head(lines) = lines[1] /\ 1 \in DOMAIN lines
           /\ Len(lines) \in Nat \ {0} /\ DOMAIN lines = 1..Len(lines)
           /\ Len(Tail(lines)) = Len(lines) - 1
           /\ DOMAIN Tail(lines) = 1..(Len(lines) - 1)
           /\ \A i \in 1..(Len(lines) - 1) : Tail(lines)[i] = lines[i + 1]
OBVIOUS

\* The only line taken.
LEMMA OnlyLineTaken ==
    ASSUME NEW lines \in Seq(Lines), Len(lines) = 1
    PROVE  Tail(lines) = <<>>
<1>1. lines # <<>>
  OBVIOUS
<1>2. Tail(lines) \in Seq(Lines) /\ Len(Tail(lines)) = 0
  BY <1>1, LineTaken
<1> DEFINE rest == Tail(lines)
<1>3. rest \in Seq(Lines) /\ Len(rest) = 0
  BY <1>2
<1> HIDE DEF rest
<1>4. rest = <<>>
  BY <1>3
<1> QED
  BY <1>4 DEF rest

\* The lines left are lines that were there.
LEMMA TailIsTold ==
    ASSUME NEW lines \in Seq(Lines), lines # <<>>, NEW i \in DOMAIN Tail(lines)
    PROVE  \E j \in DOMAIN lines : Tail(lines)[i] = lines[j] /\ j = i + 1
<1> DEFINE n == Len(lines)
           rest == Tail(lines)
<1>1. /\ n \in Nat \ {0} /\ DOMAIN lines = 1..n
      /\ DOMAIN rest = 1..(n - 1)
      /\ \A j \in 1..(n - 1) : rest[j] = lines[j + 1]
  BY LineTaken
<1> HIDE DEF n, rest
<1>2. i \in 1..(n - 1) /\ i + 1 \in 1..n
  BY <1>1 DEF rest
<1> QED
  BY <1>1, <1>2 DEF rest

\* The lines themselves.
LEMMA LinesAre ==
    /\ Ready \in Lines /\ Stray \in Lines /\ NoLine \in Lines
    /\ Ready # Stray /\ Ready # NoLine
    /\ Ready.what # "torn" /\ Stray.what # "torn" /\ NoLine.what # "torn"
    /\ \A n \in Nat : \A what \in {"whole", "error", "torn"} :
        Line(n, what) \in Lines /\ Line(n, what).for = n /\ Line(n, what).what = what
BY DEF Ready, Stray, NoLine, Line, Lines

\* The pipes start closed.
LEMMA PipesBegin == BridgeInit => PipesInv
<1> SUFFICES ASSUME BridgeInit PROVE PipesInv
  OBVIOUS
<1>1. <<>> \in Seq(Nat) /\ <<>> \in Seq(Lines) /\ DOMAIN <<>> = {}
  OBVIOUS
<1>2. PipeTypes
  BY <1>1, LinesAre DEF PipeTypes, BridgeInit
<1>3. ChildIsTold
  BY <1>1, LinesAre DEF ChildIsTold, BridgeInit
<1>4. StartsInOrder /\ RestsEmpty /\ AsksOnce
  BY DEF StartsInOrder, RestsEmpty, AsksOnce, BridgeInit
<1> QED
  BY <1>2, <1>3, <1>4 DEF PipesInv

\* The host's calls keep replies and requests paired.
LEMMA CallsKeepPipes ==
    ASSUME PipesInv, HostCalls
    PROVE  PipesInv'
<1> USE DEF PipesInv, pipes
<1>1. CASE Spawn
  <2>1. PipeTypes'
    BY <1>1 DEF Spawn, PipeTypes
  <2>2. ChildIsTold'
    BY <1>1 DEF Spawn, ChildIsTold, PipeTypes
  <2>3. StartsInOrder' /\ RestsEmpty' /\ AsksOnce'
    BY <1>1 DEF Spawn, ChildIsTold, StartsInOrder, RestsEmpty, AsksOnce
  <2> QED
    BY <2>1, <2>2, <2>3
<1>2. CASE SpawnFails
  BY <1>2 DEF SpawnFails, PipeTypes, ChildIsTold, StartsInOrder, RestsEmpty, AsksOnce, Alive
<1>3. CASE Ask
  <2>1. PipeTypes'
    <3>1. asked' \in Nat /\ Append(toChild, asked') \in Seq(Nat)
      BY <1>3 DEF Ask, PipeTypes
    <3>2. toChild' \in Seq(Nat) /\ UNCHANGED <<late, fromChild, child>> /\ reply' = NoLine
      BY <1>3, <3>1 DEF Ask, PipeTypes
    <3> QED
      BY <3>1, <3>2, LinesAre DEF PipeTypes
  <2>2. ChildIsTold'
    BY <1>3, LinesAre DEF Ask, ChildIsTold, WriteBroken, Alive
  <2>3. ASSUME late' = 0
        PROVE  StartsInOrder' /\ RestsEmpty' /\ AsksOnce'
    <3>1. late = 0 /\ fromChild' = <<>> /\ child' = child /\ child # "loading" /\ reply' = NoLine
      BY <1>3, <2>3 DEF Ask, RestsEmpty
    <3>2. CASE Alive
      BY <3>1, <3>2, <1>3 DEF Ask, StartsInOrder, RestsEmpty, AsksOnce, Alive, PipeTypes
    <3>3. CASE ~Alive
      BY <3>1, <3>3, <1>3 DEF Ask, StartsInOrder, RestsEmpty, AsksOnce, Alive, WriteBroken
    <3> QED
      BY <3>2, <3>3
  <2> QED
    BY <2>1, <2>2, <2>3
<1>4. CASE Stop
  <2>1. <<>> \in Seq(Lines) /\ DOMAIN <<>> = {}
    OBVIOUS
  <2>2. PipeTypes'
    <3>1. Quit \in Nat /\ Append(toChild, Quit) \in Seq(Nat)
      BY DEF PipeTypes, Quit
    <3>2. toChild' \in Seq(Nat) /\ UNCHANGED <<late, asked, reply, child>> /\ fromChild' = <<>>
      BY <1>4, <3>1 DEF Stop, PipeTypes
    <3> QED
      BY <2>1, <3>2 DEF PipeTypes
  <2>3. bridge' \in {"waiting", "failing", "killed"}
    BY <1>4 DEF Stop, WriteBroken
  <2>4. child # "none"
    BY <1>4 DEF Stop, ChildIsTold
  <2>5. ChildIsTold'
    BY <1>4, <2>1, <2>3, <2>4 DEF Stop, ChildIsTold
  <2> QED
    BY <2>2, <2>3, <2>5 DEF StartsInOrder, RestsEmpty, AsksOnce
<1>5. CASE ReadReady
  <2> USE DEF ReadReady
  <2>1. PipeTypes'
    BY <1>5, LineTaken DEF PipeTypes
  <2>2. ChildIsTold'
    <3>1. \A i \in DOMAIN fromChild' : fromChild'[i].what = "torn" => child = "gone"
      BY <1>5, TailIsTold DEF PipeTypes, ChildIsTold
    <3> QED
      BY <1>5, <3>1 DEF ChildIsTold
  <2>3. ASSUME late' = 0
        PROVE  StartsInOrder' /\ RestsEmpty' /\ AsksOnce'
    <3>1. late = 0 /\ StartsInOrder
      BY <1>5, <2>3
    <3>2. CASE Head(fromChild) = Ready
      <4>1. Len(fromChild) = 1 /\ child # "loading"
        BY <1>5, <3>1, <3>2, LineTaken DEF StartsInOrder, PipeTypes
      <4>2. fromChild' = <<>>
        <5>1. Tail(fromChild) = <<>>
          BY <4>1, OnlyLineTaken DEF PipeTypes
        <5> QED
          BY <1>5, <5>1
      <4> QED
        BY <1>5, <3>1, <3>2, <4>1, <4>2 DEF StartsInOrder, RestsEmpty, AsksOnce
    <3>3. CASE Head(fromChild) # Ready
      <4>1. \A i \in DOMAIN fromChild' : fromChild'[i] = Ready => i = Len(fromChild') /\ child # "loading"
        <5>1. SUFFICES ASSUME NEW i \in DOMAIN fromChild', fromChild'[i] = Ready
                       PROVE  i = Len(fromChild') /\ child # "loading"
          OBVIOUS
        <5>2. PICK j \in DOMAIN fromChild : fromChild'[i] = fromChild[j] /\ j = i + 1
          BY <1>5, TailIsTold DEF PipeTypes
        <5>3. j = Len(fromChild) /\ child # "loading"
          BY <3>1, <5>1, <5>2, <1>5 DEF StartsInOrder
        <5>4. Len(fromChild') = Len(fromChild) - 1 /\ Len(fromChild) \in Nat
              /\ DOMAIN fromChild' = 1..(Len(fromChild) - 1)
          BY <1>5, LineTaken DEF PipeTypes
        <5>5. i \in Int
          BY <5>4
        <5> QED
          BY <5>2, <5>3, <5>4, <5>5
      <4> QED
        BY <1>5, <3>1, <3>3, <4>1 DEF StartsInOrder, RestsEmpty, AsksOnce
    <3> QED
      BY <3>2, <3>3
  <2> QED
    BY <2>1, <2>2, <2>3
<1>6. CASE ReadReply
  <2> USE DEF ReadReply
  <2>1. PipeTypes'
    BY <1>6, LineTaken DEF PipeTypes
  <2>2. ChildIsTold'
    <3>1. \A i \in DOMAIN fromChild' : fromChild'[i].what = "torn" => child = "gone"
      BY <1>6, TailIsTold DEF PipeTypes, ChildIsTold
    <3>2. reply'.what = "torn" => child = "gone"
      BY <1>6, TailIsTold DEF PipeTypes, ChildIsTold
    <3> QED
      BY <1>6, <3>1, <3>2 DEF ChildIsTold
  <2>3. ASSUME late' = 0
        PROVE  StartsInOrder' /\ RestsEmpty' /\ AsksOnce'
    <3>1. late = 0 /\ AsksOnce
      BY <1>6, <2>3
    <3>2. reply'.for = asked
      BY <1>6, <3>1, LineTaken DEF AsksOnce, PipeTypes
    <3>3. Len(fromChild) \in DOMAIN fromChild /\ Len(fromChild) \in Nat
      BY <1>6, LineTaken DEF PipeTypes
    <3>4. Len(fromChild) = 1
      BY <1>6, <3>1, <3>3 DEF AsksOnce
    <3>5. fromChild' = <<>>
      <4>1. Tail(fromChild) = <<>>
        BY <3>4, OnlyLineTaken DEF PipeTypes
      <4> QED
        BY <1>6, <4>1
    <3> QED
      BY <1>6, <3>1, <3>2, <3>5 DEF StartsInOrder, RestsEmpty, AsksOnce, Alive
  <2> QED
    BY <2>1, <2>2, <2>3
<1>7. CASE ReplyNever
  <2>1. PipeTypes' /\ ChildIsTold'
    BY <1>7 DEF ReplyNever, PipeTypes, ChildIsTold
  <2>2. ASSUME late' = 0
        PROVE  StartsInOrder' /\ RestsEmpty' /\ AsksOnce'
    BY <1>7, <2>2 DEF ReplyNever, StartsInOrder, RestsEmpty, AsksOnce, Alive
  <2> QED
    BY <2>1, <2>2
<1>8. CASE ReadyNever \/ StopReturns
  <2>1. PipeTypes' /\ ChildIsTold'
    BY <1>8 DEF ReadyNever, StopReturns, PipeTypes, ChildIsTold
  <2>2. bridge' \in {"giving up", "stopped", "failed"}
    BY <1>8 DEF ReadyNever, StopReturns
  <2> QED
    BY <2>1, <2>2 DEF StartsInOrder, RestsEmpty, AsksOnce
<1> QED
  BY <1>1, <1>2, <1>3, <1>4, <1>5, <1>6, <1>7, <1>8 DEF HostCalls, CallStep

\* A line is added to the end of the output, or the child has gone.
LEMMA EmitKeepsTypes ==
    ASSUME PipesInv, NEW line \in Lines, NEW next \in {"loading", "serving", "gone"}, Alive,
           line.what = "torn" => next = "gone",
           Emit(line, next), UNCHANGED <<bridge, reply>>
    PROVE  /\ fromChild' \in Seq(Lines)
           /\ child' \in {"loading", "serving", "gone"}
           /\ ChildIsTold'
<1>1. /\ fromChild \in Seq(Lines) /\ DOMAIN fromChild = 1..Len(fromChild) /\ Len(fromChild) \in Nat
      /\ reply.what # "torn" /\ \A i \in DOMAIN fromChild : fromChild[i].what # "torn"
  BY DEF PipesInv, PipeTypes, ChildIsTold, Alive
<1>2. bridge # "closed"
  BY DEF PipesInv, ChildIsTold, Alive
<1>3. CASE PipesOpen
  <2>1. fromChild' = Append(fromChild, line) /\ child' = next
    BY <1>3 DEF Emit
  <2> DEFINE more == Append(fromChild, line)
  <2>2. /\ more \in Seq(Lines) /\ DOMAIN more = 1..(Len(fromChild) + 1)
        /\ \A i \in 1..Len(fromChild) : more[i] = fromChild[i]
        /\ more[Len(fromChild) + 1] = line
    BY <1>1, LineAppended
  <2> HIDE DEF more
  <2>3. \A i \in DOMAIN more : more[i].what = "torn" => next = "gone"
    BY <1>1, <2>2
  <2>4. fromChild' = more
    BY <2>1 DEF more
  <2> QED
    BY <1>1, <1>2, <2>1, <2>2, <2>3, <2>4 DEF ChildIsTold
<1>4. CASE ~PipesOpen
  BY <1>1, <1>2, <1>4 DEF Emit, ChildIsTold
<1> QED
  BY <1>3, <1>4

\* The child's steps keep replies and requests paired.
LEMMA ChildKeepsPipes ==
    ASSUME PipesInv, ChildStep
    PROVE  PipesInv'
<1> USE DEF PipesInv, pipes
<1>0. DOMAIN fromChild = 1..Len(fromChild) /\ Len(fromChild) \in Nat
  BY DEF PipeTypes
<1>1. CASE PrintStray
  <2>1. PipeTypes' /\ ChildIsTold'
    <3>1. Alive /\ Emit(Stray, child) /\ UNCHANGED <<toChild, bridge, asked, reply>>
      BY <1>1 DEF PrintStray
    <3>2. child \in {"loading", "serving", "gone"} /\ late' \in Nat
      BY <1>1 DEF PrintStray, Alive, PipeTypes
    <3>3. /\ fromChild' \in Seq(Lines) /\ ChildIsTold'
          /\ child' \in {"loading", "serving", "gone"}
      BY <3>1, <3>2, LinesAre, EmitKeepsTypes
    <3> QED
      BY <3>1, <3>2, <3>3 DEF PipeTypes
  <2>2. ASSUME late' = 0
        PROVE  StartsInOrder' /\ RestsEmpty' /\ AsksOnce'
    <3>1. child = "loading" /\ late = 0
      BY <1>1, <2>2 DEF PrintStray, Alive, PipeTypes
    <3>2. bridge # "idle" /\ bridge # "asking" /\ bridge' = bridge
      BY <1>1, <2>2, <3>1 DEF PrintStray, RestsEmpty, AsksOnce
    <3>3. CASE bridge = "starting"
      <4>1. fromChild' = Append(fromChild, Stray) /\ UNCHANGED <<toChild, reply>>
        BY <1>1, <3>3 DEF PrintStray, Emit, PipesOpen
      <4>2. \A i \in 1..Len(fromChild) : fromChild[i] # Ready
        BY <1>0, <3>1, <3>3 DEF StartsInOrder
      <4> DEFINE more == Append(fromChild, Stray)
      <4>3. /\ DOMAIN more = 1..(Len(fromChild) + 1)
            /\ \A i \in 1..Len(fromChild) : more[i] = fromChild[i]
            /\ more[Len(fromChild) + 1] = Stray
        BY LinesAre, LineAppended DEF PipeTypes
      <4> HIDE DEF more
      <4>4. \A i \in DOMAIN more : more[i] # Ready
        BY <1>0, <4>2, <4>3, LinesAre
      <4>5. fromChild' = more
        BY <4>1 DEF more
      <4> QED
        BY <3>1, <3>2, <3>3, <4>1, <4>4, <4>5 DEF StartsInOrder, RestsEmpty, AsksOnce
    <3>4. CASE bridge # "starting"
      BY <3>2, <3>4 DEF StartsInOrder, RestsEmpty, AsksOnce
    <3> QED
      BY <3>3, <3>4
  <2> QED
    BY <2>1, <2>2
<1>2. CASE PrintReady
  <2>1. PipeTypes' /\ ChildIsTold'
    <3>1. Alive /\ Emit(Ready, "serving") /\ UNCHANGED <<toChild, bridge, asked, reply, late>>
      BY <1>2 DEF PrintReady, Alive
    <3>2. /\ fromChild' \in Seq(Lines) /\ ChildIsTold'
          /\ child' \in {"loading", "serving", "gone"}
      BY <3>1, LinesAre, EmitKeepsTypes
    <3> QED
      BY <3>1, <3>2 DEF PipeTypes
  <2>2. ASSUME late' = 0
        PROVE  StartsInOrder' /\ RestsEmpty' /\ AsksOnce'
    <3>1. child = "loading" /\ late = 0
      BY <1>2, <2>2 DEF PrintReady
    <3>2. bridge # "idle" /\ bridge # "asking" /\ bridge' = bridge
      BY <1>2, <3>1 DEF PrintReady, RestsEmpty, AsksOnce
    <3>3. CASE bridge = "starting"
      <4>1. fromChild' = Append(fromChild, Ready) /\ child' = "serving" /\ UNCHANGED <<toChild, reply>>
        BY <1>2, <3>3 DEF PrintReady, Emit, PipesOpen
      <4>2. \A i \in 1..Len(fromChild) : fromChild[i] # Ready
        BY <1>0, <3>1, <3>3 DEF StartsInOrder
      <4> DEFINE more == Append(fromChild, Ready)
      <4>3. /\ DOMAIN more = 1..(Len(fromChild) + 1) /\ Len(more) = Len(fromChild) + 1
            /\ \A i \in 1..Len(fromChild) : more[i] = fromChild[i]
        BY LinesAre, LineAppended DEF PipeTypes
      <4> HIDE DEF more
      <4>4. \A i \in DOMAIN more : more[i] = Ready => i = Len(more)
        BY <1>0, <4>2, <4>3
      <4>5. fromChild' = more
        BY <4>1 DEF more
      <4> QED
        BY <3>1, <3>2, <3>3, <4>1, <4>4, <4>5 DEF StartsInOrder, RestsEmpty, AsksOnce
    <3>4. CASE bridge # "starting"
      BY <3>2, <3>4 DEF StartsInOrder, RestsEmpty, AsksOnce
    <3> QED
      BY <3>3, <3>4
  <2> QED
    BY <2>1, <2>2
<1>3. CASE Serve
  <2>1. toChild # <<>> /\ Head(toChild) \in Nat /\ Tail(toChild) \in Seq(Nat) /\ Alive
        /\ toChild' = Tail(toChild)
        /\ UNCHANGED <<bridge, asked, reply, late>>
    BY <1>3 DEF Serve, PipeTypes, Alive
  <2>2. PICK what \in {"whole", "error", "torn"}, next \in {"serving", "gone"} :
            /\ Emit(Line(Head(toChild), what), next)
            /\ what = "torn" => next = "gone"
    BY <1>3 DEF Serve
  <2> DEFINE line == Line(Head(toChild), what)
  <2>3. line \in Lines /\ line.for = Head(toChild) /\ (line.what = "torn" => next = "gone")
    BY <2>1, <2>2, LinesAre
  <2> HIDE DEF line
  <2>4. Emit(line, next)
    BY <2>2 DEF line
  <2>5. PipeTypes' /\ ChildIsTold'
    <3>1. /\ fromChild' \in Seq(Lines) /\ ChildIsTold'
          /\ child' \in {"loading", "serving", "gone"}
      BY <2>1, <2>2, <2>3, <2>4, EmitKeepsTypes
    <3> QED
      BY <2>1, <3>1 DEF PipeTypes
  <2>6. ASSUME late' = 0
        PROVE  StartsInOrder' /\ RestsEmpty' /\ AsksOnce'
    <3>1. bridge # "starting" /\ bridge # "idle" /\ bridge' = bridge
      BY <2>1, <2>6 DEF StartsInOrder, RestsEmpty
    <3>2. CASE bridge = "asking"
      <4>1. AsksOnce
        BY <2>1, <2>6
      <4>2. toChild = <<asked>> /\ fromChild = <<>>
        BY <2>1, <3>2, <4>1 DEF AsksOnce
      <4>3. fromChild' = Append(fromChild, line) /\ child' = next
        BY <2>4, <3>2 DEF Emit, PipesOpen
      <4>4. asked \in Nat
        BY DEF PipeTypes
      <4>5. toChild' = <<>> /\ line.for = asked
        BY <2>1, <2>3, <4>2, <4>4
      <4>6. fromChild' = <<line>>
        BY <4>2, <4>3
      <4> QED
        BY <2>1, <2>2, <3>1, <3>2, <4>1, <4>3, <4>5, <4>6 DEF StartsInOrder, RestsEmpty, AsksOnce
    <3>3. CASE bridge # "asking"
      BY <3>1, <3>3 DEF StartsInOrder, RestsEmpty, AsksOnce
    <3> QED
      BY <3>2, <3>3
  <2> QED
    BY <2>5, <2>6
<1>4. CASE ServeQuit \/ Die
  <2>1. child' = "gone" /\ UNCHANGED <<pipes, bridge, asked, reply, late>> /\ Alive
    BY <1>4 DEF ServeQuit, Die, Alive
  <2>2. PipeTypes' /\ ChildIsTold'
    BY <2>1 DEF PipeTypes, ChildIsTold, Alive
  <2>3. ASSUME late' = 0
        PROVE  StartsInOrder' /\ RestsEmpty' /\ AsksOnce'
    BY <2>1, <2>3 DEF StartsInOrder, RestsEmpty, AsksOnce, Alive
  <2> QED
    BY <2>2, <2>3
<1> QED
  BY <1>1, <1>2, <1>3, <1>4 DEF ChildStep, ChildWorks

\* Each step of the program is a step of one end of the pipes, or of neither.
LEMMA StepOfPipes ==
    ASSUME [Next]_vars
    PROVE  HostCalls \/ ChildStep \/ UNCHANGED bridgeVars
<1> USE DEF OthersUnchanged
<1>1. CASE UNCHANGED vars
  BY <1>1 DEF vars
<1>2. CASE Parse \/ Configure \/ BuildIndex \/ InitDevice \/ NoPython \/ PythonStarted
  BY <1>2 DEF Parse, Configure, BuildIndex, InitDevice, NoPython, PythonStarted
<1>3. CASE StartPython \/ StopTokenizer \/ CallGoesOn
  BY <1>3 DEF StartPython, StopTokenizer, CallGoesOn, HostCalls
<1>4. CASE DumpEncode \/ DumpDecode \/ EncodePrompt \/ DecodeOutput
  BY <1>4 DEF DumpEncode, DumpDecode, EncodePrompt, DecodeOutput, AskTokenizer, HostCalls
<1>5. CASE DumpEnd \/ InitScheduler \/ InitForward \/ EnableGpuExperts \/ NothingToDo \/ RawPrompt
  BY <1>5 DEF DumpEnd, InitScheduler, InitForward, EnableGpuExperts, NothingToDo, RawPrompt
<1>6. CASE PromptEncoded \/ Generate \/ StopGenerating \/ OutputDecoded \/ Leave
  BY <1>6 DEF PromptEncoded, Generate, StopGenerating, OutputDecoded, Leave
<1>7. CASE Warm \/ WarmOver \/ Shutdown \/ ChildGoesOn
  BY <1>7 DEF Warm, WarmOver, Shutdown, ChildGoesOn
<1> QED
  BY <1>1, <1>2, <1>3, <1>4, <1>5, <1>6, <1>7 DEF Next, Host

\* The pipes' invariant is kept by every step.
LEMMA PipesKept == ASSUME PipesInv, [Next]_vars PROVE PipesInv'
<1>1. CASE UNCHANGED bridgeVars
  BY <1>1 DEF bridgeVars, pipes, PipesInv, PipeTypes, ChildIsTold, StartsInOrder, RestsEmpty,
              AsksOnce, Alive
<1> QED
  BY <1>1, StepOfPipes, CallsKeepPipes, ChildKeepsPipes

(***************************************************************************)
(* The invariant of the pipes: each line in them is told apart by the      *)
(* request it is about, in the order of the requests.                      *)
(***************************************************************************)
THEOREM PipesInvariance == Spec => []PipesInv
<1>1. Init => PipesInv
  BY PipesBegin DEF Init
<1>2. PipesInv /\ [Next]_vars => PipesInv'
  BY PipesKept
<1> QED
  BY <1>1, <1>2, PTL DEF Spec

(***************************************************************************)
(* Whatever the child prints before it is ready, and whenever it dies, the *)
(* reply the host holds is that of the request it has just made, as long   *)
(* as the child prints no line of its own once it is ready.                *)
(***************************************************************************)
THEOREM RepliesPaired == Spec => []RepliesArePaired
<1>1. PipesInv => RepliesArePaired
  BY DEF PipesInv, RestsEmpty, RepliesArePaired
<1> QED
  BY <1>1, PipesInvariance, PTL

-----------------------------------------------------------------------------
(* main() *)

\* A child that has gone is not replaced.
LEMMA GoneForGood == ASSUME PipesInv, [Next]_vars, child = "gone" PROVE child' = "gone"
<1>1. bridge # "closed" /\ ~Alive
  BY DEF PipesInv, ChildIsTold, Alive
<1>2. CASE HostCalls
  BY <1>1, <1>2 DEF HostCalls, Spawn, SpawnFails, Ask, Stop, CallStep, ReadReady, ReadyNever,
                    ReadReply, ReplyNever, StopReturns
<1>3. CASE ChildStep
  BY <1>1, <1>3 DEF ChildStep, ChildWorks, PrintStray, PrintReady, Serve, ServeQuit, Die, Alive
<1>4. CASE UNCHANGED bridgeVars
  BY <1>4 DEF bridgeVars
<1> QED
  BY <1>2, <1>3, <1>4, StepOfPipes

\* main() begins with nothing established and nothing promised.
LEMMA MainBegins == Init => MainInv
BY DEF Init, MainInv, Established, PromptIsTold, Succeeds, Generating, Offloads, CpuOnly

\* A step of the pipes, or of the warm-up pass, leaves main() where it is.
LEMMA OtherStepsKeepMain ==
    ASSUME MainInv, UNCHANGED <<mainVars, pc>>, child = "gone" => child' = "gone"
    PROVE  MainInv'
BY DEF mainVars, MainInv, Established, PromptIsTold, Succeeds, Generating, Offloads, CpuOnly

USE DEF At, StepTo, Return, CpuOnly

\* The parts before the tokenizer.
LEMMA SetupKeepsMain ==
    ASSUME MainInv, child = "gone" => child' = "gone",
           Parse \/ Configure \/ BuildIndex \/ InitDevice \/ NoPython \/ PythonStarted
    PROVE  MainInv'
<1>1. CASE Parse
  <2>1. \/ pc' = "configure" /\ exit' = exit
        \/ pc' = "leaving" /\ exit' \in {0, 1} /\ (exit' = 0 => cmd.mode # {})
    <3>1. CASE ~Accepted(cmd)
      BY <1>1, <3>1 DEF Parse
    <3>2. CASE Accepted(cmd) /\ "--version" \in cmd.mode
      BY <1>1, <3>2 DEF Parse
    <3>3. CASE Accepted(cmd) /\ "--version" \notin cmd.mode /\ cmd.mode # {}
      BY <1>1, <3>3 DEF Parse
    <3>4. CASE Accepted(cmd) /\ cmd.mode = {}
      <4>1. "--version" \notin cmd.mode
        BY <3>4
      <4> QED
        BY <1>1, <3>4, <4>1 DEF Parse
    <3> QED
      BY <3>1, <3>2, <3>3, <3>4
  <2>2. pc = "parse" /\ UNCHANGED <<cmd, gpu, device, gpuOn, prompt, made>>
    BY <1>1 DEF Parse
  <2>3. Established'
    BY <2>1, <2>2 DEF MainInv, Established, Offloads
  <2>4. PromptIsTold'
    BY <2>1, <2>2 DEF MainInv, PromptIsTold, Offloads, Generating
  <2>5. Succeeds'
    BY <2>1, <2>2 DEF MainInv, Succeeds, Offloads
  <2> QED
    BY <2>3, <2>4, <2>5 DEF MainInv
<1>2. CASE Configure
  <2>1. /\ pc = "configure" /\ pc' = "index" /\ exit' = exit
        /\ UNCHANGED <<cmd, device, gpuOn, prompt, made>>
    BY <1>2 DEF Configure
  <2>2. CpuOnly => gpu' # "cuda"
    <3>1. PICK backend \in Backends, env \in GpuEnvs :
              gpu' = ResolveGpuBackend(backend, GpuRequest(env))
      BY <1>2 DEF Configure
    <3>2. CpuOnly => GpuRequest(env) = "cpu"
      BY DEF CpuOnly, GpuRequest
    <3> QED
      BY <3>1, <3>2 DEF ResolveGpuBackend, Backends
  <2>3. Established'
    BY <2>1, <2>2 DEF MainInv, Established, Offloads, CpuOnly
  <2>4. PromptIsTold'
    BY <2>1 DEF MainInv, PromptIsTold, Offloads, Generating
  <2>5. Succeeds'
    BY <2>1 DEF MainInv, Succeeds, Offloads
  <2> QED
    BY <2>3, <2>4, <2>5 DEF MainInv
<1>3. CASE BuildIndex
  <2>1. \/ pc' = "device" /\ exit' = exit /\ ~cmd.mtp
        \/ pc' = "leaving" /\ exit' = 1
    BY <1>3 DEF BuildIndex
  <2>2. pc = "index" /\ UNCHANGED <<cmd, gpu, device, gpuOn, prompt, made>>
    BY <1>3 DEF BuildIndex
  <2>3. Established'
    BY <2>1, <2>2 DEF MainInv, Established, Offloads
  <2>4. PromptIsTold'
    BY <2>1, <2>2 DEF MainInv, PromptIsTold, Offloads, Generating
  <2>5. Succeeds'
    BY <2>1, <2>2 DEF MainInv, Succeeds, Offloads
  <2> QED
    BY <2>3, <2>4, <2>5 DEF MainInv
<1>4. CASE InitDevice
  BY <1>4 DEF InitDevice, MainInv, Established, PromptIsTold, Succeeds, Offloads, Generating
<1>5. CASE NoPython
  <2>1. \/ pc' = "dump" /\ exit' = exit /\ cmd.dump
        \/ pc' = "scheduler" /\ exit' = exit
        \/ pc' = "leaving" /\ exit' = 1
    BY <1>5 DEF NoPython, AfterTokenizer
  <2>2. pc = "tokenizer" /\ UNCHANGED <<cmd, gpu, device, gpuOn, prompt, made>>
    BY <1>5 DEF NoPython
  <2>3. Established'
    BY <2>1, <2>2 DEF MainInv, Established, Offloads
  <2>4. PromptIsTold'
    BY <2>1, <2>2 DEF MainInv, PromptIsTold, Offloads, Generating
  <2>5. Succeeds'
    BY <2>1, <2>2 DEF MainInv, Succeeds, Offloads
  <2> QED
    BY <2>3, <2>4, <2>5 DEF MainInv
<1>6. CASE PythonStarted
  <2>1. \/ pc' = "dump" /\ exit' = exit /\ cmd.dump
        \/ pc' = "scheduler" /\ exit' = exit
        \/ pc' = "leaving" /\ exit' = 1
    BY <1>6 DEF PythonStarted, AfterTokenizer
  <2>2. pc = "tokenizer" /\ UNCHANGED <<cmd, gpu, device, gpuOn, prompt, made>>
    BY <1>6 DEF PythonStarted
  <2>3. Established'
    BY <2>1, <2>2 DEF MainInv, Established, Offloads
  <2>4. PromptIsTold'
    BY <2>1, <2>2 DEF MainInv, PromptIsTold, Offloads, Generating
  <2>5. Succeeds'
    BY <2>1, <2>2 DEF MainInv, Succeeds, Offloads
  <2> QED
    BY <2>3, <2>4, <2>5 DEF MainInv
<1> QED
  BY <1>1, <1>2, <1>3, <1>4, <1>5, <1>6

\* The dump, and the parts that make the engine ready.
LEMMA EngineKeepsMain ==
    ASSUME MainInv, child = "gone" => child' = "gone",
           \/ DumpEncode \/ DumpDecode \/ DumpEnd
           \/ InitScheduler \/ WarmOver \/ InitForward \/ EnableGpuExperts
    PROVE  MainInv'
<1>1. CASE DumpEncode
  BY <1>1 DEF DumpEncode, AskTokenizer, MainInv, Established, PromptIsTold, Succeeds, Offloads,
     Generating
<1>2. CASE DumpDecode
  BY <1>2 DEF DumpDecode, AskTokenizer, Answered, MainInv, Established, PromptIsTold, Succeeds,
     Offloads, Generating
<1>3. CASE DumpEnd
  BY <1>3 DEF DumpEnd, Answered, MainInv, Established, PromptIsTold, Succeeds, Offloads, Generating
<1>4. CASE InitScheduler
  BY <1>4 DEF InitScheduler, MainInv, Established, PromptIsTold, Succeeds, Offloads, Generating
<1>5. CASE WarmOver
  BY <1>5 DEF WarmOver, MainInv, Established, PromptIsTold, Succeeds, Offloads, Generating
<1>6. CASE InitForward
  <2>1. \/ pc' = "experts" /\ exit' = exit
        \/ pc' = "leaving" /\ exit' = 1
    BY <1>6 DEF InitForward
  <2>2. pc = "forward" /\ UNCHANGED <<cmd, gpu, device, gpuOn, prompt, made>>
    BY <1>6 DEF InitForward
  <2>3. Established'
    BY <2>1, <2>2 DEF MainInv, Established, Offloads
  <2>4. PromptIsTold'
    BY <2>1, <2>2 DEF MainInv, PromptIsTold, Offloads, Generating
  <2>5. Succeeds'
    BY <2>1, <2>2 DEF MainInv, Succeeds, Offloads
  <2> QED
    BY <2>3, <2>4, <2>5 DEF MainInv
<1>7. CASE EnableGpuExperts
  <2>1. \/ pc' = "prompt" /\ exit' = exit /\ (cmd.gpuExperts > 0 => gpuOn')
        \/ pc' = "leaving" /\ exit' = 1
    BY <1>7 DEF EnableGpuExperts
  <2>2. pc = "experts" /\ (gpuOn' => device) /\ UNCHANGED <<cmd, gpu, device, prompt, made>>
    BY <1>7 DEF EnableGpuExperts
  <2>3. Established'
    BY <2>1, <2>2 DEF MainInv, Established, Offloads
  <2>4. PromptIsTold'
    BY <2>1, <2>2 DEF MainInv, PromptIsTold, Offloads, Generating
  <2>5. Succeeds'
    BY <2>1, <2>2 DEF MainInv, Succeeds, Offloads
  <2> QED
    BY <2>3, <2>4, <2>5 DEF MainInv
<1> QED
  BY <1>1, <1>2, <1>3, <1>4, <1>5, <1>6, <1>7

\* A torn prompt is a reply that its writer's death cut short.
LEMMA TornPromptIsTold ==
    ASSUME PipesInv, PromptEncoded, prompt' = "torn"
    PROVE  child = "gone"
BY DEF PromptEncoded, IdsRead, PipesInv, ChildIsTold

\* The generation, from the prompt to the shutdown.
LEMMA GenerationKeepsMain ==
    ASSUME PipesInv, MainInv, child = "gone" => child' = "gone",
           \/ NothingToDo \/ RawPrompt \/ EncodePrompt \/ PromptEncoded \/ Generate
           \/ StopGenerating \/ DecodeOutput \/ OutputDecoded \/ Shutdown \/ Leave
    PROVE  MainInv'
<1>1. CASE NothingToDo
  BY <1>1 DEF NothingToDo, MainInv, Established, PromptIsTold, Succeeds, Offloads, Generating
<1>2. CASE RawPrompt
  BY <1>2 DEF RawPrompt, MainInv, Established, PromptIsTold, Succeeds, Offloads, Generating
<1>3. CASE EncodePrompt
  BY <1>3 DEF EncodePrompt, AskTokenizer, MainInv, Established, PromptIsTold, Succeeds, Offloads,
     Generating
<1>4. CASE Generate
  BY <1>4 DEF Generate, MainInv, Established, PromptIsTold, Succeeds, Offloads, Generating
<1>5. CASE StopGenerating
  BY <1>5 DEF StopGenerating, MainInv, Established, PromptIsTold, Succeeds, Offloads, Generating
<1>6. CASE DecodeOutput
  BY <1>6 DEF DecodeOutput, AskTokenizer, MainInv, Established, PromptIsTold, Succeeds, Offloads,
     Generating
<1>7. CASE OutputDecoded
  BY <1>7 DEF OutputDecoded, Answered, MainInv, Established, PromptIsTold, Succeeds, Offloads,
     Generating
<1>8. CASE Shutdown
  BY <1>8 DEF Shutdown, MainInv, Established, PromptIsTold, Succeeds, Offloads, Generating
<1>9. CASE Leave
  BY <1>9 DEF Leave, mainVars, MainInv, Established, PromptIsTold, Succeeds, Offloads, Generating
<1>10. CASE PromptEncoded
  <2>1. prompt' \in {"whole", "torn", "empty"}
    BY <1>10 DEF PromptEncoded, IdsRead
  <2> QED
    BY <1>10, <2>1, TornPromptIsTold DEF PromptEncoded, Answered, MainInv, Established,
       PromptIsTold, Succeeds, Offloads, Generating
<1> QED
  BY <1>1, <1>2, <1>3, <1>4, <1>5, <1>6, <1>7, <1>8, <1>9, <1>10

\* Every step of the program keeps what main() has established.
LEMMA MainKept == ASSUME PipesInv, MainInv, [Next]_vars PROVE MainInv'
<1>1. child = "gone" => child' = "gone"
  BY GoneForGood
<1>2. CASE UNCHANGED vars \/ StartPython \/ StopTokenizer \/ CallGoesOn \/ ChildGoesOn \/ Warm
  <2>1. UNCHANGED <<mainVars, pc>>
    BY <1>2 DEF vars, StartPython, StopTokenizer, CallGoesOn, ChildGoesOn, Warm
  <2> QED
    BY <1>1, <2>1, OtherStepsKeepMain
<1> QED
  BY <1>1, <1>2, SetupKeepsMain, EngineKeepsMain, GenerationKeepsMain DEF Next, Host

\* The invariant of main(): what each part of it has established for the parts after it.
THEOREM MainInvariance == Spec => []MainInv
<1>1. PipesInv /\ MainInv /\ [Next]_vars => MainInv'
  BY MainKept
<1> QED
  BY <1>1, MainBegins, PipesInvariance, PTL DEF Spec

(***************************************************************************)
(* For any command line, a run that exits with 0 neither dropped --mtp nor *)
(* the offload of --gpu-experts, one told to stay on the CPU has no        *)
(* device, and no token is generated without the offload asked for, or     *)
(* after a torn prompt whose child lives (RefusesToDegrade).               *)
(***************************************************************************)
THEOREM DegradationRefused == Spec => []RefusesToDegrade
<1>1. MainInv => RefusesToDegrade
  BY DEF MainInv, Established, PromptIsTold, Succeeds, Offloads, RefusesToDegrade
<1> QED
  BY <1>1, MainInvariance, PTL
-----------------------------------------------------------------------------
(* The reader of the warm-up pass *)

USE DEF WorkerPlaces

\* A read is outstanding in one of five places.
LEMMA OutstandingIs ==
    \A r : r \in Outstanding <=> \/ r \in reading \cup completed \cup failed \cup lost
                                \/ \E w \in Busy : job[w] = r
BY DEF Outstanding, Busy

\* What is outstanding can be counted.
LEMMA OutstandingFinite ==
    ASSUME ReaderTypes
    PROVE  IsFiniteSet(Outstanding) /\ Cardinality(Outstanding) \in Nat
<1>1. IsFiniteSet(1..submitted)
  BY FS_Interval DEF ReaderTypes
<1>2. IsFiniteSet(Outstanding)
  BY <1>1, FS_Subset DEF ReaderTypes
<1> QED
  BY <1>2, FS_CardinalityType

\* A step that moves no read keeps what is said of reads.
LEMMA StillReads ==
    ASSUME ReaderInv, UNCHANGED <<pending, reading, completed, failed, lost, answered, job>>,
           worker' \in [Workers -> WorkerPlaces],
           \A w \in Workers : worker'[w] = worker[w] \/ (w \notin Busy /\ w \notin Busy'),
           submitted' \in Nat, submitted' >= submitted
    PROVE  ReaderInv' /\ Outstanding' = Outstanding
<1>1. Busy' = Busy
  BY DEF Busy
<1>2. Outstanding' = Outstanding
  BY <1>1 DEF Outstanding, Busy
<1>3. \A r \in 1..submitted : r \in 1..submitted'
  BY DEF ReaderInv, ReaderTypes
<1>4. ReaderTypes'
  BY <1>2, <1>3 DEF ReaderInv, ReaderTypes
<1>5. OnePlace'
  BY <1>1 DEF ReaderInv, OnePlace
<1>6. AnsweredInPlace'
  BY <1>1 DEF ReaderInv, AnsweredInPlace, Busy
<1>7. CountIsExact'
  BY <1>2 DEF ReaderInv, CountIsExact
<1> QED
  BY <1>2, <1>4, <1>5, <1>6, <1>7 DEF ReaderInv

\* The system completes a read, with or without an error.
LEMMA CompletionKeepsReads ==
    ASSUME ReaderInv, NEW r \in Reqs, IoCompletes(r), submitted' = submitted
    PROVE  ReaderInv' /\ Outstanding' = Outstanding
<1> USE DEF IoCompletes, workerVars
<1>1. Busy' = Busy /\ job' = job /\ r \in reading /\ UNCHANGED <<worker, answered, lost, pending>>
  BY DEF Busy
<1>2. \/ completed' = completed \cup {r} /\ failed' = failed
      \/ failed' = failed \cup {r} /\ completed' = completed
  OBVIOUS
<1>3. reading' = reading \ {r}
  OBVIOUS
<1>4. (reading \cup completed \cup failed \cup lost)' = reading \cup completed \cup failed \cup lost
  BY <1>1, <1>2, <1>3
<1>5. Outstanding' = Outstanding
  BY <1>1, <1>4 DEF Outstanding
<1>6. ReaderTypes'
  BY <1>1, <1>5 DEF ReaderInv, ReaderTypes
<1>7. OnePlace'
  <2>1. /\ (reading \cap completed)' = {} /\ (reading \cap failed)' = {}
        /\ (reading \cap lost)' = {} /\ (completed \cap failed)' = {}
        /\ (completed \cap lost)' = {} /\ (failed \cap lost)' = {}
    BY <1>1, <1>2, <1>3 DEF ReaderInv, OnePlace
  <2> QED
    BY <1>1, <1>4, <2>1 DEF ReaderInv, OnePlace
<1>8. AnsweredInPlace'
  BY <1>1, <1>4 DEF ReaderInv, AnsweredInPlace
<1>9. CountIsExact'
  BY <1>1, <1>5 DEF ReaderInv, CountIsExact
<1> QED
  BY <1>5, <1>6, <1>7, <1>8, <1>9 DEF ReaderInv

\* A worker takes a completed read off the port.
LEMMA TakeKeepsReads ==
    ASSUME ReaderInv, NEW w \in Workers, Take(w), submitted' = submitted
    PROVE  ReaderInv' /\ Outstanding' = Outstanding
<1>1. PICK r \in completed : completed' = completed \ {r} /\ job' = [job EXCEPT ![w] = r]
  BY DEF Take
<1>2. /\ worker[w] = "waiting" /\ worker' = [worker EXCEPT ![w] = "calling"]
      /\ UNCHANGED <<pending, reading, failed, lost, answered>>
  BY DEF Take
<1>3. /\ w \notin Busy /\ Busy' = Busy \cup {w}
      /\ job'[w] = r /\ \A v \in Busy : v # w /\ job'[v] = job[v]
      /\ worker'[w] = "calling" /\ \A v \in Busy : worker'[v] = worker[v]
  BY <1>1, <1>2 DEF Busy, ReaderInv, ReaderTypes
<1>4. Outstanding' = Outstanding
  <2>1. \A q : q \in Outstanding' <=> \/ q \in (reading \cup completed \cup failed \cup lost)'
                                      \/ \E v \in Busy' : job'[v] = q
    BY DEF Outstanding, Busy
  <2> QED
    BY <1>1, <1>2, <1>3, <2>1, OutstandingIs
<1>5. ReaderTypes'
  BY <1>1, <1>2, <1>4 DEF ReaderInv, ReaderTypes
<1>6. r \notin reading \cup failed \cup lost /\ r \notin answered /\ \A v \in Busy : job[v] # r
  BY DEF ReaderInv, OnePlace, AnsweredInPlace
<1>7. OnePlace'
  <2>1. /\ (reading \cap completed)' = {} /\ (reading \cap failed)' = {}
        /\ (reading \cap lost)' = {} /\ (completed \cap failed)' = {}
        /\ (completed \cap lost)' = {} /\ (failed \cap lost)' = {}
    BY <1>1, <1>2 DEF ReaderInv, OnePlace
  <2>2. \A v \in Busy' : job'[v] \notin (reading \cup completed \cup failed \cup lost)'
    BY <1>1, <1>2, <1>3, <1>6 DEF ReaderInv, OnePlace
  <2>3. \A u, v \in Busy' : job'[u] = job'[v] => u = v
    BY <1>3, <1>6 DEF ReaderInv, OnePlace
  <2> QED
    BY <2>1, <2>2, <2>3 DEF OnePlace
<1>8. AnsweredInPlace'
  <2>1. answered' \cap (reading \cup completed \cup failed \cup lost)' = {}
    BY <1>1, <1>2 DEF ReaderInv, AnsweredInPlace
  <2>2. \A v \in Busy' : job'[v] \in answered' <=> worker'[v] = "counting"
    BY <1>2, <1>3, <1>6 DEF ReaderInv, AnsweredInPlace
  <2> QED
    BY <2>1, <2>2 DEF AnsweredInPlace
<1>9. CountIsExact'
  BY <1>2, <1>4 DEF ReaderInv, CountIsExact
<1> QED
  BY <1>4, <1>5, <1>7, <1>8, <1>9 DEF ReaderInv

\* A failed read ends its worker and stays outstanding.
LEMMA FailureKeepsReads ==
    ASSUME ReaderInv, NEW w \in Workers, TakeFailed(w), submitted' = submitted
    PROVE  ReaderInv' /\ Outstanding' = Outstanding
<1>1. PICK r \in failed : failed' = failed \ {r} /\ lost' = lost \cup {r}
  BY DEF TakeFailed
<1>2. /\ worker[w] = "waiting" /\ worker' = [worker EXCEPT ![w] = "gone"]
      /\ UNCHANGED <<pending, reading, completed, job, answered>>
  BY DEF TakeFailed
<1>3. Busy' = Busy /\ \A v \in Busy : worker'[v] = worker[v]
  BY <1>2 DEF Busy, ReaderInv, ReaderTypes
<1>4. (reading \cup completed \cup failed \cup lost)' = reading \cup completed \cup failed \cup lost
  BY <1>1, <1>2
<1>5. Outstanding' = Outstanding
  <2>1. \A q : q \in Outstanding' <=> \/ q \in (reading \cup completed \cup failed \cup lost)'
                                      \/ \E v \in Busy' : job'[v] = q
    BY DEF Outstanding, Busy
  <2> QED
    BY <1>2, <1>3, <1>4, <2>1, OutstandingIs
<1>6. ReaderTypes'
  BY <1>2, <1>5 DEF ReaderInv, ReaderTypes
<1>7. OnePlace'
  <2>1. /\ (reading \cap completed)' = {} /\ (reading \cap failed)' = {}
        /\ (reading \cap lost)' = {} /\ (completed \cap failed)' = {}
        /\ (completed \cap lost)' = {} /\ (failed \cap lost)' = {}
    BY <1>1, <1>2 DEF ReaderInv, OnePlace
  <2> QED
    BY <1>2, <1>3, <1>4, <2>1 DEF ReaderInv, OnePlace
<1>8. AnsweredInPlace'
  BY <1>2, <1>3, <1>4 DEF ReaderInv, AnsweredInPlace
<1>9. CountIsExact'
  BY <1>2, <1>5 DEF ReaderInv, CountIsExact
<1> QED
  BY <1>5, <1>6, <1>7, <1>8, <1>9 DEF ReaderInv

\* A worker calls the callback of its read, for the first time.
LEMMA CallKeepsReads ==
    ASSUME ReaderInv, NEW w \in Workers, Call(w), submitted' = submitted
    PROVE  /\ ReaderInv' /\ Outstanding' = Outstanding
           /\ job[w] \in Outstanding \ answered /\ answered' = answered \cup {job[w]}
<1>1. /\ worker[w] = "calling" /\ worker' = [worker EXCEPT ![w] = "counting"]
      /\ answered' = answered \cup {job[w]}
      /\ UNCHANGED <<pending, reading, completed, failed, lost, job>>
  BY DEF Call, portVars
<1>2. w \in Busy /\ Busy' = Busy
      /\ worker'[w] = "counting" /\ \A v \in Busy : v # w => worker'[v] = worker[v]
  BY <1>1 DEF Busy, ReaderInv, ReaderTypes
<1>3. Outstanding' = Outstanding
  <2>1. \A q : q \in Outstanding' <=> \/ q \in (reading \cup completed \cup failed \cup lost)'
                                      \/ \E v \in Busy' : job'[v] = q
    BY DEF Outstanding, Busy
  <2> QED
    BY <1>1, <1>2, <2>1, OutstandingIs
<1>4. job[w] \in Outstanding /\ job[w] \notin answered
  BY <1>1, <1>2, OutstandingIs DEF ReaderInv, AnsweredInPlace
<1>5. ReaderTypes'
  BY <1>1, <1>3, <1>4 DEF ReaderInv, ReaderTypes
<1>6. OnePlace'
  BY <1>1, <1>2 DEF ReaderInv, OnePlace
<1>7. AnsweredInPlace'
  <2>1. job[w] \notin reading \cup completed \cup failed \cup lost
        /\ \A v \in Busy : v # w => job[v] # job[w]
    BY <1>2 DEF ReaderInv, OnePlace
  <2> QED
    BY <1>1, <1>2, <2>1 DEF ReaderInv, AnsweredInPlace
<1>8. CountIsExact'
  BY <1>1, <1>3 DEF ReaderInv, CountIsExact
<1> QED
  BY <1>1, <1>3, <1>4, <1>5, <1>6, <1>7, <1>8 DEF ReaderInv

\* A read that has been answered is counted down, and is outstanding no more.
LEMMA CountDownKeepsReads ==
    ASSUME ReaderInv, NEW w \in Workers, CountDown(w), submitted' = submitted
    PROVE  /\ ReaderInv' /\ Outstanding' = Outstanding \ {job[w]}
           /\ job[w] \in Outstanding \cap answered /\ answered' = answered
<1>1. /\ worker[w] = "counting" /\ worker' = [worker EXCEPT ![w] = "notifying"]
      /\ pending' = pending - 1 /\ job' = [job EXCEPT ![w] = NoReq]
      /\ UNCHANGED <<reading, completed, failed, lost, answered>>
  BY DEF CountDown, portVars
<1>2. /\ w \in Busy /\ Busy' = Busy \ {w}
      /\ \A v \in Busy' : v # w /\ worker'[v] = worker[v] /\ job'[v] = job[v]
  BY <1>1 DEF Busy, ReaderInv, ReaderTypes
<1>3. /\ job[w] \notin reading \cup completed \cup failed \cup lost
      /\ \A v \in Busy : v # w => job[v] # job[w]
  BY <1>2 DEF ReaderInv, OnePlace
<1>4. Outstanding' = Outstanding \ {job[w]}
  <2>1. \A q : q \in Outstanding' <=> \/ q \in (reading \cup completed \cup failed \cup lost)'
                                      \/ \E v \in Busy' : job'[v] = q
    BY DEF Outstanding, Busy
  <2> QED
    BY <1>1, <1>2, <1>3, <2>1, OutstandingIs
<1>5. job[w] \in Outstanding /\ job[w] \in answered
  BY <1>1, <1>2, OutstandingIs DEF ReaderInv, AnsweredInPlace
<1>6. ReaderTypes'
  BY <1>1, <1>4 DEF ReaderInv, ReaderTypes
<1>7. OnePlace'
  BY <1>1, <1>2 DEF ReaderInv, OnePlace
<1>8. AnsweredInPlace'
  BY <1>1, <1>2 DEF ReaderInv, AnsweredInPlace
<1>9. CountIsExact'
  <2>1. Cardinality(Outstanding \ {job[w]}) = Cardinality(Outstanding) - 1
    BY <1>5, OutstandingFinite, FS_RemoveElement DEF ReaderInv
  <2> QED
    BY <1>1, <1>4, <2>1 DEF ReaderInv, CountIsExact
<1> QED
  BY <1>1, <1>4, <1>5, <1>6, <1>7, <1>8, <1>9 DEF ReaderInv

\* A new read is outstanding.
LEMMA SubmitKeepsReads ==
    ASSUME ReaderInv, submitted' = submitted + 1, Submit(submitted')
    PROVE  /\ ReaderInv' /\ Outstanding' = Outstanding \cup {submitted'}
           /\ submitted' \notin Outstanding \cup answered /\ answered' = answered
<1> DEFINE r == submitted'
<1>1. /\ pending' = pending + 1 /\ reading' = reading \cup {r}
      /\ UNCHANGED <<completed, failed, lost, worker, job, answered>>
  BY DEF Submit, workerVars
<1>2. Busy' = Busy
  BY <1>1 DEF Busy
<1>3. Outstanding' = Outstanding \cup {r}
  <2>1. \A q : q \in Outstanding' <=> \/ q \in (reading \cup completed \cup failed \cup lost)'
                                      \/ \E v \in Busy' : job'[v] = q
    BY DEF Outstanding, Busy
  <2> QED
    BY <1>1, <1>2, <2>1, OutstandingIs
<1>4. r \in Nat /\ r \notin 1..submitted /\ \A q \in 1..submitted : q \in 1..r /\ r \in 1..r
  BY DEF ReaderInv, ReaderTypes
<1>5. r \notin Outstanding /\ r \notin answered
  BY <1>4 DEF ReaderInv, ReaderTypes
<1>6. ReaderTypes'
  <2>1. r \in 1..r
    BY DEF ReaderInv, ReaderTypes
  <2> QED
    BY <1>1, <1>3, <1>4, <2>1 DEF ReaderInv, ReaderTypes
<1>7. \A q : q \in reading \cup completed \cup failed \cup lost => q \in Outstanding
  BY DEF Outstanding
<1>8. \A v \in Busy : job[v] \in Outstanding
  BY DEF Outstanding, Busy
<1>9. OnePlace'
  BY <1>1, <1>2, <1>5, <1>7, <1>8 DEF ReaderInv, OnePlace
<1>10. AnsweredInPlace'
  BY <1>1, <1>2, <1>5 DEF ReaderInv, AnsweredInPlace
<1>11. CountIsExact'
  <2>1. Cardinality(Outstanding \cup {r}) = Cardinality(Outstanding) + 1
    BY <1>5, OutstandingFinite, FS_AddElement DEF ReaderInv
  <2> QED
    BY <1>1, <1>3, <2>1 DEF ReaderInv, CountIsExact
<1> QED
  BY <1>1, <1>3, <1>5, <1>6, <1>9, <1>10, <1>11 DEF ReaderInv

\* The drain's predicate is true only when no read is outstanding.
LEMMA NoneIsOutstanding ==
    ASSUME ReaderInv, pending <= 0
    PROVE  Outstanding = {}
<1>1. Cardinality(Outstanding) \in Nat /\ IsFiniteSet(Outstanding)
  BY OutstandingFinite DEF ReaderInv
<1>2. Cardinality(Outstanding) = 0
  BY <1>1 DEF ReaderInv, CountIsExact
<1> QED
  BY <1>1, <1>2, FS_EmptySet

\* What a step of the reader does to the reads, and where it leaves the caller.
LEMMA ReaderStepKeepsReads ==
    ASSUME ReaderInv, ReaderStep, submitted' = submitted
    PROVE  /\ ReaderInv' /\ Outstanding' \subseteq Outstanding
           /\ caller' = "free" => caller = "free" \/ caller = "drained"
           /\ caller' = "drained" => caller = "drained" \/ Outstanding = {}
<1>0. submitted \in Nat /\ submitted' \in Nat /\ submitted' >= submitted
  BY DEF ReaderInv, ReaderTypes
<1>1. CASE Check \/ Sleep \/ DrainEnd \/ Joined
  <2>1. UNCHANGED <<pending, reading, completed, failed, lost, answered, job, worker>>
    BY <1>1 DEF Check, Sleep, DrainEnd, Joined, portVars, workerVars
  <2>2. ReaderInv' /\ Outstanding' = Outstanding
    BY <1>0, <2>1, StillReads DEF ReaderInv, ReaderTypes
  <2>3. /\ caller' = "free" => caller = "drained"
        /\ caller' = "drained" => Outstanding = {}
    BY <1>1, NoneIsOutstanding DEF Check, Sleep, DrainEnd, Joined
  <2> QED
    BY <2>2, <2>3
<1>2. ASSUME NEW r \in Reqs, IoCompletes(r)
      PROVE  ReaderInv' /\ Outstanding' \subseteq Outstanding /\ caller' = caller
  <2>1. caller' = caller
    BY <1>2 DEF IoCompletes
  <2> QED
    BY <1>2, <2>1, CompletionKeepsReads
<1>3. ASSUME NEW w \in Workers, Take(w) \/ TakeFailed(w) \/ Call(w) \/ CountDown(w)
      PROVE  ReaderInv' /\ Outstanding' \subseteq Outstanding /\ caller' = caller
  <2>1. caller' = caller
    BY <1>3 DEF Take, TakeFailed, Call, CountDown
  <2>2. ReaderInv' /\ Outstanding' \subseteq Outstanding
    BY <1>3, TakeKeepsReads, FailureKeepsReads, CallKeepsReads, CountDownKeepsReads
  <2> QED
    BY <2>1, <2>2
<1>4. ASSUME NEW w \in Workers, TakeStop(w) \/ Notify(w)
      PROVE  /\ ReaderInv' /\ Outstanding' \subseteq Outstanding
             /\ caller' = caller \/ caller' = "checking"
  <2>1. /\ UNCHANGED <<pending, reading, completed, failed, lost, answered, job>>
        /\ caller' = caller \/ caller' = "checking"
        /\ worker[w] \in {"waiting", "notifying"}
        /\ worker' = [worker EXCEPT ![w] = "gone"] \/ worker' = [worker EXCEPT ![w] = "waiting"]
    BY <1>4 DEF TakeStop, Notify, portVars
  <2>2. worker' \in [Workers -> WorkerPlaces]
    BY <2>1 DEF ReaderInv, ReaderTypes
  <2>3. \A v \in Workers : worker'[v] = worker[v] \/ (v \notin Busy /\ v \notin Busy')
    BY <2>1, <2>2 DEF Busy, ReaderInv, ReaderTypes
  <2>4. ReaderInv' /\ Outstanding' = Outstanding
    BY <1>0, <2>1, <2>2, <2>3, StillReads
  <2> QED
    BY <2>1, <2>4
<1> QED
  BY <1>1, <1>2, <1>3, <1>4 DEF ReaderStep, WorkerStep

\* A step of the reader keeps the turn of the ring.
LEMMA ReaderStepKeepsTurn ==
    ASSUME WarmInv, ReaderStep, UNCHANGED warmVars
    PROVE  WarmInv'
<1>1. UNCHANGED <<plan, submitted, warm>>
  BY DEF warmVars
<1>2. /\ ReaderInv' /\ Outstanding' \subseteq Outstanding
      /\ caller' = "free" => caller = "free" \/ caller = "drained"
      /\ caller' = "drained" => caller = "drained" \/ Outstanding = {}
  BY <1>1, ReaderStepKeepsReads DEF WarmInv
<1>3. InOneTurn'
  BY <1>1, <1>2 DEF WarmInv, InOneTurn
<1>4. PlanIsFollowed'
  BY <1>1 DEF WarmInv, PlanIsFollowed
<1> QED
  BY <1>2, <1>3, <1>4 DEF WarmInv

\* The next read's place in the ring.
LEMMA NextPlace ==
    ASSUME NEW n \in Nat, NEW p \in Nat \ {0}
    PROVE  /\ n % p \in 0..(p - 1)
           /\ (n + 1) % p = 0 \/ (n + 1) % p = (n % p) + 1
<1> DEFINE q == n \div p
           r == n % p
<1>1. r \in 0..(p - 1) /\ n = p * q + r /\ q \in Nat
  OBVIOUS
<1> HIDE DEF q, r
<1>2. \A m \in Nat, k \in Int, u \in Int : m = p * k + u /\ 0 <= u /\ u < p => m % p = u
  OBVIOUS
<1>3. CASE r + 1 < p
  <2>1. n + 1 = p * q + (r + 1)
    BY <1>1
  <2>2. n + 1 \in Nat /\ r + 1 \in Int /\ 0 <= r + 1 /\ q \in Int
    BY <1>1
  <2>3. (n + 1) % p = r + 1
    BY <1>2, <1>3, <2>1, <2>2
  <2> QED
    BY <1>1, <2>3 DEF r
<1>4. CASE r + 1 = p
  <2>1. n + 1 = p * (q + 1) + 0
    BY <1>1, <1>4
  <2>2. n + 1 \in Nat /\ q + 1 \in Int /\ 0 < p
    BY <1>1
  <2>3. (n + 1) % p = 0
    BY <1>2, <2>1, <2>2
  <2> QED
    BY <1>1, <2>3 DEF r
<1> QED
  BY <1>1, <1>3, <1>4

\* Two reads of one turn use two buffers.
LEMMA PlacesDiffer ==
    ASSUME NEW r \in Nat, NEW s \in Nat, NEW p \in Nat \ {0}, r < s, s - r < p
    PROVE  r % p # s % p
<1> DEFINE q == r \div p
           u == s \div p
           k == r % p
           l == s % p
<1>1. k \in 0..(p - 1) /\ r = p * q + k /\ q \in Nat
  OBVIOUS
<1>2. l \in 0..(p - 1) /\ s = p * u + l /\ u \in Nat
  OBVIOUS
<1> HIDE DEF q, u, k, l
<1>3. \A x, y \in Int : x < y => p * x + p <= p * y
  OBVIOUS
<1>4. ASSUME k = l PROVE FALSE
  <2>1. q < u => p * q + p <= p * u
    BY <1>1, <1>2, <1>3
  <2>2. u < q => p * u + p <= p * q
    BY <1>1, <1>2, <1>3
  <2>3. u = q => r = s
    BY <1>1, <1>2, <1>4
  <2> DEFINE a == p * q
             b == p * u
  <2>4. a \in Int /\ b \in Int
    BY <1>1, <1>2
  <2>5. r = a + k /\ s = b + l /\ (q < u => a + p <= b) /\ (u < q => b + p <= a)
    BY <1>1, <1>2, <2>1, <2>2
  <2> HIDE DEF a, b
  <2> QED
    BY <1>1, <1>2, <1>4, <2>3, <2>4, <2>5
<1> QED
  BY <1>4 DEF k, l

\* The next read is submitted, or is not started.
LEMMA WarmSubmitKeeps ==
    ASSUME WarmInv, WarmSubmit
    PROVE  WarmInv'
<1>1. /\ submitted' = submitted + 1 /\ submitted < Len(plan) /\ plan' = plan
      /\ warm = "submitting" /\ caller = "free" /\ caller' = "free"
      /\ warm' = IF submitted' % Pool = 0 THEN "flushing" ELSE "submitting"
      /\ Submit(submitted') \/ SubmitUnstarted(submitted')
  BY DEF WarmSubmit, Flushes, Submit, SubmitUnstarted
<1>2. submitted \in Nat /\ Outstanding \subseteq 1..submitted /\ Len(plan) \in Nat
  BY DEF WarmInv, ReaderInv, ReaderTypes, PlanIsFollowed
<1>3. ReaderInv' /\ Outstanding' \subseteq Outstanding \cup {submitted'}
  <2>1. CASE Submit(submitted')
    BY <1>1, <2>1, SubmitKeepsReads DEF WarmInv
  <2>2. CASE SubmitUnstarted(submitted')
    <3>1. UNCHANGED <<pending, reading, completed, failed, lost, answered, job, worker>>
      BY <2>2 DEF SubmitUnstarted, portVars, workerVars
    <3>2. submitted' \in Nat /\ submitted' >= submitted
      BY <1>1, <1>2
    <3> QED
      BY <3>1, <3>2, StillReads DEF WarmInv, ReaderInv, ReaderTypes
  <2> QED
    BY <1>1, <2>1, <2>2
<1>4. InOneTurn'
  <2>1. Pool \in Nat \ {0}
    BY PoolAssumption
  <2>2. /\ submitted % Pool \in 0..(Pool - 1)
        /\ submitted' % Pool = 0 \/ submitted' % Pool = (submitted % Pool) + 1
    BY <1>1, <1>2, <2>1, NextPlace
  <2>3. \A r \in Outstanding : submitted - r < submitted % Pool /\ r \in Int
    BY <1>1, <1>2 DEF WarmInv, InOneTurn
  <2>4. ASSUME NEW r \in Outstanding'
        PROVE  submitted' - r <= submitted % Pool
    <3>1. CASE r = submitted'
      BY <1>1, <1>2, <2>2, <3>1
    <3>2. CASE r \in Outstanding
      <4> DEFINE k == submitted % Pool
      <4>1. k \in Int /\ submitted - r < k /\ r \in Int
        BY <2>1, <2>2, <2>3, <3>2
      <4> HIDE DEF k
      <4>2. submitted' - r <= k
        BY <1>1, <1>2, <4>1
      <4> QED
        BY <4>2 DEF k
    <3> QED
      BY <1>3, <3>1, <3>2
  <2>5. \A r \in Outstanding' : r \in Int
    BY <1>1, <1>2, <1>3
  <2> DEFINE k == submitted % Pool
             m == submitted' % Pool
  <2>6. k \in 0..(Pool - 1) /\ (m = 0 \/ m = k + 1) /\ (warm' = "submitting" => m # 0)
        /\ \A r \in Outstanding' : submitted' - r <= k /\ r \in Int
    BY <1>1, <2>2, <2>4, <2>5
  <2> HIDE DEF k, m
  <2>7. \A r \in Outstanding' : submitted' - r < Pool /\ (m # 0 => submitted' - r < m)
    BY <1>1, <1>2, <2>1, <2>6
  <2>8. caller' # "drained"
    BY <1>1
  <2> QED
    BY <2>6, <2>7, <2>8 DEF InOneTurn, m
<1>5. PlanIsFollowed'
  BY <1>1, <1>2 DEF WarmInv, PlanIsFollowed
<1> QED
  BY <1>3, <1>4, <1>5 DEF WarmInv

\* The steps of the pass that submit no read.
LEMMA WarmControlKeeps ==
    ASSUME WarmInv, WarmFlush \/ WarmStop \/ WarmEnd \/ WarmDeclines
    PROVE  WarmInv' /\ Outstanding' = Outstanding
<1>1. /\ UNCHANGED <<pending, reading, completed, failed, lost, answered, job, worker>>
      /\ submitted' = submitted /\ plan' = plan
  BY DEF WarmFlush, WarmStop, WarmEnd, WarmDeclines, DrainBegin, readerVars, portVars, workerVars
<1>2. ReaderInv' /\ Outstanding' = Outstanding
  BY <1>1, StillReads DEF WarmInv, ReaderInv, ReaderTypes
<1>3. \/ caller' = "checking"
      \/ caller' = caller /\ warm' = "over"
  BY DEF WarmFlush, WarmStop, WarmEnd, WarmDeclines, DrainBegin, readerVars
<1>4. InOneTurn'
  BY <1>1, <1>2, <1>3 DEF WarmInv, InOneTurn
<1>5. PlanIsFollowed'
  BY <1>1 DEF WarmInv, PlanIsFollowed, WarmFlush, WarmStop, WarmEnd, WarmDeclines
<1> QED
  BY <1>2, <1>4, <1>5 DEF WarmInv

-----------------------------------------------------------------------------
(* The plan of the warm-up pass *)

\* q lists what is in s, by offset
Ordered(q, s) ==
    /\ q \in Seq(s)
    /\ \A t \in s : \E i \in DOMAIN q : q[i] = t
    /\ \A i, j \in DOMAIN q : i < j => q[i].offset <= q[j].offset

\* the sort as a fold: what it takes first of each set of ranges, and what it does with it
First(ranges) == [s \in SUBSET ranges |-> CHOOSE t \in s : \A u \in s : ~Earlier(u, t)]
Putting(ranges) == [p \in ranges \X Seq(ranges) |-> <<p[1]>> \o p[2]]

\* Among ranges one is not later than any other.
LEMMA FirstIsIn ==
    ASSUME NEW s \in SUBSET Dense, s # {}
    PROVE  \E t \in s : \A u \in s : ~Earlier(u, t)
<1> DEFINE Offsets == {t.offset : t \in s}
<1>1. Offsets \in SUBSET Nat /\ Offsets # {}
  BY DenseAssumption
<1>2. PICK o \in Offsets : \A n \in Offsets : o <= n
  <2> HIDE DEF Offsets
  <2> QED
    BY <1>1, LeastNat
<1> DEFINE Lowest == {t \in s : t.offset = o}
           Sizes == {t.size : t \in Lowest}
<1>3. Sizes \in SUBSET Nat /\ Sizes # {}
  BY <1>2, DenseAssumption
<1>4. PICK z \in Sizes : \A n \in Sizes : z <= n
  <2> HIDE DEF Sizes
  <2> QED
    BY <1>3, LeastNat
<1>5. PICK t \in s : t.offset = o /\ t.size = z
  BY <1>4
<1>6. ASSUME NEW u \in s PROVE ~Earlier(u, t)
  <2>1. /\ t.offset \in Nat /\ t.size \in Nat /\ u.offset \in Nat /\ u.size \in Nat
        /\ t.offset <= u.offset
    BY <1>2, <1>5, DenseAssumption
  <2>2. u.offset = t.offset => t.size <= u.size
    BY <1>4, <1>5
  <2> QED
    BY <2>1, <2>2 DEF Earlier
<1> QED
  BY <1>5, <1>6

\* A range no other is before goes in front of the others.
LEMMA PutKeeps ==
    ASSUME NEW s \in SUBSET Dense, NEW t \in s, \A u \in s : ~Earlier(u, t),
           NEW q, Ordered(q, s \ {t})
    PROVE  Ordered(<<t>> \o q, s)
<1> DEFINE r == <<t>> \o q
<1>1. /\ q \in Seq(s \ {t}) /\ Len(q) \in Nat /\ DOMAIN q = 1..Len(q)
      /\ \A i \in DOMAIN q : q[i] \in s
  BY DEF Ordered
<1>2. q \in Seq(s)
  BY <1>1
<1>3. /\ r \in Seq(s) /\ DOMAIN r = 1..(Len(q) + 1) /\ r[1] = t
      /\ \A i \in DOMAIN q : i + 1 \in DOMAIN r /\ r[i + 1] = q[i]
      /\ \A i \in DOMAIN r : i # 1 => i - 1 \in DOMAIN q /\ r[i] = q[i - 1]
  BY <1>1, <1>2
<1> HIDE DEF r
<1>4. 1 \in DOMAIN r
  BY <1>1, <1>3
<1>5. ASSUME NEW x \in s
      PROVE  \E i \in DOMAIN r : r[i] = x
  <2>1. CASE x = t
    BY <2>1, <1>3, <1>4
  <2>2. CASE x # t
    <3>1. PICK i \in DOMAIN q : q[i] = x
      BY <2>2 DEF Ordered
    <3> QED
      BY <3>1, <1>3
  <2> QED
    BY <2>1, <2>2
<1>6. ASSUME NEW i \in DOMAIN r, NEW j \in DOMAIN r, i < j
      PROVE  r[i].offset <= r[j].offset
  <2>0. i \in Nat /\ j \in Nat /\ i >= 1 /\ j # 1
    BY <1>1, <1>3, <1>6
  <2>1. CASE i = 1
    <3>1. r[j] \in s /\ r[i] = t
      BY <2>0, <2>1, <1>1, <1>3
    <3>2. ~Earlier(r[j], t) /\ t.offset \in Nat /\ r[j].offset \in Nat
      BY <3>1, DenseAssumption
    <3> QED
      BY <3>1, <3>2 DEF Earlier
  <2>2. CASE i # 1
    <3>1. i - 1 \in DOMAIN q /\ j - 1 \in DOMAIN q /\ r[i] = q[i - 1] /\ r[j] = q[j - 1]
      BY <2>0, <2>2, <1>3
    <3>2. i - 1 < j - 1
      BY <2>0, <1>6
    <3> QED
      BY <3>1, <3>2 DEF Ordered
  <2> QED
    BY <2>1, <2>2
<1> QED
  BY <1>3, <1>5, <1>6 DEF Ordered, r

\* std::sort lists the ranges by offset.
LEMMA SortOrders ==
    ASSUME NEW ranges \in SUBSET Dense
    PROVE  Ordered(InOrder(ranges), ranges)
<1> DEFINE low(s) == CHOOSE t \in s : \A u \in s : ~Earlier(u, t)
           Eq(g) == g = [s \in SUBSET ranges |->
                IF s = {} THEN <<>> ELSE <<low(s)>> \o g[s \ {low(s)}]]
<1>0. IsFiniteSet(ranges)
  BY DenseAssumption, FS_Subset
<1>1. InOrder(ranges) = (CHOOSE g : Eq(g))[ranges]
  BY DEF InOrder, MapThenFoldSet
<1>2. \A s \in SUBSET ranges : First(ranges)[s] = low(s)
  BY DEF First
<1>3. \A s \in SUBSET ranges : s # {} =>
        First(ranges)[s] \in s /\ low(s) \in s /\ \A u \in s : ~Earlier(u, low(s))
  <2>1. SUFFICES ASSUME NEW s \in SUBSET ranges, s # {}
                 PROVE  low(s) \in s /\ \A u \in s : ~Earlier(u, low(s))
    BY <1>2
  <2>2. \E t \in s : \A u \in s : ~Earlier(u, t)
    BY <2>1, FirstIsIn
  <2> QED
    BY <2>2
<1> HIDE DEF low
<1>4. PICK g \in [SUBSET ranges -> Seq(ranges)] :
        IsFold(g, ranges, <<>>, Putting(ranges), First(ranges))
  <2>1. Putting(ranges) \in [ranges \X Seq(ranges) -> Seq(ranges)]
    <3>1. ASSUME NEW p \in ranges \X Seq(ranges)
          PROVE  <<p[1]>> \o p[2] \in Seq(ranges)
      <4>1. p[1] \in ranges /\ p[2] \in Seq(ranges)
        OBVIOUS
      <4>2. <<p[1]>> \in Seq(ranges)
        BY <4>1
      <4> QED
        BY <4>1, <4>2
    <3> QED
      BY <3>1 DEF Putting
  <2>2. <<>> \in Seq(ranges) /\ \A s \in SUBSET ranges : s # {} => First(ranges)[s] \in s
    BY <1>3
  <2> DEFINE V == Seq(ranges)
             op == Putting(ranges)
             c == First(ranges)
  <2> HIDE DEF V, op, c
  <2> QED
    BY <1>0, <2>1, <2>2, FoldExists DEF V, op, c
<1>5. \A s \in SUBSET ranges : g[s] = IF s = {} THEN <<>> ELSE <<low(s)>> \o g[s \ {low(s)}]
  <2>1. SUFFICES ASSUME NEW s \in SUBSET ranges
                 PROVE  g[s] = IF s = {} THEN <<>> ELSE <<low(s)>> \o g[s \ {low(s)}]
    OBVIOUS
  <2>2. CASE s = {}
    BY <1>4, <2>2 DEF IsFold
  <2>3. CASE s # {}
    <3> DEFINE x == low(s)
               rest == g[s \ {x}]
    <3>1. x \in ranges /\ First(ranges)[s] = x
      BY <1>2, <1>3, <2>3
    <3>2. rest \in Seq(ranges)
      BY <1>4
    <3>3. g[s] = Putting(ranges)[<<x, rest>>]
      BY <1>4, <2>3, <3>1 DEF IsFold
    <3> HIDE DEF x, rest
    <3>4. Putting(ranges)[<<x, rest>>] = <<x>> \o rest
      BY <3>1, <3>2 DEF Putting
    <3> QED
      BY <2>3, <3>3, <3>4 DEF x, rest
  <2> QED
    BY <2>2, <2>3
<1>6. Eq(g)
  BY <1>5
<1> DEFINE h == CHOOSE f : Eq(f)
<1>7. Eq(h)
  <2> HIDE DEF Eq
  <2> QED
    BY <1>6
<1>8. \A s \in SUBSET ranges : h[s] = IF s = {} THEN <<>> ELSE <<low(s)>> \o h[s \ {low(s)}]
  BY <1>7
<1> HIDE DEF h
<1> DEFINE Bad == {s \in SUBSET ranges : ~Ordered(h[s], s)}
<1>9. Bad = {}
  <2>1. SUFFICES ASSUME Bad # {}
                 PROVE  FALSE
    OBVIOUS
  <2>2. PICK s \in Bad : \A t \in SUBSET s : t # s => t \notin Bad
    <3>1. Bad \in SUBSET SUBSET ranges
      OBVIOUS
    <3> HIDE DEF Bad
    <3> QED
      BY <1>0, <2>1, <3>1, LeastSubset
  <2>3. s \in SUBSET ranges /\ ~Ordered(h[s], s)
    BY <2>2
  <2>4. CASE s = {}
    <3>1. h[s] = <<>>
      BY <1>8, <2>3, <2>4
    <3>2. Ordered(<<>>, {})
      BY DEF Ordered
    <3> QED
      BY <2>3, <2>4, <3>1, <3>2
  <2>5. CASE s # {}
    <3>1. /\ low(s) \in s /\ \A u \in s : ~Earlier(u, low(s))
          /\ s \ {low(s)} \in SUBSET s /\ s \ {low(s)} # s /\ s \ {low(s)} \in SUBSET ranges
      BY <1>3, <2>3, <2>5
    <3>2. Ordered(h[s \ {low(s)}], s \ {low(s)})
      BY <2>2, <3>1
    <3>3. s \in SUBSET Dense
      BY <2>3
    <3>4. Ordered(<<low(s)>> \o h[s \ {low(s)}], s)
      BY <3>1, <3>2, <3>3, PutKeeps
    <3> QED
      BY <1>8, <2>3, <2>5, <3>4
  <2> QED
    BY <2>4, <2>5
<1>10. ranges \in SUBSET ranges
  OBVIOUS
<1>11. Ordered(h[ranges], ranges)
  BY <1>9, <1>10
<1> QED
  BY <1>1, <1>11 DEF h

\* the runs of a shard, each of a byte at least
RunsOn(shard) == {r \in [shard : {shard}, start : Nat, end : Nat] : r.start < r.end}

\* each range of `seen` lies in one of the runs rs, and each run starts where a range does
Covers(rs, seen, shard) ==
    /\ rs \in Seq(RunsOn(shard))
    /\ \A n \in DOMAIN rs : \E t \in seen : rs[n].start = t.offset
    /\ \A t \in seen : \E n \in DOMAIN rs :
        rs[n].start <= t.offset /\ t.offset + t.size <= rs[n].end

\* A range that starts no earlier than the others is covered too once it is added.
LEMMA AddRangeCovers ==
    ASSUME NEW shard, NEW rs, NEW seen \in SUBSET Dense, Covers(rs, seen, shard),
           NEW t \in Dense, t.shard = shard, t.size > 0,
           \A u \in seen : u.offset <= t.offset
    PROVE  Covers(AddRange(rs, t), seen \cup {t}, shard)
<1> DEFINE R == RunsOn(shard)
           m == Len(rs)
           sq == AddRange(rs, t)
<1>0. t.offset \in Nat /\ t.size \in Nat /\ t.size > 0
  BY DenseAssumption
<1>1. rs \in Seq(R) /\ m \in Nat /\ DOMAIN rs = 1..m /\ \A n \in 1..m : rs[n] \in R
  BY DEF Covers
<1>2. CASE rs # <<>> /\ t.offset <= Last(rs).end + Gap
  <2> DEFINE old == rs[m]
             top == IF t.offset + t.size > old.end THEN t.offset + t.size ELSE old.end
             new == [old EXCEPT !.end = top]
  <2>1. m \in 1..m /\ old \in R /\ Last(rs) = old
    BY <1>1, <1>2 DEF Last
  <2>2. old.shard = shard /\ old.start \in Nat /\ old.end \in Nat /\ old.start < old.end
    BY <2>1 DEF RunsOn
  <2>3. top \in Nat /\ top >= old.end /\ top >= t.offset + t.size
    BY <1>0, <2>2
  <2>4. new \in R /\ new.start = old.start /\ new.end = top
    <3>1. old \in [shard : {shard}, start : Nat, end : Nat]
      BY <2>1 DEF RunsOn
    <3> HIDE DEF old, top
    <3>2. new \in [shard : {shard}, start : Nat, end : Nat] /\ new.start = old.start /\ new.end = top
      BY <3>1, <2>3
    <3>3. new.start < new.end
      BY <3>2, <2>2, <2>3
    <3> QED
      BY <3>2, <3>3 DEF RunsOn
  <2>5. sq = Front(rs) \o <<new>>
    BY <1>2, <2>1 DEF AddRange
  <2>6. Front(rs) \in Seq(R) /\ Len(Front(rs)) = m - 1 /\ \A n \in 1..(m - 1) : Front(rs)[n] = rs[n]
    BY <1>1, <2>1 DEF Front
  <2> DEFINE fr == Front(rs)
  <2> HIDE DEF old, top, new, sq, R, fr, m
  <2>7. fr \in Seq(R) /\ Len(fr) = m - 1 /\ \A n \in 1..(m - 1) : fr[n] = rs[n]
    BY <2>6 DEF fr
  <2>8. sq = fr \o <<new>>
    BY <2>5 DEF fr
  <2>9. /\ sq \in Seq(R) /\ DOMAIN sq = 1..m /\ sq[m] = new
        /\ \A n \in 1..(m - 1) : sq[n] = rs[n]
    <3>1. <<new>> \in Seq(R) /\ Len(<<new>>) = 1 /\ m >= 1
      BY <1>1, <2>1, <2>4
    <3>2. sq \in Seq(R) /\ Len(sq) = m
      BY <1>1, <2>7, <2>8, <3>1
    <3>3. sq[m] = new
      BY <1>1, <2>7, <2>8, <3>1
    <3>4. \A n \in 1..(m - 1) : sq[n] = fr[n]
      BY <1>1, <2>7, <2>8, <3>1
    <3> QED
      BY <2>7, <3>2, <3>3, <3>4
  <2>10. \A n \in 1..m : n = m \/ n \in 1..(m - 1)
    BY <1>1
  <2>11. \A n \in 1..m : sq[n].start = rs[n].start /\ sq[n].end >= rs[n].end /\ rs[n].end \in Nat
    <3>1. \A n \in 1..m : rs[n].end \in Nat
      BY <1>1 DEF R, RunsOn
    <3>2. \A n \in 1..(m - 1) : sq[n].start = rs[n].start /\ sq[n].end >= rs[n].end
      BY <2>9, <2>10, <3>1, <1>1
    <3> QED
      BY <2>3, <2>4, <2>9, <2>10, <3>1, <3>2 DEF old
  <2>12. \A n \in 1..m : \E u \in seen \cup {t} : sq[n].start = u.offset
    BY <1>1, <2>11 DEF Covers
  <2>13. \A u \in seen : \E n \in 1..m : sq[n].start <= u.offset /\ u.offset + u.size <= sq[n].end
    <3>1. SUFFICES ASSUME NEW u \in seen
                   PROVE  \E n \in 1..m : sq[n].start <= u.offset /\ u.offset + u.size <= sq[n].end
      OBVIOUS
    <3>2. PICK n \in 1..m : rs[n].start <= u.offset /\ u.offset + u.size <= rs[n].end
      BY <1>1 DEF Covers
    <3>3. u.offset \in Nat /\ u.size \in Nat /\ rs[n].end \in Nat /\ sq[n].end \in Nat
      <4>1. n \in DOMAIN sq /\ sq \in Seq(R)
        BY <2>9
      <4>2. sq[n] \in R
        BY <4>1
      <4> QED
        BY <4>2, <2>11, DenseAssumption DEF R, RunsOn
    <3> QED
      BY <2>11, <3>2, <3>3
  <2>14. sq[m].start <= t.offset /\ t.offset + t.size <= sq[m].end
    <3>1. PICK u \in seen : rs[m].start = u.offset
      BY <1>1, <2>1 DEF Covers
    <3> QED
      BY <3>1, <2>1, <2>3, <2>4, <2>9 DEF old
  <2>15. \A u \in seen \cup {t} : \E n \in 1..m :
            sq[n].start <= u.offset /\ u.offset + u.size <= sq[n].end
    BY <2>1, <2>13, <2>14
  <2> QED
    BY <2>9, <2>12, <2>15 DEF Covers, R, sq
<1>3. CASE ~(rs # <<>> /\ t.offset <= Last(rs).end + Gap)
  <2> DEFINE new == [shard |-> t.shard, start |-> t.offset, end |-> t.offset + t.size]
  <2>1. new \in R /\ new.start = t.offset /\ new.end = t.offset + t.size
    BY <1>0 DEF RunsOn
  <2>2. sq = Append(rs, new)
    BY <1>3 DEF AddRange
  <2> HIDE DEF new, sq, R, m
  <2>3. /\ sq \in Seq(R) /\ DOMAIN sq = 1..(m + 1) /\ sq[m + 1] = new
        /\ \A n \in 1..m : sq[n] = rs[n]
    BY <1>1, <2>1, <2>2 DEF m
  <2>4. /\ \A n \in 1..(m + 1) : n \in 1..m \/ n = m + 1
        /\ \A n \in 1..m : n \in 1..(m + 1)
        /\ m + 1 \in 1..(m + 1)
    BY <1>1
  <2>5. \A n \in 1..(m + 1) : \E u \in seen \cup {t} : sq[n].start = u.offset
    BY <1>1, <2>1, <2>3, <2>4 DEF Covers
  <2>6. \A u \in seen : \E n \in 1..(m + 1) :
            sq[n].start <= u.offset /\ u.offset + u.size <= sq[n].end
    BY <1>1, <2>3, <2>4 DEF Covers
  <2>7. sq[m + 1].start <= t.offset /\ t.offset + t.size <= sq[m + 1].end
    BY <1>0, <2>1, <2>3
  <2> QED
    BY <2>3, <2>4, <2>5, <2>6, <2>7 DEF Covers, R, sq
<1> QED
  BY <1>2, <1>3

\* the merge as a fold: the runs so far, and the range that comes next
Growing(q, n, V) == [p \in (1..n) \X V |-> AddRange(p[2], q[p[1]])]

\* A run is a run whatever comes next.
LEMMA AddRangeIsRuns ==
    ASSUME NEW shard, NEW rs \in Seq(RunsOn(shard)), NEW t \in Dense, t.shard = shard, t.size > 0
    PROVE  AddRange(rs, t) \in Seq(RunsOn(shard))
<1> DEFINE R == RunsOn(shard)
           m == Len(rs)
<1>0. t.offset \in Nat /\ t.size \in Nat /\ t.size > 0
  BY DenseAssumption
<1>1. rs \in Seq(R) /\ m \in Nat /\ DOMAIN rs = 1..m /\ \A n \in 1..m : rs[n] \in R
  OBVIOUS
<1>2. CASE rs # <<>> /\ t.offset <= Last(rs).end + Gap
  <2> DEFINE old == rs[m]
             top == IF t.offset + t.size > old.end THEN t.offset + t.size ELSE old.end
             new == [old EXCEPT !.end = top]
             fr == Front(rs)
  <2>1. m \in 1..m /\ old \in R /\ Last(rs) = old
    BY <1>1, <1>2 DEF Last
  <2>2. old \in [shard : {shard}, start : Nat, end : Nat] /\ old.start < old.end
    BY <2>1 DEF RunsOn
  <2>3. top \in Nat /\ top >= old.end /\ old.end \in Nat /\ old.start \in Nat
    BY <1>0, <2>2
  <2>4. new \in R
    <3> HIDE DEF old, top
    <3>1. new \in [shard : {shard}, start : Nat, end : Nat] /\ new.start = old.start /\ new.end = top
      BY <2>2, <2>3
    <3>2. new.start < new.end
      BY <3>1, <2>2, <2>3
    <3> QED
      BY <3>1, <3>2 DEF RunsOn
  <2>5. AddRange(rs, t) = fr \o <<new>>
    BY <1>2, <2>1 DEF AddRange
  <2>6. fr \in Seq(R)
    BY <1>1, <2>1 DEF Front
  <2> HIDE DEF new, fr, R
  <2>7. AddRange(rs, t) \in Seq(R)
    BY <2>4, <2>5, <2>6
  <2> QED
    BY <2>7 DEF R
<1>3. CASE ~(rs # <<>> /\ t.offset <= Last(rs).end + Gap)
  <2> DEFINE new == [shard |-> t.shard, start |-> t.offset, end |-> t.offset + t.size]
  <2>1. new \in R
    BY <1>0 DEF RunsOn
  <2>2. AddRange(rs, t) = Append(rs, new)
    BY <1>3 DEF AddRange
  <2> HIDE DEF new, R
  <2>3. AddRange(rs, t) \in Seq(R)
    BY <1>1, <2>1, <2>2
  <2> QED
    BY <2>3 DEF R
<1> QED
  BY <1>2, <1>3

\* the ranges of a shard that hold bytes
RangesOf(shard) == {t \in Dense : t.shard = shard /\ t.size > 0}

\* The runs of a shard cover its ranges.
LEMMA WarmRunsCover ==
    ASSUME NEW shard
    PROVE  Covers(WarmRuns(shard), RangesOf(shard), shard)
<1> DEFINE ranges == RangesOf(shard)
           q == InOrder(ranges)
           n == Len(q)
           R == Seq(RunsOn(shard))
<1>0. ranges \in SUBSET Dense /\ \A t \in ranges : t.shard = shard /\ t.size > 0
  BY DEF RangesOf
<1>1. Ordered(q, ranges)
  <2> HIDE DEF ranges
  <2> QED
    BY <1>0, SortOrders
<1>2. WarmRuns(shard) = FoldLeft(AddRange, <<>>, q)
  BY DEF WarmRuns, RangesOf
<1> HIDE DEF ranges, q, n
<1>3. /\ n \in Nat /\ DOMAIN q = 1..n /\ IsFiniteSet(1..n)
      /\ \A i \in 1..n : q[i] \in ranges /\ q[i] \in Dense
      /\ \A t \in ranges : \E i \in 1..n : q[i] = t
      /\ \A i, j \in 1..n : i < j => q[i].offset <= q[j].offset
  <2>1. q \in Seq(ranges) /\ n \in Nat /\ DOMAIN q = 1..n
    BY <1>1 DEF Ordered, n
  <2>2. IsFiniteSet(1..n)
    BY <2>1, FS_Interval
  <2>3. \A i \in 1..n : q[i] \in ranges
    BY <2>1
  <2> QED
    BY <1>0, <1>1, <2>1, <2>2, <2>3 DEF Ordered
<1> DEFINE Eq(g) == g = [s \in SUBSET DOMAIN q |->
                IF s = {} THEN <<>> ELSE AddRange(g[s \ {Max(s)}], q[Max(s)])]
<1>4. WarmRuns(shard) = (CHOOSE g : Eq(g))[DOMAIN q]
  BY <1>2 DEF FoldLeft, MapThenFoldSet
<1> HIDE DEF R
<1>5. PICK g \in [SUBSET (1..n) -> R] :
          IsFold(g, 1..n, <<>>, Growing(q, n, R), Latest(n))
  <2>1. Growing(q, n, R) \in [(1..n) \X R -> R]
    <3>1. ASSUME NEW p \in (1..n) \X R
          PROVE  AddRange(p[2], q[p[1]]) \in R
      <4>1. p[2] \in R /\ p[1] \in 1..n
        OBVIOUS
      <4>2. q[p[1]] \in Dense /\ q[p[1]].shard = shard /\ q[p[1]].size > 0
        BY <4>1, <1>0, <1>3
      <4> QED
        BY <4>1, <4>2, AddRangeIsRuns DEF R
    <3> QED
      BY <3>1 DEF Growing
  <2>2. <<>> \in R /\ \A s \in SUBSET (1..n) : s # {} => Latest(n)[s] \in s
    BY <1>3, LatestIsMax DEF R
  <2> DEFINE op == Growing(q, n, R)
             c == Latest(n)
             all == 1..n
  <2> HIDE DEF op, c, all
  <2> QED
    BY <2>1, <2>2, <1>3, FoldExists DEF op, c, all
<1>6. \A s \in SUBSET (1..n) :
          g[s] = IF s = {} THEN <<>> ELSE AddRange(g[s \ {Max(s)}], q[Max(s)])
  <2>1. SUFFICES ASSUME NEW s \in SUBSET (1..n)
                 PROVE  g[s] = IF s = {} THEN <<>>
                               ELSE AddRange(g[s \ {Max(s)}], q[Max(s)])
    OBVIOUS
  <2>2. CASE s = {}
    BY <1>5, <2>2 DEF IsFold
  <2>3. CASE s # {}
    <3> DEFINE last == Max(s)
               rest == g[s \ {Max(s)}]
    <3>1. last \in s /\ Latest(n)[s] = last
      BY <1>3, <2>3, LatestIsMax
    <3>2. rest \in R
      BY <1>5
    <3>3. g[s] = Growing(q, n, R)[<<last, rest>>]
      BY <1>5, <2>3, <3>1 DEF IsFold
    <3>4. <<last, rest>> \in (1..n) \X R
      BY <3>1, <3>2
    <3> HIDE DEF last, rest
    <3>5. Growing(q, n, R)[<<last, rest>>] = AddRange(rest, q[last])
      BY <3>4 DEF Growing
    <3> QED
      BY <2>3, <3>3, <3>5 DEF last, rest
  <2> QED
    BY <2>2, <2>3
<1>7. Eq(g)
  BY <1>3, <1>6
<1> DEFINE h == CHOOSE f : Eq(f)
<1>8. Eq(h)
  <2> HIDE DEF Eq
  <2> QED
    BY <1>7
<1>9. \A s \in SUBSET (1..n) :
          h[s] = IF s = {} THEN <<>> ELSE AddRange(h[s \ {Max(s)}], q[Max(s)])
  BY <1>3, <1>8
<1> DEFINE seen(i) == {q[j] : j \in 1..i}
<1>10. \A i \in 0..n : Covers(h[1..i], seen(i), shard)
  <2> HIDE DEF h
  <2> DEFINE Bad == {i \in 0..n : ~Covers(h[1..i], seen(i), shard)}
  <2>1. SUFFICES ASSUME Bad # {}
                 PROVE  FALSE
    OBVIOUS
  <2>2. Bad \in SUBSET Nat
    BY <1>3
  <2>3. PICK i \in Bad : \A j \in Bad : i <= j
    <3> HIDE DEF Bad
    <3> QED
      BY <2>1, <2>2, LeastNat
  <2>4. i \in 0..n /\ ~Covers(h[1..i], seen(i), shard)
    BY <2>3
  <2>5. CASE i = 0
    <3>1. 1..i = {} /\ {} \in SUBSET (1..n)
      BY <2>5
    <3>2. h[1..i] = <<>> /\ seen(i) = {}
      BY <3>1, <1>9
    <3>3. Covers(<<>>, {}, shard)
      BY DEF Covers
    <3> QED
      BY <2>4, <3>2, <3>3
  <2>6. CASE i # 0
    <3>1. i - 1 \in 0..n /\ i \in 1..n /\ ~(i <= i - 1)
      BY <2>4, <2>6, <1>3
    <3>2. Covers(h[1..(i - 1)], seen(i - 1), shard)
      <4>1. i - 1 \notin Bad
        <5> HIDE DEF Bad
        <5> QED
          BY <2>3, <3>1
      <4> QED
        BY <3>1, <4>1
    <3>3. /\ 1..i \in SUBSET (1..n) /\ 1..i # {} /\ Max(1..i) = i
          /\ (1..i) \ {i} = 1..(i - 1)
          /\ 1..i = (1..(i - 1)) \cup {i}
      BY <3>1, <1>3, UpTo
    <3>4. h[1..i] = AddRange(h[1..(i - 1)], q[i])
      BY <1>9, <3>3
    <3>5. q[i] \in Dense /\ q[i].shard = shard /\ q[i].size > 0
      BY <1>0, <1>3, <3>1
    <3>6. \A j \in 1..(i - 1) : j \in 1..n /\ j < i
      BY <3>1, <1>3
    <3>7. seen(i - 1) \in SUBSET Dense /\ \A u \in seen(i - 1) : u.offset <= q[i].offset
      BY <3>1, <3>6, <1>3
    <3>8. seen(i) = seen(i - 1) \cup {q[i]}
      BY <3>3
    <3> HIDE DEF seen
    <3>9. Covers(AddRange(h[1..(i - 1)], q[i]), seen(i - 1) \cup {q[i]}, shard)
      BY <3>2, <3>5, <3>7, AddRangeCovers
    <3> QED
      BY <2>4, <3>4, <3>8, <3>9
  <2> QED
    BY <2>5, <2>6
<1>11. seen(n) = ranges
  BY <1>3
<1>12. n \in 0..n
  BY <1>3
<1> HIDE DEF seen
<1>13. Covers(h[1..n], ranges, shard)
  BY <1>10, <1>11, <1>12
<1> QED
  BY <1>3, <1>4, <1>13 DEF ranges

\* the reads of the pass
Chunks(shard) == {c \in [shard : {shard}, offset : Nat, size : Nat] : c.size \in 1..Chunk}

\* A run is read in chunks of at most a buffer, every byte of it in one of them.
LEMMA ChunksCoverRun ==
    ASSUME NEW shard, NEW run \in RunsOn(shard)
    PROVE  /\ ChunksOf(run) \in Seq(Chunks(shard))
           /\ \A b \in run.start .. run.end - 1 : \E i \in DOMAIN ChunksOf(run) :
                LET c == ChunksOf(run)[i] IN b \in c.offset .. c.offset + c.size - 1
<1> DEFINE cs == ChunksOf(run)
           a == run.start
           e == run.end
           n == (e - a + Chunk - 1) \div Chunk
<1>1. /\ run.shard = shard /\ a \in Nat /\ e \in Nat /\ a < e
      /\ Chunk \in Nat /\ Chunk > 0
  BY PoolAssumption DEF RunsOn
<1> DEFINE at(i) == a + (i - 1) * Chunk
           much(i) == IF e - at(i) < Chunk THEN e - at(i) ELSE Chunk
<1>2. cs = [i \in 1..n |-> [shard |-> shard, offset |-> at(i), size |-> much(i)]]
  BY <1>1 DEF ChunksOf
<1> HIDE DEF cs, a, e
<1>3. n \in Nat /\ n * Chunk >= e - a /\ (n - 1) * Chunk < e - a
  <2> DEFINE top == e - a + Chunk - 1
             d == top \div Chunk
             r == top % Chunk
  <2>1. top \in Nat /\ top >= Chunk
    BY <1>1
  <2> HIDE DEF top
  <2>2. d \in Int /\ r \in 0..(Chunk - 1) /\ top = d * Chunk + r
    BY <1>1, <2>1
  <2>3. d >= 0
    BY <1>1, <2>1
  <2> HIDE DEF d, r
  <2>4. d * Chunk \in Int /\ (d - 1) * Chunk = d * Chunk - Chunk
    BY <1>1, <2>2
  <2> DEFINE p == d * Chunk
  <2> HIDE DEF p
  <2>5. p \in Int /\ (d - 1) * Chunk = p - Chunk /\ top = p + r /\ d \in Nat
    BY <2>2, <2>3, <2>4 DEF p
  <2>6. p >= e - a /\ p - Chunk < e - a
    BY <1>1, <2>2, <2>5 DEF top
  <2>7. d * Chunk >= e - a /\ (d - 1) * Chunk < e - a /\ d \in Nat
    BY <2>5, <2>6 DEF p
  <2> QED
    BY <2>7 DEF d, top
<1> HIDE DEF n
<1>4. ASSUME NEW i \in 1..n
      PROVE  at(i) \in Nat /\ much(i) \in 1..Chunk /\ at(i) < e
  <2> DEFINE x == (i - 1) * Chunk
             y == (n - 1) * Chunk
  <2>1. x \in Nat /\ y \in Int /\ x <= y
    <3>1. i - 1 \in Nat /\ n - 1 \in Nat /\ n - i \in Nat
      BY <1>3
    <3>2. (n - i) * Chunk \in Nat /\ (n - 1) * Chunk = (i - 1) * Chunk + (n - i) * Chunk
      <4>1. \A k, l \in Nat : l * Chunk \in Nat /\ (k + l) * Chunk = k * Chunk + l * Chunk
        BY <1>1
      <4>2. n - 1 = (i - 1) + (n - i)
        BY <1>3
      <4> QED
        BY <3>1, <4>1, <4>2
    <3>3. (i - 1) * Chunk \in Nat
      BY <3>1, <1>1
    <3> QED
      BY <3>2, <3>3
  <2>2. y < e - a
    BY <1>3
  <2> HIDE DEF x, y
  <2>3. a + x \in Nat /\ a + x < e
    BY <1>1, <2>1, <2>2
  <2>4. at(i) = a + x
    BY DEF x
  <2> HIDE DEF at
  <2> QED
    BY <1>1, <2>3, <2>4
<1>5. cs \in [1..n -> Chunks(shard)]
  <2>1. ASSUME NEW i \in 1..n
        PROVE  [shard |-> shard, offset |-> at(i), size |-> much(i)] \in Chunks(shard)
    <3>1. at(i) \in Nat /\ much(i) \in 1..Chunk /\ much(i) \in Nat
      BY <1>4
    <3> HIDE DEF at, much
    <3> QED
      BY <3>1 DEF Chunks
  <2> QED
    BY <1>2, <2>1
<1>6. cs \in Seq(Chunks(shard)) /\ DOMAIN cs = 1..n
  BY <1>3, <1>5
<1>7. ASSUME NEW b \in a .. e - 1
      PROVE  \E i \in 1..n : b \in at(i) .. at(i) + much(i) - 1
  <2> DEFINE k == b - a
             d == k \div Chunk
             r == k % Chunk
             i == d + 1
  <2>1. k \in Nat /\ k < e - a /\ b \in Nat /\ b = a + k
    BY <1>1
  <2> HIDE DEF k
  <2>2. d \in Nat /\ r \in 0..(Chunk - 1) /\ k = d * Chunk + r
    BY <1>1, <2>1
  <2> HIDE DEF d, r
  <2>3. d * Chunk \in Nat /\ (i - 1) * Chunk = d * Chunk
    BY <1>1, <2>2
  <2>4. d < n
    <3>1. SUFFICES ASSUME n <= d
                   PROVE  FALSE
      BY <1>3, <2>2
    <3>2. (d - n) * Chunk \in Nat /\ d * Chunk = n * Chunk + (d - n) * Chunk /\ n * Chunk \in Nat
      BY <1>1, <1>3, <2>2, <3>1
    <3>3. d * Chunk >= n * Chunk
      BY <2>3, <3>2
    <3>4. k >= d * Chunk
      BY <2>2, <2>3
    <3> DEFINE x == d * Chunk
               y == n * Chunk
    <3>5. x \in Nat /\ y \in Nat /\ k >= x /\ x >= y /\ y >= e - a
      BY <2>3, <3>2, <3>3, <3>4, <1>3
    <3> HIDE DEF x, y
    <3> QED
      BY <1>1, <2>1, <3>5
  <2>5. i \in 1..n
    BY <1>3, <2>2, <2>4
  <2> DEFINE x == d * Chunk
  <2>6. at(i) = a + x /\ x \in Nat /\ k = x + r
    BY <2>2, <2>3
  <2> HIDE DEF x, at, i
  <2>7. b >= at(i) /\ b < at(i) + Chunk /\ b < e /\ at(i) \in Nat
    BY <1>1, <2>1, <2>2, <2>6
  <2>8. b \in at(i) .. at(i) + much(i) - 1
    BY <1>1, <2>7, <2>1
  <2> QED
    BY <2>5, <2>8
<1>8. ASSUME NEW b \in a .. e - 1
      PROVE  \E i \in DOMAIN cs : b \in cs[i].offset .. cs[i].offset + cs[i].size - 1
  <2>1. PICK i \in 1..n : b \in at(i) .. at(i) + much(i) - 1
    BY <1>7
  <2>2. cs[i].offset = at(i) /\ cs[i].size = much(i)
    BY <1>2
  <2> HIDE DEF at, much
  <2> QED
    BY <1>6, <2>1, <2>2
<1> QED
  BY <1>6, <1>8 DEF cs, a, e

DenseShards == {t.shard : t \in Dense}
AnyChunk == {c \in [shard : DenseShards, offset : Nat, size : Nat] : c.size \in 1..Chunk}

\* the part of a plan that reads one shard
ShardPlan(shard) ==
    FlattenSeq([r \in DOMAIN WarmRuns(shard) |-> ChunksOf(WarmRuns(shard)[r])])

\* The reads of one shard bring every byte of its tensors.
LEMMA ShardPlanCovers ==
    ASSUME NEW shard \in DenseShards
    PROVE  /\ ShardPlan(shard) \in Seq(AnyChunk)
           /\ \A t \in Dense : t.shard = shard =>
                \A x \in Bytes(t) : \E j \in DOMAIN ShardPlan(shard) : x \in Bytes(ShardPlan(shard)[j])
<1> DEFINE rs == WarmRuns(shard)
           n == Len(rs)
           cs == [r \in DOMAIN rs |-> ChunksOf(rs[r])]
           all == ShardPlan(shard)
<1>1. Covers(rs, RangesOf(shard), shard)
  BY WarmRunsCover
<1> HIDE DEF rs
<1>2. n \in Nat /\ DOMAIN rs = 1..n /\ \A r \in 1..n : rs[r] \in RunsOn(shard)
  <2>1. rs \in Seq(RunsOn(shard))
    BY <1>1 DEF Covers
  <2> DEFINE R == RunsOn(shard)
  <2>2. rs \in Seq(R)
    BY <2>1
  <2> HIDE DEF R
  <2>3. n \in Nat /\ DOMAIN rs = 1..n /\ \A r \in 1..n : rs[r] \in R
    BY <2>2
  <2> QED
    BY <2>3 DEF R
<1>3. Chunks(shard) \in SUBSET AnyChunk
  BY DEF Chunks, AnyChunk
<1>4. ASSUME NEW r \in 1..n
      PROVE  /\ cs[r] \in Seq(AnyChunk)
             /\ \A c \in DOMAIN cs[r] : cs[r][c].shard = shard
             /\ \A b \in rs[r].start .. rs[r].end - 1 : \E c \in DOMAIN cs[r] :
                    b \in cs[r][c].offset .. cs[r][c].offset + cs[r][c].size - 1
  <2> DEFINE list == ChunksOf(rs[r])
             C == Chunks(shard)
  <2>1. /\ list \in Seq(C)
        /\ \A b \in rs[r].start .. rs[r].end - 1 : \E c \in DOMAIN list :
              b \in list[c].offset .. list[c].offset + list[c].size - 1
    BY <1>2, ChunksCoverRun
  <2>2. cs[r] = list
    BY <1>2
  <2>3. \A c \in C : c.shard = shard
    BY DEF Chunks
  <2> HIDE DEF list, C, cs
  <2>4. list \in Seq(AnyChunk) /\ \A c \in DOMAIN list : list[c] \in C
    BY <2>1, <1>3 DEF C
  <2> QED
    BY <2>1, <2>2, <2>3, <2>4
<1>5. cs \in [1..n -> Seq(AnyChunk)]
  <2>1. cs = [r \in 1..n |-> ChunksOf(rs[r])] /\ \A r \in 1..n : cs[r] = ChunksOf(rs[r])
    BY <1>2
  <2> QED
    BY <1>4, <2>1
<1>6. all = FlattenSeq(cs)
  BY DEF ShardPlan, rs
<1> HIDE DEF cs, all, n
<1>7. all \in Seq(AnyChunk) /\ \E w : Flat(all, cs, n, w)
  <2>1. n \in Nat
    BY <1>2
  <2> DEFINE A == AnyChunk
  <2> HIDE DEF A
  <2>2. cs \in [1..n -> Seq(A)]
    BY <1>5 DEF A
  <2>3. FlattenSeq(cs) \in Seq(A) /\ \E w : Flat(FlattenSeq(cs), cs, n, w)
    BY <2>1, <2>2, FlattenSeqIsFlat
  <2> QED
    BY <2>3, <1>6 DEF A
<1>8. PICK w : Flat(all, cs, n, w)
  BY <1>7
<1>9. ASSUME NEW t \in Dense, t.shard = shard, NEW x \in Bytes(t)
      PROVE  \E j \in DOMAIN all : x \in Bytes(all[j])
  <2>0. t.offset \in Nat /\ t.size \in Nat
    BY DenseAssumption
  <2>1. PICK i \in 0 .. t.size - 1 : x = <<shard, t.offset + i>>
    BY <1>9 DEF Bytes
  <2> DEFINE b == t.offset + i
  <2>2. t \in RangesOf(shard) /\ b \in Nat /\ b >= t.offset /\ b < t.offset + t.size
    BY <2>0, <2>1, <1>9 DEF RangesOf
  <2>3. PICK r \in 1..n : rs[r].start <= t.offset /\ t.offset + t.size <= rs[r].end
    BY <2>2, <1>1, <1>2 DEF Covers
  <2>4. rs[r].start \in Nat /\ rs[r].end \in Nat
    BY <1>2 DEF RunsOn
  <2>5. b \in rs[r].start .. rs[r].end - 1
    BY <2>0, <2>2, <2>3, <2>4
  <2> HIDE DEF b
  <2>6. PICK c \in DOMAIN cs[r] : b \in cs[r][c].offset .. cs[r][c].offset + cs[r][c].size - 1
    BY <2>5, <1>4
  <2>7. PICK j \in DOMAIN all : w[j][1] = r /\ w[j][2] = c
    BY <1>8 DEF Flat
  <2>8. all[j] = cs[r][c] /\ all[j].shard = shard
    BY <1>4, <1>8, <2>7 DEF Flat
  <2>9. all[j].offset \in Nat /\ all[j].size \in Nat
    <3>1. all[j] \in AnyChunk
      BY <1>7
    <3> QED
      BY <3>1 DEF AnyChunk
  <2> DEFINE k == b - all[j].offset
  <2>10. k \in 0 .. all[j].size - 1 /\ b = all[j].offset + k
    BY <2>2, <2>6, <2>8, <2>9
  <2> HIDE DEF k
  <2>11. x = <<all[j].shard, all[j].offset + k>>
    BY <2>1, <2>8, <2>10 DEF b
  <2> QED
    BY <2>10, <2>11 DEF Bytes
<1> QED
  BY <1>7, <1>9 DEF all

\* An order of a finite set leaves none of its elements out.
LEMMA OrderIsComplete ==
    ASSUME NEW T, IsFiniteSet(T), NEW order \in SetToSeqs(T), NEW x \in T
    PROVE  /\ Cardinality(T) \in Nat
           /\ order \in [1..Cardinality(T) -> T]
           /\ \E n \in 1..Cardinality(T) : order[n] = x
<1> DEFINE n == Cardinality(T)
<1>1. n \in Nat
  BY FS_CardinalityType
<1>2. order \in [1..n -> T] /\ \A i, j \in 1..n : i # j => order[i] # order[j]
  BY DEF SetToSeqs
<1>3. ASSUME \A i \in 1..n : order[i] # x
      PROVE  FALSE
  <2> DEFINE rest == T \ {x}
  <2>1. IsFiniteSet(rest) /\ Cardinality(rest) = n - 1
    BY FS_RemoveElement
  <2>2. order \in [1..n -> rest]
    BY <1>2, <1>3
  <2>3. IsFiniteSet(1..n) /\ Cardinality(1..n) = n
    BY <1>1, FS_Interval
  <2> HIDE DEF n, rest
  <2> DEFINE D == 1..n
  <2>4. IsFiniteSet(D) /\ Cardinality(rest) < Cardinality(D) /\ order \in [D -> rest]
    BY <1>1, <2>1, <2>2, <2>3
  <2> HIDE DEF D
  <2>5. \E i, j \in D : i # j /\ order[i] = order[j]
    BY <2>1, <2>4, FS_PigeonHole
  <2> QED
    BY <1>2, <2>5 DEF D
<1> QED
  BY <1>1, <1>2, <1>3

(***************************************************************************)
(* A plan reads every byte of every dense tensor, in chunks of at most one *)
(* buffer, whatever the tensors, their places and the order of the shards. *)
(***************************************************************************)
LEMMA PlansCover ==
    ASSUME NEW p \in Plans
    PROVE  /\ p \in Seq(AnyChunk)
           /\ UNION {Bytes(t) : t \in Dense} \subseteq UNION {Bytes(p[r]) : r \in 1..Len(p)}
<1> DEFINE T == DenseShards
           n == Cardinality(T)
<1>1. IsFiniteSet(T)
  <2> DEFINE f == [t \in Dense |-> t.shard]
  <2>1. f \in Surjection(Dense, T) /\ IsFiniteSet(Dense)
    BY DenseAssumption DEF Surjection, DenseShards
  <2> HIDE DEF f, T
  <2> QED
    BY <2>1, FS_Surjection
<1>2. PICK order \in SetToSeqs(T) :
        p = FlattenSeq([i \in DOMAIN order |-> ShardPlan(order[i])])
  BY DEF Plans, ShardPlan, DenseShards
<1> HIDE DEF T, n
<1> DEFINE seqs == [i \in DOMAIN order |-> ShardPlan(order[i])]
<1>3. n \in Nat /\ order \in [1..n -> T]
  <2>1. n \in Nat
    BY <1>1, FS_CardinalityType DEF n
  <2> QED
    BY <2>1, <1>2 DEF SetToSeqs, n
<1>4. seqs \in [1..n -> Seq(AnyChunk)] /\ \A i \in 1..n : seqs[i] = ShardPlan(order[i])
  BY <1>3, ShardPlanCovers DEF T
<1> HIDE DEF seqs
<1>5. p \in Seq(AnyChunk) /\ \E w : Flat(p, seqs, n, w)
  <2> DEFINE A == AnyChunk
  <2> HIDE DEF A
  <2>1. seqs \in [1..n -> Seq(A)]
    BY <1>4 DEF A
  <2>2. FlattenSeq(seqs) \in Seq(A) /\ \E w : Flat(FlattenSeq(seqs), seqs, n, w)
    BY <1>3, <2>1, FlattenSeqIsFlat
  <2> QED
    BY <1>2, <2>2 DEF A, seqs
<1>6. PICK w : Flat(p, seqs, n, w)
  BY <1>5
<1>7. ASSUME NEW t \in Dense, NEW x \in Bytes(t)
      PROVE  \E r \in 1..Len(p) : x \in Bytes(p[r])
  <2>1. t.shard \in T
    BY DEF T, DenseShards
  <2>2. PICK i \in 1..n : order[i] = t.shard
    BY <1>1, <1>2, <2>1, OrderIsComplete DEF n
  <2>3. PICK j \in DOMAIN seqs[i] : x \in Bytes(seqs[i][j])
    BY <1>4, <1>7, <2>1, <2>2, ShardPlanCovers DEF T
  <2>4. PICK r \in DOMAIN p : w[r][1] = i /\ w[r][2] = j
    BY <1>6 DEF Flat
  <2>5. p[r] = seqs[i][j]
    BY <1>6, <2>4 DEF Flat
  <2>6. r \in 1..Len(p)
    BY <1>5
  <2> QED
    BY <2>3, <2>5, <2>6
<1> QED
  BY <1>5, <1>7

-----------------------------------------------------------------------------
(* The warm-up pass *)

\* The pass begins with a plan and no read.
LEMMA WarmBeginKeeps ==
    ASSUME WarmInv, WarmBegin
    PROVE  WarmInv' /\ Outstanding' = Outstanding
<1>1. /\ warm = "idle" /\ warm' = "submitting" /\ plan' \in Plans /\ submitted' = submitted
      /\ UNCHANGED <<pending, reading, completed, failed, lost, answered, job>>
      /\ worker' = [w \in Workers |-> "waiting"] /\ caller' = caller
  BY DEF WarmBegin, Start, portVars
<1>2. submitted = 0 /\ Outstanding = {}
  BY <1>1 DEF WarmInv, PlanIsFollowed, ReaderInv, ReaderTypes
<1>3. Busy = {}
  BY <1>2, OutstandingIs
<1>4. ReaderInv' /\ Outstanding' = Outstanding
  <2>1. Busy' = {}
    BY <1>1 DEF Busy
  <2>2. worker' \in [Workers -> WorkerPlaces]
    BY <1>1
  <2> QED
    BY <1>1, <1>2, <1>3, <2>1, <2>2, StillReads DEF WarmInv
<1>5. InOneTurn'
  BY <1>2, <1>4 DEF InOneTurn
<1>6. PlanIsFollowed'
  <2>1. plan' \in Seq(AnyChunk)
    BY <1>1, PlansCover
  <2>2. Len(plan') \in Nat
    BY <2>1
  <2> QED
    BY <1>1, <1>2, <2>2 DEF PlanIsFollowed
<1> QED
  BY <1>4, <1>5, <1>6 DEF WarmInv

\* A step of the program is one of the pass, or leaves the pass alone.
LEMMA StepOfWarm ==
    ASSUME [Next]_vars
    PROVE  WarmStep \/ UNCHANGED <<readerVars, warmVars>>
<1> USE DEF OthersUnchanged
<1>1. CASE UNCHANGED vars
  BY <1>1 DEF vars
<1>2. CASE Parse \/ Configure \/ BuildIndex \/ InitDevice \/ NoPython \/ PythonStarted
  BY <1>2 DEF Parse, Configure, BuildIndex, InitDevice, NoPython, PythonStarted
<1>3. CASE StartPython \/ StopTokenizer \/ CallGoesOn
  BY <1>3 DEF StartPython, StopTokenizer, CallGoesOn
<1>4. CASE DumpEncode \/ DumpDecode \/ EncodePrompt \/ DecodeOutput
  BY <1>4 DEF DumpEncode, DumpDecode, EncodePrompt, DecodeOutput, AskTokenizer
<1>5. CASE DumpEnd \/ InitScheduler \/ InitForward \/ EnableGpuExperts \/ NothingToDo \/ RawPrompt
  BY <1>5 DEF DumpEnd, InitScheduler, InitForward, EnableGpuExperts, NothingToDo, RawPrompt
<1>6. CASE PromptEncoded \/ Generate \/ StopGenerating \/ OutputDecoded \/ Leave
  BY <1>6 DEF PromptEncoded, Generate, StopGenerating, OutputDecoded, Leave
<1>7. CASE Warm \/ WarmOver \/ Shutdown \/ ChildGoesOn
  BY <1>7 DEF Warm, WarmOver, Shutdown, ChildGoesOn
<1> QED
  BY <1>1, <1>2, <1>3, <1>4, <1>5, <1>6, <1>7 DEF Next, Host

\* A pass that has not begun has read nothing.
LEMMA WarmBegins == WarmInit => WarmInv
<1> SUFFICES ASSUME WarmInit PROVE WarmInv
  OBVIOUS
<1> USE DEF WarmInit, ReaderInit
<1>1. Busy = {} /\ Outstanding = {}
  BY DEF Busy, Outstanding
<1>2. ReaderTypes /\ OnePlace /\ AnsweredInPlace
  BY <1>1 DEF ReaderTypes, OnePlace, AnsweredInPlace
<1>3. CountIsExact
  BY <1>1, FS_EmptySet DEF CountIsExact
<1>4. InOneTurn
  BY <1>1 DEF InOneTurn
<1>5. PlanIsFollowed
  BY DEF PlanIsFollowed
<1> QED
  BY <1>2, <1>3, <1>4, <1>5 DEF WarmInv, ReaderInv

\* The pass' invariant is kept by every step.
LEMMA WarmKept == ASSUME WarmInv, [Next]_vars PROVE WarmInv'
<1>1. CASE UNCHANGED <<readerVars, warmVars>>
  <2>1. /\ UNCHANGED <<pending, reading, completed, failed, lost, answered, job, worker, caller>>
        /\ UNCHANGED <<submitted, plan, warm>>
    BY <1>1 DEF readerVars, warmVars, portVars, workerVars
  <2>2. ReaderInv' /\ Outstanding' = Outstanding
    BY <2>1, StillReads DEF WarmInv, ReaderInv, ReaderTypes
  <2> QED
    BY <2>1, <2>2 DEF WarmInv, InOneTurn, PlanIsFollowed
<1>2. CASE WarmStep
  BY <1>2, WarmSubmitKeeps, WarmControlKeeps, WarmBeginKeeps, ReaderStepKeepsTurn DEF WarmStep
<1> QED
  BY <1>1, <1>2, StepOfWarm

\* The invariant of the pass: every outstanding read was submitted in this turn of the ring.
THEOREM WarmInvariance == Spec => []WarmInv
<1>1. Init => WarmInv
  BY WarmBegins DEF Init
<1>2. WarmInv /\ [Next]_vars => WarmInv'
  BY WarmKept
<1> QED
  BY <1>1, <1>2, PTL DEF Spec

\* What the invariant says of the ring's buffers and of what the pass has read.
LEMMA RingIsSafe == ASSUME WarmInv PROVE WarmRingSafe
<1>1. /\ submitted \in Nat /\ Outstanding \subseteq 1..submitted
      /\ \A r \in Outstanding : submitted - r < Pool
      /\ plan \in Plans \cup {<<>>}
      /\ warm = "stopping" => submitted = Len(plan) /\ plan \in Plans
  BY DEF WarmInv, ReaderInv, ReaderTypes, InOneTurn, PlanIsFollowed
<1>2. ASSUME NEW r \in reading \cup completed \cup failed,
             NEW s \in reading \cup completed \cup failed, r # s
      PROVE  Buffer(r) # Buffer(s)
  <2>1. /\ r \in Nat /\ s \in Nat /\ r <= submitted /\ s <= submitted
        /\ submitted - r < Pool /\ submitted - s < Pool
    <3>1. r \in Outstanding /\ s \in Outstanding
      BY DEF Outstanding
    <3> QED
      BY <1>1, <3>1
  <2>2. Pool \in Nat \ {0}
    BY PoolAssumption
  <2>3. CASE r < s
    <3>1. s - r < Pool
      BY <1>1, <2>1, <2>2
    <3> QED
      BY <2>1, <2>2, <2>3, <3>1, PlacesDiffer DEF Buffer
  <2>4. CASE s < r
    <3>1. r - s < Pool
      BY <1>1, <2>1, <2>2
    <3> QED
      BY <2>1, <2>2, <2>4, <3>1, PlacesDiffer DEF Buffer
  <2> QED
    BY <1>2, <2>1, <2>3, <2>4
<1>3. \A r \in DOMAIN plan : plan[r].size \in 1..Chunk
  <2>1. CASE plan \in Plans
    <3>1. plan \in Seq(AnyChunk)
      BY <2>1, PlansCover
    <3>2. \A r \in DOMAIN plan : plan[r] \in AnyChunk
      BY <3>1
    <3> QED
      BY <3>2 DEF AnyChunk
  <2>2. CASE plan = <<>>
    BY <2>2
  <2> QED
    BY <1>1, <2>1, <2>2
<1>4. warm = "stopping" =>
        UNION {Bytes(t) : t \in Dense} \subseteq UNION {Bytes(plan[r]) : r \in 1 .. submitted}
  BY <1>1, PlansCover
<1> QED
  BY <1>2, <1>3, <1>4 DEF WarmRingSafe

(***************************************************************************)
(* warmDenseWeights(), with any tensors, any ring, any gap and any number  *)
(* of workers: no two reads in flight share a buffer, no chunk is larger   *)
(* than one, and a pass that ends has asked for every byte of every dense  *)
(* tensor.                                                                 *)
(***************************************************************************)
THEOREM WarmSafe == Spec => []WarmRingSafe
<1>1. WarmInv => WarmRingSafe
  BY RingIsSafe
<1> QED
  BY <1>1, WarmInvariance, PTL

-----------------------------------------------------------------------------
(* The Windows reader is an AsyncReader *)

Drains == caller \in {"checking", "unready", "asleep", "drained"}

\* A step that moves no read, calls no callback and neither begins nor ends a drain.
LEMMA Stutters ==
    ASSUME Outstanding' = Outstanding, answered' = answered, Drains' = Drains
    PROVE  UNCHANGED Abstract!readerVars
BY DEF Abstract!readerVars, Drains

\* What is outstanding are reads of the plan.
LEMMA OutstandingAreReqs ==
    ASSUME WarmInv, NEW r \in Outstanding
    PROVE  r \in Reqs
<1>1. /\ r \in 1..submitted /\ submitted \in 0..Len(plan)
      /\ plan \in Plans \cup {<<>>}
  BY DEF WarmInv, ReaderInv, ReaderTypes, PlanIsFollowed
<1>2. plan \in Plans
  <2>1. CASE plan = <<>>
    BY <1>1, <2>1
  <2> QED
    BY <1>1, <2>1
<1>3. plan \in Seq(AnyChunk)
  BY <1>2, PlansCover
<1>4. r \in DOMAIN plan
  BY <1>1, <1>3
<1> QED
  BY <1>2, <1>4, ReqsAssumption

\* A step of the reader is a step of the interface, or none.
LEMMA ReaderStepRefines ==
    ASSUME WarmInv, ReaderStep, UNCHANGED warmVars
    PROVE  [Abstract!Next]_Abstract!readerVars
<1>0. /\ ReaderInv /\ submitted' = submitted /\ submitted \in Nat
      /\ caller = "drained" => Outstanding = {}
  BY DEF WarmInv, InOneTurn, warmVars, ReaderInv, ReaderTypes
<1>1. CASE Check \/ Sleep \/ DrainEnd \/ Joined
  <2>1. UNCHANGED <<pending, reading, completed, failed, lost, answered, job, worker>>
    BY <1>1 DEF Check, Sleep, DrainEnd, Joined, portVars, workerVars
  <2>2. Outstanding' = Outstanding /\ answered' = answered
    BY <2>1 DEF Outstanding
  <2>3. CASE DrainEnd
    <3>1. caller = "drained" /\ caller' \in {"joining", "free"}
      BY <2>3 DEF DrainEnd
    <3>2. Abstract!DrainEnd
      BY <1>0, <2>2, <3>1 DEF Abstract!DrainEnd
    <3> QED
      BY <3>2 DEF Abstract!Next
  <2>4. CASE Check \/ Sleep \/ Joined
    <3>1. Drains' = Drains
      BY <2>4 DEF Check, Sleep, Joined, Drains
    <3> QED
      BY <2>2, <3>1, Stutters
  <2> QED
    BY <1>1, <2>3, <2>4
<1>2. ASSUME NEW r \in Reqs, IoCompletes(r)
      PROVE  UNCHANGED Abstract!readerVars
  <2>1. caller' = caller /\ answered' = answered
    BY <1>2 DEF IoCompletes
  <2> QED
    BY <1>0, <1>2, <2>1, CompletionKeepsReads, Stutters DEF Drains
<1>3. ASSUME NEW w \in Workers, Take(w) \/ TakeFailed(w)
      PROVE  UNCHANGED Abstract!readerVars
  <2>1. caller' = caller /\ answered' = answered
    BY <1>3 DEF Take, TakeFailed
  <2>2. Outstanding' = Outstanding
    BY <1>0, <1>3, TakeKeepsReads, FailureKeepsReads
  <2> QED
    BY <2>1, <2>2, Stutters DEF Drains
<1>4. ASSUME NEW w \in Workers, TakeStop(w) \/ Notify(w)
      PROVE  UNCHANGED Abstract!readerVars
  <2>1. /\ UNCHANGED <<reading, completed, failed, lost, answered, job>>
        /\ caller' = IF caller = "asleep" /\ caller' # caller THEN "checking" ELSE caller
        /\ worker[w] \in {"waiting", "notifying"}
        /\ worker' = [worker EXCEPT ![w] = "gone"] \/ worker' = [worker EXCEPT ![w] = "waiting"]
    BY <1>4 DEF TakeStop, Notify, portVars
  <2>2. Busy' = Busy
    BY <2>1 DEF Busy, WarmInv, ReaderInv, ReaderTypes
  <2>3. Outstanding' = Outstanding
    BY <2>1, <2>2 DEF Outstanding, Busy
  <2> QED
    BY <2>1, <2>3, Stutters DEF Drains
<1>5. ASSUME NEW w \in Workers, Call(w)
      PROVE  Abstract!Next
  <2>1. /\ Outstanding' = Outstanding /\ job[w] \in Outstanding \ answered
        /\ answered' = answered \cup {job[w]}
    BY <1>0, <1>5, CallKeepsReads
  <2>2. caller' = caller
    BY <1>5 DEF Call
  <2>3. Abstract!Answer(job[w])
    BY <2>1, <2>2 DEF Abstract!Answer
  <2> QED
    BY <2>1, <2>3, OutstandingAreReqs DEF Abstract!Next
<1>6. ASSUME NEW w \in Workers, CountDown(w)
      PROVE  Abstract!Next
  <2>1. /\ Outstanding' = Outstanding \ {job[w]} /\ job[w] \in Outstanding \cap answered
        /\ answered' = answered
    BY <1>0, <1>6, CountDownKeepsReads
  <2>2. caller' = caller
    BY <1>6 DEF CountDown
  <2>3. Abstract!Retire(job[w])
    BY <2>1, <2>2 DEF Abstract!Retire
  <2> QED
    BY <2>1, <2>3, OutstandingAreReqs DEF Abstract!Next
<1> QED
  BY <1>1, <1>2, <1>3, <1>4, <1>5, <1>6 DEF ReaderStep, WorkerStep

\* So is a step of the pass.
LEMMA PassStepRefines ==
    ASSUME WarmInv, WarmBegin \/ WarmDeclines \/ WarmSubmit \/ WarmFlush \/ WarmStop \/ WarmEnd
    PROVE  [Abstract!Next]_Abstract!readerVars
<1>1. CASE WarmBegin
  <2>1. caller' = caller /\ answered' = answered
    BY <1>1 DEF WarmBegin, Start
  <2> QED
    BY <1>1, <2>1, WarmBeginKeeps, Stutters DEF Drains
<1>2. CASE WarmDeclines \/ WarmEnd
  <2>1. caller' = caller /\ answered' = answered
    BY <1>2 DEF WarmDeclines, WarmEnd, readerVars
  <2> QED
    BY <1>2, <2>1, WarmControlKeeps, Stutters DEF Drains
<1>3. CASE WarmFlush \/ WarmStop
  <2>1. caller = "free" /\ caller' = "checking" /\ answered' = answered
    BY <1>3 DEF WarmFlush, WarmStop, DrainBegin
  <2>2. Outstanding' = Outstanding
    BY <1>3, WarmControlKeeps
  <2>3. Abstract!DrainBegin
    BY <2>1, <2>2 DEF Abstract!DrainBegin
  <2> QED
    BY <2>3 DEF Abstract!Next
<1>4. CASE WarmSubmit
  <2>1. /\ submitted' = submitted + 1 /\ submitted < Len(plan) /\ warm = "submitting"
        /\ Submit(submitted') \/ SubmitUnstarted(submitted')
    BY <1>4 DEF WarmSubmit
  <2>2. CASE Submit(submitted')
    <3>1. /\ Outstanding' = Outstanding \cup {submitted'} /\ answered' = answered
          /\ submitted' \notin Outstanding \cup answered
      BY <2>1, <2>2, SubmitKeepsReads DEF WarmInv
    <3>2. caller = "free" /\ caller' = "free"
      BY <2>2 DEF Submit
    <3>3. Abstract!Submit(submitted')
      BY <3>1, <3>2 DEF Abstract!Submit
    <3>4. submitted' \in Reqs
      <4>1. plan \in Plans /\ submitted \in Nat
        BY <2>1 DEF WarmInv, PlanIsFollowed, ReaderInv, ReaderTypes
      <4>2. plan \in Seq(AnyChunk)
        BY <4>1, PlansCover
      <4>3. submitted' \in DOMAIN plan
        BY <2>1, <4>1, <4>2
      <4> QED
        BY <4>1, <4>3, ReqsAssumption
    <3> QED
      BY <3>3, <3>4 DEF Abstract!Next
  <2>3. CASE SubmitUnstarted(submitted')
    <3>1. /\ UNCHANGED <<reading, completed, failed, lost, answered, job, worker>>
          /\ caller' = caller
      BY <2>3 DEF SubmitUnstarted, portVars, workerVars
    <3>2. Outstanding' = Outstanding
      BY <3>1 DEF Outstanding
    <3> QED
      BY <3>1, <3>2, Stutters DEF Drains
  <2> QED
    BY <2>1, <2>2, <2>3
<1> QED
  BY <1>1, <1>2, <1>3, <1>4

(***************************************************************************)
(* The Windows reader, driven by the warm-up pass, keeps the promises of   *)
(* the interface: no read is answered twice or before it is submitted, no  *)
(* drain ends with a read outstanding and none is accepted during one.     *)
(* Failed reads and reads that do not start are included.                  *)
(***************************************************************************)
THEOREM WinReaderRefinement == Spec => ImplementsAsyncReader
<1>1. Init => Abstract!Init
  BY DEF Init, WarmInit, ReaderInit, Abstract!Init, Outstanding
<1>2. WarmInv /\ [Next]_vars => [Abstract!Next]_Abstract!readerVars
  <2> SUFFICES ASSUME WarmInv, [Next]_vars
               PROVE  [Abstract!Next]_Abstract!readerVars
    OBVIOUS
  <2>1. CASE UNCHANGED <<readerVars, warmVars>>
    <3>1. UNCHANGED <<reading, completed, failed, lost, answered, job, worker, caller>>
      BY <2>1 DEF readerVars, portVars, workerVars
    <3>2. Outstanding' = Outstanding
      BY <3>1 DEF Outstanding
    <3> QED
      BY <3>1, <3>2, Stutters DEF Drains
  <2>2. CASE WarmStep
    BY <2>2, PassStepRefines, ReaderStepRefines DEF WarmStep
  <2> QED
    BY <2>1, <2>2, StepOfWarm
<1> QED
  BY <1>1, <1>2, WarmInvariance, PTL DEF Spec, ImplementsAsyncReader, Abstract!Spec

-----------------------------------------------------------------------------
(* The budgets *)

\* What readEnvOverrides() may return.
Overrides ==
    [gpu : Requests,
     lru : [set : BOOLEAN, value : Size], ram : [set : BOOLEAN, value : Size],
     vram : [set : BOOLEAN, value : Size],
     iocp : [set : BOOLEAN, value : Nat], threads : [set : BOOLEAN, value : Nat]]

\* Any text and any numbers the variables may hold.
Environments ==
    [gpu : STRING, lru : Int, ram : Int, vram : Int, iocp : Int, threads : Int]

\* Wrapped arithmetic stays below the word.
LEMMA WrapIsSize == ASSUME NEW n \in Nat PROVE Wrap(n) \in Size
BY WordAssumption, MiBAssumption DEF Wrap, Size, GiB

\* What the environment says is read as overrides of the right type.
LEMMA EnvIsOverrides ==
    ASSUME NEW env \in Environments
    PROVE  ReadEnv(env) \in Overrides
<1>1. \A mb \in Int : MbEnv(mb) \in [set : BOOLEAN, value : Size]
  <2> TAKE mb \in Int
  <2>1. CASE mb > 0
    <3>1. mb * MiB \in Nat
      BY <2>1, MiBAssumption
    <3>2. Wrap(mb * MiB) \in Size
      BY <3>1, WrapIsSize
    <3> QED BY <2>1, <3>2 DEF MbEnv
  <2>2. CASE ~(mb > 0)
    <3>1. 0 \in Size
      BY WordAssumption, MiBAssumption DEF Size, GiB
    <3> QED BY <2>2, <3>1 DEF MbEnv
  <2> QED BY <2>1, <2>2
<1>2. \A n \in Int : IntEnv(n) \in [set : BOOLEAN, value : Nat]
  BY DEF IntEnv
<1>3. env \in [gpu : STRING, lru : Int, ram : Int, vram : Int, iocp : Int, threads : Int]
  BY DEF Environments
<1>4. (IF env.gpu \in Requests THEN env.gpu ELSE "auto") \in Requests
  BY DEF Requests
<1> QED
  BY <1>1, <1>2, <1>3, <1>4 DEF ReadEnv, Overrides

\* A host of r bytes keeps at least half of them beside the reserve.
LEMMA ReserveFits ==
    ASSUME NEW r \in Nat, r >= 2 * GiB
    PROVE  /\ OsReserve(r) \in Nat
           /\ r - OsReserve(r) >= GiB
           /\ GiB \in Nat /\ GiB > 256 * MiB
BY MiBAssumption, SMT DEF OsReserve, Greater, Lesser, GiB

\* The cache's window leaves the reserve alone.
LEMMA WindowFits ==
    ASSUME NEW r \in Size, r >= 2 * GiB, NEW on, NEW o \in Overrides
    PROVE  /\ LruBytes(r, on, o) \in Nat
           /\ 256 * MiB <= LruBytes(r, on, o)
           /\ LruBytes(r, on, o) + OsReserve(r) <= r
<1>1. r \in Nat
  BY WordAssumption DEF Size
<1>2. Wrap(3 * r) \in Nat
  BY <1>1, WrapIsSize, WordAssumption DEF Size
<1>3. o.lru.value \in Nat
  BY WordAssumption DEF Overrides, Size
<1>4. LruWanted(r, on, o) \in Nat
  BY <1>2, <1>3, MiBAssumption DEF LruWanted, Greater, Lesser, GiB
<1>5. OsReserve(r) \in Nat /\ r - OsReserve(r) >= GiB /\ GiB \in Nat /\ GiB > 256 * MiB
  BY <1>1, ReserveFits
<1> DEFINE w == LruWanted(r, on, o)
           s == OsReserve(r)
<1> HIDE DEF w, s
<1>6. LruBytes(r, on, o) = Greater(256 * MiB, Beside(s, r, w, w))
  BY DEF LruBytes, w, s
<1> QED
  BY <1>1, <1>4, <1>5, <1>6, MiBAssumption DEF Greater, Beside, Lesser, w, s

\* The RAM budget lies between the window and what the reserve leaves.
LEMMA BudgetFits ==
    ASSUME NEW r \in Size, r >= 2 * GiB,
           NEW lru \in Nat, lru + OsReserve(r) <= r
    PROVE  /\ lru <= RamBudget(r, lru)
           /\ RamBudget(r, lru) + OsReserve(r) <= r
<1>1. r \in Nat
  BY WordAssumption DEF Size
<1>2. Wrap(4 * r) \in Nat /\ Wrap(lru + lru \div 2) \in Nat
  BY <1>1, WrapIsSize, WordAssumption DEF Size
<1>3. OsReserve(r) \in Nat
  BY <1>1, ReserveFits
<1> DEFINE w == Greater(Wrap(4 * r) \div 5, Wrap(lru + lru \div 2))
           s == OsReserve(r)
<1>4. w \in Nat
  BY <1>2 DEF Greater
<1>5. RamBudget(r, lru) = Greater(lru, Beside(s, r, w, lru))
  BY DEF RamBudget
<1> HIDE DEF w, s
<1>6. s \in Nat /\ lru + s <= r
  BY <1>3 DEF s
<1>7. lru <= Greater(lru, Beside(s, r, w, lru)) /\ Greater(lru, Beside(s, r, w, lru)) + s <= r
  BY <1>1, <1>4, <1>6 DEF Greater, Beside, Lesser
<1> QED
  BY <1>5, <1>7 DEF s

\* The video memory, and the share of it that is a budget, fit the device.
LEMMA VideoFits ==
    ASSUME NEW profile \in Profiles, NEW o \in Overrides, NEW on
    PROVE  /\ VramBudget(Vram(profile, o), on) <= Vram(profile, o)
           /\ Vram(profile, o) <= profile.memory \/ o.vram.set
<1>1. profile.memory \in Nat /\ o.vram.value \in Nat
  BY WordAssumption DEF Profiles, Overrides, Size
<1>2. Vram(profile, o) \in Nat /\ (Vram(profile, o) <= profile.memory \/ o.vram.set)
  BY <1>1, MiBAssumption DEF Vram, GpuReserve, Lesser
<1> DEFINE v == Vram(profile, o)
<1> HIDE DEF v
<1>3. VramBudget(v, on) <= v
  BY <1>2, MiBAssumption DEF VramBudget, Lesser, GiB, v
<1> QED BY <1>2, <1>3 DEF v

\* Threads and workers stay in their ranges.
LEMMA WorkersFit ==
    ASSUME NEW profile \in Profiles, NEW o \in Overrides
    PROVE  /\ ComputeThreads(profile, o) \in 1 .. 512
           /\ IocpWorkers(ComputeThreads(profile, o), o) \in 1 .. 16
<1>1. profile.threads \in Nat /\ o.threads.value \in Nat /\ o.iocp.value \in Nat
  BY DEF Profiles, Overrides
<1> DEFINE sought == IF o.threads.set THEN o.threads.value ELSE profile.threads
           t == ComputeThreads(profile, o)
<1>2. sought \in Nat
  BY <1>1
<1>3. t = Greater(1, Lesser(sought, 512))
  BY DEF ComputeThreads
<1> HIDE DEF sought, t
<1>4. t \in 1 .. 512
  BY <1>2, <1>3 DEF Greater, Lesser
<1> DEFINE wanted == IF o.iocp.set THEN o.iocp.value ELSE Greater(3, t \div 2)
<1>5. t \div 2 \in Nat
  BY <1>4
<1>6. Greater(3, t \div 2) \in Nat
  BY <1>5 DEF Greater
<1>7. wanted \in Nat
  BY <1>1, <1>6
<1>8. IocpWorkers(t, o) = Greater(1, Lesser(16, wanted))
  BY DEF IocpWorkers
<1> HIDE DEF wanted
<1>9. IocpWorkers(t, o) \in 1 .. 16
  BY <1>7, <1>8 DEF Greater, Lesser
<1> QED BY <1>4, <1>9 DEF t

(***************************************************************************)
(* computeAdaptiveConfig(): for every host and every environment, the      *)
(* budgets fit the memory beside the system's reserve.                     *)
(***************************************************************************)
THEOREM BudgetsAlwaysFit ==
    \A profile \in Profiles, env \in Environments :
        BudgetsFit(profile, ReadEnv(env), ComputeAdaptiveConfig(profile, ReadEnv(env)))
<1> TAKE profile \in Profiles, env \in Environments
<1> DEFINE o == ReadEnv(env)
           c == ComputeAdaptiveConfig(profile, o)
           on == ResolveGpuBackend(profile.backend, o.gpu)
           r == Ram(profile, o)
           t == ComputeThreads(profile, o)
<1>1. o \in Overrides
  BY EnvIsOverrides
<1>2. profile.ram \in Size /\ o.ram.value \in Size /\ profile.ram \in Nat /\ o.ram.value \in Nat
  <2>1. profile.ram \in Size /\ o.ram.value \in Size
    BY <1>1 DEF Profiles, Overrides
  <2> QED BY <2>1, WordAssumption DEF Size
<1> HIDE DEF o
<1>3. /\ r \in Size /\ r >= 2 * GiB
      /\ r = profile.ram \/ r = 2 * GiB \/ o.ram.set
  BY <1>2, WordAssumption, MiBAssumption DEF Ram, Greater, Size, GiB
<1>4. c.ram = r /\ c.lru = LruBytes(r, on, o) /\ c.ramBudget = RamBudget(r, c.lru)
  BY DEF ComputeAdaptiveConfig
<1>5. c.vram = Vram(profile, o) /\ c.vramBudget = VramBudget(c.vram, on)
  BY DEF ComputeAdaptiveConfig
<1>6. c.threads = t /\ c.iocp = IocpWorkers(t, o)
  BY DEF ComputeAdaptiveConfig
<1> HIDE DEF c, on, r, t
<1>7. c.lru \in Nat /\ 256 * MiB <= c.lru /\ c.lru + OsReserve(r) <= r
  BY <1>1, <1>3, <1>4, WindowFits
<1>8. c.lru <= c.ramBudget /\ c.ramBudget + OsReserve(r) <= r
  BY <1>3, <1>4, <1>7, BudgetFits
<1>9. c.vramBudget <= c.vram /\ (c.vram <= profile.memory \/ o.vram.set)
  BY <1>1, <1>5, VideoFits
<1>10. c.threads \in 1 .. 512 /\ c.iocp \in 1 .. 16
  BY <1>1, <1>6, WorkersFit DEF t
<1> QED
  BY <1>3, <1>4, <1>7, <1>8, <1>9, <1>10 DEF BudgetsFit, o, c

-----------------------------------------------------------------------------
(* The index of the weights *)

Locations(shards, T) == {Location(shards, t[1], t[2]) : t \in T}

\* what may be in the index once some tensors of T have been dispatched
Indexes(shards, T) ==
    [at : UNION {[S -> Locations(shards, T)] : S \in SUBSET SlotsOf(T)},
     mtpLayers : SUBSET Int, hasMtp : BOOLEAN, mtpHead : BOOLEAN, maxBase : Int]

\* A number found in a name is one.
LEMMA NumbersAreInts ==
    ASSUME NEW name
    PROVE  ExtractLayerNum(name) \in Int /\ ExtractMtpLayerNum(name) \in Int
<1>1. \A S : NumberAfter(name, S) \in Int
  BY DigitsAreNumbers DEF NumberAfter
<1>2. QED
  BY <1>1 DEF ExtractLayerNum, ExtractMtpLayerNum

\* The larger of two numbers is one of them.
LEMMA LargerIsInt ==
    ASSUME NEW a \in Int, NEW b \in Int
    PROVE  Max({a, b}) \in Int
<1>1. \E x \in {a, b} : \A y \in {a, b} : x >= y
  OBVIOUS
<1>2. Max({a, b}) \in {a, b}
  BY <1>1 DEF Max
<1>3. QED
  BY <1>2

\* the weights with loc at slot
Replaced(at, slot, loc) == [x \in DOMAIN at \cup {slot} |-> IF x = slot THEN loc ELSE at[x]]

\* What dispatching a tensor makes of an index, and of its weights.
LEMMA DispatchedIsIndex ==
    ASSUME NEW shards, NEW T, NEW ix \in Indexes(shards, T), NEW t \in T
    PROVE  /\ Dispatched(ix, shards, t[1], t[2]) \in Indexes(shards, T)
           /\ SlotOf(t[2]) = <<>> => Dispatched(ix, shards, t[1], t[2]).at = ix.at
           /\ SlotOf(t[2]) # <<>> => Dispatched(ix, shards, t[1], t[2]).at =
                Replaced(ix.at, SlotOf(t[2]), Location(shards, t[1], t[2]))
<1> DEFINE name == t[2]
           slot == SlotOf(name)
           loc == Location(shards, t[1], name)
           mtp == IsMtp(name) /\ name \notin {row[2] : row \in ModelSlots}
           places == IF slot = <<>> THEN ix.at
                     ELSE [x \in DOMAIN ix.at \cup {slot} |-> IF x = slot THEN loc ELSE ix.at[x]]
           has == ix.hasMtp \/ mtp
           layers == ix.mtpLayers \cup (IF mtp /\ ExtractMtpLayerNum(name) >= 0
                                        THEN {ExtractMtpLayerNum(name)} ELSE {})
           head == ix.mtpHead \/ (mtp /\ (IsMtpHead(name) \/ Has(name, <<"mtp", "dense_with_embedding">>)))
           base == IF IsPrefix(<<"model", "layers">>, name)
                   THEN Max({ix.maxBase, ExtractLayerNum(name)}) ELSE ix.maxBase
           d == Dispatched(ix, shards, t[1], name)
<1>1. d = [ix EXCEPT !.at = places, !.hasMtp = has, !.mtpLayers = layers, !.mtpHead = head,
                     !.maxBase = base]
  BY DEF Dispatched
<1>2. places \in UNION {[S -> Locations(shards, T)] : S \in SUBSET SlotsOf(T)}
  <2>1. PICK S \in SUBSET SlotsOf(T) : ix.at \in [S -> Locations(shards, T)]
    BY DEF Indexes
  <2>2. loc \in Locations(shards, T)
    BY DEF Locations
  <2> HIDE DEF loc, slot
  <2>3. CASE slot = <<>>
    BY <2>1, <2>3
  <2>4. CASE slot # <<>>
    <3>1. S \cup {slot} \in SUBSET SlotsOf(T)
      BY <2>4 DEF SlotsOf, slot
    <3>2. places \in [S \cup {slot} -> Locations(shards, T)]
      BY <2>1, <2>2, <2>4
    <3>3. QED
      BY <3>1, <3>2
  <2>5. QED
    BY <2>3, <2>4
<1>3. has \in BOOLEAN /\ head \in BOOLEAN
  <2> HIDE DEF mtp
  <2>1. QED
    OBVIOUS
<1>4. layers \in SUBSET Int
  <2>1. ix.mtpLayers \in SUBSET Int /\ ExtractMtpLayerNum(name) \in Int
    BY NumbersAreInts DEF Indexes
  <2> HIDE DEF mtp, name
  <2>2. QED
    BY <2>1
<1>5. base \in Int
  <2>1. ix.maxBase \in Int /\ ExtractLayerNum(name) \in Int
    BY NumbersAreInts DEF Indexes
  <2> HIDE DEF name
  <2>2. QED
    BY <2>1, LargerIsInt
<1> HIDE DEF places, has, layers, head, base, d
<1>6. d \in Indexes(shards, T) /\ d.at = places
  BY <1>1, <1>2, <1>3, <1>4, <1>5 DEF Indexes
<1>7. QED
  BY <1>6 DEF places, d, Replaced

\* The empty index is one.
LEMMA NoIndexIsIndex ==
    ASSUME NEW shards, NEW T
    PROVE  NoIndex \in Indexes(shards, T) /\ DOMAIN NoIndex.at = {}
<1>1. <<>> \in [{} -> Locations(shards, T)] /\ DOMAIN <<>> = {}
  OBVIOUS
<1>2. {} \in SUBSET SlotsOf(T)
  OBVIOUS
<1>3. <<>> \in UNION {[S -> Locations(shards, T)] : S \in SUBSET SlotsOf(T)}
  BY <1>1, <1>2
<1>4. QED
  BY <1>1, <1>3 DEF NoIndex, Indexes

\* the step of the fold of Collected
Taking(shards, T, ts, n) ==
    [p \in (1..n) \X Indexes(shards, T) |-> Dispatched(p[2], shards, ts[p[1]][1], ts[p[1]][2])]

\* h follows the index as the tensors of ts are dispatched
BuildsUp(h, shards, T, ts) ==
    /\ h[0] = NoIndex
    /\ \A i \in 0..Len(ts) : h[i] \in Indexes(shards, T)
    /\ \A i \in 1..Len(ts) : h[i] = Dispatched(h[i - 1], shards, ts[i][1], ts[i][2])

\* The index is built a tensor at a time.
LEMMA CollectedStepwise ==
    ASSUME NEW c, NEW T, NEW ts \in Seq(T)
    PROVE  \E h : BuildsUp(h, c.shards, T, ts) /\ Collected(c, ts) = h[Len(ts)]
<1> DEFINE n == Len(ts)
           V == Indexes(c.shards, T)
           Step(ix, i) == Dispatched(ix, c.shards, ts[i][1], ts[i][2])
           Eq(g) == g = [s \in SUBSET DOMAIN ts |->
                IF s = {} THEN NoIndex ELSE Step(g[s \ {Max(s)}], Max(s))]
<1>1. n \in Nat /\ DOMAIN ts = 1..n /\ \A i \in 1..n : ts[i] \in T
  OBVIOUS
<1>2. Collected(c, ts) = (CHOOSE g : Eq(g))[DOMAIN ts]
  BY DEF Collected, FoldLeft, MapThenFoldSet
<1>3. IsFiniteSet(1..n)
  BY <1>1, FS_Interval
<1> HIDE DEF n
<1>4. \A ix \in V : \A i \in 1..n : Step(ix, i) \in V
  BY <1>1, DispatchedIsIndex
<1>5. NoIndex \in V
  BY NoIndexIsIndex
<1> HIDE DEF V, Step
<1>6. PICK g \in [SUBSET (1..n) -> V] :
          IsFold(g, 1..n, NoIndex, [p \in (1..n) \X V |-> Step(p[2], p[1])], Latest(n))
  <2> DEFINE op == [p \in (1..n) \X V |-> Step(p[2], p[1])]
             all == 1..n
             latest == Latest(n)
  <2>1. op \in [all \X V -> V]
    BY <1>4
  <2>2. \A s \in SUBSET all : s # {} => latest[s] \in s
    BY <1>1, LatestIsMax
  <2>3. IsFiniteSet(all)
    BY <1>3
  <2> HIDE DEF op, all, latest
  <2>4. \E g \in [SUBSET all -> V] : IsFold(g, all, NoIndex, op, latest)
    BY <1>5, <2>1, <2>2, <2>3, FoldExists
  <2>5. QED
    BY <2>4 DEF op, all, latest
<1>7. \A s \in SUBSET (1..n) :
          g[s] = IF s = {} THEN NoIndex ELSE Step(g[s \ {Max(s)}], Max(s))
  <2>1. SUFFICES ASSUME NEW s \in SUBSET (1..n)
                 PROVE  g[s] = IF s = {} THEN NoIndex ELSE Step(g[s \ {Max(s)}], Max(s))
    OBVIOUS
  <2>2. CASE s = {}
    BY <1>6, <2>2 DEF IsFold
  <2>3. CASE s # {}
    <3>1. Max(s) \in s /\ Latest(n)[s] = Max(s)
      BY <1>1, <2>3, LatestIsMax
    <3> DEFINE last == Max(s)
               rest == g[s \ {last}]
    <3>2. rest \in V /\ last \in 1..n
      BY <1>6, <3>1
    <3>3. g[s] = [p \in (1..n) \X V |-> Step(p[2], p[1])][<<last, rest>>]
      BY <1>6, <2>3, <3>1 DEF IsFold
    <3> HIDE DEF last, rest
    <3>4. g[s] = Step(rest, last)
      BY <3>2, <3>3
    <3>5. QED
      BY <2>3, <3>4 DEF last, rest
  <2>4. QED
    BY <2>2, <2>3
<1>8. Eq(g)
  BY <1>1, <1>7
<1> DEFINE all == CHOOSE f : Eq(f)
<1>9. Eq(all)
  <2> HIDE DEF Eq
  <2>1. QED
    BY <1>8
<1>10. \A s \in SUBSET (1..n) :
          all[s] = IF s = {} THEN NoIndex ELSE Step(all[s \ {Max(s)}], Max(s))
  BY <1>1, <1>9
<1> HIDE DEF all, Eq
<1> DEFINE h == [i \in 0..n |-> all[1..i]]
<1>11. h[0] = NoIndex
  <2>1. 1..0 = {} /\ {} \in SUBSET (1..n) /\ 0 \in 0..n
    BY <1>1
  <2>2. QED
    BY <1>10, <2>1
<1>12. ASSUME NEW i \in 1..n
       PROVE  h[i] = Step(h[i - 1], i)
  <2>1. i - 1 \in 0..n /\ i \in 0..n
    BY <1>1
  <2>2. /\ 1..i \in SUBSET (1..n) /\ 1..i # {} /\ Max(1..i) = i
        /\ (1..i) \ {i} = 1..(i - 1)
    BY <1>1, UpTo
  <2>3. all[1..i] = Step(all[1..(i - 1)], i)
    BY <1>10, <2>2
  <2>4. QED
    BY <2>1, <2>3
<1>13. Collected(c, ts) = h[n]
  BY <1>1, <1>2 DEF all
<1> HIDE DEF h
<1>14. ASSUME NEW i \in 0..n
       PROVE  h[i] \in V
  <2> DEFINE Good == {j \in 0..n : h[j] \in V}
  <2>1. 0 \in Good
    BY <1>1, <1>5, <1>11
  <2>2. ASSUME NEW j \in Good, j < i
        PROVE  j + 1 \in Good
    <3>1. j + 1 \in 1..n /\ (j + 1) - 1 = j /\ j + 1 \in 0..n
      BY <1>1, <2>2
    <3>2. h[j + 1] = Step(h[j], j + 1)
      BY <1>12, <3>1
    <3>3. QED
      BY <1>4, <2>2, <3>1, <3>2
  <2>3. i \in Nat
    BY <1>1
  <2> HIDE DEF Good
  <2>4. i \in Good
    BY <2>1, <2>2, <2>3, CountUp
  <2>5. QED
    BY <2>4 DEF Good
<1>15. BuildsUp(h, c.shards, T, ts)
  BY <1>11, <1>12, <1>14 DEF BuildsUp, V, Step, n
<1>16. QED
  BY <1>13, <1>15 DEF n

\* what the first i tensors of ts leave in the index: of those of one slot, the last
Follows(ix, shards, ts, i) ==
    /\ \A slot : slot \in DOMAIN ix.at <=> slot # <<>> /\ \E j \in 1..i : SlotOf(ts[j][2]) = slot
    /\ \A slot \in DOMAIN ix.at : \E j \in 1..i :
        /\ SlotOf(ts[j][2]) = slot
        /\ ix.at[slot] = Location(shards, ts[j][1], ts[j][2])
        /\ \A l \in 1..i : SlotOf(ts[l][2]) = slot => l <= j

\* One more tensor takes the place of those before it.
LEMMA DispatchedFollows ==
    ASSUME NEW shards, NEW T, NEW ts \in Seq(T), NEW i \in 1..Len(ts),
           NEW ix \in Indexes(shards, T), Follows(ix, shards, ts, i - 1)
    PROVE  Follows(Dispatched(ix, shards, ts[i][1], ts[i][2]), shards, ts, i)
<1> DEFINE slot == SlotOf(ts[i][2])
           d == Dispatched(ix, shards, ts[i][1], ts[i][2])
           loc == Location(shards, ts[i][1], ts[i][2])
<1>1. ts[i] \in T /\ i \in Nat /\ i \in 1..i
  OBVIOUS
<1>2. \A j \in 1..i : j = i \/ j \in 1..(i - 1)
  OBVIOUS
<1>3. \A j \in 1..(i - 1) : j \in 1..i /\ j <= i
  OBVIOUS
<1>4. /\ slot = <<>> => d.at = ix.at
      /\ slot # <<>> => d.at = Replaced(ix.at, slot, loc)
  BY <1>1, DispatchedIsIndex
<1> HIDE DEF d, loc
<1>5. CASE slot = <<>>
  BY <1>2, <1>3, <1>4, <1>5 DEF Follows, d
<1>6. CASE slot # <<>>
  <2>1. \A x : x \in DOMAIN d.at <=> x # <<>> /\ \E j \in 1..i : SlotOf(ts[j][2]) = x
    BY <1>1, <1>2, <1>3, <1>4, <1>6 DEF Follows, Replaced
  <2>2. ASSUME NEW x \in DOMAIN d.at
        PROVE  \E j \in 1..i :
                    /\ SlotOf(ts[j][2]) = x
                    /\ d.at[x] = Location(shards, ts[j][1], ts[j][2])
                    /\ \A l \in 1..i : SlotOf(ts[l][2]) = x => l <= j
    <3>1. CASE x = slot
      <4>1. d.at[x] = loc /\ \A l \in 1..i : l <= i
        BY <1>4, <1>6, <3>1 DEF Replaced
      <4>2. QED
        BY <1>1, <3>1, <4>1 DEF loc
    <3>2. CASE x # slot
      <4>1. x \in DOMAIN ix.at /\ d.at[x] = ix.at[x]
        BY <1>4, <1>6, <3>2 DEF Replaced
      <4>2. PICK j \in 1..(i - 1) :
                /\ SlotOf(ts[j][2]) = x
                /\ ix.at[x] = Location(shards, ts[j][1], ts[j][2])
                /\ \A l \in 1..(i - 1) : SlotOf(ts[l][2]) = x => l <= j
        BY <4>1 DEF Follows
      <4>3. QED
        BY <1>2, <1>3, <3>2, <4>1, <4>2
    <3>3. QED
      BY <3>1, <3>2
  <2>3. QED
    BY <2>1, <2>2 DEF Follows, d
<1>7. QED
  BY <1>5, <1>6

\* Of the tensors collected for a slot the last stays.
LEMMA CollectedFollows ==
    ASSUME NEW c, NEW T, NEW ts \in Seq(T)
    PROVE  Follows(Collected(c, ts), c.shards, ts, Len(ts))
<1> DEFINE n == Len(ts)
<1>1. PICK h : BuildsUp(h, c.shards, T, ts) /\ Collected(c, ts) = h[n]
  BY CollectedStepwise
<1>2. n \in Nat
  OBVIOUS
<1> DEFINE Good == {i \in 0..n : Follows(h[i], c.shards, ts, i)}
<1>3. 0 \in Good
  <2>1. DOMAIN h[0].at = {} /\ 0 \in 0..n /\ 1..0 = {}
    BY <1>1, <1>2, NoIndexIsIndex DEF BuildsUp
  <2>2. QED
    BY <2>1 DEF Follows
<1>4. ASSUME NEW i \in Good, i < n
      PROVE  i + 1 \in Good
  <2>1. i + 1 \in 1..Len(ts) /\ i \in 0..Len(ts) /\ (i + 1) - 1 = i /\ i + 1 \in 0..n
    BY <1>2, <1>4
  <2>2. h[i] \in Indexes(c.shards, T) /\ Follows(h[i], c.shards, ts, i)
    BY <1>1, <1>4, <2>1 DEF BuildsUp
  <2>3. h[i + 1] = Dispatched(h[i], c.shards, ts[i + 1][1], ts[i + 1][2])
    BY <1>1, <2>1 DEF BuildsUp
  <2>4. Follows(h[i + 1], c.shards, ts, i + 1)
    BY <2>1, <2>2, <2>3, DispatchedFollows
  <2>5. QED
    BY <2>1, <2>4
<1> HIDE DEF Good, n
<1>5. n \in Good
  BY <1>2, <1>3, <1>4, CountUp
<1>6. QED
  BY <1>1, <1>5 DEF Good, n

\* A tensor that was accepted lies in its file, unless a sum has wrapped.
LEMMA AcceptedIsInFile ==
    ASSUME NEW file, NEW name \in TensorNames(file),
           file.hsize \in Uint64, file.size \in Uint64,
           file.entries[name].begin \in Uint64, file.entries[name].end \in Uint64
    PROVE  LET entry == file.entries[name]
           IN /\ ByteOffset(file, entry) % 8 = 0
              /\ ByteSize(entry) > 0
              /\ SumsFit(file, entry) => ByteOffset(file, entry) + ByteSize(entry) <= file.size
<1> DEFINE entry == file.entries[name]
           h == file.hsize
           b == entry.begin
           e == entry.end
<1>1. Verdict(file, name, entry) = "accepted"
  BY DEF TensorNames
<1> HIDE DEF entry
<1>2. ~ (e <= b) /\ InFile(file, entry) /\ ByteOffset(file, entry) % 8 = 0
  BY <1>1 DEF Verdict
<1>3. h \in Nat /\ b \in Nat /\ e \in Nat /\ TwoTo64 \in Nat
  BY WordOfBytes DEF Uint64, entry
<1>4. \A n \in 0 .. TwoTo64 - 1 : Wrapped(n) = n
  BY <1>3 DEF Wrapped
<1>5. ASSUME SumsFit(file, entry)
      PROVE  ByteOffset(file, entry) + ByteSize(entry) <= file.size
  <2>1. h + 8 + e < TwoTo64 /\ b < e
    BY <1>2, <1>3, <1>5 DEF SumsFit
  <2> DEFINE d == DataStart(file)
  <2>2. d = h + 8
    <3>1. h + 8 \in 0 .. TwoTo64 - 1
      BY <1>3, <2>1
    <3>2. QED
      BY <1>4, <3>1 DEF DataStart
  <2> HIDE DEF d
  <2>3. Wrapped(d + b) = d + b /\ Wrapped(d + e) = d + e
    <3>1. d + b \in 0 .. TwoTo64 - 1 /\ d + e \in 0 .. TwoTo64 - 1
      BY <1>3, <2>1, <2>2
    <3>2. QED
      BY <1>4, <3>1
  <2>4. d + e <= file.size
    BY <1>2, <2>3 DEF InFile, d
  <2>5. ByteOffset(file, entry) = d + b /\ ByteSize(entry) = e - b
    BY <2>3 DEF ByteOffset, ByteSize, d
  <2>6. QED
    BY <1>3, <2>2, <2>4, <2>5
<1>6. ByteSize(entry) > 0
  BY <1>2, <1>3 DEF ByteSize
<1>7. QED
  BY <1>2, <1>5, <1>6 DEF entry

\* The code writes no vector beyond its size.
LEMMA SlotsHavePlaces ==
    ASSUME NEW name, SlotOf(name) # <<>>
    PROVE  HasPlace(SlotOf(name))
<1> DEFINE layer == ExtractLayerNum(name)
           expert == ExtractExpertNum(name)
<1>1. CASE \E x : SlotOf(name) = <<x>>
  BY <1>1 DEF HasPlace
<1>2. CASE layer \in 0..(NumLayers - 1) /\ SlotOf(name) = LayerSlot(name, layer)
  <2> DEFINE field == FieldIn(CommonSlots \o (IF IsMoe(layer) THEN MoeSlots ELSE DenseSlots), name)
  <2>1. \/ LayerSlot(name, layer) = <<field, layer>>
        \/ /\ LayerSlot(name, layer) = <<FieldIn(ExpertSlots, name), layer, expert>>
           /\ IsMoe(layer) /\ expert \in 0..(NumExperts - 1)
        \/ LayerSlot(name, layer) = <<>>
    BY DEF LayerSlot
  <2> HIDE DEF field, layer, expert
  <2>2. QED
    BY <1>2, <2>1 DEF HasPlace
<1>3. QED
  BY <1>1, <1>2 DEF SlotOf

\* A set of tensors is listed without loss.
LEMMA SequenceOfSet ==
    ASSUME NEW T, IsFiniteSet(T)
    PROVE  /\ SetToSeq(T) \in Seq(T)
           /\ \A t \in T : \E n \in DOMAIN SetToSeq(T) : SetToSeq(T)[n] = t
<1> DEFINE n == Cardinality(T)
           order == SetToSeq(T)
<1>1. n \in Nat /\ ExistsBijection(1..n, T)
  BY FS_CardinalityType
<1>2. \E f \in [1..n -> T] : IsInjective(f)
  <2>1. PICK f : f \in Bijection(1..n, T)
    BY <1>1 DEF ExistsBijection
  <2> HIDE DEF n
  <2>2. f \in [1..n -> T] /\ \A i, j \in 1..n : f[i] = f[j] => i = j
    BY <2>1 DEF Bijection, Injection, IsInjective
  <2>3. QED
    BY <2>2 DEF IsInjective
<1>3. order \in [1..n -> T] /\ IsInjective(order)
  <2>1. order = CHOOSE f \in [1..n -> T] : IsInjective(f)
    BY DEF SetToSeq
  <2> HIDE DEF order, n
  <2>2. QED
    BY <1>2, <2>1
<1> HIDE DEF order, n
<1>4. order \in SetToSeqs(T)
  BY <1>3 DEF SetToSeqs, n, IsInjective
<1>5. order \in Seq(T) /\ DOMAIN order = 1..n
  BY <1>1, <1>3
<1>6. \A t \in T : \E i \in 1..n : order[i] = t
  BY <1>4, OrderIsComplete DEF n
<1>7. QED
  BY <1>5, <1>6 DEF order

\* The tensors one shard holds, and those index.json names, are finitely many.
LEMMA FoundInPart ==
    ASSUME NEW c, IsCheckpoint(c)
    PROVE  /\ \A s \in DOMAIN c.shards : IsFiniteSet(HeldBy(c, s))
           /\ IsFiniteSet({<<c.listed[name], name>> : name \in Present(c)})
<1>1. ASSUME NEW s \in DOMAIN c.shards
      PROVE  IsFiniteSet(HeldBy(c, s))
  <2> DEFINE names == TensorNames(c.shards[s])
             f == [name \in names |-> <<s, name>>]
  <2>1. IsFiniteSet(names)
    <3>1. names \in SUBSET DOMAIN c.shards[s].entries
      BY DEF TensorNames
    <3> HIDE DEF names
    <3>2. QED
      BY <3>1, FS_Subset DEF IsCheckpoint
  <2> HIDE DEF names
  <2>2. f \in Surjection(names, HeldBy(c, s))
    BY DEF Surjection, HeldBy, names
  <2> HIDE DEF f
  <2>3. QED
    BY <2>1, <2>2, FS_Surjection
<1>2. IsFiniteSet({<<c.listed[name], name>> : name \in Present(c)})
  <2> DEFINE f == [name \in Present(c) |-> <<c.listed[name], name>>]
             pairs == {<<c.listed[name], name>> : name \in Present(c)}
  <2>1. IsFiniteSet(Present(c))
    <3>1. Present(c) \in SUBSET DOMAIN c.listed
      BY DEF Present
    <3>2. QED
      BY <3>1, FS_Subset DEF IsCheckpoint
  <2>2. f \in Surjection(Present(c), pairs)
    BY DEF Surjection
  <2> HIDE DEF f, pairs
  <2>3. IsFiniteSet(pairs)
    BY <2>1, <2>2, FS_Surjection
  <2>4. QED
    BY <2>3 DEF pairs
<1>3. QED
  BY <1>1, <1>2

\* build() comes upon all of them, one after the other, and without index.json a shard at a time.
LEMMA FoundInOrder ==
    ASSUME NEW c, IsCheckpoint(c)
    PROVE  \E ts \in Seq(Found(c)) :
               /\ BuiltIndex(c) = Collected(c, ts)
               /\ \A t \in Found(c) : \E j \in DOMAIN ts : ts[j] = t
               /\ c.listed = <<>> =>
                    \A i, j \in DOMAIN ts : i <= j => ts[i][1] <= ts[j][1]
<1>1. CASE c.listed = <<>>
  <2> DEFINE n == Len(c.shards)
             seqs == [s \in DOMAIN c.shards |-> SetToSeq(HeldBy(c, s))]
             ts == FlattenSeq(seqs)
             T == Found(c)
  <2>1. T = UNION {HeldBy(c, s) : s \in DOMAIN c.shards}
    BY <1>1 DEF Found
  <2>2. n \in Nat /\ DOMAIN c.shards = 1..n
    BY DEF IsCheckpoint
  <2> HIDE DEF n, T
  <2>3. ASSUME NEW s \in 1..n
        PROVE  /\ seqs[s] \in Seq(HeldBy(c, s)) /\ HeldBy(c, s) \subseteq T
               /\ \A t \in HeldBy(c, s) : \E y \in DOMAIN seqs[s] : seqs[s][y] = t
    BY <2>1, <2>2, FoundInPart, SequenceOfSet
  <2>4. seqs \in [1..n -> Seq(T)]
    <3>1. \A s \in 1..n : seqs[s] \in Seq(T)
      <4>1. ASSUME NEW s \in 1..n
            PROVE  seqs[s] \in Seq(T)
        <5> DEFINE one == seqs[s]
                   H == HeldBy(c, s)
        <5>1. one \in Seq(H) /\ H \subseteq T
          BY <2>3
        <5> HIDE DEF one, H
        <5>2. one \in Seq(T)
          BY <5>1
        <5>3. QED
          BY <5>2 DEF one
      <4>2. QED
        BY <4>1
    <3>2. QED
      BY <2>2, <3>1
  <2> HIDE DEF seqs
  <2>5. ts \in Seq(T) /\ \E w : Flat(ts, seqs, n, w)
    BY <2>2, <2>4, FlattenSeqIsFlat
  <2>6. PICK w : Flat(ts, seqs, n, w)
    BY <2>5
  <2>7. BuiltIndex(c) = Collected(c, ts)
    BY <1>1 DEF BuiltIndex, FromHeaders, seqs
  <2> HIDE DEF ts
  <2>8. ASSUME NEW t \in T
        PROVE  \E j \in DOMAIN ts : ts[j] = t
    <3>1. PICK s \in 1..n : t \in HeldBy(c, s)
      BY <2>1, <2>2
    <3>2. PICK y \in DOMAIN seqs[s] : seqs[s][y] = t
      BY <2>3, <3>1
    <3>3. PICK x \in DOMAIN ts : w[x][1] = s /\ w[x][2] = y
      BY <2>6 DEF Flat
    <3>4. ts[x] = seqs[w[x][1]][w[x][2]]
      BY <2>6 DEF Flat
    <3>5. QED
      BY <3>2, <3>3, <3>4
  <2>9. ASSUME NEW i \in DOMAIN ts
        PROVE  ts[i][1] = w[i][1] /\ w[i][1] \in 1..n
    <3>1. w[i][1] \in 1..n /\ w[i][2] \in DOMAIN seqs[w[i][1]] /\ ts[i] = seqs[w[i][1]][w[i][2]]
      BY <2>6 DEF Flat
    <3>2. ts[i] \in HeldBy(c, w[i][1])
      BY <2>3, <3>1
    <3>3. QED
      BY <3>1, <3>2 DEF HeldBy
  <2>10. ASSUME NEW i \in DOMAIN ts, NEW j \in DOMAIN ts, i <= j
         PROVE  ts[i][1] <= ts[j][1]
    <3>1. i \in Int /\ j \in Int
      BY <2>5
    <3>2. i = j \/ w[i][1] < w[j][1] \/ w[i][1] = w[j][1]
      BY <2>6, <2>10, <3>1 DEF Flat
    <3>3. QED
      BY <2>9, <3>2
  <2>11. QED
    BY <2>5, <2>7, <2>8, <2>10 DEF T
<1>2. CASE c.listed # <<>>
  <2> DEFINE ts == SetToSeq(Found(c))
  <2>1. Found(c) = {<<c.listed[name], name>> : name \in Present(c)}
    BY <1>2 DEF Found
  <2>2. BuiltIndex(c) = Collected(c, ts)
    BY <1>2, <2>1 DEF BuiltIndex, FromList
  <2>3. IsFiniteSet(Found(c))
    BY <2>1, FoundInPart
  <2>4. ts \in Seq(Found(c)) /\ \A t \in Found(c) : \E j \in DOMAIN ts : ts[j] = t
    BY <2>3, SequenceOfSet
  <2> HIDE DEF ts
  <2>5. QED
    BY <1>2, <2>2, <2>4
<1>3. QED
  BY <1>1, <1>2

\* A tensor found is one its shard was accepted with.
LEMMA FoundInShard ==
    ASSUME NEW c, IsCheckpoint(c), NEW t \in Found(c)
    PROVE  InShard(c.shards[t[1]], c.shards[t[1]].entries[t[2]], Location(c.shards, t[1], t[2]))
<1>1. t[1] \in DOMAIN c.shards /\ t[2] \in TensorNames(c.shards[t[1]])
  BY DEF Found, HeldBy, Present
<1> DEFINE file == c.shards[t[1]]
           name == t[2]
           entry == file.entries[name]
<1>2. name \in DOMAIN file.entries
  BY <1>1 DEF TensorNames
<1>3. /\ file.hsize \in Uint64 /\ file.size \in Uint64
      /\ entry.begin \in Uint64 /\ entry.end \in Uint64
  BY <1>1, <1>2 DEF IsCheckpoint
<1>4. Location(c.shards, t[1], name) =
        [shard |-> t[1], offset |-> ByteOffset(file, entry), size |-> ByteSize(entry),
         shape |-> entry.shape, dtype |-> entry.dtype]
  BY DEF Location
<1> HIDE DEF file, name
<1>5. /\ ByteOffset(file, entry) % 8 = 0
      /\ ByteSize(entry) > 0
      /\ SumsFit(file, entry) => ByteOffset(file, entry) + ByteSize(entry) <= file.size
  BY <1>1, <1>3, AcceptedIsInFile DEF file, name
<1> HIDE DEF entry
<1>6. InShard(file, entry, Location(c.shards, t[1], name))
  BY <1>4, <1>5 DEF InShard
<1>7. QED
  BY <1>6 DEF file, name, entry

(***************************************************************************)
(* Whatever the files of a checkpoint and its index.json hold, the index   *)
(* build() makes of them has exactly the weights some tensor was found     *)
(* for, each at a place of layers or routedExperts; of several shards that *)
(* hold one the last is taken.  The bytes of a weight are inside the       *)
(* tensor's file if the tensor's end, counted from the start of the file,  *)
(* is a number of 64 bits; nothing is claimed of a header with offsets so  *)
(* large that the sums of SafeTensorsFile::open() wrap.                    *)
(***************************************************************************)
THEOREM IndexExact == \A c : IsCheckpoint(c) => IndexIsExact(c)
<1>1. SUFFICES ASSUME NEW c, IsCheckpoint(c)
               PROVE  IndexIsExact(c)
  OBVIOUS
<1> DEFINE index == BuiltIndex(c)
           T == Found(c)
<1>2. PICK ts \in Seq(T) :
          /\ index = Collected(c, ts)
          /\ \A t \in T : \E j \in DOMAIN ts : ts[j] = t
          /\ c.listed = <<>> => \A i, j \in DOMAIN ts : i <= j => ts[i][1] <= ts[j][1]
  BY <1>1, FoundInOrder
<1>3. Follows(index, c.shards, ts, Len(ts))
  BY <1>2, CollectedFollows
<1>4. DOMAIN ts = 1..Len(ts) /\ \A j \in 1..Len(ts) : ts[j] \in T
  BY <1>2
<1>5. \A t \in T :
        InShard(c.shards[t[1]], c.shards[t[1]].entries[t[2]], Location(c.shards, t[1], t[2]))
  BY <1>1, FoundInShard
<1> HIDE DEF index, T
<1>6. DOMAIN index.at = SlotsOf(T)
  <2>1. \A slot : slot \in DOMAIN index.at <=> slot \in SlotsOf(T)
    BY <1>2, <1>3, <1>4 DEF Follows, SlotsOf
  <2>2. QED
    BY <2>1
<1>7. ASSUME NEW slot \in DOMAIN index.at
      PROVE  /\ HasPlace(slot)
             /\ \E t \in T :
                  /\ SlotOf(t[2]) = slot
                  /\ index.at[slot] = Location(c.shards, t[1], t[2])
                  /\ InShard(c.shards[t[1]], c.shards[t[1]].entries[t[2]], index.at[slot])
                  /\ c.listed = <<>> => \A u \in T : SlotOf(u[2]) = slot => u[1] <= t[1]
  <2>1. PICK j \in 1..Len(ts) :
            /\ SlotOf(ts[j][2]) = slot
            /\ index.at[slot] = Location(c.shards, ts[j][1], ts[j][2])
            /\ \A l \in 1..Len(ts) : SlotOf(ts[l][2]) = slot => l <= j
    BY <1>3 DEF Follows
  <2>2. slot # <<>>
    BY <1>3 DEF Follows
  <2>3. HasPlace(slot)
    BY <2>1, <2>2, SlotsHavePlaces
  <2>4. ASSUME c.listed = <<>>, NEW u \in T, SlotOf(u[2]) = slot
        PROVE  u[1] <= ts[j][1]
    <3>1. PICK l \in 1..Len(ts) : ts[l] = u
      BY <1>2, <1>4
    <3>2. l <= j
      BY <2>1, <2>4, <3>1
    <3>3. QED
      BY <1>2, <1>4, <2>4, <3>1, <3>2
  <2>5. QED
    BY <1>4, <1>5, <2>1, <2>3, <2>4
<1>8. QED
  BY <1>6, <1>7 DEF IndexIsExact, index, T
=============================================================================
