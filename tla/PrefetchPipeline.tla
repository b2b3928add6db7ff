-------------------------- MODULE PrefetchPipeline --------------------------
(***************************************************************************)
(* The expert pipeline of src/src/engine/scheduler.cpp: the generation     *)
(* thread stages experts with prefetchAsync() and fetches them with        *)
(* getExpertPtr() / getSharedProjectionPtr(), while the reader's threads   *)
(* run the completion callbacks that fill the assemblies and put them in   *)
(* the cache.                                                              *)
(*                                                                         *)
(* One action is what a thread does between two points at which another    *)
(* thread can be seen: each call of the cache (it has its own lock), each  *)
(* critical section of inFlightMtx_, each submitted read, each copy of a   *)
(* slice, each decrement of an assembly's counter.  The cache is the one   *)
(* ExpertCache describes, the reader the one AsyncReader describes: the    *)
(* reads that are outstanding are answered in any order, by any number of  *)
(* threads at a time.                                                      *)
(*                                                                         *)
(* Abstracted: the order of recency (ExpertLRU), the popularity counts     *)
(* that decide a learned pin (the pin may or may not happen), the time a   *)
(* wait lasts (the deadline may pass at any moment), the statistics.       *)
(***************************************************************************)
EXTENDS RunMerge

CONSTANTS
    Shared,        \* keys of shared projections (getSharedProjectionPtr)
    Batches,       \* the sequences of keys prefetchAsync is called with
    Capacities,    \* byte budgets of the cache
    MaxInFlight,   \* kMaxPrefetchInFlight
    Faults,        \* subset of BOOLEAN: may reads fail?
    NoKey          \* no getter is in progress

ASSUME NoKeyIsNone == NoKey \notin Keys
ASSUME SharedAreKeys == Shared \subseteq Keys
ASSUME BatchesAreKeys == Batches \subseteq Seq(Keys)
ASSUME CapacitiesAreNat == Capacities \subseteq Nat
ASSUME FaultsAreBoolean == Faults \subseteq BOOLEAN
ASSUME NothingIsEmpty == \A k \in Keys : Total(k) > 0

VARIABLES
    capacity, resident, pinned,   \* lru_, as ExpertCache has it
    content,    \* content[k] = buffer of k's cache entry, {} when not resident
    inFlight,   \* prefetchedInFlight_
    filled,     \* filled[k] = buffer of k's Assembly
    remaining,  \* remaining[k] = slices of k's Assembly still to be copied
    reads,      \* runs submitted and not yet answered
    calls,      \* callbacks in progress, each [run, slice, at]
    pc,         \* where the generation thread is
    want,       \* the key a getter is fetching, NoKey outside of getters
    todo,       \* keys prefetchAsync has not looked at
    chosen,     \* keys it will stage
    runs,       \* runs it has not submitted
    scratch,    \* exScratch_ / shScratch_ of the getter in progress
    faulty      \* whether reads may fail in this behaviour

cacheVars == <<capacity, resident, pinned>>
asmVars   == <<filled, remaining>>
ioVars    == <<reads, calls>>
genVars   == <<want, todo, chosen, runs, scratch>>
vars == <<cacheVars, content, inFlight, asmVars, ioVars, pc, genVars, faulty>>

\* ew.totalBytes() / loc.byteSize
SizeOf == [k \in Keys |-> Total(k)]

Cache == INSTANCE ExpertCache WITH Size <- SizeOf

Init ==
    /\ Cache!Init
    /\ content = [k \in Keys |-> {}]
    /\ inFlight = {}
    /\ filled = [k \in Keys |-> {}]
    /\ remaining = [k \in Keys |-> 0]
    /\ reads = {}
    /\ calls = {}
    /\ pc = "idle"
    /\ want = NoKey
    /\ todo = <<>>
    /\ chosen = {}
    /\ runs = <<>>
    /\ scratch = {}
    /\ faulty \in Faults

\* a callback holds inFlightMtx_ between its insert and its erase
Locked == \E c \in calls : c.at = "erase"

(***************************************************************************)
(* lru_.insert(k, bytes): in, or out, with some evictions either way.      *)
(***************************************************************************)
Stored(k, bytes, E) ==
    /\ Cache!Put(k, E)
    /\ content' = [j \in Keys |-> IF j = k THEN bytes ELSE IF j \in E THEN {} ELSE content[j]]

Rejected(k, E) ==
    /\ Cache!PutRejected(k, E)
    /\ content' = [j \in Keys |-> IF j \in E THEN {} ELSE content[j]]

-----------------------------------------------------------------------------
(* prefetchAsync() and its callers *)

\* where prefetchAsync returns to: the getter that called it, or its caller
Return == IF want = NoKey THEN "idle" ELSE "reprobe"

(***************************************************************************)
(* A call from onLayerRouterDone.  Speculation gives up when the pipeline  *)
(* is full (a step that changes nothing); demand does not look.            *)
(***************************************************************************)
Stage(batch, demand) ==
    /\ pc = "idle"
    /\ demand \/ (~Locked /\ Cardinality(inFlight) < MaxInFlight)
    /\ pc' = "look"
    /\ todo' = batch
    /\ chosen' = {}
    /\ UNCHANGED <<cacheVars, content, inFlight, asmVars, ioVars, want, runs, scratch, faulty>>

\* prefetchExpert(), first check: already loading?
PrefetchExpert(k) ==
    /\ pc = "idle"
    /\ k \notin Shared
    /\ ~Locked
    /\ k \notin inFlight
    /\ pc' = "ahead"
    /\ todo' = <<k>>
    /\ chosen' = {}
    /\ UNCHANGED <<cacheVars, content, inFlight, asmVars, ioVars, want, runs, scratch, faulty>>

\* prefetchExpert(), second check: already resident?
PrefetchExpertStages ==
    /\ pc = "ahead"
    /\ IF Head(todo) \in resident
       THEN pc' = "idle" /\ todo' = <<>>
       ELSE pc' = "look" /\ UNCHANGED todo
    /\ UNCHANGED <<cacheVars, content, inFlight, asmVars, ioVars, want, chosen, runs, scratch,
                   faulty>>

\* the loop of prefetchAsync: probe() asks the cache
Look ==
    /\ pc = "look"
    /\ todo # <<>>
    /\ IF Head(todo) \in resident
       THEN todo' = Tail(todo) /\ UNCHANGED pc
       ELSE pc' = "lookFlight" /\ UNCHANGED todo
    /\ UNCHANGED <<cacheVars, content, inFlight, asmVars, ioVars, want, chosen, runs, scratch,
                   faulty>>

\* then the keys in flight, under the lock
LookFlight ==
    /\ pc = "lookFlight"
    /\ ~Locked
    /\ IF Head(todo) \in inFlight
       THEN pc' = "look" /\ todo' = Tail(todo)
       ELSE pc' = "lookAgain" /\ UNCHANGED todo
    /\ UNCHANGED <<cacheVars, content, inFlight, asmVars, ioVars, want, chosen, runs, scratch,
                   faulty>>

\* mutation: no second look at the cache
LookAgain_Trusting ==
    /\ pc = "lookAgain"
    /\ chosen' = chosen \cup {Head(todo)}
    /\ pc' = "look"
    /\ todo' = Tail(todo)
    /\ UNCHANGED <<cacheVars, content, inFlight, asmVars, ioVars, want, runs, scratch, faulty>>

(***************************************************************************)
(* and the cache once more: the key may have landed between the two        *)
(* questions of probe().                                                   *)
(***************************************************************************)
LookAgain ==
    /\ pc = "lookAgain"
    /\ chosen' = IF Head(todo) \in resident THEN chosen ELSE chosen \cup {Head(todo)}
    /\ pc' = "look"
    /\ todo' = Tail(todo)
    /\ UNCHANGED <<cacheVars, content, inFlight, asmVars, ioVars, want, runs, scratch, faulty>>

\* mutation: an empty projection is taken off the counter once too often
MarkInFlight_OneShort ==
    /\ pc = "look"
    /\ todo = <<>>
    /\ ~Locked
    /\ inFlight' = inFlight \cup chosen
    /\ filled' = [k \in Keys |-> IF k \in chosen THEN {} ELSE filled[k]]
    /\ remaining' = [k \in Keys |-> IF k \in chosen THEN Max({1, Cardinality(Parts(k)) - 1}) ELSE remaining[k]]
    /\ runs' = RunsOf[chosen]
    /\ pc' = "submit"
    /\ UNCHANGED <<cacheVars, content, ioVars, want, todo, chosen, scratch, faulty>>

(***************************************************************************)
(* The end of the loop: the chosen keys get an Assembly, are marked in     *)
(* flight before anything is submitted, and their reads are merged.        *)
(***************************************************************************)
MarkInFlight ==
    /\ pc = "look"
    /\ todo = <<>>
    /\ ~Locked
    /\ inFlight' = inFlight \cup chosen
    /\ filled' = [k \in Keys |-> IF k \in chosen THEN {} ELSE filled[k]]
    /\ remaining' = [k \in Keys |-> IF k \in chosen THEN Cardinality(Parts(k)) ELSE remaining[k]]
    /\ runs' = RunsOf[chosen]
    /\ pc' = "submit"
    /\ UNCHANGED <<cacheVars, content, ioVars, want, todo, chosen, scratch, faulty>>

SubmitRun ==
    /\ pc = "submit"
    /\ runs # <<>>
    /\ reads' = reads \cup {Head(runs)}
    /\ runs' = Tail(runs)
    /\ UNCHANGED <<cacheVars, content, inFlight, asmVars, calls, pc, want, todo, chosen, scratch,
                   faulty>>

StageReturns ==
    /\ pc = "submit"
    /\ runs = <<>>
    /\ pc' = Return
    /\ chosen' = {}
    /\ UNCHANGED <<cacheVars, content, inFlight, asmVars, ioVars, want, todo, runs, scratch, faulty>>

-----------------------------------------------------------------------------
(* The reader and the callback of a read *)

Answer(r) ==
    /\ r \in reads
    /\ reads' = reads \ {r}
    /\ calls' = calls \cup {[run |-> r, slice |-> 1, at |-> "copy"]}
    /\ UNCHANGED <<cacheVars, content, inFlight, asmVars, pc, genVars, faulty>>

\* the callback of a failed read returns at once
AnswerFails(r) ==
    /\ faulty
    /\ r \in reads
    /\ reads' = reads \ {r}
    /\ UNCHANGED <<cacheVars, content, inFlight, asmVars, calls, pc, genVars, faulty>>

SliceOf(c) == c.run.slices[c.slice]
KeyOf(c) == SliceOf(c).key

\* callback c goes on to step `at`
At(c, at) == calls' = (calls \ {c}) \cup {[c EXCEPT !.at = at]}

\* callback c is done with its slice: the next one, or the end
NextSlice(c) ==
    calls' = (calls \ {c}) \cup
                (IF c.slice < Len(c.run.slices)
                 THEN {[c EXCEPT !.slice = @ + 1, !.at = "copy"]}
                 ELSE {})

CopySlice(c) ==
    /\ c \in calls /\ c.at = "copy"
    /\ filled' = [filled EXCEPT ![KeyOf(c)] = @ \cup SliceBytes(c.run, SliceOf(c))]
    /\ At(c, "count")
    /\ UNCHANGED <<cacheVars, content, inFlight, remaining, reads, pc, genVars, faulty>>

\* mutation: the counter is decremented once per callback, not once per slice
CountSlice_PerRun(c) ==
    /\ c \in calls /\ c.at = "count"
    /\ remaining' = [remaining EXCEPT ![KeyOf(c)] = IF c.slice = 1 THEN @ - 1 ELSE @]
    /\ IF remaining'[KeyOf(c)] = 0 THEN At(c, "insert") ELSE NextSlice(c)
    /\ UNCHANGED <<cacheVars, content, inFlight, filled, reads, pc, genVars, faulty>>

\* mutation: the assembly is published by its first slice
CountSlice_Early(c) ==
    /\ c \in calls /\ c.at = "count"
    /\ remaining' = [remaining EXCEPT ![KeyOf(c)] = @ - 1]
    /\ IF remaining'[KeyOf(c)] <= 1 THEN At(c, "insert") ELSE NextSlice(c)
    /\ UNCHANGED <<cacheVars, content, inFlight, filled, reads, pc, genVars, faulty>>

\* mutation: the key leaves the set before the expert is in the cache
CountSlice_Unmarks(c) ==
    /\ c \in calls /\ c.at = "count"
    /\ remaining' = [remaining EXCEPT ![KeyOf(c)] = @ - 1]
    /\ inFlight' = IF remaining'[KeyOf(c)] = 0 THEN inFlight \ {KeyOf(c)} ELSE inFlight
    /\ IF remaining'[KeyOf(c)] = 0 THEN At(c, "insert") ELSE NextSlice(c)
    /\ UNCHANGED <<cacheVars, content, filled, reads, pc, genVars, faulty>>

CountSlice(c) ==
    /\ c \in calls /\ c.at = "count"
    /\ remaining' = [remaining EXCEPT ![KeyOf(c)] = @ - 1]
    /\ IF remaining'[KeyOf(c)] = 0 THEN At(c, "insert") ELSE NextSlice(c)
    /\ UNCHANGED <<cacheVars, content, inFlight, filled, reads, pc, genVars, faulty>>

\* the last slice of an expert: it lands in the cache, inFlightMtx_ held
Land(c) ==
    /\ c \in calls /\ c.at = "insert"
    /\ ~Locked
    /\ \E E \in Cache!Victims(KeyOf(c)) :
        Stored(KeyOf(c), filled[KeyOf(c)], E) \/ Rejected(KeyOf(c), E)
    /\ filled' = [filled EXCEPT ![KeyOf(c)] = {}]
    /\ At(c, "erase")
    /\ UNCHANGED <<inFlight, remaining, reads, pc, genVars, faulty>>

\* mutation: the key leaves the set only when the cache took it
Unmark_IfResident(c) ==
    /\ c \in calls /\ c.at = "erase"
    /\ inFlight' = IF KeyOf(c) \in resident THEN inFlight \ {KeyOf(c)} ELSE inFlight
    /\ NextSlice(c)
    /\ UNCHANGED <<cacheVars, content, asmVars, reads, pc, genVars, faulty>>

\* and leaves the set of keys in flight, inFlightMtx_ released
Unmark(c) ==
    /\ c \in calls /\ c.at = "erase"
    /\ inFlight' = inFlight \ {KeyOf(c)}
    /\ NextSlice(c)
    /\ UNCHANGED <<cacheVars, content, asmVars, reads, pc, genVars, faulty>>

-----------------------------------------------------------------------------
(* getExpertPtr() and getSharedProjectionPtr() *)

\* copyTo() into the scratch buffer; routed experts may then earn a pin
Serve(k) ==
    /\ scratch' = content[k]
    /\ pc' = IF k \in Shared THEN "served" ELSE "pin"

Get(k) ==
    /\ pc = "idle"
    /\ want' = k
    /\ IF k \in resident THEN Serve(k) ELSE pc' = "probe" /\ UNCHANGED scratch
    /\ UNCHANGED <<cacheVars, content, inFlight, asmVars, ioVars, todo, chosen, runs, faulty>>

\* probe(): a resident key needs no staging
Probe ==
    /\ pc = "probe"
    /\ pc' = IF want \in resident THEN "reprobe" ELSE "probeFlight"
    /\ UNCHANGED <<cacheVars, content, inFlight, asmVars, ioVars, genVars, faulty>>

\* nor does one in flight; any other is staged on the demand path
ProbeFlight ==
    /\ pc = "probeFlight"
    /\ ~Locked
    /\ IF want \in inFlight
       THEN pc' = "reprobe" /\ UNCHANGED todo
       ELSE pc' = "look" /\ todo' = <<want>>
    /\ UNCHANGED <<cacheVars, content, inFlight, asmVars, ioVars, want, chosen, runs, scratch,
                   faulty>>

\* probe() again: is there anything to wait for?
Reprobe ==
    /\ pc = "reprobe"
    /\ pc' = IF want \in resident THEN "wait" ELSE "reprobeFlight"
    /\ UNCHANGED <<cacheVars, content, inFlight, asmVars, ioVars, genVars, faulty>>

ReprobeFlight ==
    /\ pc = "reprobeFlight"
    /\ ~Locked
    /\ pc' = IF want \in inFlight THEN "wait" ELSE "sync"
    /\ UNCHANGED <<cacheVars, content, inFlight, asmVars, ioVars, genVars, faulty>>

\* one round of the polling loop that finds the key
Poll ==
    /\ pc = "wait"
    /\ want \in resident
    /\ Serve(want)
    /\ UNCHANGED <<cacheVars, content, inFlight, asmVars, ioVars, want, todo, chosen, runs, faulty>>

\* mutation: the wait is renewed instead of falling back
Deadline_Retries ==
    /\ pc = "wait"
    /\ pc' = "reprobe"
    /\ UNCHANGED <<cacheVars, content, inFlight, asmVars, ioVars, genVars, faulty>>

\* kDemandWaitTimeoutMs passed
Deadline ==
    /\ pc = "wait"
    /\ pc' = "sync"
    /\ UNCHANGED <<cacheVars, content, inFlight, asmVars, ioVars, genVars, faulty>>

\* the synchronous copy from the mapped shard
SyncLoad ==
    /\ pc = "sync"
    /\ scratch' = DiskImage[want]
    /\ pc' = "put"
    /\ UNCHANGED <<cacheVars, content, inFlight, asmVars, ioVars, want, todo, chosen, runs, faulty>>

\* the shard has no view: the getter returns nullptr
SyncFails ==
    /\ pc = "sync"
    /\ pc' = "idle"
    /\ want' = NoKey
    /\ UNCHANGED <<cacheVars, content, inFlight, asmVars, ioVars, todo, chosen, runs, scratch,
                   faulty>>

SyncInsert ==
    /\ pc = "put"
    /\ \E E \in Cache!Victims(want) :
        \/ Stored(want, scratch, E) /\ pc' = "pin"
        \/ Rejected(want, E) /\ pc' = "served"
    /\ UNCHANGED <<inFlight, asmVars, ioVars, genVars, faulty>>

\* a popular routed expert is pinned, a shared projection always; the key
\* may have been evicted again, and pin() then does nothing
PinWanted ==
    /\ pc = "pin"
    /\ pc' = "served"
    /\ \/ Cache!Pin(want)
       \/ (want \notin Shared \/ want \notin resident) /\ UNCHANGED cacheVars
    /\ UNCHANGED <<content, inFlight, asmVars, ioVars, genVars, faulty>>

\* the forward pass has used the bytes
Consume ==
    /\ pc = "served"
    /\ pc' = "idle"
    /\ want' = NoKey
    /\ scratch' = {}
    /\ UNCHANGED <<cacheVars, content, inFlight, asmVars, ioVars, todo, chosen, runs, faulty>>

\* onLayerRouterDone pins an expert whose probability is near the maximum
ResidencyPin(k) ==
    /\ pc = "idle"
    /\ k \notin Shared
    /\ Cache!Pin(k)
    /\ UNCHANGED <<content, inFlight, asmVars, ioVars, pc, genVars, faulty>>

-----------------------------------------------------------------------------
\* the generation thread in the middle of a call
Generation ==
    \/ PrefetchExpertStages \/ Look \/ LookFlight \/ LookAgain
    \/ MarkInFlight \/ SubmitRun \/ StageReturns
    \/ Probe \/ ProbeFlight \/ Reprobe \/ ReprobeFlight \/ Poll \/ Deadline
    \/ SyncLoad \/ SyncFails \/ SyncInsert \/ PinWanted \/ Consume

\* a reader thread at work on a run that carries bytes of k
Worker(k) ==
    \/ \E r \in reads :
        /\ \E i \in DOMAIN r.slices : r.slices[i].key = k
        /\ Answer(r) \/ AnswerFails(r)
    \/ \E c \in calls :
        /\ \E i \in DOMAIN c.run.slices : c.run.slices[i].key = k
        /\ CopySlice(c) \/ CountSlice(c) \/ Land(c) \/ Unmark(c)

Next ==
    \/ \E b \in Batches, demand \in BOOLEAN : Stage(b, demand)
    \/ \E k \in Keys : PrefetchExpert(k) \/ Get(k) \/ ResidencyPin(k) \/ Worker(k)
    \/ Generation

\* a callback that carries bytes of k takes inFlightMtx_
Landing(k) == \E c \in calls : KeyOf(c) = k /\ Land(c)

(***************************************************************************)
(* The generation thread finishes the calls it makes, but need not make    *)
(* any, and the clock passes the deadline of a wait.  The reader's threads *)
(* run every callback (EveryReadAnswered of IOCPReader), and one that      *)
(* wants inFlightMtx_ gets it although others keep taking it.              *)
(***************************************************************************)
Spec ==
    /\ Init /\ [][Next]_vars
    /\ WF_vars(Generation)
    /\ \A k \in Keys : WF_vars(Worker(k)) /\ SF_vars(Landing(k))

-----------------------------------------------------------------------------
(* Properties *)

\* bytes of k are still to come from a run not submitted, not answered, or in
\* a callback
Streaming(k) ==
    \/ \E r \in Range(runs) \cup reads : \E i \in DOMAIN r.slices : r.slices[i].key = k
    \/ \E c \in calls : \E i \in c.slice..Len(c.run.slices) : c.run.slices[i].key = k

Ample == capacity >= Cache!Bytes(Keys)

\* Types; a counter never passes zero, which would publish an expert twice
\* (prefetchAsync's `remaining` and `inserted`).
TypeOK ==
    /\ capacity \in Capacities
    /\ pinned \subseteq resident /\ resident \subseteq Keys
    /\ inFlight \subseteq Keys
    /\ want \in Keys \cup {NoKey}
    /\ chosen \subseteq Keys
    /\ \A k \in Keys : remaining[k] \in 0..Cardinality(Parts(k))
    /\ \A c \in calls : c.slice \in DOMAIN c.run.slices
    /\ pc \in {"idle", "ahead", "look", "lookFlight", "lookAgain", "submit", "probe",
               "probeFlight", "reprobe", "reprobeFlight", "wait", "sync", "put", "pin", "served"}

\* Every expert in the cache, and every buffer a getter hands to the forward
\* pass, holds exactly the bytes of its projections in the shard files, however
\* many merged runs and threads assembled it.
BytesMatchDisk ==
    /\ \A k \in resident : content[k] = DiskImage[k]
    /\ pc \in {"put", "pin", "served"} => scratch = DiskImage[want]

\* Without failed reads, prefetchedInFlight_ names exactly the experts whose
\* bytes are still to come: no key is left behind and none is missing.
FlightIsStreamingUnlessFaulty == ~faulty => inFlight = {k \in Keys : Streaming(k)}

\* prefetchAsync never stages a key that is resident or already in flight, even
\* if it lands while probe() is between its two questions.
NothingStagedTwice == pc = "look" => chosen \cap (resident \cup inFlight) = {}

\* A getter polls only for a key that is resident or in flight, when the cache
\* has room for all of them: a landing is never seen as "gone from both".
AwaitedIsComing == Ample /\ pc = "wait" => want \in resident \cup inFlight

\* Without failed reads every staged expert lands: all its slices are in some
\* run, and one of the callbacks finds the counter at zero.
AlwaysLands == \A k \in Keys : k \in inFlight /\ ~faulty ~> k \notin inFlight

\* A getter, and every other call of the generation thread, returns, failed
\* reads or not.
EveryCallReturns == pc # "idle" ~> pc = "idle"

-----------------------------------------------------------------------------
(* What the comments of the code say and the code does not keep *)

\* scheduler.h:175 "Keys currently in flight": also after a read has failed.
FlightIsStreaming == \A k \in inFlight : Streaming(k)

\* scheduler.cpp:724 "Synchronous fallback: only reached when the async path
\* could not serve the key (staging declined, or the O6 wait timed out)": a
\* getter whose second probe() ends the wait before it began has a key that is
\* not in the cache.
AsyncPathServes == [][pc = "reprobeFlight" /\ pc' = "sync" => want \notin resident]_vars
=============================================================================
