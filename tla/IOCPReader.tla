----------------------------- MODULE IOCPReader -----------------------------
(***************************************************************************)
(* The POSIX read queue of src/src/storage/iocp_reader_posix.cpp, with     *)
(* onComplete() of iocp_reader.h: a FIFO drained by worker threads, an     *)
(* atomic count of pending reads, and a drain (waitAll) that sleeps on a   *)
(* condition variable until the count is zero.                             *)
(*                                                                         *)
(* One thread, the caller, submits, drains, starts and stops, as the       *)
(* generation thread does through the Scheduler.  A step is a piece of     *)
(* code no other thread can split: a critical section, one operation on    *)
(* the atomic counter, one notify, or one evaluation of a predicate.       *)
(*                                                                         *)
(* The worker queue's condition variable is always signalled after a       *)
(* change made under its mutex.  waitCv_ is signalled without waitMtx_:    *)
(* the evaluation of the predicate and the sleep that follows are two      *)
(* steps, and a decrement and its notify may come between them.            *)
(***************************************************************************)
EXTENDS Integers, Sequences, FiniteSets

CONSTANTS
    Reqs,       \* read requests, each submitted at most once
    Workers,    \* worker threads of the pool
    None        \* no request

ASSUME ReqsFinite == IsFiniteSet(Reqs)
ASSUME WorkersNonempty == Workers # {} /\ IsFiniteSet(Workers)
ASSUME NoneAssumption == None \notin Reqs

VARIABLES
    running,    \* running_
    quit,       \* impl_->quit
    queue,      \* impl_->queue
    pending,    \* pendingCount_
    worker,     \* each worker's place in its loop
    job,        \* the request each worker handles
    caller,     \* the caller's place: "free" between two calls
    stopping,   \* whether the drain in progress belongs to stop()
    pushing,    \* the request submitRead() has counted but not queued
    calls       \* history: how often each request's callback was called

callerVars == <<caller, stopping, pushing>>
poolVars == <<worker, job>>
vars == <<running, quit, queue, pending, worker, job, caller, stopping, pushing, calls>>

Init ==
    /\ running = FALSE
    /\ quit = FALSE
    /\ queue = <<>>
    /\ pending = 0
    /\ worker = [w \in Workers |-> "unborn"]
    /\ job = [w \in Workers |-> None]
    /\ caller = "free"
    /\ stopping = FALSE
    /\ pushing = None
    /\ calls = [r \in Reqs |-> 0]

Submitted(r) ==
    \/ calls[r] > 0
    \/ pushing = r
    \/ \E i \in DOMAIN queue : queue[i] = r
    \/ \E w \in Workers : job[w] = r

-----------------------------------------------------------------------------
(* The caller's thread. *)

\* started once: the engine never restarts a stopped reader
Start ==
    /\ caller = "free"
    /\ ~running /\ ~quit
    /\ running' = TRUE
    /\ worker' = [w \in Workers |-> "ready"]
    /\ UNCHANGED <<quit, queue, pending, job, callerVars, calls>>

SubmitRefused(r) ==
    /\ caller = "free"
    /\ ~Submitted(r)
    /\ ~running
    /\ calls' = [calls EXCEPT ![r] = @ + 1]
    /\ UNCHANGED <<running, quit, queue, pending, poolVars, callerVars>>

\* Mutation: the read is queued without being counted.
SubmitCount_Uncounted(r) ==
    /\ caller = "free"
    /\ ~Submitted(r)
    /\ running
    /\ pushing' = r
    /\ caller' = "submitting"
    /\ UNCHANGED <<running, quit, queue, pending, poolVars, stopping, calls>>

SubmitCount(r) ==
    /\ caller = "free"
    /\ ~Submitted(r)
    /\ running
    /\ pending' = pending + 1
    /\ pushing' = r
    /\ caller' = "submitting"
    /\ UNCHANGED <<running, quit, queue, poolVars, stopping, calls>>

Asleep == {w \in Workers : worker[w] = "asleep"}

\* Mutation: queue the job without cv.notify_one().
SubmitQueue_Silent ==
    /\ caller = "submitting"
    /\ queue' = Append(queue, pushing)
    /\ pushing' = None
    /\ caller' = "free"
    /\ UNCHANGED <<running, quit, pending, poolVars, stopping, calls>>

\* push_back under the mutex, then notify_one: one sleeper, if any, wakes
SubmitQueue ==
    /\ caller = "submitting"
    /\ queue' = Append(queue, pushing)
    /\ \/ Asleep = {} /\ UNCHANGED worker
       \/ \E w \in Asleep : worker' = [worker EXCEPT ![w] = "ready"]
    /\ pushing' = None
    /\ caller' = "free"
    /\ UNCHANGED <<running, quit, pending, job, stopping, calls>>

\* waitAll() takes waitMtx_
WaitAll ==
    /\ caller = "free"
    /\ caller' = "checking"
    /\ UNCHANGED <<running, quit, queue, pending, poolVars, stopping, pushing, calls>>

\* stop() on a running reader begins with waitAll()
Stop ==
    /\ caller = "free"
    /\ running
    /\ caller' = "checking"
    /\ stopping' = TRUE
    /\ UNCHANGED <<running, quit, queue, pending, poolVars, pushing, calls>>

\* Mutation: the drain looks at the queue, not at the reads under way.
Drained_QueueEmpty == queue = <<>>

Drained == pending <= 0

DrainReturns ==
    /\ caller = "checking"
    /\ Drained
    /\ caller' = IF stopping THEN "quitting" ELSE "free"
    /\ UNCHANGED <<running, quit, queue, pending, poolVars, stopping, pushing, calls>>

\* the predicate is false: about to sleep, not yet among the sleepers
DrainMustWait ==
    /\ caller = "checking"
    /\ ~Drained
    /\ caller' = "dozing"
    /\ UNCHANGED <<running, quit, queue, pending, poolVars, stopping, pushing, calls>>

DrainSleeps ==
    /\ caller = "dozing"
    /\ caller' = "asleep"
    /\ UNCHANGED <<running, quit, queue, pending, poolVars, stopping, pushing, calls>>

\* C++ lets a wait return unprovoked; nothing promises that it will
SpuriousWakeup ==
    /\ caller = "asleep"
    /\ caller' = "checking"
    /\ UNCHANGED <<running, quit, queue, pending, poolVars, stopping, pushing, calls>>

\* Mutation: notify_one() instead of notify_all() at the end.
StopQuits_WakesOne ==
    /\ caller = "quitting"
    /\ quit' = TRUE
    /\ \/ Asleep = {} /\ UNCHANGED worker
       \/ \E w \in Asleep : worker' = [worker EXCEPT ![w] = "ready"]
    /\ caller' = "joining"
    /\ UNCHANGED <<running, queue, pending, job, stopping, pushing, calls>>

StopQuits ==
    /\ caller = "quitting"
    /\ quit' = TRUE
    /\ worker' = [w \in Workers |-> IF w \in Asleep THEN "ready" ELSE worker[w]]
    /\ caller' = "joining"
    /\ UNCHANGED <<running, queue, pending, job, stopping, pushing, calls>>

StopJoins ==
    /\ caller = "joining"
    /\ \A w \in Workers : worker[w] = "exited"
    /\ running' = FALSE
    /\ stopping' = FALSE
    /\ caller' = "free"
    /\ UNCHANGED <<quit, queue, pending, poolVars, pushing, calls>>

Caller ==
    \/ Start
    \/ \E r \in Reqs : SubmitRefused(r) \/ SubmitCount(r)
    \/ SubmitQueue
    \/ WaitAll
    \/ Stop
    \/ DrainReturns
    \/ DrainMustWait
    \/ DrainSleeps
    \/ SpuriousWakeup
    \/ StopQuits
    \/ StopJoins

-----------------------------------------------------------------------------
(* A worker's loop. *)

Move(w, from, to) ==
    /\ worker[w] = from
    /\ worker' = [worker EXCEPT ![w] = to]

\* Mutation: front() without pop_front().
Take_KeepsJob(w) ==
    /\ queue # <<>>
    /\ Move(w, "ready", "reading")
    /\ job' = [job EXCEPT ![w] = Head(queue)]
    /\ UNCHANGED <<running, quit, queue, pending, callerVars, calls>>

Take(w) ==
    /\ queue # <<>>
    /\ Move(w, "ready", "reading")
    /\ job' = [job EXCEPT ![w] = Head(queue)]
    /\ queue' = Tail(queue)
    /\ UNCHANGED <<running, quit, pending, callerVars, calls>>

Sleep(w) ==
    /\ queue = <<>> /\ ~quit
    /\ Move(w, "ready", "asleep")
    /\ UNCHANGED <<running, quit, queue, pending, job, callerVars, calls>>

Exit(w) ==
    /\ queue = <<>> /\ quit
    /\ Move(w, "ready", "exited")
    /\ UNCHANGED <<running, quit, queue, pending, job, callerVars, calls>>

(***************************************************************************)
(* The read, whole or short, then the callback: job.cb(ok, bytesRead).     *)
(* What the callback does with the outcome is its owner's business.        *)
(***************************************************************************)
ReadAndCall(w) ==
    /\ Move(w, "reading", "called")
    /\ calls' = [calls EXCEPT ![job[w]] = @ + 1]
    /\ UNCHANGED <<running, quit, queue, pending, job, callerVars>>

\* Mutation: a completion that does not count.
CompleteCount_Forgets(w) ==
    /\ Move(w, "called", "counted")
    /\ job' = [job EXCEPT ![w] = None]
    /\ UNCHANGED <<running, quit, queue, pending, callerVars, calls>>

\* onComplete(): pendingCount_--
CompleteCount(w) ==
    /\ Move(w, "called", "counted")
    /\ pending' = pending - 1
    /\ job' = [job EXCEPT ![w] = None]
    /\ UNCHANGED <<running, quit, queue, callerVars, calls>>

\* Mutation: no notify at all.
CompleteNotify_Silent(w) ==
    /\ Move(w, "counted", "ready")
    /\ UNCHANGED <<running, quit, queue, pending, job, callerVars, calls>>

\* onComplete(): waitCv_.notify_all(), heard by a caller that sleeps
CompleteNotify(w) ==
    /\ Move(w, "counted", "ready")
    /\ caller' = IF caller = "asleep" THEN "checking" ELSE caller
    /\ UNCHANGED <<running, quit, queue, pending, job, stopping, pushing, calls>>

Worker(w) ==
    \/ Take(w)
    \/ Sleep(w)
    \/ Exit(w)
    \/ ReadAndCall(w)
    \/ CompleteCount(w)
    \/ CompleteNotify(w)

-----------------------------------------------------------------------------

Next == Caller \/ \E w \in Workers : Worker(w)

(***************************************************************************)
(* Every thread that can run does: the scheduler of the system is fair to  *)
(* the workers and to a caller inside a call.  Whether the caller makes    *)
(* another call is its own choice, and spurious wakeups are not owed.      *)
(***************************************************************************)
Fairness ==
    /\ \A w \in Workers : WF_vars(Worker(w))
    /\ WF_vars(SubmitQueue \/ DrainReturns \/ DrainMustWait \/ DrainSleeps
               \/ StopQuits \/ StopJoins)

Spec == Init /\ [][Next]_vars /\ Fairness

-----------------------------------------------------------------------------

(***************************************************************************)
(* Types of the reader's state; pendingCount_ never falls below zero,      *)
(* where the drain's `<= 0` would hide that a completion was counted twice.*)
(***************************************************************************)
TypeOK ==
    /\ running \in BOOLEAN
    /\ quit \in BOOLEAN
    /\ queue \in Seq(Reqs)
    /\ pending \in Nat
    /\ worker \in [Workers -> {"unborn", "ready", "asleep", "reading", "called",
                               "counted", "exited"}]
    /\ job \in [Workers -> Reqs \cup {None}]
    /\ caller \in {"free", "submitting", "checking", "dozing", "asleep",
                   "quitting", "joining"}
    /\ stopping \in BOOLEAN
    /\ pushing \in Reqs \cup {None}
    /\ calls \in [Reqs -> Nat]

Busy == {w \in Workers : worker[w] \in {"reading", "called"}}

(***************************************************************************)
(* pendingCount_ is the number of reads counted by submitRead() and not    *)
(* yet by onComplete(), in the queue or in a worker's hands: the drain's   *)
(* test `pendingCount_ <= 0` can neither pass early nor stay false.        *)
(***************************************************************************)
PendingIsExact ==
    pending = Len(queue) + Cardinality(Busy)
              + (IF caller = "submitting" THEN 1 ELSE 0)

(***************************************************************************)
(* No callback is called twice, whichever workers race for the queue.      *)
(***************************************************************************)
AnsweredOnce == \A r \in Reqs : calls[r] <= 1

(***************************************************************************)
(* Every submitted read is answered, also when the workers were asleep,    *)
(* or the caller is draining or stopping: no notify_one() is lost.         *)
(***************************************************************************)
EveryReadAnswered == \A r \in Reqs : Submitted(r) ~> calls[r] = 1

(***************************************************************************)
(* Once stop() has drained, quit and notify_all() bring every worker out   *)
(* of its loop, and the join ends.                                         *)
(***************************************************************************)
StopTerminates == caller = "quitting" ~> caller = "free"

(***************************************************************************)
(* A drain that went to sleep while reads were pending is woken again.     *)
(***************************************************************************)
SleeperWoken == (caller = "asleep" /\ pending > 0) ~> caller # "asleep"

-----------------------------------------------------------------------------

(***************************************************************************)
(* iocp_reader.h:44: waitAll() waits "for all submitted requests to        *)
(* complete".  The code may wait for ever: onComplete() does not hold      *)
(* waitMtx_, so its decrement and notify_all() can both fall between the   *)
(* evaluation of the predicate and the sleep ("dozing").                   *)
(***************************************************************************)
WaitAllReturns ==
    caller = "checking" ~> caller \notin {"checking", "dozing", "asleep"}

-----------------------------------------------------------------------------

Outstanding ==
    {r \in Reqs :
        \/ pushing = r
        \/ \E i \in DOMAIN queue : queue[i] = r
        \/ \E w \in Workers : job[w] = r}

Reader == INSTANCE AsyncReader WITH
    outstanding <- Outstanding,
    answered <- {r \in Reqs : calls[r] > 0},
    drains <- caller \in {"checking", "dozing", "asleep"}

(***************************************************************************)
(* The reader answers each read once, and its drain ends only when none is *)
(* outstanding: what AsyncReader promises.                                 *)
(***************************************************************************)
ImplementsAsyncReader == Reader!Spec
=============================================================================
