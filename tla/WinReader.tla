----------------------------- MODULE WinReader -----------------------------
(***************************************************************************)
(* The Windows read queue (src/src/storage/iocp_reader.cpp, and            *)
(* onComplete() of iocp_reader.h): overlapped reads complete on an I/O     *)
(* completion port that worker threads serve.  A step is a piece of code   *)
(* no other thread can split, as in IOCPReader, the POSIX twin.            *)
(*                                                                         *)
(* A read that completes with an error makes GetQueuedCompletionStatus     *)
(* return FALSE: the worker leaves its loop, and the read is never         *)
(* answered nor counted down.  A read that cannot be started is not        *)
(* answered either, since its callback has been moved away.                *)
(***************************************************************************)
EXTENDS Integers, FiniteSets

CONSTANTS
    Reqs,            \* the reads, each submitted at most once
    Workers,         \* the worker threads
    NoReq,           \* no request
    MaxBad           \* bound: reads that fail to start or to complete

ASSUME WorkersAssumption == IsFiniteSet(Workers)
ASSUME NoReqAssumption == NoReq \notin Reqs
ASSUME MaxBadAssumption == MaxBad \in Nat

VARIABLES
    running,         \* running_
    pending,         \* pendingCount_
    reading,         \* reads the system works on
    completed,       \* reads queued on the port
    failed,          \* reads queued on the port with an error
    posts,           \* stop signals queued on the port
    worker, job,     \* each worker's place in its loop, and its read
    caller,          \* the place of the thread that submits and drains
    stopping,        \* the drain in progress is stop()'s
    answered,        \* history: callbacks called
    lost,            \* history: reads dropped by a worker that left
    unstarted        \* history: reads that could not be started

portVars == <<reading, completed, failed, posts>>
workerVars == <<worker, job>>
readerVars == <<running, pending, portVars, workerVars, caller, stopping, answered,
                lost, unstarted>>

ReaderInit ==
    /\ running = FALSE
    /\ pending = 0
    /\ reading = {} /\ completed = {} /\ failed = {}
    /\ posts = 0
    /\ worker = [w \in Workers |-> "unborn"]
    /\ job = [w \in Workers |-> NoReq]
    /\ caller = "free"
    /\ stopping = FALSE
    /\ answered = {}
    /\ lost = {} /\ unstarted = {}

Outstanding ==
    reading \cup completed \cup failed \cup lost
        \cup {job[w] : w \in {v \in Workers : worker[v] \in {"calling", "counting"}}}

BadSoFar == Cardinality(failed \cup lost \cup unstarted)

-----------------------------------------------------------------------------
(* The caller's thread. *)

Start ==
    /\ caller = "free"
    /\ ~running
    /\ running' = TRUE
    /\ worker' = [w \in Workers |-> "waiting"]
    /\ UNCHANGED <<pending, portVars, job, caller, stopping, answered, lost, unstarted>>

\* The file cannot be opened or the read not started: what was counted is
\* uncounted, and no one is told.
SubmitUnstarted(r) ==
    /\ caller = "free"
    /\ running
    /\ BadSoFar < MaxBad
    /\ unstarted' = unstarted \cup {r}
    /\ UNCHANGED <<running, pending, portVars, workerVars, caller, stopping, answered, lost>>

Submit(r) ==
    /\ caller = "free"
    /\ running
    /\ pending' = pending + 1
    /\ reading' = reading \cup {r}
    /\ UNCHANGED <<running, completed, failed, posts, workerVars, caller, stopping, answered, lost, unstarted>>

\* waitAll() and the drain of stop()
DrainBegin(forStop) ==
    /\ caller = "free"
    /\ running
    /\ caller' = "checking"
    /\ stopping' = forStop
    /\ running' = ~forStop
    /\ UNCHANGED <<pending, portVars, workerVars, answered, lost, unstarted>>

\* The predicate is evaluated under waitMtx_, which onComplete() never takes.
Check ==
    /\ caller = "checking"
    /\ caller' = IF pending <= 0 THEN "drained" ELSE "unready"
    /\ UNCHANGED <<running, pending, portVars, workerVars, stopping, answered, lost, unstarted>>

\* The wait begins after the predicate was found false.
Sleep ==
    /\ caller = "unready"
    /\ caller' = "asleep"
    /\ UNCHANGED <<running, pending, portVars, workerVars, stopping, answered, lost, unstarted>>

\* A drain is over; that of stop() goes on to post one signal per worker.
DrainEnd ==
    /\ caller = "drained"
    /\ caller' = IF stopping THEN "joining" ELSE "free"
    /\ posts' = IF stopping THEN Cardinality(Workers) ELSE posts
    /\ UNCHANGED <<running, pending, reading, completed, failed, workerVars, stopping, answered, lost, unstarted>>

Joined ==
    /\ caller = "joining"
    /\ \A w \in Workers : worker[w] = "gone"
    /\ caller' = "closed"
    /\ UNCHANGED <<running, pending, portVars, workerVars, stopping, answered, lost, unstarted>>

-----------------------------------------------------------------------------
(* The system and the workers. *)

IoCompletes(r) ==
    /\ r \in reading
    /\ reading' = reading \ {r}
    /\ \/ completed' = completed \cup {r} /\ UNCHANGED failed
       \/ BadSoFar < MaxBad /\ failed' = failed \cup {r} /\ UNCHANGED completed
    /\ UNCHANGED <<running, pending, posts, workerVars, caller, stopping, answered, lost, unstarted>>

\* mutation: the count goes down before the callback is called
Take_CountsFirst(w) ==
    /\ worker[w] = "waiting"
    /\ \E r \in completed :
        /\ completed' = completed \ {r}
        /\ job' = [job EXCEPT ![w] = r]
    /\ worker' = [worker EXCEPT ![w] = "calling"]
    /\ pending' = pending - 1
    /\ UNCHANGED <<running, reading, failed, posts, caller, stopping, answered, lost, unstarted>>

Take(w) ==
    /\ worker[w] = "waiting"
    /\ \E r \in completed :
        /\ completed' = completed \ {r}
        /\ job' = [job EXCEPT ![w] = r]
    /\ worker' = [worker EXCEPT ![w] = "calling"]
    /\ UNCHANGED <<running, pending, reading, failed, posts, caller, stopping, answered, lost, unstarted>>

\* A failed completion ends the worker.
TakeFailed(w) ==
    /\ worker[w] = "waiting"
    /\ \E r \in failed :
        /\ failed' = failed \ {r}
        /\ lost' = lost \cup {r}
    /\ worker' = [worker EXCEPT ![w] = "gone"]
    /\ UNCHANGED <<running, pending, reading, completed, posts, job, caller, stopping, answered, unstarted>>

TakeStop(w) ==
    /\ worker[w] = "waiting"
    /\ posts > 0
    /\ posts' = posts - 1
    /\ worker' = [worker EXCEPT ![w] = "gone"]
    /\ UNCHANGED <<running, pending, reading, completed, failed, job, caller, stopping, answered, lost, unstarted>>

Call(w) ==
    /\ worker[w] = "calling"
    /\ answered' = answered \cup {job[w]}
    /\ worker' = [worker EXCEPT ![w] = "counting"]
    /\ UNCHANGED <<running, pending, portVars, job, caller, stopping, lost, unstarted>>

\* onComplete(): the count, then the notification
CountDown(w) ==
    /\ worker[w] = "counting"
    /\ pending' = pending - 1
    /\ job' = [job EXCEPT ![w] = NoReq]
    /\ worker' = [worker EXCEPT ![w] = "notifying"]
    /\ UNCHANGED <<running, portVars, caller, stopping, answered, lost, unstarted>>

Notify(w) ==
    /\ worker[w] = "notifying"
    /\ worker' = [worker EXCEPT ![w] = "waiting"]
    /\ caller' = IF caller = "asleep" THEN "checking" ELSE caller
    /\ UNCHANGED <<running, pending, portVars, job, stopping, answered, lost, unstarted>>

WorkerStep(w) ==
    Take(w) \/ TakeFailed(w) \/ TakeStop(w) \/ Call(w) \/ CountDown(w) \/ Notify(w)

\* The steps of a drain, of the system and of the workers.
ReaderStep ==
    \/ Check \/ Sleep \/ DrainEnd \/ Joined
    \/ \E r \in Reqs : IoCompletes(r)
    \/ \E w \in Workers : WorkerStep(w)

-----------------------------------------------------------------------------

\* The abstract reader: what is outstanding is submitted and not yet counted
\* down, a lost read for ever.
Abstract == INSTANCE AsyncReader WITH
    outstanding <- Outstanding,
    drains <- caller \in {"checking", "unready", "asleep", "drained"}

(***************************************************************************)
(* The Windows reader never answers a read twice, never ends a drain with  *)
(* a read outstanding and accepts none while it drains: it keeps the       *)
(* safety promises of the interface, although not that of an answer.       *)
(***************************************************************************)
ImplementsAsyncReader == Abstract!Spec
=============================================================================
