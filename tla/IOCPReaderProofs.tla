-------------------------- MODULE IOCPReaderProofs --------------------------
(***************************************************************************)
(* Proofs about the POSIX read queue, for any number of requests and of    *)
(* workers: the pending count is exact and no callback is called twice.    *)
(*                                                                         *)
(* Neither is inductive.  A callback is called once because a request is   *)
(* in one place at a time (in submitRead's hands, in the queue, or with    *)
(* one worker) and has not been called until the worker that holds it has  *)
(* read it; the count is exact because a worker's place in its loop tells  *)
(* whether it holds a request.                                             *)
(***************************************************************************)
EXTENDS IOCPReader, FiniteSetTheorems, TLAPS

\* who holds a request, told by the place a thread is at
Hands ==
    /\ pushing # None <=> caller = "submitting"
    /\ \A w \in Workers : job[w] # None <=> w \in Busy
    /\ ~running => \A w \in Workers : worker[w] \in {"unborn", "exited"}

\* a request is in one place
OnePlace ==
    /\ \A i, j \in DOMAIN queue : queue[i] = queue[j] => i = j
    /\ \A i \in DOMAIN queue : pushing # queue[i]
    /\ \A i \in DOMAIN queue : \A w \in Workers : job[w] # queue[i]
    /\ \A w, v \in Workers : job[w] # None /\ job[w] = job[v] => w = v
    /\ \A w \in Workers : job[w] # None => job[w] # pushing

\* and has not been answered before its worker has read it
Unanswered ==
    /\ \A i \in DOMAIN queue : calls[queue[i]] = 0
    /\ pushing # None => calls[pushing] = 0
    /\ \A w \in Workers : worker[w] = "reading" => calls[job[w]] = 0

IInv == TypeOK /\ Hands /\ OnePlace /\ Unanswered /\ PendingIsExact /\ AnsweredOnce

USE ReqsFinite, WorkersNonempty, NoneAssumption

-----------------------------------------------------------------------------

\* The busy workers can be counted.
LEMMA BusyFinite == IsFiniteSet(Busy) /\ Cardinality(Busy) \in Nat
<1>1. Busy \subseteq Workers
    BY DEF Busy
<1>2. IsFiniteSet(Busy)
    BY <1>1, FS_Subset
<1> QED
    BY <1>2, FS_CardinalityType

\* A reader that has done nothing holds nothing.
LEMMA InitEstablishes == Init => IInv
<1> SUFFICES ASSUME Init PROVE IInv
    OBVIOUS
<1> USE DEF Init
<1>1. TypeOK
    <2>1. <<>> \in Seq(Reqs)
        OBVIOUS
    <2>2. queue \in Seq(Reqs)
        BY <2>1
    <2>3. worker \in [Workers -> {"unborn"}] /\ job \in [Workers -> {None}]
        OBVIOUS
    <2> QED
        BY <2>2, <2>3 DEF TypeOK
<1>2. Busy = {}
    BY DEF Busy
<1>3. PendingIsExact
    BY <1>2, FS_EmptySet DEF PendingIsExact
<1>4. Hands /\ OnePlace /\ Unanswered /\ AnsweredOnce
    BY <1>2 DEF Hands, OnePlace, Unanswered, AnsweredOnce, Busy
<1> QED
    BY <1>1, <1>3, <1>4 DEF IInv

-----------------------------------------------------------------------------

\* A step that leaves every request where it is keeps what is said of requests.
LEMMA StillKeeps ==
    ASSUME IInv, TypeOK',
           UNCHANGED <<queue, pending, job, pushing, calls>>,
           Busy' = Busy,
           caller = "submitting" <=> caller' = "submitting",
           (~running => \A w \in Workers : worker[w] \in {"unborn", "exited"})',
           \A w \in Workers : worker'[w] = "reading" => worker[w] = "reading"
    PROVE  IInv'
<1>1. Hands'
    BY DEF IInv, Hands
<1>2. OnePlace'
    BY DEF IInv, OnePlace
<1>3. Unanswered'
    BY DEF IInv, Unanswered
<1>4. PendingIsExact'
    BY DEF IInv, PendingIsExact
<1>5. AnsweredOnce'
    BY DEF IInv, AnsweredOnce
<1> QED
    BY <1>1, <1>2, <1>3, <1>4, <1>5 DEF IInv

\* The caller's steps that move no request.
LEMMA ControlKeeps ==
    ASSUME IInv,
           Start \/ WaitAll \/ Stop \/ DrainReturns \/ DrainMustWait \/ DrainSleeps
               \/ SpuriousWakeup \/ StopQuits \/ StopJoins
    PROVE  IInv'
<1> USE DEF poolVars, callerVars
<1>1. CASE Start
    <2>1. TypeOK'
        BY <1>1 DEF Start, IInv, TypeOK
    <2>2. Busy' = Busy
        BY <1>1 DEF Start, Busy, IInv, Hands, TypeOK
    <2> QED
        BY <1>1, <2>1, <2>2, StillKeeps DEF Start
<1>2. CASE WaitAll \/ Stop \/ DrainReturns \/ DrainMustWait \/ DrainSleeps \/ SpuriousWakeup
    <2> USE DEF WaitAll, Stop, DrainReturns, DrainMustWait, DrainSleeps, SpuriousWakeup
    <2>1. TypeOK'
        BY <1>2 DEF IInv, TypeOK
    <2>2. UNCHANGED <<queue, pending, job, pushing, calls, worker, running>>
        BY <1>2
    <2>3. caller # "submitting" /\ caller' # "submitting"
        BY <1>2
    <2>4. Busy' = Busy
        BY <2>2 DEF Busy
    <2> QED
        BY <2>1, <2>2, <2>3, <2>4, StillKeeps DEF IInv, Hands
<1>3. CASE StopQuits
    <2>1. TypeOK'
        BY <1>3 DEF StopQuits, IInv, TypeOK, Asleep
    <2>2. Busy' = Busy
        BY <1>3 DEF StopQuits, Busy, Asleep, IInv, TypeOK
    <2>3. \A w \in Workers : worker'[w] = "reading" => worker[w] = "reading"
        BY <1>3 DEF StopQuits, Asleep, IInv, TypeOK
    <2>4. (~running => \A w \in Workers : worker[w] \in {"unborn", "exited"})'
        BY <1>3 DEF StopQuits, Asleep, IInv, TypeOK, Hands
    <2> QED
        BY <1>3, <2>1, <2>2, <2>3, <2>4, StillKeeps DEF StopQuits
<1>4. CASE StopJoins
    <2>1. TypeOK'
        BY <1>4 DEF StopJoins, IInv, TypeOK
    <2>2. Busy' = Busy
        BY <1>4 DEF StopJoins, Busy
    <2> QED
        BY <1>4, <2>1, <2>2, StillKeeps DEF StopJoins
<1> QED
    BY <1>1, <1>2, <1>3, <1>4

\* A worker's steps that move no request.
LEMMA IdleKeeps ==
    ASSUME IInv, NEW w \in Workers, Sleep(w) \/ Exit(w) \/ CompleteNotify(w)
    PROVE  IInv'
<1> USE DEF Sleep, Exit, CompleteNotify, Move, callerVars
<1>1. TypeOK'
    BY DEF IInv, TypeOK
<1>2. Busy' = Busy
    BY DEF IInv, TypeOK, Busy
<1>3. \A v \in Workers : worker'[v] = "reading" => worker[v] = "reading"
    BY DEF IInv, TypeOK
<1>4. caller = "submitting" <=> caller' = "submitting"
    OBVIOUS
<1>5. running
    BY DEF IInv, Hands, TypeOK
<1>6. UNCHANGED <<running, queue, pending, job, pushing, calls>>
    OBVIOUS
<1> QED
    BY <1>1, <1>2, <1>3, <1>4, <1>5, <1>6, StillKeeps

\* A refused read is answered on the spot, for the first time.
LEMMA SubmitRefusedKeeps ==
    ASSUME IInv, NEW r \in Reqs, SubmitRefused(r)
    PROVE  IInv'
<1> USE DEF SubmitRefused, poolVars, callerVars
<1>1. TypeOK'
    BY DEF IInv, TypeOK
<1>2. UNCHANGED <<running, queue, pending, worker, job, caller, pushing>>
    OBVIOUS
<1>3. Hands' /\ OnePlace' /\ PendingIsExact'
    <2>1. Busy' = Busy
        BY <1>2 DEF Busy
    <2> QED
        BY <1>2, <2>1 DEF IInv, Hands, OnePlace, PendingIsExact
<1>4. calls[r] = 0
    BY DEF Submitted, IInv, TypeOK
<1>5. calls' = [calls EXCEPT ![r] = 1]
    BY <1>4
<1>6. AnsweredOnce'
    BY <1>5 DEF IInv, AnsweredOnce, TypeOK
<1>7. Unanswered'
    <2>1. /\ \A i \in DOMAIN queue : queue[i] # r
          /\ pushing # r
          /\ \A w \in Workers : job[w] # r
        BY DEF Submitted
    <2>2. \A i \in DOMAIN queue : queue[i] \in Reqs
        BY DEF IInv, TypeOK
    <2>3. \A q \in Reqs : q # r => calls'[q] = calls[q]
        BY <1>5 DEF IInv, TypeOK
    <2>4. \A i \in DOMAIN queue : calls'[queue[i]] = 0
        BY <2>1, <2>2, <2>3 DEF IInv, Unanswered
    <2>5. pushing # None => calls'[pushing] = 0
        BY <2>1, <2>3 DEF IInv, Unanswered, TypeOK
    <2>6. \A w \in Workers : worker[w] = "reading" => calls'[job[w]] = 0
        BY <2>1, <2>3 DEF IInv, Unanswered, TypeOK, Hands, Busy
    <2> QED
        BY <1>2, <2>4, <2>5, <2>6 DEF Unanswered
<1> QED
    BY <1>1, <1>3, <1>6, <1>7 DEF IInv

\* A counted read is in submitRead's hands.
LEMMA SubmitCountKeeps ==
    ASSUME IInv, NEW r \in Reqs, SubmitCount(r)
    PROVE  IInv'
<1> USE DEF SubmitCount, poolVars
<1>1. TypeOK'
    BY DEF IInv, TypeOK
<1>2. UNCHANGED <<running, queue, worker, job, calls>>
    OBVIOUS
<1>3. /\ calls[r] = 0
      /\ \A i \in DOMAIN queue : queue[i] # r
      /\ \A w \in Workers : job[w] # r
    BY DEF Submitted, IInv, TypeOK
<1>4. pushing' = r /\ r # None /\ caller' = "submitting" /\ caller # "submitting"
    OBVIOUS
<1>5. Busy' = Busy
    BY DEF Busy
<1>6. Hands'
    BY <1>2, <1>4, <1>5 DEF IInv, Hands
<1>7. OnePlace'
    BY <1>2, <1>3, <1>4 DEF IInv, OnePlace
<1>8. Unanswered'
    BY <1>2, <1>3, <1>4 DEF IInv, Unanswered
<1>9. PendingIsExact'
    <2>1. Len(queue) \in Nat /\ pending' = pending + 1
        BY DEF IInv, TypeOK
    <2> QED
        BY <1>2, <1>4, <1>5, <2>1, BusyFinite DEF IInv, PendingIsExact, TypeOK
<1>10. AnsweredOnce'
    BY <1>2 DEF IInv, AnsweredOnce
<1> QED
    BY <1>1, <1>6, <1>7, <1>8, <1>9, <1>10 DEF IInv

\* The counted read joins the queue, and wakes one worker or none.
LEMMA SubmitQueueKeeps == ASSUME IInv, SubmitQueue PROVE IInv'
<1> USE DEF SubmitQueue
<1>1. pushing \in Reqs /\ pushing # None
    BY DEF IInv, Hands, TypeOK
<1>2. TypeOK'
    <2>1. queue' \in Seq(Reqs)
        BY <1>1 DEF IInv, TypeOK
    <2>2. worker' = worker \/ \E w \in Workers : worker' = [worker EXCEPT ![w] = "ready"]
        BY DEF Asleep
    <2>3. worker' \in [Workers -> {"unborn", "ready", "asleep", "reading", "called",
                                  "counted", "exited"}]
        BY <2>2 DEF IInv, TypeOK
    <2> QED
        BY <2>1, <2>3 DEF IInv, TypeOK
<1>3. UNCHANGED <<running, pending, job, calls>>
    OBVIOUS
<1>4. Busy' = Busy /\ \A w \in Workers : worker'[w] = "reading" => worker[w] = "reading"
    BY DEF IInv, TypeOK, Asleep, Busy
<1>5. pushing' = None /\ caller' = "free" /\ caller = "submitting"
    OBVIOUS
<1>6. /\ Len(queue) \in Nat /\ Len(queue') = Len(queue) + 1
      /\ DOMAIN queue = 1..Len(queue) /\ DOMAIN queue' = 1..(Len(queue) + 1)
      /\ \A i \in DOMAIN queue : queue'[i] = queue[i]
      /\ queue'[Len(queue) + 1] = pushing
    BY <1>1 DEF IInv, TypeOK
<1>7. \A i \in DOMAIN queue' : i \in DOMAIN queue \/ i = Len(queue) + 1
    BY <1>6
<1>8. Hands'
    <2>1. (~running => \A w \in Workers : worker[w] \in {"unborn", "exited"})'
        BY DEF IInv, Hands, Asleep, TypeOK
    <2> QED
        BY <1>3, <1>4, <1>5, <2>1 DEF IInv, Hands
<1>9. OnePlace'
    <2>1. \A i, j \in DOMAIN queue' : queue'[i] = queue'[j] => i = j
        BY <1>6, <1>7 DEF IInv, OnePlace
    <2>2. \A i \in DOMAIN queue' : queue'[i] # None
        BY <1>1, <1>2, <1>6 DEF TypeOK
    <2>3. \A i \in DOMAIN queue' : \A w \in Workers : job[w] # queue'[i]
        BY <1>1, <1>6, <1>7 DEF IInv, OnePlace
    <2> QED
        BY <1>3, <1>5, <2>1, <2>2, <2>3 DEF IInv, OnePlace
<1>10. Unanswered'
    <2>1. \A i \in DOMAIN queue' : calls[queue'[i]] = 0
        BY <1>1, <1>6, <1>7 DEF IInv, Unanswered
    <2> QED
        BY <1>3, <1>4, <1>5, <2>1 DEF IInv, Unanswered
<1>11. PendingIsExact'
    BY <1>3, <1>4, <1>5, <1>6, BusyFinite DEF IInv, PendingIsExact
<1>12. AnsweredOnce'
    BY <1>3 DEF IInv, AnsweredOnce
<1> QED
    BY <1>2, <1>8, <1>9, <1>10, <1>11, <1>12 DEF IInv

\* The request at the head of the queue moves to one worker.
LEMMA TakeKeeps ==
    ASSUME IInv, NEW w \in Workers, Take(w)
    PROVE  IInv'
<1> USE DEF Take, Move, callerVars
<1> DEFINE r == Head(queue)
<1>1. /\ queue \in Seq(Reqs) /\ queue # <<>> /\ r = queue[1] /\ r \in Reqs
      /\ Len(queue) \in Nat \ {0} /\ DOMAIN queue = 1..Len(queue)
      /\ Len(queue') = Len(queue) - 1 /\ DOMAIN queue' = 1..(Len(queue) - 1)
      /\ \A i \in DOMAIN queue' : queue'[i] = queue[i + 1] /\ i + 1 \in DOMAIN queue
    BY DEF IInv, TypeOK
<1>2. TypeOK'
    BY <1>1 DEF IInv, TypeOK
<1>3. UNCHANGED <<running, pending, caller, pushing, calls>>
    OBVIOUS
<1>4. /\ worker[w] = "ready" /\ worker'[w] = "reading" /\ job'[w] = r
      /\ \A v \in Workers : v # w => worker'[v] = worker[v] /\ job'[v] = job[v]
    BY DEF IInv, TypeOK
<1>5. w \notin Busy /\ Busy' = Busy \cup {w}
    BY <1>4 DEF Busy
<1>6. Hands'
    <2>1. running
        BY <1>4 DEF IInv, Hands, TypeOK
    <2> QED
        BY <1>1, <1>3, <1>4, <1>5, <2>1 DEF IInv, Hands
<1>7. OnePlace'
    <2>1. \A i, j \in DOMAIN queue' : queue'[i] = queue'[j] => i = j
        <3> SUFFICES ASSUME NEW i \in DOMAIN queue', NEW j \in DOMAIN queue',
                            queue'[i] = queue'[j]
                     PROVE  i = j
            OBVIOUS
        <3>1. i + 1 = j + 1
            BY <1>1 DEF IInv, OnePlace
        <3> QED
            BY <3>1, <1>1
    <2>2. \A i \in DOMAIN queue' : pushing # queue'[i] /\ r # queue'[i]
        <3>1. \A i \in DOMAIN queue' : i + 1 # 1 /\ 1 \in DOMAIN queue
            BY <1>1
        <3> QED
            BY <1>1, <3>1 DEF IInv, OnePlace
    <2>3. \A i \in DOMAIN queue' : \A v \in Workers : job'[v] # queue'[i]
        BY <1>1, <1>4, <2>2 DEF IInv, OnePlace
    <2>4. \A v \in Workers : job[v] # r
        BY <1>1 DEF IInv, OnePlace
    <2>5. \A u, v \in Workers : job'[u] # None /\ job'[u] = job'[v] => u = v
        BY <1>4, <2>4 DEF IInv, OnePlace
    <2>6. \A v \in Workers : job'[v] # None => job'[v] # pushing
        BY <1>1, <1>4 DEF IInv, OnePlace
    <2> QED
        BY <1>3, <2>1, <2>2, <2>3, <2>5, <2>6 DEF OnePlace
<1>8. Unanswered'
    BY <1>1, <1>3, <1>4 DEF IInv, Unanswered
<1>9. PendingIsExact'
    <2>1. Cardinality(Busy') = Cardinality(Busy) + 1
        BY <1>5, BusyFinite, FS_AddElement
    <2> QED
        BY <1>1, <1>3, <2>1, BusyFinite DEF IInv, PendingIsExact
<1>10. AnsweredOnce'
    BY <1>3 DEF IInv, AnsweredOnce
<1> QED
    BY <1>2, <1>6, <1>7, <1>8, <1>9, <1>10 DEF IInv

\* A worker calls the callback of the request it holds, for the first time.
LEMMA ReadAndCallKeeps ==
    ASSUME IInv, NEW w \in Workers, ReadAndCall(w)
    PROVE  IInv'
<1> USE DEF ReadAndCall, Move, callerVars
<1>1. /\ worker[w] = "reading" /\ worker'[w] = "called"
      /\ \A v \in Workers : v # w => worker'[v] = worker[v]
    BY DEF IInv, TypeOK
<1>2. job[w] \in Reqs /\ job[w] # None
    BY <1>1 DEF IInv, TypeOK, Hands, Busy
<1>3. TypeOK'
    BY <1>2 DEF IInv, TypeOK
<1>4. UNCHANGED <<running, queue, pending, job, caller, pushing>>
    OBVIOUS
<1>5. Busy' = Busy
    BY <1>1 DEF Busy
<1>6. Hands'
    BY <1>1, <1>4, <1>5 DEF IInv, Hands, TypeOK
<1>7. OnePlace'
    BY <1>4 DEF IInv, OnePlace
<1>8. calls[job[w]] = 0 /\ calls' = [calls EXCEPT ![job[w]] = 1]
    <2>1. calls[job[w]] = 0
        BY <1>1 DEF IInv, Unanswered
    <2>2. calls[job[w]] + 1 = 1
        BY <2>1
    <2> QED
        BY <2>1, <2>2
<1>9. \A q \in Reqs : q # job[w] => calls'[q] = calls[q]
    BY <1>8 DEF IInv, TypeOK
<1>10. Unanswered'
    <2>1. \A i \in DOMAIN queue : queue[i] \in Reqs /\ queue[i] # job[w]
        BY DEF IInv, TypeOK, OnePlace
    <2>2. pushing # None => pushing \in Reqs /\ pushing # job[w]
        BY <1>2 DEF IInv, TypeOK, OnePlace
    <2>3. \A v \in Workers : worker'[v] = "reading" =>
              worker[v] = "reading" /\ job[v] \in Reqs /\ job[v] # job[w]
        BY <1>1, <1>2 DEF IInv, TypeOK, OnePlace, Hands, Busy
    <2> QED
        BY <1>4, <1>9, <2>1, <2>2, <2>3 DEF IInv, Unanswered
<1>11. PendingIsExact'
    BY <1>4, <1>5 DEF IInv, PendingIsExact
<1>12. AnsweredOnce'
    BY <1>2, <1>8, <1>9 DEF IInv, AnsweredOnce, TypeOK
<1> QED
    BY <1>3, <1>6, <1>7, <1>10, <1>11, <1>12 DEF IInv

\* A completion takes one from the count and frees its worker.
LEMMA CompleteCountKeeps ==
    ASSUME IInv, NEW w \in Workers, CompleteCount(w)
    PROVE  IInv'
<1> USE DEF CompleteCount, Move, callerVars
<1>1. /\ worker[w] = "called" /\ worker'[w] = "counted" /\ job'[w] = None
      /\ \A v \in Workers : v # w => worker'[v] = worker[v] /\ job'[v] = job[v]
    BY DEF IInv, TypeOK
<1>2. UNCHANGED <<running, queue, caller, pushing, calls>>
    OBVIOUS
<1>3. w \in Busy /\ Busy' = Busy \ {w}
    BY <1>1 DEF Busy
<1>4. Cardinality(Busy') = Cardinality(Busy) - 1 /\ Cardinality(Busy') \in Nat
    <2>1. IsFiniteSet(Busy')
        BY <1>3, BusyFinite, FS_Subset
    <2>2. Cardinality(Busy') \in Nat
        BY <2>1, FS_CardinalityType
    <2> QED
        BY <1>3, <2>2, BusyFinite, FS_RemoveElement
<1>5. PendingIsExact' /\ pending' \in Nat
    <2>1. Len(queue) \in Nat
        BY DEF IInv, TypeOK
    <2> QED
        BY <1>2, <1>4, <2>1, BusyFinite DEF IInv, PendingIsExact
<1>6. TypeOK'
    BY <1>5 DEF IInv, TypeOK
<1>7. Hands'
    <2>1. running
        BY <1>1 DEF IInv, Hands, TypeOK
    <2> QED
        BY <1>1, <1>2, <1>3, <2>1 DEF IInv, Hands
<1>8. OnePlace'
    <2>1. \A i \in DOMAIN queue : queue[i] # None
        BY DEF IInv, TypeOK
    <2> QED
        BY <1>1, <1>2, <2>1 DEF IInv, OnePlace
<1>9. Unanswered'
    BY <1>1, <1>2 DEF IInv, Unanswered
<1>10. AnsweredOnce'
    BY <1>2 DEF IInv, AnsweredOnce
<1> QED
    BY <1>5, <1>6, <1>7, <1>8, <1>9, <1>10 DEF IInv

\* Every step keeps the invariant.
LEMMA StepKeeps == IInv /\ [Next]_vars => IInv'
<1> SUFFICES ASSUME IInv, [Next]_vars PROVE IInv'
    OBVIOUS
<1>1. CASE UNCHANGED vars
    BY <1>1 DEF vars, IInv, TypeOK, Hands, OnePlace, Unanswered, PendingIsExact, AnsweredOnce,
                Busy
<1>2. CASE Caller
    BY <1>2, ControlKeeps, SubmitRefusedKeeps, SubmitCountKeeps, SubmitQueueKeeps DEF Caller
<1>3. CASE \E w \in Workers : Worker(w)
    BY <1>3, IdleKeeps, TakeKeeps, ReadAndCallKeeps, CompleteCountKeeps DEF Worker
<1> QED
    BY <1>1, <1>2, <1>3 DEF Next

-----------------------------------------------------------------------------

\* The inductive invariant holds of every behaviour of the reader.
THEOREM ReaderInvariance == Spec => []IInv
<1>1. Init => IInv
    BY InitEstablishes
<1>2. IInv /\ [Next]_vars => IInv'
    BY StepKeeps
<1> QED
    BY <1>1, <1>2, PTL DEF Spec

\* Type correctness; in particular pendingCount_ never falls below zero.
THEOREM ReaderTypeCorrect == Spec => []TypeOK
<1>1. IInv => TypeOK
    BY DEF IInv
<1> QED
    BY <1>1, ReaderInvariance, PTL

\* The drain's `pendingCount_ <= 0` is right for any number of workers.
THEOREM PendingExact == Spec => []PendingIsExact
<1>1. IInv => PendingIsExact
    BY DEF IInv
<1> QED
    BY <1>1, ReaderInvariance, PTL

\* No callback is called twice, whichever workers race for the queue.
THEOREM CalledOnce == Spec => []AnsweredOnce
<1>1. IInv => AnsweredOnce
    BY DEF IInv
<1> QED
    BY <1>1, ReaderInvariance, PTL

-----------------------------------------------------------------------------

\* what a worker has read, it has called back
Called == \A w \in Workers : worker[w] = "called" => calls[job[w]] > 0

\* Only ReadAndCall brings a worker to "called", and no count of calls shrinks.
LEMMA CalledKept == IInv /\ Called /\ [Next]_vars => Called'
<1> SUFFICES ASSUME IInv, Called, [Next]_vars PROVE Called'
    OBVIOUS
<1> USE DEF Called
<1>1. CASE UNCHANGED vars
    BY <1>1 DEF vars
<1>2. CASE Caller
    <2>1. job' = job /\ \A r \in Reqs : calls'[r] >= calls[r]
        BY <1>2 DEF Caller, Start, SubmitRefused, SubmitCount, SubmitQueue, WaitAll, Stop,
                    DrainReturns, DrainMustWait, DrainSleeps, SpuriousWakeup, StopQuits, StopJoins,
                    poolVars, callerVars, IInv, TypeOK
    <2>2. \A w \in Workers : worker'[w] = "called" => worker[w] = "called"
        BY <1>2 DEF Caller, Start, SubmitRefused, SubmitCount, SubmitQueue, WaitAll, Stop,
                    DrainReturns, DrainMustWait, DrainSleeps, SpuriousWakeup, StopQuits, StopJoins,
                    poolVars, callerVars, IInv, TypeOK, Asleep
    <2>3. \A w \in Workers : worker[w] = "called" => job[w] \in Reqs
        BY DEF IInv, TypeOK, Hands, Busy
    <2>4. \A r \in Reqs : calls[r] \in Int /\ calls'[r] \in Int
        BY StepKeeps DEF IInv, TypeOK
    <2> QED
        BY <2>1, <2>2, <2>3, <2>4
<1>3. ASSUME NEW w \in Workers, Take(w) \/ Sleep(w) \/ Exit(w) \/ CompleteCount(w) \/ CompleteNotify(w)
      PROVE  Called'
    BY <1>3 DEF Take, Sleep, Exit, CompleteCount, CompleteNotify, Move, IInv, TypeOK
<1>4. ASSUME NEW w \in Workers, ReadAndCall(w)
      PROVE  Called'
    <2>1. job[w] \in Reqs
        BY <1>4 DEF ReadAndCall, Move, IInv, TypeOK, Hands, Busy
    <2>2. \A r \in Reqs : calls[r] \in Nat
        BY DEF IInv, TypeOK
    <2>3. \A v \in Workers : worker'[v] = "called" => v = w \/ worker[v] = "called"
        BY <1>4 DEF ReadAndCall, Move, IInv, TypeOK
    <2>4. \A v \in Workers : worker[v] = "called" => job[v] \in Reqs
        BY DEF IInv, TypeOK, Hands, Busy
    <2>5. /\ job' = job /\ calls'[job[w]] = calls[job[w]] + 1
          /\ \A r \in Reqs : r # job[w] => calls'[r] = calls[r]
        BY <1>4, <2>1 DEF ReadAndCall, IInv, TypeOK
    <2> QED
        BY <2>1, <2>2, <2>3, <2>4, <2>5
<1> QED
    BY <1>1, <1>2, <1>3, <1>4 DEF Next, Worker

\* The drain's test passes only when no read is outstanding.
LEMMA DrainedIsEmpty ==
    ASSUME IInv, caller = "checking", Drained
    PROVE  Outstanding = {}
<1>1. Len(queue) \in Nat /\ Cardinality(Busy) \in Nat /\ pending \in Nat
    BY BusyFinite DEF IInv, TypeOK
<1>2. pending = Len(queue) + Cardinality(Busy)
    BY <1>1 DEF IInv, PendingIsExact
<1>3. Len(queue) = 0 /\ Cardinality(Busy) = 0
    BY <1>1, <1>2 DEF Drained
<1>4. Busy = {}
    BY <1>3, BusyFinite, FS_EmptySet
<1>5. DOMAIN queue = {}
    BY <1>3 DEF IInv, TypeOK
<1>6. \A w \in Workers : job[w] = None
    BY <1>4 DEF IInv, Hands
<1>7. pushing = None
    BY DEF IInv, Hands
<1> QED
    BY <1>5, <1>6, <1>7 DEF Outstanding

\* What is submitted is outstanding or answered.
LEMMA SubmittedIs ==
    ASSUME IInv, NEW r \in Reqs, ~Submitted(r)
    PROVE  r \notin Outstanding /\ calls[r] = 0
BY DEF Submitted, Outstanding, IInv, TypeOK

\* A step of the caller that submits no read, and moves none.
LEMMA CallerRefines ==
    ASSUME IInv, Start \/ WaitAll \/ Stop \/ DrainReturns \/ DrainMustWait \/ DrainSleeps
                     \/ SpuriousWakeup \/ StopQuits \/ StopJoins
    PROVE  [Reader!Next]_Reader!readerVars
<1>1. UNCHANGED <<queue, pushing, job, calls>>
    BY DEF Start, WaitAll, Stop, DrainReturns, DrainMustWait, DrainSleeps, SpuriousWakeup,
           StopQuits, StopJoins, poolVars, callerVars
<1>2. Outstanding' = Outstanding /\ {r \in Reqs : calls[r] > 0}' = {r \in Reqs : calls[r] > 0}
    BY <1>1 DEF Outstanding
<1>3. CASE WaitAll \/ Stop
    <2>1. Reader!DrainBegin
        BY <1>2, <1>3 DEF WaitAll, Stop, Reader!DrainBegin
    <2> QED
        BY <2>1 DEF Reader!Next
<1>4. CASE DrainReturns
    <2>1. Outstanding = {}
        BY <1>4, DrainedIsEmpty DEF DrainReturns
    <2>2. Reader!DrainEnd
        BY <1>2, <1>4, <2>1 DEF DrainReturns, Reader!DrainEnd
    <2> QED
        BY <2>2 DEF Reader!Next
<1>5. CASE Start \/ DrainMustWait \/ DrainSleeps \/ SpuriousWakeup \/ StopQuits \/ StopJoins
    <2>1. (caller \in {"checking", "dozing", "asleep"}) = (caller' \in {"checking", "dozing", "asleep"})
        BY <1>5 DEF Start, DrainMustWait, DrainSleeps, SpuriousWakeup, StopQuits, StopJoins, callerVars
    <2> QED
        BY <1>2, <2>1 DEF Reader!readerVars
<1> QED
    BY <1>3, <1>4, <1>5

\* submitRead(): refused at once, or outstanding from the count on.
LEMMA SubmitRefines ==
    ASSUME IInv, SubmitQueue \/ \E r \in Reqs : SubmitRefused(r) \/ SubmitCount(r)
    PROVE  [Reader!Next]_Reader!readerVars
<1>1. ASSUME NEW r \in Reqs, SubmitRefused(r)
      PROVE  Reader!Next
    <2>1. r \notin Outstanding /\ calls[r] = 0
        BY <1>1, SubmittedIs DEF SubmitRefused
    <2>2. Outstanding' = Outstanding /\ caller' = caller /\ caller = "free"
        BY <1>1 DEF SubmitRefused, Outstanding, poolVars, callerVars
    <2>3. {q \in Reqs : calls[q] > 0}' = {q \in Reqs : calls[q] > 0} \cup {r}
        BY <1>1, <2>1 DEF SubmitRefused, IInv, TypeOK
    <2>4. Reader!Refuse(r)
        BY <2>1, <2>2, <2>3 DEF Reader!Refuse
    <2> QED
        BY <2>4 DEF Reader!Next
<1>2. ASSUME NEW r \in Reqs, SubmitCount(r)
      PROVE  Reader!Next
    <2>1. r \notin Outstanding /\ calls[r] = 0
        BY <1>2, SubmittedIs DEF SubmitCount
    <2>2. pushing = None /\ caller = "free" /\ caller' = "submitting" /\ calls' = calls
        BY <1>2 DEF SubmitCount, IInv, Hands
    <2>3. Outstanding' = Outstanding \cup {r}
        BY <1>2, <2>2 DEF SubmitCount, Outstanding, poolVars
    <2>4. Reader!Submit(r)
        BY <2>1, <2>2, <2>3 DEF Reader!Submit
    <2> QED
        BY <2>4 DEF Reader!Next
<1>3. CASE SubmitQueue
    <2>1. pushing \in Reqs /\ queue \in Seq(Reqs)
        BY <1>3 DEF SubmitQueue, IInv, TypeOK, Hands
    <2>2. queue' = Append(queue, pushing) /\ pushing' = None /\ job' = job /\ calls' = calls
          /\ caller = "submitting" /\ caller' = "free"
        BY <1>3 DEF SubmitQueue
    <2>3. \A r : (\E i \in DOMAIN queue' : queue'[i] = r) <=> r = pushing \/ \E i \in DOMAIN queue : queue[i] = r
        <3>1. /\ DOMAIN queue = 1..Len(queue) /\ DOMAIN queue' = 1..(Len(queue) + 1)
              /\ \A i \in 1..Len(queue) : queue'[i] = queue[i]
              /\ queue'[Len(queue) + 1] = pushing
            BY <2>1, <2>2
        <3>2. Len(queue) \in Nat
            BY <2>1
        <3> QED
            BY <3>1, <3>2
    <2>4. Outstanding' = Outstanding
        BY <2>1, <2>2, <2>3 DEF Outstanding
    <2> QED
        BY <2>2, <2>4 DEF Reader!readerVars
<1> QED
    BY <1>1, <1>2, <1>3

\* A worker answers the read it holds, then lets go of it.
LEMMA WorkerRefines ==
    ASSUME IInv, Called, NEW w \in Workers, Worker(w)
    PROVE  [Reader!Next]_Reader!readerVars
<1> USE DEF Move
<1>1. CASE Take(w)
    <2>1. /\ queue \in Seq(Reqs) /\ queue # <<>> /\ queue' = Tail(queue)
          /\ job[w] = None /\ job'[w] = Head(queue) /\ \A v \in Workers : v # w => job'[v] = job[v]
          /\ UNCHANGED <<pushing, calls, caller>>
        BY <1>1 DEF Take, callerVars, IInv, TypeOK, Hands, Busy
    <2>2. \A r : (\E i \in DOMAIN queue : queue[i] = r) <=> r = Head(queue) \/ \E i \in DOMAIN queue' : queue'[i] = r
        <3>1. /\ DOMAIN queue = 1..Len(queue) /\ DOMAIN queue' = 1..(Len(queue) - 1)
              /\ \A i \in 1..(Len(queue) - 1) : queue'[i] = queue[i + 1]
              /\ Head(queue) = queue[1] /\ Len(queue) \in Nat /\ Len(queue) > 0
            BY <2>1
        <3>2. \A i \in 1..Len(queue) : i = 1 \/ (i - 1 \in 1..(Len(queue) - 1) /\ (i - 1) + 1 = i)
            BY <3>1
        <3>3. \A i \in 1..(Len(queue) - 1) : i + 1 \in 1..Len(queue)
            BY <3>1
        <3>4. 1 \in 1..Len(queue)
            BY <3>1
        <3> QED
            BY <3>1, <3>2, <3>3, <3>4
    <2>3. \A r \in Reqs : (\E v \in Workers : job'[v] = r) <=> r = Head(queue) \/ \E v \in Workers : job[v] = r
        BY <2>1
    <2>4. Outstanding' = Outstanding
        BY <2>1, <2>2, <2>3 DEF Outstanding
    <2> QED
        BY <2>1, <2>4 DEF Reader!readerVars
<1>2. CASE Sleep(w) \/ Exit(w) \/ CompleteNotify(w)
    <2>1. Outstanding' = Outstanding /\ calls' = calls
        BY <1>2 DEF Sleep, Exit, CompleteNotify, callerVars, Outstanding
    <2>2. (caller \in {"checking", "dozing", "asleep"}) = (caller' \in {"checking", "dozing", "asleep"})
        BY <1>2 DEF Sleep, Exit, CompleteNotify, callerVars
    <2> QED
        BY <2>1, <2>2 DEF Reader!readerVars
<1>3. CASE ReadAndCall(w)
    <2>1. /\ job[w] \in Reqs /\ calls[job[w]] = 0 /\ job[w] \in Outstanding
          /\ UNCHANGED <<queue, job, pushing, caller>>
        BY <1>3 DEF ReadAndCall, callerVars, IInv, TypeOK, Hands, Busy, Unanswered, Outstanding
    <2>2. Outstanding' = Outstanding
        BY <2>1 DEF Outstanding
    <2>3. {r \in Reqs : calls[r] > 0}' = {r \in Reqs : calls[r] > 0} \cup {job[w]}
        BY <1>3, <2>1 DEF ReadAndCall, IInv, TypeOK
    <2>4. PICK r \in Reqs : r = job[w]
        BY <2>1
    <2>5. Reader!Answer(r)
        BY <2>1, <2>2, <2>3, <2>4 DEF Reader!Answer
    <2> QED
        BY <2>5 DEF Reader!Next
<1>4. CASE CompleteCount(w)
    <2>1. /\ job[w] \in Reqs /\ calls[job[w]] > 0 /\ job[w] \in Outstanding
          /\ job'[w] = None /\ \A v \in Workers : v # w => job'[v] = job[v]
          /\ UNCHANGED <<queue, pushing, caller, calls>>
        BY <1>4 DEF CompleteCount, callerVars, IInv, TypeOK, Hands, Busy, Called, Outstanding
    <2>2. \A v \in Workers : v # w => job[v] # job[w]
        BY <2>1 DEF IInv, OnePlace
    <2>3. job[w] # pushing /\ \A i \in DOMAIN queue : queue[i] # job[w]
        BY <2>1 DEF IInv, OnePlace
    <2>4. Outstanding' = Outstanding \ {job[w]}
        BY <2>1, <2>2, <2>3 DEF Outstanding
    <2>5. Reader!Retire(job[w])
        BY <2>1, <2>4 DEF Reader!Retire
    <2> QED
        BY <2>1, <2>5 DEF Reader!Next
<1> QED
    BY <1>1, <1>2, <1>3, <1>4 DEF Worker

(***************************************************************************)
(* With any number of workers and of requests, the queue is what its users *)
(* are promised: each read is answered once, by one callback, and a drain  *)
(* ends only when nothing is outstanding.                                  *)
(***************************************************************************)
THEOREM ReaderRefinement == Spec => ImplementsAsyncReader
<1>1. Init => Called
    BY DEF Init, Called
<1>2. Init => Reader!Init
    BY DEF Init, Reader!Init, Outstanding
<1>3. IInv /\ Called /\ [Next]_vars => [Reader!Next]_Reader!readerVars
    <2> SUFFICES ASSUME IInv, Called, [Next]_vars
                 PROVE  [Reader!Next]_Reader!readerVars
        OBVIOUS
    <2>1. CASE UNCHANGED vars
        BY <2>1 DEF vars, Reader!readerVars, Outstanding
    <2>2. CASE Caller
        BY <2>2, CallerRefines, SubmitRefines DEF Caller
    <2> QED
        BY <2>1, <2>2, WorkerRefines DEF Next
<1> QED
    BY <1>1, <1>2, <1>3, CalledKept, ReaderInvariance, PTL DEF Spec, ImplementsAsyncReader, Reader!Spec
=============================================================================
