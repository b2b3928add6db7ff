--------------------------- MODULE GpuExpertCache ---------------------------
(***************************************************************************)
(* ExpertGpuCache (src/src/compute/cuda_backend.cpp): routed experts kept  *)
(* in device slots and uploaded through a ring of pinned host buffers.     *)
(* Uploads are queued on the copy stream and run there later, reading the  *)
(* pinned buffer as it is then; a computation waits for its own upload.    *)
(*                                                                         *)
(* `gpu` is the cache; Stage and FFN give the outcomes a call may have,    *)
(* one per device call that may fail.  Bytes are abstracted to the key     *)
(* they belong to, and lastUse clocks to the order they define.            *)
(***************************************************************************)
EXTENDS Integers, SequencesExt, FiniteSetsExt

CONSTANTS
    ExpertKeys,      \* <<layer, expert id>>
    StagingDepth,    \* pinned buffers: slotCount
    Faults,          \* device calls that may fail: "alloc", "drain", "upload",
                     \* "wait", "input", "kernel", "output"
    Garbage          \* what a fresh buffer holds

ASSUME StagingAssumption == StagingDepth \in Nat \ {0}

DeviceSlots(g) == 0 .. g.capacity - 1
StageSlots == 0 .. StagingDepth - 1
Contents == ExpertKeys \cup {Garbage}

Unallocated(capacity) ==
    [capacity |-> capacity,       \* requestedCapacity: device slots
     configured |-> FALSE,
     slotOf |-> <<>>,             \* mapKeyToSlot: resident key -> device slot
     inUse |-> {},                \* DeviceExpert::inUse
     age |-> [d \in 0..capacity - 1 |-> d + 1], \* rank of DeviceExpert::lastUse, 1 the oldest
     slotPending |-> {},          \* pinned buffers whose upload nobody waited for
     nextStageSlot |-> 0,
     uploadPending |-> {},        \* keys whose upload nobody waited for
     eventOf |-> <<>>,            \* uploadEvent and uploadStageSlot
     host |-> [s \in StageSlots |-> Garbage],
     dev |-> [d \in 0..capacity - 1 |-> Garbage],
     copies |-> <<>>]             \* the copy stream: [stage, slot]

Alloc(g) == [g EXCEPT !.configured = TRUE]

-----------------------------------------------------------------------------

\* What a device slot holds after n copies: what the last of them for it brings.
After(g, n, d) ==
    LET mine == {i \in 1..n : g.copies[i].slot = d}
    IN  IF mine = {} THEN g.dev[d] ELSE g.host[g.copies[Max(mine)].stage]

\* The first n copies of the stream execute.
Copied(g, n) ==
    [g EXCEPT !.dev = [d \in DOMAIN @ |-> After(g, n, d)],
              !.copies = SubSeq(@, n + 1, Len(@))]

\* A device slot becomes the youngest: lastUse = ++lruClock.
Touched(g, d) ==
    [g EXCEPT !.age = [x \in DOMAIN @ |-> IF x = d THEN g.capacity
                                         ELSE IF @[x] > @[d] THEN @[x] - 1 ELSE @[x]]]

Victim(g) ==
    IF Cardinality(DOMAIN g.slotOf) >= g.capacity
    THEN CHOOSE d \in DeviceSlots(g) : g.age[d] = 1
    ELSE Min((DeviceSlots(g) \ g.inUse) \cup (IF g.inUse = DeviceSlots(g) THEN {0} ELSE {}))

\* The key uint64_t(0), which the erase of "no evicted key" falls on.
KeyZero == <<0, 0>>

\* The keys whose upload records an admission erases.
Forgotten(g, victim) ==
    LET evicted == {k \in DOMAIN g.slotOf : g.slotOf[k] = victim}
    IN  IF evicted = {} THEN {KeyZero} ELSE evicted

\* acquireSlot for a key that is not resident.
Admitted(g, k) ==
    LET victim == Victim(g)
        stay == {r \in DOMAIN g.slotOf : g.slotOf[r] # victim} \cup {k}
    IN  Touched(
        [g EXCEPT !.slotOf = [r \in stay |-> IF r = k THEN victim ELSE g.slotOf[r]],
                  !.inUse = @ \cup {victim},
                  !.uploadPending = @ \ Forgotten(g, victim),
                  !.eventOf = [r \in DOMAIN @ \ Forgotten(g, victim) |-> @[r]]],
        victim)

\* mutation: a pinned buffer is reused without draining the copy stream
Drained_Skipped(g, s) == g

\* claimStageSlot: a buffer still being read is drained first.
Drained(g, s) ==
    IF s \in g.slotPending
    THEN [Copied(g, Len(g.copies)) EXCEPT !.slotPending = {}]
    ELSE g

\* mutation: the round robin does not wrap
Advanced_NoWrap(g) == [g EXCEPT !.nextStageSlot = @ + 1]

Advanced(g) == [g EXCEPT !.nextStageSlot = (@ + 1) % StagingDepth]

\* memcpy into the pinned buffer
Filled(g, s, k) == [g EXCEPT !.host[s] = k]

\* The upload is queued, with the event a computation will wait for.
Queued(g, s, k) ==
    [g EXCEPT !.copies = Append(@, [stage |-> s, slot |-> g.slotOf[k]]),
              !.slotPending = @ \cup {s},
              !.uploadPending = @ \cup {k},
              !.eventOf = [r \in DOMAIN @ \cup {k} |-> IF r = k THEN s ELSE @[r]]]

Outcome(g, ok, fault) == [gpu |-> g, ok |-> ok, fault |-> fault, bytes |-> Garbage]
Fails(g, fault) == IF fault \in Faults THEN {Outcome(g, FALSE, TRUE)} ELSE {}

\* An admission from the choice of a slot to the queued upload.  The key is
\* resident from the start: a failure later leaves it there.
Upload(g, k) ==
    LET s == g.nextStageSlot
        claimed == Advanced(Admitted(g, k))
        filled == Filled(Drained(claimed, s), s, k)
    IN  {Outcome(Queued(filled, s, k), TRUE, FALSE)}
        \cup (IF s \in g.slotPending THEN Fails(claimed, "drain") ELSE {})
        \cup Fails(filled, "upload")

\* gpuExpertStage, allocating at its first use.
Stage(g, k) ==
    LET ready == Alloc(g) IN
    (IF g.configured THEN {} ELSE Fails(g, "alloc")) \cup
    (IF k \in DOMAIN g.slotOf
     THEN {Outcome(Touched(ready, g.slotOf[k]), TRUE, FALSE)}
     ELSE Upload(ready, k))

\* The copies that have executed once the compute stream has passed k's
\* event: the event is the buffer's, so it is that of its latest upload.
Awaited(g, k) ==
    IF k \in g.uploadPending
    THEN Max({0} \cup {i \in DOMAIN g.copies : g.copies[i].stage = g.eventOf[k]})
    ELSE 0

\* releaseStageSlot and the pending flag, set when the wait is queued.
Released(g, k) ==
    IF k \in g.uploadPending
    THEN [g EXCEPT !.slotPending = @ \ {g.eventOf[k]}, !.uploadPending = @ \ {k}]
    ELSE g

\* gpuExpertFFN: the bytes computed with are those the slot holds after the
\* wait.  Errors before the kernel return without waiting for anything.
FFN(g, k) ==
    IF k \notin DOMAIN g.slotOf
    THEN {Outcome(g, FALSE, FALSE)}
    ELSE LET released == Released(g, k)
             done == Copied(released, Awaited(g, k))
         IN  {[Outcome(done, TRUE, FALSE) EXCEPT !.bytes = done.dev[g.slotOf[k]]]}
             \cup (IF k \in g.uploadPending THEN Fails(g, "wait") ELSE {})
             \cup Fails(released, "input")
             \cup Fails(released, "kernel")
             \cup Fails(done, "output")

-----------------------------------------------------------------------------

GpuType(g) ==
    /\ g.configured \in BOOLEAN
    /\ DOMAIN g.slotOf \subseteq ExpertKeys
    /\ \A k \in DOMAIN g.slotOf : g.slotOf[k] \in DeviceSlots(g)
    /\ g.inUse \subseteq DeviceSlots(g)
    /\ DOMAIN g.age = DeviceSlots(g) /\ Range(g.age) = 1 .. g.capacity
    /\ g.slotPending \subseteq StageSlots
    /\ g.nextStageSlot \in StageSlots
    /\ g.uploadPending \subseteq DOMAIN g.eventOf
    /\ DOMAIN g.eventOf \subseteq ExpertKeys
    /\ \A k \in DOMAIN g.eventOf : g.eventOf[k] \in StageSlots
    /\ g.host \in [StageSlots -> Contents]
    /\ g.dev \in [DeviceSlots(g) -> Contents]
    /\ g.copies \in Seq([stage : StageSlots, slot : DeviceSlots(g)])

(***************************************************************************)
(* What a resident key's slot will hold once the copies queued for it have *)
(* run; every other copy for the slot runs before the last one.            *)
(***************************************************************************)
Arriving(g, d) == After(g, Len(g.copies), d)
=============================================================================
