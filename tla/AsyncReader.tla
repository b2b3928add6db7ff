---------------------------- MODULE AsyncReader ----------------------------
(***************************************************************************)
(* What the users of an IOCPReader rely on (src/src/storage/               *)
(* iocp_reader.h): every submitted read is answered by one call of its     *)
(* callback, in any order, and a drain returns only when no read is        *)
(* outstanding.  IOCPReader implements it; PrefetchPipeline is written     *)
(* against it.                                                             *)
(***************************************************************************)
CONSTANT Reqs            \* the read requests

VARIABLES
    outstanding,         \* submitted, callback not finished
    answered,            \* callback called
    drains               \* a waitAll() or stop() is in progress

readerVars == <<outstanding, answered, drains>>

Init ==
    /\ outstanding = {}
    /\ answered = {}
    /\ drains = FALSE

Submit(r) ==
    /\ r \notin outstanding \cup answered
    /\ ~drains
    /\ outstanding' = outstanding \cup {r}
    /\ UNCHANGED <<answered, drains>>

\* a reader that does not run answers at once
Refuse(r) ==
    /\ r \notin outstanding \cup answered
    /\ ~drains
    /\ answered' = answered \cup {r}
    /\ UNCHANGED <<outstanding, drains>>

Answer(r) ==
    /\ r \in outstanding \ answered
    /\ answered' = answered \cup {r}
    /\ UNCHANGED <<outstanding, drains>>

Retire(r) ==
    /\ r \in outstanding \cap answered
    /\ outstanding' = outstanding \ {r}
    /\ UNCHANGED <<answered, drains>>

DrainBegin ==
    /\ ~drains
    /\ drains' = TRUE
    /\ UNCHANGED <<outstanding, answered>>

DrainEnd ==
    /\ drains
    /\ outstanding = {}
    /\ drains' = FALSE
    /\ UNCHANGED <<outstanding, answered>>

Next ==
    \/ \E r \in Reqs : Submit(r) \/ Refuse(r) \/ Answer(r) \/ Retire(r)
    \/ DrainBegin
    \/ DrainEnd

Spec == Init /\ [][Next]_readerVars
=============================================================================
