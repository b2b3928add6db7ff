---------------------------- MODULE ReadBatches ----------------------------
(***************************************************************************)
(* The batches of experts that prefetchAsync()                             *)
(* (src/src/engine/scheduler.cpp) makes reads of (RunMerge).  Any key may  *)
(* be neither resident nor in flight, and then joins the batch; no caller  *)
(* names a key twice.                                                      *)
(***************************************************************************)
EXTENDS RunMerge

VARIABLE batch      \* the keys of `assemblies`

NoBatch == batch = {}

AddToBatch(k) ==
    /\ k \notin batch
    /\ batch' = batch \cup {k}

BatchSpec == NoBatch /\ [][\E k \in Keys : AddToBatch(k)]_batch

-----------------------------------------------------------------------------
(***************************************************************************)
(* The merged reads of prefetchAsync() are as good as reading each         *)
(* projection by itself: they bring each expert its bytes, the callback    *)
(* never copies from outside what was read, and each shard is read in one  *)
(* upward sweep.                                                           *)
(***************************************************************************)
ReadsAreExact == BatchIsExact(batch)
=============================================================================
