------------------------ MODULE MCPrefetchPipeline ------------------------
(***************************************************************************)
(* A routed expert `a` and a shared projection `s` over two shard files.   *)
(* One projection of a and s lie on shard 1 and become one run, with one   *)
(* byte of padding between them; a's other projection is a run of its own  *)
(* on shard 2, so two callbacks assemble a.  s also has an empty tensor.   *)
(***************************************************************************)
EXTENDS PrefetchPipeline

CONSTANTS a, s

Place(shard, offset, size) == [shard |-> shard, offset |-> offset, size |-> size]

MCLoc == (a :> <<Place(1, 0, 1), Place(2, 0, 1)>>)
      @@ (s :> <<Place(1, 2, 1), Place(2, 9, 0)>>)

MCBatches == {<<a, s>>}
=============================================================================
