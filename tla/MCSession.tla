----------------------------- MODULE MCSession -----------------------------
(***************************************************************************)
(* Command lines of every kind: one that is refused, early modes, a dump,  *)
(* prompts with and without a limit for either tokenizer, raw ids, and     *)
(* requests for an offload that may not be there.  The dense tensors of    *)
(* two shards make five chunks for a ring of two buffers.                  *)
(***************************************************************************)
EXTENDS Session

Opt(name, value) == [opt |-> name, val |-> value]

Flag(name) == Opt(name, 0)

Model == Opt("--model", "glm")

MCCommandLines == {
    <<Model, Opt("--tokenizer", "native"), Opt("--tokenizer", "rust")>>,
    <<Flag("--check-weights")>>,
    <<Flag("-h"), Model>>,
    <<Model, Opt("--gpu", "cpu-only"), Opt("--gpu", "tpu"), Opt("--dump-tokens", "hello")>>,
    <<Model, Opt("--prompt", "hello"), Opt("--max-tokens", 2), Opt("--gpu-experts", 3)>>,
    <<Model, Opt("--prompt", "hello"), Flag("--no-gpu")>>,
    <<Model, Opt("--prompt", "hello"), Opt("--tokenizer", "native"), Flag("--mtp")>>,
    <<Model, Opt("--tokenizer", "native"), Opt("--gpu", "cuda")>>,
    <<Model, Opt("--prompt-tokens", <<3, 7>>), Opt("--gpu-experts", -1)>> }

MCDense == {
    [shard |-> 1, offset |-> 4, size |-> 2], [shard |-> 1, offset |-> 0, size |-> 3],
    [shard |-> 1, offset |-> 9, size |-> 1], [shard |-> 2, offset |-> 1, size |-> 3] }
=============================================================================
