SPECIFICATION Spec
CONSTANTS
    Reqs = {1, 2, 3, 4, 5, 6}
    Workers = {w1, w2}
    NoReq = NoReq
    MaxBad = 1
    Dense <- MCDense
    Gap = 1
    Pool = 2
    Chunk = 2
    Attempts = 2
    MaxStray = 2
    MiB = 1
    Word = 1048576
    CommandLines <- MCCommandLines
    GpuEnvs = {"auto", "cuda"}
    RawLimit = 3
    MaxMade = 3
CHECK_DEADLOCK FALSE
INVARIANTS
    RepliesArePaired
    RefusesToDegrade
    WarmRingSafe
PROPERTIES
    RunEnds
    ImplementsAsyncReader
