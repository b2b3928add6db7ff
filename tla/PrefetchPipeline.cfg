SPECIFICATION Spec
CONSTANTS
    a = a
    s = s
    NoKey = NoKey
    Keys = {a, s}
    Shared = {s}
    NumShards = 2
    Gap = 1
    Loc <- MCLoc
    Batches <- MCBatches
    Capacities = {2, 3}
    MaxInFlight = 1
    Faults = {TRUE, FALSE}
INVARIANTS
    TypeOK
    BytesMatchDisk
    FlightIsStreamingUnlessFaulty
    NothingStagedTwice
    AwaitedIsComing
PROPERTIES
    AlwaysLands
    EveryCallReturns
