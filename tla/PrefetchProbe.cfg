SPECIFICATION Spec
CONSTANTS
    a = a
    s = s
    NoKey = NoKey
    Keys = {a, s}
    Shared = {s}
    NumShards = 2
    Gap = 1
    Loc <- MCLoc
    Batches <- MCBatches
    Capacities = {3}
    MaxInFlight = 1
    Faults = {FALSE}
PROPERTY
    AsyncPathServes
