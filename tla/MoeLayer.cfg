SPECIFICATION Spec
CONSTANTS
  FirstMoe = 1
  NumLayers = 3
  NumExperts = 4
  OverlapOne = 24
  ExpertKeys <- MCKeys
  StagingDepth = 2
  Faults = {"alloc", "wait", "output"}
  Garbage = Garbage
  TopK = 3
  Places = 3
  Rankings <- MCRankings
  Probabilities <- MCProbabilities
  Modes <- MCModes
  MaxErrors = 2
INVARIANTS
  TypeOK OutputIsExact ResidentBytesAreOwn RequestsAreJustified
