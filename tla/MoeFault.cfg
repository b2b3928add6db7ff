SPECIFICATION Spec
CONSTANTS
  FirstMoe = 1
  NumLayers = 3
  NumExperts = 4
  OverlapOne = 24
  ExpertKeys <- MCKeys
  StagingDepth = 2
  Faults = {"upload"}
  Garbage = Garbage
  TopK = 3
  Places = 4
  Rankings <- MCRankings
  Probabilities <- MCProbabilities
  Modes <- MCModes
  MaxErrors = 2
INVARIANTS
  OutputIsExact
