SPECIFICATION Spec
CONSTANTS
  NumLayers = 3
  NumHeads = 2
  QkDim = 2
  VDim = 1
  IndexDim = 2
  EmptyCap = 2
  FirstStep = 3
  Zero = Zero
  InitialCap = 1
  Slack = 1
  IndexTopk = 2
  Schedules <- MCSchedules
  MaxTokens = 4
  MaxConversations = 1
INVARIANTS
  TypeOK HistoryIsCurrent SelectionOfThisToken
PROPERTIES
  AppendsStayInPlace ImplementsKVStore
