SPECIFICATION Spec
CONSTANTS
  r1 = r1  r2 = r2  r3 = r3  w1 = w1  w2 = w2
  Reqs = {r1, r2, r3}
  Workers = {w1, w2}
  None = None
INVARIANTS
  TypeOK PendingIsExact AnsweredOnce
PROPERTIES
  EveryReadAnswered StopTerminates SleeperWoken ImplementsAsyncReader
