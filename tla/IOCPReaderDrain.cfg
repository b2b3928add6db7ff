SPECIFICATION Spec
CONSTANTS
  r1 = r1  r2 = r2  r3 = r3  w1 = w1  w2 = w2
  Reqs = {r1}
  Workers = {w1}
  None = None
PROPERTY
  WaitAllReturns
