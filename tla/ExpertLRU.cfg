SPECIFICATION Spec
CONSTANTS
  k1 = k1  k2 = k2  k3 = k3  k4 = k4
  Keys = {k1, k2, k3, k4}
  Size <- MCSize
  Capacities = {3, 5}
  MaxProtect = 2
  None = None
INVARIANTS
  TypeOK OrderMatchesMap UsedIsExact WithinCapacity ReplaceAlwaysFits BoostsPaySweeps
PROPERTIES
  PinnedStaysResident ImplementsExpertCache
