SPECIFICATION FairSpec
CONSTANTS
  None = None
  Keys = {k1, k2}
  Skeletons = {s1}
  Capacity = 1
  Workers = {w1, w2}
  Udp = udp
  Refresher = refresher
  Readings = {1, 2}
INVARIANTS TypeOK Exclusion Bounded ObservedBeforeStored
PROPERTIES FirstObservationKept ImplementsMap JoinReturns CallsReturn StaleCleared
