SPECIFICATION FairSpec
CONSTANTS
  None = None
  Workers = {w1}
  N = 2
  Keys = {k1, k2}
  Persons = {p1, p2}
  Aligned <- NoneAligned
  GlobalIds = {g1, g2}
  Capacity = 2
INVARIANTS TypeOK NothingStale ShownOnce SharedSeenTwice LedToFirst
PROPERTIES MergesEnd
