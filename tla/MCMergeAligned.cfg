SPECIFICATION Spec
CONSTANTS
  None = None
  Workers = {w1}
  N = 2
  Keys = {k1}
  Persons = {p1, p2}
  Aligned <- AllAligned
  GlobalIds = {g1, g2}
  Capacity = 3
SYMMETRY Symmetry
INVARIANTS SharedSeenTwice
