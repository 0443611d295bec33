SPECIFICATION Spec
CONSTANTS
  None = None
  Workers = {w1}
  N = 3
  Keys = {k1}
  Persons = {p1}
  Aligned <- NoneAligned
  GlobalIds = {g1, g2, g3}
  Capacity = 3
SYMMETRY Symmetry
INVARIANTS LedToFirst
