SPECIFICATION CalibrationSpec
CONSTANTS
  None = None
  Null = Null
  Garbage = Garbage
  Workers = {w1}
  Ids = {i1, i2, i3}
  Objects = {o1, o2, o3}
  Sensors = {s1}
  MaxTime = 3
SYMMETRY Symmetry
INVARIANTS TransformLeadsToPrevious
