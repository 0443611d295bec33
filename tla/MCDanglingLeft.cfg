SPECIFICATION CalibrationSpec
CONSTANTS
  None = None
  Null = Null
  Garbage = Garbage
  Workers = {w1}
  Ids = {i1, i2}
  Objects = {o1, o2}
  Sensors = {s1}
  MaxTime = 4
SYMMETRY Symmetry
INVARIANTS FirstSceneHasNoLeft
