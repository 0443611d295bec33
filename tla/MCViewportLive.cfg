SPECIFICATION FairSpec
CONSTANTS
  None = None
  Null = Null
  Garbage = Garbage
  Workers = {w1, w2}
  Ids = {i1, i2}
  Objects = {o1}
  Sensors = {s1}
  MaxTime = 2
PROPERTIES RequestsEnd
