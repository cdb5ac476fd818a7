SPECIFICATION Spec
CONSTANTS
  r1 = r1
  r2 = r2
  r3 = r3
  k1 = k1
  k2 = k2
  f1 = f1
  f2 = f2
  Requests = {r1, r2, r3}
  MaxRows = 2
  Seeded = 1
  Keys = {k1, k2}
  Infos = {f1, f2}
  Absent = Absent
SYMMETRY Symmetry
CHECK_DEADLOCK FALSE
INVARIANTS
  UniqueKeys
PROPERTIES
  RemovedStaysRemoved
  OnlyGivenChange
