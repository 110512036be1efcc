SPECIFICATION Spec
CONSTANTS
  a = a
  b = b
  w1 = w1
  w2 = w2
  w3 = w3
  Devices = {a, b}
  Workers <- MCWorkers
  Indices = {i1, i2, i3}
  NoIndex = NoIndex
  MaxEvents = 4
SYMMETRY Symmetry
INVARIANTS ConfirmedBeforeUse NoOrphanEntry HeldIsReachable OneSessionPerInitiation EndsAgree
CHECK_DEADLOCK FALSE
