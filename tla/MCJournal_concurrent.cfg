SPECIFICATION MCSpec
SYMMETRY WorkerSymmetry
CONSTANTS
  w1 = w1
  w2 = w2
  p1 = p1
  p2 = p2
  r1 = r1
  k1 = k1
  k2 = k2
  NoSource = NoSource
  NoKey = NoKey
  Workers = {w1, w2}
  Payments = {p1, p2}
  Refunds = {r1}
  Days = {1, 2}
  DayOf <- SecondLater
  Keys = {k1, k2}
  MaxOps = 4
  MaxFaults = 1
INVARIANTS
  EntriesSound
  BooksUnlessMixed
PROPERTIES
  FixedUnlessMixed
CHECK_DEADLOCK FALSE
