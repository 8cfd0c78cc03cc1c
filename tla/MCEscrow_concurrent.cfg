SPECIFICATION MCSpec
SYMMETRY WorkerSymmetry
CONSTANTS
  w1 = w1
  w2 = w2
  p1 = p1
  p2 = p2
  NoKey = NoKey
  k1 = k1
  Workers = {w1, w2}
  Payments = {p1, p2}
  Captured <- TwoThenOne
  Refunds <- PartialAndRest
  Modes = {"release", "forfeit", "refund"}
  Keys = {k1}
  MaxOps = 6
  MaxFaults = 1
INVARIANTS
  HoldsSound
  HeldUnlessMixed
PROPERTIES
  FinalUnlessMixed
CHECK_DEADLOCK FALSE
