SPECIFICATION Spec
SYMMETRY WorkerSymmetry
CONSTANTS
  w1 = w1
  w2 = w2
  Workers = {w1, w2}
  Providers = {"MANUAL", "DARAJA", "KOPOKOPO"}
  Amount = 2
  RefundAmounts = {1, 2}
  RefundKeys = {"k1", "k2"}
  MaxRequests = 2
  MaxRefunds = 2
  MaxOps = 4
  MaxFaults = 1
INVARIANTS
  TypeOK
  OneInitiationPerKey
  RefundsWithinCapture
  MoneyBacked
  CaptureIsAnnounced
PROPERTIES
  ProcessedIsFinal
CHECK_DEADLOCK FALSE
