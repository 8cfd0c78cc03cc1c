SPECIFICATION Spec
CONSTANTS
  w1 = w1
  Workers = {w1}
  Providers = {"MANUAL", "DARAJA", "KOPOKOPO"}
  Amount = 2
  RefundAmounts = {1, 2}
  RefundKeys = {"k1", "k2"}
  MaxRequests = 2
  MaxRefunds = 2
  MaxOps = 6
  MaxFaults = 1
PROPERTIES
  LifecycleFollowed
CHECK_DEADLOCK FALSE
