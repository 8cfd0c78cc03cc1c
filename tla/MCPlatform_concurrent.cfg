SPECIFICATION Spec
SYMMETRY Symmetry
CONSTANTS
  Workers = {w1, w2}
  Runners = {n1, n2, n3}
  None = None
  Keys = {i1, i2}
  Prints = {f1, f2}
  Capacity = 1
  Schedulers = {b1, b2}
  Concurrency = 2
  Priorities = {0, 1}
  MaxWaiting = 3
  MaxJobs = 4
  Sessions = {i1, i2}
  Challenges = {c1}
  MaxAttempts = 2
  MaxRequests = 4
  MaxTimers = 6
  MaxCalls = 7
  MaxSignIns = 5
  MaxFaults = 1
  Tickets = {i1, i2}
  MaxReplies = 4
  Occurrences = {i1, i2}
  Kinds = {"order_placed", "order_paid", "order_moved", "order_cancelled",
           "ride_created", "ride_paid", "ride_refunded", "rider_assigned",
           "ride_moved_by_customer", "ride_rejected", "booking_paid"}
  MaxTasks = 2
  MaxNotices = 2
  Messages = {i1, i2}
  Loops = {l1, l2, l3}
  MaxRetries = 1
  MaxBatch = 2
  MaxCuts = 2
  Processes = {i1, i2}
  Entities = {v1, v2}
  Entity1 = v1
  Texts = {"text"}
  Attempts = 2
  MaxChanges = 3
INVARIANTS
  TypeOK
  IdempotentUnlessForgotten
  OneRunUnlessDisturbed
  
  TrailUnlessMixed
  
  DeliveredUnlessCut
  IndexFollowsUnlessBehind
PROPERTIES
  JobsKeptInOrder
CHECK_DEADLOCK FALSE
