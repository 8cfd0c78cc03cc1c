SPECIFICATION Spec
SYMMETRY Symmetry
CONSTANTS
  Workers = {w1, w2}
  None = None
  Rides = {i1, i2}
  Riders = {d1, d2}
  Ride1 = i1
  Rider1 = d1
  Orders = {i1, i2}
  Order1 = i1
  Targets = {"PAID", "ACCEPTED", "READY", "DELIVERED", "CANCELLED"}
  Bookings = {b1, b2}
  Quantities = {1, 2}
  Capacities = {2, 3}
  RuleIds = {q1, q2}
  Offers <- MCOffers
  Hours = {8, 10, 12, 18}
  Distances = {2, 3}
  Subtotals = {0, 30, 31}
  Credits = {0, 50, 500}
  Surcharges = {0, 7}
  ServiceFee = 14
  MaxDistance = 2
  Refunds = {r1, r2}
  Captured = 3
  Amounts = {1, 2, 3}
  MaxPublished = 2
  Items = {m1, m2}
  Prices = {1, 2}
  Extras = {1, 2}
  Photos = {f1, f2}
  Blank = Blank
  MaxOps = 3
  MaxBookingOps = 4
  MaxFaults = 1
INVARIANTS
  TypeOK
  RidersAccounted
  PaidBeforeService
  QuotesHonoured
  TicketsWithinCapacity
  SoldAsOffered
  ProofsUnlessBroken
  MoneyFollowsPayment
PROPERTIES
  RideStepsUnlessMixed
  OrderStepsUnlessMixed
CHECK_DEADLOCK FALSE
