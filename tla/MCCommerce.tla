----------------------------- MODULE MCCommerce ------------------------------
(***************************************************************************)
(* What customers buy: rides, orders and event bookings, what merchants    *)
(* offer, prices, proofs of delivery, and the way the money takes.  These  *)
(* models share no state but the payment service's, so a behaviour is one  *)
(* of theirs, and the variables of the others stand still.                 *)
(***************************************************************************)
EXTENDS Integers, FiniteSets, TLC

CONSTANTS
  Workers, None, Rides, Riders, Ride1, Rider1, Orders, Order1, Targets, Bookings,
  Quantities, Capacities, RuleIds, Offers, Hours, Distances, Subtotals, Credits, Surcharges,
  ServiceFee, MaxDistance, Refunds, Captured, Amounts, MaxPublished, Items, Prices, Extras,
  Photos, Blank,
  MaxOps,         \* bound: requests and events of rides and orders
  MaxBookingOps,  \* bound: requests and events of bookings
  MaxFaults

ASSUME BookingConstants ==
  /\ IsFiniteSet(Bookings) /\ None \notin Bookings
  /\ Quantities \subseteq Nat /\ Capacities \subseteq Nat
  /\ MaxBookingOps \in Nat /\ MaxFaults \in Nat

ASSUME DeliveryConstants ==
  /\ None \notin Photos \cup {Blank, "order", "ride"}
  /\ MaxOps \in Nat /\ MaxFaults \in Nat

ASSUME MoneyConstants ==
  /\ IsFiniteSet(Workers)
  /\ IsFiniteSet(Refunds) /\ None \notin Refunds
  /\ Captured \in Nat \ {0} /\ Amounts \subseteq Nat \ {0}
  /\ MaxPublished \in Nat /\ MaxFaults \in Nat

ASSUME RideConstants ==
  /\ None \notin Rides \cup Riders
  /\ Ride1 \in Rides /\ Rider1 \in Riders
  /\ MaxOps \in Nat /\ MaxFaults \in Nat

ASSUME ShopConstants ==
  /\ None \notin Items /\ None \notin Nat
  /\ None \notin {"checkout", "kyc", "age", "create", "category", "merchant"}
  /\ Prices # {} /\ MaxOps \in Nat

ASSUME PricingConstants ==
  /\ Offers \subseteq [service : {"DELIVERY", "RIDE"}, min : Nat, max : Nat, charge : Nat,
                      rider : Nat, commission : Nat, priority : Nat, enabled : BOOLEAN]
  /\ Subtotals \cup Credits \cup Surcharges \subseteq Nat /\ ServiceFee \in Nat

VARIABLES
  part,  \* which model: "rides", "orders", "bookings", "pricing", "money", "shop"
         \* or "proofs"
  payment, published, op, left, faults, consumed, priced, mixed,
  rides, available, odd, forced,
  orders, trail, reviews, shared, handled,
  event, type, bookings, tickets, raced,
  rules, hour, quote, order,
  purpose, life, refunds, heard, collected, hold, wallet, others, mirrored, unwound, disturbed,
  merchant, kyc, store, category, items, ages, placed, offers, unfair, judged, checked, revived,
  status, proof, column, announced, reviewed, standing, last, broken, crossed

OfRides    == <<rides, available, odd, forced>>
OfOrders   == <<orders, trail, reviews, shared, handled>>
OfBookings == <<event, type, bookings, tickets, raced>>
OfPricing  == <<rules, hour, quote, order>>
OfMoney    == <<purpose, life, refunds, heard, collected, hold, wallet, others, mirrored,
                unwound, disturbed>>
OfShop     == <<merchant, kyc, store, category, items, ages, placed, offers, unfair, judged,
                checked, revived>>
OfProofs   == <<status, proof, column, announced, reviewed, standing, last, broken, crossed>>
OfQuotes   == <<consumed, priced, mixed>>
OfRequests == <<payment, published, left>>
OfHandlers == <<op, faults>>

vars == <<part, OfRides, OfOrders, OfBookings, OfPricing, OfMoney, OfShop, OfProofs, OfQuotes,
          OfRequests, OfHandlers>>

Offer(service, max, charge, commission, enabled) ==
  [service |-> service, min |-> 0, max |-> max, charge |-> charge,
   rider |-> charge - commission, commission |-> commission, priority |-> 1,
   enabled |-> enabled]

\* Two delivery rules of one priority with different bands, and a ride rule that is on
\* or off; the charges make surge and peak fees round both ways.
MCOffers ==
  { Offer("DELIVERY", 3, 121, 20, TRUE), Offer("DELIVERY", 2, 53, 33, TRUE),
    Offer("RIDE", 3, 99, 9, TRUE), Offer("RIDE", 3, 99, 9, FALSE) }

R == INSTANCE MCRides
O == INSTANCE MCOrders
B == INSTANCE Bookings WITH MaxOps <- MaxBookingOps
P == INSTANCE Pricing
M == INSTANCE Mirroring
F == INSTANCE MCStorefront
G == INSTANCE Delivery WITH reviews <- reviewed

ASSUME OrderConstants ==
  /\ IsFiniteSet(Workers)
  /\ IsFiniteSet(Orders) /\ None \notin Orders /\ Order1 \in Orders
  /\ Targets \subseteq O!Statuses
  /\ MaxOps \in Nat /\ MaxFaults \in Nat

NoRides    == rides = None /\ available = None /\ odd = None /\ forced = None
NoOrders   == orders = None /\ trail = None /\ reviews = None /\ shared = None /\ handled = None
NoBookings == event = None /\ type = None /\ bookings = None /\ tickets = None /\ raced = None
NoPricing  == rules = None /\ hour = None /\ quote = None /\ order = None
NoMoney ==
  /\ purpose = None /\ life = None /\ refunds = None /\ heard = None /\ collected = None
  /\ hold = None /\ wallet = None /\ others = None /\ mirrored = None /\ unwound = None
  /\ disturbed = None
NoShop ==
  /\ merchant = None /\ kyc = None /\ store = None /\ category = None /\ items = None
  /\ ages = None /\ placed = None /\ offers = None /\ unfair = None /\ judged = None
  /\ checked = None /\ revived = None
NoProofs ==
  /\ status = None /\ proof = None /\ column = None
  /\ announced = None /\ last = None /\ broken = None
  /\ reviewed = None /\ standing = None /\ crossed = None
NoQuotes   == consumed = None /\ priced = None /\ mixed = None
NoRequests == payment = None /\ published = None /\ left = None
NoHandlers == op = None /\ faults = None

NoPurchases == NoRides /\ NoOrders /\ NoBookings /\ NoPricing /\ NoMoney

Init ==
  \/ /\ NoPurchases /\ consumed = None /\ priced = None /\ payment = None /\ published = None
     /\ \/ part = "shop" /\ F!MCInit /\ NoProofs /\ faults = None
        \/ part = "proofs" /\ G!Init /\ NoShop
  \/ /\ NoShop /\ NoProofs
     /\ \/ part = "rides" /\ R!MCInit /\ NoOrders /\ NoBookings /\ NoPricing /\ NoMoney
        \/ part = "orders" /\ O!MCInit /\ NoRides /\ NoBookings /\ NoPricing /\ NoMoney
        \/ part = "bookings" /\ B!MCInit /\ NoRides /\ NoOrders /\ NoPricing /\ NoMoney
           /\ NoQuotes
        \/ part = "pricing" /\ P!Init /\ NoRides /\ NoOrders /\ NoBookings /\ NoMoney /\ NoQuotes
           /\ NoRequests /\ NoHandlers
        \/ part = "money" /\ M!MCInit /\ NoRides /\ NoOrders /\ NoBookings /\ NoPricing
           /\ NoQuotes /\ NoRequests

Next ==
  /\ UNCHANGED part
  /\ part # "rides" => UNCHANGED OfRides
  /\ part # "orders" => UNCHANGED OfOrders
  /\ part # "bookings" => UNCHANGED OfBookings
  /\ part # "pricing" => UNCHANGED OfPricing
  /\ part # "money" => UNCHANGED OfMoney
  /\ part # "shop" => UNCHANGED OfShop
  /\ part # "proofs" => UNCHANGED OfProofs
  /\ \/ part = "rides" /\ R!MCNext
     \/ part = "orders" /\ O!MCNext
     \/ part = "bookings" /\ B!MCNext /\ UNCHANGED OfQuotes
     \/ part = "pricing" /\ P!Next /\ UNCHANGED <<OfQuotes, OfRequests, OfHandlers>>
     \/ part = "money" /\ M!MCNext /\ UNCHANGED <<OfQuotes, OfRequests>>
     \/ /\ part = "shop" /\ F!MCNext
        /\ UNCHANGED <<consumed, priced, payment, published, faults>>
     \/ part = "proofs" /\ G!Next /\ UNCHANGED <<consumed, priced, payment, published>>

Spec == Init /\ [][Next]_vars

\* The state of each model has its shape.
TypeOK ==
  CASE part = "rides" -> R!TypeOK
    [] part = "orders" -> O!TypeOK
    [] part = "bookings" -> B!TypeOK
    [] part = "pricing" -> P!TypeOK
    [] part = "money" -> M!TypeOK
    [] part = "shop" -> F!TypeOK
    [] part = "proofs" -> G!TypeOK

\* Riders are unavailable exactly while they have a ride under way: dispatch, hand
\* assignments and status changes keep is_available and the rides together (except
\* where nothing frees them: see MCRides).
RidersAccounted == part = "rides" => R!RidersAccounted

\* However requests and payment events overlap, no rider is found for a pay-first ride
\* and no order is served before its payment completed, unless an admin says so (see
\* MCRides, MCOrders).
PaidBeforeService ==
  /\ part = "rides" => R!PaidBeforeDispatch
  /\ part = "orders" => O!PaidBeforeServed

\* A ride's status follows the table whoever moves it, and its rider is replaced only
\* by hand, never by a second dispatch (see MCRides, Rides).
RideStepsUnlessMixed == [][part = "rides" => R!StatusFollowsTable /\ R!ReplacedByHand]_vars

\* A single-use quote prices one order and a delivered order is reviewed once, unless
\* two requests look before either writes; the price quoted is what is charged, whatever
\* happens to rules and hours since, and covers what merchant, rider and platform are
\* promised (see MCOrders, Pricing).
QuotesHonoured ==
  /\ part = "orders" => O!QuoteOnceUnlessShared /\ O!ReviewedOnceUnlessMixed
  /\ part = "pricing" => P!PriceHonoured /\ P!SplitCovered

\* An order never loses its recorded payment nor its place in the workflow, and its
\* status history is a chain, whichever service or event writes it (see MCOrders).
OrderStepsUnlessMixed == [][part = "orders" => O!PaymentKept /\ O!HistoryChained]_vars

\* Tickets, sales and completed payments agree through duplicates and races, and no
\* more is sold and reserved than there is unless purchases overlap (see Bookings).
TicketsWithinCapacity == part = "bookings" => B!TicketsMatchSales /\ B!NotOversoldUnlessRaced

\* Customers pay for what was on sale as they ordered it, no item outlives its category,
\* and merchants and ages are approved on what the reviewer saw, unless requests overlap
\* (see MCStorefront).
SoldAsOffered ==
  part = "shop" =>
    /\ F!OrdersAsOffered /\ F!NoOrphanUnlessMixed /\ F!ReviewedAsSeenUnlessMixed

\* An order or a ride is completed exactly if that was announced, its proof is the one
\* handed in last, and its rider's row counts the reviews, unless requests overlap or
\* break off (see Delivery).
ProofsUnlessBroken ==
  part = "proofs" => G!ProofsUnlessBroken /\ G!RatingsUnlessCrossed

\* From the capture over journal to wallet: the money of a payment is mirrored at most
\* once and, when nothing was lost or overtaken, is what was captured less what was
\* refunded (see Mirroring).
MoneyFollowsPayment == part = "money" => M!MirroredOnce /\ M!HeldIsNetUnlessDisturbed

Symmetry == Permutations(Workers) \cup Permutations(Refunds)

=============================================================================
