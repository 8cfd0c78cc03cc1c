------------------------------- MODULE Orders --------------------------------
(***************************************************************************)
(* MultiCheckoutService, the customer's, merchant's and admin's order      *)
(* services and OrderPaymentListener: a checkout places orders at quoted   *)
(* prices, their payments are asked for and reported by events, and three  *)
(* services move an order's status, each by its own rules.  All read the   *)
(* order and write it by id later.  Amounts are in Pricing; lines, stores, *)
(* age checks, notifications and the proof of delivery are left out.       *)
(***************************************************************************)
EXTENDS Naturals, FiniteSets

CONSTANTS
  Workers,      \* requests and event handlers that may be in flight at once
  Orders,       \* ids of the orders that may be placed
  None,         \* no order
  Targets,      \* bound: statuses that requests ask for
  MaxOps,       \* bound: requests and events received
  MaxFaults     \* bound: requests that die between two awaits

VARIABLES
  orders,     \* the rows: [Orders -> [status, pay]]
  trail,      \* the latest row of each order's status history
  reviews,    \* store reviews each order's customer has written
  consumed,   \* the one price quote has its consumed_at
  priced,     \* orders placed at that quote's price
  payment,    \* each order's payment at the gateway (external)
  published,  \* payment events published so far: <<order, kind>>
  op,         \* the request of each worker
  left, faults

vars == <<orders, trail, reviews, consumed, priced, payment, published, op, left, faults>>

Statuses == {"PENDING_PAYMENT", "PAID", "ACCEPTED", "PREPARING", "READY", "PICKED_UP",
             "ON_THE_WAY", "DELIVERED", "CANCELLED", "FAILED"}

MerchantTransitions ==
  [ PAID       |-> {"ACCEPTED", "CANCELLED"},
    ACCEPTED   |-> {"PREPARING", "READY", "CANCELLED"},
    PREPARING  |-> {"READY", "CANCELLED"},
    READY      |-> {"PICKED_UP", "ON_THE_WAY"},
    PICKED_UP  |-> {"ON_THE_WAY", "DELIVERED"},
    ON_THE_WAY |-> {"DELIVERED"} ]

CustomerCancellable == {"PENDING_PAYMENT", "PAID", "ACCEPTED"}

Payable == {"PENDING_PAYMENT", "ACCEPTED"}

Absent == [status |-> "NEW", pay |-> "PENDING"]

NoTrail == [from |-> "NEW", to |-> "NEW"]

\* by is the actor type of a status change, as its history row keeps it.
Idle == [pc |-> "idle", order |-> None, from |-> "NEW", to |-> "NEW", by |-> "USER",
         size |-> 0, quoted |-> 0]

Init ==
  /\ orders = [i \in Orders |-> Absent] /\ trail = [i \in Orders |-> NoTrail]
  /\ reviews = [i \in Orders |-> 0]
  /\ consumed = FALSE /\ priced = {}
  /\ payment = [i \in Orders |-> "none"] /\ published = {}
  /\ op = [w \in Workers |-> Idle]
  /\ left = MaxOps /\ faults = MaxFaults

Exists(i) == orders[i].status # "NEW"

At(w, pc) == op[w].pc = pc

Become(w, self) == op' = [op EXCEPT ![w] = self]

Done(w) == Become(w, Idle)

Accept(w, self) ==
  /\ At(w, "idle") /\ left > 0 /\ left' = left - 1
  /\ Become(w, self)
  /\ UNCHANGED <<orders, trail, reviews, consumed, priced, payment, published, faults>>

-----------------------------------------------------------------------------
\* place: every vendor order's quote is looked up before any is consumed.

\* Mutation: the consumed_at of the quote is not looked at.
AnyQuote == TRUE

Usable == ~consumed

PlaceStart(w, size, quoted) ==
  /\ quoted <= size /\ (quoted > 0 => Usable)
  /\ Accept(w, [Idle EXCEPT !.pc = "place", !.size = size, !.quoted = quoted])

Placed == [status |-> "PENDING_PAYMENT", pay |-> "PENDING"]

\* One transaction creates the orders, their first history rows, and marks the
\* quotes.  A single order may go on to its payment at once.
PlaceRows(w, new, cheap, stk) ==
  /\ At(w, "place")
  /\ Cardinality(new) = op[w].size /\ \A i \in new : ~Exists(i)
  /\ cheap \subseteq new /\ Cardinality(cheap) = op[w].quoted
  /\ orders' = [i \in Orders |-> IF i \in new THEN Placed ELSE orders[i]]
  /\ trail' = [i \in Orders |-> IF i \in new THEN [from |-> "NEW", to |-> Placed.status]
                                ELSE trail[i]]
  /\ priced' = priced \cup cheap /\ consumed' = (consumed \/ cheap # {})
  /\ IF stk /\ op[w].size = 1
     THEN \E i \in new : Become(w, [Idle EXCEPT !.pc = "pay", !.order = i])
     ELSE Done(w)
  /\ UNCHANGED <<reviews, payment, published, left, faults>>

-----------------------------------------------------------------------------
\* initiateOrderPayment: the gateway is awaited between the check and the write.

Unpaid(i) == orders[i].status # "PAID" /\ orders[i].pay # "SUCCESS"

PayStart(w, i) ==
  /\ Unpaid(i) /\ orders[i].status \in Payable
  /\ Accept(w, [Idle EXCEPT !.pc = "gateway", !.order = i])

PayRead(w) ==
  LET i == op[w].order IN
  /\ At(w, "pay")
  /\ IF Unpaid(i) /\ orders[i].status \in Payable
     THEN Become(w, [op[w] EXCEPT !.pc = "gateway"])
     ELSE Done(w)
  /\ UNCHANGED <<orders, trail, reviews, consumed, priced, payment, published, left, faults>>

\* createAndInitiate: the order's key makes it answer with the payment there is.
Initiate(w) ==
  LET i == op[w].order IN
  /\ At(w, "gateway")
  /\ payment' = IF payment[i] = "none" THEN [payment EXCEPT ![i] = "asked"] ELSE payment
  /\ IF payment[i] = "failed" THEN Done(w)
     ELSE Become(w, [op[w] EXCEPT !.pc = "pay_write"])
  /\ UNCHANGED <<orders, trail, reviews, consumed, priced, published, left, faults>>

PayWrite(w) ==
  /\ At(w, "pay_write") /\ Done(w)
  /\ orders' = [orders EXCEPT ![op[w].order].pay = "PROCESSING"]
  /\ UNCHANGED <<trail, reviews, consumed, priced, payment, published, left, faults>>

\* What PaymentsService makes of the gateway's answers, and what it publishes.
Settle(i, to) ==
  /\ payment[i] = "asked"
  /\ payment' = [payment EXCEPT ![i] = to] /\ published' = published \cup {<<i, to>>}
  /\ UNCHANGED <<orders, trail, reviews, consumed, priced, op, left, faults>>

\* The customer retries a failed payment; its order is not touched.
Retry(i) ==
  /\ payment[i] = "failed" /\ left > 0 /\ left' = left - 1
  /\ payment' = [payment EXCEPT ![i] = "asked"]
  /\ UNCHANGED <<orders, trail, reviews, consumed, priced, published, op, faults>>

-----------------------------------------------------------------------------
\* OrderPaymentListener.  An event may be published, and so handled, twice.

NextStatus(status) == IF status = "PENDING_PAYMENT" THEN "PAID" ELSE status

CompletedStart(w, i) ==
  /\ <<i, "completed">> \in published /\ Unpaid(i)
  /\ Accept(w, [Idle EXCEPT !.pc = "confirm", !.order = i, !.from = orders[i].status])

\* Mutation: the failure is written whatever the order says.
EvenIfPaid(i) == TRUE

NotSettled(i) == orders[i].pay # "SUCCESS"

FailedStart(w, i) ==
  /\ <<i, "failed">> \in published /\ NotSettled(i)
  /\ Accept(w, [Idle EXCEPT !.pc = "fail", !.order = i])

FailWrite(w) ==
  /\ At(w, "fail") /\ Done(w)
  /\ orders' = [orders EXCEPT ![op[w].order].pay = "FAILED"]
  /\ UNCHANGED <<trail, reviews, consumed, priced, payment, published, left, faults>>

-----------------------------------------------------------------------------
\* Status changes by the merchant, an admin and the customer.

AdminAllowed(status, to) == to = "ACCEPTED" => status \in {"PENDING_PAYMENT", "PAID"}

MerchantAllowed(status, to) ==
  status \in DOMAIN MerchantTransitions /\ to \in MerchantTransitions[status]

CustomerAllowed(i, to) ==
  to = "CANCELLED" /\ orders[i].status \in CustomerCancellable /\ NotSettled(i)

UpdateStart(w, i, to, by) ==
  LET status == orders[i].status IN
  /\ Exists(i)
  /\ IF by = "ADMIN" THEN AdminAllowed(status, to)
     ELSE MerchantAllowed(status, to) \/ CustomerAllowed(i, to)
  /\ Accept(w, [Idle EXCEPT !.pc = "update", !.order = i, !.from = status, !.to = to,
                            !.by = by])

Recorded(old, i, row) == [old EXCEPT ![i] = row]

Confirm(w) ==
  LET i == op[w].order
      next == NextStatus(op[w].from)
  IN /\ At(w, "confirm") /\ Done(w)
     /\ orders' = [orders EXCEPT ![i] = [status |-> next, pay |-> "SUCCESS"]]
     /\ trail' = Recorded(trail, i, [from |-> op[w].from, to |-> next])
     /\ UNCHANGED <<reviews, consumed, priced, payment, published, left, faults>>

UpdateWrite(w) ==
  LET i == op[w].order IN
  /\ At(w, "update") /\ Done(w)
  /\ orders' = [orders EXCEPT ![i].status = op[w].to]
  /\ trail' = Recorded(trail, i, [from |-> op[w].from, to |-> op[w].to])
  /\ UNCHANGED <<reviews, consumed, priced, payment, published, left, faults>>

-----------------------------------------------------------------------------
\* rate: one review of the store by the order's customer.

Unrated(i) == reviews[i] = 0

RateStart(w, i) ==
  /\ orders[i].status = "DELIVERED" /\ Unrated(i)
  /\ Accept(w, [Idle EXCEPT !.pc = "rate", !.order = i, !.from = "DELIVERED"])

Rate(w) ==
  LET i == op[w].order IN
  /\ At(w, "rate") /\ Become(w, [op[w] EXCEPT !.pc = "rated"])
  /\ reviews' = [reviews EXCEPT ![i] = @ + 1]
  /\ UNCHANGED <<orders, trail, consumed, priced, payment, published, left, faults>>

RateTrail(w) ==
  /\ At(w, "rated") /\ Done(w)
  /\ trail' = Recorded(trail, op[w].order, [from |-> op[w].from, to |-> op[w].from])
  /\ UNCHANGED <<orders, reviews, consumed, priced, payment, published, left, faults>>

\* The process dies, or an awaited call fails.
Die(w) ==
  /\ ~At(w, "idle") /\ faults > 0 /\ faults' = faults - 1
  /\ Done(w)
  /\ UNCHANGED <<orders, trail, reviews, consumed, priced, payment, published, left>>

-----------------------------------------------------------------------------
Arrives(w) ==
  \/ \E size \in 1..2, quoted \in 0..2 : PlaceStart(w, size, quoted)
  \/ \E i \in Orders :
       \/ PayStart(w, i) \/ CompletedStart(w, i) \/ FailedStart(w, i) \/ RateStart(w, i)
       \/ \E to \in Targets, by \in {"USER", "ADMIN"} : UpdateStart(w, i, to, by)

Step(w) ==
  \/ \E new, cheap \in SUBSET Orders, stk \in BOOLEAN : PlaceRows(w, new, cheap, stk)
  \/ PayRead(w) \/ Initiate(w) \/ PayWrite(w)
  \/ Confirm(w) \/ FailWrite(w) \/ UpdateWrite(w) \/ Rate(w) \/ RateTrail(w)

Next ==
  \/ \E w \in Workers : Arrives(w) \/ Step(w) \/ Die(w)
  \/ \E i \in Orders : Settle(i, "completed") \/ Settle(i, "failed") \/ Retry(i)

Spec == Init /\ [][Next]_vars

-----------------------------------------------------------------------------
Known == Statuses \cup {"NEW"}

Request == [pc : {"idle", "place", "pay", "gateway", "pay_write", "confirm", "fail",
                  "update", "rate", "rated"},
            order : Orders \cup {None}, from : Known, to : Known, by : {"USER", "ADMIN"},
            size : 0..2, quoted : 0..2]

\* The rows, the history and the requests have their shapes.
TypeOK ==
  /\ orders \in [Orders -> [status : Known, pay : {"PENDING", "PROCESSING", "SUCCESS", "FAILED"}]]
  /\ trail \in [Orders -> [from : Known, to : Known]]
  /\ reviews \in [Orders -> 0..MaxOps]
  /\ consumed \in BOOLEAN /\ priced \subseteq Orders
  /\ payment \in [Orders -> {"none", "asked", "completed", "failed"}]
  /\ published \subseteq Orders \X {"completed", "failed"}
  /\ op \in [Workers -> Request]
  /\ left \in 0..MaxOps /\ faults \in 0..MaxFaults

=============================================================================
