------------------------------ MODULE Bookings -------------------------------
(***************************************************************************)
(* EventBookingService, AdminEventsService and EventBookingPaymentListener *)
(* for one event with one ticket type: customers buy and pay, unpaid       *)
(* bookings reserve capacity, and payment events turn them into tickets.   *)
(* Transactions are READ COMMITTED: each statement sees what is committed  *)
(* when it runs, and what a transaction writes appears at its commit.      *)
(* Categories, event details, QR codes and messages are left out.          *)
(***************************************************************************)
EXTENDS Naturals, FiniteSets, FiniteSetsExt

CONSTANTS
  Workers,      \* requests and event handlers that may be in flight at once
  Bookings,     \* ids of the bookings that may be created
  None,         \* no booking
  Quantities,   \* quantities customers ask for
  Capacities,   \* capacities the admin may set
  MaxOps,       \* bound: requests and events received
  MaxFaults     \* bound: requests that die between two awaits

VARIABLES
  event,      \* status of the event; ARCHIVED stands for deleted
  type,       \* the ticket type: [total, sold, free, active]
  bookings,   \* the rows: [Bookings -> [status, pay, quantity, free]]
  tickets,    \* number of tickets of each booking
  payment,    \* each booking's payment at the gateway (external)
  published,  \* payment events published so far: <<booking, kind>>
  op,         \* the request of each worker
  left, faults

vars == <<event, type, bookings, tickets, payment, published, op, left, faults>>

Absent == [status |-> "NEW", pay |-> "PENDING", quantity |-> 0, free |-> FALSE]

Idle == [pc |-> "idle", booking |-> None, quantity |-> 0, seen |-> 0, free |-> FALSE]

Init ==
  /\ event \in {"DRAFT", "PUBLISHED"}
  /\ type \in [total : Capacities, sold : {0}, free : BOOLEAN, active : {TRUE}]
  /\ bookings = [b \in Bookings |-> Absent] /\ tickets = [b \in Bookings |-> 0]
  /\ payment = [b \in Bookings |-> "none"] /\ published = {}
  /\ op = [w \in Workers |-> Idle]
  /\ left = MaxOps /\ faults = MaxFaults

At(w, pc) == op[w].pc = pc

Become(w, self) == op' = [op EXCEPT ![w] = self]

Done(w) == Become(w, Idle)

Spend == left > 0 /\ left' = left - 1

Accept(w, self) ==
  /\ At(w, "idle") /\ Spend
  /\ Become(w, self)
  /\ UNCHANGED <<event, type, bookings, tickets, payment, published, faults>>

-----------------------------------------------------------------------------
\* AdminEventsService: each is one update.

PublishEvent ==
  /\ event # "ARCHIVED" /\ Spend /\ event' = "PUBLISHED"
  /\ UNCHANGED <<type, bookings, tickets, payment, published, op, faults>>

DeleteEvent ==
  /\ event # "ARCHIVED" /\ Spend /\ event' = "ARCHIVED"
  /\ UNCHANGED <<type, bookings, tickets, payment, published, op, faults>>

UpdateTicketType(total, free, active) ==
  /\ event # "ARCHIVED" /\ Spend
  /\ type' = [type EXCEPT !.total = total, !.free = free, !.active = active]
  /\ UNCHANGED <<event, bookings, tickets, payment, published, op, faults>>

-----------------------------------------------------------------------------
\* buy: one transaction of three reads and the writes.

Reserved ==
  MapThenSumSet(LAMBDA b : bookings[b].quantity,
                {b \in Bookings : bookings[b].status = "PENDING_PAYMENT"})

\* The ticket type is read: seen is what is left of it before reservations.
BuyStart(w, quantity) ==
  /\ event = "PUBLISHED" /\ type.active
  /\ type.total >= type.sold
  /\ Accept(w, [Idle EXCEPT !.pc = "reserve", !.quantity = quantity, !.free = type.free,
                            !.seen = type.total - type.sold])

BuyCheck(w) ==
  /\ At(w, "reserve")
  /\ IF op[w].quantity + Reserved <= op[w].seen
     THEN Become(w, [op[w] EXCEPT !.pc = "buy"])
     ELSE Done(w)
  /\ UNCHANGED <<event, type, bookings, tickets, payment, published, left, faults>>

BuyCommit(w, b) ==
  LET free == op[w].free
      n    == op[w].quantity
  IN /\ At(w, "buy") /\ bookings[b] = Absent
     /\ bookings' = [bookings EXCEPT ![b] =
          [status |-> IF free THEN "PAID" ELSE "PENDING_PAYMENT",
           pay |-> IF free THEN "SUCCESS" ELSE "PENDING", quantity |-> n, free |-> free]]
     /\ type' = IF free THEN [type EXCEPT !.sold = @ + n] ELSE type
     /\ tickets' = IF free THEN [tickets EXCEPT ![b] = n] ELSE tickets
     /\ \/ ~free /\ Become(w, [Idle EXCEPT !.pc = "pay", !.booking = b])
        \/ Done(w)
     /\ UNCHANGED <<event, payment, published, left, faults>>

-----------------------------------------------------------------------------
\* pay: the gateway is awaited between the check and the write.

PayStart(w, b) ==
  /\ bookings[b].status = "PENDING_PAYMENT"
  /\ Accept(w, [Idle EXCEPT !.pc = "gateway", !.booking = b])

PayRead(w) ==
  /\ At(w, "pay")
  /\ IF bookings[op[w].booking].status = "PENDING_PAYMENT"
     THEN Become(w, [op[w] EXCEPT !.pc = "gateway"])
     ELSE Done(w)
  /\ UNCHANGED <<event, type, bookings, tickets, payment, published, left, faults>>

\* createAndInitiate: the booking's key makes it answer with the payment there is.
Initiate(w) ==
  LET b == op[w].booking IN
  /\ At(w, "gateway")
  /\ payment' = IF payment[b] = "none" THEN [payment EXCEPT ![b] = "asked"] ELSE payment
  /\ IF payment[b] = "failed" THEN Done(w)
     ELSE Become(w, [op[w] EXCEPT !.pc = "pay_write"])
  /\ UNCHANGED <<event, type, bookings, tickets, published, left, faults>>

PayWrite(w) ==
  /\ At(w, "pay_write") /\ Done(w)
  /\ bookings' = [bookings EXCEPT ![op[w].booking].pay = "PROCESSING"]
  /\ UNCHANGED <<event, type, tickets, payment, published, left, faults>>

Settle(b, to) ==
  /\ payment[b] = "asked"
  /\ payment' = [payment EXCEPT ![b] = to] /\ published' = published \cup {<<b, to>>}
  /\ UNCHANGED <<event, type, bookings, tickets, op, left, faults>>

\* The customer retries a failed payment; its booking is not touched.
Retry(b) ==
  /\ payment[b] = "failed" /\ Spend
  /\ payment' = [payment EXCEPT ![b] = "asked"]
  /\ UNCHANGED <<event, type, bookings, tickets, published, op, faults>>

-----------------------------------------------------------------------------
\* EventBookingPaymentListener.  The completion's transaction locks the booking
\* row with its first write, so it sees what another completion committed.

CompletedStart(w, b) ==
  /\ <<b, "completed">> \in published /\ bookings[b].status # "PAID"
  /\ Accept(w, [Idle EXCEPT !.pc = "confirm", !.booking = b])

\* Mutation: tickets are issued whether or not the booking has some.
AlwaysIssue(b) == TRUE

NoTickets(b) == tickets[b] = 0

Confirm(w) ==
  LET b == op[w].booking
      n == IF NoTickets(b) THEN bookings[b].quantity ELSE 0
  IN /\ At(w, "confirm") /\ Done(w)
     /\ bookings' = [bookings EXCEPT ![b].status = "PAID", ![b].pay = "SUCCESS"]
     /\ type' = [type EXCEPT !.sold = @ + n]
     /\ tickets' = [tickets EXCEPT ![b] = @ + n]
     /\ UNCHANGED <<event, payment, published, left, faults>>

FailedStart(w, b) ==
  /\ <<b, "failed">> \in published /\ bookings[b].status # "PAID"
  /\ Accept(w, [Idle EXCEPT !.pc = "fail", !.booking = b])

FailWrite(w) ==
  /\ At(w, "fail") /\ Done(w)
  /\ bookings' = [bookings EXCEPT ![op[w].booking].pay = "FAILED"]
  /\ UNCHANGED <<event, type, tickets, payment, published, left, faults>>

\* The process dies, or an awaited call fails; an open transaction rolls back.
Die(w) ==
  /\ ~At(w, "idle") /\ faults > 0 /\ faults' = faults - 1
  /\ Done(w)
  /\ UNCHANGED <<event, type, bookings, tickets, payment, published, left>>

-----------------------------------------------------------------------------
Admin ==
  \/ PublishEvent \/ DeleteEvent
  \/ \E total \in Capacities, free, active \in BOOLEAN : UpdateTicketType(total, free, active)

Arrives(w) ==
  \/ \E n \in Quantities : BuyStart(w, n)
  \/ \E b \in Bookings : PayStart(w, b) \/ CompletedStart(w, b) \/ FailedStart(w, b)

Step(w) ==
  \/ BuyCheck(w) \/ \E b \in Bookings : BuyCommit(w, b)
  \/ PayRead(w) \/ Initiate(w) \/ PayWrite(w)
  \/ Confirm(w) \/ FailWrite(w)

Next ==
  \/ \E w \in Workers : Arrives(w) \/ Step(w) \/ Die(w)
  \/ Admin
  \/ \E b \in Bookings : Settle(b, "completed") \/ Settle(b, "failed") \/ Retry(b)

Spec == Init /\ [][Next]_vars

-----------------------------------------------------------------------------
Row == [status : {"NEW", "PENDING_PAYMENT", "PAID"},
        pay : {"PENDING", "PROCESSING", "SUCCESS", "FAILED"},
        quantity : Nat, free : BOOLEAN]

Request == [pc : {"idle", "reserve", "buy", "pay", "gateway", "pay_write", "confirm", "fail"},
            booking : Bookings \cup {None}, quantity : Nat, seen : Nat, free : BOOLEAN]

\* The event, its ticket type, the rows and the requests have their shapes.
TypeOK ==
  /\ event \in {"DRAFT", "PUBLISHED", "ARCHIVED"}
  /\ type \in [total : Nat, sold : Nat, free : BOOLEAN, active : BOOLEAN]
  /\ bookings \in [Bookings -> Row] /\ tickets \in [Bookings -> Nat]
  /\ payment \in [Bookings -> {"none", "asked", "completed", "failed"}]
  /\ published \subseteq Bookings \X {"completed", "failed"}
  /\ op \in [Workers -> Request]
  /\ left \in 0..MaxOps /\ faults \in 0..MaxFaults

\* Tickets, sales and money agree however often, and however concurrently, a
\* completion is delivered: a booking has its quantity of tickets exactly when it is
\* PAID, soldQty is the number of tickets issued, and a PAID booking was free or its
\* payment completed.
TicketsMatchSales ==
  /\ \A b \in Bookings :
       /\ tickets[b] = IF bookings[b].status = "PAID" THEN bookings[b].quantity ELSE 0
       /\ bookings[b].status = "PAID" => bookings[b].free \/ <<b, "completed">> \in published
  /\ type.sold = MapThenSumSet(LAMBDA b : tickets[b], Bookings)
-----------------------------------------------------------------------------
\* A history variable for the overlaps in which capacity may be sold twice.
VARIABLES
  raced   \* a purchase overlapped another or a completion, or the capacity was lowered

MCVars == <<vars, raced>>

Buying(w) == op[w].pc \in {"reserve", "buy"}

Overlapped ==
  \E v, w \in Workers : v # w /\ Buying(v) /\ (Buying(w) \/ At(w, "confirm"))

MCInit == Init /\ raced = FALSE

MCNext ==
  /\ Next
  /\ raced' = (raced \/ Overlapped' \/ type'.total < type.total)

MCSpec == MCInit /\ [][MCNext]_MCVars

\* What is sold and what unpaid bookings reserve stays within the capacity ("to
\* prevent overselling"), through payments that fail, are retried and complete late,
\* unless purchases overlapped: the reads lock nothing.
NotOversoldUnlessRaced == raced \/ type.sold + Reserved <= type.total
=============================================================================
