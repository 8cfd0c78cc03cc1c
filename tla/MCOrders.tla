------------------------------ MODULE MCOrders -------------------------------
(***************************************************************************)
(* Orders with the start states TLC begins from, and history variables for *)
(* the overlaps in which the code gives up its guarantees.                 *)
(***************************************************************************)
EXTENDS Orders

CONSTANTS Order1

VARIABLES
  mixed,   \* orders on which two requests or handlers overlapped
  handled, \* orders an admin has moved
  shared   \* the quote was looked up again before its first use was written

MCVars == <<vars, mixed, handled, shared>>

Overlapped(i) ==
  \E v, w \in Workers : v # w /\ op[v].order = i /\ op[w].order = i

QuotesInUse ==
  \/ \E w \in Workers : op[w].quoted = 2
  \/ \E v, w \in Workers : v # w /\ op[v].quoted > 0 /\ op[w].quoted > 0

Delivered == [status |-> "DELIVERED", pay |-> "SUCCESS"]

\* An order just placed, one whose failed payment is being retried, one accepted
\* unpaid, one delivered, or none.
Starts ==
  { Absent, Placed, [Placed EXCEPT !.pay = "FAILED"], [Placed EXCEPT !.status = "ACCEPTED"],
    Delivered }

PaymentOf(pay) ==
  CASE pay = "SUCCESS" -> "completed" [] pay = "FAILED" -> "asked" [] OTHER -> "none"

MCInit ==
  \E row \in Starts :
    /\ orders = [i \in Orders |-> IF i = Order1 THEN row ELSE Absent]
    /\ trail = [i \in Orders |-> [from |-> orders[i].status, to |-> orders[i].status]]
    /\ reviews = [i \in Orders |-> 0]
    /\ consumed = FALSE /\ priced = {}
    /\ payment = [i \in Orders |-> PaymentOf(orders[i].pay)]
    /\ published = {<<i, "completed">> : i \in {j \in Orders : payment[j] = "completed"}}
                   \cup {<<i, "failed">> : i \in {j \in Orders : payment[j] = "asked"}}
    /\ op = [w \in Workers |-> Idle]
    /\ left = MaxOps /\ faults = MaxFaults
    /\ mixed = {} /\ shared = FALSE
    /\ handled = {i \in Orders : orders[i].status = "ACCEPTED"}

MCNext ==
  /\ Next
  /\ mixed' = mixed \cup {i \in Orders : Overlapped(i)'}
  /\ handled' = handled \cup
       {op[w].order : w \in {v \in Workers : At(v, "update") /\ op[v].by = "ADMIN"}}
  /\ shared' = (shared \/ QuotesInUse')

MCSpec == MCInit /\ [][MCNext]_MCVars

\* A price quote prices one order (pricing quotes are single-use: consumed_at), as
\* long as no checkout looks the quote up while another is about to use it and none
\* names it for two of its vendors: the look-up and the mark are separate steps.
QuoteOnceUnlessShared == shared \/ Cardinality(priced) <= 1

\* The customer's money stays on the order and the workflow never goes back: once
\* SUCCESS is recorded no later request or payment event takes it away, and an event
\* moves an order only from PENDING_PAYMENT to PAID ("Don't regress a workflow
\* status"), whatever the order of events, unless handlers overlapped on the order.
PaymentKept ==
  \A i \in Orders :
    \/ i \in mixed'
    \/ /\ orders[i].pay = "SUCCESS" => orders'[i].pay = "SUCCESS"
       /\ orders[i].pay # orders'[i].pay /\ orders[i].status \notin {orders'[i].status, "NEW"}
            => orders[i].status = "PENDING_PAYMENT"

\* The status history is a chain that ends in the order's status: each new row starts
\* from the status the row before it ended in, whichever of the four services wrote
\* them, unless two of them overlapped on the order.
HistoryChained ==
  \A i \in Orders \ mixed' :
    /\ orders'[i].status # orders[i].status => trail'[i].to = orders'[i].status
    /\ trail'[i] # trail[i] => trail'[i].from = orders[i].status

\* A delivered order's store is reviewed once by its customer, unless two ratings
\* overlap: the earlier review is looked for before the new one is created.
ReviewedOnceUnlessMixed == \A i \in Orders \ mixed : reviews[i] <= 1

Served == {"ACCEPTED", "PREPARING", "READY", "PICKED_UP", "ON_THE_WAY", "DELIVERED"}

\* The merchant never accepts, prepares or hands over an order whose payment has not
\* completed: acceptance before it is an admin's decision (the customer may pay an
\* ACCEPTED order), and nothing else, however requests and events overlap, moves an
\* unpaid order on.
PaidBeforeServed ==
  \A i \in Orders \ handled : orders[i].status \in Served => <<i, "completed">> \in published

=============================================================================
