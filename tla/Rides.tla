-------------------------------- MODULE Rides --------------------------------
(***************************************************************************)
(* RidesService, RideDispatchService and RidePaymentListener: a customer   *)
(* creates, pays and cancels rides, dispatch gives each a rider, riders    *)
(* and admins move it along, and events of its payment arrive.  A handler  *)
(* reads the ride, decides, and writes it by id in a later step; only the  *)
(* automatic claim is conditional.  Distances, fares, ratings, share       *)
(* tokens, notifications and the proof of delivery are left out.           *)
(***************************************************************************)
EXTENDS Naturals, FiniteSets

CONSTANTS
  Workers,      \* requests and event handlers that may be in flight at once
  Rides,        \* ids of the rides that may be created
  Riders,
  None,         \* no rider, no ride
  MaxOps,       \* bound: requests and events received
  MaxFaults     \* bound: requests that die between two awaits

VARIABLES
  rides,      \* the rows: [Rides -> [status, pay, rider, payFirst]]
  available,  \* riders with is_available = TRUE
  consumed,   \* the one price quote has its consumed_at
  priced,     \* rides created at that quote's price
  payment,    \* each ride's payment at the gateway (external)
  published,  \* payment events published so far: <<ride, kind>>
  op,         \* the request of each worker
  left, faults

vars == <<rides, available, consumed, priced, payment, published, op, left, faults>>

Transitions ==
  [ PENDING_PAYMENT |-> {"SEARCHING", "CANCELLED", "FAILED"},
    SEARCHING       |-> {"ASSIGNED", "CANCELLED", "FAILED"},
    ASSIGNED        |-> {"ARRIVING", "REJECTED", "CANCELLED"},
    REJECTED        |-> {"SEARCHING", "CANCELLED", "FAILED"},
    ARRIVING        |-> {"IN_PROGRESS", "CANCELLED"},
    IN_PROGRESS     |-> {"COMPLETED", "CANCELLED"},
    COMPLETED       |-> {}, CANCELLED |-> {}, FAILED |-> {} ]

Statuses == DOMAIN Transitions

Allowed(from, to) == to \in Transitions[from]

Terminal == {"COMPLETED", "CANCELLED", "FAILED"}

UnpaidCancellable == {"PENDING_PAYMENT", "SEARCHING"}

Assignable == {"SEARCHING", "ASSIGNED"}

Absent == [status |-> "NEW", pay |-> "PENDING", rider |-> None, payFirst |-> FALSE]

\* status and rider are what the request has read of its ride.
Idle == [pc |-> "idle", ride |-> None, status |-> "NEW", rider |-> None, pick |-> None,
         to |-> "SEARCHING", quoted |-> FALSE]

Init ==
  /\ rides = [i \in Rides |-> Absent]
  /\ available \in SUBSET Riders
  /\ consumed = FALSE /\ priced = {}
  /\ payment = [i \in Rides |-> "none"] /\ published = {}
  /\ op = [w \in Workers |-> Idle]
  /\ left = MaxOps /\ faults = MaxFaults

Exists(i) == rides[i].status # "NEW"

At(w, pc) == op[w].pc = pc

Become(w, self) == op' = [op EXCEPT ![w] = self]

Continue(w, pc) == Become(w, [op[w] EXCEPT !.pc = pc])

Done(w) == Become(w, Idle)

\* A request arrives; nothing is written yet.
Accept(w, self) ==
  /\ At(w, "idle") /\ left > 0 /\ left' = left - 1
  /\ Become(w, self)
  /\ UNCHANGED <<rides, available, consumed, priced, payment, published, faults>>

Others == <<consumed, priced, payment, published, left, faults>>

-----------------------------------------------------------------------------
\* createAndPay and request, through createRideRow.

CreateStart(w, payFirst, quoted) ==
  /\ payFirst \/ available # {}
  /\ quoted => ~consumed
  /\ Accept(w, [Idle EXCEPT !.pc = IF quoted THEN "consume" ELSE "create",
                            !.to = IF payFirst THEN "PENDING_PAYMENT" ELSE "SEARCHING",
                            !.quoted = quoted])

Consume(w) ==
  /\ At(w, "consume") /\ consumed' = TRUE
  /\ Continue(w, "create")
  /\ UNCHANGED <<rides, available, priced, payment, published, left, faults>>

CreateRow(w, i) ==
  LET first == op[w].to = "PENDING_PAYMENT" IN
  /\ At(w, "create") /\ ~Exists(i)
  /\ rides' = [rides EXCEPT ![i] =
                 [Absent EXCEPT !.status = op[w].to, !.payFirst = first]]
  /\ priced' = IF op[w].quoted THEN priced \cup {i} ELSE priced
  /\ Become(w, [Idle EXCEPT !.pc = IF first THEN "pay" ELSE "dispatch", !.ride = i])
  /\ UNCHANGED <<available, consumed, payment, published, left, faults>>

-----------------------------------------------------------------------------
\* pay and retryPayment: the gateway is awaited between the check and the write.

Payable(i) == rides[i].pay # "SUCCESS" /\ rides[i].status \notin Terminal

PayStart(w, i) ==
  /\ Exists(i) /\ Payable(i)
  /\ Accept(w, [Idle EXCEPT !.pc = "gateway", !.ride = i])

RetryStart(w, i) ==
  /\ Exists(i) /\ Payable(i) /\ payment[i] # "none"
  /\ Accept(w, [Idle EXCEPT !.pc = "retry", !.ride = i])

\* The second half of createAndPay reads the ride again.
PayRead(w) ==
  /\ At(w, "pay")
  /\ IF Payable(op[w].ride) THEN Continue(w, "gateway") ELSE Done(w)
  /\ UNCHANGED <<rides, available, Others>>

\* createAndInitiate: the ride's key makes it answer with the payment there is.
Initiate(w) ==
  LET i == op[w].ride IN
  /\ At(w, "gateway")
  /\ payment' = IF payment[i] = "none" THEN [payment EXCEPT ![i] = "asked"] ELSE payment
  /\ IF payment[i] = "failed" THEN Done(w) ELSE Continue(w, "pay_write")
  /\ UNCHANGED <<rides, available, consumed, priced, published, left, faults>>

\* payments.retry throws unless the payment is FAILED.
Reinitiate(w) ==
  LET i == op[w].ride IN
  /\ At(w, "retry")
  /\ IF payment[i] = "failed"
     THEN payment' = [payment EXCEPT ![i] = "asked"] /\ Continue(w, "pay_write")
     ELSE Done(w) /\ UNCHANGED payment
  /\ UNCHANGED <<rides, available, consumed, priced, published, left, faults>>

PayWrite(w) ==
  /\ At(w, "pay_write") /\ Done(w)
  /\ rides' = [rides EXCEPT ![op[w].ride].pay = "PROCESSING"]
  /\ UNCHANGED <<available, Others>>

\* What PaymentsService makes of the gateway's answers, and what it publishes.
Settle(i, from, to) ==
  /\ payment[i] = from
  /\ payment' = [payment EXCEPT ![i] = to]
  /\ published' = published \cup {<<i, to>>}
  /\ UNCHANGED <<rides, available, consumed, priced, op, left, faults>>

-----------------------------------------------------------------------------
\* RidePaymentListener.  A payment that completes twice is published twice.

NextStatus(status) == IF status = "PENDING_PAYMENT" THEN "SEARCHING" ELSE status

CompletedStart(w, i) ==
  /\ <<i, "completed">> \in published /\ rides[i].pay # "SUCCESS"
  /\ Accept(w, [Idle EXCEPT !.pc = "confirm", !.ride = i, !.status = rides[i].status])

Confirm(w) ==
  LET next == NextStatus(op[w].status) IN
  /\ At(w, "confirm")
  /\ rides' = [rides EXCEPT ![op[w].ride].pay = "SUCCESS", ![op[w].ride].status = next]
  /\ IF next = "SEARCHING"
     THEN Become(w, [Idle EXCEPT !.pc = "dispatch", !.ride = op[w].ride])
     ELSE Done(w)
  /\ UNCHANGED <<available, Others>>

FailedStart(w, i) ==
  /\ <<i, "failed">> \in published /\ rides[i].pay # "SUCCESS"
  /\ Accept(w, [Idle EXCEPT !.pc = "fail", !.ride = i])

\* Mutation: the failure handler moves the ride on, as the completion handler does.
FailureConfirms(w) ==
  /\ At(w, "fail") /\ Done(w)
  /\ rides' = [rides EXCEPT ![op[w].ride].pay = "FAILED", ![op[w].ride].status = NextStatus(@)]
  /\ UNCHANGED <<available, Others>>

FailWrite(w) ==
  /\ At(w, "fail") /\ Done(w)
  /\ rides' = [rides EXCEPT ![op[w].ride].pay = "FAILED"]
  /\ UNCHANGED <<available, Others>>

Refunded(i) ==
  /\ <<i, "refunded">> \in published /\ left > 0 /\ left' = left - 1
  /\ rides' = [rides EXCEPT ![i].pay = "REFUNDED"]
  /\ UNCHANGED <<available, consumed, priced, payment, published, op, faults>>

-----------------------------------------------------------------------------
\* autoAssignNearest.  Which available rider is nearest is left open.

\* Mutation: the update is by id alone.
AnyRide(i) == TRUE

Unclaimed(i) == rides[i].status = "SEARCHING" /\ rides[i].rider = None

Dispatch(w) ==
  /\ At(w, "dispatch")
  /\ IF Unclaimed(op[w].ride) THEN Continue(w, "nearby") ELSE Done(w)
  /\ UNCHANGED <<rides, available, Others>>

Nearby(w) ==
  /\ At(w, "nearby")
  /\ \/ available = {} /\ Done(w)
     \/ \E r \in available : Become(w, [op[w] EXCEPT !.pc = "claim", !.pick = r])
  /\ UNCHANGED <<rides, available, Others>>

Claim(w) ==
  LET i == op[w].ride IN
  /\ At(w, "claim") /\ Done(w)
  /\ IF Unclaimed(i)
     THEN /\ rides' = [rides EXCEPT ![i].status = "ASSIGNED", ![i].rider = op[w].pick]
          /\ available' = available \ {op[w].pick}
     ELSE UNCHANGED <<rides, available>>
  /\ UNCHANGED Others

-----------------------------------------------------------------------------
\* assignRider, by an admin or through a rider's accept endpoint, which has
\* looked at the ride before.

AcceptStart(w, i, r) ==
  /\ rides[i].status = "SEARCHING" /\ rides[i].rider \in {None, r}
  /\ Accept(w, [Idle EXCEPT !.pc = "assign", !.ride = i, !.pick = r])

AssignStart(w, i, r) ==
  /\ rides[i].status \in Assignable
  /\ Accept(w, [Idle EXCEPT !.pc = "assign_write", !.ride = i, !.pick = r,
                            !.rider = rides[i].rider])

AssignRead(w) ==
  LET i == op[w].ride IN
  /\ At(w, "assign")
  /\ IF rides[i].status \in Assignable
     THEN Become(w, [op[w] EXCEPT !.pc = "assign_write", !.rider = rides[i].rider])
     ELSE Done(w)
  /\ UNCHANGED <<rides, available, Others>>

\* Mutation: the rider who loses the ride is not freed.
KeepsPrevious(previous, rider) == {}

Freed(previous, rider) == {previous} \ {None, rider}

AssignWrite(w) ==
  LET i == op[w].ride
      r == op[w].pick
  IN /\ At(w, "assign_write") /\ Done(w)
     /\ rides' = [rides EXCEPT ![i].status = "ASSIGNED", ![i].rider = r]
     /\ available' = (available \ {r}) \cup Freed(op[w].rider, r)
     /\ UNCHANGED Others

-----------------------------------------------------------------------------
\* updateStatus, by an admin or by the assigned rider, whose requests look at the
\* ride before.

RiderStart(w, i, to) ==
  /\ rides[i].rider # None
  /\ Accept(w, [Idle EXCEPT !.pc = "status", !.ride = i, !.to = to])

UpdateStart(w, i, to) ==
  /\ Exists(i) /\ Allowed(rides[i].status, to)
  /\ Accept(w, [Idle EXCEPT !.pc = "status_write", !.ride = i, !.to = to,
                            !.rider = rides[i].rider])

StatusRead(w) ==
  LET i == op[w].ride IN
  /\ At(w, "status")
  /\ IF Allowed(rides[i].status, op[w].to)
     THEN Become(w, [op[w] EXCEPT !.pc = "status_write", !.rider = rides[i].rider])
     ELSE Done(w)
  /\ UNCHANGED <<rides, available, Others>>

StatusWrite(w) ==
  LET i == op[w].ride
      to == op[w].to
  IN /\ At(w, "status_write")
     /\ rides' = [rides EXCEPT ![i].status = to,
                               ![i].rider = IF to = "REJECTED" THEN None ELSE @]
     /\ available' = IF to \in {"COMPLETED", "CANCELLED"}
                     THEN available \cup Freed(op[w].rider, None)
                     ELSE available
     /\ IF to = "REJECTED"
        THEN Become(w, [Idle EXCEPT !.pc = "status", !.ride = i, !.to = "SEARCHING"])
        ELSE Done(w)
     /\ UNCHANGED Others

-----------------------------------------------------------------------------
\* cancel and cancelUnpaid by the customer: the rider, if any, is not freed.

CancelStart(w, i) ==
  /\ Exists(i) /\ rides[i].status \notin Terminal
  /\ Accept(w, [Idle EXCEPT !.pc = "cancel", !.ride = i])

CancelUnpaidStart(w, i) ==
  /\ rides[i].pay # "SUCCESS" /\ rides[i].status \in UnpaidCancellable
  /\ Accept(w, [Idle EXCEPT !.pc = "cancel", !.ride = i])

CancelWrite(w) ==
  /\ At(w, "cancel") /\ Done(w)
  /\ rides' = [rides EXCEPT ![op[w].ride].status = "CANCELLED"]
  /\ UNCHANGED <<available, Others>>

\* The process dies, or an awaited call fails.
Die(w) ==
  /\ ~At(w, "idle") /\ faults > 0 /\ faults' = faults - 1
  /\ Done(w)
  /\ UNCHANGED <<rides, available, consumed, priced, payment, published, left>>

-----------------------------------------------------------------------------
Arrives(w) ==
  \/ \E payFirst, quoted \in BOOLEAN : CreateStart(w, payFirst, quoted)
  \/ \E i \in Rides :
       \/ PayStart(w, i) \/ RetryStart(w, i)
       \/ CompletedStart(w, i) \/ FailedStart(w, i)
       \/ CancelStart(w, i) \/ CancelUnpaidStart(w, i)
       \/ \E r \in Riders : AcceptStart(w, i, r) \/ AssignStart(w, i, r)
       \/ \E to \in Statuses : RiderStart(w, i, to) \/ UpdateStart(w, i, to)

Step(w) ==
  \/ Consume(w) \/ \E i \in Rides : CreateRow(w, i)
  \/ PayRead(w) \/ Initiate(w) \/ Reinitiate(w) \/ PayWrite(w)
  \/ Confirm(w) \/ FailWrite(w)
  \/ Dispatch(w) \/ Nearby(w) \/ Claim(w)
  \/ AssignRead(w) \/ AssignWrite(w)
  \/ StatusRead(w) \/ StatusWrite(w) \/ CancelWrite(w)

Gateway ==
  \E i \in Rides :
    \/ Settle(i, "asked", "completed") \/ Settle(i, "asked", "failed")
    \/ Settle(i, "completed", "refunded")

Next ==
  \/ \E w \in Workers : Arrives(w) \/ Step(w) \/ Die(w)
  \/ Gateway
  \/ \E i \in Rides : Refunded(i)

Spec == Init /\ [][Next]_vars

-----------------------------------------------------------------------------
Row == [status : Statuses \cup {"NEW"},
        pay : {"PENDING", "PROCESSING", "SUCCESS", "FAILED", "REFUNDED"},
        rider : Riders \cup {None}, payFirst : BOOLEAN]

Request == [pc : {"idle", "consume", "create", "pay", "gateway", "retry", "pay_write",
                  "confirm", "fail", "dispatch", "nearby", "claim", "assign",
                  "assign_write", "status", "status_write", "cancel"},
            ride : Rides \cup {None}, status : Statuses \cup {"NEW"},
            rider : Riders \cup {None}, pick : Riders \cup {None}, to : Statuses, quoted : BOOLEAN]

\* The rows, the gateway and the requests have their shapes.
TypeOK ==
  /\ rides \in [Rides -> Row] /\ available \subseteq Riders
  /\ consumed \in BOOLEAN /\ priced \subseteq Rides
  /\ payment \in [Rides -> {"none", "asked", "completed", "failed", "refunded"}]
  /\ published \subseteq Rides \X {"completed", "failed", "refunded"}
  /\ op \in [Workers -> Request]
  /\ left \in 0..MaxOps /\ faults \in 0..MaxFaults

\* Dispatch takes a ride only while it has no rider (autoAssignNearest claims with
\* a conditional update): however many handlers, requests and duplicate completions
\* dispatch one ride at once, a rider is replaced only by an assignment by hand.
ReplacedByHand ==
  \A i \in Rides :
    rides'[i].rider \notin {None, rides[i].rider} /\ rides[i].rider # None
    => \E w \in Workers : At(w, "assign_write") /\ op[w].ride = i /\ op'[w] # op[w]

=============================================================================
