------------------------------ MODULE Payments ------------------------------
(***************************************************************************)
(* One payment of PaymentsService, from createAndInitiate to its refunds.  *)
(* A worker runs one request, one step per awaited database or provider    *)
(* call, so that requests interleave where the Node process can switch.    *)
(* The payment row, its provider transactions, refund rows, webhook rows   *)
(* and outbox are tables; the gateway (Daraja, KopoKopo) is external and   *)
(* decides what the customer did; a worker keeps the aggregate it loaded   *)
(* in memory until it saves.  A request that throws before it has changed  *)
(* anything is not a step.                                                 *)
(***************************************************************************)
EXTENDS PaymentDomain, Integers, FiniteSets, FiniteSetsExt

CONSTANTS
  Workers,       \* requests that may be in flight at once
  Providers,     \* the adapters enabled: "MANUAL", "DARAJA", "KOPOKOPO"
  Amount,        \* the captured amount
  RefundAmounts, \* amounts a refund may ask for
  RefundKeys,    \* idempotency keys of refund requests
  MaxRequests,   \* bound: provider initiations (STK requests)
  MaxRefunds,    \* bound: refund rows
  MaxOps,        \* bound: requests the service receives
  MaxFaults      \* bound: failed database calls, lost provider replies, crashes

NoKey == "providerRef overwritten"

ASSUME PaymentConstants ==
  /\ Providers \subseteq {"MANUAL", "DARAJA", "KOPOKOPO"}
  /\ Amount \in Nat \ {0}
  /\ RefundAmounts \subseteq Nat \ {0}
  /\ NoKey \notin RefundKeys
  /\ MaxRequests \in Nat /\ MaxRefunds \in Nat
  /\ MaxOps \in Nat /\ MaxFaults \in Nat

Requests == 1..MaxRequests
RefundIds == 1..MaxRefunds

\* Webhook events: callback r reports request r, RefundCallback(n) refund n.
Callbacks == 1..(MaxRequests + MaxRefunds)
RefundCallback(n) == MaxRequests + n

\* What latestProviderReference may return: nothing, the reference of a
\* callback, or one the query endpoint does not know.
NoReference == 0
UnknownReference == MaxRequests + MaxRefunds + 1
References == NoReference..UnknownReference

NoRow == [status |-> "ABSENT", life |-> "ABSENT"]

VARIABLES
  provider, \* the providerCode of this payment
  row,      \* payments: [status, life] or NoRow
  txRefs,   \* payment_provider_transactions: references callbacks resolve by
  lastRef,  \* the newest of them
  refunds,  \* refunds: [RefundIds -> [status, amount, key]]
  hooks,    \* inbound_webhook_events: [Callbacks -> status]
  outbox,   \* outbox_events: how many of each type were appended
  op,       \* the request of each worker: pc and local variables
  gateway,  \* external: what became of each initiated request
  payout,   \* external: what became of each refund order
  started,  \* initiations made by createAndInitiate for the one key
  late,     \* expiresAt has passed
  left,     \* requests still to come (bound)
  faults    \* faults still to come (bound)

tables == <<row, txRefs, lastRef, refunds, hooks, outbox>>
outside == <<gateway, payout>>
counters == <<provider, started, late, left, faults>>
vars == <<provider, row, txRefs, lastRef, refunds, hooks, outbox, op, gateway,
          payout, started, late, left, faults>>

Unused == [status |-> "NONE", amount |-> 0, key |-> NoKey]

\* life and ev: the aggregate and its pending events.  ref and latest: what
\* saveProviderTransaction will record.  hook: the callback being handled.
Idle == [pc |-> "idle", life |-> "CREATED", ev |-> << >>, ref |-> NoReference,
         latest |-> NoReference, hook |-> 0, refund |-> 0, amount |-> 0,
         key |-> NoKey, ans |-> "PENDING"]

Init ==
  /\ provider \in Providers
  /\ row = NoRow
  /\ txRefs = {} /\ lastRef = NoReference
  /\ refunds = [n \in RefundIds |-> Unused]
  /\ hooks = [c \in Callbacks |-> "NONE"]
  /\ outbox = [t \in EventType |-> 0]
  /\ op = [w \in Workers |-> Idle]
  /\ gateway = [r \in Requests |-> "none"]
  /\ payout = [n \in RefundIds |-> "none"]
  /\ started = 0 /\ late = FALSE
  /\ left = MaxOps /\ faults = MaxFaults

-----------------------------------------------------------------------------
\* Workers.

At(w, pc) == op[w].pc = pc

Become(w, self) == op' = [op EXCEPT ![w] = self]

Continue(w, pc) == Become(w, [op[w] EXCEPT !.pc = pc])

\* The request ends, with a reply or with an exception.
Done(w) == Become(w, Idle)

Exists == row # NoRow
Loaded == Restored(row)

\* A request arrives; the controller has authenticated it.
Accept(w, self) ==
  /\ At(w, "idle") /\ left > 0
  /\ left' = left - 1
  /\ Become(w, self)
  /\ UNCHANGED <<tables, outside, provider, started, late, faults>>

\* applyProviderResult on the worker's copy.
WithAnswer(self, answer) ==
  [self EXCEPT !.life = Applied(self.life, answer),
               !.ev = self.ev \o News(self.life, answer),
               !.ans = answer]

\* A refused transition throws out of the request.
ApplyThen(w, self, answer, pc) ==
  IF Accepts(self.life, answer)
  THEN Become(w, [WithAnswer(self, answer) EXCEPT !.pc = pc])
  ELSE Done(w)

-----------------------------------------------------------------------------
\* The gateway, external.

FreshRequests == {r \in Requests : gateway[r] = "none"}
Fresh == Min(FreshRequests)

\* What initiatePayment may answer, per adapter.
InitiateAnswers ==
  CASE provider = "MANUAL" -> {"PENDING"}
    [] provider = "DARAJA" -> {"REQUIRES_ACTION", "FAILED"}
    [] OTHER               -> {"REQUIRES_ACTION"}

Outcomes == {"paid", "cancelled", "failed", "unreachable"}

\* Mutation: whatever is not a refusal counts as a payment.
PaidUnlessRefused(outcome) ==
  CASE outcome = "cancelled" -> "CANCELLED"
    [] outcome = "failed"    -> "FAILED"
    [] outcome = "refunded"  -> "REFUNDED"
    [] OTHER                 -> "COMPLETED"

\* The status an adapter makes of the outcome, in a query or a callback.
AnswerFor(outcome) ==
  CASE outcome = "paid"      -> "COMPLETED"
    [] outcome = "cancelled" -> "CANCELLED"
    [] outcome = "failed"    -> "FAILED"
    [] outcome = "refunded"  -> "REFUNDED"
    [] OTHER                 -> "PENDING"

\* The customer answers the prompt; KopoKopo settles a refund order.
Settle(r) ==
  /\ provider # "MANUAL" /\ gateway[r] = "pending"
  /\ \E outcome \in Outcomes : gateway' = [gateway EXCEPT ![r] = outcome]
  /\ UNCHANGED <<tables, op, payout, counters>>

SettleRefund(n) ==
  /\ provider = "KOPOKOPO" /\ payout[n] = "accepted"
  /\ \E outcome \in {"refunded", "failed"} : payout' = [payout EXCEPT ![n] = outcome]
  /\ UNCHANGED <<tables, op, gateway, counters>>

\* One call of initiatePayment: answered; timed out after the gateway had
\* accepted it; or refused by throwing.
Answered(answer) ==
  /\ FreshRequests # {} /\ faults' = faults
  /\ gateway' = [gateway EXCEPT ![Fresh] = IF answer = "FAILED" THEN "refused"
                                           ELSE "pending"]

LosesReply == provider # "MANUAL" /\ faults > 0 /\ faults' = faults - 1

TimedOut ==
  /\ LosesReply /\ FreshRequests # {}
  /\ gateway' = [gateway EXCEPT ![Fresh] = "pending"]

Refused == provider # "MANUAL" /\ UNCHANGED <<gateway, faults>>

-----------------------------------------------------------------------------
\* createAndInitiate.

\* findByIdempotencyKey, then Payment.create and INITIATION_PENDING in memory.
CreateStart(w) ==
  /\ ~Exists
  /\ Accept(w, [Idle EXCEPT !.pc = "create_insert",
                            !.life = "INITIATION_PENDING",
                            !.ev = <<"PaymentCreated">>])

\* Mutation: no unique index on the idempotency key.
KeyAlwaysFree == TRUE

\* The unique index on payments.idempotency_key.
KeyFree == ~Exists

\* The first save; the loser of a race gets P2002 and throws.
CreateInsert(w) ==
  /\ At(w, "create_insert")
  /\ IF KeyFree THEN row' = Stored(op[w].life) /\ Continue(w, "create_publish")
     ELSE row' = row /\ Done(w)
  /\ UNCHANGED <<txRefs, lastRef, refunds, hooks, outbox, outside, counters>>

\* PaymentCreated is announced before the provider hears of the payment.
CreatePublish(w) ==
  /\ At(w, "create_publish")
  /\ outbox' = [outbox EXCEPT !["PaymentCreated"] = @ + 1]
  /\ Become(w, [op[w] EXCEPT !.pc = "create_initiate", !.ev = << >>])
  /\ UNCHANGED <<row, txRefs, lastRef, refunds, hooks, outside, counters>>

\* initiatePayment; an exception marks the copy FAILED and goes on to save it.
CreateInitiate(w) ==
  /\ At(w, "create_initiate")
  /\ started' = started + 1
  /\ \/ \E answer \in InitiateAnswers :
          LET ref == IF answer = "FAILED" THEN NoReference ELSE Fresh IN
          /\ Answered(answer)
          /\ ApplyThen(w, [op[w] EXCEPT !.ref = ref, !.latest = ref], answer, "save_tx")
     \/ /\ Refused \/ TimedOut
        /\ Become(w, [op[w] EXCEPT !.pc = "save", !.life = "FAILED",
                                   !.ev = <<"PaymentFailed">>])
  /\ UNCHANGED <<tables, payout, provider, late, left>>

-----------------------------------------------------------------------------
\* Steps shared by the operations: saveProviderTransaction, save, publish.

\* From here on a callback with this reference finds the payment.
SaveTx(w) ==
  /\ At(w, "save_tx")
  /\ txRefs' = txRefs \cup ({op[w].ref} \ {NoReference})
  /\ lastRef' = op[w].latest
  /\ Continue(w, "save")
  /\ UNCHANGED <<row, refunds, hooks, outbox, outside, counters>>

\* An upsert with no version check: it writes what this worker has in memory
\* over whatever the row holds by now.
Save(w) ==
  /\ At(w, "save")
  /\ row' = Stored(op[w].life)
  /\ Continue(w, "publish")
  /\ UNCHANGED <<txRefs, lastRef, refunds, hooks, outbox, outside, counters>>

\* Mutation: the completion is not appended.
CompletionLost(events, t) ==
  IF t = "PaymentCompleted" THEN 0
  ELSE Cardinality({i \in DOMAIN events : events[i] = t})

Appended(events, t) == Cardinality({i \in DOMAIN events : events[i] = t})

\* pullEvents, one transaction for the outbox rows, then the in-process emits.
Publish(w) ==
  /\ At(w, "publish")
  /\ outbox' = [t \in EventType |-> outbox[t] + Appended(op[w].ev, t)]
  /\ IF op[w].hook = 0 THEN Done(w)
     ELSE Become(w, [op[w] EXCEPT !.pc = "hook_finalize", !.ev = << >>])
  /\ UNCHANGED <<row, txRefs, lastRef, refunds, hooks, outside, counters>>
-----------------------------------------------------------------------------
\* queryAndSync, retry, cancel, reverse, manualApprove.

\* assertNotExpired throws for a late payment, without saving EXPIRED.
QueryStart(w) ==
  /\ Exists
  /\ ~(late /\ Loaded \in {"INITIATION_PENDING", "AWAITING_CUSTOMER"})
  /\ Accept(w, [Idle EXCEPT !.pc = "query", !.life = Loaded])

\* Daraja answers a query for a prompt that is still open with an error.
QueryAnswers ==
  IF provider = "MANUAL"
  THEN IF lastRef = NoReference THEN {} ELSE {"PENDING"}
  ELSE IF lastRef \notin Requests THEN {}
  ELSE IF provider = "DARAJA" /\ gateway[lastRef] = "pending" THEN {}
  ELSE {AnswerFor(gateway[lastRef])}

\* The answer belongs to the copy loaded before the call.
Query(w) ==
  /\ At(w, "query")
  /\ \/ \E answer \in QueryAnswers : ApplyThen(w, op[w], answer, "save")
     \/ (provider # "MANUAL" \/ QueryAnswers = {}) /\ Done(w)
  /\ UNCHANGED <<tables, outside, counters>>

RetryStart(w) ==
  /\ Exists /\ Loaded \in {"FAILED", "EXPIRED"}
  /\ Accept(w, [Idle EXCEPT !.pc = "retry_initiate", !.life = "INITIATION_PENDING"])

\* INITIATION_PENDING is in memory only; an exception leaves the row as it was.
\* persistAction records Daraja's MerchantRequestID, not the checkout id.
RetryInitiate(w) ==
  /\ At(w, "retry_initiate")
  /\ \/ \E answer \in InitiateAnswers :
          /\ Answered(answer)
          /\ ApplyThen(w, [op[w] EXCEPT
                !.ref = IF answer = "FAILED" THEN NoReference ELSE Fresh,
                !.latest = IF answer = "FAILED" THEN NoReference
                           ELSE IF provider = "DARAJA" THEN UnknownReference
                           ELSE Fresh], answer, "save_tx")
     \/ (Refused \/ TimedOut) /\ Done(w)
  /\ UNCHANGED <<tables, payout, provider, started, late, left>>

\* cancel and reverse: only the manual adapter supports them.
ActStart(w, action) ==
  /\ Exists
  /\ Accept(w, [Idle EXCEPT
        !.pc = action,
        !.life = IF action = "reverse" /\ Loaded = "CAPTURED"
                 THEN "REVERSAL_PENDING" ELSE Loaded])

Act(w) ==
  /\ At(w, "cancel") \/ At(w, "reverse")
  /\ IF provider = "MANUAL" /\ lastRef # NoReference
     THEN ApplyThen(w, [op[w] EXCEPT !.latest = lastRef],
                    IF At(w, "cancel") THEN "CANCELLED" ELSE "REVERSED", "save_tx")
     ELSE Done(w)
  /\ UNCHANGED <<tables, outside, counters>>

\* Two transitions in memory, one save.
ManualApprove(w) ==
  /\ provider = "MANUAL" /\ Exists
  /\ Loaded \in {"INITIATION_PENDING", "AWAITING_CUSTOMER"}
  /\ Accept(w, [Idle EXCEPT !.pc = "save", !.life = "CAPTURED",
                            !.ev = <<"PaymentAuthorised", "PaymentCompleted">>])

-----------------------------------------------------------------------------
\* refund.

\* The idempotency lookup, outside any transaction.
RefundStart(w, key, amount) ==
  /\ Exists
  /\ \A n \in RefundIds : refunds[n].key # key
  /\ Accept(w, [Idle EXCEPT !.pc = "refund_load", !.key = key, !.amount = amount])

RefundLoad(w) ==
  /\ At(w, "refund_load")
  /\ IF Loaded \in {"CAPTURED", "PARTIALLY_REFUNDED"}
     THEN Become(w, [op[w] EXCEPT !.pc = "refund_reserve", !.life = Loaded])
     ELSE Done(w)
  /\ UNCHANGED <<tables, outside, counters>>

\* Mutation: a refund still in progress does not count.
OnlySucceeded == {"SUCCEEDED"}

\* The statuses assertRefundable sums (PENDING is never written).
OpenRefund == {"SUCCEEDED", "PROCESSING"}

Total(ids) == MapThenSumSet(LAMBDA n : refunds[n].amount, ids)

Reserved == Total({n \in RefundIds : refunds[n].status \in OpenRefund})

FreshRefunds == {n \in RefundIds : refunds[n].status = "NONE"}

\* One transaction: FOR UPDATE on the payment, sum, insert PROCESSING.
RefundReserve(w) ==
  /\ At(w, "refund_reserve")
  /\ IF Reserved + op[w].amount <= Amount
     THEN /\ FreshRefunds # {}
          /\ LET n == Min(FreshRefunds) IN
             /\ refunds' = [refunds EXCEPT ![n] =
                  [status |-> "PROCESSING", amount |-> op[w].amount, key |-> op[w].key]]
             /\ Become(w, [op[w] EXCEPT !.pc = "refund_call", !.refund = n,
                                        !.life = "REFUND_PENDING"])
     ELSE refunds' = refunds /\ Done(w)
  /\ UNCHANGED <<row, txRefs, lastRef, hooks, outbox, outside, counters>>

RefundAnswers ==
  CASE provider = "MANUAL" -> {"REFUNDED"}
    [] provider = "DARAJA" -> {"PENDING", "FAILED"}
    [] OTHER               -> {"PENDING"}

\* The reference persistAction will record for an answered refund order.
RefundReference(n, answer) ==
  CASE provider = "KOPOKOPO"                        -> RefundCallback(n)
    [] provider = "DARAJA" /\ answer = "PENDING"    -> UnknownReference
    [] OTHER                                        -> lastRef

\* provider.refundPayment: answered, thrown, or executed with the reply lost.
RefundCall(w) ==
  LET n == op[w].refund IN
  /\ At(w, "refund_call")
  /\ \/ \E answer \in RefundAnswers :
          /\ lastRef # NoReference /\ faults' = faults
          /\ payout' = [payout EXCEPT ![n] = IF answer = "FAILED" THEN @
                                             ELSE "accepted"]
          /\ Become(w, [op[w] EXCEPT
                !.pc = "refund_settle", !.ans = answer,
                !.ref = IF provider = "KOPOKOPO" THEN RefundCallback(n) ELSE NoReference,
                !.latest = RefundReference(n, answer)])
     \/ /\ provider # "MANUAL" \/ lastRef = NoReference
        /\ UNCHANGED <<payout, faults>>
        /\ Continue(w, "refund_fail")
     \/ /\ LosesReply /\ lastRef # NoReference
        /\ payout' = [payout EXCEPT ![n] = "accepted"]
        /\ Continue(w, "refund_fail")
  /\ UNCHANGED <<tables, gateway, provider, started, late, left>>

RefundFail(w) ==
  /\ At(w, "refund_fail")
  /\ refunds' = [refunds EXCEPT ![op[w].refund].status = "FAILED"]
  /\ Done(w)
  /\ UNCHANGED <<row, txRefs, lastRef, hooks, outbox, outside, counters>>

\* Success replaces the idempotency key by the provider's reference.
SettledRefund(answer, refund) ==
  CASE answer = "REFUNDED" -> [refund EXCEPT !.status = "SUCCEEDED", !.key = NoKey]
    [] answer = "FAILED"   -> [refund EXCEPT !.status = "FAILED"]
    [] OTHER               -> refund

RefundSettle(w) ==
  /\ At(w, "refund_settle")
  /\ refunds' = [refunds EXCEPT ![op[w].refund] = SettledRefund(op[w].ans, @)]
  /\ ApplyThen(w, op[w], op[w].ans, "save_tx")
  /\ UNCHANGED <<row, txRefs, lastRef, hooks, outbox, outside, counters>>

-----------------------------------------------------------------------------
\* handleWebhook.

\* The outcome a callback reports, "none" while there is nothing to report.
Reported(c) ==
  LET outcome == IF c \in Requests THEN gateway[c] ELSE payout[c - MaxRequests] IN
  IF outcome \in Outcomes \cup {"refunded"} THEN outcome ELSE "none"

\* A delivery, first or repeated; a PROCESSED event is acknowledged unread.
HookStart(w, c) ==
  /\ Reported(c) # "none" /\ hooks[c] # "PROCESSED"
  /\ Accept(w, [Idle EXCEPT !.pc = "hook_resolve", !.hook = c])

\* resolveCallbackPayment loads the payment before the event is claimed.
HookResolve(w) ==
  /\ At(w, "hook_resolve")
  /\ IF op[w].hook \in txRefs
     THEN Become(w, [op[w] EXCEPT !.pc = "hook_claim", !.life = Loaded])
     ELSE Done(w)
  /\ UNCHANGED <<tables, outside, counters>>

\* An event another delivery has merely RECEIVED can be claimed again.
Claimable(status) == status \in {"NONE", "FAILED", "RECEIVED"}

HookClaim(w) ==
  LET c == op[w].hook
      answer == AnswerFor(Reported(c)) IN
  /\ At(w, "hook_claim")
  /\ IF ~Claimable(hooks[c]) THEN hooks' = hooks /\ Done(w)
     ELSE /\ hooks' = [hooks EXCEPT ![c] = "RECEIVED"]
          /\ IF Accepts(op[w].life, answer)
             THEN Become(w, [WithAnswer(op[w], answer) EXCEPT !.pc = "save"])
             ELSE Continue(w, "hook_fail")
  /\ UNCHANGED <<row, txRefs, lastRef, refunds, outbox, outside, counters>>

HookFinalize(w) ==
  /\ At(w, "hook_finalize")
  /\ hooks' = [hooks EXCEPT ![op[w].hook] = "PROCESSED"]
  /\ Done(w)
  /\ UNCHANGED <<row, txRefs, lastRef, refunds, outbox, outside, counters>>

\* Mutation: failCallback updates whatever the status.
FailedAnyway(status) == "FAILED"

FailedUnlessProcessed(status) == IF status = "PROCESSED" THEN status ELSE "FAILED"

HookFail(w) ==
  /\ At(w, "hook_fail")
  /\ hooks' = [hooks EXCEPT ![op[w].hook] = FailedUnlessProcessed(@)]
  /\ Done(w)
  /\ UNCHANGED <<row, txRefs, lastRef, refunds, outbox, outside, counters>>

-----------------------------------------------------------------------------
\* Time, failed calls and crashes.

PassDeadline ==
  /\ ~late /\ late' = TRUE
  /\ UNCHANGED <<tables, op, outside, provider, started, left, faults>>

\* A database call throws: the webhook handler marks its event, every other
\* request just ends.
Abort(w) ==
  /\ faults > 0 /\ faults' = faults - 1
  /\ ~At(w, "idle")
  /\ IF op[w].hook # 0 /\ op[w].pc \in {"save", "publish", "hook_finalize"}
     THEN Continue(w, "hook_fail") ELSE Done(w)
  /\ UNCHANGED <<tables, outside, provider, started, late, left>>

\* The process dies: everything in memory is gone.
Crash ==
  /\ faults > 0 /\ faults' = faults - 1
  /\ \E w \in Workers : ~At(w, "idle")
  /\ op' = [w \in Workers |-> Idle]
  /\ UNCHANGED <<tables, outside, provider, started, late, left>>

CreateStep(w) == CreateStart(w) \/ CreateInsert(w) \/ CreatePublish(w) \/ CreateInitiate(w)

ChangeStep(w) ==
  \/ QueryStart(w) \/ Query(w)
  \/ RetryStart(w) \/ RetryInitiate(w)
  \/ \E action \in {"cancel", "reverse"} : ActStart(w, action)
  \/ Act(w) \/ ManualApprove(w)

RefundStep(w) ==
  \/ \E key \in RefundKeys, amount \in RefundAmounts : RefundStart(w, key, amount)
  \/ RefundLoad(w) \/ RefundReserve(w) \/ RefundCall(w)
  \/ RefundFail(w) \/ RefundSettle(w)

HookStep(w) ==
  \/ \E c \in Callbacks : HookStart(w, c)
  \/ HookResolve(w) \/ HookClaim(w) \/ HookFinalize(w) \/ HookFail(w)

Next ==
  \/ \E w \in Workers :
       \/ CreateStep(w) \/ SaveTx(w) \/ Save(w) \/ Publish(w)
       \/ ChangeStep(w) \/ RefundStep(w) \/ HookStep(w) \/ Abort(w)
  \/ \E r \in Requests : Settle(r)
  \/ \E n \in RefundIds : SettleRefund(n)
  \/ PassDeadline \/ Crash

Spec == Init /\ [][Next]_vars
-----------------------------------------------------------------------------
\* Properties.

\* A request: where it is, the aggregate in its memory, and what it works on.
Request ==
  [pc: {"idle", "create_insert", "create_publish", "create_initiate", "save_tx", "save",
        "publish", "query", "retry_initiate", "cancel", "reverse", "refund_load",
        "refund_reserve", "refund_call", "refund_fail", "refund_settle", "hook_resolve",
        "hook_claim", "hook_finalize", "hook_fail"},
   life: Lifecycle, ev: Seq(EventType), ans: Answer,
   ref: Callbacks \cup {NoReference}, latest: References,
   hook: Callbacks \cup {0}, refund: RefundIds \cup {0},
   key: RefundKeys \cup {NoKey}, amount: Nat]

\* Every table, worker and external variable keeps its shape: the row is
\* absent or a pair of columns some lifecycle state is stored as.
TypeOK ==
  /\ provider \in Providers
  /\ row \in {NoRow} \cup {Stored(l) : l \in Lifecycle}
  /\ txRefs \subseteq Callbacks
  /\ lastRef \in References
  /\ refunds \in [RefundIds -> [status: {"NONE", "PROCESSING", "SUCCEEDED", "FAILED"},
                               amount: Nat, key: RefundKeys \cup {NoKey}]]
  /\ hooks \in [Callbacks -> {"NONE", "RECEIVED", "FAILED", "PROCESSED"}]
  /\ outbox \in [EventType -> Nat]
  /\ op \in [Workers -> Request]
  /\ gateway \in [Requests -> {"none", "refused", "pending"} \cup Outcomes]
  /\ payout \in [RefundIds -> {"none", "accepted", "refunded", "failed"}]
  /\ started \in Nat /\ late \in BOOLEAN /\ left \in Nat /\ faults \in Nat

\* No call has failed, no reply was lost and nothing crashed so far.
Undisturbed == faults = MaxFaults

\* However many refunds run at once, the refund rows that are open or paid
\* never add up to more than was captured (the FOR UPDATE transaction of
\* refund()).  Nor does what the provider was really told to pay out, as long
\* as every answer of the provider arrives: a lost reply marks the refund
\* FAILED and frees its amount.
RefundsWithinCapture ==
  /\ Total({n \in RefundIds : refunds[n].status \in {"PROCESSING", "SUCCEEDED"}}) <= Amount
  /\ Undisturbed => Total({n \in RefundIds : payout[n] \in {"accepted", "refunded"}}) <= Amount

\* Concurrent requests with one idempotency key reach the provider once: the
\* row is inserted under the unique key before initiatePayment is called.
OneInitiationPerKey == started <= 1

\* A callback event that was PROCESSED stays PROCESSED, whatever a slower
\* duplicate delivery does: no redelivery applies it again later.
ProcessedIsFinal ==
  [][\A c \in Callbacks : hooks[c] = "PROCESSED" => hooks'[c] = "PROCESSED"]_vars

\* No completion is announced and no refund is opened unless the customer has
\* paid one of the initiated requests at the gateway; and a payment that reads
\* REFUNDED has a refund row that SUCCEEDED, or a refund order the provider has
\* settled.
MoneyBacked ==
  /\ outbox["PaymentCompleted"] > 0 \/ (\E n \in RefundIds : refunds[n].status # "NONE")
       => provider = "MANUAL" \/ \E r \in Requests : gateway[r] = "paid"
  /\ Exists /\ Loaded = "REFUNDED" =>
       \E n \in RefundIds : refunds[n].status = "SUCCEEDED" \/ payout[n] = "refunded"

\* The completion has been appended to the outbox, or a live request still
\* holds it and is about to.
CompletionOnItsWay ==
  \/ outbox["PaymentCompleted"] > 0
  \/ \E w \in Workers :
       /\ op[w].pc \in {"save", "publish"}
       /\ \E i \in DOMAIN op[w].ev : op[w].ev[i] = "PaymentCompleted"

\* The row never shows captured money, and no callback of a paid request is
\* acknowledged as PROCESSED (the provider will not deliver it again), without
\* PaymentCompleted having been appended or being about to be: nobody waits for
\* a completion that will not come.  Needs a process that does not die between
\* save and publish.
CaptureIsAnnounced ==
  Undisturbed =>
    /\ Exists /\ Loaded \in {"CAPTURED", "REVERSED", "REFUND_PENDING",
                             "PARTIALLY_REFUNDED", "REFUNDED"} => CompletionOnItsWay
    /\ \A c \in Requests :
         hooks[c] = "PROCESSED" /\ gateway[c] = "paid" => CompletionOnItsWay

\* One delivery at a time works on a claimed event.
ClaimIsExclusive ==
  \A v, w \in Workers :
    /\ op[v].hook # 0 /\ op[v].hook = op[w].hook
    /\ {op[v].pc, op[w].pc} \subseteq {"save", "publish", "hook_finalize"}
    => v = w

Abstract ==
  INSTANCE PaymentLifecycle WITH state <- IF Exists THEN Loaded ELSE "ABSENT"

\* The stored lifecycle moves only along the transition table: the table of
\* payments implements PaymentLifecycle.
LifecycleFollowed == Abstract!Spec
=============================================================================
