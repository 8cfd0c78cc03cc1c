-------------------------- MODULE Payments_proofs --------------------------
(***************************************************************************)
(* Payments for every set of workers, every number of requests, refunds,   *)
(* operations and faults, and every enabled adapter.  The module first     *)
(* says, action by action, what a step does to the worker that takes it    *)
(* (the Effect lemmas); the invariants below are then proved from those    *)
(* facts: Known (a request past its first read has a row), InitiatedOnce,  *)
(* Owned and Told (who works on a refund row), Backed and RefundBacked     *)
(* (money that shows was paid), Heard and Announced (a captured payment    *)
(* has its completion), Follows (one request keeps to the table).          *)
(***************************************************************************)
EXTENDS Payments, Sums

Pcs ==
  {"idle", "create_insert", "create_publish", "create_initiate", "save_tx", "save",
   "publish", "query", "retry_initiate", "cancel", "reverse", "refund_load",
   "refund_reserve", "refund_call", "refund_fail", "refund_settle", "hook_resolve",
   "hook_claim", "hook_finalize", "hook_fail"}

Calling == {"refund_call", "refund_settle", "refund_fail"}
Hooking == {"hook_resolve", "hook_claim", "hook_finalize", "hook_fail"}

\* A request past its first read works on a payment that exists, and on rows it has.
Placed(self) ==
  /\ self.pc \notin {"idle", "create_insert", "hook_resolve"} => Exists
  /\ self.pc \in Calling => self.refund \in RefundIds
  /\ self.pc \in Hooking => self.hook \in Callbacks

Known == (txRefs # {} => Exists) /\ \A w \in Workers : Placed(op[w])

\* A stored lifecycle is a row, and is restored as a lifecycle.
LEMMA StoredFacts ==
  \A l \in Lifecycle : Stored(l) # NoRow /\ Restored(Stored(l)) \in Lifecycle
<1>1. \A l \in Lifecycle : Stored(l).status # "ABSENT"
  BY DEF Stored, PublicStatus, Lifecycle
<1>2. \A l \in Lifecycle : Restored(Stored(l)) \in Lifecycle
  BY DEF Stored, Restored, FromPersisted, DeriveLifecycle, PublicStatus, ToPersisted, Lifecycle
<1>3. NoRow.status = "ABSENT"
  BY DEF NoRow
<1> QED
  BY <1>1, <1>2, <1>3

LEMMA LoadedType ==
  ASSUME TypeOK, Exists
  PROVE  Loaded \in Lifecycle
  BY StoredFacts DEF TypeOK, Exists, Loaded

\* The types of the pure operators: an answer applied, its events.
LEMMA AnswerFacts ==
  ASSUME NEW l \in Lifecycle, NEW a \in Answer
  PROVE  Applied(l, a) \in Lifecycle /\ News(l, a) \in Seq(EventType)
<1>1. Target(a) \in Lifecycle
  BY DEF Target, Answer, Lifecycle
<1>2. \A t \in Lifecycle : Emitted(t) \in Seq(EventType)
  <2>1. /\ << >> \in Seq(EventType)
        /\ \A e \in EventType : <<e>> \in Seq(EventType)
    OBVIOUS
  <2>2. {"PaymentAuthorised", "PaymentCompleted", "PaymentFailed", "PaymentCancelled",
         "PaymentRefunded"} \subseteq EventType
    BY DEF EventType
  <2> QED
    BY <2>1, <2>2 DEF Emitted
<1> QED
  BY <1>1, <1>2 DEF Applied, News

LEMMA IdleType == Idle \in Request
<1>1. << >> \in Seq(EventType) /\ NoReference \in References
  BY PaymentConstants DEF NoReference, References, UnknownReference
<1> QED
  BY <1>1 DEF Idle, Request, Lifecycle, Answer, NoReference

LEMMA IdleFields ==
  /\ Idle.pc = "idle" /\ Idle.life = "CREATED" /\ Idle.ev = << >>
  /\ Idle.hook = 0 /\ Idle.refund = 0
  BY DEF Idle

LEMMA MoveType ==
  ASSUME TypeOK, NEW w \in Workers, NEW self \in Request, Become(w, self)
  PROVE  op' \in [Workers -> Request]
  BY DEF TypeOK, Become

LEMMA PcType ==
  ASSUME NEW self \in Request, NEW pc \in Pcs
  PROVE  [self EXCEPT !.pc = pc] \in Request
  BY DEF Request, Pcs

LEMMA ContinueType ==
  ASSUME TypeOK, NEW w \in Workers, NEW pc \in Pcs, Continue(w, pc)
  PROVE  op' \in [Workers -> Request]
<1>1. op[w] \in Request
  BY DEF TypeOK
<1> QED
  BY <1>1, PcType, MoveType DEF Continue

LEMMA DoneType ==
  ASSUME TypeOK, NEW w \in Workers, Done(w)
  PROVE  op' \in [Workers -> Request]
  BY IdleType, MoveType DEF Done

LEMMA AnsweredType ==
  ASSUME NEW self \in Request, NEW a \in Answer, NEW pc \in Pcs
  PROVE  [WithAnswer(self, a) EXCEPT !.pc = pc] \in Request
<1> DEFINE next == [WithAnswer(self, a) EXCEPT !.pc = pc]
<1>1. next = [self EXCEPT !.pc = pc, !.life = Applied(self.life, a),
                          !.ev = self.ev \o News(self.life, a), !.ans = a]
  BY DEF WithAnswer, Request
<1>2. self.life \in Lifecycle /\ self.ev \in Seq(EventType)
  BY DEF Request
<1>3. Applied(self.life, a) \in Lifecycle /\ self.ev \o News(self.life, a) \in Seq(EventType)
  BY <1>2, AnswerFacts
<1> QED
  BY <1>1, <1>3 DEF Request, Pcs

LEMMA ApplyType ==
  ASSUME TypeOK, NEW w \in Workers, NEW self \in Request, NEW a \in Answer, NEW pc \in Pcs,
         ApplyThen(w, self, a, pc)
  PROVE  op' \in [Workers -> Request]
  BY AnsweredType, MoveType, DoneType DEF ApplyThen

\* The least of a set of naturals is one of them.
LEMMA LeastExists ==
  ASSUME NEW S \in SUBSET Nat, S # {}
  PROVE  Min(S) \in S
<1>1. PICK n \in S : \A m \in S : <<m, n>> \notin OpToRel(<, Nat)
  BY NatLessThanWellFounded, WFMin
<1>2. ASSUME NEW m \in S, m < n
      PROVE  FALSE
  <2>1. <<m, n>> \in Nat \X Nat /\ <<m, n>>[1] < <<m, n>>[2]
    BY <1>2
  <2> QED
    BY <1>1, <2>1 DEF OpToRel
<1>3. n \in S /\ \A m \in S : n <= m
  BY <1>2
<1> QED
  BY <1>3 DEF Min

LEMMA AcceptType ==
  ASSUME TypeOK, NEW w \in Workers, NEW self \in Request, Accept(w, self)
  PROVE  TypeOK'
<1>1. op' \in [Workers -> Request]
  BY MoveType DEF Accept
<1> QED
  BY <1>1 DEF TypeOK, Accept, tables, outside

LEMMA FreshType ==
  ASSUME FreshRequests # {}
  PROVE  Fresh \in Requests /\ gateway[Fresh] = "none"
<1>1. FreshRequests \in SUBSET Nat
  BY DEF FreshRequests, Requests
<1>2. Fresh \in FreshRequests
  BY <1>1, LeastExists DEF Fresh
<1> QED
  BY <1>2 DEF FreshRequests

\* What a call of initiatePayment may change.
GatewayCalled ==
  /\ op' \in [Workers -> Request] /\ faults' \in Nat
  /\ gateway' \in [Requests -> {"none", "refused", "pending"} \cup Outcomes]

LEMMA InitiateType == InitiateAnswers \subseteq Answer
  BY DEF InitiateAnswers, Answer

LEMMA OpOnly ==
  ASSUME TypeOK, op' \in [Workers -> Request], UNCHANGED <<tables, outside, counters>>
  PROVE  TypeOK'
  BY DEF TypeOK, tables, outside, counters

LEMMA CreateType ==
  ASSUME TypeOK, Known, NEW w \in Workers, CreateStep(w)
  PROVE  TypeOK'
<1>1. CASE CreateStart(w)
  <2>1. [Idle EXCEPT !.pc = "create_insert", !.life = "INITIATION_PENDING",
                     !.ev = <<"PaymentCreated">>] \in Request
    <3>1. "PaymentCreated" \in EventType
      BY DEF EventType
    <3>2. <<"PaymentCreated">> \in Seq(EventType)
      BY <3>1
    <3> QED
      BY <3>2, IdleType DEF Request, Lifecycle
  <2> QED
    BY <1>1, <2>1, AcceptType DEF CreateStart
<1>2. CASE CreateInsert(w)
  <2>1. op' \in [Workers -> Request]
    BY <1>2, ContinueType, DoneType DEF CreateInsert, Pcs
  <2>2. op[w].life \in Lifecycle
    BY DEF TypeOK, Request
  <2> QED
    BY <1>2, <2>1, <2>2 DEF TypeOK, CreateInsert, outside, counters
<1>3. CASE CreatePublish(w)
  <2>1. [op[w] EXCEPT !.pc = "create_initiate", !.ev = << >>] \in Request
    <3>1. op[w] \in Request /\ << >> \in Seq(EventType)
      BY DEF TypeOK
    <3> QED
      BY <3>1 DEF Request
  <2>2. op' \in [Workers -> Request]
    BY <1>3, <2>1, MoveType DEF CreatePublish
  <2> QED
    BY <1>3, <2>2 DEF TypeOK, CreatePublish, outside, counters, EventType
<1>4. CASE CreateInitiate(w)
  <2>1. op[w] \in Request
    BY DEF TypeOK
  <2>2. ASSUME NEW answer \in InitiateAnswers, Answered(answer),
               NEW ref, ref = IF answer = "FAILED" THEN NoReference ELSE Fresh,
               ApplyThen(w, [op[w] EXCEPT !.ref = ref, !.latest = ref], answer, "save_tx")
        PROVE  GatewayCalled
    <3>1. ref \in Callbacks \cup {NoReference} /\ ref \in References
      BY <2>2, FreshType, PaymentConstants DEF Answered, Callbacks, Requests, NoReference, References, UnknownReference
    <3>2. [op[w] EXCEPT !.ref = ref, !.latest = ref] \in Request
      BY <2>1, <3>1 DEF Request
    <3>3. op' \in [Workers -> Request]
      BY <2>2, <3>2, ApplyType, InitiateType DEF Pcs
    <3> QED
      BY <2>2, <3>3 DEF GatewayCalled, Answered, TypeOK
  <2>3. ASSUME Refused \/ TimedOut,
               Become(w, [op[w] EXCEPT !.pc = "save", !.life = "FAILED", !.ev = <<"PaymentFailed">>])
        PROVE  GatewayCalled
    <3>1. "PaymentFailed" \in EventType
      BY DEF EventType
    <3>2. <<"PaymentFailed">> \in Seq(EventType)
      BY <3>1
    <3>3. [op[w] EXCEPT !.pc = "save", !.life = "FAILED", !.ev = <<"PaymentFailed">>] \in Request
      BY <2>1, <3>2 DEF Request, Lifecycle
    <3>4. op' \in [Workers -> Request]
      BY <2>3, <3>3, MoveType
    <3> QED
      BY <2>3, <3>4 DEF GatewayCalled, TypeOK, Refused, TimedOut, LosesReply
  <2>4. GatewayCalled
    <3>1. CASE \E answer \in InitiateAnswers :
                 LET ref == IF answer = "FAILED" THEN NoReference ELSE Fresh IN
                 /\ Answered(answer)
                 /\ ApplyThen(w, [op[w] EXCEPT !.ref = ref, !.latest = ref], answer, "save_tx")
      BY <2>2, <3>1
    <3> QED
      BY <1>4, <2>3, <3>1 DEF CreateInitiate
  <2>5. started' = started + 1 /\ UNCHANGED <<tables, payout, provider, late, left>>
    BY <1>4, Zenon DEF CreateInitiate
  <2>6. started' \in Nat
    BY <2>5 DEF TypeOK
  <2> QED
    BY <2>4, <2>5, <2>6 DEF GatewayCalled, TypeOK, tables
<1> QED
  BY <1>1, <1>2, <1>3, <1>4 DEF CreateStep

LEMMA SharedType ==
  ASSUME TypeOK, NEW w \in Workers, SaveTx(w) \/ Save(w) \/ Publish(w)
  PROVE  TypeOK'
<1>1. op[w] \in Request
  BY DEF TypeOK
<1>2. CASE SaveTx(w)
  <2>1. op' \in [Workers -> Request]
    BY <1>2, ContinueType DEF SaveTx, Pcs
  <2>2. txRefs' \subseteq Callbacks /\ lastRef' \in References
    BY <1>1, <1>2 DEF SaveTx, TypeOK, Request
  <2> QED
    BY <1>2, <2>1, <2>2 DEF TypeOK, SaveTx, outside, counters
<1>3. CASE Save(w)
  <2>1. op' \in [Workers -> Request]
    BY <1>3, ContinueType DEF Save, Pcs
  <2>2. op[w].life \in Lifecycle
    BY <1>1 DEF Request
  <2> QED
    BY <1>3, <2>1, <2>2 DEF TypeOK, Save, outside, counters
<1>4. CASE Publish(w)
  <2>1. [op[w] EXCEPT !.pc = "hook_finalize", !.ev = << >>] \in Request
    <3>1. << >> \in Seq(EventType)
      OBVIOUS
    <3> QED
      BY <1>1, <3>1 DEF Request
  <2>2. op' \in [Workers -> Request]
    BY <1>4, <2>1, MoveType, DoneType DEF Publish
  <2>3. outbox' \in [EventType -> Nat]
    <3>1. ASSUME NEW t \in EventType
          PROVE  outbox[t] + Appended(op[w].ev, t) \in Nat
      <4>1. op[w].ev \in Seq(EventType)
        BY <1>1 DEF Request
      <4>2. IsFiniteSet(1 .. Len(op[w].ev)) /\ DOMAIN op[w].ev = 1 .. Len(op[w].ev)
        BY <4>1, FS_Interval
      <4>3. IsFiniteSet({i \in DOMAIN op[w].ev : op[w].ev[i] = t})
        BY <4>2, FS_Subset
      <4> QED
        BY <4>3, FS_CardinalityType DEF Appended, TypeOK
    <3> QED
      BY <1>4, <3>1 DEF Publish
  <2> QED
    BY <1>4, <2>2, <2>3 DEF TypeOK, Publish, outside, counters
<1> QED
  BY <1>2, <1>3, <1>4

LEMMA QueryType == QueryAnswers \subseteq Answer
  BY DEF QueryAnswers, AnswerFor, Answer

LEMMA ChangeType ==
  ASSUME TypeOK, NEW w \in Workers, ChangeStep(w)
  PROVE  TypeOK'
<1>1. op[w] \in Request
  BY DEF TypeOK
<1>2. CASE QueryStart(w)
  <2>1. Exists /\ Accept(w, [Idle EXCEPT !.pc = "query", !.life = Loaded])
    BY <1>2 DEF QueryStart
  <2>2. [Idle EXCEPT !.pc = "query", !.life = Loaded] \in Request
    BY <2>1, LoadedType, IdleType DEF Request
  <2> QED
    BY <2>1, <2>2, AcceptType
<1>3. CASE Query(w)
  <2>1. ASSUME NEW answer \in QueryAnswers, ApplyThen(w, op[w], answer, "save")
        PROVE  op' \in [Workers -> Request]
    BY <1>1, <2>1, QueryType, ApplyType DEF Pcs
  <2>2. op' \in [Workers -> Request] /\ UNCHANGED <<tables, outside, counters>>
    BY <1>3, <2>1, DoneType DEF Query
  <2> QED
    BY <2>2, OpOnly
<1>4. CASE RetryStart(w)
  <2>1. [Idle EXCEPT !.pc = "retry_initiate", !.life = "INITIATION_PENDING"] \in Request
    BY IdleType DEF Request, Lifecycle
  <2> QED
    BY <1>4, <2>1, AcceptType DEF RetryStart
<1>5. CASE RetryInitiate(w)
  <2>1. ASSUME NEW answer \in InitiateAnswers, Answered(answer),
               NEW ref, ref = (IF answer = "FAILED" THEN NoReference ELSE Fresh),
               NEW latest \in {NoReference, UnknownReference, ref},
               ApplyThen(w, [op[w] EXCEPT !.ref = ref, !.latest = latest], answer, "save_tx")
        PROVE  GatewayCalled
    <3>1. /\ ref \in Callbacks \cup {NoReference}
          /\ latest \in References
      BY <2>1, FreshType, PaymentConstants
         DEF Answered, Callbacks, Requests, NoReference, References, UnknownReference
    <3>2. [op[w] EXCEPT !.ref = ref, !.latest = latest] \in Request
      BY <1>1, <3>1 DEF Request
    <3>3. op' \in [Workers -> Request]
      BY <2>1, <3>2, ApplyType, InitiateType DEF Pcs
    <3> QED
      BY <2>1, <3>3 DEF GatewayCalled, Answered, TypeOK
  <2>2. ASSUME Refused \/ TimedOut, Done(w)
        PROVE  GatewayCalled
    BY <2>2, DoneType DEF GatewayCalled, TypeOK, Refused, TimedOut, LosesReply
  <2>3. GatewayCalled /\ UNCHANGED <<tables, payout, provider, started, late, left>>
    BY <1>5, <2>1, <2>2 DEF RetryInitiate
  <2> QED
    BY <2>3 DEF GatewayCalled, TypeOK, tables
<1>6. ASSUME NEW action \in {"cancel", "reverse"}, ActStart(w, action)
      PROVE  TypeOK'
  <2>1. PICK life : /\ Exists /\ life \in {"REVERSAL_PENDING", Loaded}
                    /\ Accept(w, [Idle EXCEPT !.pc = action, !.life = life])
    BY <1>6 DEF ActStart
  <2>2. life \in Lifecycle
    BY <2>1, LoadedType DEF Lifecycle
  <2>3. [Idle EXCEPT !.pc = action, !.life = life] \in Request
    BY <2>2, IdleType DEF Request
  <2> QED
    BY <2>1, <2>3, AcceptType
<1>7. CASE Act(w)
  <2>1. ASSUME ~Done(w)
        PROVE  op' \in [Workers -> Request]
    <3>1. [op[w] EXCEPT !.latest = lastRef] \in Request
      BY <1>1 DEF TypeOK, Request
    <3>2. PICK answer \in {"CANCELLED", "REVERSED"} :
            ApplyThen(w, [op[w] EXCEPT !.latest = lastRef], answer, "save_tx")
      BY <1>7, <2>1 DEF Act
    <3> QED
      BY <3>1, <3>2, ApplyType DEF Pcs, Answer
  <2>2. op' \in [Workers -> Request] /\ UNCHANGED <<tables, outside, counters>>
    BY <1>7, <2>1, DoneType DEF Act
  <2> QED
    BY <2>2, OpOnly
<1>8. CASE ManualApprove(w)
  <2>1. "PaymentAuthorised" \in EventType /\ "PaymentCompleted" \in EventType
    BY DEF EventType
  <2>2. <<"PaymentAuthorised", "PaymentCompleted">> \in Seq(EventType)
    BY <2>1
  <2>3. [Idle EXCEPT !.pc = "save", !.life = "CAPTURED",
                     !.ev = <<"PaymentAuthorised", "PaymentCompleted">>] \in Request
    BY <2>2, IdleType DEF Request, Lifecycle
  <2> QED
    BY <1>8, <2>3, AcceptType DEF ManualApprove
<1> QED
  BY <1>2, <1>3, <1>4, <1>5, <1>6, <1>7, <1>8 DEF ChangeStep

LEMMA LeastRefund ==
  ASSUME FreshRefunds # {}
  PROVE  Min(FreshRefunds) \in RefundIds /\ refunds[Min(FreshRefunds)].status = "NONE"
<1>1. FreshRefunds \in SUBSET Nat
  BY DEF FreshRefunds, RefundIds
<1>2. Min(FreshRefunds) \in FreshRefunds
  BY <1>1, LeastExists
<1> QED
  BY <1>2 DEF FreshRefunds

LEMMA RefundType ==
  ASSUME TypeOK, Known, NEW w \in Workers, RefundStep(w)
  PROVE  TypeOK'
<1>1. op[w] \in Request
  BY DEF TypeOK
<1>2. ASSUME NEW key \in RefundKeys, NEW amount \in RefundAmounts, RefundStart(w, key, amount)
      PROVE  TypeOK'
  <2>1. [Idle EXCEPT !.pc = "refund_load", !.key = key, !.amount = amount] \in Request
    BY IdleType, PaymentConstants DEF Request
  <2> QED
    BY <1>2, <2>1, AcceptType DEF RefundStart
<1>3. CASE RefundLoad(w)
  <2>1. Exists
    BY <1>3 DEF RefundLoad, At, Known, Placed
  <2>2. [op[w] EXCEPT !.pc = "refund_reserve", !.life = Loaded] \in Request
    BY <1>1, <2>1, LoadedType DEF Request
  <2>3. op' \in [Workers -> Request] /\ UNCHANGED <<tables, outside, counters>>
    BY <1>3, <2>2, MoveType, DoneType DEF RefundLoad
  <2> QED
    BY <2>3, OpOnly
<1>4. CASE RefundReserve(w)
  <2>1. ASSUME NEW n, n = Min(FreshRefunds), FreshRefunds # {}
        PROVE  /\ [op[w] EXCEPT !.pc = "refund_call", !.refund = n,
                                !.life = "REFUND_PENDING"] \in Request
               /\ n \in RefundIds
    <3>1. n \in RefundIds
      BY <2>1, LeastRefund
    <3> QED
      BY <1>1, <3>1 DEF Request, Lifecycle
  <2>2. op[w].amount \in Nat /\ op[w].key \in RefundKeys \cup {NoKey}
    BY <1>1 DEF Request
  <2>3. op' \in [Workers -> Request]
    BY <1>4, <2>1, MoveType, DoneType DEF RefundReserve
  <2>4. /\ refunds' = refunds
           \/ \E n \in RefundIds : refunds' = [refunds EXCEPT ![n] =
                [status |-> "PROCESSING", amount |-> op[w].amount, key |-> op[w].key]]
        /\ UNCHANGED <<row, txRefs, lastRef, hooks, outbox, outside, counters>>
    BY <1>4, <2>1 DEF RefundReserve
  <2> QED
    BY <2>2, <2>3, <2>4 DEF TypeOK, outside, counters
<1>5. CASE RefundCall(w)
  <2>1. op[w].refund \in RefundIds
    BY <1>5 DEF RefundCall, At, Known, Placed, Calling
  <2>2. ASSUME NEW answer \in RefundAnswers,
               Become(w, [op[w] EXCEPT
                 !.pc = "refund_settle", !.ans = answer,
                 !.ref = IF provider = "KOPOKOPO" THEN RefundCallback(op[w].refund)
                         ELSE NoReference,
                 !.latest = RefundReference(op[w].refund, answer)])
        PROVE  op' \in [Workers -> Request]
    <3>1. RefundCallback(op[w].refund) \in Callbacks
      BY <2>1, PaymentConstants DEF RefundCallback, Callbacks, RefundIds
    <3>2. RefundReference(op[w].refund, answer) \in References
      BY <3>1, PaymentConstants
         DEF RefundReference, TypeOK, References, UnknownReference, NoReference, Callbacks
    <3>3. answer \in Answer
      BY DEF RefundAnswers, Answer
    <3>4. [op[w] EXCEPT
             !.pc = "refund_settle", !.ans = answer,
             !.ref = IF provider = "KOPOKOPO" THEN RefundCallback(op[w].refund)
                     ELSE NoReference,
             !.latest = RefundReference(op[w].refund, answer)] \in Request
      BY <1>1, <3>1, <3>2, <3>3 DEF Request
    <3> QED
      BY <2>2, <3>4, MoveType
  <2>3. op' \in [Workers -> Request]
    BY <1>5, <2>2, ContinueType DEF RefundCall, Pcs
  <2>4. /\ payout' = payout \/ payout' = [payout EXCEPT ![op[w].refund] = "accepted"]
                               \/ payout' = [payout EXCEPT ![op[w].refund] = @]
        /\ faults' = faults \/ (faults > 0 /\ faults' = faults - 1)
        /\ UNCHANGED <<tables, gateway, provider, started, late, left>>
    BY <1>5 DEF RefundCall, LosesReply
  <2>5. /\ payout' \in [RefundIds -> {"none", "accepted", "refunded", "failed"}]
        /\ faults' \in Nat
    BY <2>4 DEF TypeOK
  <2> QED
    BY <2>3, <2>4, <2>5 DEF TypeOK, tables
<1>6. CASE RefundFail(w)
  <2>1. op' \in [Workers -> Request]
    BY <1>6, DoneType DEF RefundFail
  <2> QED
    BY <1>6, <2>1 DEF TypeOK, RefundFail, outside, counters
<1>7. CASE RefundSettle(w)
  <2>1. op' \in [Workers -> Request]
    BY <1>1, <1>7, ApplyType DEF RefundSettle, Pcs, Request
  <2> QED
    BY <1>7, <2>1 DEF TypeOK, RefundSettle, SettledRefund, outside, counters
<1> QED
  BY <1>2, <1>3, <1>4, <1>5, <1>6, <1>7 DEF RefundStep

LEMMA HookType ==
  ASSUME TypeOK, Known, NEW w \in Workers, HookStep(w)
  PROVE  TypeOK'
<1>1. op[w] \in Request
  BY DEF TypeOK
<1>2. ASSUME NEW c \in Callbacks, HookStart(w, c)
      PROVE  TypeOK'
  <2>1. [Idle EXCEPT !.pc = "hook_resolve", !.hook = c] \in Request
    BY IdleType DEF Request
  <2> QED
    BY <1>2, <2>1, AcceptType DEF HookStart
<1>3. CASE HookResolve(w)
  <2>1. CASE op[w].hook \in txRefs
    <3>1. Exists
      BY <2>1 DEF Known
    <3>2. [op[w] EXCEPT !.pc = "hook_claim", !.life = Loaded] \in Request
      BY <1>1, <3>1, LoadedType DEF Request
    <3>3. op' \in [Workers -> Request] /\ UNCHANGED <<tables, outside, counters>>
      BY <1>3, <2>1, <3>2, MoveType DEF HookResolve
    <3> QED
      BY <3>3, OpOnly
  <2>2. CASE op[w].hook \notin txRefs
    <3>1. op' \in [Workers -> Request] /\ UNCHANGED <<tables, outside, counters>>
      BY <1>3, <2>2, DoneType DEF HookResolve
    <3> QED
      BY <3>1, OpOnly
  <2> QED
    BY <2>1, <2>2
<1>4. CASE HookClaim(w)
  <2>1. AnswerFor(Reported(op[w].hook)) \in Answer
    BY DEF AnswerFor, Answer
  <2>2. [WithAnswer(op[w], AnswerFor(Reported(op[w].hook))) EXCEPT !.pc = "save"] \in Request
    BY <1>1, <2>1, AnsweredType DEF Pcs
  <2>3. op' \in [Workers -> Request]
    BY <1>4, <2>2, MoveType, DoneType, ContinueType DEF HookClaim, Pcs
  <2>4. hooks' \in [Callbacks -> {"NONE", "RECEIVED", "FAILED", "PROCESSED"}]
    BY <1>4 DEF HookClaim, TypeOK
  <2>5. UNCHANGED <<row, txRefs, lastRef, refunds, outbox, outside, counters>>
    BY <1>4 DEF HookClaim
  <2> QED
    BY <2>3, <2>4, <2>5 DEF TypeOK, outside, counters
<1>5. CASE HookFinalize(w)
  <2>1. op' \in [Workers -> Request]
    BY <1>5, DoneType DEF HookFinalize
  <2> QED
    BY <1>5, <2>1 DEF TypeOK, HookFinalize, outside, counters
<1>6. CASE HookFail(w)
  <2>1. op' \in [Workers -> Request]
    BY <1>6, DoneType DEF HookFail
  <2> QED
    BY <1>6, <2>1 DEF TypeOK, HookFail, FailedUnlessProcessed, outside, counters
<1> QED
  BY <1>2, <1>3, <1>4, <1>5, <1>6 DEF HookStep

LEMMA OutsideType ==
  ASSUME TypeOK,
         \/ \E w \in Workers : Abort(w)
         \/ \E r \in Requests : Settle(r)
         \/ \E n \in RefundIds : SettleRefund(n)
         \/ PassDeadline \/ Crash
  PROVE  TypeOK'
<1>1. ASSUME NEW w \in Workers, Abort(w)
      PROVE  TypeOK'
  <2>1. op' \in [Workers -> Request] /\ faults' \in Nat
    BY <1>1, ContinueType, DoneType DEF Abort, Pcs, TypeOK
  <2> QED
    BY <1>1, <2>1 DEF TypeOK, Abort, tables, outside
<1>2. ASSUME NEW r \in Requests, Settle(r)
      PROVE  TypeOK'
  BY <1>2 DEF TypeOK, Settle, tables, counters
<1>3. ASSUME NEW n \in RefundIds, SettleRefund(n)
      PROVE  TypeOK'
  BY <1>3 DEF TypeOK, SettleRefund, tables, counters
<1>4. CASE PassDeadline
  BY <1>4 DEF TypeOK, PassDeadline, tables, outside
<1>5. CASE Crash
  <2>1. op' \in [Workers -> Request] /\ faults' \in Nat
    BY <1>5, IdleType DEF Crash, TypeOK
  <2> QED
    BY <1>5, <2>1 DEF TypeOK, Crash, tables, outside
<1> QED
  BY <1>1, <1>2, <1>3, <1>4, <1>5

-----------------------------------------------------------------------------
WorkerStep(w) ==
  \/ CreateStep(w) \/ SaveTx(w) \/ Save(w) \/ Publish(w)
  \/ ChangeStep(w) \/ RefundStep(w) \/ HookStep(w) \/ Abort(w)

OutsideStep ==
  \/ \E r \in Requests : Settle(r)
  \/ \E n \in RefundIds : SettleRefund(n)
  \/ PassDeadline

LEMMA NextSteps == Next <=> (\E w \in Workers : WorkerStep(w)) \/ OutsideStep \/ Crash
  BY DEF Next, WorkerStep, OutsideStep

\* A step is one worker's: the others keep what they have in memory.
LEMMA Alone ==
  ASSUME NEW w \in Workers, WorkerStep(w), op \in [Workers -> Request]
  PROVE  \A v \in Workers : v # w => op'[v] = op[v]
<1>1. ASSUME NEW self, Become(w, self)
      PROVE  \A v \in Workers : v # w => op'[v] = op[v]
  BY <1>1 DEF Become
<1>2. CASE CreateStep(w)
  BY <1>1, <1>2 DEF CreateStep, CreateStart, CreateInsert, CreatePublish, CreateInitiate,
                    Accept, Continue, Done, ApplyThen
<1>3. CASE SaveTx(w) \/ Save(w) \/ Publish(w) \/ Abort(w)
  BY <1>1, <1>3 DEF SaveTx, Save, Publish, Abort, Continue, Done
<1>4. CASE ChangeStep(w)
  BY <1>1, <1>4 DEF ChangeStep, QueryStart, Query, RetryStart, RetryInitiate, ActStart, Act,
                    ManualApprove, Accept, Continue, Done, ApplyThen
<1>5. CASE RefundStep(w)
  BY <1>1, <1>5 DEF RefundStep, RefundStart, RefundLoad, RefundReserve, RefundCall, RefundFail,
                    RefundSettle, Accept, Continue, Done, ApplyThen
<1>6. CASE HookStep(w)
  BY <1>1, <1>6 DEF HookStep, HookStart, HookResolve, HookClaim, HookFinalize, HookFail,
                    Accept, Continue, Done
<1> QED
  BY <1>2, <1>3, <1>4, <1>5, <1>6 DEF WorkerStep

LEMMA InitKnown == Init => TypeOK /\ Known
<1> SUFFICES ASSUME Init
             PROVE  TypeOK /\ Known
  OBVIOUS
<1>1. op \in [Workers -> Request]
  BY IdleType DEF Init
<1>2. NoReference \in References
  BY PaymentConstants DEF NoReference, References, UnknownReference
<1>3. TypeOK
  BY <1>1, <1>2, PaymentConstants DEF Init, TypeOK, Unused
<1>4. Known
  BY DEF Init, Known, Placed, Idle, Calling, Hooking
<1> QED
  BY <1>3, <1>4

\* Rows are never deleted.
LEMMA RowKept ==
  ASSUME NEW w \in Workers, WorkerStep(w), ~CreateInsert(w), ~Save(w)
  PROVE  row' = row
<1>1. CASE CreateStep(w)
  BY <1>1 DEF CreateStep, CreateStart, CreatePublish, CreateInitiate, Accept, tables
<1>2. CASE SaveTx(w) \/ Publish(w) \/ ChangeStep(w) \/ Abort(w)
  BY <1>2 DEF SaveTx, Publish, Abort, ChangeStep, QueryStart, Query, RetryStart, RetryInitiate,
              ActStart, Act, ManualApprove, Accept, tables
<1>3. CASE RefundStep(w) \/ HookStep(w)
  BY <1>3 DEF RefundStep, RefundStart, RefundLoad, RefundReserve, RefundCall, RefundFail,
              RefundSettle, HookStep, HookStart, HookResolve, HookClaim, HookFinalize, HookFail,
              Accept, tables
<1> QED
  BY <1>1, <1>2, <1>3 DEF WorkerStep

LEMMA RowOutside ==
  ASSUME OutsideStep \/ Crash
  PROVE  row' = row
  BY DEF OutsideStep, Settle, SettleRefund, PassDeadline, Crash, tables

LEMMA ExistsStays ==
  ASSUME TypeOK, Next, Exists
  PROVE  Exists'
<1>1. \A w \in Workers : op[w].life \in Lifecycle
  BY DEF TypeOK, Request
<1>2. ASSUME NEW w \in Workers, CreateInsert(w) \/ Save(w)
      PROVE  Exists'
  BY <1>1, <1>2, StoredFacts DEF CreateInsert, Save, Exists
<1> QED
  BY <1>2, RowKept, RowOutside, NextSteps DEF Exists

LEMMA KnownStep ==
  ASSUME TypeOK, Known, NEW w \in Workers, WorkerStep(w), Exists => Exists',
         Placed(op[w])', txRefs' # {} => Exists'
  PROVE  Known'
<1>1. \A v \in Workers : v # w => Placed(op[v])'
  BY Alone DEF TypeOK, Known, Placed
<1> QED
  BY <1>1 DEF Known

\* The worker's copy after applyProviderResult has accepted the answer a.
Takes(w, a, pc) ==
  /\ Accepts(op[w].life, a)
  /\ op'[w].pc = pc /\ op'[w].ans = a
  /\ op'[w].life = Applied(op[w].life, a)
  /\ op'[w].ev = op[w].ev \o News(op[w].life, a)
  /\ op'[w].hook = op[w].hook /\ op'[w].refund = op[w].refund

\* ApplyThen: the answer is taken, or the transition was refused.
LEMMA ApplyEffect ==
  ASSUME TypeOK, NEW w \in Workers, NEW a, NEW pc,
         NEW ref, NEW latest,
         ApplyThen(w, [op[w] EXCEPT !.ref = ref, !.latest = latest], a, pc)
  PROVE  op'[w] = Idle \/ Takes(w, a, pc)
<1> DEFINE self == [op[w] EXCEPT !.ref = ref, !.latest = latest]
<1>1. op \in [Workers -> Request] /\ op[w] \in Request
  BY DEF TypeOK
<1>2. self.life = op[w].life /\ self.ev = op[w].ev /\ self.hook = op[w].hook
      /\ self.refund = op[w].refund
  BY <1>1 DEF Request
<1>3. DOMAIN self = DOMAIN op[w]
  BY <1>1 DEF Request
<1>4. CASE ~Accepts(self.life, a)
  BY <1>1, <1>4 DEF ApplyThen, Done, Become
<1>5. CASE Accepts(self.life, a)
  <2>1. op'[w] = [WithAnswer(self, a) EXCEPT !.pc = pc]
    BY <1>1, <1>5 DEF ApplyThen, Become
  <2> QED
    BY <1>1, <1>2, <1>3, <1>5, <2>1 DEF Takes, WithAnswer, Request
<1> QED
  BY <1>4, <1>5

LEMMA ApplySame ==
  ASSUME TypeOK, NEW w \in Workers, NEW a, NEW pc, ApplyThen(w, op[w], a, pc)
  PROVE  op'[w] = Idle \/ Takes(w, a, pc)
<1>1. op[w] \in Request
  BY DEF TypeOK
<1>2. op[w] = [op[w] EXCEPT !.ref = op[w].ref, !.latest = op[w].latest]
  BY <1>1 DEF Request
<1>3. ApplyThen(w, [op[w] EXCEPT !.ref = op[w].ref, !.latest = op[w].latest], a, pc)
  BY <1>2
<1> QED
  BY <1>3, ApplyEffect

LEMMA DoneEffect ==
  ASSUME TypeOK, NEW w \in Workers, Done(w)
  PROVE  op'[w] = Idle
  BY DEF TypeOK, Done, Become

LEMMA InitiateEffect ==
  ASSUME TypeOK, NEW w \in Workers, CreateInitiate(w)
  PROVE  /\ op[w].pc = "create_initiate" /\ started' = started + 1
         /\ UNCHANGED <<tables, payout, provider, late, left>>
         /\ \/ op'[w] = Idle
            \/ \E answer \in InitiateAnswers : Takes(w, answer, "save_tx")
            \/ /\ op'[w].pc = "save" /\ op'[w].life = "FAILED"
               /\ op'[w].ev = <<"PaymentFailed">> /\ op'[w].hook = op[w].hook
         /\ \/ UNCHANGED <<gateway, faults>>
            \/ /\ FreshRequests # {}
               /\ gateway' \in {[gateway EXCEPT ![Fresh] = "refused"],
                                [gateway EXCEPT ![Fresh] = "pending"]}
               /\ faults' \in {faults, faults - 1}
<1>1. op[w] \in Request /\ op \in [Workers -> Request]
  BY DEF TypeOK
<1>2. ASSUME NEW answer \in InitiateAnswers,
             LET ref == IF answer = "FAILED" THEN NoReference ELSE Fresh IN
             /\ Answered(answer)
             /\ ApplyThen(w, [op[w] EXCEPT !.ref = ref, !.latest = ref], answer, "save_tx")
      PROVE  Answered(answer) /\ (op'[w] = Idle \/ Takes(w, answer, "save_tx"))
  BY <1>2, ApplyEffect
<1>3. ASSUME Become(w, [op[w] EXCEPT !.pc = "save", !.life = "FAILED", !.ev = <<"PaymentFailed">>])
      PROVE  /\ op'[w].pc = "save" /\ op'[w].life = "FAILED"
             /\ op'[w].ev = <<"PaymentFailed">> /\ op'[w].hook = op[w].hook
  BY <1>1, <1>3 DEF Become, Request
<1>4. /\ op[w].pc = "create_initiate" /\ started' = started + 1
      /\ UNCHANGED <<tables, payout, provider, late, left>>
  BY Zenon DEF CreateInitiate, At
<1>5. CASE \E answer \in InitiateAnswers :
             LET ref == IF answer = "FAILED" THEN NoReference ELSE Fresh IN
             /\ Answered(answer)
             /\ ApplyThen(w, [op[w] EXCEPT !.ref = ref, !.latest = ref], answer, "save_tx")
  <2>1. PICK answer \in InitiateAnswers :
               Answered(answer) /\ (op'[w] = Idle \/ Takes(w, answer, "save_tx"))
    BY <1>2, <1>5
  <2> QED
    BY <1>4, <2>1 DEF Answered
<1>6. CASE /\ Refused \/ TimedOut
           /\ Become(w, [op[w] EXCEPT !.pc = "save", !.life = "FAILED", !.ev = <<"PaymentFailed">>])
  BY <1>3, <1>4, <1>6 DEF Refused, TimedOut, LosesReply
<1> QED
  BY <1>5, <1>6 DEF CreateInitiate

\* A request begins: the fields of Idle that are not given stay as they are.
Begins(w, pc, life, ev, hook) ==
  /\ op[w].pc = "idle" /\ op'[w].pc = pc /\ op'[w].life = life /\ op'[w].ev = ev
  /\ op'[w].hook = hook /\ op'[w].refund = 0
  /\ UNCHANGED <<tables, outside, provider, started, late, faults>>

\* How each request begins.
LEMMA StartEffect ==
  ASSUME TypeOK, NEW w \in Workers
  PROVE  /\ CreateStart(w) =>
              ~Exists /\ Begins(w, "create_insert", "INITIATION_PENDING", <<"PaymentCreated">>, 0)
         /\ QueryStart(w) => Exists /\ Begins(w, "query", Loaded, << >>, 0)
         /\ RetryStart(w) =>
              Exists /\ Begins(w, "retry_initiate", "INITIATION_PENDING", << >>, 0)
         /\ \A action \in {"cancel", "reverse"} : ActStart(w, action) =>
              /\ Exists
              /\ Begins(w, action, IF action = "reverse" /\ Loaded = "CAPTURED"
                                   THEN "REVERSAL_PENDING" ELSE Loaded, << >>, 0)
         /\ ManualApprove(w) =>
              /\ Exists /\ provider = "MANUAL"
              /\ Begins(w, "save", "CAPTURED", <<"PaymentAuthorised", "PaymentCompleted">>, 0)
         /\ \A key \in RefundKeys, amount \in RefundAmounts : RefundStart(w, key, amount) =>
              Exists /\ Begins(w, "refund_load", "CREATED", << >>, 0)
         /\ \A c \in Callbacks : HookStart(w, c) =>
              Reported(c) # "none" /\ Begins(w, "hook_resolve", "CREATED", << >>, c)
<1> USE DEF TypeOK, Begins, Accept, At, Become, Idle
<1>1. CreateStart(w) =>
        ~Exists /\ Begins(w, "create_insert", "INITIATION_PENDING", <<"PaymentCreated">>, 0)
  BY DEF CreateStart
<1>2. QueryStart(w) => Exists /\ Begins(w, "query", Loaded, << >>, 0)
  BY DEF QueryStart
<1>3. RetryStart(w) => Exists /\ Begins(w, "retry_initiate", "INITIATION_PENDING", << >>, 0)
  BY DEF RetryStart
<1>4. ASSUME NEW action \in {"cancel", "reverse"}, ActStart(w, action)
      PROVE  /\ Exists
             /\ Begins(w, action, IF action = "reverse" /\ Loaded = "CAPTURED"
                                  THEN "REVERSAL_PENDING" ELSE Loaded, << >>, 0)
  BY <1>4 DEF ActStart
<1>5. ManualApprove(w) =>
        /\ Exists /\ provider = "MANUAL"
        /\ Begins(w, "save", "CAPTURED", <<"PaymentAuthorised", "PaymentCompleted">>, 0)
  BY DEF ManualApprove
<1>6. ASSUME NEW key \in RefundKeys, NEW amount \in RefundAmounts, RefundStart(w, key, amount)
      PROVE  Exists /\ Begins(w, "refund_load", "CREATED", << >>, 0)
  BY <1>6 DEF RefundStart
<1>7. ASSUME NEW c \in Callbacks, HookStart(w, c)
      PROVE  Reported(c) # "none" /\ Begins(w, "hook_resolve", "CREATED", << >>, c)
  BY <1>7 DEF HookStart
<1> HIDE DEF TypeOK, Begins, Accept, At, Become, Idle
<1> QED
  BY <1>1, <1>2, <1>3, <1>4, <1>5, <1>6, <1>7

LEMMA PublishEffect ==
  ASSUME TypeOK, NEW w \in Workers, Publish(w)
  PROVE  /\ op[w].pc = "publish"
         /\ outbox' = [t \in EventType |-> outbox[t] + Appended(op[w].ev, t)]
         /\ UNCHANGED <<row, txRefs, lastRef, refunds, hooks, outside, counters>>
         /\ \/ op[w].hook = 0 /\ op'[w] = Idle
            \/ /\ op[w].hook # 0 /\ op'[w].hook = op[w].hook /\ op'[w].pc = "hook_finalize"
               /\ op'[w].life = op[w].life /\ op'[w].ev = << >>
<1>1. op \in [Workers -> Request] /\ op[w] \in Request
  BY DEF TypeOK
<1>2. ASSUME Become(w, [op[w] EXCEPT !.pc = "hook_finalize", !.ev = << >>])
      PROVE  /\ op'[w].hook = op[w].hook /\ op'[w].pc = "hook_finalize"
             /\ op'[w].life = op[w].life /\ op'[w].ev = << >>
  BY <1>1, <1>2 DEF Become, Request
<1> QED
  BY <1>2, DoneEffect DEF Publish, At

LEMMA AbortEffect ==
  ASSUME TypeOK, NEW w \in Workers, Abort(w)
  PROVE  /\ op[w].pc # "idle" /\ faults > 0 /\ faults' = faults - 1
         /\ UNCHANGED <<tables, outside, provider, started, late, left>>
         /\ \/ op'[w] = Idle
            \/ /\ op[w].hook # 0 /\ op[w].pc \in {"save", "publish", "hook_finalize"}
               /\ op'[w].pc = "hook_fail" /\ op'[w].hook = op[w].hook
               /\ op'[w].life = op[w].life /\ op'[w].ev = op[w].ev
<1>1. op \in [Workers -> Request] /\ op[w] \in Request
  BY DEF TypeOK
<1>2. ASSUME Continue(w, "hook_fail")
      PROVE  /\ op'[w].pc = "hook_fail" /\ op'[w].hook = op[w].hook
             /\ op'[w].life = op[w].life /\ op'[w].ev = op[w].ev
  BY <1>1, <1>2 DEF Continue, Become, Request
<1> QED
  BY <1>2, DoneEffect DEF Abort, At

LEMMA ReadEffect ==
  ASSUME TypeOK, NEW w \in Workers
  PROVE  /\ RefundLoad(w) =>
              /\ op[w].pc = "refund_load" /\ UNCHANGED <<tables, outside, counters>>
              /\ \/ op'[w] = Idle
                 \/ /\ Loaded \in {"CAPTURED", "PARTIALLY_REFUNDED"}
                    /\ op'[w].pc = "refund_reserve" /\ op'[w].life = Loaded
                    /\ op'[w].ev = op[w].ev /\ op'[w].hook = op[w].hook
         /\ HookResolve(w) =>
              /\ op[w].pc = "hook_resolve" /\ UNCHANGED <<tables, outside, counters>>
              /\ \/ op'[w] = Idle
                 \/ /\ op[w].hook \in txRefs
                    /\ op'[w].pc = "hook_claim" /\ op'[w].life = Loaded
                    /\ op'[w].ev = op[w].ev /\ op'[w].hook = op[w].hook
<1>1. op \in [Workers -> Request] /\ op[w] \in Request
  BY DEF TypeOK
<1>2. ASSUME NEW pc, Become(w, [op[w] EXCEPT !.pc = pc, !.life = Loaded])
      PROVE  /\ op'[w].pc = pc /\ op'[w].life = Loaded
             /\ op'[w].ev = op[w].ev /\ op'[w].hook = op[w].hook
  BY <1>1, <1>2 DEF Become, Request
<1> QED
  BY <1>2, DoneEffect DEF RefundLoad, HookResolve, At

LEMMA QueryEffect ==
  ASSUME TypeOK, NEW w \in Workers, Query(w)
  PROVE  /\ op[w].pc = "query" /\ UNCHANGED <<tables, outside, counters>>
         /\ op'[w] = Idle \/ \E answer \in QueryAnswers : Takes(w, answer, "save")
  BY ApplySame, DoneEffect DEF Query, At

LEMMA RetryEffect ==
  ASSUME TypeOK, NEW w \in Workers, RetryInitiate(w)
  PROVE  /\ op[w].pc = "retry_initiate"
         /\ UNCHANGED <<tables, payout, provider, started, late, left>>
         /\ op'[w] = Idle \/ \E answer \in InitiateAnswers : Takes(w, answer, "save_tx")
         /\ \/ UNCHANGED <<gateway, faults>>
            \/ /\ FreshRequests # {}
               /\ gateway' \in {[gateway EXCEPT ![Fresh] = "refused"],
                                [gateway EXCEPT ![Fresh] = "pending"]}
               /\ faults' \in {faults, faults - 1}
<1>1. CASE \E answer \in InitiateAnswers :
             /\ Answered(answer)
             /\ ApplyThen(w, [op[w] EXCEPT
                  !.ref = IF answer = "FAILED" THEN NoReference ELSE Fresh,
                  !.latest = IF answer = "FAILED" THEN NoReference
                             ELSE IF provider = "DARAJA" THEN UnknownReference
                             ELSE Fresh], answer, "save_tx")
  <2>1. PICK answer \in InitiateAnswers :
               Answered(answer) /\ (op'[w] = Idle \/ Takes(w, answer, "save_tx"))
    BY <1>1, ApplyEffect
  <2> QED
    BY <2>1 DEF Answered, RetryInitiate, At
<1>2. CASE (Refused \/ TimedOut) /\ Done(w)
  BY <1>2, DoneEffect DEF Refused, TimedOut, LosesReply, RetryInitiate, At
<1> QED
  BY <1>1, <1>2 DEF RetryInitiate

LEMMA ActEffect ==
  ASSUME TypeOK, NEW w \in Workers, Act(w)
  PROVE  /\ op[w].pc \in {"cancel", "reverse"} /\ UNCHANGED <<tables, outside, counters>>
         /\ \/ op'[w] = Idle
            \/ /\ provider = "MANUAL"
               /\ \E answer \in {"CANCELLED", "REVERSED"} : Takes(w, answer, "save_tx")
<1>1. op[w] \in Request
  BY DEF TypeOK
<1>2. [op[w] EXCEPT !.latest = lastRef] = [op[w] EXCEPT !.ref = op[w].ref, !.latest = lastRef]
  BY <1>1 DEF Request
<1>3. ASSUME NEW answer, ApplyThen(w, [op[w] EXCEPT !.latest = lastRef], answer, "save_tx")
      PROVE  op'[w] = Idle \/ Takes(w, answer, "save_tx")
  <2>1. ApplyThen(w, [op[w] EXCEPT !.ref = op[w].ref, !.latest = lastRef], answer, "save_tx")
    BY <1>2, <1>3
  <2> QED
    BY <2>1, ApplyEffect
<1> QED
  BY <1>3, DoneEffect DEF Act, At

LEMMA ReserveEffect ==
  ASSUME TypeOK, NEW w \in Workers, RefundReserve(w)
  PROVE  /\ op[w].pc = "refund_reserve"
         /\ UNCHANGED <<row, txRefs, lastRef, hooks, outbox, outside, counters>>
         /\ \/ op'[w] = Idle /\ refunds' = refunds
            \/ /\ Reserved + op[w].amount <= Amount
               /\ op'[w].pc = "refund_call" /\ op'[w].life = "REFUND_PENDING"
               /\ op'[w].ev = op[w].ev /\ op'[w].hook = op[w].hook
               /\ op'[w].refund \in RefundIds /\ refunds[op'[w].refund].status = "NONE"
               /\ refunds' = [refunds EXCEPT ![op'[w].refund] =
                    [status |-> "PROCESSING", amount |-> op[w].amount, key |-> op[w].key]]
<1>1. op[w] \in Request /\ op \in [Workers -> Request]
  BY DEF TypeOK
<1>2. CASE Reserved + op[w].amount <= Amount
  <2>1. PICK n : /\ n \in RefundIds /\ refunds[n].status = "NONE"
                 /\ refunds' = [refunds EXCEPT ![n] =
                      [status |-> "PROCESSING", amount |-> op[w].amount, key |-> op[w].key]]
                 /\ Become(w, [op[w] EXCEPT !.pc = "refund_call", !.refund = n,
                                            !.life = "REFUND_PENDING"])
    BY <1>2, LeastRefund DEF RefundReserve
  <2>2. /\ op'[w].pc = "refund_call" /\ op'[w].life = "REFUND_PENDING" /\ op'[w].refund = n
        /\ op'[w].ev = op[w].ev /\ op'[w].hook = op[w].hook
    BY <1>1, <2>1 DEF Become, Request
  <2> QED
    BY <1>2, <2>1, <2>2 DEF RefundReserve, At
<1>3. CASE ~(Reserved + op[w].amount <= Amount)
  BY <1>3, DoneEffect DEF RefundReserve, At
<1> QED
  BY <1>2, <1>3

LEMMA CallEffect ==
  ASSUME TypeOK, NEW w \in Workers, RefundCall(w)
  PROVE  /\ op[w].pc = "refund_call"
         /\ UNCHANGED <<tables, gateway, provider, started, late, left>>
         /\ op'[w].refund = op[w].refund /\ op'[w].hook = op[w].hook
         /\ op'[w].life = op[w].life /\ op'[w].ev = op[w].ev
         /\ \/ /\ op'[w].pc = "refund_settle" /\ op'[w].ans \in RefundAnswers
               /\ faults' = faults
               /\ IF op'[w].ans = "FAILED" THEN payout' = payout
                  ELSE payout' = [payout EXCEPT ![op[w].refund] = "accepted"]
            \/ op'[w].pc = "refund_fail" /\ UNCHANGED <<payout, faults>>
            \/ /\ op'[w].pc = "refund_fail" /\ faults > 0 /\ faults' = faults - 1
               /\ payout' = [payout EXCEPT ![op[w].refund] = "accepted"]
<1>1. op[w] \in Request /\ op \in [Workers -> Request]
  BY DEF TypeOK
<1>2. ASSUME NEW answer \in RefundAnswers, NEW ref, NEW latest,
             Become(w, [op[w] EXCEPT !.pc = "refund_settle", !.ans = answer,
                                     !.ref = ref, !.latest = latest])
      PROVE  /\ op'[w].pc = "refund_settle" /\ op'[w].ans = answer
             /\ op'[w].refund = op[w].refund /\ op'[w].hook = op[w].hook
             /\ op'[w].life = op[w].life /\ op'[w].ev = op[w].ev
  BY <1>1, <1>2 DEF Become, Request
<1>3. ASSUME Continue(w, "refund_fail")
      PROVE  /\ op'[w].pc = "refund_fail"
             /\ op'[w].refund = op[w].refund /\ op'[w].hook = op[w].hook
             /\ op'[w].life = op[w].life /\ op'[w].ev = op[w].ev
  BY <1>1, <1>3 DEF Continue, Become, Request
<1>4. payout = [payout EXCEPT ![op[w].refund] = @]
  BY DEF TypeOK
<1> QED
  BY <1>2, <1>3, <1>4 DEF RefundCall, LosesReply, At

LEMMA SettleEffect ==
  ASSUME TypeOK, NEW w \in Workers, RefundSettle(w)
  PROVE  /\ op[w].pc = "refund_settle"
         /\ UNCHANGED <<row, txRefs, lastRef, hooks, outbox, outside, counters>>
         /\ refunds' = [refunds EXCEPT ![op[w].refund] = SettledRefund(op[w].ans, @)]
         /\ op'[w] = Idle \/ Takes(w, op[w].ans, "save_tx")
  BY ApplySame DEF RefundSettle, At

LEMMA ClaimEffect ==
  ASSUME TypeOK, NEW w \in Workers, HookClaim(w)
  PROVE  /\ op[w].pc = "hook_claim"
         /\ UNCHANGED <<row, txRefs, lastRef, refunds, outbox, outside, counters>>
         /\ \/ op'[w] = Idle /\ hooks' = hooks
            \/ /\ Claimable(hooks[op[w].hook])
               /\ hooks' = [hooks EXCEPT ![op[w].hook] = "RECEIVED"]
               /\ \/ Takes(w, AnswerFor(Reported(op[w].hook)), "save")
                  \/ /\ op'[w].pc = "hook_fail" /\ op'[w].life = op[w].life
                     /\ op'[w].ev = op[w].ev /\ op'[w].hook = op[w].hook
<1>1. op[w] \in Request /\ op \in [Workers -> Request]
  BY DEF TypeOK
<1> DEFINE answer == AnswerFor(Reported(op[w].hook))
<1>2. ASSUME Accepts(op[w].life, answer),
             Become(w, [WithAnswer(op[w], answer) EXCEPT !.pc = "save"])
      PROVE  Takes(w, answer, "save")
  BY <1>1, <1>2, ApplySame DEF Become, Takes, WithAnswer, Request
<1>3. ASSUME Continue(w, "hook_fail")
      PROVE  /\ op'[w].pc = "hook_fail" /\ op'[w].life = op[w].life
             /\ op'[w].ev = op[w].ev /\ op'[w].hook = op[w].hook
  BY <1>1, <1>3 DEF Continue, Become, Request
<1> QED
  BY <1>2, <1>3, DoneEffect DEF HookClaim, At

LEMMA KnownCreate ==
  ASSUME TypeOK, Known, NEW w \in Workers, CreateStep(w), Exists => Exists'
  PROVE  Placed(op[w])' /\ (txRefs' # {} => Exists')
<1>1. op \in [Workers -> Request] /\ op[w].life \in Lifecycle /\ Placed(op[w])
  BY DEF TypeOK, Request, Known
<1>2. CASE CreateStart(w)
  BY <1>1, <1>2 DEF CreateStart, Accept, Become, Known, Placed, Idle, Calling, Hooking, tables
<1>3. CASE CreateInsert(w)
  <2>1. Exists'
    BY <1>1, <1>3, StoredFacts DEF CreateInsert, Exists, KeyFree
  <2> QED
    BY <1>1, <1>3, <2>1 DEF CreateInsert, Continue, Done, Become, Placed, Idle, Request,
                            Calling, Hooking
<1>4. CASE CreatePublish(w)
  BY <1>1, <1>4 DEF CreatePublish, At, Become, Placed, Request, Calling, Hooking
<1>5. CASE CreateInitiate(w)
  <2>1. /\ op[w].pc = "create_initiate" /\ UNCHANGED tables
        /\ op'[w] = Idle \/ op'[w].pc \in {"save_tx", "save"}
    BY <1>5, InitiateEffect DEF Takes
  <2> QED
    BY <1>1, <2>1 DEF Placed, Idle, Calling, Hooking, tables, Exists, Known
<1> QED
  BY <1>2, <1>3, <1>4, <1>5 DEF CreateStep

LEMMA KnownShared ==
  ASSUME TypeOK, Known, NEW w \in Workers, SaveTx(w) \/ Save(w) \/ Publish(w) \/ Abort(w),
         Exists => Exists'
  PROVE  Placed(op[w])' /\ (txRefs' # {} => Exists')
<1>1. op \in [Workers -> Request] /\ op[w] \in Request /\ Placed(op[w])
  BY DEF TypeOK, Known
<1>2. CASE SaveTx(w)
  BY <1>1, <1>2 DEF SaveTx, At, Continue, Become, Placed, Request, Calling, Hooking
<1>3. CASE Save(w)
  BY <1>1, <1>3 DEF Save, At, Continue, Become, Placed, Request, Calling, Hooking, Known
<1>4. CASE Publish(w)
  <2>1. /\ op[w].pc = "publish" /\ UNCHANGED <<row, txRefs>>
        /\ op'[w] = Idle \/ (op'[w].hook \in Callbacks /\ op'[w].pc = "hook_finalize")
    BY <1>1, <1>4, PublishEffect DEF Request
  <2> QED
    BY <1>1, <2>1 DEF Placed, Idle, Calling, Hooking, Exists, Known
<1>5. CASE Abort(w)
  <2>1. /\ op[w].pc # "idle" /\ UNCHANGED tables
        /\ \/ op'[w] = Idle
           \/ /\ op[w].pc \in {"save", "publish", "hook_finalize"}
              /\ op'[w].hook \in Callbacks /\ op'[w].pc = "hook_fail"
    BY <1>1, <1>5, AbortEffect DEF Request
  <2> QED
    BY <1>1, <2>1 DEF Placed, Idle, Calling, Hooking, Exists, Known, tables
<1> QED
  BY <1>2, <1>3, <1>4, <1>5

LEMMA KnownChange ==
  ASSUME TypeOK, Known, NEW w \in Workers, ChangeStep(w), Exists => Exists'
  PROVE  Placed(op[w])' /\ (txRefs' # {} => Exists')
<1>1. Placed(op[w])
  BY DEF Known
<1>3. CASE QueryStart(w)
  <2>1. Exists /\ UNCHANGED tables /\ op'[w].pc = "query"
    BY <1>3, StartEffect DEF Begins
  <2> QED
    BY <2>1 DEF Placed, Calling, Hooking, Exists, tables
<1>4. CASE Query(w)
  <2>1. op[w].pc = "query" /\ (op'[w] = Idle \/ op'[w].pc = "save") /\ UNCHANGED tables
    BY <1>4, QueryEffect DEF Takes
  <2> QED
    BY <1>1, <2>1 DEF Placed, Idle, Calling, Hooking, Exists, Known, tables
<1>5. CASE RetryStart(w)
  <2>1. Exists /\ UNCHANGED tables /\ op'[w].pc = "retry_initiate"
    BY <1>5, StartEffect DEF Begins
  <2> QED
    BY <2>1 DEF Placed, Calling, Hooking, Exists, tables
<1>6. CASE RetryInitiate(w)
  <2>1. op[w].pc = "retry_initiate" /\ (op'[w] = Idle \/ op'[w].pc = "save_tx")
    BY <1>6, RetryEffect DEF Takes
  <2> QED
    BY <1>1, <2>1 DEF Placed, Idle, Calling, Hooking, Exists, Known, tables
<1>7. ASSUME NEW action \in {"cancel", "reverse"}, ActStart(w, action)
      PROVE  Placed(op[w])' /\ (txRefs' # {} => Exists')
  <2>1. Exists /\ UNCHANGED tables /\ op'[w].pc = action
    BY <1>7, StartEffect DEF Begins
  <2> QED
    BY <2>1 DEF Placed, Calling, Hooking, Exists, tables
<1>8. CASE Act(w)
  <2>1. op[w].pc \in {"cancel", "reverse"} /\ (op'[w] = Idle \/ op'[w].pc = "save_tx")
    BY <1>8, ActEffect DEF Takes
  <2> QED
    BY <1>1, <2>1 DEF Placed, Idle, Calling, Hooking, Exists, Known, tables
<1>9. CASE ManualApprove(w)
  <2>1. Exists /\ UNCHANGED tables /\ op'[w].pc = "save"
    BY <1>9, StartEffect DEF Begins
  <2> QED
    BY <2>1 DEF Placed, Calling, Hooking, Exists, tables
<1> QED
  BY <1>3, <1>4, <1>5, <1>6, <1>7, <1>8, <1>9 DEF ChangeStep

LEMMA KnownRefund ==
  ASSUME TypeOK, Known, NEW w \in Workers, RefundStep(w), Exists => Exists'
  PROVE  Placed(op[w])' /\ (txRefs' # {} => Exists')
<1>1. Placed(op[w]) /\ (txRefs # {} => Exists) /\ op[w] \in Request /\ op \in [Workers -> Request]
  BY DEF Known, TypeOK
<1> USE DEF Placed, Calling, Hooking
<1>2. ASSUME NEW key \in RefundKeys, NEW amount \in RefundAmounts, RefundStart(w, key, amount)
      PROVE  Placed(op[w])' /\ (txRefs' # {} => Exists')
  <2>1. Exists /\ UNCHANGED tables /\ op'[w].pc = "refund_load"
    BY <1>2, StartEffect DEF Begins
  <2> QED
    BY <1>1, <2>1 DEF tables, Exists
<1>3. CASE RefundLoad(w)
  <2>1. /\ op[w].pc = "refund_load" /\ UNCHANGED tables
        /\ op'[w] = Idle \/ op'[w].pc = "refund_reserve"
    BY <1>3, ReadEffect
  <2> QED
    BY <1>1, <2>1 DEF Idle, tables, Exists
<1>4. CASE RefundReserve(w)
  <2>1. /\ op[w].pc = "refund_reserve" /\ UNCHANGED <<row, txRefs>>
        /\ op'[w] = Idle \/ (op'[w].pc = "refund_call" /\ op'[w].refund \in RefundIds)
    BY <1>4, ReserveEffect
  <2> QED
    BY <1>1, <2>1 DEF Idle, Exists
<1>5. CASE RefundCall(w)
  <2>1. /\ op[w].pc = "refund_call" /\ UNCHANGED tables /\ op'[w].refund = op[w].refund
        /\ op'[w].pc \in {"refund_settle", "refund_fail"}
    BY <1>5, CallEffect
  <2> QED
    BY <1>1, <2>1 DEF tables, Exists
<1>6. CASE RefundFail(w)
  <2>1. op'[w] = Idle /\ UNCHANGED <<row, txRefs>>
    BY <1>6, DoneEffect DEF RefundFail
  <2> QED
    BY <1>1, <2>1 DEF Idle, Exists
<1>7. CASE RefundSettle(w)
  <2>1. /\ op[w].pc = "refund_settle" /\ UNCHANGED <<row, txRefs>>
        /\ op'[w] = Idle \/ op'[w].pc = "save_tx"
    BY <1>7, SettleEffect DEF Takes
  <2> QED
    BY <1>1, <2>1 DEF Idle, Exists
<1> QED
  BY <1>2, <1>3, <1>4, <1>5, <1>6, <1>7 DEF RefundStep

LEMMA KnownHook ==
  ASSUME TypeOK, Known, NEW w \in Workers, HookStep(w), Exists => Exists'
  PROVE  Placed(op[w])' /\ (txRefs' # {} => Exists')
<1>1. Placed(op[w]) /\ (txRefs # {} => Exists) /\ op[w] \in Request /\ op \in [Workers -> Request]
  BY DEF Known, TypeOK
<1> USE DEF Placed, Calling, Hooking
<1>2. ASSUME NEW c \in Callbacks, HookStart(w, c)
      PROVE  Placed(op[w])' /\ (txRefs' # {} => Exists')
  <2>1. op'[w].hook = c /\ UNCHANGED tables /\ op'[w].pc = "hook_resolve"
    BY <1>2, StartEffect DEF Begins
  <2> QED
    BY <1>1, <2>1 DEF tables, Exists
<1>3. CASE HookResolve(w)
  <2>1. /\ UNCHANGED tables
        /\ op'[w] = Idle \/ (/\ op[w].hook \in txRefs /\ op'[w].pc = "hook_claim"
                             /\ op'[w].hook = op[w].hook)
    BY <1>3, ReadEffect
  <2>2. txRefs \subseteq Callbacks
    BY DEF TypeOK
  <2> QED
    BY <1>1, <2>1, <2>2 DEF Idle, tables, Exists
<1>4. CASE HookClaim(w)
  <2>1. /\ op[w].pc = "hook_claim" /\ UNCHANGED <<row, txRefs>>
        /\ \/ op'[w] = Idle \/ op'[w].pc = "save"
           \/ (op'[w].pc = "hook_fail" /\ op'[w].hook = op[w].hook)
    BY <1>1, <1>4, ClaimEffect DEF Takes, Request
  <2> QED
    BY <1>1, <2>1 DEF Idle, Exists
<1>5. CASE HookFinalize(w) \/ HookFail(w)
  <2>1. op'[w] = Idle /\ UNCHANGED <<row, txRefs>>
    BY <1>5, DoneEffect DEF HookFinalize, HookFail
  <2> QED
    BY <1>1, <2>1 DEF Idle, Exists
<1> QED
  BY <1>2, <1>3, <1>4, <1>5 DEF HookStep

\* The tables, the requests in flight and the gateway keep their types, and a
\* request past its first read works on a payment that exists.
THEOREM TypeCorrect == Spec => [](TypeOK /\ Known)
<1>1. ASSUME TypeOK, Known, Next
      PROVE  TypeOK' /\ Known'
  <2>1. Exists => Exists'
    BY <1>1, ExistsStays
  <2>2. ASSUME NEW w \in Workers, WorkerStep(w)
        PROVE  TypeOK' /\ Known'
    <3>1. TypeOK'
      BY <1>1, <2>2, CreateType, SharedType, ChangeType, RefundType, HookType, OutsideType
         DEF WorkerStep
    <3>2. Placed(op[w])' /\ (txRefs' # {} => Exists')
      BY <1>1, <2>1, <2>2, KnownCreate, KnownShared, KnownChange, KnownRefund, KnownHook
         DEF WorkerStep
    <3> QED
      BY <1>1, <2>1, <2>2, <3>1, <3>2, KnownStep
  <2>3. CASE OutsideStep
    <3>1. TypeOK'
      BY <1>1, <2>3, OutsideType DEF OutsideStep
    <3>2. UNCHANGED <<row, txRefs, op>>
      BY <2>3 DEF OutsideStep, Settle, SettleRefund, PassDeadline, tables
    <3> QED
      BY <1>1, <3>1, <3>2 DEF Known, Placed, Exists
  <2>4. CASE Crash
    <3>1. TypeOK'
      BY <1>1, <2>4, OutsideType
    <3>2. Known'
      BY <1>1, <2>4 DEF Crash, Known, Placed, Exists, Idle, Calling, Hooking, tables
    <3> QED
      BY <3>1, <3>2
  <2> QED
    BY <1>1, <2>2, <2>3, <2>4, NextSteps
<1>2. TypeOK /\ Known /\ [Next]_vars => (TypeOK /\ Known)'
  <2>1. ASSUME TypeOK, Known, UNCHANGED vars
        PROVE  TypeOK' /\ Known'
    <3>1. UNCHANGED <<provider, row, txRefs, lastRef, refunds, hooks, outbox, op, gateway,
                      payout, started, late, left, faults>>
      BY <2>1 DEF vars
    <3>2. TypeOK'
      BY <2>1, <3>1 DEF TypeOK
    <3>3. Known'
      BY <2>1, <3>1 DEF Known, Placed, Exists
    <3> QED
      BY <3>2, <3>3
  <2> QED
    BY <1>1, <2>1
<1> QED
  BY <1>2, InitKnown, PTL DEF Spec

-----------------------------------------------------------------------------
\* One initiation per key.

Creating == {"create_publish", "create_initiate"}

\* One request at most is between its insert and its initiation, and it is the first.
InitiatedOnce ==
  /\ started \in {0, 1} /\ (started = 1 => Exists)
  /\ \A v, w \in Workers : op[v].pc \in Creating /\ op[w].pc \in Creating => v = w
  /\ \A w \in Workers : op[w].pc \in Creating => started = 0

\* No other request counts an initiation or stands before one.
LEMMA OnlyCreateInitiates ==
  ASSUME TypeOK, NEW w \in Workers,
         SaveTx(w) \/ Save(w) \/ Publish(w) \/ ChangeStep(w) \/ RefundStep(w) \/ HookStep(w)
           \/ Abort(w)
  PROVE  started' = started /\ op'[w].pc \notin Creating
<1>1. op \in [Workers -> Request] /\ op[w] \in Request
  BY DEF TypeOK
<1> USE DEF Creating
<1>2. CASE SaveTx(w) \/ Save(w)
  BY <1>1, <1>2 DEF SaveTx, Save, Continue, Become, Request, counters
<1>3. CASE Publish(w)
  BY <1>3, PublishEffect, IdleFields DEF counters
<1>4. CASE Abort(w)
  BY <1>4, AbortEffect, IdleFields
<1>5. CASE ChangeStep(w)
  <2>1. CASE QueryStart(w) \/ RetryStart(w) \/ ManualApprove(w)
             \/ \E action \in {"cancel", "reverse"} : ActStart(w, action)
    BY <2>1, StartEffect DEF Begins
  <2>2. CASE Query(w)
    BY <2>2, QueryEffect, IdleFields DEF Takes, counters
  <2>3. CASE RetryInitiate(w)
    BY <2>3, RetryEffect, IdleFields DEF Takes
  <2>4. CASE Act(w)
    BY <2>4, ActEffect, IdleFields DEF Takes, counters
  <2> QED
    BY <1>5, <2>1, <2>2, <2>3, <2>4 DEF ChangeStep
<1>6. CASE RefundStep(w)
  <2>1. CASE \E key \in RefundKeys, amount \in RefundAmounts : RefundStart(w, key, amount)
    BY <2>1, StartEffect DEF Begins
  <2>2. CASE RefundLoad(w)
    BY <2>2, ReadEffect, IdleFields DEF counters
  <2>3. CASE RefundReserve(w)
    <3>1. (op'[w] = Idle \/ op'[w].pc = "refund_call") /\ UNCHANGED counters
      BY <2>3, ReserveEffect
    <3> QED
      BY <3>1, IdleFields DEF counters
  <2>4. CASE RefundCall(w)
    BY <2>4, CallEffect
  <2>5. CASE RefundFail(w)
    BY <2>5, DoneEffect DEF RefundFail, Idle, counters
  <2>6. CASE RefundSettle(w)
    <3>1. (op'[w] = Idle \/ op'[w].pc = "save_tx") /\ UNCHANGED counters
      BY <2>6, SettleEffect DEF Takes
    <3> QED
      BY <3>1, IdleFields DEF counters
  <2> QED
    BY <1>6, <2>1, <2>2, <2>3, <2>4, <2>5, <2>6 DEF RefundStep
<1>7. CASE HookStep(w)
  <2>1. CASE \E c \in Callbacks : HookStart(w, c)
    BY <2>1, StartEffect DEF Begins
  <2>2. CASE HookResolve(w)
    BY <2>2, ReadEffect, IdleFields DEF counters
  <2>3. CASE HookClaim(w)
    BY <2>3, ClaimEffect, IdleFields DEF Takes, counters
  <2>4. CASE HookFinalize(w) \/ HookFail(w)
    BY <2>4, DoneEffect DEF HookFinalize, HookFail, Idle, counters
  <2> QED
    BY <1>7, <2>1, <2>2, <2>3, <2>4 DEF HookStep
<1> QED
  BY <1>2, <1>3, <1>4, <1>5, <1>6, <1>7

LEMMA CreateOnce ==
  ASSUME TypeOK, Known, InitiatedOnce, NEW w \in Workers, CreateStep(w), Exists => Exists'
  PROVE  InitiatedOnce'
<1>1. op \in [Workers -> Request] /\ op[w] \in Request /\ Placed(op[w])
  BY DEF TypeOK, Known
<1>2. \A v \in Workers : v # w => op'[v] = op[v]
  BY <1>1, Alone DEF WorkerStep
<1>3. CASE CreateStart(w)
  BY <1>2, <1>3, StartEffect DEF Begins, InitiatedOnce, Creating
<1>4. CASE CreateInsert(w)
  <2>1. CASE Exists
    <3>1. op'[w] = Idle /\ started' = started
      BY <1>4, <2>1, DoneEffect DEF CreateInsert, KeyFree, counters
    <3> QED
      BY <1>2, <2>1, <3>1 DEF InitiatedOnce, Creating, Idle
  <2>2. CASE ~Exists
    <3>1. \A v \in Workers : op[v].pc \notin Creating
      BY <2>2 DEF Known, Placed, Creating
    <3>2. started = 0 /\ started' = started
      BY <1>4, <2>2 DEF InitiatedOnce, CreateInsert, counters
    <3> QED
      BY <1>2, <3>1, <3>2 DEF InitiatedOnce
  <2> QED
    BY <2>1, <2>2
<1>5. CASE CreatePublish(w)
  BY <1>1, <1>2, <1>5 DEF CreatePublish, At, Become, InitiatedOnce, Creating, Request, counters
<1>6. CASE CreateInitiate(w)
  <2>1. /\ op[w].pc = "create_initiate" /\ started' = started + 1
        /\ op'[w].pc \notin Creating
    BY <1>6, InitiateEffect, IdleFields DEF Takes, Creating
  <2>2. Exists
    BY <1>1, <2>1 DEF Placed
  <2> QED
    BY <1>2, <2>1, <2>2 DEF InitiatedOnce, Creating
<1> QED
  BY <1>3, <1>4, <1>5, <1>6 DEF CreateStep

\* One request at most is between its insert and its call of initiatePayment,
\* and then nobody has called it: the unique key admits one insert.
THEOREM OnceIsInvariant == Spec => []InitiatedOnce
<1>1. Init => InitiatedOnce
  BY DEF Init, InitiatedOnce, Idle, Creating
<1>2. TypeOK /\ Known /\ InitiatedOnce /\ [Next]_vars => InitiatedOnce'
  <2> SUFFICES ASSUME TypeOK, Known, InitiatedOnce, [Next]_vars
               PROVE  InitiatedOnce'
    OBVIOUS
  <2>1. ASSUME Next PROVE Exists => Exists'
    BY <2>1, ExistsStays
  <2>2. ASSUME NEW w \in Workers, WorkerStep(w)
        PROVE  InitiatedOnce'
    <3>1. CASE CreateStep(w)
      BY <2>1, <2>2, <3>1, CreateOnce, NextSteps
    <3>2. CASE ~CreateStep(w)
      <4>1. started' = started /\ op'[w].pc \notin Creating
        BY <2>2, <3>2, OnlyCreateInitiates DEF WorkerStep
      <4>2. \A v \in Workers : v # w => op'[v] = op[v]
        BY <2>2, Alone DEF TypeOK
      <4> QED
        BY <2>1, <2>2, <4>1, <4>2, NextSteps DEF InitiatedOnce
    <3> QED
      BY <3>1, <3>2
  <2>3. CASE OutsideStep
    <3>1. UNCHANGED <<row, op, started>>
      BY <2>3 DEF OutsideStep, Settle, SettleRefund, PassDeadline, tables, counters
    <3> QED
      BY <3>1 DEF InitiatedOnce, Exists
  <2>4. CASE Crash
    BY <2>4 DEF Crash, InitiatedOnce, Exists, Creating, Idle, tables
  <2>5. CASE UNCHANGED vars
    BY <2>5 DEF vars, InitiatedOnce, Exists
  <2> QED
    BY <2>2, <2>3, <2>4, <2>5, NextSteps
<1> QED
  BY <1>1, <1>2, TypeCorrect, PTL DEF Spec

\* Any number of concurrent requests with one idempotency key reach the
\* provider once.
THEOREM InitiatedOncePerKey == Spec => []OneInitiationPerKey
<1>1. InitiatedOnce => OneInitiationPerKey
  BY DEF InitiatedOnce, OneInitiationPerKey
<1> QED
  BY <1>1, OnceIsInvariant, PTL

-----------------------------------------------------------------------------
\* A processed callback stays processed.

LEMMA HooksKept ==
  ASSUME NEW w \in Workers, WorkerStep(w), ~HookStep(w)
  PROVE  hooks' = hooks
<1>1. CASE CreateStep(w)
  BY <1>1 DEF CreateStep, CreateStart, CreateInsert, CreatePublish, CreateInitiate, Accept, tables
<1>2. CASE SaveTx(w) \/ Save(w) \/ Publish(w) \/ Abort(w)
  BY <1>2 DEF SaveTx, Save, Publish, Abort, tables
<1>3. CASE ChangeStep(w)
  BY <1>3 DEF ChangeStep, QueryStart, Query, RetryStart, RetryInitiate, ActStart, Act,
              ManualApprove, Accept, tables
<1>4. CASE RefundStep(w)
  BY <1>4 DEF RefundStep, RefundStart, RefundLoad, RefundReserve, RefundCall, RefundFail,
              RefundSettle, Accept, tables
<1> QED
  BY <1>1, <1>2, <1>3, <1>4 DEF WorkerStep

LEMMA ProcessedStays ==
  ASSUME TypeOK, NEW w \in Workers, WorkerStep(w), NEW c \in Callbacks, hooks[c] = "PROCESSED"
  PROVE  hooks'[c] = "PROCESSED"
<1>1. CASE HookStep(w)
  <2>1. CASE \E d \in Callbacks : HookStart(w, d)
    BY <2>1, StartEffect DEF Begins, tables
  <2>2. CASE HookResolve(w)
    BY <2>2, ReadEffect DEF tables
  <2>3. CASE HookClaim(w)
    BY <2>3, ClaimEffect DEF Claimable, TypeOK
  <2>4. CASE HookFinalize(w)
    BY <2>4 DEF HookFinalize, TypeOK
  <2>5. CASE HookFail(w)
    BY <2>5 DEF HookFail, FailedUnlessProcessed, TypeOK
  <2> QED
    BY <1>1, <2>1, <2>2, <2>3, <2>4, <2>5 DEF HookStep
<1>2. CASE ~HookStep(w)
  BY <1>2, HooksKept
<1> QED
  BY <1>1, <1>2

\* No delivery, however late, takes a callback event out of PROCESSED: only a
\* claimable event is claimed, and failCallback leaves a processed one.
THEOREM ProcessedStaysProcessed == Spec => ProcessedIsFinal
<1> DEFINE stays == \A c \in Callbacks : hooks[c] = "PROCESSED" => hooks'[c] = "PROCESSED"
<1>1. TypeOK /\ [Next]_vars => [stays]_vars
  <2> SUFFICES ASSUME TypeOK, Next
               PROVE  stays
    OBVIOUS
  <2>1. CASE OutsideStep
    BY <2>1 DEF OutsideStep, Settle, SettleRefund, PassDeadline, tables
  <2>2. CASE Crash
    BY <2>2 DEF Crash, tables
  <2> QED
    BY <2>1, <2>2, ProcessedStays, NextSteps
<1>2. [][stays]_vars => ProcessedIsFinal
  BY PTL DEF ProcessedIsFinal
<1> QED
  BY <1>1, <1>2, TypeCorrect, PTL DEF Spec

-----------------------------------------------------------------------------
\* Refund rows and refund orders.

\* A refund row at work has one request.
Owned ==
  /\ \A w \in Workers : op[w].pc \in Calling =>
       /\ refunds[op[w].refund].status = "PROCESSING"
       /\ op[w].pc = "refund_call" => payout[op[w].refund] = "none"
       /\ op[w].pc = "refund_settle" => op[w].ans # "COMPLETED"
       /\ op[w].pc = "refund_settle" /\ op[w].ans = "FAILED" => payout[op[w].refund] = "none"
       /\ op[w].pc = "refund_fail" /\ Undisturbed => payout[op[w].refund] = "none"
  /\ \A v, w \in Workers :
       op[v].pc \in Calling /\ op[w].pc \in Calling /\ op[v].refund = op[w].refund => v = w

\* What the provider was told to pay out is on an open refund row.
Told ==
  /\ faults <= MaxFaults
  /\ \A n \in RefundIds :
       /\ refunds[n].status = "NONE" => payout[n] = "none"
       /\ Undisturbed /\ payout[n] \in {"accepted", "refunded"} =>
            refunds[n].status \in OpenRefund

\* The steps that do not work on a refund row.
LEMMA ElsewhereRefunds ==
  ASSUME TypeOK, NEW w \in Workers,
         \/ CreateStep(w) \/ SaveTx(w) \/ Save(w) \/ Publish(w) \/ ChangeStep(w) \/ HookStep(w)
         \/ Abort(w) \/ RefundLoad(w)
         \/ \E key \in RefundKeys, amount \in RefundAmounts : RefundStart(w, key, amount)
  PROVE  /\ UNCHANGED <<refunds, payout>> /\ faults' \in {faults, faults - 1}
         /\ op'[w].pc \notin Calling
         /\ op'[w].pc = "refund_reserve" => RefundLoad(w)
<1>1. op \in [Workers -> Request] /\ op[w] \in Request
  BY DEF TypeOK
<1> USE DEF Calling
<1>2. CASE SaveTx(w) \/ Save(w)
  BY <1>1, <1>2 DEF SaveTx, Save, Continue, Become, Request, counters, outside
<1>3. CASE Publish(w)
  BY <1>3, PublishEffect, IdleFields DEF counters, outside
<1>4. CASE Abort(w)
  BY <1>4, AbortEffect, IdleFields DEF tables, outside
<1>5. CASE ChangeStep(w)
  <2>1. CASE QueryStart(w) \/ RetryStart(w) \/ ManualApprove(w)
             \/ \E action \in {"cancel", "reverse"} : ActStart(w, action)
    BY <2>1, StartEffect DEF Begins, tables, outside
  <2>2. CASE Query(w)
    <3>1. (op'[w] = Idle \/ op'[w].pc = "save") /\ UNCHANGED <<tables, outside, counters>>
      BY <2>2, QueryEffect DEF Takes
    <3> QED
      BY <3>1, IdleFields DEF counters, tables, outside
  <2>3. CASE RetryInitiate(w)
    <3>1. /\ op'[w] = Idle \/ op'[w].pc = "save_tx"
          /\ UNCHANGED <<tables, payout>> /\ faults' \in {faults, faults - 1}
      BY <2>3, RetryEffect DEF Takes
    <3> QED
      BY <3>1, IdleFields DEF tables
  <2>4. CASE Act(w)
    <3>1. (op'[w] = Idle \/ op'[w].pc = "save_tx") /\ UNCHANGED <<tables, outside, counters>>
      BY <2>4, ActEffect DEF Takes
    <3> QED
      BY <3>1, IdleFields DEF counters, tables, outside
  <2> QED
    BY <1>5, <2>1, <2>2, <2>3, <2>4 DEF ChangeStep
<1>6. CASE RefundLoad(w) \/ \E key \in RefundKeys, amount \in RefundAmounts :
                              RefundStart(w, key, amount)
  <2>1. CASE \E key \in RefundKeys, amount \in RefundAmounts : RefundStart(w, key, amount)
    BY <2>1, StartEffect DEF Begins, tables, outside
  <2>2. CASE RefundLoad(w)
    BY <2>2, ReadEffect, IdleFields DEF counters, tables, outside
  <2> QED
    BY <1>6, <2>1, <2>2
<1>7. CASE HookStep(w)
  <2>1. CASE \E c \in Callbacks : HookStart(w, c)
    BY <2>1, StartEffect DEF Begins, tables, outside
  <2>2. CASE HookResolve(w)
    BY <2>2, ReadEffect, IdleFields DEF counters, tables, outside
  <2>3. CASE HookClaim(w)
    <3>1. /\ op'[w] = Idle \/ op'[w].pc \in {"save", "hook_fail"}
          /\ UNCHANGED <<refunds, outside, counters>>
      BY <2>3, ClaimEffect DEF Takes
    <3> QED
      BY <3>1, IdleFields DEF counters, outside
  <2>4. CASE HookFinalize(w) \/ HookFail(w)
    BY <2>4, DoneEffect, IdleFields DEF HookFinalize, HookFail, counters, outside
  <2> QED
    BY <1>7, <2>1, <2>2, <2>3, <2>4 DEF HookStep
<1>8. CASE CreateStep(w)
  <2>1. CASE CreateStart(w)
    BY <2>1, StartEffect DEF Begins, tables, outside
  <2>2. CASE CreateInsert(w)
    BY <1>1, <2>2, DoneEffect, IdleFields DEF CreateInsert, Continue, Become, Request, counters, outside
  <2>3. CASE CreatePublish(w)
    BY <1>1, <2>3 DEF CreatePublish, Become, Request, counters, outside
  <2>4. CASE CreateInitiate(w)
    <3>1. /\ op'[w] = Idle \/ op'[w].pc \in {"save", "save_tx"}
          /\ UNCHANGED <<tables, payout>> /\ faults' \in {faults, faults - 1}
      BY <2>4, InitiateEffect DEF Takes
    <3> QED
      BY <3>1, IdleFields DEF tables
  <2> QED
    BY <1>8, <2>1, <2>2, <2>3, <2>4 DEF CreateStep
<1> QED
  BY <1>2, <1>3, <1>4, <1>5, <1>6, <1>7, <1>8

LEMMA TypeOfRefunds ==
  ASSUME TypeOK
  PROVE  /\ faults \in Nat /\ MaxFaults \in Nat
         /\ payout \in [RefundIds -> {"none", "accepted", "refunded", "failed"}]
         /\ refunds \in [RefundIds -> [status: {"NONE", "PROCESSING", "SUCCEEDED", "FAILED"},
                                      amount: Nat, key: RefundKeys \cup {NoKey}]]
  BY PaymentConstants DEF TypeOK

LEMMA OwnedStep ==
  ASSUME TypeOK, Known, Owned, Told, NEW w \in Workers, WorkerStep(w)
  PROVE  Owned' /\ Told'
<1>1. \A v \in Workers : v # w => op'[v] = op[v]
  BY Alone DEF TypeOK
<1>2. /\ op[w].pc \in Calling => op[w].refund \in RefundIds
      /\ \A v \in Workers : op[v].pc \in Calling => op[v].refund \in RefundIds
  BY DEF Known, Placed
<1>3. CASE /\ UNCHANGED <<refunds, payout>> /\ faults' \in {faults, faults - 1}
           /\ op'[w].pc \notin Calling
  BY <1>1, <1>3, TypeOfRefunds DEF Owned, Told, Undisturbed
<1>4. CASE RefundReserve(w)
  <2>1. CASE op'[w] = Idle /\ refunds' = refunds
    BY <1>3, <1>4, <2>1, ReserveEffect, IdleFields DEF Calling, outside, counters
  <2>2. CASE ~(op'[w] = Idle /\ refunds' = refunds)
    <3>1. /\ op'[w].pc = "refund_call" /\ op'[w].refund \in RefundIds
          /\ refunds[op'[w].refund].status = "NONE" /\ UNCHANGED <<payout, faults>>
          /\ refunds' = [refunds EXCEPT ![op'[w].refund] =
               [status |-> "PROCESSING", amount |-> op[w].amount, key |-> op[w].key]]
      BY <1>4, <2>2, ReserveEffect DEF outside, counters
    <3>2. /\ refunds'[op'[w].refund].status = "PROCESSING" /\ payout[op'[w].refund] = "none"
          /\ \A n \in RefundIds : n # op'[w].refund => refunds'[n] = refunds[n]
      BY <3>1, TypeOfRefunds DEF Told
    <3>3. \A v \in Workers : v # w /\ op[v].pc \in Calling => op[v].refund # op'[w].refund
      BY <3>1 DEF Owned
    <3>4. Owned'
      BY <1>1, <1>2, <3>1, <3>2, <3>3 DEF Owned, Undisturbed
    <3>5. Told'
      BY <3>1, <3>2 DEF Told, Undisturbed, OpenRefund
    <3> QED
      BY <3>4, <3>5
  <2> QED
    BY <2>1, <2>2
<1>5. CASE RefundCall(w)
  <2>1. /\ op[w].pc = "refund_call" /\ op'[w].refund = op[w].refund /\ refunds' = refunds
        /\ \/ /\ op'[w].pc = "refund_settle" /\ faults' = faults /\ op'[w].ans # "COMPLETED"
              /\ IF op'[w].ans = "FAILED" THEN payout' = payout
                 ELSE payout' = [payout EXCEPT ![op[w].refund] = "accepted"]
           \/ op'[w].pc = "refund_fail" /\ UNCHANGED <<payout, faults>>
           \/ /\ op'[w].pc = "refund_fail" /\ faults > 0 /\ faults' = faults - 1
              /\ payout' = [payout EXCEPT ![op[w].refund] = "accepted"]
    BY <1>5, CallEffect DEF tables, RefundAnswers
  <2>2. /\ op[w].refund \in RefundIds /\ refunds[op[w].refund].status = "PROCESSING"
        /\ payout[op[w].refund] = "none"
    BY <1>2, <2>1 DEF Owned, Calling
  <2>3. /\ \A n \in RefundIds : n # op[w].refund => payout'[n] = payout[n]
        /\ payout' # payout => op'[w].pc = "refund_fail" \/ op'[w].ans # "FAILED"
        /\ payout' # payout /\ op'[w].pc = "refund_fail" => ~Undisturbed'
        /\ Undisturbed' => Undisturbed
        /\ faults' <= MaxFaults
    BY <2>1, <2>2, TypeOfRefunds DEF Undisturbed, Told
  <2>4. \A v \in Workers : v # w /\ op[v].pc \in Calling => op[v].refund # op[w].refund
    BY <2>1 DEF Owned, Calling
  <2>5. Owned'
    BY <1>1, <1>2, <2>1, <2>2, <2>3, <2>4 DEF Owned, Calling
  <2>6. Told'
    BY <2>1, <2>2, <2>3 DEF Told, OpenRefund
  <2> QED
    BY <2>5, <2>6
<1>6. CASE RefundFail(w)
  <2>1. /\ op[w].pc = "refund_fail" /\ op'[w].pc \notin Calling /\ UNCHANGED <<payout, faults>>
        /\ refunds' = [refunds EXCEPT ![op[w].refund].status = "FAILED"]
    BY <1>6, DoneEffect, IdleFields DEF RefundFail, At, Calling, outside, counters
  <2>2. /\ op[w].refund \in RefundIds
        /\ refunds'[op[w].refund].status = "FAILED"
        /\ Undisturbed => payout[op[w].refund] = "none"
        /\ \A n \in RefundIds : n # op[w].refund => refunds'[n] = refunds[n]
    BY <1>2, <2>1, TypeOfRefunds DEF Owned, Calling
  <2>3. \A v \in Workers : v # w /\ op[v].pc \in Calling => op[v].refund # op[w].refund
    BY <2>1 DEF Owned, Calling
  <2>4. Owned'
    BY <1>1, <1>2, <2>1, <2>2, <2>3 DEF Owned, Undisturbed
  <2>5. Told'
    BY <2>1, <2>2 DEF Told, Undisturbed
  <2> QED
    BY <2>4, <2>5
<1>7. CASE RefundSettle(w)
  <2>1. /\ op[w].pc = "refund_settle" /\ UNCHANGED <<payout, faults>>
        /\ op'[w] = Idle \/ op'[w].pc = "save_tx"
        /\ refunds' = [refunds EXCEPT ![op[w].refund] = SettledRefund(op[w].ans, @)]
    BY <1>7, SettleEffect DEF Takes, outside, counters
  <2>2. /\ op[w].refund \in RefundIds /\ refunds[op[w].refund].status = "PROCESSING"
        /\ op[w].ans = "FAILED" => payout[op[w].refund] = "none"
    BY <1>2, <2>1 DEF Owned, Calling
  <2>3. /\ \A n \in RefundIds : n # op[w].refund => refunds'[n] = refunds[n]
        /\ refunds'[op[w].refund].status = IF op[w].ans = "REFUNDED" THEN "SUCCEEDED"
                                           ELSE IF op[w].ans = "FAILED" THEN "FAILED"
                                           ELSE "PROCESSING"
    BY <2>1, <2>2, TypeOfRefunds DEF SettledRefund
  <2>4. \A v \in Workers : v # w /\ op[v].pc \in Calling => op[v].refund # op[w].refund
    BY <2>1 DEF Owned, Calling
  <2>5. op'[w].pc \notin Calling
    BY <2>1, IdleFields DEF Calling
  <2>6. Owned'
    BY <1>1, <1>2, <2>1, <2>3, <2>4, <2>5 DEF Owned, Undisturbed
  <2>7. Told'
    BY <2>1, <2>2, <2>3 DEF Told, Undisturbed, OpenRefund
  <2> QED
    BY <2>6, <2>7
<1> QED
  BY <1>3, <1>4, <1>5, <1>6, <1>7, ElsewhereRefunds DEF WorkerStep, RefundStep

LEMMA OwnedOutside ==
  ASSUME TypeOK, Known, Owned, Told, OutsideStep \/ Crash \/ UNCHANGED vars
  PROVE  Owned' /\ Told'
<1>1. ASSUME UNCHANGED <<refunds, op, payout, faults>>
      PROVE  Owned' /\ Told'
  BY <1>1 DEF Owned, Told, Undisturbed
<1>2. ASSUME NEW n \in RefundIds, SettleRefund(n)
      PROVE  Owned' /\ Told'
  <2>1. /\ payout[n] = "accepted" /\ UNCHANGED <<refunds, op, faults>>
        /\ \A m \in RefundIds : m # n => payout'[m] = payout[m]
        /\ payout'[n] \in {"refunded", "failed"}
    BY <1>2, TypeOfRefunds DEF SettleRefund, tables, counters
  <2>2. \A w \in Workers : op[w].pc \in Calling => op[w].refund \in RefundIds
    BY DEF Known, Placed
  <2>3. Owned'
    BY <2>1, <2>2 DEF Owned, Undisturbed
  <2>4. Told'
    BY <2>1 DEF Told, Undisturbed
  <2> QED
    BY <2>3, <2>4
<1>3. ASSUME NEW r \in Requests, Settle(r)
      PROVE  Owned' /\ Told'
  BY <1>1, <1>3 DEF Settle, tables, counters
<1>4. CASE PassDeadline
  BY <1>1, <1>4 DEF PassDeadline, tables, outside
<1>5. CASE Crash
  <2>1. /\ UNCHANGED <<refunds, payout>> /\ faults > 0 /\ faults' = faults - 1
        /\ \A w \in Workers : op'[w].pc \notin Calling
    BY <1>5, IdleFields DEF Crash, Calling, tables, outside
  <2> QED
    BY <2>1, TypeOfRefunds DEF Owned, Told, Undisturbed
<1>6. CASE UNCHANGED vars
  BY <1>1, <1>6 DEF vars
<1> QED
  BY <1>2, <1>3, <1>4, <1>5, <1>6 DEF OutsideStep

\* A refund row in PROCESSING that is being worked on has one request, and
\* every payout the provider was told of has an open row while nothing failed.
THEOREM RefundsOwned == Spec => [](Owned /\ Told)
<1>1. Init => Owned /\ Told
  BY PaymentConstants, IdleFields DEF Init, Owned, Told, Calling, Unused
<1>2. TypeOK /\ Known /\ Owned /\ Told /\ [Next]_vars => (Owned /\ Told)'
  BY OwnedStep, OwnedOutside, NextSteps
<1> QED
  BY <1>1, <1>2, TypeCorrect, PTL DEF Spec

-----------------------------------------------------------------------------
\* Refunds add up to the captured amount at most.

OpenRows == {n \in RefundIds : refunds[n].status \in OpenRefund}

\* What each row counts for.
Counted == [n \in RefundIds |-> IF n \in OpenRows THEN refunds[n].amount ELSE 0]

\* Total, the fold of the model, is the sum of the module Sums.
LEMMA TotalIsSum ==
  ASSUME NEW S \in SUBSET RefundIds
  PROVE  Total(S) = SumOver([n \in RefundIds |-> refunds[n].amount], S)
<1> DEFINE f == [n \in RefundIds |-> refunds[n].amount]
           step(g, s) == IF s = {} THEN 0
                         ELSE refunds[Chosen(s)].amount + g[s \ {Chosen(s)}]
           sums == CHOOSE g : g = [s \in SUBSET S |-> step(g, s)]
<1>1. Total(S) = sums[S]
  BY Zenon DEF Total, MapThenSumSet, MapThenFoldSet, Chosen
<1>2. \A g : \A s \in SUBSET S : step(g, s) = SumStep(f, s, g)
  BY ChosenIn DEF SumStep
<1> HIDE DEF step, f
<1>3. \A g : (g = [s \in SUBSET S |-> step(g, s)]) <=> Summation(f, g, S)
  BY <1>2 DEF Summation
<1>4. sums = PartSums(f, S)
  BY <1>3 DEF PartSums
<1> QED
  BY <1>1, <1>4, SumIsPartSums DEF f

LEMMA ReservedIsSum ==
  ASSUME TypeOK
  PROVE  /\ IsFiniteSet(RefundIds) /\ Reserved = SumOver(Counted, RefundIds)
         /\ \A n \in RefundIds : Counted[n] \in Nat
<1> DEFINE f == [n \in RefundIds |-> refunds[n].amount]
<1>1. IsFiniteSet(RefundIds)
  BY PaymentConstants, FS_Interval DEF RefundIds
<1>2. \A n \in RefundIds : f[n] \in Nat
  BY TypeOfRefunds
<1>3. OpenRows \in SUBSET RefundIds
  BY DEF OpenRows
<1>4. Reserved = SumOver(f, OpenRows)
  BY <1>3, TotalIsSum DEF Reserved, OpenRows
<1>5. SumOver(f, OpenRows) = SumOver(Kept(f, RefundIds, OpenRows), RefundIds)
  <2> HIDE DEF f
  <2> QED
    BY <1>1, <1>2, <1>3, SumKept
<1>6. Kept(f, RefundIds, OpenRows) = Counted
  BY DEF Kept, Counted
<1> QED
  BY <1>1, <1>2, <1>4, <1>5, <1>6 DEF Counted

LEMMA ReservedIsSumNext ==
  (TypeOK => /\ Reserved = SumOver(Counted, RefundIds)
             /\ \A n \in RefundIds : Counted[n] \in Nat)'
<1>1. TypeOK => /\ Reserved = SumOver(Counted, RefundIds)
                /\ \A n \in RefundIds : Counted[n] \in Nat
  BY ReservedIsSum
<1> QED
  BY <1>1, PTL

\* refund() sums, compares and inserts in one transaction.
LEMMA ReservedStep ==
  ASSUME TypeOK, TypeOK', Known, Owned, Reserved <= Amount, [Next]_vars
  PROVE  (Reserved <= Amount)'
<1>1. /\ IsFiniteSet(RefundIds) /\ Reserved = SumOver(Counted, RefundIds)
      /\ \A n \in RefundIds : Counted[n] \in Nat
  BY ReservedIsSum
<1>2. /\ Reserved' = SumOver(Counted', RefundIds)
      /\ \A n \in RefundIds : Counted'[n] \in Nat
  BY ReservedIsSumNext
<1>3. Amount \in Nat
  BY PaymentConstants
<1>4. Reserved \in Int /\ Reserved' \in Int
  BY <1>1, <1>2, SumType
<1>5. ASSUME \A n \in RefundIds : Counted'[n] <= Counted[n]
      PROVE  (Reserved <= Amount)'
  <2>1. Reserved' <= Reserved
    BY <1>1, <1>2, <1>5, SumMonotone
  <2> QED
    BY <1>3, <1>4, <2>1
<1>6. CASE UNCHANGED refunds
  BY <1>1, <1>5, <1>6 DEF Counted, OpenRows
<1>7. ASSUME NEW w \in Workers, RefundReserve(w), refunds' # refunds
      PROVE  (Reserved <= Amount)'
  <2> DEFINE n == op'[w].refund
  <2>1. /\ Reserved + op[w].amount <= Amount
        /\ n \in RefundIds /\ refunds[n].status = "NONE"
        /\ refunds' = [refunds EXCEPT ![n] =
             [status |-> "PROCESSING", amount |-> op[w].amount, key |-> op[w].key]]
    BY <1>7, ReserveEffect
  <2>2. op[w].amount \in Nat
    BY DEF TypeOK, Request
  <2> HIDE DEF n
  <2>3. Counted[n] = 0 /\ Counted'[n] = op[w].amount
    BY <2>1, TypeOfRefunds DEF Counted, OpenRows, OpenRefund
  <2>4. \A m \in RefundIds \ {n} : Counted[m] = Counted'[m]
    BY <2>1, TypeOfRefunds DEF Counted, OpenRows
  <2>5. Reserved' = Reserved + Counted'[n] - Counted[n]
    BY <1>1, <1>2, <2>1, <2>4, SumChange
  <2> QED
    BY <1>4, <2>1, <2>2, <2>3, <2>5
<1>8. ASSUME NEW w \in Workers, RefundFail(w) \/ RefundSettle(w)
      PROVE  (Reserved <= Amount)'
  <2>1. /\ op[w].pc \in Calling
        /\ refunds' \in {[refunds EXCEPT ![op[w].refund].status = "FAILED"],
                         [refunds EXCEPT ![op[w].refund] = SettledRefund(op[w].ans, @)]}
    BY <1>8, SettleEffect DEF RefundFail, At, Calling
  <2>2. op[w].refund \in RefundIds /\ refunds[op[w].refund].status = "PROCESSING"
    BY <2>1 DEF Known, Placed, Owned
  <2> DEFINE r == op[w].refund
  <2>3. /\ refunds'[r].amount = refunds[r].amount
        /\ \A n \in RefundIds : n # r => refunds'[n] = refunds[n]
    <3>1. SettledRefund(op[w].ans, refunds[r]).amount = refunds[r].amount
      BY <2>2, TypeOfRefunds DEF SettledRefund
    <3> QED
      BY <2>1, <2>2, <3>1, TypeOfRefunds
  <2>4. \A n \in RefundIds : Counted'[n] <= Counted[n]
    BY <2>2, <2>3, TypeOfRefunds DEF Counted, OpenRows, OpenRefund
  <2> QED
    BY <1>5, <2>4
<1>9. ASSUME NEW w \in Workers, WorkerStep(w)
      PROVE  (Reserved <= Amount)'
  <2>1. CASE RefundReserve(w) \/ RefundFail(w) \/ RefundSettle(w)
    BY <1>6, <1>7, <1>8, <2>1
  <2>2. CASE RefundCall(w)
    BY <1>6, <2>2, CallEffect DEF tables
  <2> QED
    BY <1>6, <1>9, <2>1, <2>2, ElsewhereRefunds DEF WorkerStep, RefundStep
<1>10. CASE OutsideStep \/ Crash \/ UNCHANGED vars
  BY <1>6, <1>10 DEF OutsideStep, Settle, SettleRefund, PassDeadline, Crash, tables, vars
<1> QED
  BY <1>9, <1>10, NextSteps

\* Nothing is reserved before the first refund.
LEMMA ReservedFirst == Init => Reserved <= Amount
<1> SUFFICES ASSUME Init PROVE Reserved <= Amount
  OBVIOUS
<1>1. OpenRows = {}
  BY DEF Init, OpenRows, Unused, OpenRefund
<1>2. Reserved = SumOver([n \in RefundIds |-> refunds[n].amount], {})
  BY <1>1, TotalIsSum DEF Reserved, OpenRows
<1>3. Reserved = 0
  BY <1>2, SumEmpty
<1> QED
  BY <1>3, PaymentConstants

\* Refunds, however many run at once, never reserve or pay out more than was
\* captured; a lost reply is the one way to free an amount that was paid out.
THEOREM RefundsStayWithinCapture == Spec => []RefundsWithinCapture
<1>1. TypeOK /\ TypeOK' /\ Known /\ Owned /\ Reserved <= Amount /\ [Next]_vars
        => (Reserved <= Amount)'
  BY ReservedStep
<1>2. TypeOK /\ Told /\ Reserved <= Amount => RefundsWithinCapture
  <2> SUFFICES ASSUME TypeOK, Told, Reserved <= Amount
               PROVE  RefundsWithinCapture
    OBVIOUS
  <2> DEFINE f == [n \in RefundIds |-> refunds[n].amount]
             Paying == {n \in RefundIds : payout[n] \in {"accepted", "refunded"}}
  <2>1. {n \in RefundIds : refunds[n].status \in {"PROCESSING", "SUCCEEDED"}} = OpenRows
    BY DEF OpenRows, OpenRefund
  <2>2. Reserved = Total(OpenRows)
    BY DEF Reserved, OpenRows
  <2>3. ASSUME Undisturbed
        PROVE  Total(Paying) <= Amount
    <3>1. Paying \in SUBSET OpenRows /\ OpenRows \in SUBSET RefundIds
      BY <2>3 DEF Told, OpenRows
    <3>2. IsFiniteSet(OpenRows) /\ \A n \in RefundIds : f[n] \in Nat
      BY <3>1, ReservedIsSum, FS_Subset, TypeOfRefunds
    <3>3. Total(Paying) = SumOver(f, Paying) /\ Total(OpenRows) = SumOver(f, OpenRows)
      <4> HIDE DEF Paying
      <4> QED
        BY <3>1, TotalIsSum
    <3>4. /\ SumOver(f, Paying) <= SumOver(f, OpenRows)
          /\ SumOver(f, Paying) \in Int /\ SumOver(f, OpenRows) \in Int
      <4> HIDE DEF f, Paying
      <4>1. IsFiniteSet(Paying) /\ \A n \in OpenRows : f[n] \in Nat
        BY <3>1, <3>2, FS_Subset
      <4> QED
        BY <3>1, <3>2, <4>1, SumSubset, SumType
    <3> QED
      BY <2>2, <3>3, <3>4, PaymentConstants
  <2> QED
    BY <2>1, <2>2, <2>3 DEF RefundsWithinCapture
<1> QED
  BY <1>1, <1>2, ReservedFirst, TypeCorrect, RefundsOwned, PTL DEF Spec

-----------------------------------------------------------------------------
\* What a step does to the aggregate a worker has in memory.

\* The answers applyProviderResult may be called with in a step of w, and where w goes on.
Answerable(w, a, pc) ==
  \/ pc = "save_tx" /\ a \in InitiateAnswers
  \/ pc = "save" /\ a \in QueryAnswers
  \/ pc = "save_tx" /\ provider = "MANUAL" /\ a \in {"CANCELLED", "REVERSED"}
  \/ pc = "save_tx" /\ RefundSettle(w) /\ a = op[w].ans
  \/ pc = "save" /\ HookClaim(w) /\ a = AnswerFor(Reported(op[w].hook))

Keeps(w) == op'[w].life = op[w].life /\ op'[w].ev \in {op[w].ev, << >>}

Loads(w) == Exists /\ op'[w].life = Loaded /\ op'[w].ev \in {op[w].ev, << >>}

Opens(w) ==
  /\ op'[w].life \in {"CREATED", "INITIATION_PENDING", "FAILED"}
  /\ op'[w].ev \in {<< >>, <<"PaymentCreated">>, <<"PaymentFailed">>}

Reverses(w) ==
  Exists /\ Loaded = "CAPTURED" /\ op'[w].life = "REVERSAL_PENDING" /\ op'[w].ev = << >>

Approves(w) ==
  /\ provider = "MANUAL" /\ op'[w].life = "CAPTURED" /\ op'[w].pc = "save"
  /\ op'[w].ev = <<"PaymentAuthorised", "PaymentCompleted">>

Reserves(w) ==
  op[w].pc = "refund_reserve" /\ op'[w].life = "REFUND_PENDING" /\ op'[w].ev = op[w].ev

Hears(w) == \E a \in Answer, pc \in {"save", "save_tx"} : Takes(w, a, pc) /\ Answerable(w, a, pc)

Remembers(w) ==
  Keeps(w) \/ Loads(w) \/ Opens(w) \/ Reverses(w) \/ Approves(w) \/ Reserves(w) \/ Hears(w)

LEMMA IdleOpens ==
  ASSUME NEW w \in Workers, op'[w] = Idle
  PROVE  Opens(w)
  BY IdleFields DEF Opens

LEMMA CreateRemembers ==
  ASSUME TypeOK, NEW w \in Workers, CreateStep(w)
  PROVE  Opens(w) \/ Keeps(w) \/ Hears(w)
<1>1. op \in [Workers -> Request] /\ op[w] \in Request
  BY DEF TypeOK
<1>2. CASE CreateStart(w)
  BY <1>2, StartEffect DEF Begins, Opens
<1>3. CASE CreateInsert(w)
  BY <1>1, <1>3, DoneEffect, IdleOpens DEF CreateInsert, Continue, Become, Keeps, Request
<1>4. CASE CreatePublish(w)
  BY <1>1, <1>4 DEF CreatePublish, Become, Keeps, Request
<1>5. CASE CreateInitiate(w)
  <2>1. \/ op'[w] = Idle
        \/ \E answer \in InitiateAnswers : Takes(w, answer, "save_tx")
        \/ op'[w].life = "FAILED" /\ op'[w].ev = <<"PaymentFailed">>
    BY <1>5, InitiateEffect
  <2> QED
    BY <2>1, IdleOpens, InitiateType DEF Opens, Hears, Answerable
<1> QED
  BY <1>2, <1>3, <1>4, <1>5 DEF CreateStep

LEMMA SharedRemembers ==
  ASSUME TypeOK, NEW w \in Workers, SaveTx(w) \/ Save(w) \/ Publish(w) \/ Abort(w)
  PROVE  Opens(w) \/ Keeps(w)
<1>1. op \in [Workers -> Request] /\ op[w] \in Request
  BY DEF TypeOK
<1>2. CASE SaveTx(w) \/ Save(w)
  BY <1>1, <1>2 DEF SaveTx, Save, Continue, Become, Keeps, Request
<1>3. CASE Publish(w)
  <2>1. op'[w] = Idle \/ (op'[w].life = op[w].life /\ op'[w].ev = << >>)
    BY <1>3, PublishEffect
  <2> QED
    BY <2>1, IdleOpens DEF Keeps
<1>4. CASE Abort(w)
  <2>1. op'[w] = Idle \/ (op'[w].life = op[w].life /\ op'[w].ev = op[w].ev)
    BY <1>4, AbortEffect
  <2> QED
    BY <2>1, IdleOpens DEF Keeps
<1> QED
  BY <1>2, <1>3, <1>4

LEMMA ChangeRemembers ==
  ASSUME TypeOK, NEW w \in Workers, ChangeStep(w)
  PROVE  Opens(w) \/ Loads(w) \/ Reverses(w) \/ Approves(w) \/ Hears(w)
<1>1. CASE QueryStart(w) \/ RetryStart(w) \/ ManualApprove(w)
           \/ \E action \in {"cancel", "reverse"} : ActStart(w, action)
  BY <1>1, StartEffect DEF Begins, Loads, Opens, Approves, Reverses
<1>2. CASE Query(w)
  <2>1. op'[w] = Idle \/ \E answer \in QueryAnswers : Takes(w, answer, "save")
    BY <1>2, QueryEffect
  <2> QED
    BY <2>1, IdleOpens, QueryType DEF Hears, Answerable
<1>3. CASE RetryInitiate(w)
  <2>1. op'[w] = Idle \/ \E answer \in InitiateAnswers : Takes(w, answer, "save_tx")
    BY <1>3, RetryEffect
  <2> QED
    BY <2>1, IdleOpens, InitiateType DEF Hears, Answerable
<1>4. CASE Act(w)
  <2>1. \/ op'[w] = Idle
        \/ provider = "MANUAL" /\ \E answer \in {"CANCELLED", "REVERSED"} : Takes(w, answer, "save_tx")
    BY <1>4, ActEffect
  <2>2. {"CANCELLED", "REVERSED"} \subseteq Answer
    BY DEF Answer
  <2> QED
    BY <2>1, <2>2, IdleOpens DEF Hears, Answerable
<1> QED
  BY <1>1, <1>2, <1>3, <1>4 DEF ChangeStep

LEMMA RefundRemembers ==
  ASSUME TypeOK, Known, NEW w \in Workers, RefundStep(w)
  PROVE  Opens(w) \/ Keeps(w) \/ Loads(w) \/ Reserves(w) \/ Hears(w)
<1>1. CASE \E key \in RefundKeys, amount \in RefundAmounts : RefundStart(w, key, amount)
  BY <1>1, StartEffect DEF Begins, Opens
<1>2. CASE RefundLoad(w)
  <2>1. Exists
    BY <1>2, ReadEffect DEF Known, Placed
  <2> QED
    BY <1>2, <2>1, ReadEffect, IdleOpens DEF Loads
<1>3. CASE RefundReserve(w)
  <2>1. \/ op'[w] = Idle
        \/ /\ op[w].pc = "refund_reserve" /\ op'[w].life = "REFUND_PENDING"
           /\ op'[w].ev = op[w].ev
    BY <1>3, ReserveEffect
  <2> QED
    BY <2>1, IdleOpens DEF Reserves
<1>4. CASE RefundCall(w)
  BY <1>4, CallEffect DEF Keeps
<1>5. CASE RefundFail(w)
  BY <1>5, DoneEffect, IdleOpens DEF RefundFail
<1>6. CASE RefundSettle(w)
  <2>1. op'[w] = Idle \/ Takes(w, op[w].ans, "save_tx")
    BY <1>6, SettleEffect
  <2>2. op[w].ans \in Answer
    BY DEF TypeOK, Request
  <2> QED
    BY <1>6, <2>1, <2>2, IdleOpens DEF Hears, Answerable
<1> QED
  BY <1>1, <1>2, <1>3, <1>4, <1>5, <1>6 DEF RefundStep

LEMMA HookRemembers ==
  ASSUME TypeOK, Known, NEW w \in Workers, HookStep(w)
  PROVE  Opens(w) \/ Keeps(w) \/ Loads(w) \/ Hears(w)
<1>1. CASE \E c \in Callbacks : HookStart(w, c)
  BY <1>1, StartEffect DEF Begins, Opens
<1>2. CASE HookResolve(w)
  <2>1. op[w].hook \in txRefs => Exists
    BY DEF Known
  <2> QED
    BY <1>2, <2>1, ReadEffect, IdleOpens DEF Loads
<1>3. CASE HookClaim(w)
  <2> DEFINE a == AnswerFor(Reported(op[w].hook))
  <2>1. \/ op'[w] = Idle \/ Takes(w, a, "save")
        \/ op'[w].life = op[w].life /\ op'[w].ev = op[w].ev
    BY <1>3, ClaimEffect
  <2>2. a \in Answer
    BY DEF AnswerFor, Answer
  <2> HIDE DEF a
  <2>3. Takes(w, a, "save") => Hears(w)
    BY <1>3, <2>1, <2>2 DEF Hears, Answerable, a
  <2> QED
    BY <2>1, <2>3, IdleOpens DEF Keeps
<1>4. CASE HookFinalize(w) \/ HookFail(w)
  BY <1>4, DoneEffect, IdleOpens DEF HookFinalize, HookFail
<1> QED
  BY <1>1, <1>2, <1>3, <1>4 DEF HookStep

\* Every step of a worker does one of these to its copy.
LEMMA AllRemember ==
  ASSUME TypeOK, Known, NEW w \in Workers, WorkerStep(w)
  PROVE  Remembers(w)
  BY CreateRemembers, SharedRemembers, ChangeRemembers, RefundRemembers, HookRemembers
     DEF WorkerStep, Remembers

-----------------------------------------------------------------------------
\* Money that is shown was paid.

Money == {"CAPTURED", "REVERSAL_PENDING", "REVERSED", "REFUND_PENDING",
          "PARTIALLY_REFUNDED", "REFUNDED"}

Paid == provider = "MANUAL" \/ \E r \in Requests : gateway[r] = "paid"

Holds(events) == \E i \in DOMAIN events : events[i] = "PaymentCompleted"

Backed ==
  /\ outbox["PaymentCompleted"] > 0 => Paid
  /\ Exists /\ Loaded \in Money => Paid
  /\ \A n \in RefundIds : refunds[n].status # "NONE" => Paid
  /\ \A w \in Workers :
       /\ op[w].life \in Money \/ Holds(op[w].ev) => Paid
       /\ op[w].pc = "refund_reserve" => op[w].life \in Money

\* Only COMPLETED brings money in.
LEMMA MoneyFrom ==
  ASSUME NEW l \in Lifecycle, NEW a \in Answer, Accepts(l, a), a # "COMPLETED"
  PROVE  Applied(l, a) \in Money => l \in Money
  BY DEF Applied, Accepts, NoNews, Target, Transitions, Via, Money, Lifecycle, Answer

LEMMA CompletedNews ==
  ASSUME NEW l \in Lifecycle, NEW a \in Answer, NEW ev \in Seq(EventType), a # "COMPLETED"
  PROVE  Holds(ev \o News(l, a)) => Holds(ev)
<1>1. News(l, a) \in Seq(EventType) /\ \A i \in DOMAIN News(l, a) : News(l, a)[i] # "PaymentCompleted"
  <2>1. News(l, a) = << >> \/ \E e \in EventType \ {"PaymentCompleted"} : News(l, a) = <<e>>
    BY DEF News, Emitted, Target, Answer, EventType
  <2> QED
    BY <2>1, AnswerFacts
<1> QED
  BY <1>1 DEF Holds

LEMMA SavedMoney ==
  ASSUME NEW l \in Lifecycle, Restored(Stored(l)) \in Money
  PROVE  l \in Money
  BY DEF Restored, Stored, FromPersisted, DeriveLifecycle, PublicStatus, ToPersisted, Lifecycle, Money

LEMMA GatewayKept ==
  ASSUME NEW w \in Workers, WorkerStep(w), ~CreateInitiate(w), ~RetryInitiate(w)
  PROVE  UNCHANGED <<gateway, provider>>
<1>1. CASE CreateStep(w)
  BY <1>1 DEF CreateStep, CreateStart, CreateInsert, CreatePublish, Accept, outside, counters
<1>2. CASE SaveTx(w) \/ Save(w) \/ Publish(w) \/ Abort(w)
  BY <1>2 DEF SaveTx, Save, Publish, Abort, outside, counters
<1>3. CASE ChangeStep(w)
  BY <1>3 DEF ChangeStep, QueryStart, Query, RetryStart, ActStart, Act, ManualApprove, Accept,
              outside, counters
<1>4. CASE RefundStep(w)
  BY <1>4 DEF RefundStep, RefundStart, RefundLoad, RefundReserve, RefundCall, RefundFail,
              RefundSettle, Accept, outside, counters
<1>5. CASE HookStep(w)
  BY <1>5 DEF HookStep, HookStart, HookResolve, HookClaim, HookFinalize, HookFail, Accept,
              outside, counters
<1> QED
  BY <1>1, <1>2, <1>3, <1>4, <1>5 DEF WorkerStep

\* What was settled at the gateway stays as it is.
LEMMA GatewayStays ==
  ASSUME TypeOK, [Next]_vars
  PROVE  /\ provider' = provider
         /\ \A r \in Requests : gateway[r] \notin {"none", "pending"} => gateway'[r] = gateway[r]
<1>1. gateway \in [Requests -> {"none", "refused", "pending"} \cup Outcomes]
  BY DEF TypeOK
<1>2. ASSUME NEW w \in Workers, CreateInitiate(w) \/ RetryInitiate(w)
      PROVE  /\ provider' = provider
             /\ \A r \in Requests : gateway[r] # "none" => gateway'[r] = gateway[r]
  <2>1. /\ provider' = provider
        /\ \/ UNCHANGED gateway
           \/ /\ FreshRequests # {}
              /\ gateway' \in {[gateway EXCEPT ![Fresh] = "refused"],
                               [gateway EXCEPT ![Fresh] = "pending"]}
    BY <1>2, InitiateEffect, RetryEffect
  <2> QED
    BY <1>1, <2>1, FreshType
<1>3. ASSUME NEW w \in Workers, WorkerStep(w)
      PROVE  /\ provider' = provider
             /\ \A r \in Requests : gateway[r] # "none" => gateway'[r] = gateway[r]
  BY <1>2, <1>3, GatewayKept
<1>4. CASE OutsideStep \/ Crash \/ UNCHANGED vars
  BY <1>1, <1>4 DEF OutsideStep, Settle, SettleRefund, PassDeadline, Crash, outside, counters, vars
<1> QED
  BY <1>3, <1>4, NextSteps

LEMMA PaidStays ==
  ASSUME TypeOK, [Next]_vars, Paid
  PROVE  Paid'
  BY GatewayStays DEF Paid

LEMMA OutboxKept ==
  ASSUME NEW w \in Workers, WorkerStep(w), ~CreatePublish(w), ~Publish(w)
  PROVE  outbox' = outbox
<1>1. CASE CreateStep(w)
  BY <1>1 DEF CreateStep, CreateStart, CreateInsert, CreateInitiate, Accept, tables
<1>2. CASE SaveTx(w) \/ Save(w) \/ Abort(w)
  BY <1>2 DEF SaveTx, Save, Abort, tables
<1>3. CASE ChangeStep(w)
  BY <1>3 DEF ChangeStep, QueryStart, Query, RetryStart, RetryInitiate, ActStart, Act,
              ManualApprove, Accept, tables
<1>4. CASE RefundStep(w)
  BY <1>4 DEF RefundStep, RefundStart, RefundLoad, RefundReserve, RefundCall, RefundFail,
              RefundSettle, Accept, tables
<1>5. CASE HookStep(w)
  BY <1>5 DEF HookStep, HookStart, HookResolve, HookClaim, HookFinalize, HookFail, Accept, tables
<1> QED
  BY <1>1, <1>2, <1>3, <1>4, <1>5 DEF WorkerStep

\* How many completions an append adds.
LEMMA AppendedFacts ==
  ASSUME TypeOK, NEW w \in Workers
  PROVE  /\ Appended(op[w].ev, "PaymentCompleted") \in Nat
         /\ Appended(op[w].ev, "PaymentCompleted") > 0 <=> Holds(op[w].ev)
<1> DEFINE found == {i \in DOMAIN op[w].ev : op[w].ev[i] = "PaymentCompleted"}
<1>1. op[w].ev \in Seq(EventType)
  BY DEF TypeOK, Request
<1>2. IsFiniteSet(1 .. Len(op[w].ev)) /\ DOMAIN op[w].ev = 1 .. Len(op[w].ev)
  BY <1>1, FS_Interval
<1>3. IsFiniteSet(found)
  BY <1>2, FS_Subset
<1>4. Cardinality(found) \in Nat /\ (Cardinality(found) = 0 <=> found = {})
  BY <1>3, FS_CardinalityType, FS_EmptySet
<1> QED
  BY <1>4 DEF Appended, Holds

LEMMA OutboxStep ==
  ASSUME TypeOK, NEW w \in Workers, WorkerStep(w)
  PROVE  /\ outbox["PaymentCompleted"] \in Nat /\ outbox'["PaymentCompleted"] \in Nat
         /\ outbox["PaymentCompleted"] > 0 => outbox'["PaymentCompleted"] > 0
         /\ outbox'["PaymentCompleted"] > 0 =>
              outbox["PaymentCompleted"] > 0 \/ Holds(op[w].ev)
         /\ Publish(w) /\ Holds(op[w].ev) => outbox'["PaymentCompleted"] > 0
<1>1. outbox \in [EventType -> Nat] /\ "PaymentCompleted" \in EventType
  BY DEF TypeOK, EventType
<1>2. CASE Publish(w)
  <2>1. outbox'["PaymentCompleted"] = outbox["PaymentCompleted"]
                                        + Appended(op[w].ev, "PaymentCompleted")
    BY <1>1, <1>2 DEF Publish
  <2> QED
    BY <1>1, <2>1, AppendedFacts
<1>3. CASE ~Publish(w)
  <2>1. outbox'["PaymentCompleted"] = outbox["PaymentCompleted"]
    BY <1>1, <1>3, OutboxKept DEF CreatePublish
  <2> QED
    BY <1>1, <1>3, <2>1
<1> QED
  BY <1>2, <1>3

\* What a callback says is what became of its request or of its refund order.
LEMMA ReportedFacts ==
  ASSUME TypeOK, NEW c \in Callbacks
  PROVE  /\ c \in Requests => Reported(c) = IF gateway[c] \in Outcomes THEN gateway[c] ELSE "none"
         /\ c \notin Requests =>
              /\ c - MaxRequests \in RefundIds
              /\ Reported(c) \in {"none", "failed", "refunded"}
              /\ Reported(c) = "refunded" => payout[c - MaxRequests] = "refunded"
         /\ Reported(c) \in Outcomes \cup {"refunded", "none"}
<1>1. /\ gateway \in [Requests -> {"none", "refused", "pending"} \cup Outcomes]
      /\ payout \in [RefundIds -> {"none", "accepted", "refunded", "failed"}]
      /\ MaxRequests \in Nat /\ MaxRefunds \in Nat
  BY PaymentConstants DEF TypeOK
<1>2. c \notin Requests => c - MaxRequests \in RefundIds
  BY <1>1 DEF Callbacks, Requests, RefundIds
<1> QED
  BY <1>1, <1>2 DEF Reported, Outcomes

\* A provider's COMPLETED stands for money that was paid.
LEMMA HeardPaid ==
  ASSUME TypeOK, Known, Owned, NEW w \in Workers, NEW pc, Answerable(w, "COMPLETED", pc)
  PROVE  Paid /\ pc = "save"
<1>2. "COMPLETED" \notin InitiateAnswers
  BY DEF InitiateAnswers
<1>3. RefundSettle(w) => op[w].ans # "COMPLETED"
  BY DEF RefundSettle, At, Owned, Calling
<1>4. ASSUME NEW x, AnswerFor(x) = "COMPLETED"
      PROVE  x = "paid"
  BY <1>4 DEF AnswerFor
<1>5. CASE pc = "save" /\ "COMPLETED" \in QueryAnswers
  BY <1>4, <1>5 DEF QueryAnswers, Paid
<1>6. CASE pc = "save" /\ HookClaim(w) /\ "COMPLETED" = AnswerFor(Reported(op[w].hook))
  <2>1. Reported(op[w].hook) = "paid"
    BY <1>4, <1>6
  <2>2. op[w].hook \in Callbacks
    BY <1>6, ClaimEffect DEF Known, Placed, Hooking
  <2> QED
    BY <1>6, <2>1, <2>2, ReportedFacts DEF Paid
<1> QED
  BY <1>2, <1>3, <1>5, <1>6 DEF Answerable

\* Where money in memory comes from.
LEMMA LifePaid ==
  ASSUME TypeOK, Known, Owned, Backed, NEW w \in Workers, WorkerStep(w)
  PROVE  op'[w].life \in Money \/ Holds(op'[w].ev) => Paid
<1>1. op[w].life \in Lifecycle /\ op[w].ev \in Seq(EventType)
  BY DEF TypeOK, Request
<1>2. op[w].life \in Money \/ Holds(op[w].ev) => Paid
  BY DEF Backed
<1>3. ~Holds(<< >>) /\ ~Holds(<<"PaymentCreated">>) /\ ~Holds(<<"PaymentFailed">>)
  BY DEF Holds
<1>4. CASE Hears(w)
  <2>1. PICK a \in Answer, pc \in {"save", "save_tx"} : Takes(w, a, pc) /\ Answerable(w, a, pc)
    BY <1>4 DEF Hears
  <2>2. CASE a = "COMPLETED"
    BY <2>1, <2>2, HeardPaid
  <2>3. CASE a # "COMPLETED"
    <3>1. op'[w].life \in Money => op[w].life \in Money
      BY <1>1, <2>1, <2>3, MoneyFrom DEF Takes
    <3>2. Holds(op'[w].ev) => Holds(op[w].ev)
      BY <1>1, <2>1, <2>3, CompletedNews DEF Takes
    <3> QED
      BY <1>2, <3>1, <3>2
  <2> QED
    BY <2>2, <2>3
<1>5. CASE Keeps(w)
  BY <1>2, <1>3, <1>5 DEF Keeps
<1>6. CASE Loads(w) \/ Reverses(w)
  BY <1>2, <1>3, <1>6 DEF Loads, Reverses, Backed, Money
<1>7. CASE Opens(w)
  BY <1>3, <1>7 DEF Opens, Money
<1>8. CASE Approves(w)
  BY <1>8 DEF Approves, Paid
<1>9. CASE Reserves(w)
  BY <1>2, <1>9 DEF Reserves, Backed
<1> QED
  BY <1>4, <1>5, <1>6, <1>7, <1>8, <1>9, AllRemember DEF Remembers

\* A refund begins on money that is there.
LEMMA RefundBegins ==
  ASSUME TypeOK, Known, Owned, Backed, NEW w \in Workers, WorkerStep(w)
  PROVE  /\ op'[w].pc = "refund_reserve" => op'[w].life \in Money
         /\ \A n \in RefundIds : refunds'[n].status # "NONE" => Paid
<1>1. \A n \in RefundIds : refunds[n].status # "NONE" => Paid
  BY DEF Backed
<1>2. CASE RefundReserve(w)
  <2>1. op'[w].pc # "refund_reserve" /\ op[w].pc = "refund_reserve"
    BY <1>2, ReserveEffect, IdleFields
  <2> QED
    BY <2>1 DEF Backed
<1>3. CASE RefundCall(w)
  <2>1. op'[w].pc # "refund_reserve" /\ refunds' = refunds
    BY <1>3, CallEffect DEF tables
  <2> QED
    BY <1>1, <2>1
<1>4. CASE RefundFail(w) \/ RefundSettle(w)
  <2>1. /\ op[w].pc \in {"refund_fail", "refund_settle"}
        /\ op'[w] = Idle \/ op'[w].pc = "save_tx"
    BY <1>4, DoneEffect, SettleEffect DEF RefundFail, At, Takes
  <2>2. op[w].refund \in RefundIds /\ refunds[op[w].refund].status = "PROCESSING"
    BY <2>1 DEF Known, Placed, Owned, Calling
  <2> QED
    BY <1>1, <2>1, <2>2, IdleFields
<1>5. CASE RefundLoad(w)
  <2>1. /\ refunds' = refunds
        /\ op'[w] = Idle \/ op'[w].life \in {"CAPTURED", "PARTIALLY_REFUNDED"}
    BY <1>5, ReadEffect DEF tables
  <2> QED
    BY <1>1, <2>1, IdleFields DEF Money
<1> QED
  BY <1>1, <1>2, <1>3, <1>4, <1>5, ElsewhereRefunds DEF WorkerStep, RefundStep

LEMMA BackedStep ==
  ASSUME TypeOK, Known, Owned, Backed, [Next]_vars
  PROVE  Backed'
<1>1. Paid => Paid'
  BY PaidStays
<1>2. ASSUME NEW w \in Workers, WorkerStep(w)
      PROVE  Backed'
  <2>1. \A v \in Workers : v # w => op'[v] = op[v]
    BY <1>2, Alone DEF TypeOK
  <2>2. op'[w].life \in Money \/ Holds(op'[w].ev) => Paid
    BY <1>2, LifePaid
  <2>3. /\ op'[w].pc = "refund_reserve" => op'[w].life \in Money
        /\ \A n \in RefundIds : refunds'[n].status # "NONE" => Paid
    BY <1>2, RefundBegins
  <2>4. outbox'["PaymentCompleted"] > 0 => Paid
    BY <1>2, OutboxStep DEF Backed
  <2>5. Exists' /\ Loaded' \in Money => Paid
    <3>1. op[w].life \in Lifecycle
      BY DEF TypeOK, Request
    <3>2. row' = row \/ row' = Stored(op[w].life)
      BY <1>2, RowKept DEF CreateInsert, Save
    <3> QED
      BY <3>1, <3>2, SavedMoney DEF Exists, Loaded, Backed
  <2> QED
    BY <1>1, <2>1, <2>2, <2>3, <2>4, <2>5 DEF Backed
<1>3. CASE OutsideStep \/ UNCHANGED vars
  <2>1. UNCHANGED <<row, op, outbox, refunds>>
    BY <1>3 DEF OutsideStep, Settle, SettleRefund, PassDeadline, tables, vars
  <2> QED
    BY <1>1, <2>1 DEF Backed, Exists, Loaded
<1>4. CASE Crash
  <2>1. /\ UNCHANGED <<row, outbox, refunds>>
        /\ \A w \in Workers : op'[w] = Idle
    BY <1>4 DEF Crash, tables
  <2>2. Idle.pc = "idle" /\ Idle.life \notin Money /\ ~Holds(Idle.ev)
    BY IdleFields DEF Money, Holds
  <2> QED
    BY <1>1, <2>1, <2>2 DEF Backed, Exists, Loaded
<1> QED
  BY <1>2, <1>3, <1>4, NextSteps

-----------------------------------------------------------------------------
\* A payment that reads REFUNDED was refunded.

Returned == \E n \in RefundIds : refunds[n].status = "SUCCEEDED" \/ payout[n] = "refunded"

RefundBacked ==
  /\ Exists /\ Loaded = "REFUNDED" => Returned
  /\ \A w \in Workers : op[w].life = "REFUNDED" => Returned

LEMMA ReturnedStays ==
  ASSUME TypeOK, Known, Owned, Returned, [Next]_vars
  PROVE  Returned'
<1>1. PICK n \in RefundIds : refunds[n].status = "SUCCEEDED" \/ payout[n] = "refunded"
  BY DEF Returned
<1>2. ASSUME NEW w \in Workers, WorkerStep(w)
      PROVE  refunds'[n].status = "SUCCEEDED" \/ payout'[n] = "refunded"
  <2>1. CASE RefundReserve(w)
    BY <1>1, <2>1, ReserveEffect, TypeOfRefunds DEF outside
  <2>2. CASE RefundCall(w)
    <3>1. /\ op[w].pc = "refund_call" /\ refunds' = refunds
          /\ payout' = payout \/ payout' = [payout EXCEPT ![op[w].refund] = "accepted"]
      BY <2>2, CallEffect DEF tables
    <3>2. op[w].refund \in RefundIds /\ payout[op[w].refund] = "none"
      BY <3>1 DEF Known, Placed, Owned, Calling
    <3> QED
      BY <1>1, <3>1, <3>2, TypeOfRefunds
  <2>3. CASE RefundFail(w) \/ RefundSettle(w)
    <3>1. /\ op[w].pc \in {"refund_fail", "refund_settle"} /\ payout' = payout
          /\ \E x : refunds' = [refunds EXCEPT ![op[w].refund] = x]
      BY <2>3, SettleEffect DEF RefundFail, At, outside
    <3>2. op[w].refund \in RefundIds /\ refunds[op[w].refund].status = "PROCESSING"
      BY <3>1 DEF Known, Placed, Owned, Calling
    <3> QED
      BY <1>1, <3>1, <3>2, TypeOfRefunds
  <2> QED
    BY <1>1, <1>2, <2>1, <2>2, <2>3, ElsewhereRefunds DEF WorkerStep, RefundStep
<1>3. ASSUME OutsideStep \/ Crash \/ UNCHANGED vars
      PROVE  refunds'[n].status = "SUCCEEDED" \/ payout'[n] = "refunded"
  BY <1>1, <1>3, TypeOfRefunds
     DEF OutsideStep, Settle, SettleRefund, PassDeadline, Crash, tables, outside, counters, vars
<1> QED
  BY <1>2, <1>3, NextSteps DEF Returned

LEMMA RefundedFrom ==
  ASSUME NEW l \in Lifecycle, NEW a \in Answer, Applied(l, a) = "REFUNDED"
  PROVE  l = "REFUNDED" \/ a = "REFUNDED"
  BY DEF Applied, NoNews, Target, Answer

LEMMA SavedRefunded ==
  ASSUME NEW l \in Lifecycle, Restored(Stored(l)) = "REFUNDED"
  PROVE  l = "REFUNDED"
  BY DEF Restored, Stored, FromPersisted, DeriveLifecycle, PublicStatus, ToPersisted, Lifecycle

\* A provider's REFUNDED stands for a refund that was paid out.
LEMMA HeardReturned ==
  ASSUME TypeOK, Known, NEW w \in Workers, NEW pc, Answerable(w, "REFUNDED", pc)
  PROVE  Returned \/ Returned'
<1>1. "REFUNDED" \notin InitiateAnswers
  BY DEF InitiateAnswers
<1>2. "REFUNDED" \notin QueryAnswers
  BY DEF QueryAnswers, AnswerFor, TypeOK, Outcomes
<1>3. CASE RefundSettle(w) /\ op[w].ans = "REFUNDED"
  <2>1. /\ op[w].pc = "refund_settle"
        /\ refunds' = [refunds EXCEPT ![op[w].refund] = SettledRefund(op[w].ans, @)]
    BY <1>3, SettleEffect
  <2>2. op[w].refund \in RefundIds
    BY <2>1 DEF Known, Placed, Calling
  <2>3. SettledRefund("REFUNDED", refunds[op[w].refund]).status = "SUCCEEDED"
    BY <2>2, TypeOfRefunds DEF SettledRefund
  <2>4. refunds'[op[w].refund].status = "SUCCEEDED"
    BY <1>3, <2>1, <2>2, <2>3, TypeOfRefunds
  <2> QED
    BY <2>2, <2>4 DEF Returned
<1>4. CASE HookClaim(w) /\ "REFUNDED" = AnswerFor(Reported(op[w].hook))
  <2>1. op[w].hook \in Callbacks
    BY <1>4, ClaimEffect DEF Known, Placed, Hooking
  <2>2. Reported(op[w].hook) = "refunded"
    BY <1>4, <2>1, ReportedFacts DEF AnswerFor, Outcomes
  <2>3. op[w].hook \notin Requests
    BY <2>1, <2>2, ReportedFacts DEF Outcomes
  <2> QED
    BY <2>1, <2>2, <2>3, ReportedFacts DEF Returned
<1> QED
  BY <1>1, <1>2, <1>3, <1>4 DEF Answerable

LEMMA RefundBackedStep ==
  ASSUME TypeOK, Known, Owned, RefundBacked, [Next]_vars
  PROVE  RefundBacked'
<1>1. Returned => Returned'
  BY ReturnedStays
<1>2. ASSUME NEW w \in Workers, WorkerStep(w)
      PROVE  RefundBacked'
  <2>1. \A v \in Workers : v # w => op'[v] = op[v]
    BY <1>2, Alone DEF TypeOK
  <2>2. op[w].life \in Lifecycle
    BY DEF TypeOK, Request
  <2>3. op'[w].life = "REFUNDED" => Returned \/ Returned'
    <3>1. CASE Hears(w)
      <4>1. PICK a \in Answer, pc \in {"save", "save_tx"} : Takes(w, a, pc) /\ Answerable(w, a, pc)
        BY <3>1 DEF Hears
      <4> QED
        BY <2>2, <4>1, RefundedFrom, HeardReturned DEF Takes, RefundBacked
    <3> QED
      BY <1>2, <3>1, AllRemember
         DEF Remembers, Keeps, Loads, Opens, Reverses, Approves, Reserves, RefundBacked
  <2>4. Exists' /\ Loaded' = "REFUNDED" => Returned
    <3>1. row' = row \/ row' = Stored(op[w].life)
      BY <1>2, RowKept DEF CreateInsert, Save
    <3> QED
      BY <2>2, <3>1, SavedRefunded DEF Exists, Loaded, RefundBacked
  <2> QED
    BY <1>1, <2>1, <2>3, <2>4 DEF RefundBacked
<1>3. CASE OutsideStep \/ UNCHANGED vars
  <2>1. UNCHANGED <<row, op>>
    BY <1>3 DEF OutsideStep, Settle, SettleRefund, PassDeadline, tables, vars
  <2> QED
    BY <1>1, <2>1 DEF RefundBacked, Exists, Loaded
<1>4. CASE Crash
  <2>1. row' = row /\ \A w \in Workers : op'[w] = Idle
    BY <1>4 DEF Crash, tables
  <2> QED
    BY <1>1, <2>1, IdleFields DEF RefundBacked, Exists, Loaded
<1> QED
  BY <1>2, <1>3, <1>4, NextSteps

\* No completion and no refund row without a request the customer has paid (or
\* a manual approval), and no REFUNDED payment without a refund that happened.
THEOREM MoneyIsBacked == Spec => []MoneyBacked
<1>1. Init => Backed /\ RefundBacked
  <2>1. Idle.pc # "refund_reserve" /\ Idle.life \notin Money /\ ~Holds(Idle.ev)
    BY IdleFields DEF Money, Holds
  <2> QED
    BY <2>1, IdleFields DEF Init, Backed, RefundBacked, Exists, Unused, EventType
<1>2. TypeOK /\ Known /\ Owned /\ Backed /\ RefundBacked /\ [Next]_vars
        => (Backed /\ RefundBacked)'
  BY BackedStep, RefundBackedStep
<1>3. Backed /\ RefundBacked => MoneyBacked
  BY DEF Backed, RefundBacked, MoneyBacked, Paid, Returned
<1> QED
  BY <1>1, <1>2, <1>3, TypeCorrect, RefundsOwned, PTL DEF Spec

-----------------------------------------------------------------------------
\* A captured payment is announced.

\* What a callback that is on record, or being handled, says is final.
Heard ==
  /\ \A c \in Callbacks : hooks[c] # "NONE" => Reported(c) # "none"
  /\ \A w \in Workers : op[w].hook # 0 =>
       /\ op[w].hook \in Callbacks /\ Reported(op[w].hook) # "none"
       /\ op[w].pc \in Hooking \cup {"save", "publish"}
       /\ (/\ op[w].pc \in {"save", "publish", "hook_finalize"} /\ op[w].hook \in Requests
           /\ gateway[op[w].hook] = "paid") => op[w].life \in Money

\* Money in the row, in the memory of a request or behind a processed callback
\* has a completion that is appended or on its way.
Announced ==
  Undisturbed =>
    /\ Exists /\ Loaded \in Money => CompletionOnItsWay
    /\ \A w \in Workers : op[w].life \in Money => CompletionOnItsWay
    /\ \A c \in Requests :
         hooks[c] = "PROCESSED" /\ gateway[c] = "paid" => CompletionOnItsWay

\* A report, once there, stays the same.
LEMMA ReportedStays ==
  ASSUME TypeOK, Known, Owned, [Next]_vars, NEW c \in Callbacks, Reported(c) # "none"
  PROVE  Reported(c)' = Reported(c)
<1>1. /\ gateway \in [Requests -> {"none", "refused", "pending"} \cup Outcomes]
      /\ payout \in [RefundIds -> {"none", "accepted", "refunded", "failed"}]
  BY DEF TypeOK
<1>2. CASE c \in Requests
  <2>1. gateway[c] \in Outcomes
    BY <1>2, ReportedFacts
  <2>2. gateway'[c] = gateway[c]
    BY <1>2, <2>1, GatewayStays DEF Outcomes
  <2> QED
    BY <1>2, <2>2 DEF Reported
<1>3. CASE c \notin Requests
  <2>1. c - MaxRequests \in RefundIds
    BY <1>3, ReportedFacts
  <2>2. payout[c - MaxRequests] \in {"refunded", "failed"}
    BY <1>1, <1>3, <2>1 DEF Reported, Outcomes
  <2>3. ASSUME NEW w \in Workers, WorkerStep(w)
        PROVE  payout'[c - MaxRequests] = payout[c - MaxRequests]
    <3>1. CASE RefundCall(w)
      <4>1. /\ op[w].pc = "refund_call"
            /\ payout' = payout \/ payout' = [payout EXCEPT ![op[w].refund] = "accepted"]
        BY <3>1, CallEffect
      <4>2. op[w].refund \in RefundIds /\ payout[op[w].refund] = "none"
        BY <4>1 DEF Known, Placed, Owned, Calling
      <4> QED
        BY <1>1, <2>1, <2>2, <4>1, <4>2
    <3>2. CASE RefundReserve(w)
      BY <3>2, ReserveEffect DEF outside
    <3>3. CASE RefundFail(w) \/ RefundSettle(w)
      BY <3>3, SettleEffect DEF RefundFail, outside
    <3> QED
      BY <2>3, <3>1, <3>2, <3>3, ElsewhereRefunds DEF WorkerStep, RefundStep
  <2>4. ASSUME OutsideStep \/ Crash \/ UNCHANGED vars
        PROVE  payout'[c - MaxRequests] = payout[c - MaxRequests]
    BY <1>1, <2>1, <2>2, <2>4
       DEF OutsideStep, Settle, SettleRefund, PassDeadline, Crash, outside, counters, vars
  <2> QED
    BY <1>3, <2>3, <2>4, NextSteps DEF Reported
<1> QED
  BY <1>2, <1>3

LEMMA FaultsFall ==
  ASSUME TypeOK, [Next]_vars
  PROVE  faults' \in {faults, faults - 1}
<1>1. ASSUME NEW w \in Workers, WorkerStep(w)
      PROVE  faults' \in {faults, faults - 1}
  <2>1. CASE RefundReserve(w) \/ RefundFail(w) \/ RefundSettle(w)
    BY <2>1 DEF RefundReserve, RefundFail, RefundSettle, counters
  <2>2. CASE RefundCall(w)
    BY <2>2, CallEffect
  <2> QED
    BY <1>1, <2>1, <2>2, ElsewhereRefunds DEF WorkerStep, RefundStep
<1>2. ASSUME OutsideStep \/ Crash \/ UNCHANGED vars
      PROVE  faults' \in {faults, faults - 1}
  BY <1>2 DEF OutsideStep, Settle, SettleRefund, PassDeadline, Crash, counters, vars
<1> QED
  BY <1>1, <1>2, NextSteps

\* From save and from publish there is one way on.
LEMMA OnwardSteps ==
  ASSUME NEW w \in Workers, WorkerStep(w), op[w].pc \in Hooking \cup {"save", "publish"}
  PROVE  /\ op[w].pc = "save" => Save(w) \/ Abort(w)
         /\ op[w].pc = "publish" => Publish(w) \/ Abort(w)
         /\ Save(w) \/ Publish(w) \/ HookStep(w) \/ Abort(w)
<1> USE DEF At, Hooking
<1>1. ~CreateStep(w) /\ ~SaveTx(w)
  BY DEF CreateStep, CreateStart, CreateInsert, CreatePublish, CreateInitiate, Accept, SaveTx
<1>2. ~ChangeStep(w)
  BY DEF ChangeStep, QueryStart, Query, RetryStart, RetryInitiate, ActStart, Act,
         ManualApprove, Accept
<1>3. ~RefundStep(w)
  BY DEF RefundStep, RefundStart, RefundLoad, RefundReserve, RefundCall, RefundFail,
         RefundSettle, Accept
<1>4. op[w].pc \in {"save", "publish"} => ~HookStep(w)
  BY DEF HookStep, HookStart, HookResolve, HookClaim, HookFinalize, HookFail, Accept
<1>5. Save(w) => op[w].pc = "save"
  BY DEF Save
<1>6. Publish(w) => op[w].pc = "publish"
  BY DEF Publish
<1> QED
  BY <1>1, <1>2, <1>3, <1>4, <1>5, <1>6 DEF WorkerStep

\* Only HookStart takes up a callback.
LEMMA HookFrom ==
  ASSUME TypeOK, NEW w \in Workers, WorkerStep(w)
  PROVE  \/ op'[w].hook = 0 \/ op'[w].hook = op[w].hook
         \/ \E c \in Callbacks : HookStart(w, c)
<1>1. op \in [Workers -> Request] /\ op[w] \in Request
  BY DEF TypeOK
<1>2. CASE SaveTx(w) \/ Save(w)
  BY <1>1, <1>2 DEF SaveTx, Save, Continue, Become, Request
<1>3. CASE Publish(w) \/ Abort(w)
  BY <1>3, PublishEffect, AbortEffect, IdleFields
<1>4. CASE CreateStep(w)
  <2>1. CASE CreateStart(w)
    BY <2>1, StartEffect DEF Begins
  <2>2. CASE CreateInsert(w)
    BY <1>1, <2>2, DoneEffect, IdleFields DEF CreateInsert, Continue, Become, Request
  <2>3. CASE CreatePublish(w)
    BY <1>1, <2>3 DEF CreatePublish, Become, Request
  <2>4. CASE CreateInitiate(w)
    BY <2>4, InitiateEffect, IdleFields DEF Takes
  <2> QED
    BY <1>4, <2>1, <2>2, <2>3, <2>4 DEF CreateStep
<1>5. CASE ChangeStep(w)
  <2>1. CASE QueryStart(w) \/ RetryStart(w) \/ ManualApprove(w)
             \/ \E action \in {"cancel", "reverse"} : ActStart(w, action)
    BY <2>1, StartEffect DEF Begins
  <2>2. CASE Query(w) \/ RetryInitiate(w) \/ Act(w)
    BY <2>2, QueryEffect, RetryEffect, ActEffect, IdleFields DEF Takes
  <2> QED
    BY <1>5, <2>1, <2>2 DEF ChangeStep
<1>6. CASE RefundStep(w)
  <2>1. CASE \E key \in RefundKeys, amount \in RefundAmounts : RefundStart(w, key, amount)
    BY <2>1, StartEffect DEF Begins
  <2>2. CASE RefundLoad(w) \/ RefundReserve(w) \/ RefundCall(w)
    BY <2>2, ReadEffect, ReserveEffect, CallEffect, IdleFields
  <2>3. CASE RefundFail(w) \/ RefundSettle(w)
    BY <2>3, DoneEffect, SettleEffect, IdleFields DEF RefundFail, Takes
  <2> QED
    BY <1>6, <2>1, <2>2, <2>3 DEF RefundStep
<1>7. CASE HookStep(w)
  <2>1. CASE HookResolve(w) \/ HookClaim(w)
    BY <2>1, ReadEffect, ClaimEffect, IdleFields DEF Takes
  <2>2. CASE HookFinalize(w) \/ HookFail(w)
    BY <2>2, DoneEffect, IdleFields DEF HookFinalize, HookFail
  <2> QED
    BY <1>7, <2>1, <2>2 DEF HookStep
<1> QED
  BY <1>2, <1>3, <1>4, <1>5, <1>6, <1>7 DEF WorkerStep

\* A copy that accepts COMPLETED holds the money, and says so unless it had it.
LEMMA CompletedFacts ==
  ASSUME NEW l \in Lifecycle, NEW ev \in Seq(EventType), Accepts(l, "COMPLETED")
  PROVE  /\ Applied(l, "COMPLETED") = "CAPTURED"
         /\ l = "CAPTURED" \/ Holds(ev \o News(l, "COMPLETED"))
<1>1. Target("COMPLETED") = "CAPTURED"
  BY DEF Target
<1>2. Applied(l, "COMPLETED") = "CAPTURED"
  BY <1>1 DEF Applied, NoNews
<1>3. ASSUME l # "CAPTURED"
      PROVE  Holds(ev \o News(l, "COMPLETED"))
  <2>1. News(l, "COMPLETED") = <<"PaymentCompleted">>
    BY <1>1, <1>3 DEF News, NoNews, Emitted
  <2>2. <<"PaymentCompleted">> \in Seq(EventType)
    BY DEF EventType
  <2>3. /\ Len(ev) \in Nat /\ Len(ev) + 1 \in DOMAIN (ev \o <<"PaymentCompleted">>)
        /\ (ev \o <<"PaymentCompleted">>)[Len(ev) + 1] = "PaymentCompleted"
    BY <2>2
  <2> QED
    BY <2>1, <2>3 DEF Holds
<1> QED
  BY <1>2, <1>3

\* What the worker of a callback does with it.
LEMMA HeardWorker ==
  ASSUME TypeOK, Known, Owned, Heard, NEW w \in Workers, WorkerStep(w), op'[w].hook # 0
  PROVE  /\ op'[w].hook \in Callbacks /\ Reported(op'[w].hook) # "none"
         /\ op'[w].pc \in Hooking \cup {"save", "publish"}
         /\ (/\ op'[w].pc \in {"save", "publish", "hook_finalize"} /\ op'[w].hook \in Requests
             /\ gateway[op'[w].hook] = "paid") => op'[w].life \in Money
<1>1. op \in [Workers -> Request] /\ op[w] \in Request
  BY DEF TypeOK
<1>2. CASE \E c \in Callbacks : HookStart(w, c)
  <2>1. PICK c \in Callbacks : Reported(c) # "none" /\ Begins(w, "hook_resolve", "CREATED", << >>, c)
    BY <1>2, StartEffect
  <2> QED
    BY <2>1 DEF Begins, Hooking
<1>3. CASE ~\E c \in Callbacks : HookStart(w, c)
  <2>1. op'[w].hook = op[w].hook
    BY <1>3, HookFrom
  <2>2. /\ op[w].hook \in Callbacks /\ Reported(op[w].hook) # "none"
        /\ op[w].pc \in Hooking \cup {"save", "publish"}
        /\ (/\ op[w].pc \in {"save", "publish", "hook_finalize"} /\ op[w].hook \in Requests
            /\ gateway[op[w].hook] = "paid") => op[w].life \in Money
    BY <2>1 DEF Heard
  <2>3. op'[w] # Idle
    BY IdleFields
  <2>4. Save(w) \/ Publish(w) \/ HookStep(w) \/ Abort(w)
    BY <2>2, OnwardSteps
  <2>5. CASE Save(w)
    <3>1. op[w].pc = "save" /\ op'[w].pc = "publish" /\ op'[w].life = op[w].life
      BY <1>1, <2>5 DEF Save, At, Continue, Become, Request
    <3> QED
      BY <2>1, <2>2, <3>1
  <2>6. CASE Publish(w)
    <3>1. op[w].pc = "publish" /\ op'[w].pc = "hook_finalize" /\ op'[w].life = op[w].life
      BY <2>3, <2>6, PublishEffect
    <3> QED
      BY <2>1, <2>2, <3>1 DEF Hooking
  <2>7. CASE Abort(w)
    <3>1. op'[w].pc = "hook_fail"
      BY <2>3, <2>7, AbortEffect
    <3> QED
      BY <2>1, <2>2, <3>1 DEF Hooking
  <2>8. CASE HookResolve(w)
    <3>1. op'[w].pc = "hook_claim"
      BY <2>3, <2>8, ReadEffect
    <3> QED
      BY <2>1, <2>2, <3>1 DEF Hooking
  <2>9. CASE HookClaim(w)
    <3>1. \/ Takes(w, AnswerFor(Reported(op[w].hook)), "save")
          \/ op'[w].pc = "hook_fail"
      BY <2>3, <2>9, ClaimEffect
    <3>2. ASSUME Takes(w, AnswerFor(Reported(op[w].hook)), "save"),
                 op[w].hook \in Requests, gateway[op[w].hook] = "paid"
          PROVE  op'[w].life \in Money
      <4>1. AnswerFor(Reported(op[w].hook)) = "COMPLETED"
        BY <2>2, <3>2, ReportedFacts DEF AnswerFor, Outcomes
      <4>2. op[w].life \in Lifecycle /\ op[w].ev \in Seq(EventType)
        BY <1>1 DEF Request
      <4> QED
        BY <3>2, <4>1, <4>2, CompletedFacts DEF Takes, Money
    <3>3. op'[w].pc \in {"save", "hook_fail"}
      BY <3>1 DEF Takes
    <3> QED
      BY <2>1, <2>2, <3>1, <3>2, <3>3 DEF Hooking
  <2>10. ~HookFinalize(w) /\ ~HookFail(w)
    BY <2>3, DoneEffect DEF HookFinalize, HookFail
  <2> QED
    BY <1>3, <2>4, <2>5, <2>6, <2>7, <2>8, <2>9, <2>10 DEF HookStep
<1> QED
  BY <1>2, <1>3

\* The callbacks on record stay ones that have something to report.
LEMMA HeardStep ==
  ASSUME TypeOK, Known, Owned, Heard, [Next]_vars
  PROVE  Heard'
<1>1. \A c \in Callbacks : Reported(c) # "none" => Reported(c)' = Reported(c)
  BY ReportedStays
<1>2. \A c \in Requests : Reported(c) # "none" => gateway'[c] = gateway[c]
  <2>1. ASSUME NEW c \in Requests, Reported(c) # "none"
        PROVE  gateway[c] \in Outcomes
    <3>1. c \in Callbacks
      BY PaymentConstants DEF Requests, Callbacks
    <3> QED
      BY <2>1, <3>1, ReportedFacts
  <2> QED
    BY <2>1, GatewayStays DEF Outcomes
<1>3. ASSUME NEW w \in Workers, WorkerStep(w)
      PROVE  Heard'
  <2>1. \A v \in Workers : v # w => op'[v] = op[v]
    BY <1>3, Alone DEF TypeOK
  <2>2. op'[w].hook # 0 =>
          /\ op'[w].hook \in Callbacks /\ Reported(op'[w].hook) # "none"
          /\ op'[w].pc \in Hooking \cup {"save", "publish"}
          /\ (/\ op'[w].pc \in {"save", "publish", "hook_finalize"} /\ op'[w].hook \in Requests
              /\ gateway[op'[w].hook] = "paid") => op'[w].life \in Money
    BY <1>3, HeardWorker
  <2>3. ASSUME NEW v \in Workers, op'[v].hook # 0
        PROVE  /\ op'[v].hook \in Callbacks /\ Reported(op[v].hook)' # "none"
               /\ op'[v].pc \in Hooking \cup {"save", "publish"}
               /\ (/\ op'[v].pc \in {"save", "publish", "hook_finalize"} /\ op'[v].hook \in Requests
                   /\ gateway'[op'[v].hook] = "paid") => op'[v].life \in Money
    <3>1. /\ op'[v].hook \in Callbacks /\ Reported(op'[v].hook) # "none"
          /\ op'[v].pc \in Hooking \cup {"save", "publish"}
          /\ (/\ op'[v].pc \in {"save", "publish", "hook_finalize"} /\ op'[v].hook \in Requests
              /\ gateway[op'[v].hook] = "paid") => op'[v].life \in Money
      BY <2>1, <2>2, <2>3 DEF Heard
    <3>2. Reported(op[v].hook)' # "none"
      <4>1. ASSUME NEW c \in Callbacks, c = op'[v].hook
            PROVE  Reported(op[v].hook)' = Reported(c)'
        BY <4>1 DEF Reported
      <4>2. Reported(op[v].hook)' = Reported(op'[v].hook)
        BY <1>1, <3>1, <4>1
      <4> QED
        BY <3>1, <4>2
    <3>3. op'[v].hook \in Requests => gateway'[op'[v].hook] = gateway[op'[v].hook]
      BY <1>2, <3>1
    <3> QED
      BY <3>1, <3>2, <3>3
  <2>4. \A c \in Callbacks : hooks'[c] # "NONE" => Reported(c)' # "none"
    <3>1. hooks \in [Callbacks -> {"NONE", "RECEIVED", "FAILED", "PROCESSED"}]
      BY DEF TypeOK
    <3>2. hooks' = hooks \/ \E x : hooks' = [hooks EXCEPT ![op[w].hook] = x]
      <4>1. CASE \E c \in Callbacks : HookStart(w, c)
        BY <4>1 DEF HookStart, Accept, tables
      <4>2. CASE HookResolve(w) \/ HookClaim(w)
        BY <4>2, ReadEffect, ClaimEffect DEF tables
      <4>3. CASE HookFinalize(w) \/ HookFail(w)
        BY <4>3 DEF HookFinalize, HookFail
      <4> QED
        BY <1>3, <4>1, <4>2, <4>3, HooksKept DEF HookStep
    <3>3. op[w].hook \in Callbacks => op[w].hook # 0
      BY DEF Callbacks
    <3> QED
      BY <1>1, <3>1, <3>2, <3>3 DEF Heard
  <2> QED
    BY <2>3, <2>4 DEF Heard
<1>4. ASSUME UNCHANGED hooks, \A w \in Workers : op'[w] = op[w] \/ op'[w] = Idle
      PROVE  Heard'
  <2>1. \A c \in Callbacks : hooks'[c] # "NONE" => Reported(c)' # "none"
    BY <1>1, <1>4 DEF Heard
  <2>2. ASSUME NEW v \in Workers, op'[v].hook # 0
        PROVE  /\ op'[v].hook \in Callbacks /\ Reported(op[v].hook)' # "none"
               /\ op'[v].pc \in Hooking \cup {"save", "publish"}
               /\ (/\ op'[v].pc \in {"save", "publish", "hook_finalize"} /\ op'[v].hook \in Requests
                   /\ gateway'[op'[v].hook] = "paid") => op'[v].life \in Money
    <3>1. op'[v] = op[v]
      BY <1>4, <2>2, IdleFields
    <3>2. /\ op[v].hook \in Callbacks /\ Reported(op[v].hook) # "none"
          /\ op[v].pc \in Hooking \cup {"save", "publish"}
          /\ (/\ op[v].pc \in {"save", "publish", "hook_finalize"} /\ op[v].hook \in Requests
              /\ gateway[op[v].hook] = "paid") => op[v].life \in Money
      BY <2>2, <3>1 DEF Heard
    <3>3. Reported(op[v].hook)' # "none"
      <4>1. ASSUME NEW c \in Callbacks, c = op[v].hook
            PROVE  Reported(op[v].hook)' = Reported(c)'
        BY <3>1, <4>1 DEF Reported
      <4> QED
        BY <1>1, <3>2, <4>1
    <3> QED
      BY <1>2, <3>1, <3>2, <3>3
  <2> QED
    BY <2>1, <2>2 DEF Heard
<1>5. OutsideStep \/ Crash \/ UNCHANGED vars =>
        UNCHANGED hooks /\ \A w \in Workers : op'[w] = op[w] \/ op'[w] = Idle
  BY DEF OutsideStep, Settle, SettleRefund, PassDeadline, Crash, tables, vars
<1> QED
  BY <1>3, <1>4, <1>5, NextSteps

\* Undisturbed so far: no call failed and nothing crashed in this step either.
LEMMA StillUndisturbed ==
  ASSUME TypeOK, Told, [Next]_vars, Undisturbed'
  PROVE  Undisturbed /\ ~Crash /\ \A w \in Workers : ~Abort(w)
<1>1. faults \in Nat /\ MaxFaults \in Nat /\ faults <= MaxFaults
  BY TypeOfRefunds DEF Told
<1>2. faults' = MaxFaults
  BY DEF Undisturbed
<1>3. faults = MaxFaults
  BY <1>1, <1>2, FaultsFall
<1> QED
  BY <1>1, <1>2, <1>3 DEF Undisturbed, Crash, Abort

\* A completion on its way arrives.
LEMMA CompletionStays ==
  ASSUME TypeOK, Told, CompletionOnItsWay, [Next]_vars, Undisturbed'
  PROVE  CompletionOnItsWay'
<1>1. ~Crash /\ \A w \in Workers : ~Abort(w)
  BY StillUndisturbed
<1>2. ASSUME NEW w \in Workers, WorkerStep(w)
      PROVE  CompletionOnItsWay'
  <2>1. \A v \in Workers : v # w => op'[v] = op[v]
    BY <1>2, Alone DEF TypeOK
  <2>2. CASE outbox["PaymentCompleted"] > 0
    BY <1>2, <2>2, OutboxStep DEF CompletionOnItsWay
  <2>3. ASSUME NEW v \in Workers, op[v].pc \in {"save", "publish"}, Holds(op[v].ev)
        PROVE  CompletionOnItsWay'
    <3>1. CASE v # w
      BY <2>1, <2>3, <3>1 DEF CompletionOnItsWay, Holds
    <3>2. CASE v = w /\ op[w].pc = "save"
      <4>1. Save(w)
        BY <1>1, <1>2, <3>2, OnwardSteps
      <4>2. op'[w].pc = "publish" /\ op'[w].ev = op[w].ev
        BY <4>1 DEF Save, Continue, Become, TypeOK, Request
      <4> QED
        BY <2>3, <3>2, <4>2 DEF CompletionOnItsWay, Holds
    <3>3. CASE v = w /\ op[w].pc = "publish"
      <4>1. Publish(w)
        BY <1>1, <1>2, <3>3, OnwardSteps
      <4> QED
        BY <1>2, <2>3, <3>3, <4>1, OutboxStep DEF CompletionOnItsWay
    <3> QED
      BY <2>3, <3>1, <3>2, <3>3
  <2> QED
    BY <2>2, <2>3 DEF CompletionOnItsWay, Holds
<1>3. CASE OutsideStep \/ UNCHANGED vars
  <2>1. UNCHANGED <<op, outbox>>
    BY <1>3 DEF OutsideStep, Settle, SettleRefund, PassDeadline, tables, vars
  <2> QED
    BY <2>1 DEF CompletionOnItsWay
<1> QED
  BY <1>1, <1>2, <1>3, NextSteps

\* Money in memory comes with a completion that is on its way, or after one.
LEMMA LifeAnnounced ==
  ASSUME TypeOK, Known, Owned, Backed, Announced, Undisturbed, NEW w \in Workers, WorkerStep(w),
         op'[w].life \in Money
  PROVE  CompletionOnItsWay \/ CompletionOnItsWay'
<1>1. op[w].life \in Lifecycle /\ op[w].ev \in Seq(EventType)
  BY DEF TypeOK, Request
<1>2. op[w].life \in Money => CompletionOnItsWay
  BY DEF Announced
<1>3. CASE Hears(w)
  <2>1. PICK a \in Answer, pc \in {"save", "save_tx"} : Takes(w, a, pc) /\ Answerable(w, a, pc)
    BY <1>3 DEF Hears
  <2>2. CASE a # "COMPLETED"
    BY <1>1, <1>2, <2>1, <2>2, MoneyFrom DEF Takes
  <2>3. CASE a = "COMPLETED"
    <3>1. op'[w].pc = "save"
      BY <2>1, <2>3, HeardPaid DEF Takes
    <3>2. op[w].life = "CAPTURED" \/ Holds(op'[w].ev)
      BY <1>1, <2>1, <2>3, CompletedFacts DEF Takes
    <3> QED
      BY <1>2, <3>1, <3>2 DEF CompletionOnItsWay, Holds, Money
  <2> QED
    BY <2>2, <2>3
<1>4. CASE Keeps(w)
  BY <1>2, <1>4 DEF Keeps
<1>5. CASE Loads(w) \/ Reverses(w)
  BY <1>5 DEF Loads, Reverses, Announced, Money
<1>6. CASE Opens(w)
  BY <1>6 DEF Opens, Money
<1>7. CASE Approves(w)
  <2>1. Holds(op'[w].ev)
    BY <1>7 DEF Approves, Holds
  <2> QED
    BY <1>7, <2>1 DEF Approves, CompletionOnItsWay, Holds
<1>8. CASE Reserves(w)
  BY <1>2, <1>8 DEF Reserves, Backed
<1> QED
  BY <1>3, <1>4, <1>5, <1>6, <1>7, <1>8, AllRemember DEF Remembers

LEMMA AnnouncedStep ==
  ASSUME TypeOK, Known, Owned, Told, Backed, Heard, Announced, [Next]_vars
  PROVE  Announced'
<1> SUFFICES ASSUME Undisturbed'
             PROVE  /\ Exists' /\ Loaded' \in Money => CompletionOnItsWay'
                    /\ \A w \in Workers : op'[w].life \in Money => CompletionOnItsWay'
                    /\ \A c \in Requests :
                         hooks'[c] = "PROCESSED" /\ gateway'[c] = "paid" => CompletionOnItsWay'
  BY DEF Announced
<1>1. Undisturbed /\ ~Crash
  BY StillUndisturbed
<1>2. CompletionOnItsWay => CompletionOnItsWay'
  BY CompletionStays
<1>3. \A c \in Requests : c \in Callbacks /\ (hooks[c] # "NONE" => gateway'[c] = gateway[c])
  <2>1. ASSUME NEW c \in Requests
        PROVE  c \in Callbacks
    BY PaymentConstants DEF Requests, Callbacks
  <2>2. ASSUME NEW c \in Requests, hooks[c] # "NONE"
        PROVE  gateway[c] \in Outcomes
    BY <2>1, <2>2, ReportedFacts DEF Heard
  <2> QED
    BY <2>1, <2>2, GatewayStays DEF Outcomes
<1>4. ASSUME NEW w \in Workers, WorkerStep(w)
      PROVE  /\ Exists' /\ Loaded' \in Money => CompletionOnItsWay'
             /\ \A v \in Workers : op'[v].life \in Money => CompletionOnItsWay'
             /\ \A c \in Requests :
                  hooks'[c] = "PROCESSED" /\ gateway'[c] = "paid" => CompletionOnItsWay'
  <2>1. \A v \in Workers : v # w => op'[v] = op[v]
    BY <1>4, Alone DEF TypeOK
  <2>2. op[w].life \in Lifecycle
    BY DEF TypeOK, Request
  <2>3. Exists' /\ Loaded' \in Money => CompletionOnItsWay'
    <3>1. row' = row \/ row' = Stored(op[w].life)
      BY <1>4, RowKept DEF CreateInsert, Save
    <3> QED
      BY <1>1, <1>2, <2>2, <3>1, SavedMoney DEF Exists, Loaded, Announced
  <2>4. \A v \in Workers : op'[v].life \in Money => CompletionOnItsWay'
    BY <1>1, <1>2, <1>4, <2>1, LifeAnnounced DEF Announced
  <2>5. ASSUME NEW c \in Requests, hooks'[c] = "PROCESSED", gateway'[c] = "paid"
        PROVE  CompletionOnItsWay'
    <3>1. CASE hooks[c] = "PROCESSED"
      BY <1>1, <1>2, <1>3, <2>5, <3>1 DEF Announced
    <3>2. CASE hooks[c] # "PROCESSED"
      <4>1. HookFinalize(w) /\ op[w].hook = c
        <5>1. hooks \in [Callbacks -> {"NONE", "RECEIVED", "FAILED", "PROCESSED"}]
          BY DEF TypeOK
        <5>2. ~HookResolve(w) /\ ~\E d \in Callbacks : HookStart(w, d)
          BY <2>5, <3>2, ReadEffect DEF HookStart, Accept, tables
        <5>3. ~HookClaim(w)
          BY <1>3, <2>5, <3>2, <5>1, ClaimEffect
        <5>4. ~HookFail(w)
          BY <1>3, <2>5, <3>2, <5>1 DEF HookFail, FailedUnlessProcessed
        <5>5. HookFinalize(w) => op[w].hook = c
          BY <1>3, <2>5, <3>2, <5>1 DEF HookFinalize
        <5> QED
          BY <1>4, <2>5, <3>2, <5>2, <5>3, <5>4, <5>5, HooksKept DEF HookStep
      <4>2. op[w].pc = "hook_finalize" /\ gateway' = gateway
        BY <4>1 DEF HookFinalize, At, outside
      <4>3. c # 0
        BY DEF Requests
      <4>4. op[w].life \in Money
        BY <2>5, <4>1, <4>2, <4>3 DEF Heard
      <4> QED
        BY <1>1, <1>2, <4>4 DEF Announced
    <3> QED
      BY <3>1, <3>2
  <2> QED
    BY <2>3, <2>4, <2>5
<1>5. CASE OutsideStep \/ UNCHANGED vars
  <2>1. UNCHANGED <<row, op, hooks>>
    BY <1>5 DEF OutsideStep, Settle, SettleRefund, PassDeadline, tables, vars
  <2> QED
    BY <1>1, <1>2, <1>3, <2>1 DEF Announced, Exists, Loaded
<1> QED
  BY <1>1, <1>4, <1>5, NextSteps

\* Money in the row, and a paid callback that is PROCESSED, have a completion
\* in the outbox or about to be appended: the upsert of save is followed by the
\* publish of the same copy, and only a failed call or a crash comes between.
THEOREM CapturesAreAnnounced == Spec => []CaptureIsAnnounced
<1>1. Init => Backed /\ Heard /\ Announced
  <2>1. /\ Idle.pc # "refund_reserve" /\ Idle.life \notin Money /\ ~Holds(Idle.ev)
        /\ Idle.hook = 0
    BY IdleFields DEF Money, Holds
  <2>2. \A c \in Requests : c \in Callbacks
    BY PaymentConstants DEF Requests, Callbacks
  <2> QED
    BY <2>1, <2>2 DEF Init, Backed, Heard, Announced, Exists, Unused, EventType
<1>2. TypeOK /\ Known /\ Owned /\ Told /\ Backed /\ Heard /\ Announced /\ [Next]_vars
        => (Backed /\ Heard /\ Announced)'
  BY BackedStep, HeardStep, AnnouncedStep
<1>3. Backed /\ Heard /\ Announced => CaptureIsAnnounced
  BY DEF Announced, CaptureIsAnnounced, Money
<1> QED
  BY <1>1, <1>2, <1>3, TypeCorrect, RefundsOwned, PTL DEF Spec

-----------------------------------------------------------------------------
\* The stored lifecycle follows the transition table.

Reading ==
  {"create_publish", "create_initiate", "query", "retry_initiate", "cancel", "reverse",
   "refund_reserve", "refund_call", "refund_settle", "hook_claim"}

\* TwoSteps of PaymentLifecycle.
Twice(from) ==
  Transitions(from) \cup UNION {Transitions(s) : s \in Transitions(from)}

\* The copy a request works on is what the row says, or one transition further
\* in a state of its own; the copy it saves is at most two transitions further.
Follows(w) ==
  /\ op[w].pc = "create_insert" => op[w].life = "INITIATION_PENDING"
  /\ op[w].pc \in {"create_publish", "create_initiate"} => Loaded = "INITIATION_PENDING"
  /\ op[w].pc = "refund_reserve" => Loaded \in {"CAPTURED", "PARTIALLY_REFUNDED"}
  /\ op[w].pc \in Reading =>
       /\ op[w].life = Loaded \/ (op[w].life \in Transitions(Loaded) /\ op[w].life # "CAPTURED")
       /\ op[w].life = "REVERSAL_PENDING" => op[w].pc = "reverse"
  /\ op[w].pc \in {"save_tx", "save"} =>
       /\ op[w].life # "REVERSAL_PENDING"
       /\ op[w].life = Loaded \/ op[w].life \in Twice(Loaded)

LEMMA TwiceIsTwo == \A from : Abstract!TwoSteps(from) = Twice(from)
  BY DEF Abstract!TwoSteps, Abstract!Transitions, Transitions, Twice

LEMMA IdleFollows ==
  ASSUME NEW w \in Workers, op'[w] = Idle
  PROVE  Follows(w)'
  BY IdleFields DEF Follows, Reading

LEMMA LoadedStorable ==
  ASSUME TypeOK, Exists
  PROVE  Loaded \in Lifecycle \ {"REVERSAL_PENDING"}
<1>1. PICK l \in Lifecycle : row = Stored(l)
  BY DEF TypeOK, Exists
<1> QED
  BY <1>1 DEF Loaded, Restored, Stored, FromPersisted, DeriveLifecycle, PublicStatus, ToPersisted,
              Lifecycle

LEMMA StoredSame ==
  ASSUME NEW l \in Lifecycle, l # "REVERSAL_PENDING"
  PROVE  Restored(Stored(l)) = l
  BY DEF Restored, Stored, FromPersisted, DeriveLifecycle, PublicStatus, ToPersisted, Lifecycle

\* One answer takes a copy at most to where two transitions take the row.
LEMMA AnswerFollows ==
  ASSUME NEW from \in Lifecycle \ {"REVERSAL_PENDING"}, NEW l \in Lifecycle, NEW a \in Answer,
         l = from \/ (l \in Transitions(from) /\ l # "CAPTURED"), Accepts(l, a),
         l = "REVERSAL_PENDING" => a \in {"CANCELLED", "REVERSED"}
  PROVE  /\ Applied(l, a) # "REVERSAL_PENDING"
         /\ Applied(l, a) = from \/ Applied(l, a) \in Twice(from)
<1>1. CASE NoNews(l, a)
  <2>1. Applied(l, a) = l
    BY <1>1 DEF Applied
  <2>2. l # "REVERSAL_PENDING"
    BY <1>1 DEF NoNews, Target
  <2> QED
    BY <2>1, <2>2 DEF Twice
<1>2. CASE ~NoNews(l, a)
  <2>1. Applied(l, a) = Target(a) /\ Target(a) \in Transitions(Via(l, Target(a)))
    BY <1>2 DEF Applied, Accepts
  <2>2. Target(a) # "REVERSAL_PENDING"
    BY DEF Target, Answer
  <2>3. CASE Via(l, Target(a)) = l
    BY <2>1, <2>2, <2>3 DEF Twice
  <2>4. CASE Via(l, Target(a)) # l
    <3>1. l = "CAPTURED" /\ Via(l, Target(a)) \in Transitions(l)
      BY <2>4 DEF Via, Transitions
    <3> QED
      BY <2>1, <2>2, <3>1 DEF Twice
  <2> QED
    BY <2>3, <2>4
<1> QED
  BY <1>1, <1>2

LEMMA TakesFollows ==
  ASSUME TypeOK, Known, NEW w \in Workers, Follows(w), op[w].pc \in Reading, NEW a \in Answer,
         NEW pc \in {"save", "save_tx"}, Takes(w, a, pc), row' = row,
         op[w].pc = "reverse" => a \in {"CANCELLED", "REVERSED"}
  PROVE  Follows(w)'
<1>1. op[w].life \in Lifecycle /\ Exists
  BY DEF TypeOK, Request, Known, Placed, Reading
<1>2. Loaded \in Lifecycle \ {"REVERSAL_PENDING"} /\ Loaded' = Loaded
  BY <1>1, LoadedStorable DEF Loaded
<1>3. /\ op'[w].life # "REVERSAL_PENDING"
      /\ op'[w].life = Loaded \/ op'[w].life \in Twice(Loaded)
  BY <1>1, <1>2, AnswerFollows DEF Takes, Follows
<1> QED
  BY <1>2, <1>3 DEF Takes, Follows, Reading

LEMMA FollowsCreate ==
  ASSUME TypeOK, Known, NEW w \in Workers, Follows(w), CreateStep(w)
  PROVE  Follows(w)'
<1>1. op \in [Workers -> Request] /\ op[w] \in Request /\ op[w].life \in Lifecycle
  BY DEF TypeOK, Request
<1>2. CASE CreateStart(w)
  BY <1>2, StartEffect DEF Begins, Follows, Reading
<1>3. CASE CreateInsert(w)
  <2>1. op'[w] = Idle
        \/ (row' = Stored(op[w].life) /\ op'[w].pc = "create_publish" /\ op'[w].life = op[w].life)
    BY <1>1, <1>3, DoneEffect DEF CreateInsert, Continue, Become, Request
  <2>2. op[w].life = "INITIATION_PENDING"
    BY <1>3 DEF CreateInsert, At, Follows
  <2>3. Restored(Stored(op[w].life)) = op[w].life
    BY <1>1, <2>2, StoredSame
  <2> QED
    BY <2>1, <2>2, <2>3, IdleFollows DEF Follows, Reading, Loaded
<1>4. CASE CreatePublish(w)
  <2>1. /\ op[w].pc = "create_publish" /\ row' = row
        /\ op'[w].pc = "create_initiate" /\ op'[w].life = op[w].life
    BY <1>1, <1>4 DEF CreatePublish, At, Become, Request
  <2> QED
    BY <2>1 DEF Follows, Reading, Loaded
<1>5. CASE CreateInitiate(w)
  <2>1. /\ op[w].pc = "create_initiate" /\ row' = row
        /\ \/ op'[w] = Idle
           \/ \E answer \in InitiateAnswers : Takes(w, answer, "save_tx")
           \/ op'[w].pc = "save" /\ op'[w].life = "FAILED"
    BY <1>5, InitiateEffect DEF tables
  <2>2. Loaded = "INITIATION_PENDING"
    BY <2>1 DEF Follows
  <2>3. "FAILED" \in Twice("INITIATION_PENDING")
    BY DEF Twice, Transitions
  <2>4. CASE op'[w].pc = "save" /\ op'[w].life = "FAILED"
    BY <2>1, <2>2, <2>3, <2>4 DEF Follows, Reading, Loaded
  <2>5. CASE \E answer \in InitiateAnswers : Takes(w, answer, "save_tx")
    BY <2>1, <2>5, TakesFollows, InitiateType DEF Reading
  <2> QED
    BY <2>1, <2>4, <2>5, IdleFollows
<1> QED
  BY <1>2, <1>3, <1>4, <1>5 DEF CreateStep

LEMMA FollowsShared ==
  ASSUME TypeOK, Known, NEW w \in Workers, Follows(w),
         SaveTx(w) \/ Save(w) \/ Publish(w) \/ Abort(w)
  PROVE  Follows(w)'
<1>1. op \in [Workers -> Request] /\ op[w] \in Request
  BY DEF TypeOK
<1>2. CASE SaveTx(w)
  <2>1. /\ op[w].pc = "save_tx" /\ op'[w].pc = "save" /\ op'[w].life = op[w].life /\ row' = row
    BY <1>1, <1>2 DEF SaveTx, At, Continue, Become, Request
  <2> QED
    BY <2>1 DEF Follows, Reading, Loaded
<1>3. CASE Save(w)
  <2>1. op'[w].pc = "publish"
    BY <1>1, <1>3 DEF Save, Continue, Become, Request
  <2> QED
    BY <2>1 DEF Follows, Reading
<1>4. CASE Publish(w)
  BY <1>4, PublishEffect, IdleFollows DEF Follows, Reading
<1>5. CASE Abort(w)
  BY <1>5, AbortEffect, IdleFollows DEF Follows, Reading
<1> QED
  BY <1>2, <1>3, <1>4, <1>5

LEMMA FollowsChange ==
  ASSUME TypeOK, Known, NEW w \in Workers, Follows(w), ChangeStep(w)
  PROVE  Follows(w)'
<1>1. Exists => Loaded \in Lifecycle \ {"REVERSAL_PENDING"}
  BY LoadedStorable
<1>2. row' = row /\ Loaded' = Loaded
  <2>1. WorkerStep(w)
    BY DEF WorkerStep
  <2>2. ~CreateInsert(w) /\ ~Save(w)
    BY DEF CreateInsert, Save, At, ChangeStep, QueryStart, Query, RetryStart, RetryInitiate,
           ActStart, Act, ManualApprove, Accept
  <2> QED
    BY <2>1, <2>2, RowKept DEF Loaded
<1>3. CASE QueryStart(w)
  BY <1>1, <1>2, <1>3, StartEffect DEF Begins, Follows, Reading
<1>4. CASE RetryStart(w)
  <2>1. Loaded \in {"FAILED", "EXPIRED"} /\ Begins(w, "retry_initiate", "INITIATION_PENDING", << >>, 0)
    BY <1>4, StartEffect DEF RetryStart
  <2>2. "INITIATION_PENDING" \in Transitions(Loaded)
    BY <2>1 DEF Transitions
  <2> QED
    BY <1>2, <2>1, <2>2 DEF Begins, Follows, Reading
<1>5. ASSUME NEW action \in {"cancel", "reverse"}, ActStart(w, action)
      PROVE  Follows(w)'
  <2>1. /\ Exists
        /\ Begins(w, action, IF action = "reverse" /\ Loaded = "CAPTURED"
                             THEN "REVERSAL_PENDING" ELSE Loaded, << >>, 0)
    BY <1>5, StartEffect
  <2>2. "REVERSAL_PENDING" \in Transitions("CAPTURED")
    BY DEF Transitions
  <2> QED
    BY <1>1, <1>2, <2>1, <2>2 DEF Begins, Follows, Reading
<1>6. CASE ManualApprove(w)
  <2>1. /\ Loaded \in {"INITIATION_PENDING", "AWAITING_CUSTOMER"}
        /\ op'[w].pc = "save" /\ op'[w].life = "CAPTURED"
    BY <1>6, StartEffect DEF ManualApprove, Begins
  <2>2. "CAPTURED" \in Twice(Loaded)
    BY <2>1 DEF Twice, Transitions
  <2> QED
    BY <1>2, <2>1, <2>2 DEF Follows, Reading
<1>7. CASE Query(w)
  <2>1. op[w].pc = "query" /\ (op'[w] = Idle \/ \E answer \in QueryAnswers : Takes(w, answer, "save"))
    BY <1>7, QueryEffect
  <2> QED
    BY <1>2, <2>1, TakesFollows, IdleFollows, QueryType DEF Reading
<1>8. CASE RetryInitiate(w)
  <2>1. /\ op[w].pc = "retry_initiate"
        /\ op'[w] = Idle \/ \E answer \in InitiateAnswers : Takes(w, answer, "save_tx")
    BY <1>8, RetryEffect
  <2> QED
    BY <1>2, <2>1, TakesFollows, IdleFollows, InitiateType DEF Reading
<1>9. CASE Act(w)
  <2>1. /\ op[w].pc \in {"cancel", "reverse"}
        /\ op'[w] = Idle \/ \E answer \in {"CANCELLED", "REVERSED"} : Takes(w, answer, "save_tx")
    BY <1>9, ActEffect
  <2>2. {"CANCELLED", "REVERSED"} \subseteq Answer
    BY DEF Answer
  <2> QED
    BY <1>2, <2>1, <2>2, TakesFollows, IdleFollows DEF Reading
<1> QED
  BY <1>3, <1>4, <1>5, <1>6, <1>7, <1>8, <1>9 DEF ChangeStep

LEMMA FollowsRefund ==
  ASSUME TypeOK, Known, NEW w \in Workers, Follows(w), RefundStep(w)
  PROVE  Follows(w)'
<1>2. row' = row /\ Loaded' = Loaded
  <2>1. WorkerStep(w)
    BY DEF WorkerStep
  <2>2. ~CreateInsert(w) /\ ~Save(w)
    BY DEF CreateInsert, Save, At, RefundStep, RefundStart, RefundLoad, RefundReserve, RefundCall,
           RefundFail, RefundSettle, Accept
  <2> QED
    BY <2>1, <2>2, RowKept DEF Loaded
<1>3. CASE \E key \in RefundKeys, amount \in RefundAmounts : RefundStart(w, key, amount)
  BY <1>3, StartEffect DEF Begins, Follows, Reading
<1>4. CASE RefundLoad(w)
  <2>1. \/ op'[w] = Idle
        \/ /\ Loaded \in {"CAPTURED", "PARTIALLY_REFUNDED"}
           /\ op'[w].pc = "refund_reserve" /\ op'[w].life = Loaded
    BY <1>4, ReadEffect
  <2> QED
    BY <1>2, <2>1, IdleFollows DEF Follows, Reading
<1>5. CASE RefundReserve(w)
  <2>1. /\ op[w].pc = "refund_reserve"
        /\ \/ op'[w] = Idle
           \/ op'[w].pc = "refund_call" /\ op'[w].life = "REFUND_PENDING"
    BY <1>5, ReserveEffect
  <2>2. Loaded \in {"CAPTURED", "PARTIALLY_REFUNDED"}
    BY <2>1 DEF Follows
  <2>3. "REFUND_PENDING" \in Transitions(Loaded)
    BY <2>2 DEF Transitions
  <2> QED
    BY <1>2, <2>1, <2>3, IdleFollows DEF Follows, Reading
<1>6. CASE RefundCall(w)
  <2>1. /\ op[w].pc = "refund_call" /\ op'[w].pc \in {"refund_settle", "refund_fail"}
        /\ op'[w].life = op[w].life
    BY <1>6, CallEffect
  <2> QED
    BY <1>2, <2>1 DEF Follows, Reading
<1>7. CASE RefundFail(w)
  BY <1>7, DoneEffect, IdleFollows DEF RefundFail
<1>8. CASE RefundSettle(w)
  <2>1. op[w].pc = "refund_settle" /\ (op'[w] = Idle \/ Takes(w, op[w].ans, "save_tx"))
    BY <1>8, SettleEffect
  <2>2. op[w].ans \in Answer
    BY DEF TypeOK, Request
  <2> QED
    BY <1>2, <2>1, <2>2, TakesFollows, IdleFollows DEF Reading
<1> QED
  BY <1>3, <1>4, <1>5, <1>6, <1>7, <1>8 DEF RefundStep

LEMMA FollowsHook ==
  ASSUME TypeOK, Known, NEW w \in Workers, Follows(w), HookStep(w)
  PROVE  Follows(w)'
<1>2. row' = row /\ Loaded' = Loaded
  <2>1. WorkerStep(w)
    BY DEF WorkerStep
  <2>2. ~CreateInsert(w) /\ ~Save(w)
    BY DEF CreateInsert, Save, At, HookStep, HookStart, HookResolve, HookClaim, HookFinalize,
           HookFail, Accept
  <2> QED
    BY <2>1, <2>2, RowKept DEF Loaded
<1>3. CASE \E c \in Callbacks : HookStart(w, c)
  BY <1>3, StartEffect DEF Begins, Follows, Reading
<1>4. CASE HookResolve(w)
  <2>1. op'[w] = Idle \/ (Exists /\ op'[w].pc = "hook_claim" /\ op'[w].life = Loaded)
    BY <1>4, ReadEffect DEF Known
  <2>2. Exists => Loaded # "REVERSAL_PENDING"
    BY LoadedStorable
  <2> QED
    BY <1>2, <2>1, <2>2, IdleFollows DEF Follows, Reading
<1>5. CASE HookClaim(w)
  <2>1. /\ op[w].pc = "hook_claim"
        /\ \/ op'[w] = Idle
           \/ Takes(w, AnswerFor(Reported(op[w].hook)), "save")
           \/ op'[w].pc = "hook_fail"
    BY <1>5, ClaimEffect
  <2>2. AnswerFor(Reported(op[w].hook)) \in Answer
    BY DEF AnswerFor, Answer
  <2>3. CASE Takes(w, AnswerFor(Reported(op[w].hook)), "save")
    BY <1>2, <2>1, <2>2, <2>3, TakesFollows DEF Reading
  <2> QED
    BY <2>1, <2>3, IdleFollows DEF Follows, Reading
<1>6. CASE HookFinalize(w) \/ HookFail(w)
  BY <1>6, DoneEffect, IdleFollows DEF HookFinalize, HookFail
<1> QED
  BY <1>3, <1>4, <1>5, <1>6 DEF HookStep

\* What a step shows of the row is a step of PaymentLifecycle.
LEMMA RowFollows ==
  ASSUME TypeOK, Known, [Next]_vars, \A w \in Workers : Follows(w)
  PROVE  [Abstract!Next]_(IF Exists THEN Loaded ELSE "ABSENT")
<1>1. CASE row' = row
  BY <1>1 DEF Exists, Loaded
<1>2. ASSUME NEW w \in Workers, CreateInsert(w), row' # row
      PROVE  Abstract!Open
  <2>1. ~Exists /\ row' = Stored("INITIATION_PENDING")
    BY <1>2 DEF CreateInsert, KeyFree, At, Follows
  <2>2. "INITIATION_PENDING" \in Lifecycle
    BY DEF Lifecycle
  <2> QED
    BY <2>1, <2>2, StoredSame, StoredFacts DEF Abstract!Open, Abstract!Absent, Exists, Loaded
<1>3. ASSUME NEW w \in Workers, Save(w)
      PROVE  [Abstract!Next]_(IF Exists THEN Loaded ELSE "ABSENT")
  <2>1. Exists /\ op[w].pc = "save" /\ row' = Stored(op[w].life)
    BY <1>3 DEF Save, At, Known, Placed
  <2>2. op[w].life \in Lifecycle
    BY DEF TypeOK, Request
  <2>3. /\ op[w].life # "REVERSAL_PENDING"
        /\ op[w].life = Loaded \/ op[w].life \in Twice(Loaded)
    BY <2>1 DEF Follows
  <2>4. Exists' /\ Loaded' = op[w].life
    BY <2>1, <2>2, <2>3, StoredSame, StoredFacts DEF Exists, Loaded
  <2>5. Loaded # "ABSENT"
    BY <2>1, LoadedStorable DEF Lifecycle
  <2> QED
    BY <2>1, <2>3, <2>4, <2>5, TwiceIsTwo DEF Abstract!Next, Abstract!Move, Abstract!Absent
<1>4. UNCHANGED vars => row' = row
  BY DEF vars
<1> QED
  BY <1>1, <1>2, <1>3, <1>4, RowKept, RowOutside, NextSteps DEF Abstract!Next

\* One request at a time: the row implements PaymentLifecycle.  With two the
\* upsert of a stale copy breaks it, which is why the assumption is there.
THEOREM LifecycleIsFollowed ==
  (\A v, w \in Workers : v = w) => (Spec => LifecycleFollowed)
<1> SUFFICES ASSUME \A v, w \in Workers : v = w
             PROVE  Spec => LifecycleFollowed
  OBVIOUS
<1> DEFINE All == \A w \in Workers : Follows(w)
<1>1. Init => All
  BY IdleFields DEF Init, Follows, Reading
<1>2. TypeOK /\ Known /\ All /\ [Next]_vars => All'
  <2> SUFFICES ASSUME TypeOK, Known, All, [Next]_vars, NEW w \in Workers
               PROVE  Follows(w)'
    OBVIOUS
  <2>1. CASE WorkerStep(w)
    BY <2>1, FollowsCreate, FollowsShared, FollowsChange, FollowsRefund, FollowsHook DEF WorkerStep
  <2>2. CASE Crash
    BY <2>2, IdleFollows DEF Crash
  <2>3. CASE OutsideStep \/ UNCHANGED vars
    <3>1. UNCHANGED <<row, op>>
      BY <2>3 DEF OutsideStep, Settle, SettleRefund, PassDeadline, tables, vars
    <3> QED
      BY <3>1 DEF Follows, Loaded
  <2> QED
    BY <2>1, <2>2, <2>3, NextSteps
<1>3. Init => Abstract!Init
  BY DEF Init, Abstract!Init, Abstract!Absent, Exists
<1>4. TypeOK /\ Known /\ All /\ [Next]_vars => [Abstract!Next]_(IF Exists THEN Loaded ELSE "ABSENT")
  BY RowFollows
<1> QED
  BY <1>1, <1>2, <1>3, <1>4, TypeCorrect, PTL DEF Spec, LifecycleFollowed, Abstract!Spec
=============================================================================
