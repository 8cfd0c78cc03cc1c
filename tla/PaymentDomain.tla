--------------------------- MODULE PaymentDomain ---------------------------
(***************************************************************************)
(* The payment aggregate without its storage: the thirteen lifecycle       *)
(* states, the transition table, the events a transition records, the two  *)
(* lossy conversions a row goes through when it is saved and restored, and *)
(* the translation of a provider's answer into a transition.  Only pure    *)
(* operators: Payments and PaymentLifecycle give them a state machine.     *)
(***************************************************************************)
EXTENDS Naturals, Sequences

Lifecycle ==
  {"CREATED", "INITIATION_PENDING", "AWAITING_CUSTOMER", "AUTHORISED",
   "CAPTURED", "FAILED", "EXPIRED", "CANCELLED", "REVERSAL_PENDING",
   "REVERSED", "REFUND_PENDING", "PARTIALLY_REFUNDED", "REFUNDED"}

\* The states a state may be followed by; CANCELLED, REVERSED and REFUNDED
\* are final.
Transitions(from) ==
  CASE from = "CREATED"            -> {"INITIATION_PENDING", "CANCELLED", "FAILED"}
    [] from = "INITIATION_PENDING" -> {"AWAITING_CUSTOMER", "AUTHORISED", "CAPTURED",
                                       "FAILED", "EXPIRED", "CANCELLED"}
    [] from = "AWAITING_CUSTOMER"  -> {"AUTHORISED", "CAPTURED", "FAILED",
                                       "EXPIRED", "CANCELLED"}
    [] from = "AUTHORISED"         -> {"CAPTURED", "REVERSAL_PENDING", "FAILED",
                                       "CANCELLED"}
    [] from = "CAPTURED"           -> {"REVERSAL_PENDING", "REFUND_PENDING"}
    [] from \in {"FAILED", "EXPIRED"} -> {"INITIATION_PENDING"}
    [] from = "REVERSAL_PENDING"   -> {"REVERSED", "CAPTURED", "FAILED"}
    [] from = "REFUND_PENDING"     -> {"PARTIALLY_REFUNDED", "REFUNDED", "CAPTURED",
                                       "FAILED"}
    [] from = "PARTIALLY_REFUNDED" -> {"REFUND_PENDING", "REFUNDED"}
    [] OTHER                       -> {}

EventType ==
  {"PaymentCreated", "PaymentAuthorised", "PaymentCompleted", "PaymentFailed",
   "PaymentCancelled", "PaymentRefunded"}

\* The event recorded on entry to a state, none for the intermediate states.
Emitted(to) ==
  CASE to = "AUTHORISED"                          -> <<"PaymentAuthorised">>
    [] to = "CAPTURED"                            -> <<"PaymentCompleted">>
    [] to \in {"FAILED", "EXPIRED"}               -> <<"PaymentFailed">>
    [] to \in {"CANCELLED", "REVERSED"}           -> <<"PaymentCancelled">>
    [] to \in {"PARTIALLY_REFUNDED", "REFUNDED"}  -> <<"PaymentRefunded">>
    [] OTHER                                      -> << >>

-----------------------------------------------------------------------------
\* Saving and restoring.

PublicStatus(state) ==
  CASE state = "CAPTURED"                         -> "SUCCESS"
    [] state \in {"FAILED", "EXPIRED"}            -> "FAILED"
    [] state \in {"CANCELLED", "REVERSED"}        -> "CANCELLED"
    [] state = "REFUNDED"                         -> "REFUNDED"
    [] state = "PARTIALLY_REFUNDED"               -> "PARTIALLY_REFUNDED"
    [] state \in {"CREATED", "INITIATION_PENDING"} -> "PENDING"
    [] OTHER                                      -> "PROCESSING"

\* INITIATION_PENDING and AWAITING_CUSTOMER share a persisted state, and so do
\* the two states that wait for money to go back.
ToPersisted(state) ==
  CASE state = "CREATED"                                    -> "DRAFT"
    [] state \in {"INITIATION_PENDING", "AWAITING_CUSTOMER"} -> "PENDING"
    [] state = "CAPTURED"                                   -> "SUCCEEDED"
    [] state \in {"REVERSAL_PENDING", "REFUND_PENDING"}     -> "REFUND_PENDING"
    [] OTHER                                                -> state

DeriveLifecycle(status) ==
  CASE status = "PENDING"    -> "INITIATION_PENDING"
    [] status = "PROCESSING" -> "AWAITING_CUSTOMER"
    [] status = "SUCCESS"    -> "CAPTURED"
    [] OTHER                 -> status

\* Mutation: the persisted state is taken for the lifecycle state.
Unconverted(life, fallback) == life

FromPersisted(life, fallback) ==
  CASE life = "DRAFT"     -> "CREATED"
    [] life = "PENDING"   -> fallback
    [] life = "SUCCEEDED" -> "CAPTURED"
    [] OTHER              -> life

Stored(state) == [status |-> PublicStatus(state), life |-> ToPersisted(state)]

Restored(columns) == FromPersisted(columns.life, DeriveLifecycle(columns.status))

-----------------------------------------------------------------------------
\* Provider answers: every status an adapter returns (none returns AUTHORISED
\* or PARTIALLY_REFUNDED).

Answer ==
  {"PENDING", "REQUIRES_ACTION", "COMPLETED", "FAILED", "CANCELLED",
   "REVERSED", "REFUNDED"}

Target(answer) ==
  CASE answer \in {"PENDING", "REQUIRES_ACTION"} -> "AWAITING_CUSTOMER"
    [] answer = "COMPLETED"                      -> "CAPTURED"
    [] OTHER                                     -> answer

\* A captured payment takes the intermediate state before it goes back.
Via(state, next) ==
  IF state # "CAPTURED" THEN state
  ELSE IF next = "REVERSED" THEN "REVERSAL_PENDING"
  ELSE IF next = "REFUNDED" THEN "REFUND_PENDING"
  ELSE state

\* An answer that says nothing new leaves the payment alone.
NoNews(state, answer) ==
  \/ answer = "PENDING" /\ state \in {"REVERSAL_PENDING", "REFUND_PENDING"}
  \/ state = Target(answer)

\* Mutation: nothing is refused, the guard of transition() is missing.
AcceptsAnything(state, answer) == TRUE

\* FALSE: the aggregate throws PaymentTransitionError.
Accepts(state, answer) ==
  \/ NoNews(state, answer)
  \/ Target(answer) \in Transitions(Via(state, Target(answer)))

Applied(state, answer) == IF NoNews(state, answer) THEN state ELSE Target(answer)

News(state, answer) ==
  IF NoNews(state, answer) THEN << >> ELSE Emitted(Target(answer))
=============================================================================
