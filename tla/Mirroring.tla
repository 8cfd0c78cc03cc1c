------------------------------ MODULE Mirroring ------------------------------
(***************************************************************************)
(* How the money of one captured payment reaches a wallet: the payment's   *)
(* events start the accounting listeners, these post journals, and each    *)
(* journal's event starts WalletMirroringService, which holds or credits   *)
(* the money, or unwinds a refund.  Events are in-process: nothing repeats *)
(* one that is lost.  A posted journal is a mark here (see Journal), and   *)
(* the wallet is a balance (see Wallet).                                   *)
(***************************************************************************)
EXTENDS Integers, FiniteSets, FiniteSetsExt

CONSTANTS
  Workers,       \* event handlers that may be in flight at once
  Refunds,       \* ids of the refunds that may be asked for
  None,          \* no refund
  Captured,      \* the amount captured
  Amounts,       \* amounts of refunds
  MaxPublished,  \* bound: how often each event is published
  MaxFaults      \* bound: handlers that die, or whose calls fail

VARIABLES
  purpose,    \* "ORDER" or "WALLET_TOP_UP"
  life,       \* the payment's lifecycle
  refunds,    \* [Refunds -> [amount, status, journal]]
  heard,      \* times published: [Refunds \cup {None} -> Nat], None the capture
  collected,  \* the payment has its journal
  hold,       \* the escrow hold: [status, amount]
  wallet,     \* this payment's money in the beneficiary's or customer's wallet
  others,     \* other money there
  mirrored,   \* holds and credits made
  unwound,    \* [Refunds -> times the refund was unwound]
  op, faults

vars ==
  <<purpose, life, refunds, heard, collected, hold, wallet, others, mirrored, unwound, op, faults>>
money == <<hold, wallet, others, mirrored, unwound>>

NoRefund == [amount |-> 0, status |-> "none", journal |-> FALSE]

Idle == [pc |-> "idle", refund |-> None, seen |-> 0, fresh |-> 0]

Init ==
  /\ purpose \in {"ORDER", "WALLET_TOP_UP"} /\ life = "CAPTURED"
  /\ refunds = [r \in Refunds |-> NoRefund] /\ heard = [e \in Refunds \cup {None} |-> 0]
  /\ collected = FALSE /\ hold = [status |-> "none", amount |-> 0]
  /\ wallet = 0 /\ others \in {0, Captured} /\ mirrored = 0 /\ unwound = [r \in Refunds |-> 0]
  /\ op = [w \in Workers |-> Idle] /\ faults = MaxFaults

At(w, pc) == op[w].pc = pc

Become(w, self) == op' = [op EXCEPT ![w] = self]

Continue(w, pc) == Become(w, [op[w] EXCEPT !.pc = pc])

Done(w) == Become(w, Idle)

-----------------------------------------------------------------------------
\* The payment service: what it publishes, as Payments allows it.

Sum(status) == MapThenSumSet(LAMBDA r : refunds[r].amount,
                             {r \in Refunds : refunds[r].status = status})

\* An event starts its handler.
Publish(w, event, pc) ==
  /\ At(w, "idle") /\ heard[event] < MaxPublished
  /\ heard' = [heard EXCEPT ![event] = @ + 1]
  /\ Become(w, [Idle EXCEPT !.pc = pc, !.refund = event])

PaymentCompleted(w) ==
  /\ Publish(w, None, "collect")
  /\ UNCHANGED <<purpose, life, refunds, collected, money, faults>>

RefundAsked(r, n) ==
  /\ life \in {"CAPTURED", "PARTIALLY_REFUNDED"} /\ refunds[r] = NoRefund
  /\ Sum("SUCCEEDED") + n <= Captured
  /\ refunds' = [refunds EXCEPT ![r] = [amount |-> n, status |-> "PENDING", journal |-> FALSE]]
  /\ life' = "REFUND_PENDING"
  /\ UNCHANGED <<purpose, heard, collected, money, op, faults>>

RefundFailed(r) ==
  /\ refunds[r].status = "PENDING"
  /\ refunds' = [refunds EXCEPT ![r].status = "FAILED"]
  /\ life' = IF Sum("SUCCEEDED") > 0 THEN "PARTIALLY_REFUNDED" ELSE "CAPTURED"
  /\ UNCHANGED <<purpose, heard, collected, money, op, faults>>

RefundSettled(r) ==
  /\ refunds[r].status = "PENDING"
  /\ refunds' = [refunds EXCEPT ![r].status = "SUCCEEDED"]
  /\ life' = IF Sum("SUCCEEDED") + refunds[r].amount = Captured
             THEN "REFUNDED" ELSE "PARTIALLY_REFUNDED"
  /\ UNCHANGED <<purpose, heard, collected, money, op, faults>>

\* An event that lacks the refund's id is taken for one without a journal.
PaymentRefunded(w, r) ==
  /\ refunds[r].status = "SUCCEEDED"
  /\ Publish(w, r, "refund")
  /\ UNCHANGED <<purpose, life, refunds, collected, money, faults>>

-----------------------------------------------------------------------------
\* PaymentAccountingListener and postPaymentCollected: the look-up is repeated in
\* the transaction, and payment_id is unique.

\* Mutation: the journal there is does not end the posting.
CollectAgain == TRUE

Uncollected == ~collected

\* A payment whose refund has begun is neither SUCCESS nor SUCCEEDED.
Collectable == life = "CAPTURED"

PostCollected(w) ==
  /\ At(w, "collect")
  /\ IF Uncollected /\ Collectable
     THEN collected' = TRUE /\ Continue(w, "mirror")
     ELSE Done(w) /\ UNCHANGED collected
  /\ UNCHANGED <<purpose, life, refunds, heard, money, faults>>

\* PaymentRefundAccountingListener and postPaymentRefunded: nothing locks the refund
\* between the last look at its journal and the commit.
ReadRefund(w) ==
  /\ At(w, "refund")
  /\ IF refunds[op[w].refund].journal THEN Done(w) ELSE Continue(w, "post_refund")
  /\ UNCHANGED <<purpose, life, refunds, heard, collected, money, faults>>

PostRefund(w) ==
  /\ At(w, "post_refund")
  /\ refunds' = [refunds EXCEPT ![op[w].refund].journal = TRUE]
  /\ Continue(w, "unwind")
  /\ UNCHANGED <<purpose, life, heard, collected, money, faults>>

-----------------------------------------------------------------------------
\* JournalWalletListener: ensureHoldForPayment or mirrorWalletTopUp.
Mirror(w) ==
  /\ At(w, "mirror") /\ Done(w)
  /\ wallet' = wallet + Captured /\ mirrored' = mirrored + 1
  /\ hold' = IF purpose = "ORDER" THEN [status |-> "HELD", amount |-> Captured] ELSE hold
  /\ UNCHANGED <<purpose, life, refunds, heard, collected, others, unwound, faults>>

\* mirrorRefund of a top-up: the debit's key is the refund's.
DebitTopUp(w) ==
  LET r == op[w].refund
      n == refunds[r].amount
  IN /\ At(w, "unwind") /\ purpose = "WALLET_TOP_UP" /\ Done(w)
     /\ IF unwound[r] = 0 /\ n <= wallet + others
        THEN wallet' = wallet - n /\ unwound' = [unwound EXCEPT ![r] = @ + 1]
        ELSE UNCHANGED <<wallet, unwound>>
     /\ UNCHANGED <<purpose, life, refunds, heard, collected, hold, others, mirrored, faults>>

\* refundForPayment: the hold is looked for, then read again in the transaction,
\* which locks the wallet only after that.
FindHold(w) ==
  /\ At(w, "unwind") /\ purpose = "ORDER"
  /\ IF unwound[op[w].refund] = 0 /\ hold.status = "HELD"
     THEN Become(w, [op[w] EXCEPT !.pc = "reread", !.seen = hold.amount])
     ELSE Done(w)
  /\ UNCHANGED <<purpose, life, refunds, heard, collected, money, faults>>

RereadHold(w) ==
  /\ At(w, "reread")
  /\ IF hold.status = "HELD"
     THEN Become(w, [op[w] EXCEPT !.pc = "unhold", !.fresh = hold.amount])
     ELSE Done(w)
  /\ UNCHANGED <<purpose, life, refunds, heard, collected, money, faults>>

CoversHold(n, held) == n >= held

Unhold(w) ==
  LET r    == op[w].refund
      full == CoversHold(refunds[r].amount, op[w].seen)
      n    == IF full THEN op[w].seen ELSE refunds[r].amount
  IN /\ At(w, "unhold") /\ Done(w)
     /\ IF n > 0 /\ n <= wallet + others
        THEN /\ wallet' = wallet - n /\ unwound' = [unwound EXCEPT ![r] = @ + 1]
             /\ hold' = IF full THEN [hold EXCEPT !.status = "REFUNDED"]
                                ELSE [hold EXCEPT !.amount = op[w].fresh - n]
        ELSE UNCHANGED <<hold, wallet, unwound>>
     /\ UNCHANGED <<purpose, life, refunds, heard, collected, others, mirrored, faults>>

\* An admin releases the hold to its beneficiary, or the customer spends (see Escrow,
\* Wallet).
Release ==
  /\ hold.status = "HELD" /\ hold.amount \in 1..(wallet + others)
  /\ hold' = [hold EXCEPT !.status = "RELEASED"]
  /\ wallet' = wallet - hold.amount
  /\ UNCHANGED <<purpose, life, refunds, heard, collected, others, mirrored, unwound, op, faults>>

Spend(n) ==
  /\ purpose = "WALLET_TOP_UP" /\ n <= wallet + others
  /\ wallet' = wallet - n
  /\ UNCHANGED <<purpose, life, refunds, heard, collected, hold, others, mirrored, unwound, op,
                 faults>>

\* A handler dies with the process, or a call it awaits fails: nothing retries it.
Die(w) ==
  /\ ~At(w, "idle") /\ faults > 0 /\ faults' = faults - 1
  /\ Done(w)
  /\ UNCHANGED <<purpose, life, refunds, heard, collected, money>>

-----------------------------------------------------------------------------
Step(w) ==
  \/ PostCollected(w) \/ ReadRefund(w) \/ PostRefund(w)
  \/ Mirror(w) \/ DebitTopUp(w) \/ FindHold(w) \/ RereadHold(w) \/ Unhold(w)

Next ==
  \/ \E w \in Workers :
       \/ PaymentCompleted(w)
       \/ \E r \in Refunds : PaymentRefunded(w, r)
       \/ Step(w) \/ Die(w)
  \/ \E r \in Refunds :
       RefundSettled(r) \/ RefundFailed(r) \/ \E n \in Amounts : RefundAsked(r, n)
  \/ Release \/ \E n \in Amounts : Spend(n)

Spec == Init /\ [][Next]_vars

-----------------------------------------------------------------------------
Request == [pc : {"idle", "collect", "mirror", "refund", "post_refund", "unwind", "reread",
                  "unhold"},
            refund : Refunds \cup {None}, seen : Int, fresh : Int]

\* The payment, its refunds, the hold and the handlers have their shapes.
TypeOK ==
  /\ life \in {"CAPTURED", "REFUND_PENDING", "PARTIALLY_REFUNDED", "REFUNDED"}
  /\ refunds \in [Refunds -> [amount : Amounts \cup {0}, journal : BOOLEAN,
                              status : {"none", "PENDING", "SUCCEEDED", "FAILED"}]]
  /\ heard \in [Refunds \cup {None} -> 0..MaxPublished] /\ collected \in BOOLEAN
  /\ hold \in [status : {"none", "HELD", "RELEASED", "REFUNDED"}, amount : Int]
  /\ wallet \in Int /\ others \in Nat /\ mirrored \in Nat /\ unwound \in [Refunds -> Nat]
  /\ op \in [Workers -> Request] /\ faults \in 0..MaxFaults
-----------------------------------------------------------------------------
\* A history variable for what the events do not survive.
VARIABLES
  disturbed   \* a handler died, a refund began before the money was mirrored, two
              \* refund events were handled at a time, or the money was used

MCVars == <<vars, disturbed>>

OnRefund == {w \in Workers : op[w].pc \in {"refund", "post_refund", "unwind", "reread", "unhold"}}

Asked == {r \in Refunds : refunds[r] # NoRefund}

MCInit == Init /\ disturbed = FALSE

MCNext ==
  /\ Next
  /\ disturbed' = \/ disturbed \/ faults' # faults
                  \/ Asked' # {} /\ mirrored = 0
                  \/ Cardinality(OnRefund') > 1
                  \/ hold'.status = "RELEASED"
                  \/ wallet' < wallet /\ unwound' = unwound

MCSpec == MCInit /\ [][MCNext]_MCVars

\* However often and in whatever order a payment's events arrive, and whatever dies,
\* its capture is held or credited at most once, never more than it is, a top-up's
\* refund is debited at most once, and the wallet is not overdrawn.
MirroredOnce ==
  /\ mirrored <= 1 /\ wallet <= Captured * mirrored /\ wallet + others >= 0
  /\ purpose = "WALLET_TOP_UP" => \A r \in Refunds : unwound[r] <= 1

\* When every published event has been handled, the platform holds for the payment
\* what was captured less what was refunded, and the hold says so, unless a handler
\* died, a refund came before the mirroring, two refund events were handled at a
\* time, or the money was released or spent.
HeldIsNetUnlessDisturbed ==
  LET due == {r \in Refunds : refunds[r].status = "SUCCEEDED" /\ heard[r] > 0}
      net == Captured - MapThenSumSet(LAMBDA r : refunds[r].amount, due)
  IN (\A w \in Workers : At(w, "idle")) /\ ~disturbed /\ heard[None] > 0 =>
       /\ wallet = net
       /\ purpose = "ORDER" =>
            hold = IF net > 0 THEN [status |-> "HELD", amount |-> net]
                   ELSE [hold EXCEPT !.status = "REFUNDED"]
=============================================================================
