------------------------------- MODULE Escrow -------------------------------
(***************************************************************************)
(* EscrowService on one beneficiary's wallet: holds that mirror the posted *)
(* payment journals, the three ways an admin closes one, and the unwinding *)
(* of refunds.  Each operation reads the escrow row, opens a transaction   *)
(* that reads it again, and only then locks the wallet row; from the lock  *)
(* to the commit nothing can interleave, so that is one step.  The ledger  *)
(* rows themselves are Wallet's subject: here only their references count. *)
(* Admin holds and releases on the same wallet (admin-wallets.controller)  *)
(* are left out.                                                           *)
(***************************************************************************)
EXTENDS WalletOps, FiniteSets, FiniteSetsExt

CONSTANTS
  Workers,      \* requests and listeners that may be in flight at once
  Payments,     \* captured payments of this beneficiary
  Captured,     \* the amount of each: [Payments -> Nat]
  Refunds,      \* refunds whose journal is posted: [id, payment, amount]
  Modes,        \* how holds may be closed: "release", "forfeit", "refund"
  Keys,         \* idempotency keys of close requests
  NoKey,        \* a request without one
  MaxOps,       \* bound: requests and events the service receives
  MaxFaults     \* bound: failed database calls

ASSUME EscrowConstants ==
  /\ Captured \in [Payments -> Nat \ {0}]
  /\ \A r \in Refunds : r.payment \in Payments /\ r.amount \in Nat \ {0}
  /\ Modes \subseteq {"release", "forfeit", "refund"}
  /\ NoKey \notin Keys
  /\ MaxOps \in Nat /\ MaxFaults \in Nat

VARIABLES
  escrows,  \* escrow_holds in creation order: [payment, status, amount]
  wallet,   \* the beneficiary's wallet: Snapshot
  refs,     \* references of its wallet_transactions
  journal,  \* posted escrow-release journals: [escrow, amount]
  op,       \* the request of each worker
  left,     \* requests still to come (bound)
  faults    \* faults still to come (bound)

vars == <<escrows, wallet, refs, journal, op, left, faults>>

Ids == DOMAIN escrows

Idle == [pc |-> "idle", mode |-> "release", subject |-> {}, id |-> 0,
         amount |-> 0, fresh |-> 0, full |-> FALSE, ref |-> <<"none">>]

Init ==
  /\ escrows = << >> /\ wallet = Empty /\ refs = {} /\ journal = << >>
  /\ op = [w \in Workers |-> Idle]
  /\ left = MaxOps /\ faults = MaxFaults

At(w, pc) == op[w].pc = pc

Become(w, self) == op' = [op EXCEPT ![w] = self]

Done(w) == Become(w, Idle)

Accept(w, self) ==
  /\ At(w, "idle") /\ left > 0 /\ left' = left - 1
  /\ Become(w, self)
  /\ UNCHANGED <<escrows, wallet, refs, journal, faults>>

\* Mutation: no unique index on (wallet_id, reference).
NoUniqueIndex(ref) == TRUE

\* FALSE: the insert of the wallet transaction fails, everything rolls back.
Unused(ref) == ref \notin refs

\* The wallet operation and its row, inside a transaction that holds the lock.
ApplyInTx(kind, amount, ref) ==
  /\ wallet' = After(kind, wallet, amount)
  /\ refs' = refs \cup {ref}

CanApply(kind, amount, ref) == Sufficient(kind, wallet, amount) /\ Unused(ref)

EscrowsOf(p) == {e \in Ids : escrows[e].payment = p}

HeldEscrowsOf(p) == {e \in EscrowsOf(p) : escrows[e].status = "HELD"}

-----------------------------------------------------------------------------
\* ensureHoldForPayment, called by the listener of accounting.JournalPosted.

HoldStart(w, p) ==
  /\ EscrowsOf(p) = {}
  /\ Accept(w, [Idle EXCEPT !.pc = "hold_check", !.subject = {p}])

HoldCheck(w) ==
  /\ At(w, "hold_check")
  /\ IF \E p \in op[w].subject : EscrowsOf(p) # {} THEN Done(w)
     ELSE Become(w, [op[w] EXCEPT !.pc = "hold_apply"])
  /\ UNCHANGED <<escrows, wallet, refs, journal, left, faults>>

HoldApply(w) ==
  /\ At(w, "hold_apply") /\ Done(w)
  /\ \E p \in op[w].subject :
       IF Unused(<<"escrow", p>>)
       THEN /\ ApplyInTx("collect", Captured[p], <<"escrow", p>>)
            /\ escrows' = Append(escrows,
                 [payment |-> p, status |-> "HELD", amount |-> Captured[p]])
       ELSE UNCHANGED <<escrows, wallet, refs>>
  /\ UNCHANGED <<journal, left, faults>>

-----------------------------------------------------------------------------
\* release, forfeit and refund of a hold by an admin: closeEscrow.

ClosedStatus(mode) ==
  CASE mode = "release" -> "RELEASED"
    [] mode = "forfeit" -> "FORFEITED"
    [] OTHER            -> "REFUNDED"

OpOf(mode) == IF mode = "release" THEN "release" ELSE "unhold"

CloseReference(mode, e, key) ==
  IF key = NoKey THEN <<"close", mode, e>> ELSE <<"idem", mode, key>>

\* Mutation: the status is not looked at.
Always(e) == TRUE

StillHeld(e) == escrows[e].status = "HELD"

\* The row is read here, and with it the amount; the lookup of the key follows.
CloseStart(w, e, mode, key) ==
  /\ StillHeld(e)
  /\ key = NoKey \/ Unused(CloseReference(mode, e, key))
  /\ Accept(w, [Idle EXCEPT !.pc = "close_check", !.mode = mode, !.id = e,
                            !.amount = escrows[e].amount,
                            !.ref = CloseReference(mode, e, key)])

CloseCheck(w) ==
  /\ At(w, "close_check")
  /\ IF StillHeld(op[w].id) THEN Become(w, [op[w] EXCEPT !.pc = "close_apply"])
     ELSE Done(w)
  /\ UNCHANGED <<escrows, wallet, refs, journal, left, faults>>

\* The status is set by id, whatever it has become since the check.
CloseApply(w) ==
  LET self == op[w] IN
  /\ At(w, "close_apply")
  /\ IF CanApply(OpOf(self.mode), self.amount, self.ref)
     THEN /\ ApplyInTx(OpOf(self.mode), self.amount, self.ref)
          /\ escrows' = [escrows EXCEPT ![self.id].status = ClosedStatus(self.mode)]
          /\ IF self.mode = "release"
             THEN Become(w, [self EXCEPT !.pc = "post_check",
                                         !.amount = escrows[self.id].amount])
             ELSE Done(w)
     ELSE UNCHANGED <<escrows, wallet, refs>> /\ Done(w)
  /\ UNCHANGED <<journal, left, faults>>

\* postEscrowRelease, after the commit: lookup of escrow-release:{id}, insert.
PostCheck(w) ==
  /\ At(w, "post_check")
  /\ IF \E i \in DOMAIN journal : journal[i].escrow = op[w].id THEN Done(w)
     ELSE Become(w, [op[w] EXCEPT !.pc = "post_insert"])
  /\ UNCHANGED <<escrows, wallet, refs, journal, left, faults>>

PostInsert(w) ==
  /\ At(w, "post_insert") /\ Done(w)
  /\ journal' = Append(journal, [escrow |-> op[w].id, amount |-> op[w].amount])
  /\ UNCHANGED <<escrows, wallet, refs, left, faults>>

-----------------------------------------------------------------------------
\* refundForPayment, called by the same listener for a refund's journal.

\* The oldest HELD escrow; the amount and whether it is the whole of it are
\* decided here.
RefundStart(w, r) ==
  /\ Unused(<<"refund", r.id>>)
  /\ \E e \in HeldEscrowsOf(r.payment) :
       /\ \A d \in HeldEscrowsOf(r.payment) : e <= d
       /\ Accept(w, [Idle EXCEPT
            !.pc = "refund_check", !.id = e,
            !.full = r.amount >= escrows[e].amount,
            !.amount = IF r.amount >= escrows[e].amount THEN escrows[e].amount
                       ELSE r.amount,
            !.ref = <<"refund", r.id>>])

RefundCheck(w) ==
  /\ At(w, "refund_check")
  /\ IF StillHeld(op[w].id)
     THEN Become(w, [op[w] EXCEPT !.pc = "refund_apply",
                                  !.fresh = escrows[op[w].id].amount])
     ELSE Done(w)
  /\ UNCHANGED <<escrows, wallet, refs, journal, left, faults>>

\* Mutation: the escrow keeps its amount after a partial refund.
Unreduced(escrow, self) == IF self.full THEN [escrow EXCEPT !.status = "REFUNDED"] ELSE escrow

Unwound(escrow, self) ==
  IF self.full THEN [escrow EXCEPT !.status = "REFUNDED"]
  ELSE [escrow EXCEPT !.amount = self.fresh - self.amount]

RefundApply(w) ==
  LET self == op[w] IN
  /\ At(w, "refund_apply") /\ Done(w)
  /\ IF CanApply("unhold", self.amount, self.ref)
     THEN /\ ApplyInTx("unhold", self.amount, self.ref)
          /\ escrows' = [escrows EXCEPT ![self.id] = Unwound(@, self)]
     ELSE UNCHANGED <<escrows, wallet, refs>>
  /\ UNCHANGED <<journal, left, faults>>

-----------------------------------------------------------------------------
\* A call fails and the request throws; an open transaction rolls back.
Abort(w) ==
  /\ ~At(w, "idle") /\ faults > 0 /\ faults' = faults - 1
  /\ Done(w)
  /\ UNCHANGED <<escrows, wallet, refs, journal, left>>

Next ==
  \E w \in Workers :
    \/ \E p \in Payments : HoldStart(w, p)
    \/ HoldCheck(w) \/ HoldApply(w)
    \/ \E e \in Ids, mode \in Modes, key \in Keys \cup {NoKey} : CloseStart(w, e, mode, key)
    \/ CloseCheck(w) \/ CloseApply(w) \/ PostCheck(w) \/ PostInsert(w)
    \/ \E r \in Refunds : RefundStart(w, r)
    \/ RefundCheck(w) \/ RefundApply(w)
    \/ Abort(w)

Spec == Init /\ [][Next]_vars
-----------------------------------------------------------------------------
\* Properties.

EscrowRow == [payment: Payments, status: {"HELD", "RELEASED", "FORFEITED", "REFUNDED"},
              amount: Int]

References ==
  {<<"none">>} \cup {<<"escrow", p>> : p \in Payments}
    \cup {<<"refund", r.id>> : r \in Refunds}
    \cup {<<"close", mode, e>> : mode \in Modes, e \in Ids}
    \cup {<<"idem", mode, key>> : mode \in Modes, key \in Keys}

Request == [pc: {"idle", "hold_check", "hold_apply", "close_check", "close_apply",
                 "post_check", "post_insert", "refund_check", "refund_apply"},
            mode: {"release", "forfeit", "refund"}, subject: SUBSET Payments,
            id: Ids \cup {0}, amount: Int, fresh: Int, full: BOOLEAN,
            ref: References]

\* Every table and request keeps its shape; the amounts of escrows are only
\* integers here.
TypeOK ==
  /\ escrows \in Seq(EscrowRow)
  /\ wallet \in Snapshot
  /\ refs \subseteq References
  /\ journal \in Seq([escrow: Ids, amount: Int])
  /\ op \in [Workers -> Request]
  /\ left \in Nat /\ faults \in Nat

\* The amounts of the escrows in a set.
Sum(ids) == MapThenSumSet(LAMBDA e : escrows[e].amount, ids)

\* The wallet holds exactly what its HELD escrows say: no hold is closed
\* twice, none is paid for by another payment's hold.
HeldMatchesEscrows == wallet.held = Sum({e \in Ids : escrows[e].status = "HELD"})

\* A payment's journal delivered twice, by two listeners at once, holds its
\* money once.
OneHoldPerPayment ==
  \A d, e \in Ids : escrows[d].payment = escrows[e].payment => d = e

\* Whatever races, the wallet is never released or unheld below zero.
NonNegative == wallet.available >= 0 /\ wallet.held >= 0

\* However the listeners' and the admins' requests overlap, a payment's money is
\* held once and no wallet is driven below zero for it.
HoldsSound == OneHoldPerPayment /\ NonNegative

Journaled == MapThenSumSet(LAMBDA i : journal[i].amount, DOMAIN journal)

Posting == {w \in Workers : op[w].pc \in {"post_check", "post_insert"}}

\* What releases made available is what the escrow-release journals moved to
\* the payable account, up to the journals still being posted (and as long as
\* none of those postings fails).
ReleasesMatchJournals ==
  Posting = {} => Journaled = wallet.available
=============================================================================
