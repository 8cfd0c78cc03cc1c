------------------------------ MODULE WalletOps ------------------------------
(***************************************************************************)
(* The wallet arithmetic: what each operation needs, does to the two       *)
(* balances and writes in the ledger row.  An operation is named after its *)
(* function; "collect" is hold with fromExternal, and adjust is split by   *)
(* the sign of its amount, so that every amount is positive.               *)
(***************************************************************************)
EXTENDS Integers, Sequences

Kind ==
  {"credit", "debit", "hold", "collect", "release", "unhold",
   "adjustUp", "adjustDown"}

Snapshot == [available: Int, held: Int, version: Nat]

Empty == [available |-> 0, held |-> 0, version |-> 0]

TakesAvailable == {"debit", "hold", "adjustDown"}
GivesAvailable == {"credit", "release", "adjustUp"}
TakesHeld == {"release", "unhold"}
GivesHeld == {"hold", "collect"}

\* FALSE: InvalidWalletAmountError (the amount is not positive),
\* InsufficientAvailableError or InsufficientHeldError.
Sufficient(kind, s, amount) ==
  /\ amount > 0
  /\ kind \in TakesAvailable => s.available >= amount
  /\ kind \in TakesHeld => s.held >= amount

Moved(kind, gives, takes, amount) ==
  CASE kind \in gives -> amount
    [] kind \in takes -> -amount
    [] OTHER          -> 0

\* Mutation: release leaves the money in the held balance too.
ReleaseKeepsHeld(kind, s, amount) ==
  [available |-> s.available + Moved(kind, GivesAvailable, TakesAvailable, amount),
   held      |-> s.held + Moved(kind, GivesHeld, {"unhold"}, amount),
   version   |-> s.version + 1]

\* next: the balances moved and the version bumped.
After(kind, s, amount) ==
  [available |-> s.available + Moved(kind, GivesAvailable, TakesAvailable, amount),
   held      |-> s.held + Moved(kind, GivesHeld, TakesHeld, amount),
   version   |-> s.version + 1]

TxnType(kind) ==
  CASE kind = "credit"                      -> "CREDIT"
    [] kind \in {"debit", "unhold"}         -> "DEBIT"
    [] kind \in {"hold", "collect"}         -> "HOLD"
    [] kind = "release"                     -> "RELEASE"
    [] OTHER                                -> "ADJUSTMENT"

Debits == {"debit", "hold", "unhold", "adjustDown"}

\* The wallet_transactions row; it keeps the available balance after the
\* operation and not the held one.
Txn(kind, s, amount, ref, note) ==
  [type |-> TxnType(kind),
   debit |-> IF kind \in Debits THEN amount ELSE 0,
   credit |-> IF kind \in Debits THEN 0 ELSE amount,
   balanceAfter |-> After(kind, s, amount).available,
   reference |-> ref,
   description |-> note]

-----------------------------------------------------------------------------
\* What a row says by itself, without the operation that wrote it.

\* The change of available + held.
TotalChange(txn) ==
  CASE txn.type = "HOLD"    -> txn.credit
    [] txn.type = "RELEASE" -> 0
    [] OTHER                -> txn.credit - txn.debit

\* The changes of the available balance a row allows: a DEBIT row may have
\* been written by unhold and a HOLD row for a collection, which leave it.
AvailableChanges(txn) ==
  IF txn.type \in {"DEBIT", "HOLD"} THEN {-txn.debit, 0}
  ELSE {txn.credit - txn.debit}
=============================================================================
