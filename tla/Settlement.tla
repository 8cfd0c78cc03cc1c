----------------------------- MODULE Settlement -----------------------------
(***************************************************************************)
(* SettlementService for one policy: batches that snapshot the available   *)
(* balances, their approval, and the item by item payout of each: claim,   *)
(* idempotent wallet debit, payout journal, COMPLETED.  One step per       *)
(* awaited call; the debit's own transaction is one step, as in Wallet.    *)
(* Only the available balance and the references settlement:{id} of the    *)
(* wallets matter here; a settlement's id is its (batch, wallet) pair.     *)
(***************************************************************************)
EXTENDS WalletOps, FiniteSets, FiniteSetsExt

CONSTANTS
  Workers,           \* requests that may be in flight at once
  Wallets,           \* wallets of the policy's beneficiary type
  Opening,           \* their available balances: [Wallets -> Nat]
  Minimum,           \* the policy's minimumAmount
  RequiresApproval,  \* the policy's requiresApproval
  Keys,              \* idempotency keys of create requests
  NoKey,             \* a request without one
  MaxBatches,        \* bound: batches created
  MaxOps,            \* bound: requests, and movements of the wallets
  MaxFaults          \* bound: failed calls and crashes

ASSUME SettlementConstants ==
  /\ IsFiniteSet(Wallets)
  /\ Opening \in [Wallets -> Nat]
  /\ Minimum \in Nat
  /\ RequiresApproval \in BOOLEAN
  /\ NoKey \notin Keys
  /\ MaxBatches \in Nat /\ MaxOps \in Nat /\ MaxFaults \in Nat

Payouts == (1..MaxBatches) \X Wallets

VARIABLES
  balance,      \* wallets: the available balance of each
  batches,      \* settlement_batches: [status, items, key, approved]
  settlements,  \* settlements by (batch, wallet): status, "ABSENT" for none
  debited,      \* the references settlement:{id} of wallet_transactions
  journals,     \* payout journals posted for each settlement
  op,           \* the request of each worker
  moved,        \* what everybody else moved in or out, in sum
  left,         \* requests and movements still to come (bound)
  faults        \* faults still to come (bound)

vars == <<balance, batches, settlements, debited, journals, op, moved, left, faults>>
tables == <<balance, batches, settlements, debited, journals>>

Ids == DOMAIN batches

NoItems == [x \in {} |-> 0]

\* todo: the items still to process; item: the wallet being paid.
Idle == [pc |-> "idle", batch |-> 0, key |-> NoKey, items |-> NoItems,
         todo |-> {}, item |-> {}]

Init ==
  /\ balance = Opening
  /\ batches = << >>
  /\ settlements = [s \in Payouts |-> "ABSENT"]
  /\ debited = {}
  /\ journals = [s \in Payouts |-> 0]
  /\ op = [w \in Workers |-> Idle]
  /\ moved = 0 /\ left = MaxOps /\ faults = MaxFaults

At(w, pc) == op[w].pc = pc

Become(w, self) == op' = [op EXCEPT ![w] = self]

Continue(w, pc) == Become(w, [op[w] EXCEPT !.pc = pc])

Done(w) == Become(w, Idle)

Accept(w, self) ==
  /\ At(w, "idle") /\ left > 0 /\ left' = left - 1
  /\ Become(w, self)
  /\ UNCHANGED <<tables, moved, faults>>

-----------------------------------------------------------------------------
\* createBatchFromPolicy, past the cutoff or forced.

\* externalRef is compared as a whole: an approval has made it another one.
KeyTaken(key) ==
  key # NoKey /\ \E b \in Ids : batches[b].key = key /\ ~batches[b].approved

CreateStart(w, key) ==
  /\ ~KeyTaken(key)
  /\ Accept(w, [Idle EXCEPT !.pc = "create_read", !.key = key])

Eligible == {x \in Wallets : balance[x] > 0 /\ balance[x] >= Minimum}

\* The balances are read without a lock; there must be one to settle.
CreateRead(w) ==
  /\ At(w, "create_read")
  /\ IF Eligible = {} THEN Done(w)
     ELSE Become(w, [op[w] EXCEPT !.pc = "create_insert",
                                  !.items = [x \in Eligible |-> balance[x]]])
  /\ UNCHANGED <<tables, moved, left, faults>>

CreateInsert(w) ==
  /\ At(w, "create_insert") /\ Len(batches) < MaxBatches
  /\ batches' = Append(batches, [status |-> "PENDING", items |-> op[w].items,
                                 key |-> op[w].key, approved |-> FALSE])
  /\ Done(w)
  /\ UNCHANGED <<balance, settlements, debited, journals, moved, left, faults>>

-----------------------------------------------------------------------------
\* approveBatch and cancelBatch: a read, then an update by id.

ApproveStart(w, b) ==
  /\ batches[b].status = "PENDING" /\ ~batches[b].approved
  /\ Accept(w, [Idle EXCEPT !.pc = "approve", !.batch = b])

Approve(w) ==
  /\ At(w, "approve") /\ Done(w)
  /\ batches' = [batches EXCEPT ![op[w].batch].approved = TRUE]
  /\ UNCHANGED <<balance, settlements, debited, journals, moved, left, faults>>

Cancellable == {"PENDING"}

CancelStart(w, b) ==
  /\ batches[b].status \in Cancellable
  /\ Accept(w, [Idle EXCEPT !.pc = "cancel", !.batch = b])

Cancel(w) ==
  /\ At(w, "cancel") /\ Done(w)
  /\ batches' = [batches EXCEPT ![op[w].batch].status = "CANCELLED"]
  /\ UNCHANGED <<balance, settlements, debited, journals, moved, left, faults>>

-----------------------------------------------------------------------------
\* processBatch.

\* Mutation: nobody asks for the approval.
NeverChecked(batch) == TRUE

Processable(batch) == RequiresApproval => batch.approved

ProcessStart(w, b) ==
  /\ batches[b].status \in {"PENDING", "PROCESSING"}
  /\ Processable(batches[b])
  /\ Accept(w, [Idle EXCEPT !.pc = IF batches[b].status = "PENDING"
                                   THEN "process" ELSE "items",
                            !.batch = b])

\* Set by id, whatever the status has become.
Process(w) ==
  /\ At(w, "process") /\ Continue(w, "items")
  /\ batches' = [batches EXCEPT ![op[w].batch].status = "PROCESSING"]
  /\ UNCHANGED <<balance, settlements, debited, journals, moved, left, faults>>

Items(w) ==
  /\ At(w, "items")
  /\ Become(w, [op[w] EXCEPT !.pc = "next", !.todo = DOMAIN batches[op[w].batch].items])
  /\ UNCHANGED <<tables, moved, left, faults>>

\* The loop, in the order the database happens to return: find the settlement
\* of the next item; one that is COMPLETED is skipped.
NextItem(w) ==
  /\ At(w, "next")
  /\ \/ \E x \in op[w].todo :
          Become(w, [op[w] EXCEPT
            !.todo = @ \ {x}, !.item = {x},
            !.pc = CASE settlements[<<op[w].batch, x>>] = "ABSENT"     -> "create"
                     [] settlements[<<op[w].batch, x>>] = "PENDING"    -> "claim"
                     [] settlements[<<op[w].batch, x>>] = "PROCESSING" -> "debit"
                     [] OTHER                                          -> "next"])
     \/ op[w].todo = {} /\ Continue(w, "complete")
  /\ UNCHANGED <<tables, moved, left, faults>>

\* The settlement of the current item.
Current(w) == <<op[w].batch, CHOOSE x \in op[w].item : TRUE>>

\* An item throws: the loop breaks, the batch becomes FAILED.
ItemFails(w) == Continue(w, "fail")

\* The unique index on (batch_id, wallet_id) refuses a second settlement.
ItemCreate(w) ==
  LET s == Current(w) IN
  /\ At(w, "create")
  /\ IF settlements[s] = "ABSENT"
     THEN settlements' = [settlements EXCEPT ![s] = "PENDING"] /\ Continue(w, "claim")
     ELSE settlements' = settlements /\ ItemFails(w)
  /\ UNCHANGED <<balance, batches, debited, journals, moved, left, faults>>

\* updateMany where PENDING; with count 0 the row is read again.
ItemClaim(w) ==
  LET s == Current(w) IN
  /\ At(w, "claim")
  /\ IF settlements[s] = "PENDING"
     THEN settlements' = [settlements EXCEPT ![s] = "PROCESSING"] /\ Continue(w, "debit")
     ELSE settlements' = settlements /\ Continue(w, "lost")
  /\ UNCHANGED <<balance, batches, debited, journals, moved, left, faults>>

ItemLost(w) ==
  /\ At(w, "lost")
  /\ IF settlements[Current(w)] = "COMPLETED" THEN Continue(w, "next") ELSE ItemFails(w)
  /\ UNCHANGED <<tables, moved, left, faults>>

\* wallets.debit: the lookup of its idempotency key.
ItemDebit(w) ==
  /\ At(w, "debit")
  /\ Continue(w, IF Current(w) \in debited THEN "journal" ELSE "debit_apply")
  /\ UNCHANGED <<tables, moved, left, faults>>

\* Mutation: the debit carries no reference, nothing tells it was done.
NoReference(s) == TRUE

\* FALSE: the unique index on (wallet_id, reference) refuses the row.
Undebited(s) == s \notin debited

\* wallets.debit: its transaction.
ItemDebitApply(w) ==
  LET s == Current(w)
      x == s[2]
      amount == batches[s[1]].items[x]
      snapshot == [Empty EXCEPT !.available = balance[x]] IN
  /\ At(w, "debit_apply")
  /\ IF Sufficient("debit", snapshot, amount) /\ Undebited(s)
     THEN /\ balance' = [balance EXCEPT ![x] = After("debit", snapshot, amount).available]
          /\ debited' = debited \cup {s}
          /\ Continue(w, "journal")
     ELSE UNCHANGED <<balance, debited>> /\ ItemFails(w)
  /\ UNCHANGED <<batches, settlements, journals, moved, left, faults>>

\* Mutation: settlement.journalEntryId is not looked at.
NeverLinked(s) == FALSE

Linked(s) == journals[s] > 0

\* postSettlementPayout: settlement.journalEntryId is read in its transaction,
\* without a lock; then the entry is inserted and linked.
ItemJournal(w) ==
  /\ At(w, "journal")
  /\ Continue(w, IF Linked(Current(w)) THEN "finish" ELSE "journal_insert")
  /\ UNCHANGED <<tables, moved, left, faults>>

ItemJournalInsert(w) ==
  /\ At(w, "journal_insert") /\ Continue(w, "finish")
  /\ journals' = [journals EXCEPT ![Current(w)] = @ + 1]
  /\ UNCHANGED <<balance, batches, settlements, debited, moved, left, faults>>

ItemFinish(w) ==
  /\ At(w, "finish") /\ Continue(w, "next")
  /\ settlements' = [settlements EXCEPT ![Current(w)] = "COMPLETED"]
  /\ UNCHANGED <<balance, batches, debited, journals, moved, left, faults>>

\* Mutation: a status the enum does not have.
NoSuchStatus(failed) == IF failed THEN "FAILED" ELSE "PROCESSED"

FinalStatus(failed) == IF failed THEN "FAILED" ELSE "COMPLETED"

\* The final status, set by id.
Finish(w) ==
  /\ At(w, "complete") \/ At(w, "fail")
  /\ batches' = [batches EXCEPT ![op[w].batch].status = FinalStatus(At(w, "fail"))]
  /\ Done(w)
  /\ UNCHANGED <<balance, settlements, debited, journals, moved, left, faults>>

ProcessStep(w) ==
  \/ Process(w) \/ Items(w) \/ NextItem(w)
  \/ ItemCreate(w) \/ ItemClaim(w) \/ ItemLost(w)
  \/ ItemDebit(w) \/ ItemDebitApply(w)
  \/ ItemJournal(w) \/ ItemJournalInsert(w) \/ ItemFinish(w)
  \/ Finish(w)

-----------------------------------------------------------------------------
\* The world around.

\* Escrow releases, transfers and admin operations move the balances.
Move(x, amount) ==
  /\ left > 0 /\ left' = left - 1
  /\ balance[x] + amount >= 0
  /\ balance' = [balance EXCEPT ![x] = @ + amount]
  /\ moved' = moved + amount
  /\ UNCHANGED <<batches, settlements, debited, journals, op, faults>>

\* A call inside processItem throws (the payout journal needs an open
\* accounting period, for one).
CallFails(w) ==
  /\ faults > 0 /\ faults' = faults - 1
  /\ op[w].pc \in {"create", "claim", "lost", "debit", "debit_apply", "journal",
                   "journal_insert", "finish"}
  /\ ItemFails(w)
  /\ UNCHANGED <<tables, moved, left>>

Crash ==
  /\ faults > 0 /\ faults' = faults - 1
  /\ op' = [w \in Workers |-> Idle]
  /\ op' # op
  /\ UNCHANGED <<tables, moved, left>>

Next ==
  \/ \E w \in Workers :
       \/ \E key \in Keys \cup {NoKey} : CreateStart(w, key)
       \/ CreateRead(w) \/ CreateInsert(w)
       \/ \E b \in Ids : ApproveStart(w, b) \/ CancelStart(w, b) \/ ProcessStart(w, b)
       \/ Approve(w) \/ Cancel(w)
       \/ ProcessStep(w)
       \/ CallFails(w)
  \/ \E x \in Wallets, amount \in {-1, 1} : Move(x, amount)
  \/ Crash

Spec == Init /\ [][Next]_vars
-----------------------------------------------------------------------------
\* Properties.

Busy == {"process", "items", "next", "create", "claim", "lost", "debit", "debit_apply",
         "journal", "journal_insert", "finish", "complete", "fail"}

\* A batch that pays the wallets of S, with the balances it has snapshotted.
Batch(S) ==
  [status: {"PENDING", "PROCESSING", "COMPLETED", "FAILED", "CANCELLED"},
   items: [S -> Nat], key: Keys \cup {NoKey}, approved: BOOLEAN]

\* A request that has snapshotted the wallets of S.
Request(S) ==
  [pc: Busy \cup {"idle", "create_read", "create_insert", "approve", "cancel"},
   batch: Ids \cup {0}, key: Keys \cup {NoKey}, items: [S -> Nat],
   todo: SUBSET Wallets, item: SUBSET Wallets]

\* Every table and request keeps its shape.
TypeOK ==
  /\ balance \in [Wallets -> Int]
  /\ batches \in Seq({batches[b] : b \in Ids})
  /\ \A b \in Ids : \E S \in SUBSET Wallets : batches[b] \in Batch(S)
  /\ settlements \in [Payouts -> {"ABSENT", "PENDING", "PROCESSING", "COMPLETED"}]
  /\ debited \subseteq Payouts
  /\ journals \in [Payouts -> Nat]
  /\ DOMAIN op = Workers
  /\ \A w \in Workers : \E S \in SUBSET Wallets : op[w] \in Request(S)
  /\ moved \in Int /\ left \in Nat /\ faults \in Nat

Of(b) == {<<b, x>> : x \in DOMAIN batches[b].items}

\* Whoever processes it and whatever fails, a batch only reads COMPLETED when
\* each of its wallets has been debited, journaled and marked COMPLETED.
CompletedBatchIsPaid ==
  \A b \in Ids : batches[b].status = "COMPLETED" =>
    \A s \in Of(b) : settlements[s] = "COMPLETED" /\ s \in debited /\ journals[s] > 0

\* Every shilling is accounted for: the balances are what they were, plus what
\* others moved, minus one payout per debited settlement.  Concurrent
\* processors and retries never debit a settlement twice, nor a wallet more
\* than it has, even for a batch whose snapshot of the balance is stale.
MoneyAccounted ==
  LET paid(s) == batches[s[1]].items[s[2]] IN
  /\ MapThenSumSet(LAMBDA x : balance[x], Wallets) + MapThenSumSet(paid, debited)
       = MapThenSumSet(LAMBDA x : Opening[x], Wallets) + moved
  /\ \A x \in Wallets : balance[x] >= 0

\* No payout is started before an admin has approved the batch, when the
\* policy asks for that.
ApprovalRespected ==
  RequiresApproval =>
    \A b \in Ids : (\E s \in Of(b) : settlements[s] # "ABSENT") => batches[b].approved

\* A batch says truly how far it is, through approvals, failures and retries: nothing is
\* paid before its approval, and COMPLETED means that everyone was.
PaidAsApproved == ApprovalRespected /\ CompletedBatchIsPaid

\* A settlement's payout is posted to the journal once.
JournaledOnce == \A s \in Payouts : journals[s] <= 1

\* A cancelled batch has paid nobody.
CancelledIsUnpaid ==
  \A b \in Ids : batches[b].status = "CANCELLED" => Of(b) \cap debited = {}

\* A wallet that has been debited can still get its journal and its COMPLETED
\* settlement: processBatch accepts the batch, or somebody is processing it.
DebitedCanFinish ==
  \A s \in debited :
    \/ settlements[s] = "COMPLETED"
    \/ batches[s[1]].status \in {"PENDING", "PROCESSING"}
    \/ \E w \in Workers : op[w].pc \in Busy /\ op[w].batch = s[1]
=============================================================================
