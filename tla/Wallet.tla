------------------------------- MODULE Wallet -------------------------------
(***************************************************************************)
(* WalletService over the tables wallets and wallet_transactions.  A       *)
(* single-wallet operation locks the row (SELECT ... FOR UPDATE) and       *)
(* commits in one step; a transfer reads both rows without a lock and      *)
(* relies on the version column, so its statements are separate steps.     *)
(* Isolation is READ COMMITTED: what a transaction has written is visible  *)
(* to others, and its row locks are released, only when it commits.        *)
(***************************************************************************)
EXTENDS WalletOps, FiniteSets, FiniteSetsExt

CONSTANTS
  Workers,       \* requests that may be in flight at once
  Wallets,       \* wallet owners, one wallet each
  Keys,          \* idempotency keys
  NoKey,         \* a request without one
  Kinds,         \* the single-wallet operations requests may ask for
  Amounts,       \* the amounts they may ask for
  Free,          \* the holder of a row nobody has locked
  MaxOps,        \* bound: operations the service receives
  RawRowsMapped  \* does $queryRaw return the fields Wallet declares?

ASSUME WalletConstants ==
  /\ Kinds \subseteq Kind
  /\ Amounts \subseteq Nat \ {0}
  /\ Wallets # {}
  /\ NoKey \notin Keys
  /\ Free \notin Workers
  /\ MaxOps \in Nat
  /\ RawRowsMapped \in BOOLEAN

\* What is added up over all wallets is a sum.
ASSUME FiniteWallets == IsFiniteSet(Wallets)

NoReference == <<NoKey, "idem">>

\* `idem:${key}`, and `${reference}:credit` for the second leg of a transfer.
Reference(key, leg) == IF key = NoKey THEN NoReference ELSE <<key, leg>>

VARIABLES
  created,  \* the wallets that exist
  row,      \* wallets: [Wallets -> Snapshot]
  ledger,   \* wallet_transactions of each wallet, in commit order
  lock,     \* the transaction that holds the row lock of each wallet
  op,       \* the request of each worker
  left      \* requests still to come (bound)

vars == <<created, row, ledger, lock, op, left>>

\* to, from and into: the receiving wallet and the two rows a transfer read.
Idle(x) == [pc |-> "idle", kind |-> "credit", wallet |-> x, to |-> x,
            amount |-> 0, key |-> NoKey, from |-> Empty, into |-> Empty]

AnyWallet == CHOOSE x \in Wallets : TRUE

Init ==
  /\ created = {}
  /\ row = [x \in Wallets |-> Empty]
  /\ ledger = [x \in Wallets |-> << >>]
  /\ lock = [x \in Wallets |-> Free]
  /\ op = [w \in Workers |-> Idle(AnyWallet)]
  /\ left = MaxOps

At(w, pc) == op[w].pc = pc

Become(w, self) == op' = [op EXCEPT ![w] = self]

\* Mutation: a transaction that fails keeps its row locks.
LocksKept(w) == lock

Unlocked(w) == [x \in Wallets |-> IF lock[x] = w THEN Free ELSE lock[x]]

\* The request ends, with a reply or an exception.
Done(w) == Become(w, Idle(AnyWallet))

\* Its transaction is rolled back: nothing it wrote was visible.
RolledBack(w) ==
  /\ Done(w) /\ lock' = Unlocked(w)
  /\ UNCHANGED <<created, row, ledger, left>>

\* FALSE: the unique index on (wallet_id, reference) refuses the insert.
Fits(rows, ref) ==
  ref = NoReference \/ \A i \in 1..Len(rows) : rows[i].reference # ref

Unused(x, ref) == Fits(ledger[x], ref)

-----------------------------------------------------------------------------
\* getOrCreate.

OpenStart(w, x) ==
  /\ At(w, "idle") /\ x \notin created
  /\ Become(w, [Idle(x) EXCEPT !.pc = "open"])
  /\ UNCHANGED <<created, row, ledger, lock, left>>

\* The loser of the race on (owner_type, owner_id, currency) gets P2002 and
\* returns the winner's row.
Open(w) ==
  LET x == op[w].wallet IN
  /\ At(w, "open")
  /\ IF x \in created THEN UNCHANGED <<created, row>>
     ELSE created' = created \cup {x} /\ row' = [row EXCEPT ![x] = Empty]
  /\ Done(w)
  /\ UNCHANGED <<ledger, lock, left>>

-----------------------------------------------------------------------------
\* credit, debit, hold, release, unhold, adjust: mutate.

Accept(w, self) ==
  /\ At(w, "idle") /\ left > 0 /\ left' = left - 1
  /\ Become(w, self)
  /\ UNCHANGED <<created, row, ledger, lock>>

\* The idempotency lookup, before the transaction; a known key ends here.
MutateStart(w, kind, x, amount, key) ==
  /\ x \in created /\ Unused(x, Reference(key, "idem"))
  /\ Accept(w, [Idle(x) EXCEPT !.pc = "mutate", !.kind = kind,
                               !.amount = amount, !.key = key])

\* loadForUpdate waits for the row lock and reads the row; the operation, the
\* versioned update and the insert follow under the lock.  A row without
\* balanceAmount makes Money.of throw.
Mutate(w) ==
  LET x == op[w].wallet
      ref == Reference(op[w].key, "idem") IN
  /\ At(w, "mutate") /\ lock[x] = Free
  /\ IF RawRowsMapped /\ Sufficient(op[w].kind, row[x], op[w].amount) /\ Unused(x, ref)
     THEN /\ row' = [row EXCEPT ![x] = After(op[w].kind, row[x], op[w].amount)]
          /\ ledger' = [ledger EXCEPT ![x] =
               Append(@, Txn(op[w].kind, row[x], op[w].amount, ref, "none"))]
          /\ Done(w)
          /\ UNCHANGED <<created, lock, left>>
     ELSE RolledBack(w)

-----------------------------------------------------------------------------
\* transfer.

TransferStart(w, a, b, amount, key) ==
  /\ a # b /\ {a, b} \subseteq created
  /\ Unused(a, Reference(key, "idem"))
  /\ Accept(w, [Idle(a) EXCEPT !.pc = "read_from", !.to = b, !.amount = amount,
                               !.key = key])

\* findUnique of the first wallet: no lock, the committed row.
ReadFrom(w) ==
  /\ At(w, "read_from")
  /\ Become(w, [op[w] EXCEPT !.pc = "read_to", !.from = row[op[w].wallet]])
  /\ UNCHANGED <<created, row, ledger, lock, left>>

\* findUnique of the second, then both operations in memory.
ReadTo(w) ==
  /\ At(w, "read_to")
  /\ IF Sufficient("debit", op[w].from, op[w].amount)
     THEN /\ Become(w, [op[w] EXCEPT !.pc = "write_from", !.into = row[op[w].to]])
          /\ UNCHANGED <<created, row, ledger, lock, left>>
     ELSE RolledBack(w)

\* Mutation: updateMany filters by id alone.
AnyVersion(x, read) == TRUE

\* updateMany ... where version: FALSE means count = 0, ConflictException.
VersionMatches(x, read) == row[x].version = read.version

\* persistOp of the debit: takes the row lock and keeps it.
WriteFrom(w) ==
  LET a == op[w].wallet IN
  /\ At(w, "write_from") /\ lock[a] = Free
  /\ IF VersionMatches(a, op[w].from) /\ Unused(a, Reference(op[w].key, "idem"))
     THEN /\ lock' = [lock EXCEPT ![a] = w]
          /\ Become(w, [op[w] EXCEPT !.pc = "write_to"])
          /\ UNCHANGED <<created, row, ledger, left>>
     ELSE RolledBack(w)

\* Mutation: the debit of a transfer is not persisted.
CreditOnly(w) == {op[w].to}

\* The rows a transfer has written when it commits.
Legs(w) == {op[w].wallet, op[w].to}

\* persistOp of the credit, then COMMIT makes both visible.
WriteTo(w) ==
  LET a == op[w].wallet
      b == op[w].to
      amount == op[w].amount
      debit == Txn("debit", op[w].from, amount, Reference(op[w].key, "idem"), "transfer")
      credit == Txn("credit", op[w].into, amount, Reference(op[w].key, "credit"),
                    "transfer") IN
  /\ At(w, "write_to") /\ lock[b] = Free
  /\ IF VersionMatches(b, op[w].into) /\ Unused(b, Reference(op[w].key, "credit"))
     THEN /\ row' = [x \in Wallets |->
               IF x \notin Legs(w) THEN row[x]
               ELSE IF x = a THEN After("debit", op[w].from, amount)
               ELSE After("credit", op[w].into, amount)]
          /\ ledger' = [x \in Wallets |->
               IF x \notin Legs(w) THEN ledger[x]
               ELSE Append(ledger[x], IF x = a THEN debit ELSE credit)]
          /\ Done(w) /\ lock' = Unlocked(w)
          /\ UNCHANGED <<created, left>>
     ELSE RolledBack(w)

-----------------------------------------------------------------------------
\* PostgreSQL, external: transfers that wait for each other in a circle.

Circle(ws) ==
  /\ \A w \in ws : At(w, "write_to")
  /\ {lock[op[w].to] : w \in ws} = ws

DeadlockDetected(w) ==
  /\ \E ws \in SUBSET Workers : w \in ws /\ Circle(ws)
  /\ RolledBack(w)

\* A call fails, Prisma's transaction timeout fires or the process dies.
Abort(w) == ~At(w, "idle") /\ RolledBack(w)

Step(w) ==
  \/ Open(w) \/ Mutate(w)
  \/ ReadFrom(w) \/ ReadTo(w) \/ WriteFrom(w) \/ WriteTo(w)
  \/ DeadlockDetected(w)

Start(w) ==
  \/ \E x \in Wallets : OpenStart(w, x)
  \/ \E kind \in Kinds, x \in Wallets, amount \in Amounts, key \in Keys \cup {NoKey} :
       MutateStart(w, kind, x, amount, key)
  \/ \E a, b \in Wallets, amount \in Amounts, key \in Keys \cup {NoKey} :
       TransferStart(w, a, b, amount, key)

Next == \E w \in Workers : Start(w) \/ Step(w) \/ Abort(w)

Spec == Init /\ [][Next]_vars

\* The event loop resumes every awaited call, PostgreSQL grants free row locks
\* and breaks circles; nothing is assumed of failures.
FairSpec == Spec /\ \A w \in Workers : WF_vars(Step(w))
-----------------------------------------------------------------------------
\* Properties.

References == (Keys \cup {NoKey}) \X {"idem", "credit"}

LedgerRow == [type: {"CREDIT", "DEBIT", "HOLD", "RELEASE", "ADJUSTMENT"},
              debit: Nat, credit: Nat, balanceAfter: Int,
              reference: References, description: {"none", "transfer"}]

Request == [pc: {"idle", "open", "mutate", "read_from", "read_to",
                 "write_from", "write_to"},
            kind: Kind, wallet: Wallets, to: Wallets, amount: Nat,
            key: Keys \cup {NoKey}, from: Snapshot, into: Snapshot]

\* Every table, lock and request keeps its shape; balances are only integers
\* here.
TypeOK ==
  /\ created \subseteq Wallets
  /\ row \in [Wallets -> Snapshot]
  /\ \A x \in Wallets : ledger[x] \in Seq(LedgerRow)
  /\ DOMAIN ledger = Wallets
  /\ lock \in [Wallets -> Workers \cup {Free}]
  /\ op \in [Workers -> Request]
  /\ left \in Nat

\* No interleaving of operations and transfers overdraws a wallet, and none
\* releases more than is held: the checks of wallet-ops suffice, the CHECK
\* constraint of the table (left out here) never fires.
NonNegative == \A x \in Wallets : row[x].available >= 0 /\ row[x].held >= 0

\* balanceAfter of the newest row, the opening zero when there is none.
LastBalance(rows) == IF rows = << >> THEN 0 ELSE rows[Len(rows)].balanceAfter

Previous(rows, i) == IF i = 1 THEN 0 ELSE rows[i - 1].balanceAfter

Chained(wallet, rows) ==
  /\ wallet.version = Len(rows)
  /\ wallet.available = LastBalance(rows)
  /\ \A i \in 1..Len(rows) :
       rows[i].balanceAfter - Previous(rows, i) \in AvailableChanges(rows[i])

\* The ledger is a chain without a lost update: one row per version of the
\* wallet, each row's balanceAfter follows from the previous one's by a change
\* its own columns allow, and the last one is the cached balance.
LedgerChain == \A x \in Wallets : Chained(row[x], ledger[x])

\* The movements derive the wallet: available plus held is the sum of what the
\* rows say of the total, whichever operations wrote them.
LedgerExplainsTotal ==
  \A x \in Wallets :
    row[x].available + row[x].held =
      MapThenSumSet(LAMBDA i : TotalChange(ledger[x][i]), DOMAIN ledger[x])

Distinct(rows) ==
  \A i, j \in 1..Len(rows) :
    rows[i].reference = rows[j].reference /\ rows[i].reference # NoReference => i = j

\* A keyed request is applied to a wallet at most once, however its retries
\* and duplicates interleave: two rows never share a reference.
ReferencesUnique == \A x \in Wallets : Distinct(ledger[x])

\* The ledger can be trusted: balances never go below zero, no update is lost and
\* no keyed request counts twice, whatever requests, retries and aborts interleave.
LedgerSound == NonNegative /\ LedgerChain /\ ReferencesUnique

\* What a transfer has read of a wallet is a version it once had.
Honest(x, read) ==
  /\ read.version <= row[x].version
  /\ read.version = row[x].version => read = row[x]

Transferring(w) == op[w].pc \in {"read_from", "read_to", "write_from", "write_to"}

\* What holds of a request between two of its statements.
Sound(w) ==
  LET self == op[w] IN
  /\ self.pc \notin {"idle", "open"} => {self.wallet, self.to} \subseteq created
  /\ Transferring(w) => self.wallet # self.to /\ self.amount > 0
  /\ self.pc \in {"read_to", "write_from", "write_to"} => Honest(self.wallet, self.from)
  /\ self.pc \in {"write_from", "write_to"} =>
       /\ Honest(self.to, self.into)
       /\ self.from.available >= self.amount
  /\ self.pc = "write_to" =>
       /\ lock[self.wallet] = w
       /\ self.from = row[self.wallet]
       /\ Unused(self.wallet, Reference(self.key, "idem"))

\* Why the version check is enough: an older read can never look current, a
\* debit that has been written locks a row that is still as it was read, and a
\* wallet nobody has opened is empty.
Consistent ==
  /\ \A x \in Wallets \ created : row[x] = Empty
  /\ \A w \in Workers : Sound(w)

\* Transfers neither make nor lose money: over all wallets their debits equal
\* their credits after every commit, deadlock, conflict and crash.
TransfersBalance ==
  LET net(x) == MapThenSumSet(LAMBDA i : ledger[x][i].credit - ledger[x][i].debit,
                  {i \in DOMAIN ledger[x] : ledger[x][i].description = "transfer"}) IN
  MapThenSumSet(net, Wallets) = 0

\* No request waits for a row lock for ever: opposite transfers lock the two
\* rows in opposite orders, and yet each ends.
EveryRequestEnds == \A w \in Workers : ~At(w, "idle") ~> At(w, "idle")

\* A credit of a wallet that exists, under a reference not used yet, changes
\* the wallet: only a failed call may stop it.
CreditIsApplied ==
  [][\A w \in Workers :
       /\ Mutate(w) /\ op[w].kind = "credit"
       /\ Unused(op[w].wallet, Reference(op[w].key, "idem"))
       => row' # row]_vars
=============================================================================
