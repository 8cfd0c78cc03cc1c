---------------------------- MODULE Wallet_proofs ----------------------------
(***************************************************************************)
(* Wallet for every set of workers, wallets, keys and amounts: the types,  *)
(* the balances that never go negative, the ledger chain and the unique    *)
(* references.  The strengthening that makes them inductive is Consistent: *)
(* an older version a transfer has read can never look current again.      *)
(* The sums over the ledger follow from how a step writes to the tables:   *)
(* one operation on one wallet, or the two legs of a transfer on two.      *)
(***************************************************************************)
EXTENDS Wallet, Sums, SequenceTheorems

IInv == TypeOK /\ NonNegative /\ LedgerChain /\ ReferencesUnique /\ Consistent

-----------------------------------------------------------------------------
\* The operators of wallet-ops.

\* An operation on a well-formed snapshot yields one, of the next version, and
\* a well-formed row that carries the new available balance.
LEMMA OperationType ==
  ASSUME NEW s \in Snapshot, NEW kind \in Kind, NEW amount \in Nat,
         NEW ref \in References, NEW note \in {"none", "transfer"}
  PROVE  /\ After(kind, s, amount) \in Snapshot
         /\ After(kind, s, amount).version = s.version + 1
         /\ Txn(kind, s, amount, ref, note) \in LedgerRow
         /\ Txn(kind, s, amount, ref, note).reference = ref
         /\ Txn(kind, s, amount, ref, note).balanceAfter
              = After(kind, s, amount).available
<1>1. Moved(kind, GivesAvailable, TakesAvailable, amount) \in Int
  BY DEF Moved, Kind, GivesAvailable, TakesAvailable
<1>2. Moved(kind, GivesHeld, TakesHeld, amount) \in Int
  BY DEF Moved, Kind, GivesHeld, TakesHeld
<1>3. After(kind, s, amount) \in Snapshot
  BY <1>1, <1>2 DEF After, Snapshot
<1>4. TxnType(kind) \in {"CREDIT", "DEBIT", "HOLD", "RELEASE", "ADJUSTMENT"}
  BY DEF TxnType, Kind
<1>5. Txn(kind, s, amount, ref, note) \in LedgerRow
  BY <1>3, <1>4 DEF Txn, LedgerRow, Snapshot
<1> QED
  BY <1>3, <1>5 DEF After, Txn, Snapshot

\* The change of the available balance is one the row itself allows.
LEMMA RowExplainsChange ==
  ASSUME NEW s \in Snapshot, NEW kind \in Kind, NEW amount \in Nat,
         NEW ref \in References, NEW note \in {"none", "transfer"}
  PROVE  LET t == Txn(kind, s, amount, ref, note) IN
         t.balanceAfter - s.available \in AvailableChanges(t)
<1>1. CASE kind \in {"credit", "release", "adjustUp"}
  BY <1>1 DEF Txn, TxnType, After, Moved, AvailableChanges, Snapshot, Debits,
              GivesAvailable, TakesAvailable
<1>2. CASE kind \in {"debit", "hold", "adjustDown"}
  BY <1>2 DEF Txn, TxnType, After, Moved, AvailableChanges, Snapshot, Debits,
              GivesAvailable, TakesAvailable
<1>3. CASE kind \in {"collect", "unhold"}
  BY <1>3 DEF Txn, TxnType, After, Moved, AvailableChanges, Snapshot, Debits,
              GivesAvailable, TakesAvailable
<1> QED
  BY <1>1, <1>2, <1>3 DEF Kind

\* The checks before an operation keep both balances non-negative.
LEMMA StaysNonNegative ==
  ASSUME NEW s \in Snapshot, NEW kind \in Kind, NEW amount \in Nat,
         s.available >= 0, s.held >= 0, Sufficient(kind, s, amount)
  PROVE  /\ After(kind, s, amount).available >= 0
         /\ After(kind, s, amount).held >= 0
  BY DEF Snapshot, Sufficient, After, Moved, Kind,
         TakesAvailable, GivesAvailable, TakesHeld, GivesHeld

LEMMA AppendFacts ==
  ASSUME NEW S, NEW q \in Seq(S), NEW e \in S
  PROVE  /\ Append(q, e) \in Seq(S)
         /\ Len(Append(q, e)) = Len(q) + 1
         /\ Append(q, e)[Len(q) + 1] = e
         /\ \A i \in 1..Len(q) : Append(q, e)[i] = q[i]
  OBVIOUS

LEMMA EmptySequence ==
  ASSUME NEW S, NEW q \in Seq(S), Len(q) # 0
  PROVE  q # << >>
  OBVIOUS

\* Appending the row of an operation on the current snapshot keeps the chain,
\* and keeps the references distinct when the index has room for the new one.
LEMMA CommitKeepsLedger ==
  ASSUME NEW s \in Snapshot, NEW rows \in Seq(LedgerRow),
         NEW kind \in Kind, NEW amount \in Nat,
         NEW ref \in References, NEW note \in {"none", "transfer"},
         Chained(s, rows), Distinct(rows), Fits(rows, ref)
  PROVE  LET t == Txn(kind, s, amount, ref, note) IN
         /\ Append(rows, t) \in Seq(LedgerRow)
         /\ Chained(After(kind, s, amount), Append(rows, t))
         /\ Distinct(Append(rows, t))
<1> DEFINE t == Txn(kind, s, amount, ref, note)
           a == After(kind, s, amount)
           more == Append(rows, t)
<1>1. /\ a \in Snapshot /\ a.version = s.version + 1
      /\ t \in LedgerRow /\ t.reference = ref /\ t.balanceAfter = a.available
  BY OperationType
<1>2. t.balanceAfter - s.available \in AvailableChanges(t)
  BY RowExplainsChange
<1> HIDE DEF t, a
<1>3. /\ more \in Seq(LedgerRow)
      /\ Len(more) = Len(rows) + 1
      /\ more # << >>
      /\ more[Len(rows) + 1] = t
      /\ \A i \in 1..Len(rows) : more[i] = rows[i]
  <2>1. /\ more \in Seq(LedgerRow) /\ Len(more) = Len(rows) + 1
        /\ more[Len(rows) + 1] = t
        /\ \A i \in 1..Len(rows) : more[i] = rows[i]
    BY <1>1, AppendFacts
  <2>2. Len(rows) + 1 # 0
    OBVIOUS
  <2> QED
    BY <2>1, <2>2, EmptySequence
<1>4. Len(rows) \in Nat
  OBVIOUS
<1> HIDE DEF more
<1>5. Chained(a, more)
  <2>1. a.version = Len(more)
    BY <1>1, <1>3 DEF Chained
  <2>2. a.available = LastBalance(more)
    BY <1>1, <1>3 DEF LastBalance
  <2>3. ASSUME NEW i \in 1..Len(more)
        PROVE  more[i].balanceAfter - Previous(more, i) \in AvailableChanges(more[i])
    <3>1. CASE i \in 1..Len(rows)
      <4>1. more[i] = rows[i] /\ Previous(more, i) = Previous(rows, i)
        BY <3>1, <1>3, <1>4 DEF Previous
      <4> QED
        BY <4>1, <3>1 DEF Chained
    <3>2. CASE i = Len(rows) + 1
      <4>1. Previous(more, i) = LastBalance(rows)
        <5>1. CASE rows = << >>
          BY <5>1, <3>2 DEF Previous, LastBalance
        <5>2. CASE rows # << >>
          <6>1. Len(rows) # 0
            BY <5>2
          <6> QED
            BY <5>2, <6>1, <3>2, <1>3, <1>4 DEF Previous, LastBalance
        <5> QED
          BY <5>1, <5>2
      <4> QED
        BY <4>1, <3>2, <1>2, <1>3 DEF Chained
    <3> QED
      BY <3>1, <3>2, <1>3, <1>4
  <2> QED
    BY <2>1, <2>2, <2>3 DEF Chained
<1>6. Distinct(more)
  BY <1>1, <1>3, <1>4 DEF Distinct, Fits
<1> QED
  BY <1>3, <1>5, <1>6 DEF t, a, more

-----------------------------------------------------------------------------
\* The steps.

Data == <<created, row, ledger>>

\* Every reference a request can build is one the ledger has room for.
LEMMA ReferenceType ==
  ASSUME NEW key \in Keys \cup {NoKey}, NEW leg \in {"idem", "credit"}
  PROVE  Reference(key, leg) \in References
  BY DEF Reference, NoReference, References

LEMMA IdleType ==
  ASSUME NEW x \in Wallets
  PROVE  /\ Idle(x) \in Request /\ Idle(x).pc = "idle"
         /\ Idle(x).wallet = x /\ Idle(x).to = x
  BY DEF Idle, Request, Kind, Snapshot, Empty

LEMMA AnyWalletType == AnyWallet \in Wallets
  BY WalletConstants DEF AnyWallet

\* The initial state.
LEMMA InitInv == Init => IInv
<1> SUFFICES ASSUME Init PROVE IInv
  OBVIOUS
<1>1. Empty \in Snapshot /\ Empty.version = 0 /\ Empty.available = 0 /\ Empty.held = 0
  BY DEF Empty, Snapshot
<1>2. Idle(AnyWallet) \in Request /\ Idle(AnyWallet).pc = "idle"
  BY IdleType, AnyWalletType
<1> HIDE DEF Empty, Idle
<1>3. TypeOK
  <2>1. << >> \in Seq(LedgerRow)
    OBVIOUS
  <2> QED
    BY <1>1, <1>2, <2>1, WalletConstants DEF Init, TypeOK
<1>4. NonNegative
  BY <1>1 DEF Init, NonNegative
<1>5. LedgerChain
  BY <1>1 DEF Init, LedgerChain, Chained, LastBalance
<1>6. ReferencesUnique
  BY DEF Init, ReferencesUnique, Distinct
<1>7. Consistent
  BY <1>2 DEF Init, Consistent, Sound, Transferring
<1> QED
  BY <1>3, <1>4, <1>5, <1>6, <1>7 DEF IInv

\* What no step of a request that leaves the tables alone can disturb.
LEMMA DataUnchanged ==
  ASSUME IInv, UNCHANGED Data
  PROVE  NonNegative' /\ LedgerChain' /\ ReferencesUnique'
  BY DEF Data, IInv, NonNegative, LedgerChain, ReferencesUnique, Chained, Distinct,
         LastBalance, Previous

\* A transfer that does not move stays sound while the tables do not change
\* and it keeps its lock.
LEMMA SoundKept ==
  ASSUME NEW v \in Workers, Sound(v), op'[v] = op[v], UNCHANGED Data,
         lock[op[v].wallet] = v => lock'[op[v].wallet] = v
  PROVE  Sound(v)'
  BY DEF Sound, Transferring, Honest, Unused, Data

\* A request that ends, in whatever way, without having written anything.
LEMMA RollbackKeeps ==
  ASSUME IInv, NEW w \in Workers, RolledBack(w)
  PROVE  IInv'
<1>1. UNCHANGED Data /\ left' = left
  BY DEF RolledBack, Data
<1>2. op' = [op EXCEPT ![w] = Idle(AnyWallet)] /\ lock' = Unlocked(w)
  BY DEF RolledBack, Done, Become
<1>3. Idle(AnyWallet) \in Request /\ Idle(AnyWallet).pc = "idle"
  BY IdleType, AnyWalletType
<1> HIDE DEF Idle
<1>4. TypeOK'
  BY <1>1, <1>2, <1>3 DEF IInv, TypeOK, Unlocked, Data
<1>5. Consistent'
  <2>1. Sound(w)'
    <3>1. op'[w].pc = "idle"
      BY <1>2, <1>3 DEF IInv, TypeOK
    <3> QED
      BY <3>1 DEF Sound, Transferring
  <2>2. ASSUME NEW v \in Workers, v # w
        PROVE  Sound(v)'
    <3>1. op'[v] = op[v]
      BY <1>2, <2>2 DEF IInv, TypeOK
    <3>2. lock[op[v].wallet] = v => lock'[op[v].wallet] = v
      BY <1>2, <2>2 DEF IInv, TypeOK, Request, Unlocked
    <3> QED
      BY <3>1, <3>2, <1>1, SoundKept DEF IInv, Consistent
  <2> QED
    BY <1>1, <2>1, <2>2 DEF IInv, Consistent, Data
<1> QED
  BY <1>1, <1>4, <1>5, DataUnchanged DEF IInv

\* A request that arrives, or reads, without touching the tables or a lock.
LEMMA RequestKeeps ==
  ASSUME IInv, NEW w \in Workers, NEW self \in Request, Become(w, self),
         UNCHANGED <<Data, lock>>, left' \in Nat,
         self.pc # "write_to",
         self.pc \notin {"idle", "open"} => {self.wallet, self.to} \subseteq created,
         self.pc \in {"read_from", "read_to", "write_from"} =>
           self.wallet # self.to /\ self.amount > 0,
         self.pc \in {"read_to", "write_from"} => Honest(self.wallet, self.from),
         self.pc = "write_from" => /\ Honest(self.to, self.into)
                                   /\ self.from.available >= self.amount
  PROVE  IInv'
<1>1. TypeOK'
  BY DEF IInv, TypeOK, Become, Data
<1>2. op'[w] = self
  BY DEF IInv, TypeOK, Become
<1>3. ASSUME NEW v \in Workers, v # w
      PROVE  op'[v] = op[v]
  BY <1>3 DEF IInv, TypeOK, Become
<1>4. Consistent'
  <2>1. Sound(w)'
    BY <1>2 DEF Sound, Transferring, Honest, Data
  <2>2. ASSUME NEW v \in Workers, v # w
        PROVE  Sound(v)'
    BY <1>3, <2>2, SoundKept DEF IInv, Consistent
  <2> QED
    BY <2>1, <2>2 DEF IInv, Consistent, Data
<1> QED
  BY <1>1, <1>4, DataUnchanged DEF IInv, Data

\* A wallet a step leaves alone, and one a step commits an operation to.
Untouched(x) == row'[x] = row[x] /\ ledger'[x] = ledger[x]

Committed(x) ==
  \E kind \in Kind, amount \in Nat, ref \in References, note \in {"none", "transfer"} :
    /\ Sufficient(kind, row[x], amount)
    /\ Unused(x, ref)
    /\ row'[x] = After(kind, row[x], amount)
    /\ ledger'[x] = Append(ledger[x], Txn(kind, row[x], amount, ref, note))

\* What a commit makes of one wallet.
LEMMA CommittedWallet ==
  ASSUME IInv, NEW x \in Wallets, Committed(x)
  PROVE  /\ row'[x] \in Snapshot
         /\ row'[x].version = row[x].version + 1
         /\ row'[x].available >= 0 /\ row'[x].held >= 0
         /\ ledger'[x] \in Seq(LedgerRow)
         /\ Chained(row'[x], ledger'[x])
         /\ Distinct(ledger'[x])
<1>1. /\ row[x] \in Snapshot /\ ledger[x] \in Seq(LedgerRow)
      /\ row[x].available >= 0 /\ row[x].held >= 0
      /\ Chained(row[x], ledger[x]) /\ Distinct(ledger[x])
  BY DEF IInv, TypeOK, NonNegative, LedgerChain, ReferencesUnique
<1>2. PICK kind \in Kind, amount \in Nat, ref \in References,
            note \in {"none", "transfer"} :
        /\ Sufficient(kind, row[x], amount)
        /\ Unused(x, ref)
        /\ row'[x] = After(kind, row[x], amount)
        /\ ledger'[x] = Append(ledger[x], Txn(kind, row[x], amount, ref, note))
  BY DEF Committed
<1>3. /\ row'[x] \in Snapshot /\ row'[x].version = row[x].version + 1
  BY <1>1, <1>2, OperationType
<1>4. row'[x].available >= 0 /\ row'[x].held >= 0
  BY <1>1, <1>2, StaysNonNegative
<1>5. /\ ledger'[x] \in Seq(LedgerRow)
      /\ Chained(row'[x], ledger'[x]) /\ Distinct(ledger'[x])
  BY <1>1, <1>2, CommitKeepsLedger DEF Unused
<1> QED
  BY <1>3, <1>4, <1>5

\* A transfer stays sound when others commit: to a wallet it has read, which
\* then has a version it cannot have read, but not to the one it has locked.
LEMMA SoundThroughCommit ==
  ASSUME TypeOK, NEW v \in Workers, Sound(v), op'[v] = op[v],
         created \subseteq created',
         lock[op[v].wallet] = v => lock'[op[v].wallet] = v,
         \A x \in Wallets :
           Untouched(x) \/ (row'[x].version = row[x].version + 1 /\ lock[x] # v)
  PROVE  Sound(v)'
<1> DEFINE self == op[v]
<1>1. self \in Request /\ \A x \in Wallets : row[x] \in Snapshot
  BY DEF TypeOK
<1>2. ASSUME NEW x \in Wallets, NEW read \in Snapshot, Honest(x, read)
      PROVE  Honest(x, read)'
  <2>1. read.version \in Nat /\ row[x].version \in Nat
    BY <1>1 DEF Snapshot
  <2>2. CASE Untouched(x)
    BY <1>2, <2>2 DEF Honest, Untouched
  <2>3. CASE row'[x].version = row[x].version + 1
    BY <1>2, <2>1, <2>3 DEF Honest
  <2> QED
    BY <2>2, <2>3
<1>3. self.pc \in {"read_to", "write_from", "write_to"} => Honest(self.wallet, self.from)'
  BY <1>1, <1>2 DEF Sound, Request
<1>4. self.pc \in {"write_from", "write_to"} =>
        Honest(self.to, self.into)' /\ self.from.available >= self.amount
  BY <1>1, <1>2 DEF Sound, Request
<1>5. self.pc = "write_to" =>
        /\ lock'[self.wallet] = v
        /\ self.from = row'[self.wallet]
        /\ Unused(self.wallet, Reference(self.key, "idem"))'
  BY <1>1 DEF Sound, Request, Untouched, Unused
<1>6. /\ Transferring(v)' => self.wallet # self.to /\ self.amount > 0
      /\ self.pc \notin {"idle", "open"} => {self.wallet, self.to} \subseteq created'
  BY DEF Sound, Transferring
<1> QED
  BY <1>3, <1>4, <1>5, <1>6 DEF Sound, Honest, Unused

\* A request that commits to some of the wallets nobody else has locked, and
\* ends.
LEMMA CommitKeeps ==
  ASSUME IInv, NEW w \in Workers, Done(w),
         UNCHANGED <<created, left>>,
         lock' \in [Wallets -> Workers \cup {Free}],
         \A x \in Wallets : lock[x] # w => lock'[x] = lock[x],
         DOMAIN row' = Wallets, row' = [x \in Wallets |-> row'[x]],
         DOMAIN ledger' = Wallets,
         \A x \in Wallets :
           Untouched(x) \/ (Committed(x) /\ x \in created /\ lock[x] \in {Free, w})
  PROVE  IInv'
<1>1. op' = [op EXCEPT ![w] = Idle(AnyWallet)]
  BY DEF Done, Become
<1>2. Idle(AnyWallet) \in Request /\ Idle(AnyWallet).pc = "idle"
  BY IdleType, AnyWalletType
<1> HIDE DEF Idle
<1>3. ASSUME NEW x \in Wallets
      PROVE  /\ row'[x] \in Snapshot /\ ledger'[x] \in Seq(LedgerRow)
             /\ row'[x].available >= 0 /\ row'[x].held >= 0
             /\ Chained(row'[x], ledger'[x]) /\ Distinct(ledger'[x])
  <2>1. CASE Untouched(x)
    BY <2>1 DEF IInv, TypeOK, NonNegative, LedgerChain, ReferencesUnique, Untouched
  <2>2. CASE Committed(x)
    BY <2>2, CommittedWallet
  <2> QED
    BY <2>1, <2>2
<1>4. TypeOK'
  <2>1. row' \in [Wallets -> Snapshot]
    BY <1>3
  <2>2. op' \in [Workers -> Request]
    BY <1>1, <1>2 DEF IInv, TypeOK
  <2> QED
    BY <1>3, <2>1, <2>2 DEF IInv, TypeOK
<1>5. NonNegative' /\ LedgerChain' /\ ReferencesUnique'
  BY <1>3 DEF NonNegative, LedgerChain, ReferencesUnique
<1>6. Consistent'
  <2>1. ASSUME NEW x \in Wallets \ created
        PROVE  row'[x] = Empty
    BY <2>1 DEF IInv, Consistent, Untouched
  <2>2. Sound(w)'
    <3>1. op'[w].pc = "idle"
      BY <1>1, <1>2 DEF IInv, TypeOK
    <3> QED
      BY <3>1 DEF Sound, Transferring
  <2>3. ASSUME NEW v \in Workers, v # w
        PROVE  Sound(v)'
    <3>1. op'[v] = op[v]
      BY <1>1, <2>3 DEF IInv, TypeOK
    <3>2. lock[op[v].wallet] = v => lock'[op[v].wallet] = v
      BY <2>3 DEF IInv, TypeOK, Request
    <3>3. ASSUME NEW x \in Wallets
          PROVE  Untouched(x) \/ (row'[x].version = row[x].version + 1 /\ lock[x] # v)
      <4>1. CASE Untouched(x)
        BY <4>1
      <4>2. CASE Committed(x) /\ lock[x] \in {Free, w}
        BY <4>2, <2>3, CommittedWallet, WalletConstants
      <4> QED
        BY <4>1, <4>2
    <3> QED
      BY <3>1, <3>2, <3>3, SoundThroughCommit DEF IInv, Consistent
  <2> QED
    BY <2>1, <2>2, <2>3 DEF Consistent
<1> QED
  BY <1>4, <1>5, <1>6 DEF IInv

LEMMA OpenKeeps ==
  ASSUME IInv, NEW w \in Workers, Open(w)
  PROVE  IInv'
<1>1. op[w] \in Request /\ op[w].wallet \in Wallets
  BY DEF IInv, TypeOK, Request
<1>2. row' = row
  <2>1. row[op[w].wallet] = Empty \/ row' = row
    BY <1>1 DEF Open, IInv, Consistent
  <2> QED
    BY <1>1, <2>1 DEF Open, IInv, TypeOK
<1>3. created \subseteq created' /\ created' \subseteq Wallets
  BY <1>1 DEF Open, IInv, TypeOK
<1>4. ledger' = ledger /\ lock' = lock /\ left' = left
  BY DEF Open
<1>5. op' = [op EXCEPT ![w] = Idle(AnyWallet)]
  BY DEF Open, Done, Become
<1>6. Idle(AnyWallet) \in Request /\ Idle(AnyWallet).pc = "idle"
  BY IdleType, AnyWalletType
<1> HIDE DEF Idle
<1>7. TypeOK'
  BY <1>2, <1>3, <1>4, <1>5, <1>6 DEF IInv, TypeOK
<1>8. NonNegative' /\ LedgerChain' /\ ReferencesUnique'
  BY <1>2, <1>4 DEF IInv, NonNegative, LedgerChain, ReferencesUnique
<1>9. Consistent'
  <2>1. Sound(w)'
    <3>1. op'[w].pc = "idle"
      BY <1>5, <1>6 DEF IInv, TypeOK
    <3> QED
      BY <3>1 DEF Sound, Transferring
  <2>2. ASSUME NEW v \in Workers, v # w
        PROVE  Sound(v)'
    <3>1. op'[v] = op[v]
      BY <1>5, <2>2 DEF IInv, TypeOK
    <3> QED
      BY <3>1, <1>2, <1>3, <1>4, SoundThroughCommit DEF IInv, Consistent, Untouched
  <2> QED
    BY <2>1, <2>2, <1>2, <1>3 DEF IInv, Consistent
<1> QED
  BY <1>7, <1>8, <1>9 DEF IInv

LEMMA MutateKeeps ==
  ASSUME IInv, NEW w \in Workers, Mutate(w)
  PROVE  IInv'
<1> DEFINE x == op[w].wallet
           ref == Reference(op[w].key, "idem")
<1>1. /\ x \in Wallets /\ op[w].kind \in Kind /\ op[w].amount \in Nat
      /\ op[w].key \in Keys \cup {NoKey}
  BY DEF IInv, TypeOK, Request
<1>2. ref \in References
  BY <1>1, ReferenceType
<1> HIDE DEF x, ref
<1>3. CASE RolledBack(w)
  BY <1>3, RollbackKeeps
<1>4. CASE ~RolledBack(w)
  <2>1. /\ lock[x] = Free
        /\ Sufficient(op[w].kind, row[x], op[w].amount) /\ Unused(x, ref)
        /\ row' = [row EXCEPT ![x] = After(op[w].kind, row[x], op[w].amount)]
        /\ ledger' = [ledger EXCEPT ![x] =
             Append(@, Txn(op[w].kind, row[x], op[w].amount, ref, "none"))]
        /\ Done(w)
        /\ UNCHANGED <<created, lock, left>>
    BY <1>4 DEF Mutate, x, ref
  <2>2. ASSUME NEW y \in Wallets
        PROVE  Untouched(y) \/ (Committed(y) /\ y = x)
    <3>1. CASE y = x
      BY <3>1, <2>1, <1>1, <1>2 DEF Committed, IInv, TypeOK
    <3>2. CASE y # x
      BY <3>2, <2>1 DEF Untouched, IInv, TypeOK
    <3> QED
      BY <3>1, <3>2
  <2>3. x \in created
    BY <1>4 DEF Mutate, At, IInv, Consistent, Sound, x
  <2>4. /\ DOMAIN row' = Wallets /\ row' = [y \in Wallets |-> row'[y]]
        /\ DOMAIN ledger' = Wallets
        /\ lock' \in [Wallets -> Workers \cup {Free}]
    BY <2>1 DEF IInv, TypeOK
  <2>5. \A y \in Wallets :
          Untouched(y) \/ (Committed(y) /\ y \in created /\ lock[y] \in {Free, w})
    BY <2>2, <2>3, <2>1 DEF Untouched
  <2> QED
    BY <2>1, <2>4, <2>5, CommitKeeps
<1> QED
  BY <1>3, <1>4

LEMMA StartKeeps ==
  ASSUME IInv, NEW w \in Workers, Start(w)
  PROVE  IInv'
<1>1. ASSUME NEW x \in Wallets, OpenStart(w, x)
      PROVE  IInv'
  <2> DEFINE self == [Idle(x) EXCEPT !.pc = "open"]
  <2>1. self \in Request /\ self.pc = "open"
    BY DEF Idle, Request, Kind, Snapshot, Empty
  <2>2. Become(w, self) /\ UNCHANGED <<Data, lock>> /\ left' = left
    BY <1>1 DEF OpenStart, Data
  <2> HIDE DEF self
  <2>3. left' \in Nat
    BY <2>2 DEF IInv, TypeOK
  <2> QED
    BY <2>1, <2>2, <2>3, RequestKeeps
<1>2. ASSUME NEW kind \in Kinds, NEW x \in Wallets, NEW amount \in Amounts,
             NEW key \in Keys \cup {NoKey}, MutateStart(w, kind, x, amount, key)
      PROVE  IInv'
  <2> DEFINE self == [Idle(x) EXCEPT !.pc = "mutate", !.kind = kind,
                                     !.amount = amount, !.key = key]
  <2>1. kind \in Kind /\ amount \in Nat
    BY WalletConstants
  <2>2. self \in Request /\ self.pc = "mutate" /\ self.wallet = x /\ self.to = x
    <3>1. Idle(x) \in Request /\ Idle(x).wallet = x /\ Idle(x).to = x
      BY IdleType
    <3> HIDE DEF Idle
    <3> QED
      BY <2>1, <3>1 DEF Request
  <2>3. Become(w, self) /\ UNCHANGED <<Data, lock>> /\ left' \in Nat /\ x \in created
    BY <1>2 DEF MutateStart, Accept, Data, IInv, TypeOK
  <2> HIDE DEF self
  <2> QED
    BY <2>2, <2>3, RequestKeeps
<1>3. ASSUME NEW a \in Wallets, NEW b \in Wallets, NEW amount \in Amounts,
             NEW key \in Keys \cup {NoKey}, TransferStart(w, a, b, amount, key)
      PROVE  IInv'
  <2> DEFINE self == [Idle(a) EXCEPT !.pc = "read_from", !.to = b,
                                     !.amount = amount, !.key = key]
  <2>1. amount \in Nat /\ amount > 0
    BY WalletConstants
  <2>2. /\ self \in Request /\ self.pc = "read_from" /\ self.wallet = a /\ self.to = b
        /\ self.amount = amount
    <3>1. Idle(a) \in Request /\ Idle(a).wallet = a
      BY IdleType
    <3> HIDE DEF Idle
    <3> QED
      BY <2>1, <3>1 DEF Request
  <2>3. /\ Become(w, self) /\ UNCHANGED <<Data, lock>> /\ left' \in Nat
        /\ a # b /\ {a, b} \subseteq created
    BY <1>3 DEF TransferStart, Accept, Data, IInv, TypeOK
  <2> HIDE DEF self
  <2> QED
    BY <2>1, <2>2, <2>3, RequestKeeps
<1> QED
  BY <1>1, <1>2, <1>3 DEF Start

LEMMA ReadFromKeeps ==
  ASSUME IInv, NEW w \in Workers, ReadFrom(w)
  PROVE  IInv'
<1> DEFINE self == [op[w] EXCEPT !.pc = "read_to", !.from = row[op[w].wallet]]
<1>1. op[w] \in Request /\ row[op[w].wallet] \in Snapshot
  BY DEF IInv, TypeOK, Request
<1>2. /\ self \in Request /\ self.pc = "read_to"
      /\ self.wallet = op[w].wallet /\ self.to = op[w].to
      /\ self.from = row[self.wallet] /\ self.amount = op[w].amount
  BY <1>1 DEF Request
<1>3. /\ self.wallet # self.to /\ {self.wallet, self.to} \subseteq created
      /\ self.amount > 0
  BY <1>2 DEF ReadFrom, At, IInv, Consistent, Sound, Transferring
<1>4. Honest(self.wallet, self.from)
  BY <1>1, <1>2 DEF Honest, Snapshot
<1>5. Become(w, self) /\ UNCHANGED <<Data, lock>> /\ left' \in Nat
  BY DEF ReadFrom, Data, IInv, TypeOK
<1> HIDE DEF self
<1> QED
  BY <1>2, <1>3, <1>4, <1>5, RequestKeeps

LEMMA ReadToKeeps ==
  ASSUME IInv, NEW w \in Workers, ReadTo(w)
  PROVE  IInv'
<1> DEFINE self == [op[w] EXCEPT !.pc = "write_from", !.into = row[op[w].to]]
<1>1. op[w] \in Request /\ row[op[w].to] \in Snapshot
  BY DEF IInv, TypeOK, Request
<1>2. CASE RolledBack(w)
  BY <1>2, RollbackKeeps
<1>3. CASE ~RolledBack(w)
  <2>1. /\ self \in Request /\ self.pc = "write_from"
        /\ self.wallet = op[w].wallet /\ self.to = op[w].to
        /\ self.from = op[w].from /\ self.amount = op[w].amount
        /\ self.into = row[self.to]
    BY <1>1 DEF Request
  <2>2. /\ self.wallet # self.to /\ {self.wallet, self.to} \subseteq created
        /\ Honest(self.wallet, self.from) /\ self.amount > 0
    BY <2>1 DEF ReadTo, At, IInv, Consistent, Sound, Transferring
  <2>3. Honest(self.to, self.into)
    BY <1>1, <2>1 DEF Honest, Snapshot
  <2>4. /\ Become(w, self) /\ UNCHANGED <<Data, lock>> /\ left' \in Nat
        /\ op[w].from.available >= op[w].amount
    BY <1>3 DEF ReadTo, Data, IInv, TypeOK, Sufficient, TakesAvailable
  <2> HIDE DEF self
  <2> QED
    BY <2>1, <2>2, <2>3, <2>4, RequestKeeps
<1> QED
  BY <1>2, <1>3

\* The debit of a transfer: the version matches, so the row it locks is the row
\* it read.
LEMMA WriteFromKeeps ==
  ASSUME IInv, NEW w \in Workers, WriteFrom(w)
  PROVE  IInv'
<1> DEFINE a == op[w].wallet
           self == [op[w] EXCEPT !.pc = "write_to"]
<1>1. op[w] \in Request /\ a \in Wallets /\ At(w, "write_from") /\ Sound(w)
  BY DEF IInv, TypeOK, Request, WriteFrom, Consistent
<1>2. CASE RolledBack(w)
  BY <1>2, RollbackKeeps
<1>3. CASE ~RolledBack(w)
  <2>1. /\ lock[a] = Free
        /\ VersionMatches(a, op[w].from) /\ Unused(a, Reference(op[w].key, "idem"))
        /\ lock' = [lock EXCEPT ![a] = w]
        /\ op' = [op EXCEPT ![w] = self]
        /\ UNCHANGED Data /\ left' = left
    BY <1>3 DEF WriteFrom, Become, Data
  <2>2. self \in Request
    BY <1>1 DEF Request
  <2>3. TypeOK'
    BY <1>1, <2>1, <2>2 DEF IInv, TypeOK, Data
  <2>4. Sound(w)'
    <3>1. op'[w] = self /\ lock'[a] = w
      BY <1>1, <2>1 DEF IInv, TypeOK
    <3>2. /\ self.pc = "write_to" /\ self.wallet = a /\ self.to = op[w].to
          /\ self.from = op[w].from /\ self.into = op[w].into
          /\ self.amount = op[w].amount /\ self.key = op[w].key
      BY <1>1 DEF Request
    <3>3. op[w].from = row[a]
      BY <1>1, <2>1 DEF Sound, Honest, VersionMatches, At
    <3> HIDE DEF self
    <3> QED
      BY <1>1, <2>1, <3>1, <3>2, <3>3
      DEF Sound, Honest, Unused, Data, At, Transferring
  <2>5. ASSUME NEW v \in Workers, v # w
        PROVE  Sound(v)'
    <3>1. op'[v] = op[v]
      BY <2>1, <2>5 DEF IInv, TypeOK
    <3>2. lock[op[v].wallet] = v => lock'[op[v].wallet] = v
      BY <2>1, <2>5, <1>1, WalletConstants DEF IInv, TypeOK, Request
    <3> QED
      BY <3>1, <3>2, <2>1, SoundKept DEF IInv, Consistent
  <2>6. Consistent'
    BY <2>1, <2>4, <2>5 DEF IInv, Consistent, Data
  <2> QED
    BY <2>1, <2>3, <2>6, DataUnchanged DEF IInv
<1> QED
  BY <1>2, <1>3

\* The commit of a transfer: both rows are still as they were read, the debited
\* one because it is locked, the credited one because its version matches.
LEMMA WriteToKeeps ==
  ASSUME IInv, NEW w \in Workers, WriteTo(w)
  PROVE  IInv'
<1> DEFINE a == op[w].wallet
           b == op[w].to
           amount == op[w].amount
           idem == Reference(op[w].key, "idem")
           second == Reference(op[w].key, "credit")
<1>1. /\ op[w] \in Request /\ a \in Wallets /\ b \in Wallets /\ amount \in Nat
      /\ op[w].key \in Keys \cup {NoKey}
  BY DEF IInv, TypeOK, Request
<1>2. CASE RolledBack(w)
  BY <1>2, RollbackKeeps
<1>3. CASE ~RolledBack(w)
  <2>1. /\ lock[b] = Free
        /\ VersionMatches(b, op[w].into) /\ Unused(b, second)
        /\ row' = [x \in Wallets |->
             IF x \notin Legs(w) THEN row[x]
             ELSE IF x = a THEN After("debit", op[w].from, amount)
             ELSE After("credit", op[w].into, amount)]
        /\ ledger' = [x \in Wallets |->
             IF x \notin Legs(w) THEN ledger[x]
             ELSE Append(ledger[x],
                    IF x = a THEN Txn("debit", op[w].from, amount, idem, "transfer")
                    ELSE Txn("credit", op[w].into, amount, second, "transfer"))]
        /\ Done(w) /\ lock' = Unlocked(w)
        /\ UNCHANGED <<created, left>>
    BY <1>3 DEF WriteTo
  <2>2. /\ a # b /\ {a, b} \subseteq created /\ lock[a] = w
        /\ op[w].from = row[a] /\ Unused(a, idem)
        /\ op[w].from.available >= amount /\ amount > 0
        /\ Honest(b, op[w].into)
    BY DEF WriteTo, At, IInv, Consistent, Sound, Transferring
  <2>3. op[w].into = row[b]
    BY <2>1, <2>2 DEF Honest, VersionMatches
  <2>4. idem \in References /\ second \in References
    BY <1>1, ReferenceType
  <2>5. Legs(w) = {a, b}
    BY DEF Legs
  <2> HIDE DEF a, b, amount, idem, second
  <2>6. Committed(a)
    <3>1. Sufficient("debit", row[a], amount)
      BY <2>2 DEF Sufficient, TakesAvailable, TakesHeld
    <3>2. /\ row'[a] = After("debit", row[a], amount)
          /\ ledger'[a] = Append(ledger[a], Txn("debit", row[a], amount, idem, "transfer"))
      BY <1>1, <2>1, <2>2, <2>5
    <3>3. "debit" \in Kind
      BY DEF Kind
    <3> QED
      BY <3>1, <3>2, <3>3, <1>1, <2>2, <2>4 DEF Committed
  <2>7. Committed(b)
    <3>1. Sufficient("credit", row[b], amount)
      BY <2>2 DEF Sufficient, TakesAvailable, TakesHeld
    <3>2. /\ row'[b] = After("credit", row[b], amount)
          /\ ledger'[b] = Append(ledger[b], Txn("credit", row[b], amount, second, "transfer"))
      BY <1>1, <2>1, <2>2, <2>3, <2>5
    <3>3. "credit" \in Kind
      BY DEF Kind
    <3> QED
      BY <3>1, <3>2, <3>3, <1>1, <2>1, <2>4 DEF Committed
  <2>8. ASSUME NEW x \in Wallets, x \notin {a, b}
        PROVE  Untouched(x)
    BY <2>1, <2>5, <2>8 DEF Untouched
  <2>9. \A x \in Wallets :
          Untouched(x) \/ (Committed(x) /\ x \in created /\ lock[x] \in {Free, w})
    BY <2>1, <2>2, <2>6, <2>7, <2>8
  <2>10. /\ DOMAIN row' = Wallets /\ row' = [x \in Wallets |-> row'[x]]
         /\ DOMAIN ledger' = Wallets
    BY <2>1
  <2>11. /\ lock' \in [Wallets -> Workers \cup {Free}]
         /\ \A x \in Wallets : lock[x] # w => lock'[x] = lock[x]
    BY <2>1 DEF Unlocked, IInv, TypeOK
  <2> QED
    BY <2>1, <2>9, <2>10, <2>11, CommitKeeps
<1> QED
  BY <1>2, <1>3

-----------------------------------------------------------------------------
\* The theorems.

LEMMA NextKeeps == IInv /\ [Next]_vars => IInv'
<1> SUFFICES ASSUME IInv, [Next]_vars PROVE IInv'
  OBVIOUS
<1>1. ASSUME NEW w \in Workers, Start(w) PROVE IInv'
  BY <1>1, StartKeeps
<1>2. ASSUME NEW w \in Workers, Step(w) PROVE IInv'
  BY <1>2, OpenKeeps, MutateKeeps, ReadFromKeeps, ReadToKeeps, WriteFromKeeps,
     WriteToKeeps, RollbackKeeps DEF Step, DeadlockDetected
<1>3. ASSUME NEW w \in Workers, Abort(w) PROVE IInv'
  BY <1>3, RollbackKeeps DEF Abort
<1>4. CASE UNCHANGED vars
  <2>1. UNCHANGED Data /\ lock' = lock /\ op' = op /\ left' = left
    BY <1>4 DEF vars, Data
  <2>2. TypeOK'
    BY <2>1 DEF IInv, TypeOK, Data
  <2>3. Consistent'
    <3>1. ASSUME NEW v \in Workers PROVE Sound(v)'
      BY <2>1, SoundKept DEF IInv, Consistent
    <3> QED
      BY <2>1, <3>1 DEF IInv, Consistent, Data
  <2> QED
    BY <2>1, <2>2, <2>3, DataUnchanged DEF IInv
<1> QED
  BY <1>1, <1>2, <1>3, <1>4 DEF Next

\* The inductive invariant.
THEOREM Invariant == Spec => []IInv
  BY InitInv, NextKeeps, PTL DEF Spec

\* Every table, lock and request of WalletService keeps its shape.
THEOREM TypeCorrect == Spec => []TypeOK
<1>1. IInv => TypeOK
  BY DEF IInv
<1> QED
  BY <1>1, Invariant, PTL

\* mutate and transfer never overdraw a wallet, with any number of requests,
\* whatever they interleave with and wherever they fail.
THEOREM NeverNegative == Spec => []NonNegative
<1>1. IInv => NonNegative
  BY DEF IInv
<1> QED
  BY <1>1, Invariant, PTL

\* persistOp keeps wallets.balance_amount, version and the ledger in step: no
\* committed movement is lost.
THEOREM LedgerIsAChain == Spec => []LedgerChain
<1>1. IInv => LedgerChain
  BY DEF IInv
<1> QED
  BY <1>1, Invariant, PTL

\* mutate and transfer apply a keyed request to a wallet at most once.
THEOREM AppliedOnce == Spec => []ReferencesUnique
<1>1. IInv => ReferencesUnique
  BY DEF IInv
<1> QED
  BY <1>1, Invariant, PTL

\* The ledger can be trusted: what persistOp and the checks of mutate and transfer
\* promise together.
THEOREM LedgerIsSound == Spec => []LedgerSound
<1>1. IInv => LedgerSound
  BY DEF IInv, LedgerSound
<1> QED
  BY <1>1, Invariant, PTL

\* A transfer that is about to commit its debit holds the lock of a row that
\* nobody changed since it read it.
THEOREM TransfersSound == Spec => []Consistent
<1>1. IInv => Consistent
  BY DEF IInv
<1> QED
  BY <1>1, Invariant, PTL

-----------------------------------------------------------------------------
\* Sums over the ledger.

\* What a step writes to a wallet, as one operation on it.
Writes(x, kind, amount, note) ==
  \E ref \in References :
    /\ row'[x] = After(kind, row[x], amount)
    /\ ledger'[x] = Append(ledger[x], Txn(kind, row[x], amount, ref, note))

\* A single-wallet operation, and a transfer, as they change the tables.
Operation ==
  \E x \in Wallets, kind \in Kind, amount \in Nat :
    /\ Writes(x, kind, amount, "none")
    /\ \A y \in Wallets \ {x} : Untouched(y)

Transfer ==
  \E a \in Wallets, b \in Wallets, amount \in Nat :
    /\ a # b
    /\ Writes(a, "debit", amount, "transfer")
    /\ Writes(b, "credit", amount, "transfer")
    /\ \A y \in Wallets \ {a, b} : Untouched(y)

LEMMA MutateWrites ==
  ASSUME IInv, NEW w \in Workers, Mutate(w), ~RolledBack(w)
  PROVE  Operation
<1> DEFINE x == op[w].wallet
           ref == Reference(op[w].key, "idem")
<1>1. /\ x \in Wallets /\ op[w].kind \in Kind /\ op[w].amount \in Nat
      /\ op[w].key \in Keys \cup {NoKey} /\ ref \in References
  BY ReferenceType DEF IInv, TypeOK, Request
<1>2. /\ row' = [row EXCEPT ![x] = After(op[w].kind, row[x], op[w].amount)]
      /\ ledger' = [ledger EXCEPT ![x] =
           Append(@, Txn(op[w].kind, row[x], op[w].amount, ref, "none"))]
  BY DEF Mutate
<1> HIDE DEF x, ref
<1>3. Writes(x, op[w].kind, op[w].amount, "none")
  BY <1>1, <1>2 DEF Writes, IInv, TypeOK
<1>4. \A y \in Wallets \ {x} : Untouched(y)
  BY <1>2 DEF Untouched, IInv, TypeOK
<1> QED
  BY <1>1, <1>3, <1>4 DEF Operation

\* Both rows are still as the transfer read them, as in WriteToKeeps.
LEMMA WriteToWrites ==
  ASSUME IInv, NEW w \in Workers, WriteTo(w), ~RolledBack(w)
  PROVE  Transfer
<1> DEFINE a == op[w].wallet
           b == op[w].to
           amount == op[w].amount
           idem == Reference(op[w].key, "idem")
           second == Reference(op[w].key, "credit")
<1>1. /\ op[w] \in Request /\ a \in Wallets /\ b \in Wallets /\ amount \in Nat
      /\ idem \in References /\ second \in References
  BY ReferenceType DEF IInv, TypeOK, Request
<1>2. /\ VersionMatches(b, op[w].into)
      /\ row' = [x \in Wallets |->
             IF x \notin Legs(w) THEN row[x]
             ELSE IF x = a THEN After("debit", op[w].from, amount)
             ELSE After("credit", op[w].into, amount)]
      /\ ledger' = [x \in Wallets |->
             IF x \notin Legs(w) THEN ledger[x]
             ELSE Append(ledger[x],
                    IF x = a THEN Txn("debit", op[w].from, amount, idem, "transfer")
                    ELSE Txn("credit", op[w].into, amount, second, "transfer"))]
  BY DEF WriteTo
<1>3. a # b /\ op[w].from = row[a] /\ Honest(b, op[w].into)
  BY DEF WriteTo, At, IInv, Consistent, Sound, Transferring
<1>4. op[w].into = row[b] /\ Legs(w) = {a, b}
  BY <1>2, <1>3 DEF Honest, VersionMatches, Legs
<1> HIDE DEF a, b, amount, idem, second
<1>5. /\ row'[a] = After("debit", row[a], amount)
      /\ ledger'[a] = Append(ledger[a], Txn("debit", row[a], amount, idem, "transfer"))
  BY <1>1, <1>2, <1>3, <1>4
<1>6. /\ row'[b] = After("credit", row[b], amount)
      /\ ledger'[b] = Append(ledger[b], Txn("credit", row[b], amount, second, "transfer"))
  BY <1>1, <1>2, <1>3, <1>4
<1>7. \A y \in Wallets \ {a, b} : Untouched(y)
  BY <1>2, <1>4 DEF Untouched
<1>8. Writes(a, "debit", amount, "transfer") /\ Writes(b, "credit", amount, "transfer")
  BY <1>1, <1>5, <1>6 DEF Writes
<1> QED
  BY <1>1, <1>3, <1>7, <1>8 DEF Transfer

\* Every step of the service, as it changes the tables.
LEMMA StepWrites ==
  ASSUME IInv, [Next]_vars
  PROVE  (\A x \in Wallets : Untouched(x)) \/ Operation \/ Transfer
<1>1. ASSUME NEW w \in Workers, RolledBack(w)
      PROVE  \A x \in Wallets : Untouched(x)
  BY <1>1 DEF RolledBack, Untouched
<1>2. ASSUME NEW w \in Workers, Start(w)
      PROVE  \A x \in Wallets : Untouched(x)
  BY <1>2 DEF Start, OpenStart, MutateStart, TransferStart, Accept, Untouched
<1>3. ASSUME NEW w \in Workers, Open(w)
      PROVE  \A x \in Wallets : Untouched(x)
  <2>1. op[w].wallet \in Wallets
    BY DEF IInv, TypeOK, Request
  <2>2. row' = row /\ ledger' = ledger
    BY <1>3, <2>1 DEF Open, IInv, Consistent, TypeOK
  <2> QED
    BY <2>2 DEF Untouched
<1>4. ASSUME NEW w \in Workers, ReadFrom(w) \/ ReadTo(w) \/ WriteFrom(w)
      PROVE  \A x \in Wallets : Untouched(x)
  BY <1>4, <1>1 DEF ReadFrom, ReadTo, WriteFrom, Untouched
<1>5. ASSUME NEW w \in Workers, Mutate(w) \/ WriteTo(w)
      PROVE  (\A x \in Wallets : Untouched(x)) \/ Operation \/ Transfer
  BY <1>1, <1>5, MutateWrites, WriteToWrites
<1>6. CASE UNCHANGED vars
  BY <1>6 DEF vars, Untouched
<1>7. CASE Next
  BY <1>1, <1>2, <1>3, <1>4, <1>5, <1>7 DEF Next, Step, DeadlockDetected, Abort
<1> QED
  BY <1>6, <1>7

\* What a row says of the total, and of the money that transfers move.
Changes(rows) == [i \in DOMAIN rows |-> TotalChange(rows[i])]

Net(t) == t.credit - t.debit

Moves(rows) == [i \in DOMAIN rows |-> IF rows[i].description = "transfer" THEN Net(rows[i]) ELSE 0]

Sum(f) == SumOver(f, DOMAIN f)

LEMMA ChangeType ==
  ASSUME NEW t \in LedgerRow
  PROVE  TotalChange(t) \in Int /\ Net(t) \in Int
  BY DEF TotalChange, LedgerRow, Net

\* A row more.
LEMMA SumAppended ==
  ASSUME NEW n \in Nat, NEW f, NEW g, DOMAIN f = 1..n, DOMAIN g = 1..(n + 1),
         \A i \in 1..(n + 1) : g[i] \in Int, \A i \in 1..n : f[i] = g[i]
  PROVE  Sum(g) = Sum(f) + g[n + 1] /\ Sum(f) \in Int
<1>1. IsFiniteSet(1..n) /\ 1..(n + 1) = (1..n) \cup {n + 1} /\ n + 1 \notin 1..n
  <2>1. IsFiniteSet(1..n)
    BY FS_Interval
  <2>2. 1..(n + 1) = (1..n) \cup {n + 1} /\ n + 1 \notin 1..n
    OBVIOUS
  <2> QED
    BY <2>1, <2>2
<1>2. SumOver(g, (1..n) \cup {n + 1}) = SumOver(g, 1..n) + g[n + 1]
  BY <1>1, SumAdd
<1>3. SumOver(f, 1..n) = SumOver(g, 1..n)
  BY <1>1, SumSame
<1>4. SumOver(f, 1..n) \in Int
  BY <1>1, SumType
<1> QED
  BY <1>1, <1>2, <1>3, <1>4 DEF Sum

\* What one operation adds to the total is what its row says.
LEMMA RowExplainsTotal ==
  ASSUME NEW s \in Snapshot, NEW kind \in Kind, NEW amount \in Nat,
         NEW ref \in References, NEW note \in {"none", "transfer"}
  PROVE  After(kind, s, amount).available + After(kind, s, amount).held
           = s.available + s.held + TotalChange(Txn(kind, s, amount, ref, note))
<1>1. CASE kind \in {"credit", "debit", "hold", "collect"}
  BY <1>1 DEF Txn, TxnType, After, Moved, TotalChange, Snapshot, Debits,
              GivesAvailable, TakesAvailable, GivesHeld, TakesHeld
<1>2. CASE kind \in {"release", "unhold", "adjustUp", "adjustDown"}
  BY <1>2 DEF Txn, TxnType, After, Moved, TotalChange, Snapshot, Debits,
              GivesAvailable, TakesAvailable, GivesHeld, TakesHeld
<1> QED
  BY <1>1, <1>2 DEF Kind

\* Both sums, when a wallet is written.
LEMMA WrittenSums ==
  ASSUME TypeOK, NEW x \in Wallets, NEW kind \in Kind, NEW amount \in Nat,
         NEW note \in {"none", "transfer"}, Writes(x, kind, amount, note)
  PROVE  /\ row[x].available + row[x].held = Sum(Changes(ledger[x]))
              => row'[x].available + row'[x].held = Sum(Changes(ledger'[x]))
         /\ Sum(Moves(ledger[x])) \in Int
         /\ Sum(Moves(ledger'[x])) = Sum(Moves(ledger[x]))
              + (IF note = "none" THEN 0 ELSE IF kind \in Debits THEN -amount ELSE amount)
<1>1. row[x] \in Snapshot /\ ledger[x] \in Seq(LedgerRow)
  BY DEF TypeOK
<1>2. PICK ref \in References :
        /\ row'[x] = After(kind, row[x], amount)
        /\ ledger'[x] = Append(ledger[x], Txn(kind, row[x], amount, ref, note))
  BY DEF Writes
<1> DEFINE t == Txn(kind, row[x], amount, ref, note)
           rows == ledger[x]
           more == Append(rows, t)
           n == Len(rows)
<1>3. /\ t \in LedgerRow /\ t.description = note
      /\ Net(t) = IF kind \in Debits THEN -amount ELSE amount
  <2>1. t \in LedgerRow
    BY <1>1, OperationType
  <2>2. /\ t.description = note
        /\ t.debit = IF kind \in Debits THEN amount ELSE 0
        /\ t.credit = IF kind \in Debits THEN 0 ELSE amount
    BY DEF Txn
  <2> HIDE DEF t
  <2> QED
    BY <2>1, <2>2 DEF Net
<1>4. /\ row'[x].available + row'[x].held = row[x].available + row[x].held + TotalChange(t)
      /\ row[x].available \in Int /\ row[x].held \in Int /\ TotalChange(t) \in Int
      /\ row'[x].available \in Int /\ row'[x].held \in Int
  <2>1. row'[x] \in Snapshot
    BY <1>1, <1>2, OperationType
  <2>2. TotalChange(t) \in Int
    BY <1>3, ChangeType
  <2>3. row'[x].available + row'[x].held = row[x].available + row[x].held + TotalChange(t)
    BY <1>1, <1>2, RowExplainsTotal
  <2> HIDE DEF t
  <2> QED
    BY <1>1, <2>1, <2>2, <2>3 DEF Snapshot
<1> HIDE DEF t
<1>5. /\ more \in Seq(LedgerRow) /\ Len(more) = n + 1 /\ more[n + 1] = t
      /\ \A i \in 1..n : more[i] = rows[i]
  BY <1>1, <1>3, AppendFacts
<1>6. n \in Nat /\ DOMAIN rows = 1..n /\ DOMAIN more = 1..(n + 1)
  BY <1>1, <1>5
<1> HIDE DEF more, rows, n
<1>7. \A i \in 1..(n + 1) : more[i] \in LedgerRow
  BY <1>5, <1>6
<1>8. \A i \in 1..(n + 1) : TotalChange(more[i]) \in Int /\ Net(more[i]) \in Int
  BY <1>7, ChangeType
<1>9. /\ Sum(Changes(more)) = Sum(Changes(rows)) + TotalChange(t)
      /\ Sum(Changes(rows)) \in Int
  <2>1. /\ DOMAIN Changes(more) = 1..(n + 1) /\ DOMAIN Changes(rows) = 1..n
        /\ \A i \in 1..(n + 1) : Changes(more)[i] = TotalChange(more[i])
        /\ \A i \in 1..n : Changes(rows)[i] = TotalChange(rows[i])
    BY <1>6 DEF Changes
  <2>2. /\ \A i \in 1..(n + 1) : Changes(more)[i] \in Int
        /\ \A i \in 1..n : Changes(rows)[i] = Changes(more)[i]
    BY <1>5, <1>6, <1>8, <2>1
  <2>3. Changes(more)[n + 1] = TotalChange(t)
    BY <1>5, <1>6, <2>1
  <2> QED
    BY <1>6, <2>1, <2>2, <2>3, SumAppended
<1>10. /\ Sum(Moves(more)) = Sum(Moves(rows)) + (IF note = "none" THEN 0 ELSE Net(t))
       /\ Sum(Moves(rows)) \in Int
  <2>1. /\ DOMAIN Moves(more) = 1..(n + 1) /\ DOMAIN Moves(rows) = 1..n
        /\ \A i \in 1..(n + 1) :
             Moves(more)[i] = IF more[i].description = "transfer" THEN Net(more[i]) ELSE 0
        /\ \A i \in 1..n :
             Moves(rows)[i] = IF rows[i].description = "transfer" THEN Net(rows[i]) ELSE 0
    BY <1>6 DEF Moves
  <2>2. /\ \A i \in 1..(n + 1) : Moves(more)[i] \in Int
        /\ \A i \in 1..n : Moves(rows)[i] = Moves(more)[i]
    BY <1>5, <1>6, <1>8, <2>1
  <2>3. Moves(more)[n + 1] = IF note = "none" THEN 0 ELSE Net(t)
    BY <1>3, <1>5, <1>6, <2>1
  <2>4. Sum(Moves(more)) = Sum(Moves(rows)) + Moves(more)[n + 1] /\ Sum(Moves(rows)) \in Int
    BY <1>6, <2>1, <2>2, SumAppended
  <2> QED
    BY <2>3, <2>4
<1>11. ledger'[x] = more /\ ledger[x] = rows
  BY <1>2 DEF more, rows, t
<1>12. row[x].available + row[x].held = Sum(Changes(rows))
         => row'[x].available + row'[x].held = Sum(Changes(more))
  BY <1>4, <1>9
<1> QED
  BY <1>3, <1>10, <1>11, <1>12

LEMMA MovesType ==
  ASSUME NEW rows \in Seq(LedgerRow)
  PROVE  Sum(Moves(rows)) \in Int
<1>1. DOMAIN rows = 1..Len(rows) /\ Len(rows) \in Nat /\ \A i \in 1..Len(rows) : rows[i] \in LedgerRow
  OBVIOUS
<1>2. IsFiniteSet(1..Len(rows))
  BY <1>1, FS_Interval
<1>3. DOMAIN Moves(rows) = 1..Len(rows) /\ \A i \in 1..Len(rows) : Moves(rows)[i] \in Int
  BY <1>1, ChangeType DEF Moves
<1> QED
  BY <1>2, <1>3, SumType DEF Sum

\* The same, for the transfers alone.
LEMMA WrittenMoves ==
  ASSUME TypeOK, NEW x \in Wallets, NEW kind \in Kind, NEW amount \in Nat,
         NEW note \in {"none", "transfer"}, Writes(x, kind, amount, note)
  PROVE  /\ Sum(Moves(ledger[x])) \in Int
         /\ note = "none" => Sum(Moves(ledger'[x])) = Sum(Moves(ledger[x]))
         /\ note = "transfer" =>
              Sum(Moves(ledger'[x])) = Sum(Moves(ledger[x]))
                + (IF kind \in Debits THEN -amount ELSE amount)
  BY WrittenSums

-----------------------------------------------------------------------------
\* The sums of the properties are these sums.

LEMMA ChangesOf ==
  ASSUME NEW rows
  PROVE  MapThenSumSet(LAMBDA i : TotalChange(rows[i]), DOMAIN rows) = Sum(Changes(rows))
<1> DEFINE S == DOMAIN rows
           f == [i \in S |-> TotalChange(rows[i])]
           step(g, s) == IF s = {} THEN 0 ELSE TotalChange(rows[Chosen(s)]) + g[s \ {Chosen(s)}]
           sums == CHOOSE g : g = [s \in SUBSET S |-> step(g, s)]
<1>1. MapThenSumSet(LAMBDA i : TotalChange(rows[i]), S) = sums[S]
  BY Zenon DEF MapThenSumSet, MapThenFoldSet, Chosen
<1>2. \A g : \A s \in SUBSET S : step(g, s) = SumStep(f, s, g)
  BY ChosenIn DEF SumStep
<1>3. f = Changes(rows) /\ DOMAIN f = S
  BY DEF Changes
<1> HIDE DEF step, f
<1>4. \A g : (g = [s \in SUBSET S |-> step(g, s)]) <=> Summation(f, g, S)
  BY <1>2 DEF Summation
<1>5. sums = PartSums(f, S)
  BY <1>4 DEF PartSums
<1> QED
  BY <1>1, <1>3, <1>5, SumIsPartSums DEF Sum

\* The rows of transfers.
MoveRows(rows) == {i \in DOMAIN rows : rows[i].description = "transfer"}

LEMMA MovesOf ==
  ASSUME NEW rows \in Seq(LedgerRow)
  PROVE  MapThenSumSet(LAMBDA i : rows[i].credit - rows[i].debit, MoveRows(rows))
           = Sum(Moves(rows))
<1> DEFINE S == MoveRows(rows)
           f == [i \in S |-> rows[i].credit - rows[i].debit]
           step(g, s) == IF s = {} THEN 0
                         ELSE (rows[Chosen(s)].credit - rows[Chosen(s)].debit)
                                + g[s \ {Chosen(s)}]
           sums == CHOOSE g : g = [s \in SUBSET S |-> step(g, s)]
<1>1. MapThenSumSet(LAMBDA i : rows[i].credit - rows[i].debit, S) = sums[S]
  BY Zenon DEF MapThenSumSet, MapThenFoldSet, Chosen
<1>2. \A g : \A s \in SUBSET S : step(g, s) = SumStep(f, s, g)
  BY ChosenIn DEF SumStep
<1>3. /\ IsFiniteSet(DOMAIN rows) /\ S \in SUBSET DOMAIN rows
      /\ \A i \in S : f[i] \in Int
      /\ Kept(f, DOMAIN rows, S) = Moves(rows) /\ DOMAIN Moves(rows) = DOMAIN rows
  <2>1. DOMAIN rows = 1..Len(rows) /\ Len(rows) \in Nat
    OBVIOUS
  <2>2. IsFiniteSet(1..Len(rows))
    BY <2>1, FS_Interval
  <2>3. \A i \in DOMAIN rows : rows[i] \in LedgerRow
    OBVIOUS
  <2>4. \A i \in S : f[i] = Net(rows[i])
    BY DEF Net
  <2>5. S \in SUBSET DOMAIN rows
    BY DEF MoveRows
  <2>6. \A i \in S : f[i] \in Int
    BY <2>3, <2>4, <2>5, ChangeType
  <2> HIDE DEF f
  <2>7. Kept(f, DOMAIN rows, S) = Moves(rows)
    BY <2>4 DEF Kept, Moves, MoveRows
  <2>8. DOMAIN Moves(rows) = DOMAIN rows
    BY DEF Moves
  <2> QED
    BY <2>1, <2>2, <2>5, <2>6, <2>7, <2>8
<1> HIDE DEF step, f, S
<1>4. \A g : (g = [s \in SUBSET S |-> step(g, s)]) <=> Summation(f, g, S)
  BY <1>2 DEF Summation
<1>5. sums = PartSums(f, S)
  BY <1>4 DEF PartSums
<1>6. SumOver(f, S) = SumOver(Kept(f, DOMAIN rows, S), DOMAIN rows)
  BY <1>3, SumKept
<1> QED
  BY <1>1, <1>3, <1>5, <1>6, SumIsPartSums DEF Sum, S

\* What the transfers did to each wallet.
NetOf == [x \in Wallets |-> Sum(Moves(ledger[x]))]

\* The sum over all wallets that the property writes is this one's.
LEMMA BalanceOf ==
  ASSUME TypeOK
  PROVE  TransfersBalance <=> SumOver(NetOf, Wallets) = 0
<1> DEFINE net(x) == MapThenSumSet(LAMBDA i : ledger[x][i].credit - ledger[x][i].debit,
                       {i \in DOMAIN ledger[x] : ledger[x][i].description = "transfer"})
           step(g, s) == IF s = {} THEN 0 ELSE net(Chosen(s)) + g[s \ {Chosen(s)}]
           sums == CHOOSE g : g = [s \in SUBSET Wallets |-> step(g, s)]
<1>1. TransfersBalance <=> sums[Wallets] = 0
  BY Zenon DEF TransfersBalance, MapThenSumSet, MapThenFoldSet, Chosen
<1>2. ASSUME NEW x \in Wallets PROVE net(x) = NetOf[x]
  <2>1. ledger[x] \in Seq(LedgerRow)
    BY DEF TypeOK
  <2>2. net(x) = Sum(Moves(ledger[x]))
    BY <2>1, MovesOf DEF MoveRows
  <2> QED
    BY <2>2 DEF NetOf
<1> HIDE DEF net
<1>3. \A g : \A s \in SUBSET Wallets : step(g, s) = SumStep(NetOf, s, g)
  BY <1>2, ChosenIn DEF SumStep
<1> HIDE DEF step
<1>4. \A g : (g = [s \in SUBSET Wallets |-> step(g, s)]) <=> Summation(NetOf, g, Wallets)
  BY <1>3 DEF Summation
<1>5. sums = PartSums(NetOf, Wallets)
  BY <1>4 DEF PartSums
<1> QED
  BY <1>1, <1>5, SumIsPartSums

LEMMA TotalsOf ==
  LedgerExplainsTotal
    <=> \A x \in Wallets : row[x].available + row[x].held = Sum(Changes(ledger[x]))
<1>1. ASSUME NEW x \in Wallets
      PROVE  MapThenSumSet(LAMBDA i : TotalChange(ledger[x][i]), DOMAIN ledger[x])
               = Sum(Changes(ledger[x]))
  BY ChangesOf
<1> QED
  BY <1>1, Zenon DEF LedgerExplainsTotal

\* The invariant of the sums.
SumsAgree ==
  /\ \A x \in Wallets : row[x].available + row[x].held = Sum(Changes(ledger[x]))
  /\ SumOver(NetOf, Wallets) = 0

LEMMA SumsInit == Init => SumsAgree
<1> SUFFICES ASSUME Init PROVE SumsAgree
  OBVIOUS
<1>1. ASSUME NEW x \in Wallets
      PROVE  Sum(Changes(ledger[x])) = 0 /\ Sum(Moves(ledger[x])) = 0
  <2>1. ledger[x] = << >>
    BY DEF Init
  <2>2. DOMAIN Changes(ledger[x]) = {} /\ DOMAIN Moves(ledger[x]) = {}
    BY <2>1 DEF Changes, Moves
  <2> QED
    BY <2>2, SumEmpty DEF Sum
<1>2. \A x \in Wallets : row[x].available + row[x].held = 0
  BY DEF Init, Empty
<1>3. SumOver(NetOf, Wallets) = 0
  <2> DEFINE none == {}
             f == [x \in Wallets |-> 0]
             zeros == Kept(f, Wallets, none)
  <2>1. SumOver(f, none) = SumOver(zeros, Wallets)
    BY FiniteWallets, SumKept
  <2>2. SumOver(f, none) = 0
    BY SumEmpty
  <2>3. \A x \in Wallets : NetOf[x] = zeros[x]
    BY <1>1 DEF NetOf, Kept
  <2> HIDE DEF f, none
  <2>4. SumOver(NetOf, Wallets) = SumOver(zeros, Wallets)
    BY <2>3, FiniteWallets, SumSame
  <2> QED
    BY <2>1, <2>2, <2>4
<1> QED
  BY <1>1, <1>2, <1>3 DEF SumsAgree

\* What leaves a wallet alone leaves its sums, and an operation moves nothing
\* between wallets.
LEMMA OperationSums ==
  ASSUME TypeOK, SumsAgree, Operation \/ \A x \in Wallets : Untouched(x)
  PROVE  SumsAgree'
<1>1. ASSUME NEW x \in Wallets, Untouched(x)
      PROVE  /\ row'[x].available + row'[x].held = Sum(Changes(ledger'[x]))
             /\ Sum(Moves(ledger'[x])) = Sum(Moves(ledger[x]))
  BY <1>1 DEF SumsAgree, Untouched
<1>2. ASSUME NEW x \in Wallets, NEW kind \in Kind, NEW amount \in Nat,
             Writes(x, kind, amount, "none")
      PROVE  /\ row'[x].available + row'[x].held = Sum(Changes(ledger'[x]))
             /\ Sum(Moves(ledger'[x])) = Sum(Moves(ledger[x]))
  BY <1>2, WrittenSums DEF SumsAgree
<1>3. ASSUME NEW x \in Wallets
      PROVE  /\ row'[x].available + row'[x].held = Sum(Changes(ledger'[x]))
             /\ Sum(Moves(ledger'[x])) = Sum(Moves(ledger[x]))
  BY <1>1, <1>2 DEF Operation
<1>4. SumOver(NetOf', Wallets) = SumOver(NetOf, Wallets)
  <2>1. \A x \in Wallets : NetOf'[x] = NetOf[x]
    BY <1>3 DEF NetOf
  <2> QED
    BY <2>1, FiniteWallets, SumSame
<1> QED
  BY <1>3, <1>4 DEF SumsAgree

\* A transfer takes from one wallet what it gives to another.
LEMMA TransferSums ==
  ASSUME TypeOK, SumsAgree, Transfer
  PROVE  SumsAgree'
<1>1. PICK a \in Wallets, b \in Wallets, amount \in Nat :
        /\ a # b
        /\ Writes(a, "debit", amount, "transfer")
        /\ Writes(b, "credit", amount, "transfer")
        /\ \A y \in Wallets \ {a, b} : Untouched(y)
  BY DEF Transfer
<1>2. "debit" \in Kind /\ "credit" \in Kind /\ "debit" \in Debits /\ "credit" \notin Debits
  BY DEF Kind, Debits
<1>3. ASSUME NEW x \in Wallets
      PROVE  row'[x].available + row'[x].held = Sum(Changes(ledger'[x]))
  <2>1. CASE x = a
    BY <1>1, <1>2, <2>1, WrittenSums DEF SumsAgree
  <2>2. CASE x = b
    BY <1>1, <1>2, <2>2, WrittenSums DEF SumsAgree
  <2>3. CASE x \notin {a, b}
    BY <1>1, <2>3 DEF Untouched, SumsAgree
  <2> QED
    BY <2>1, <2>2, <2>3
<1>4. SumOver(NetOf', Wallets) = 0
  <2>1. /\ NetOf'[a] = NetOf[a] - amount
        /\ NetOf'[b] = NetOf[b] + amount
        /\ \A x \in Wallets \ {a, b} : NetOf'[x] = NetOf[x]
    <3>1. Sum(Moves(ledger'[a])) = Sum(Moves(ledger[a])) + (-amount)
      BY <1>1, <1>2, WrittenMoves
    <3>2. Sum(Moves(ledger'[b])) = Sum(Moves(ledger[b])) + amount
      BY <1>1, <1>2, WrittenMoves
    <3>3. \A x \in Wallets \ {a, b} : ledger'[x] = ledger[x]
      BY <1>1 DEF Untouched
    <3>4. Sum(Moves(ledger[a])) \in Int
      BY <1>1, <1>2, WrittenMoves
    <3> QED
      BY <3>1, <3>2, <3>3, <3>4 DEF NetOf
  <2>2. \A x \in Wallets : NetOf[x] \in Int /\ NetOf'[x] \in Int
    <3>1. ASSUME NEW x \in Wallets PROVE NetOf[x] \in Int
      BY MovesType DEF TypeOK, NetOf
    <3> QED
      BY <2>1, <3>1
  <2> DEFINE middle == [NetOf EXCEPT ![a] = NetOf[a] - amount]
  <2>3. /\ middle[a] = NetOf[a] - amount
        /\ \A x \in Wallets \ {a} : middle[x] = NetOf[x]
        /\ \A x \in Wallets : middle[x] \in Int
    BY <2>2 DEF NetOf
  <2> HIDE DEF middle
  <2>4. SumOver(middle, Wallets) = SumOver(NetOf, Wallets) + middle[a] - NetOf[a]
    BY <2>2, <2>3, FiniteWallets, SumChange
  <2>5. SumOver(NetOf', Wallets) = SumOver(middle, Wallets) + NetOf'[b] - middle[b]
    <3>1. \A x \in Wallets \ {b} : middle[x] = NetOf'[x]
      BY <2>1, <2>3
    <3> QED
      BY <2>2, <2>3, <3>1, FiniteWallets, SumChange
  <2>6. middle[b] = NetOf[b] /\ NetOf[a] \in Int /\ NetOf[b] \in Int
    BY <1>1, <2>2, <2>3
  <2>7. SumOver(NetOf, Wallets) = 0
    BY DEF SumsAgree
  <2>8. SumOver(middle, Wallets) = -amount
    BY <2>3, <2>4, <2>6, <2>7
  <2> QED
    BY <2>1, <2>5, <2>6, <2>8
<1> QED
  BY <1>3, <1>4 DEF SumsAgree

LEMMA SumsNext == IInv /\ SumsAgree /\ [Next]_vars => SumsAgree'
  BY StepWrites, OperationSums, TransferSums DEF IInv

LEMMA SumsAlways == Spec => [](IInv /\ SumsAgree)
  BY Invariant, SumsInit, SumsNext, PTL DEF Spec

\* The movements that persistOp writes derive the wallet, whichever operations
\* wrote them: available plus held is the sum of their changes of the total.
THEOREM MovementsExplainTotal == Spec => []LedgerExplainsTotal
<1>1. SumsAgree => LedgerExplainsTotal
  BY TotalsOf DEF SumsAgree
<1> QED
  BY <1>1, SumsAlways, PTL

\* transfer commits its debit and its credit together or not at all: over all
\* wallets they cancel out, whatever deadlocks, conflicts and crashes there are.
THEOREM TransfersCancelOut == Spec => []TransfersBalance
<1>1. IInv /\ SumsAgree => TransfersBalance
  BY BalanceOf DEF SumsAgree, IInv
<1> QED
  BY <1>1, SumsAlways, PTL
=============================================================================
