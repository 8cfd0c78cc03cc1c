------------------------------ MODULE Journal ------------------------------
(***************************************************************************)
(* The books: journal entries, their daily numbers, the accounting periods *)
(* of one month and the account balances of each period.  Every posting is *)
(* one READ COMMITTED transaction of several awaited statements, so other  *)
(* requests run between them: what it writes is kept in its request until  *)
(* it commits, and a balance row it has written is locked until then.      *)
(* An entry has two lines of one unit; the entry insert, the rows written  *)
(* after it and the commit are one step, since nothing is read in between. *)
(* The fiscal year exists and is OPEN (no operation closes one); nothing   *)
(* sets LOCKED.                                                            *)
(***************************************************************************)
EXTENDS Integers, Sequences, FiniteSets

CONSTANTS
  Workers,      \* requests and listeners that may be in flight at once
  Payments,     \* SUCCEEDED payments
  Refunds,      \* SUCCEEDED refunds
  NoSource,     \* an entry made by hand, or a reversal
  Days,         \* value dates, all in one calendar month
  DayOf,        \* when each payment and refund completed
  Keys,         \* idempotency keys of reversal requests
  NoKey,        \* not a reversal
  MaxOps,       \* bound: requests and events the services receive
  MaxFaults     \* bound: failed database calls

ASSUME JournalConstants ==
  /\ Days # {}
  /\ DayOf \in [Payments \cup Refunds -> Days]
  /\ Payments \cap Refunds = {}
  /\ NoSource \notin Payments \cup Refunds /\ NoKey \notin Keys
  /\ MaxOps \in Nat /\ MaxFaults \in Nat

VARIABLES
  entries,  \* journal_entries in commit order
  periods,  \* accounting_periods of the month in commit order: their status
  books,    \* account_balances of each period: [Accounts -> totals]
  link,     \* Refund.journalEntryId: [Refunds -> entry or 0]
  op,       \* the request of each worker
  left,     \* requests still to come (bound)
  faults    \* faults still to come (bound)

tables == <<entries, periods, books, link>>
vars == <<tables, op, left, faults>>

Accounts == {"cash", "held"}
Sides == {"debit", "credit"}
Ids == DOMAIN entries

\* A row is created by its first increment, so a row of zeros is an absent row.
Absent == [side \in Sides |-> 0]
NoBook == [a \in Accounts |-> Absent]

Line(account, side) == [account |-> account, side |-> side]
CashIn  == <<Line("cash", "debit"), Line("held", "credit")>>  \* a collected payment
CashOut == <<Line("held", "debit"), Line("cash", "credit")>>  \* its refund

Swapped(line) == Line(line.account, IF line.side = "debit" THEN "credit" ELSE "debit")
Reversed(lines) == [i \in DOMAIN lines |-> Swapped(lines[i])]

Plus(totals, line) == [totals EXCEPT ![line.side] = @ + 1]

\* The period of a request that will create one with its commit.
New == 0

Idle == [pc |-> "idle", kind |-> "collect", source |-> NoSource, entry |-> 0, key |-> NoKey,
         day |-> CHOOSE d \in Days : TRUE, lines |-> << >>, period |-> New, number |-> 0,
         line |-> 1, seen |-> Absent, written |-> NoBook]

Init ==
  /\ entries = << >> /\ link = [r \in Refunds |-> 0]
  /\ \/ periods = << >> /\ books = << >>
     \/ periods = <<"OPEN">> /\ books = <<NoBook>>
  /\ op = [w \in Workers |-> Idle]
  /\ left = MaxOps /\ faults = MaxFaults

At(w, pc) == op[w].pc = pc

Become(w, self) == op' = [op EXCEPT ![w] = self]

Go(w, pc) == Become(w, [op[w] EXCEPT !.pc = pc])

Done(w) == Become(w, Idle)

Accept(w, self) ==
  /\ At(w, "idle") /\ left > 0 /\ left' = left - 1
  /\ Become(w, self)
  /\ UNCHANGED <<tables, faults>>

EntriesFor(s) == {e \in Ids : entries[e].source = s}
WithKey(k) == {e \in Ids : entries[e].key = k}

-----------------------------------------------------------------------------
\* Requests that post lines of their own: the lookups outside the transaction.

CollectStart(w, p) ==
  /\ EntriesFor(p) = {}
  /\ Accept(w, [Idle EXCEPT !.pc = "check", !.kind = "collect", !.source = p,
                            !.day = DayOf[p], !.lines = CashIn])

\* Mutation: the link to the refund's journal is not looked at.
AlwaysUnlinked(r) == TRUE

Unlinked(r) == link[r] = 0

RefundStart(w, r) ==
  /\ Unlinked(r)
  /\ Accept(w, [Idle EXCEPT !.pc = "check", !.kind = "refund", !.source = r,
                            !.day = DayOf[r], !.lines = CashOut])

\* createDraft: any value date, any two accounts.
DraftStart(w, day, lines) ==
  Accept(w, [Idle EXCEPT !.pc = "period", !.kind = "draft", !.day = day, !.lines = lines])

\* A reversal carries the date of the clock, which is any day of the month.
ReverseStart(w, e, k, today) ==
  /\ WithKey(k) = {} /\ entries[e].status = "POSTED"
  /\ Accept(w, [Idle EXCEPT !.pc = "check", !.kind = "reverse", !.entry = e, !.key = k,
                            !.day = today, !.lines = Reversed(entries[e].lines)])

\* The same lookup again, inside the transaction.
AlreadyPosted(self) ==
  CASE self.kind = "collect" -> EntriesFor(self.source) # {}
    [] self.kind = "refund"  -> ~Unlinked(self.source)
    [] OTHER                 -> WithKey(self.key) # {}

Check(w) ==
  /\ At(w, "check")
  /\ IF AlreadyPosted(op[w]) THEN Done(w) ELSE Go(w, "period")
  /\ UNCHANGED <<tables, left, faults>>

-----------------------------------------------------------------------------
\* The transaction: period, number, balances, entry.

OpenPeriods == {p \in DOMAIN periods : periods[p] = "OPEN"}

\* ensureOpenPeriod: an OPEN period of the month or, without one, a new row
\* that commits with the transaction.
EnsurePeriod(w) ==
  /\ At(w, "period")
  /\ \E p \in IF OpenPeriods = {} THEN {New} ELSE OpenPeriods :
       Become(w, [op[w] EXCEPT !.pc = "number", !.period = p])
  /\ UNCHANGED <<tables, left, faults>>

OfDay(day) == {e \in Ids : entries[e].day = day}

\* Mutation: numbers start from the number of all entries.
CountAll(day) == Cardinality(Ids) + 1

NextNumber(day) == Cardinality(OfDay(day)) + 1

TakeNumber(w) ==
  /\ At(w, "number")
  /\ Become(w, [op[w] EXCEPT !.number = NextNumber(op[w].day),
                             !.pc = IF op[w].kind = "draft" THEN "insert" ELSE "read"])
  /\ UNCHANGED <<tables, left, faults>>

Account(self) == self.lines[self.line].account

Balance(account, p) == IF p = New THEN Absent ELSE books[p][account]

ReadBalance(w) ==
  /\ At(w, "read")
  /\ Become(w, [op[w] EXCEPT !.pc = "write", !.seen = Balance(Account(op[w]), op[w].period)])
  /\ UNCHANGED <<tables, left, faults>>

\* v has written the row that w is about to write, and has not committed.
WaitsFor(w, v) ==
  /\ v # w /\ At(w, "write")
  /\ op[w].period # New /\ op[v].period = op[w].period
  /\ op[v].written[Account(op[w])] # Absent

\* The total written is computed from the earlier read, whatever was committed
\* since; creating a row that has appeared since breaks its unique index.
WriteBalance(w) ==
  LET self == op[w]
      account == Account(self) IN
  /\ At(w, "write") /\ \A v \in Workers : ~WaitsFor(w, v)
  /\ IF self.seen = Absent /\ Balance(account, self.period) # Absent THEN Done(w)
     ELSE Become(w, [self EXCEPT
            !.written[account] = Plus(self.seen, self.lines[self.line]),
            !.pc = IF self.line < Len(self.lines) THEN "read" ELSE "insert",
            !.line = @ + 1])
  /\ UNCHANGED <<tables, left, faults>>

\* PostgreSQL ends one of two transactions that wait for each other.
DeadlockDetected(w) ==
  /\ \E v \in Workers : WaitsFor(w, v) /\ WaitsFor(v, w)
  /\ Done(w)
  /\ UNCHANGED <<tables, left, faults>>

NumberFree(day, number) == \A e \in OfDay(day) : entries[e].number # number

PaymentFree(self) == self.source \in Payments => EntriesFor(self.source) = {}

WrittenOver(book, written) ==
  [a \in Accounts |-> IF written[a] = Absent THEN book[a] ELSE written[a]]

\* The balances and a new period become visible.
CommitBooks(self) ==
  IF self.period = New
  THEN /\ periods' = Append(periods, "OPEN")
       /\ books' = Append(books, WrittenOver(NoBook, self.written))
  ELSE /\ books' = [books EXCEPT ![self.period] = WrittenOver(@, self.written)]
       /\ UNCHANGED periods

PeriodOf(self) == IF self.period = New THEN Len(periods) + 1 ELSE self.period

EntryOf(self) ==
  [source |-> self.source, key |-> self.key, kind |-> self.kind, day |-> self.day,
   number |-> self.number, lines |-> self.lines, reverses |-> self.entry,
   status |-> IF self.kind = "draft" THEN "DRAFT" ELSE "POSTED",
   period |-> PeriodOf(self)]

\* The original of a reversal is set VOIDED by id, whatever it has become.
Voided(self) ==
  IF self.kind = "reverse" THEN [entries EXCEPT ![self.entry].status = "VOIDED"] ELSE entries

Insert(w) ==
  LET self == op[w] IN
  /\ At(w, "insert") /\ op[w].kind # "post" /\ Done(w)
  /\ IF NumberFree(self.day, self.number) /\ PaymentFree(self)
     THEN /\ entries' = Append(Voided(self), EntryOf(self))
          /\ CommitBooks(self)
          /\ link' = IF self.kind = "refund" THEN [link EXCEPT ![self.source] = Len(entries) + 1]
                     ELSE link
     ELSE UNCHANGED tables
  /\ UNCHANGED <<left, faults>>

-----------------------------------------------------------------------------
\* postDraft: the status and the lines are read before the transaction.

\* Mutation: a journal that was posted or voided is posted again.
AnyStatus(e) == TRUE

Postable(e) == entries[e].status = "DRAFT"

PostStart(w, e) ==
  /\ Postable(e)
  /\ Accept(w, [Idle EXCEPT !.pc = "post_check", !.kind = "post", !.entry = e,
                            !.lines = entries[e].lines, !.period = entries[e].period])

\* Inside it, only the period is looked at again.
PostCheck(w) ==
  /\ At(w, "post_check")
  /\ IF op[w].period \in OpenPeriods THEN Go(w, "read") ELSE Done(w)
  /\ UNCHANGED <<tables, left, faults>>

PostCommit(w) ==
  /\ At(w, "insert") /\ op[w].kind = "post" /\ Done(w)
  /\ entries' = [entries EXCEPT ![op[w].entry].status = "POSTED"]
  /\ CommitBooks(op[w])
  /\ UNCHANGED <<link, left, faults>>

-----------------------------------------------------------------------------
\* closePeriod, and ensureAt outside any transaction: a read, then a write by id.

CloseStart(w, p) ==
  /\ p \in OpenPeriods
  /\ Accept(w, [Idle EXCEPT !.pc = "close", !.kind = "close", !.period = p])

Close(w) ==
  /\ At(w, "close") /\ Done(w)
  /\ periods' = [periods EXCEPT ![op[w].period] = "CLOSED"]
  /\ UNCHANGED <<entries, books, link, left, faults>>

EnsureStart(w) ==
  /\ OpenPeriods = {}
  /\ Accept(w, [Idle EXCEPT !.pc = "ensure", !.kind = "ensure"])

Ensure(w) ==
  /\ At(w, "ensure") /\ Done(w)
  /\ periods' = Append(periods, "OPEN") /\ books' = Append(books, NoBook)
  /\ UNCHANGED <<entries, link, left, faults>>

\* A call fails or its transaction times out: everything written rolls back.
Abort(w) ==
  /\ ~At(w, "idle") /\ faults > 0 /\ faults' = faults - 1
  /\ Done(w)
  /\ UNCHANGED <<tables, left>>

Post(w) ==
  \/ \E p \in Payments : CollectStart(w, p)
  \/ \E r \in Refunds : RefundStart(w, r)
  \/ \E day \in Days, lines \in {CashIn, CashOut} : DraftStart(w, day, lines)
  \/ \E e \in Ids, k \in Keys, today \in Days : ReverseStart(w, e, k, today)
  \/ \E e \in Ids : PostStart(w, e)
  \/ Check(w) \/ PostCheck(w) \/ EnsurePeriod(w) \/ TakeNumber(w)
  \/ ReadBalance(w) \/ WriteBalance(w) \/ DeadlockDetected(w)
  \/ Insert(w) \/ PostCommit(w)

Next ==
  \E w \in Workers :
    \/ Post(w)
    \/ \E p \in OpenPeriods : CloseStart(w, p)
    \/ Close(w) \/ EnsureStart(w) \/ Ensure(w) \/ Abort(w)

Spec == Init /\ [][Next]_vars
-----------------------------------------------------------------------------
\* Properties.

Kinds == {"collect", "refund", "draft", "reverse", "post", "close", "ensure"}

Totals == [Sides -> Nat]
Books == [Accounts -> Totals]
LinePairs == {CashIn, CashOut, Reversed(CashIn), Reversed(CashOut)}

Entry == [source: Payments \cup Refunds \cup {NoSource}, key: Keys \cup {NoKey}, kind: Kinds,
          day: Days, number: Nat, lines: LinePairs, reverses: Nat,
          status: {"DRAFT", "POSTED", "VOIDED"}, period: Nat]

Request == [pc: {"idle", "check", "period", "number", "read", "write", "insert",
                 "post_check", "close", "ensure"},
            kind: Kinds, source: Payments \cup Refunds \cup {NoSource}, entry: Nat,
            key: Keys \cup {NoKey}, day: Days, lines: LinePairs \cup {<< >>}, period: Nat,
            number: Nat, line: 1..3, seen: Totals, written: Books]

\* Every table and request keeps its shape, a balance row exists only in a
\* period that does, and an entry or a link refers to rows that exist.
TypeOK ==
  /\ entries \in Seq(Entry)
  /\ \A e \in Ids : entries[e].period \in DOMAIN periods /\ entries[e].reverses \in 0..Len(entries)
  /\ periods \in Seq({"OPEN", "CLOSED"})
  /\ books \in Seq(Books) /\ Len(books) = Len(periods)
  /\ link \in [Refunds -> 0..Len(entries)]
  /\ op \in [Workers -> Request]
  /\ \A w \in Workers : op[w].period \in 0..Len(periods) /\ op[w].entry \in 0..Len(entries)
  /\ left \in Nat /\ faults \in Nat

\* The entry numbers of a day are 1, 2, ... without a gap or a repetition,
\* whatever collides, aborts or retries: since the next number is a count, one
\* gap would make every later posting of that day collide for ever.
NumbersDense ==
  \A day \in Days :
    {entries[e].number : e \in OfDay(day)} = 1..Cardinality(OfDay(day))

\* The entries of a period whose lines were applied to its balances.
Applied(p) == {e \in Ids : entries[e].period = p /\ entries[e].status # "DRAFT"}

Has(e, line) == \E i \in DOMAIN entries[e].lines : entries[e].lines[i] = line

\* The balances are what the general ledger adds up to.
BooksAgree ==
  \A p \in DOMAIN periods, a \in Accounts :
    books[p][a] = [side \in Sides |->
                    Cardinality({e \in Applied(p) : Has(e, Line(a, side))})]

\* No two value dates, and no draft posted by hand: every posting so far took
\* its number from one and the same count.
OneDay ==
  /\ \A d, e \in Ids : entries[d].day = entries[e].day
  /\ \A e \in Ids : entries[e].kind = "draft" => entries[e].status = "DRAFT"

\* Postings of one day lose no balance increment, though nothing locks a
\* balance between its read and its write: one that read a stale balance also
\* counted a stale number, and its insert fails.  (Postings of two days that
\* overlap, or a draft posted meanwhile, do lose increments.)
OneDayBooksAgree == OneDay => BooksAgree

Reversals(e) == {d \in Ids : entries[d].reverses = e}

\* Of one payment there is at most one journal, however its event is repeated.
CollectedOnce == \A p \in Payments : Cardinality(EntriesFor(p)) <= 1

\* The books a reader of the journals relies on, whatever requests overlap: no number
\* of a day is missing or used twice, and no payment is journaled twice.
EntriesSound == NumbersDense /\ CollectedOnce

\* A refund has at most the journal it links to, and a journal is VOIDED
\* exactly when one reversal stands against it.
OncePerRefundAndReversal ==
  /\ \A r \in Refunds : EntriesFor(r) = {link[r]} \ {0}
  /\ \A e \in Ids : Cardinality(Reversals(e)) = IF entries[e].status = "VOIDED" THEN 1 ELSE 0

\* A posted journal changes only by becoming VOIDED together with its reversal.
PostedIsImmutable(e) ==
  entries[e].status # "DRAFT" =>
    \/ entries'[e] = entries[e]
    \/ /\ entries[e].status = "POSTED"
       /\ entries'[e] = [entries[e] EXCEPT !.status = "VOIDED"]
       /\ Len(entries') = Len(entries) + 1 /\ entries'[Len(entries')].reverses = e
=============================================================================
