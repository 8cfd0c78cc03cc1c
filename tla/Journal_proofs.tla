---------------------------- MODULE Journal_proofs ----------------------------
(***************************************************************************)
(* Journal for every set of workers, sources, days and keys: the types,    *)
(* the dense daily numbers, the one journal per payment, the balances and  *)
(* what is never changed.  NumbersDense is not inductive: a request        *)
(* carries its number from the count to the insert while others commit.    *)
(* What keeps the numbers dense is that a carried number is at most one    *)
(* above the count (Numbered, and the count never falls), so a number the  *)
(* unique index still accepts is the next.  The balances rest on the same  *)
(* index: a request whose number is still the next one has read balances   *)
(* that are still committed (Current), as long as all is of one day.       *)
(***************************************************************************)
EXTENDS MCJournal, FiniteSetTheorems, SequenceTheorems, TLAPS

Numbers(day) == {entries[e].number : e \in OfDay(day)}

Count(day) == Cardinality(OfDay(day))

Preparing == {"check", "period", "number", "post_check"}
Balancing == {"read", "write"}

\* A request that may still post has lines to post, and stands at one of them.
OnLine(self) ==
  /\ self.pc \in Preparing \cup Balancing => self.lines \in LinePairs
  /\ self.pc \in Preparing => self.line = 1
  /\ self.pc \in Balancing => self.line \in 1..2
  /\ self.pc = "insert" => self.lines \in LinePairs
  /\ self.kind \in {"reverse", "post"} => self.entry \in Ids
  /\ self.pc \in {"check", "period", "number"} => self.kind # "post"
  /\ self.pc = "post_check" => self.kind = "post"

\* A number is taken before it is used, and the count has not fallen since.
Numbered(self) ==
  self.pc \in Balancing \cup {"insert"} /\ self.kind # "post" =>
    self.number \in 1..Count(self.day) + 1

\* The rows a request refers to exist.
Refers(self) ==
  /\ self.period \in 0..Len(periods) /\ self.entry \in 0..Len(entries)
  /\ self.pc = "close" => self.period # 0

Sound(self) == Refers(self) /\ OnLine(self) /\ Numbered(self)

OnePerPayment ==
  \A d, e \in Ids :
    entries[d].source \in Payments /\ entries[d].source = entries[e].source => d = e

IInv ==
  /\ TypeOK /\ NumbersDense /\ OnePerPayment
  /\ \A w \in Workers : Sound(op[w])

-----------------------------------------------------------------------------
\* Appending an element keeps the others and adds one position.
LEMMA AppendFacts ==
  ASSUME NEW S, NEW q \in Seq(S), NEW x \in S
  PROVE  /\ Append(q, x) \in Seq(S)
         /\ Len(Append(q, x)) = Len(q) + 1
         /\ DOMAIN Append(q, x) = DOMAIN q \cup {Len(q) + 1}
         /\ Append(q, x)[Len(q) + 1] = x
         /\ \A i \in DOMAIN q : Append(q, x)[i] = q[i]
         /\ Len(q) + 1 \notin DOMAIN q
  OBVIOUS

\* Replacing an element keeps the positions and the other elements.
LEMMA ReplaceFacts ==
  ASSUME NEW S, NEW q \in Seq(S), NEW i \in DOMAIN q, NEW x \in S
  PROVE  /\ [q EXCEPT ![i] = x] \in Seq(S)
         /\ Len([q EXCEPT ![i] = x]) = Len(q)
         /\ DOMAIN [q EXCEPT ![i] = x] = DOMAIN q
         /\ [q EXCEPT ![i] = x][i] = x
         /\ \A j \in DOMAIN q : j # i => [q EXCEPT ![i] = x][j] = q[j]
<1>1. i \in 1..Len(q)
  OBVIOUS
<1> QED
  BY <1>1, ExceptSeq

LEMMA AbsentType == Absent \in Totals /\ NoBook \in Books
  BY DEF Absent, Totals, NoBook, Books

LEMMA IdleType == Idle \in Request
<1>1. (CHOOSE d \in Days : TRUE) \in Days
  BY JournalConstants
<1> QED
  BY <1>1, AbsentType DEF Idle, Request, Kinds, New

LEMMA IdleFields ==
  Idle.pc = "idle" /\ Idle.kind = "collect" /\ Idle.entry = 0 /\ Idle.period = 0 /\ Idle.line = 1
  BY DEF Idle, New

LEMMA IdleSound ==
  ASSUME Len(periods) \in Nat, Len(entries) \in Nat
  PROVE  Sound(Idle)
  BY DEF Idle, Sound, Refers, OnLine, Numbered, Preparing, Balancing, New

LEMMA PairFacts ==
  ASSUME NEW lines \in LinePairs
  PROVE  /\ DOMAIN lines = 1..2 /\ Len(lines) = 2
         /\ Reversed(lines) \in LinePairs
         /\ \A i \in 1..2 : lines[i].account \in Accounts /\ lines[i].side \in Sides
<1>1. /\ DOMAIN lines = 1..2 /\ Len(lines) = 2
      /\ \A i \in 1..2 : lines[i].account \in Accounts /\ lines[i].side \in Sides
  BY DEF LinePairs, CashIn, CashOut, Reversed, Swapped, Line, Accounts, Sides
<1>2. Reversed(Reversed(CashIn)) = CashIn /\ Reversed(Reversed(CashOut)) = CashOut
  BY DEF CashIn, CashOut, Reversed, Swapped, Line
<1> QED
  BY <1>1, <1>2 DEF LinePairs

LEMMA PlusType ==
  ASSUME NEW t \in Totals, NEW line, line.side \in Sides
  PROVE  Plus(t, line) \in Totals
  BY DEF Totals, Plus, Sides

-----------------------------------------------------------------------------
\* The entries of a day can be counted.
LEMMA CountType ==
  ASSUME TypeOK, NEW day
  PROVE  IsFiniteSet(OfDay(day)) /\ Count(day) \in Nat
<1>1. Ids = 1..Len(entries) /\ Len(entries) \in Nat
  BY DEF TypeOK, Ids
<1>2. IsFiniteSet(Ids)
  BY <1>1, FS_Interval
<1>3. IsFiniteSet(OfDay(day))
  BY <1>2, FS_Subset DEF OfDay
<1> QED
  BY <1>3, FS_CardinalityType DEF Count

\* Steps that only move a request.
LEMMA RequestKeeps ==
  ASSUME IInv, NEW w \in Workers, NEW self \in Request, Become(w, self), Sound(self),
         UNCHANGED tables, left' \in Nat, faults' \in Nat
  PROVE  IInv'
<1>1. op' \in [Workers -> Request] /\ \A v \in Workers : Sound(op'[v])
  BY DEF IInv, TypeOK, Become
<1>2. TypeOK'
  BY <1>1 DEF IInv, TypeOK, tables, Ids, Sound, Refers
<1>3. \A v \in Workers : Sound(op[v])'
  BY <1>1 DEF tables, Sound, Refers, OnLine, Numbered, Count, OfDay, Ids
<1>4. NumbersDense'
  <2>1. entries' = entries
    BY DEF tables
  <2>2. \A day : OfDay(day)' = OfDay(day)
    BY <2>1 DEF OfDay, Ids
  <2>3. ASSUME NEW day \in Days
        PROVE  Numbers(day)' = 1..Cardinality(OfDay(day)')
    BY <2>1, <2>2 DEF IInv, NumbersDense, Numbers
  <2> QED
    BY <2>3 DEF NumbersDense, Numbers
<1> QED
  BY <1>2, <1>3, <1>4 DEF IInv, OnePerPayment, tables, Ids

LEMMA DoneKeeps ==
  ASSUME IInv, NEW w \in Workers, Done(w),
         UNCHANGED tables, left' \in Nat, faults' \in Nat
  PROVE  IInv'
<1>1. Len(periods) \in Nat /\ Len(entries) \in Nat
  BY DEF IInv, TypeOK
<1> QED
  BY <1>1, IdleType, IdleSound, RequestKeeps DEF Done

LEMMA SelfFacts ==
  ASSUME IInv, NEW w \in Workers
  PROVE  op[w] \in Request /\ Sound(op[w])
  BY DEF IInv, TypeOK

LEMMA EntryFacts ==
  ASSUME IInv, NEW e \in Ids
  PROVE  /\ entries[e] \in Entry /\ entries[e].lines \in LinePairs
         /\ entries[e].period \in 1..Len(periods) /\ entries[e].period \in Nat
         /\ e \in 0..Len(entries) /\ e \in Nat
<1>1. entries \in Seq(Entry) /\ periods \in Seq({"OPEN", "CLOSED"})
  BY DEF IInv, TypeOK
<1>2. entries[e] \in Entry /\ e \in 1..Len(entries)
  BY <1>1 DEF Ids
<1>3. entries[e].period \in DOMAIN periods
  BY DEF IInv, TypeOK
<1>4. entries[e].lines \in LinePairs
  BY <1>2 DEF Entry
<1> QED
  BY <1>1, <1>2, <1>3, <1>4

LEMMA StartKeeps ==
  ASSUME IInv, NEW w \in Workers,
         \/ \E p \in Payments : CollectStart(w, p)
         \/ \E r \in Refunds : RefundStart(w, r)
         \/ \E day \in Days, lines \in {CashIn, CashOut} : DraftStart(w, day, lines)
         \/ \E e \in Ids, k \in Keys, today \in Days : ReverseStart(w, e, k, today)
         \/ \E e \in Ids : PostStart(w, e)
         \/ \E p \in OpenPeriods : CloseStart(w, p)
         \/ EnsureStart(w)
  PROVE  IInv'
<1> DEFINE Fits(self) == self \in Request /\ Sound(self)
<1>1. Idle \in Request /\ Len(periods) \in Nat /\ Len(entries) \in Nat
  BY IdleType DEF IInv, TypeOK
<1>2. ASSUME NEW self, Accept(w, self), Fits(self)
      PROVE  IInv'
  BY <1>2, RequestKeeps DEF Accept, IInv, TypeOK
<1> USE DEF Sound, Refers, OnLine, Numbered, Preparing, Balancing
<1>3. ASSUME NEW p \in Payments, CollectStart(w, p) PROVE IInv'
  <2>1. DayOf[p] \in Days /\ CashIn \in LinePairs
    BY JournalConstants DEF LinePairs
  <2>2. Fits([Idle EXCEPT !.pc = "check", !.kind = "collect", !.source = p,
                          !.day = DayOf[p], !.lines = CashIn])
    <3> DEFINE self == [Idle EXCEPT !.pc = "check", !.kind = "collect", !.source = p,
                          !.day = DayOf[p], !.lines = CashIn]
    <3>1. self \in Request
      BY <1>1, <2>1 DEF Request, Kinds
    <3>2. Sound(self)
      BY <1>1, <2>1, IdleFields DEF Request
    <3> QED
      BY <3>1, <3>2
  <2> QED
    BY <1>2, <1>3, <2>2 DEF CollectStart
<1>4. ASSUME NEW r \in Refunds, RefundStart(w, r) PROVE IInv'
  <2>1. DayOf[r] \in Days /\ CashOut \in LinePairs
    BY JournalConstants DEF LinePairs
  <2>2. Fits([Idle EXCEPT !.pc = "check", !.kind = "refund", !.source = r,
                          !.day = DayOf[r], !.lines = CashOut])
    <3> DEFINE self == [Idle EXCEPT !.pc = "check", !.kind = "refund", !.source = r,
                          !.day = DayOf[r], !.lines = CashOut]
    <3>1. self \in Request
      BY <1>1, <2>1 DEF Request, Kinds
    <3>2. Sound(self)
      BY <1>1, <2>1, IdleFields DEF Request
    <3> QED
      BY <3>1, <3>2
  <2> QED
    BY <1>2, <1>4, <2>2 DEF RefundStart
<1>5. ASSUME NEW day \in Days, NEW lines \in {CashIn, CashOut}, DraftStart(w, day, lines)
      PROVE  IInv'
  <2>1. lines \in LinePairs
    BY DEF LinePairs
  <2>2. Fits([Idle EXCEPT !.pc = "period", !.kind = "draft", !.day = day, !.lines = lines])
    <3> DEFINE self == [Idle EXCEPT !.pc = "period", !.kind = "draft", !.day = day, !.lines = lines]
    <3>1. self \in Request
      BY <1>1, <2>1 DEF Request, Kinds
    <3>2. Sound(self)
      BY <1>1, <2>1, IdleFields DEF Request
    <3> QED
      BY <3>1, <3>2
  <2> QED
    BY <1>2, <1>5, <2>2 DEF DraftStart
<1>6. ASSUME NEW e \in Ids, NEW k \in Keys, NEW today \in Days, ReverseStart(w, e, k, today)
      PROVE  IInv'
  <2>1. e \in Nat /\ e \in 0..Len(entries) /\ Reversed(entries[e].lines) \in LinePairs
    BY EntryFacts, PairFacts
  <2>2. Fits([Idle EXCEPT !.pc = "check", !.kind = "reverse", !.entry = e, !.key = k,
                          !.day = today, !.lines = Reversed(entries[e].lines)])
    <3> DEFINE self == [Idle EXCEPT !.pc = "check", !.kind = "reverse", !.entry = e, !.key = k,
                          !.day = today, !.lines = Reversed(entries[e].lines)]
    <3>1. self \in Request
      BY <1>1, <2>1 DEF Request, Kinds
    <3>2. Sound(self)
      BY <1>1, <2>1, IdleFields DEF Request
    <3> QED
      BY <3>1, <3>2
  <2> QED
    BY <1>2, <1>6, <2>2 DEF ReverseStart
<1>7. ASSUME NEW e \in Ids, PostStart(w, e) PROVE IInv'
  <2>2. Fits([Idle EXCEPT !.pc = "post_check", !.kind = "post", !.entry = e,
                          !.lines = entries[e].lines, !.period = entries[e].period])
    <3> DEFINE self == [Idle EXCEPT !.pc = "post_check", !.kind = "post", !.entry = e,
                          !.lines = entries[e].lines, !.period = entries[e].period]
    <3>1. self \in Request
      BY <1>1, EntryFacts DEF Request, Kinds
    <3>2. Sound(self)
      BY <1>1, EntryFacts, IdleFields DEF Request
    <3> QED
      BY <3>1, <3>2
  <2> QED
    BY <1>2, <1>7, <2>2 DEF PostStart
<1>8. ASSUME NEW p \in OpenPeriods, CloseStart(w, p) PROVE IInv'
  <2>1. p \in 1..Len(periods) /\ p \in Nat
    BY DEF OpenPeriods, IInv, TypeOK
  <2>2. Fits([Idle EXCEPT !.pc = "close", !.kind = "close", !.period = p])
    <3> DEFINE self == [Idle EXCEPT !.pc = "close", !.kind = "close", !.period = p]
    <3>1. self \in Request
      BY <1>1, <2>1 DEF Request, Kinds
    <3>2. Sound(self)
      BY <1>1, <2>1, IdleFields DEF Request
    <3> QED
      BY <3>1, <3>2
  <2> QED
    BY <1>2, <1>8, <2>2 DEF CloseStart
<1>9. CASE EnsureStart(w)
  <2>2. Fits([Idle EXCEPT !.pc = "ensure", !.kind = "ensure"])
    <3> DEFINE self == [Idle EXCEPT !.pc = "ensure", !.kind = "ensure"]
    <3>1. self \in Request
      BY <1>1 DEF Request, Kinds
    <3>2. Sound(self)
      BY <1>1, IdleFields DEF Request
    <3> QED
      BY <3>1, <3>2
  <2> QED
    BY <1>2, <1>9, <2>2 DEF EnsureStart
<1> QED
  BY <1>3, <1>4, <1>5, <1>6, <1>7, <1>8, <1>9

\* The steps of a transaction that read, or write a row nobody sees yet.
LEMMA MoveKeeps ==
  ASSUME IInv, NEW w \in Workers,
         \/ Check(w) \/ PostCheck(w) \/ EnsurePeriod(w) \/ TakeNumber(w)
         \/ ReadBalance(w) \/ WriteBalance(w) \/ DeadlockDetected(w) \/ Abort(w)
  PROVE  IInv'
<1> DEFINE self == op[w]
           Moves(s) == s \in Request /\ Sound(s) /\ Become(w, s)
<1>1. self \in Request /\ Sound(self) /\ left \in Nat /\ faults \in Nat
  BY SelfFacts DEF IInv, TypeOK
<1>2. ASSUME NEW s, Moves(s), UNCHANGED <<tables, left, faults>>
      PROVE  IInv'
  BY <1>1, <1>2, RequestKeeps
<1>3. ASSUME Done(w), UNCHANGED tables, left' \in Nat, faults' \in Nat
      PROVE  IInv'
  BY <1>3, DoneKeeps
<1>4. Len(periods) \in Nat /\ Len(entries) \in Nat /\ Len(books) = Len(periods)
  BY DEF IInv, TypeOK
<1> USE DEF At, Sound, Refers, OnLine, Numbered, Preparing, Balancing
<1>5. CASE Check(w)
  <2>1. [self EXCEPT !.pc = "period"] \in Request
    BY <1>1 DEF Request
  <2>2. self.pc = "check" => Sound([self EXCEPT !.pc = "period"])
    BY <1>1 DEF Request
  <2> QED
    BY <1>1, <1>2, <1>3, <1>5, <2>1, <2>2 DEF Check, Go
<1>6. CASE PostCheck(w)
  <2>1. [self EXCEPT !.pc = "read"] \in Request
    BY <1>1 DEF Request
  <2>2. self.pc = "post_check" => Sound([self EXCEPT !.pc = "read"])
    BY <1>1 DEF Request
  <2> QED
    BY <1>1, <1>2, <1>3, <1>6, <2>1, <2>2 DEF PostCheck, Go
<1>7. CASE EnsurePeriod(w)
  <2>1. PICK p \in IF OpenPeriods = {} THEN {New} ELSE OpenPeriods :
          Become(w, [self EXCEPT !.pc = "number", !.period = p])
    BY <1>7 DEF EnsurePeriod
  <2>2. p \in 0..Len(periods) /\ p \in Nat
    BY <1>4 DEF OpenPeriods, New, IInv, TypeOK
  <2>3. [self EXCEPT !.pc = "number", !.period = p] \in Request
    BY <1>1, <2>2 DEF Request
  <2>4. Sound([self EXCEPT !.pc = "number", !.period = p])
    BY <1>1, <1>7, <2>2 DEF Request, EnsurePeriod
  <2> QED
    BY <1>2, <1>7, <2>1, <2>3, <2>4 DEF EnsurePeriod
<1>8. CASE TakeNumber(w)
  <2> DEFINE n == NextNumber(self.day)
             next == IF self.kind = "draft" THEN "insert" ELSE "read"
             s == [self EXCEPT !.number = n, !.pc = next]
  <2>1. n = Count(self.day) + 1 /\ Count(self.day) \in Nat
    BY CountType DEF NextNumber, Count, IInv
  <2>2. s \in Request
    <3>1. ASSUME NEW m \in Nat, NEW pc \in {"insert", "read"}
          PROVE  [self EXCEPT !.number = m, !.pc = pc] \in Request
      BY <1>1 DEF Request
    <3>2. n \in Nat /\ next \in {"insert", "read"}
      BY <2>1
    <3> QED
      BY <3>1, <3>2
  <2>3. Sound(s)
    BY <1>1, <1>8, <2>1 DEF Request, TakeNumber
  <2> QED
    BY <1>2, <1>8, <2>2, <2>3 DEF TakeNumber
<1>9. CASE ReadBalance(w)
  <2> DEFINE t == Balance(Account(self), self.period)
             s == [self EXCEPT !.pc = "write", !.seen = t]
  <2>1. Account(self) \in Accounts
    BY <1>1, <1>9, PairFacts DEF ReadBalance, Account
  <2>2. t \in Totals
    BY <1>1, <1>4, <2>1, AbsentType DEF Balance, New, IInv, TypeOK, Books
  <2>3. s \in Request
    BY <1>1, <2>2 DEF Request
  <2>4. Sound(s)
    BY <1>1, <1>9 DEF Request, ReadBalance
  <2> QED
    BY <1>2, <1>9, <2>3, <2>4 DEF ReadBalance
<1>10. CASE WriteBalance(w)
  <2> DEFINE account == Account(self)
             t == Plus(self.seen, self.lines[self.line])
             next == IF self.line < Len(self.lines) THEN "read" ELSE "insert"
             s == [self EXCEPT !.written[account] = t, !.pc = next, !.line = @ + 1]
  <2>1. self.line \in 1..2 /\ self.lines \in LinePairs /\ Len(self.lines) = 2
    BY <1>1, <1>10, PairFacts DEF WriteBalance
  <2>2. t \in Totals
    BY <1>1, <2>1, PairFacts, PlusType DEF Request
  <2>3. [self.written EXCEPT ![account] = t] \in Books
    BY <1>1, <2>2 DEF Request, Books
  <2>4. s \in Request
    <3>1. ASSUME NEW rows \in Books, NEW pc \in {"insert", "read"}, NEW line \in 1..3
          PROVE  [self EXCEPT !.written = rows, !.pc = pc, !.line = line] \in Request
      BY <1>1 DEF Request
    <3>2. next \in {"insert", "read"} /\ self.line + 1 \in 1..3
      BY <2>1
    <3>3. s = [self EXCEPT !.written = [self.written EXCEPT ![account] = t],
                           !.pc = next, !.line = self.line + 1]
      BY <1>1 DEF Request
    <3> QED
      BY <2>3, <3>1, <3>2, <3>3
  <2>5. Sound(s)
    BY <1>1, <1>10, <2>1 DEF Request, WriteBalance
  <2> QED
    BY <1>1, <1>2, <1>3, <1>10, <2>4, <2>5 DEF WriteBalance
<1>11. CASE DeadlockDetected(w) \/ Abort(w)
  BY <1>1, <1>3, <1>11 DEF DeadlockDetected, Abort, IInv, TypeOK
<1> QED
  BY <1>5, <1>6, <1>7, <1>8, <1>9, <1>10, <1>11

-----------------------------------------------------------------------------
\* Books and periods that grow or change by one commit.
LEMMA BooksKeep ==
  ASSUME TypeOK, NEW self \in Request, self.period \in 0..Len(periods), CommitBooks(self)
  PROVE  /\ periods' \in Seq({"OPEN", "CLOSED"}) /\ books' \in Seq(Books)
         /\ Len(books') = Len(periods') /\ Len(periods) <= Len(periods')
         /\ PeriodOf(self) \in 1..Len(periods')
<1>1. /\ periods \in Seq({"OPEN", "CLOSED"}) /\ books \in Seq(Books)
      /\ Len(books) = Len(periods) /\ Len(periods) \in Nat
  BY DEF TypeOK
<1>2. ASSUME NEW book \in Books PROVE WrittenOver(book, self.written) \in Books
  BY DEF WrittenOver, Books, Request
<1>3. CASE self.period = New
  <2>1. /\ periods' = Append(periods, "OPEN")
        /\ books' = Append(books, WrittenOver(NoBook, self.written))
    BY <1>3 DEF CommitBooks
  <2>2. WrittenOver(NoBook, self.written) \in Books
    BY <1>2, AbsentType
  <2> QED
    BY <1>1, <1>3, <2>1, <2>2 DEF PeriodOf
<1>4. CASE self.period # New
  <2>1. /\ periods' = periods /\ self.period \in DOMAIN books
        /\ books' = [books EXCEPT ![self.period] = WrittenOver(books[self.period], self.written)]
    BY <1>1, <1>4 DEF CommitBooks, New
  <2>2. books[self.period] \in Books
    BY <1>1, <2>1
  <2>3. books' \in Seq(Books) /\ Len(books') = Len(books)
    BY <1>1, <1>2, <2>1, <2>2, ReplaceFacts
  <2> QED
    BY <1>1, <1>4, <2>1, <2>3 DEF PeriodOf, New
<1> QED
  BY <1>3, <1>4

\* The rows of a journal that a status change leaves as they are.
SameButStatus(before, after) ==
  /\ after.source = before.source /\ after.key = before.key /\ after.kind = before.kind
  /\ after.day = before.day /\ after.number = before.number /\ after.lines = before.lines
  /\ after.reverses = before.reverses /\ after.period = before.period

LEMMA StatusSet ==
  ASSUME TypeOK, NEW e \in Ids, NEW status \in {"POSTED", "VOIDED"}
  PROVE  /\ [entries EXCEPT ![e].status = status] \in Seq(Entry)
         /\ Len([entries EXCEPT ![e].status = status]) = Len(entries)
         /\ DOMAIN [entries EXCEPT ![e].status = status] = Ids
         /\ \A d \in Ids : SameButStatus(entries[d], [entries EXCEPT ![e].status = status][d])
<1> DEFINE row == [entries[e] EXCEPT !.status = status]
<1>1. entries \in Seq(Entry) /\ entries[e] \in Entry
  BY DEF TypeOK, Ids
<1>2. row \in Entry /\ SameButStatus(entries[e], row)
  BY <1>1 DEF Entry, SameButStatus
<1>3. [entries EXCEPT ![e].status = status] = [entries EXCEPT ![e] = row]
  BY <1>1
<1>4. \A d \in Ids : SameButStatus(entries[d], entries[d])
  BY DEF SameButStatus
<1> QED
  BY <1>1, <1>2, <1>3, <1>4, ReplaceFacts DEF Ids

\* The requests in flight stay sound when tables only grow.
LEMMA SoundGrows ==
  ASSUME IInv, Ids \subseteq Ids', Len(entries) <= Len(entries'), Len(periods) <= Len(periods'),
         Len(entries') \in Nat, Len(periods') \in Nat,
         \A day : Count(day) <= Count(day)' /\ Count(day)' \in Nat,
         NEW w \in Workers, Done(w)
  PROVE  /\ op' \in [Workers -> Request]
         /\ \A v \in Workers : Sound(op[v])'
<1>1. op' \in [Workers -> Request]
  BY IdleType DEF IInv, TypeOK, Done, Become
<1>2. ASSUME NEW v \in Workers PROVE Sound(op[v])'
  <2>1. CASE v = w
    <3>1. op'[v] = Idle
      BY <2>1 DEF IInv, TypeOK, Done, Become
    <3> QED
      BY <3>1, IdleFields DEF Sound, Refers, OnLine, Numbered, Preparing, Balancing
  <2>2. CASE v # w
    <3>1. op'[v] = op[v] /\ op[v] \in Request /\ Sound(op[v])
      BY <2>2 DEF IInv, TypeOK, Done, Become
    <3>2. Refers(op[v])' /\ OnLine(op[v])'
      BY <3>1 DEF Sound, Refers, OnLine, IInv, TypeOK
    <3>3. Numbered(op[v])'
      <4>1. PICK day : day = op[v].day /\ day = op'[v].day
        BY <3>1
      <4>2. Count(op[v].day) = Count(day) /\ Count(op[v].day)' = Count(day)'
        BY <4>1 DEF Count, OfDay
      <4>3. Count(day) <= Count(day)' /\ Count(day)' \in Nat /\ Count(day) \in Nat
        BY CountType DEF IInv
      <4> QED
        BY <3>1, <4>2, <4>3 DEF Sound, Numbered
    <3> QED
      BY <3>2, <3>3 DEF Sound
  <2> QED
    BY <2>1, <2>2
<1> QED
  BY <1>1, <1>2

\* The insert of an entry: a number at most one above the count that the unique
\* index accepts is the next number of its day.
LEMMA InsertKeeps ==
  ASSUME IInv, NEW w \in Workers, Insert(w)
  PROVE  IInv'
<1> DEFINE self == op[w]
           n == Len(entries) + 1
           row == EntryOf(self)
<1>1. self \in Request /\ Sound(self) /\ TypeOK /\ left \in Nat /\ faults \in Nat
  BY SelfFacts DEF IInv, TypeOK
<1>2. Done(w) /\ UNCHANGED <<left, faults>> /\ self.pc = "insert" /\ self.kind # "post"
  BY DEF Insert, At
<1>3. CASE ~(NumberFree(self.day, self.number) /\ PaymentFree(self))
  BY <1>1, <1>2, <1>3, DoneKeeps DEF Insert
<1>4. CASE NumberFree(self.day, self.number) /\ PaymentFree(self)
  <2>1. /\ entries' = Append(Voided(self), row) /\ CommitBooks(self)
        /\ link' = IF self.kind = "refund" THEN [link EXCEPT ![self.source] = n] ELSE link
    BY <1>4 DEF Insert
  <2>2. /\ periods' \in Seq({"OPEN", "CLOSED"}) /\ books' \in Seq(Books)
        /\ Len(books') = Len(periods') /\ Len(periods) <= Len(periods')
        /\ PeriodOf(self) \in 1..Len(periods') /\ Len(periods') \in Nat
    BY <1>1, <2>1, BooksKeep DEF Sound, Refers
  <2>3. row \in Entry
    <3>1. PeriodOf(self) \in Nat /\ self.lines \in LinePairs
      BY <1>1, <1>2, <2>2 DEF Sound, OnLine
    <3> QED
      BY <1>1, <3>1 DEF Request, Entry, EntryOf
  <2>4. /\ Voided(self) \in Seq(Entry) /\ Len(Voided(self)) = Len(entries)
        /\ DOMAIN Voided(self) = Ids
        /\ \A e \in Ids : SameButStatus(entries[e], Voided(self)[e])
    BY <1>1, StatusSet DEF Voided, Sound, OnLine, SameButStatus, Ids, TypeOK
  <2>5. /\ entries' \in Seq(Entry) /\ Len(entries') = n /\ Ids' = Ids \cup {n} /\ n \notin Ids
        /\ entries'[n] = row /\ \A e \in Ids : SameButStatus(entries[e], entries'[e])
    BY <2>1, <2>3, <2>4, AppendFacts DEF Ids
  <2>6. Len(entries) \in Nat /\ Ids = 1..Len(entries) /\ n \in Nat
    BY <1>1 DEF TypeOK, Ids
  <2>7. \A day : OfDay(day)' = OfDay(day) \cup (IF day = self.day THEN {n} ELSE {})
    <3>1. row.day = self.day
      BY DEF EntryOf
    <3>2. \A e \in Ids : entries'[e].day = entries[e].day
      BY <2>5 DEF SameButStatus
    <3>3. ASSUME NEW day
          PROVE  OfDay(day)' = OfDay(day) \cup (IF day = self.day THEN {n} ELSE {})
      BY <2>5, <3>1, <3>2 DEF OfDay
    <3> QED
      BY <3>3
  <2>8. \A day : /\ Count(day) \in Nat /\ Count(day)' \in Nat
                 /\ Count(day)' = Count(day) + (IF day = self.day THEN 1 ELSE 0)
    <3>1. ASSUME NEW day
          PROVE  /\ Count(day) \in Nat
                 /\ Cardinality(OfDay(day)') = Count(day) + (IF day = self.day THEN 1 ELSE 0)
      <4>1. IsFiniteSet(OfDay(day)) /\ Count(day) \in Nat /\ n \notin OfDay(day)
        BY <1>1, <2>5, CountType DEF OfDay
      <4>2. Cardinality(OfDay(day) \cup {n}) = Count(day) + 1
        BY <4>1, FS_AddElement DEF Count
      <4>3. CASE day = self.day
        <5>1. OfDay(day)' = OfDay(day) \cup {n}
          BY <2>7, <4>3
        <5> QED
          BY <4>1, <4>2, <4>3, <5>1
      <4>4. CASE day # self.day
        <5>1. OfDay(day)' = OfDay(day)
          BY <2>7, <4>4
        <5> QED
          BY <4>1, <4>4, <5>1 DEF Count
      <4> QED
        BY <4>3, <4>4
    <3> QED
      BY <3>1 DEF Count
  <2>9. self.number = Count(self.day) + 1
    <3>1. self.number \in 1..Count(self.day) + 1
      BY <1>1, <1>2 DEF Sound, Numbered
    <3>2. self.number \notin Numbers(self.day)
      BY <1>4 DEF NumberFree, Numbers
    <3>3. Numbers(self.day) = 1..Count(self.day)
      BY <1>1 DEF IInv, NumbersDense, Numbers, Count, Request
    <3> QED
      BY <2>8, <3>1, <3>2, <3>3
  <2>10. NumbersDense'
    <3>1. row.number = self.number
      BY DEF EntryOf
    <3>2. \A e \in Ids : entries'[e].number = entries[e].number
      BY <2>5 DEF SameButStatus
    <3>3. ASSUME NEW day \in Days
          PROVE  {entries'[e].number : e \in OfDay(day)'} = 1..Cardinality(OfDay(day)')
      <4>1. Numbers(day) = 1..Count(day)
        BY DEF IInv, NumbersDense, Numbers, Count
      <4>2. OfDay(day) \subseteq Ids
        BY DEF OfDay
      <4>3. CASE day = self.day
        <5>1. {entries'[e].number : e \in OfDay(day)'} = Numbers(day) \cup {self.number}
          BY <2>5, <2>7, <3>1, <3>2, <4>2, <4>3 DEF Numbers
        <5>2. Cardinality(OfDay(day)') = Count(day) + 1 /\ Count(day) \in Nat
          BY <2>8, <4>3 DEF Count
        <5>3. self.number = Count(day) + 1
          BY <2>9, <4>3
        <5>4. \A c \in Nat : 1..c \cup {c + 1} = 1..(c + 1)
          OBVIOUS
        <5> QED
          BY <4>1, <5>1, <5>2, <5>3, <5>4
      <4>4. CASE day # self.day
        <5>1. {entries'[e].number : e \in OfDay(day)'} = Numbers(day)
          BY <2>7, <3>2, <4>2, <4>4 DEF Numbers
        <5>2. Cardinality(OfDay(day)') = Count(day)
          BY <2>7, <4>4 DEF Count
        <5> QED
          BY <4>1, <5>1, <5>2
      <4> QED
        BY <4>3, <4>4
    <3> QED
      BY <3>3 DEF NumbersDense
  <2>11. OnePerPayment'
    <3>1. row.source = self.source
      BY DEF EntryOf
    <3>2. \A e \in Ids : entries'[e].source = entries[e].source
      BY <2>5 DEF SameButStatus
    <3>3. self.source \in Payments => \A e \in Ids : entries[e].source # self.source
      BY <1>4 DEF PaymentFree, EntriesFor
    <3> QED
      BY <2>5, <3>1, <3>2, <3>3 DEF IInv, OnePerPayment
  <2>12. op' \in [Workers -> Request] /\ \A v \in Workers : Sound(op[v])'
    BY <1>2, <2>2, <2>5, <2>6, <2>8, SoundGrows
  <2>13. \A e \in Ids' : /\ entries'[e].period \in DOMAIN periods'
                         /\ entries'[e].reverses \in 0..Len(entries')
    <3>1. row.period = PeriodOf(self) /\ row.reverses = self.entry
      BY DEF EntryOf
    <3>2. self.entry \in 0..Len(entries)
      BY <1>1 DEF Sound, Refers
    <3>3. \A e \in Ids : /\ entries'[e].period \in DOMAIN periods'
                         /\ entries'[e].reverses \in 0..Len(entries')
      <4>1. ASSUME NEW e \in Ids
            PROVE  /\ entries'[e].period = entries[e].period
                   /\ entries'[e].reverses = entries[e].reverses
        BY <2>5 DEF SameButStatus
      <4>2. ASSUME NEW e \in Ids
            PROVE  /\ entries[e].period \in 1..Len(periods)
                   /\ entries[e].reverses \in 0..Len(entries)
        BY <1>1 DEF TypeOK
      <4>3. DOMAIN periods' = 1..Len(periods') /\ Len(periods) \in Nat
        BY <1>1, <2>2 DEF TypeOK
      <4> QED
        BY <2>2, <2>5, <2>6, <4>1, <4>2, <4>3
    <3> QED
      BY <2>2, <2>5, <2>6, <3>1, <3>2, <3>3
  <2>14. link' \in [Refunds -> 0..Len(entries')]
    <3>1. link \in [Refunds -> 0..n]
      BY <1>1, <2>6 DEF TypeOK
    <3>2. [link EXCEPT ![self.source] = n] \in [Refunds -> 0..n]
      <4>1. ASSUME NEW S, NEW f \in [Refunds -> S], NEW r, NEW x \in S
            PROVE  [f EXCEPT ![r] = x] \in [Refunds -> S]
        OBVIOUS
      <4>2. n \in 0..n
        BY <2>6
      <4> QED
        BY <3>1, <4>1, <4>2
    <3> QED
      BY <2>1, <2>5, <3>1, <3>2
  <2>15. TypeOK'
    <3>1. \A v \in Workers : Refers(op[v])'
      BY <2>12 DEF Sound
    <3> QED
      BY <1>1, <1>2, <2>2, <2>5, <2>12, <2>13, <2>14, <3>1 DEF TypeOK, Refers
  <2> QED
    BY <2>10, <2>11, <2>12, <2>15 DEF IInv
<1> QED
  BY <1>3, <1>4

\* Posting a draft changes no number, no day and no source.
LEMMA PostCommitKeeps ==
  ASSUME IInv, NEW w \in Workers, PostCommit(w)
  PROVE  IInv'
<1> DEFINE self == op[w]
<1>1. self \in Request /\ Sound(self) /\ TypeOK
  BY SelfFacts DEF IInv
<1>2. /\ Done(w) /\ UNCHANGED <<link, left, faults>> /\ CommitBooks(self)
      /\ entries' = [entries EXCEPT ![self.entry].status = "POSTED"]
      /\ self.entry \in Ids
  BY <1>1 DEF PostCommit, Sound, OnLine
<1>3. /\ periods' \in Seq({"OPEN", "CLOSED"}) /\ books' \in Seq(Books)
      /\ Len(books') = Len(periods') /\ Len(periods) <= Len(periods') /\ Len(periods') \in Nat
  BY <1>1, <1>2, BooksKeep DEF Sound, Refers
<1>4. /\ entries' \in Seq(Entry) /\ Len(entries') = Len(entries) /\ Ids' = Ids
      /\ \A e \in Ids : SameButStatus(entries[e], entries'[e])
  BY <1>1, <1>2, StatusSet DEF Ids
<1>5. \A day : OfDay(day)' = OfDay(day) /\ Count(day)' = Count(day) /\ Count(day) \in Nat
  <2>1. \A day : OfDay(day)' = OfDay(day)
    BY <1>4 DEF OfDay, SameButStatus
  <2> QED
    BY <1>1, <2>1, CountType DEF Count
<1>6. NumbersDense'
  <2>1. ASSUME NEW day \in Days
        PROVE  {entries'[e].number : e \in OfDay(day)'} = 1..Cardinality(OfDay(day)')
    <3>1. \A e \in OfDay(day) : entries'[e].number = entries[e].number
      BY <1>4 DEF OfDay, SameButStatus
    <3> QED
      BY <1>5, <3>1 DEF IInv, NumbersDense
  <2> QED
    BY <2>1 DEF NumbersDense
<1>7. OnePerPayment'
  BY <1>4 DEF IInv, OnePerPayment, SameButStatus
<1>8. op' \in [Workers -> Request] /\ \A v \in Workers : Sound(op[v])'
  <2>1. Len(entries) \in Nat
    BY <1>1 DEF TypeOK
  <2> QED
    BY <1>2, <1>3, <1>4, <1>5, <2>1, SoundGrows
<1>9. TypeOK'
  <2>1. \A v \in Workers : Refers(op[v])'
    BY <1>8 DEF Sound
  <2>2. ASSUME NEW e \in Ids'
        PROVE  entries'[e].period \in DOMAIN periods' /\ entries'[e].reverses \in 0..Len(entries')
    <3>1. /\ entries'[e].period = entries[e].period
          /\ entries'[e].reverses = entries[e].reverses
      BY <1>4 DEF SameButStatus
    <3>2. entries[e].period \in 1..Len(periods) /\ entries[e].reverses \in 0..Len(entries)
      BY <1>1, <1>4 DEF TypeOK
    <3> QED
      BY <1>1, <1>3, <1>4, <3>1, <3>2 DEF TypeOK
  <2> QED
    BY <1>1, <1>2, <1>3, <1>4, <1>8, <2>1, <2>2 DEF TypeOK, Refers
<1> QED
  BY <1>6, <1>7, <1>8, <1>9 DEF IInv

\* Closing and opening periods leaves the entries alone.
LEMMA PeriodsKeep ==
  ASSUME IInv, NEW w \in Workers, Close(w) \/ Ensure(w)
  PROVE  IInv'
<1>1. TypeOK /\ op[w] \in Request /\ Sound(op[w])
  BY SelfFacts DEF IInv
<1>2. Done(w) /\ UNCHANGED <<entries, link, left, faults>>
  BY DEF Close, Ensure
<1>3. /\ periods' \in Seq({"OPEN", "CLOSED"}) /\ books' \in Seq(Books)
      /\ Len(books') = Len(periods') /\ Len(periods) <= Len(periods')
  <2>1. CASE Close(w)
    <3>1. op[w].period \in DOMAIN periods /\ periods \in Seq({"OPEN", "CLOSED"})
      BY <1>1, <2>1 DEF Close, At, Sound, Refers, TypeOK
    <3>2. periods' \in Seq({"OPEN", "CLOSED"}) /\ Len(periods') = Len(periods)
      BY <2>1, <3>1, ReplaceFacts DEF Close
    <3> QED
      BY <1>1, <2>1, <3>2 DEF Close, TypeOK
  <2>2. CASE Ensure(w)
    BY <1>1, <2>2, AbsentType DEF Ensure, TypeOK
  <2> QED
    BY <2>1, <2>2
<1>4. Ids' = Ids /\ \A day : OfDay(day)' = OfDay(day) /\ Count(day)' = Count(day)
  BY <1>2 DEF OfDay, Count, Ids
<1>5. op' \in [Workers -> Request] /\ \A v \in Workers : Sound(op[v])'
  <2>1. /\ Len(entries') \in Nat /\ Len(entries) <= Len(entries') /\ Len(periods') \in Nat
        /\ \A day : Count(day) <= Count(day)' /\ Count(day)' \in Nat
    BY <1>1, <1>2, <1>3, <1>4, CountType DEF TypeOK
  <2> QED
    BY <1>2, <1>3, <1>4, <2>1, SoundGrows
<1>6. TypeOK'
  <2>1. \A v \in Workers : Refers(op[v])'
    BY <1>5 DEF Sound
  <2>2. DOMAIN periods \subseteq DOMAIN periods'
    BY <1>1, <1>3 DEF TypeOK
  <2> QED
    BY <1>1, <1>2, <1>3, <1>4, <1>5, <2>1, <2>2 DEF TypeOK, Refers, Ids
<1>7. NumbersDense' /\ OnePerPayment'
  <2>1. ASSUME NEW day \in Days
        PROVE  {entries'[e].number : e \in OfDay(day)'} = 1..Cardinality(OfDay(day)')
    BY <1>2, <1>4 DEF IInv, NumbersDense
  <2> QED
    BY <1>2, <2>1 DEF IInv, NumbersDense, OnePerPayment, Ids
<1> QED
  BY <1>5, <1>6, <1>7 DEF IInv

-----------------------------------------------------------------------------
LEMMA InitHolds == Init => IInv
<1> SUFFICES ASSUME Init PROVE IInv
  OBVIOUS
<1>1. /\ entries = << >> /\ Ids = {} /\ Len(entries) = 0
      /\ op = [w \in Workers |-> Idle] /\ Len(periods) \in Nat
  BY DEF Init, Ids
<1>2. TypeOK
  <2>1. /\ periods \in Seq({"OPEN", "CLOSED"}) /\ books \in Seq(Books)
        /\ Len(books) = Len(periods)
    <3>1. CASE periods = << >> /\ books = << >>
      BY <3>1
    <3>2. CASE periods = <<"OPEN">> /\ books = <<NoBook>>
      <4>1. <<NoBook>> \in Seq(Books) /\ Len(<<NoBook>>) = 1
        BY AbsentType
      <4>2. <<"OPEN">> \in Seq({"OPEN", "CLOSED"}) /\ Len(<<"OPEN">>) = 1
        OBVIOUS
      <4> QED
        BY <3>2, <4>1, <4>2
    <3> QED
      BY <3>1, <3>2 DEF Init
  <2>2. link \in [Refunds -> 0..Len(entries)] /\ op \in [Workers -> Request]
    BY <1>1, IdleType DEF Init
  <2>3. \A w \in Workers : op[w].period = 0 /\ op[w].entry = 0
    BY <1>1, IdleFields
  <2> QED
    BY <1>1, <2>1, <2>2, <2>3, JournalConstants DEF Init, TypeOK
<1>3. NumbersDense
  <2>1. \A day : OfDay(day) = {}
    BY <1>1 DEF OfDay
  <2> QED
    BY <2>1, FS_EmptySet DEF NumbersDense
<1>4. \A w \in Workers : Sound(op[w])
  BY <1>1, IdleSound
<1> QED
  BY <1>1, <1>2, <1>3, <1>4 DEF IInv, OnePerPayment

LEMMA StepKeeps == IInv /\ [Next]_vars => IInv'
<1> SUFFICES ASSUME IInv, [Next]_vars PROVE IInv'
  OBVIOUS
<1>1. CASE Next
  <2>1. PICK w \in Workers :
          \/ Post(w)
          \/ \E p \in OpenPeriods : CloseStart(w, p)
          \/ Close(w) \/ EnsureStart(w) \/ Ensure(w) \/ Abort(w)
    BY <1>1 DEF Next
  <2> QED
    BY <2>1, StartKeeps, MoveKeeps, InsertKeeps, PostCommitKeeps, PeriodsKeep DEF Post
<1>2. CASE UNCHANGED vars
  <2>1. TypeOK'
    BY <1>2 DEF vars, tables, IInv, TypeOK, Ids
  <2>2. \A day : OfDay(day)' = OfDay(day) /\ Count(day)' = Count(day)
    BY <1>2 DEF vars, tables, OfDay, Count, Ids
  <2>3. NumbersDense'
    <3>1. ASSUME NEW day \in Days
          PROVE  {entries'[e].number : e \in OfDay(day)'} = 1..Cardinality(OfDay(day)')
      BY <1>2, <2>2 DEF vars, tables, IInv, NumbersDense
    <3> QED
      BY <3>1 DEF NumbersDense
  <2>4. \A w \in Workers : Sound(op[w])'
    BY <1>2 DEF vars, tables, IInv, Sound, Refers, OnLine, Numbered, Count, OfDay, Ids
  <2> QED
    BY <1>2, <2>1, <2>3, <2>4 DEF vars, tables, IInv, OnePerPayment, Ids
<1> QED
  BY <1>1, <1>2

\* The inductive invariant of the journals.
THEOREM Invariant == Spec => []IInv
  BY InitHolds, StepKeeps, PTL DEF Spec

\* Every reachable state of the books and requests is well-formed.
THEOREM TypeCorrect == Spec => []TypeOK
<1>1. IInv => TypeOK
  BY DEF IInv
<1> QED
  BY <1>1, Invariant, PTL

\* Counting committed entries for the next number (nextEntryNumber), with the
\* unique index on entry_number, never leaves a gap a later count could run into.
THEOREM NumbersStayDense == Spec => []NumbersDense
<1>1. IInv => NumbersDense
  BY DEF IInv
<1> QED
  BY <1>1, Invariant, PTL

\* However often and concurrently PaymentCompleted is handled, the lookup
\* inside the transaction may be stale but the unique payment_id is not.
THEOREM PaymentJournaledOnce == Spec => []CollectedOnce
<1>1. IInv => CollectedOnce
  <2> SUFFICES ASSUME IInv, NEW p \in Payments
               PROVE  Cardinality(EntriesFor(p)) <= 1
    BY DEF CollectedOnce
  <2>1. \A d, e \in EntriesFor(p) : d = e
    BY DEF IInv, OnePerPayment, EntriesFor
  <2>2. CASE EntriesFor(p) = {}
    BY <2>2, FS_EmptySet
  <2>3. CASE EntriesFor(p) # {}
    <3>1. PICK e : EntriesFor(p) = {e}
      BY <2>1, <2>3
    <3> QED
      BY <3>1, FS_Singleton
  <2> QED
    BY <2>2, <2>3
<1> QED
  BY <1>1, Invariant, PTL

\* Numbers and payments together: what the runs check of the entries.
THEOREM EntriesAreSound == Spec => []EntriesSound
<1>1. NumbersDense /\ CollectedOnce => EntriesSound
  BY DEF EntriesSound
<1> QED
  BY <1>1, NumbersStayDense, PaymentJournaledOnce, PTL

-----------------------------------------------------------------------------
\* What the steps do to a request and to the tables.

Untouched(w) == \A v \in Workers : v # w => op'[v] = op[v]

\* A request as the lookups outside its transaction leave it.
Starts(self) ==
  /\ self.pc \in {"check", "period", "post_check", "close", "ensure"} /\ self.written = NoBook
  /\ \/ self.kind = "collect" /\ self.source \in Payments /\ self.entry = 0
     \/ self.kind = "refund" /\ self.source \in Refunds /\ self.entry = 0 /\ link[self.source] = 0
     \/ self.kind \in {"draft", "close", "ensure"} /\ self.source = NoSource /\ self.entry = 0
     \/ /\ self.kind = "reverse" /\ self.source = NoSource
        /\ self.entry \in Ids /\ entries[self.entry].status = "POSTED"
     \/ /\ self.kind = "post" /\ self.source = NoSource
        /\ self.entry \in Ids /\ entries[self.entry].status = "DRAFT"

\* One step of a transaction, from before to after.
Continues(before, after) ==
  /\ after.kind = before.kind /\ after.source = before.source /\ after.entry = before.entry
  /\ after.lines = before.lines /\ after.day = before.day
  /\ \/ /\ before.pc = "check" /\ after.pc = "period" /\ after.written = before.written
     \/ /\ before.pc = "post_check" /\ after.pc = "read" /\ after.written = before.written
        /\ after.period = before.period /\ after.period \in OpenPeriods
     \/ /\ before.pc = "period" /\ after.pc = "number" /\ after.written = before.written
        /\ after.period \in OpenPeriods \cup {New}
     \/ /\ before.pc = "number" /\ after.written = before.written
        /\ after.pc = (IF before.kind = "draft" THEN "insert" ELSE "read")
        /\ after.period = before.period /\ after.line = before.line
        /\ after.number = NextNumber(before.day)
     \/ /\ before.pc = "read" /\ after.pc = "write" /\ after.written = before.written
        /\ after.seen = Balance(Account(before), before.period)
        /\ after.period = before.period /\ after.line = before.line
        /\ after.number = before.number
     \/ /\ before.pc = "write"
        /\ after.pc = (IF before.line < Len(before.lines) THEN "read" ELSE "insert")
        /\ after.written = [before.written EXCEPT
                              ![Account(before)] = Plus(before.seen, before.lines[before.line])]
        /\ after.period = before.period /\ after.line = before.line + 1
        /\ after.number = before.number

Moves(w) ==
  /\ Untouched(w) /\ UNCHANGED tables
  /\ op'[w] = Idle \/ Starts(op'[w]) \/ Continues(op[w], op'[w])

\* The insert of an entry that no unique index refuses.
Commits(w) ==
  Insert(w) /\ NumberFree(op[w].day, op[w].number) /\ PaymentFree(op[w])

Ends(w) ==
  /\ Untouched(w) /\ op'[w] = Idle
  /\ Commits(w) \/ PostCommit(w) \/ Close(w) \/ Ensure(w)

LEMMA BecomeFacts ==
  ASSUME IInv, NEW w \in Workers, NEW self, Become(w, self)
  PROVE  op'[w] = self /\ Untouched(w)
  BY DEF IInv, TypeOK, Become, Untouched

LEMMA IdleMore ==
  Idle.source = NoSource /\ Idle.written = NoBook /\ Idle.number = 0 /\ Idle.seen = Absent
  BY DEF Idle

LEMMA StartEffect ==
  ASSUME IInv, NEW w \in Workers,
         \/ \E p \in Payments : CollectStart(w, p)
         \/ \E r \in Refunds : RefundStart(w, r)
         \/ \E day \in Days, lines \in {CashIn, CashOut} : DraftStart(w, day, lines)
         \/ \E e \in Ids, k \in Keys, today \in Days : ReverseStart(w, e, k, today)
         \/ \E e \in Ids : PostStart(w, e)
         \/ \E p \in OpenPeriods : CloseStart(w, p)
         \/ EnsureStart(w)
  PROVE  Moves(w)
<1>1. ASSUME NEW self, Accept(w, self), Starts(self)
      PROVE  Moves(w)
  BY <1>1, BecomeFacts DEF Accept, Moves
<1> USE IdleFields, IdleMore
<1>2. ASSUME NEW p \in Payments, CollectStart(w, p) PROVE Moves(w)
  <2>1. PICK self : /\ self = [Idle EXCEPT !.pc = "check", !.kind = "collect", !.source = p,
                                           !.day = DayOf[p], !.lines = CashIn]
                    /\ Accept(w, self)
    BY <1>2 DEF CollectStart
  <2>2. Starts(self)
    BY <2>1 DEF Starts, Idle
  <2> QED
    BY <1>1, <2>1, <2>2
<1>3. ASSUME NEW r \in Refunds, RefundStart(w, r) PROVE Moves(w)
  <2>1. PICK self : /\ self = [Idle EXCEPT !.pc = "check", !.kind = "refund", !.source = r,
                                           !.day = DayOf[r], !.lines = CashOut]
                    /\ Accept(w, self)
    BY <1>3 DEF RefundStart
  <2>2. Starts(self)
    BY <1>3, <2>1 DEF Starts, Idle, RefundStart, Unlinked
  <2> QED
    BY <1>1, <2>1, <2>2
<1>4. ASSUME NEW day \in Days, NEW lines \in {CashIn, CashOut}, DraftStart(w, day, lines)
      PROVE  Moves(w)
  <2>1. PICK self : /\ self = [Idle EXCEPT !.pc = "period", !.kind = "draft", !.day = day,
                                           !.lines = lines]
                    /\ Accept(w, self)
    BY <1>4 DEF DraftStart
  <2>2. Starts(self)
    BY <2>1 DEF Starts, Idle
  <2> QED
    BY <1>1, <2>1, <2>2
<1>5. ASSUME NEW e \in Ids, NEW k \in Keys, NEW today \in Days, ReverseStart(w, e, k, today)
      PROVE  Moves(w)
  <2>1. PICK self : /\ self = [Idle EXCEPT !.pc = "check", !.kind = "reverse", !.entry = e,
                                           !.key = k, !.day = today,
                                           !.lines = Reversed(entries[e].lines)]
                    /\ Accept(w, self)
    BY <1>5 DEF ReverseStart
  <2>2. Starts(self)
    BY <1>5, <2>1 DEF Starts, Idle, ReverseStart
  <2> QED
    BY <1>1, <2>1, <2>2
<1>6. ASSUME NEW e \in Ids, PostStart(w, e) PROVE Moves(w)
  <2>1. PICK self : /\ self = [Idle EXCEPT !.pc = "post_check", !.kind = "post", !.entry = e,
                                           !.lines = entries[e].lines,
                                           !.period = entries[e].period]
                    /\ Accept(w, self)
    BY <1>6 DEF PostStart
  <2>2. Starts(self)
    BY <1>6, <2>1 DEF Starts, Idle, PostStart, Postable
  <2> QED
    BY <1>1, <2>1, <2>2
<1>7. ASSUME NEW p \in OpenPeriods, CloseStart(w, p) PROVE Moves(w)
  <2>1. PICK self : /\ self = [Idle EXCEPT !.pc = "close", !.kind = "close", !.period = p]
                    /\ Accept(w, self)
    BY <1>7 DEF CloseStart
  <2>2. Starts(self)
    BY <2>1 DEF Starts, Idle
  <2> QED
    BY <1>1, <2>1, <2>2
<1>8. CASE EnsureStart(w)
  <2>1. PICK self : /\ self = [Idle EXCEPT !.pc = "ensure", !.kind = "ensure"]
                    /\ Accept(w, self)
    BY <1>8 DEF EnsureStart
  <2>2. Starts(self)
    BY <2>1 DEF Starts, Idle
  <2> QED
    BY <1>1, <2>1, <2>2
<1> QED
  BY <1>2, <1>3, <1>4, <1>5, <1>6, <1>7, <1>8

LEMMA MoveEffect ==
  ASSUME IInv, NEW w \in Workers,
         \/ Check(w) \/ PostCheck(w) \/ EnsurePeriod(w) \/ TakeNumber(w)
         \/ ReadBalance(w) \/ WriteBalance(w) \/ DeadlockDetected(w) \/ Abort(w)
  PROVE  Moves(w)
<1> DEFINE self == op[w]
<1>1. self \in Request
  BY SelfFacts
<1>2. ASSUME NEW s, Become(w, s), Continues(self, s), UNCHANGED tables
      PROVE  Moves(w)
  BY <1>2, BecomeFacts DEF Moves
<1>3. ASSUME Done(w), UNCHANGED tables
      PROVE  Moves(w)
  BY <1>3, BecomeFacts DEF Moves, Done
<1>4. CASE Check(w)
  <2>1. Continues(self, [self EXCEPT !.pc = "period"])
    BY <1>1, <1>4 DEF Continues, Check, At, Request
  <2> QED
    BY <1>2, <1>3, <1>4, <2>1 DEF Check, Go
<1>5. CASE PostCheck(w)
  <2>1. self.period \in OpenPeriods => Continues(self, [self EXCEPT !.pc = "read"])
    BY <1>1, <1>5 DEF Continues, PostCheck, At, Request
  <2> QED
    BY <1>2, <1>3, <1>5, <2>1 DEF PostCheck, Go
<1>6. CASE EnsurePeriod(w)
  <2>1. PICK p \in IF OpenPeriods = {} THEN {New} ELSE OpenPeriods :
          Become(w, [self EXCEPT !.pc = "number", !.period = p])
    BY <1>6 DEF EnsurePeriod
  <2>2. Continues(self, [self EXCEPT !.pc = "number", !.period = p])
    BY <1>1, <1>6, <2>1 DEF Continues, EnsurePeriod, At, Request
  <2> QED
    BY <1>2, <1>6, <2>1, <2>2 DEF EnsurePeriod
<1>7. CASE TakeNumber(w)
  <2>1. PICK s : /\ s = [self EXCEPT !.number = NextNumber(self.day),
                                     !.pc = IF self.kind = "draft" THEN "insert" ELSE "read"]
                 /\ Become(w, s)
    BY <1>7 DEF TakeNumber
  <2>2. Continues(self, s)
    BY <1>1, <1>7, <2>1 DEF Continues, TakeNumber, At, Request
  <2> QED
    BY <1>2, <1>7, <2>1, <2>2 DEF TakeNumber
<1>8. CASE ReadBalance(w)
  <2>1. PICK s : /\ s = [self EXCEPT !.pc = "write",
                                     !.seen = Balance(Account(self), self.period)]
                 /\ Become(w, s)
    BY <1>8 DEF ReadBalance
  <2>2. Continues(self, s)
    BY <1>1, <1>8, <2>1 DEF Continues, ReadBalance, At, Request
  <2> QED
    BY <1>2, <1>8, <2>1, <2>2 DEF ReadBalance
<1>9. CASE WriteBalance(w)
  <2> DEFINE t == Plus(self.seen, self.lines[self.line])
  <2>1. CASE Done(w)
    BY <1>3, <1>9, <2>1 DEF WriteBalance
  <2>2. CASE ~Done(w)
    <3>1. PICK s : /\ s = [self EXCEPT
                             !.written[Account(self)] = t,
                             !.pc = IF self.line < Len(self.lines) THEN "read" ELSE "insert",
                             !.line = @ + 1]
                   /\ Become(w, s)
      BY <1>9, <2>2 DEF WriteBalance
    <3>2. Continues(self, s)
      BY <1>1, <1>9, <3>1 DEF Continues, WriteBalance, At, Request
    <3> QED
      BY <1>2, <1>9, <3>1, <3>2 DEF WriteBalance
  <2> QED
    BY <2>1, <2>2
<1>10. CASE DeadlockDetected(w) \/ Abort(w)
  BY <1>3, <1>10 DEF DeadlockDetected, Abort
<1> QED
  BY <1>4, <1>5, <1>6, <1>7, <1>8, <1>9, <1>10

\* Every step of the journals is one of a request, and only a commit, a close
\* or a new period changes a table.
LEMMA StepEffect ==
  ASSUME IInv, Next
  PROVE  \E w \in Workers : Moves(w) \/ Ends(w)
<1>1. PICK w \in Workers :
        \/ Post(w)
        \/ \E p \in OpenPeriods : CloseStart(w, p)
        \/ Close(w) \/ EnsureStart(w) \/ Ensure(w) \/ Abort(w)
  BY DEF Next
<1>2. Done(w) => op'[w] = Idle /\ Untouched(w)
  BY BecomeFacts DEF Done
<1>3. CASE Insert(w)
  BY <1>2, <1>3 DEF Insert, Moves, Ends, Commits
<1>4. CASE PostCommit(w) \/ Close(w) \/ Ensure(w)
  BY <1>2, <1>4 DEF PostCommit, Close, Ensure, Ends
<1>5. CASE ~(Insert(w) \/ PostCommit(w) \/ Close(w) \/ Ensure(w))
  BY <1>1, <1>5, StartEffect, MoveEffect DEF Post
<1> QED
  BY <1>3, <1>4, <1>5

\* What a commit does to the journals and to the books.
Voids(self, e) == self.kind = "reverse" /\ e = self.entry

LEMMA CommitEffect ==
  ASSUME IInv, NEW w \in Workers, Commits(w)
  PROVE  /\ op[w].pc = "insert" /\ op[w].kind # "post"
         /\ Len(entries) \in Nat /\ Ids = 1..Len(entries)
         /\ Len(entries') = Len(entries) + 1 /\ Ids' = Ids \cup {Len(entries) + 1}
         /\ Len(entries) + 1 \notin Ids
         /\ entries'[Len(entries) + 1] = EntryOf(op[w])
         /\ \A e \in Ids : entries'[e] = IF Voids(op[w], e)
                                         THEN [entries[e] EXCEPT !.status = "VOIDED"]
                                         ELSE entries[e]
         /\ link' = IF op[w].kind = "refund" THEN [link EXCEPT ![op[w].source] = Len(entries) + 1]
                    ELSE link
         /\ CommitBooks(op[w])
<1> DEFINE self == op[w]
<1>1. self \in Request /\ Sound(self) /\ TypeOK /\ IInv'
  BY SelfFacts, InsertKeeps DEF IInv, Commits
<1>2. /\ self.pc = "insert" /\ self.kind # "post" /\ CommitBooks(self)
      /\ entries' = Append(Voided(self), EntryOf(self))
      /\ link' = IF self.kind = "refund" THEN [link EXCEPT ![self.source] = Len(entries) + 1]
                 ELSE link
  BY DEF Commits, Insert, At
<1>3. entries \in Seq(Entry) /\ Len(entries) \in Nat /\ Ids = 1..Len(entries)
  BY <1>1 DEF TypeOK, Ids
<1>4. /\ Voided(self) \in Seq(Entry) /\ Len(Voided(self)) = Len(entries)
      /\ \A e \in Ids : Voided(self)[e] = IF Voids(self, e)
                                          THEN [entries[e] EXCEPT !.status = "VOIDED"]
                                          ELSE entries[e]
  <2>1. CASE self.kind = "reverse"
    <3>1. self.entry \in Ids /\ Voided(self) = [entries EXCEPT ![self.entry].status = "VOIDED"]
      BY <1>1, <2>1 DEF Sound, OnLine, Voided
    <3>2. /\ [entries EXCEPT ![self.entry].status = "VOIDED"] \in Seq(Entry)
          /\ Len([entries EXCEPT ![self.entry].status = "VOIDED"]) = Len(entries)
      BY <1>1, <3>1, StatusSet
    <3> QED
      BY <1>3, <2>1, <3>1, <3>2 DEF Voids
  <2>2. CASE self.kind # "reverse"
    BY <1>3, <2>2 DEF Voided, Voids
  <2> QED
    BY <2>1, <2>2
<1>5. EntryOf(self) \in Entry
  <2>1. PeriodOf(self) \in Nat /\ self.lines \in LinePairs
    BY <1>1, <1>2, BooksKeep DEF Sound, OnLine, Refers, PeriodOf, TypeOK
  <2> QED
    BY <1>1, <2>1 DEF Request, Entry, EntryOf
<1>6. /\ Len(entries') = Len(entries) + 1 /\ Ids' = Ids \cup {Len(entries) + 1}
      /\ Len(entries) + 1 \notin Ids /\ entries'[Len(entries) + 1] = EntryOf(self)
      /\ \A e \in Ids : entries'[e] = Voided(self)[e]
  BY <1>2, <1>3, <1>4, <1>5, AppendFacts DEF Ids
<1> QED
  BY <1>2, <1>3, <1>4, <1>6

LEMMA PostEffect ==
  ASSUME IInv, NEW w \in Workers, PostCommit(w)
  PROVE  /\ op[w].pc = "insert" /\ op[w].kind = "post" /\ op[w].entry \in Ids
         /\ Len(entries') = Len(entries) /\ Ids' = Ids
         /\ \A e \in Ids : entries'[e] = IF e = op[w].entry
                                         THEN [entries[e] EXCEPT !.status = "POSTED"]
                                         ELSE entries[e]
         /\ link' = link /\ CommitBooks(op[w])
<1>1. op[w] \in Request /\ Sound(op[w]) /\ TypeOK
  BY SelfFacts DEF IInv
<1>2. /\ op[w].pc = "insert" /\ op[w].kind = "post" /\ op[w].entry \in Ids
      /\ link' = link /\ CommitBooks(op[w])
      /\ entries' = [entries EXCEPT ![op[w].entry].status = "POSTED"]
  BY <1>1 DEF PostCommit, At, Sound, OnLine
<1>3. Len(entries') = Len(entries) /\ Ids' = Ids
  BY <1>1, <1>2, StatusSet DEF Ids
<1> QED
  BY <1>1, <1>2, <1>3 DEF Ids, TypeOK

LEMMA PostFields ==
  ASSUME IInv, NEW w \in Workers, PostCommit(w), NEW e \in Ids
  PROVE  /\ SameButStatus(entries[e], entries'[e])
         /\ entries'[e].status = IF e = op[w].entry THEN "POSTED" ELSE entries[e].status
<1>1. entries[e] \in Entry
  BY EntryFacts
<1>2. entries'[e] = IF e = op[w].entry THEN [entries[e] EXCEPT !.status = "POSTED"] ELSE entries[e]
  BY PostEffect
<1> QED
  BY <1>1, <1>2 DEF Entry, SameButStatus

LEMMA CommitFields ==
  ASSUME IInv, NEW w \in Workers, Commits(w), NEW e \in Ids
  PROVE  /\ SameButStatus(entries[e], entries'[e])
         /\ entries'[e].status = IF Voids(op[w], e) THEN "VOIDED" ELSE entries[e].status
<1>1. entries[e] \in Entry
  BY EntryFacts
<1>2. entries'[e] = IF Voids(op[w], e) THEN [entries[e] EXCEPT !.status = "VOIDED"] ELSE entries[e]
  BY CommitEffect
<1> QED
  BY <1>1, <1>2 DEF Entry, SameButStatus

\* The balances a transaction with this period started from.
Base(p, totals) == IF p = New THEN NoBook ELSE totals[p]

LEMMA BooksEffect ==
  ASSUME TypeOK, NEW self \in Request, self.period \in 0..Len(periods), CommitBooks(self)
  PROVE  /\ DOMAIN periods' = DOMAIN periods \cup {PeriodOf(self)}
         /\ \A p \in DOMAIN periods : periods'[p] = periods[p]
         /\ \A p \in DOMAIN periods : p # self.period => books'[p] = books[p]
         /\ books'[PeriodOf(self)] = WrittenOver(Base(self.period, books), self.written)
         /\ self.period # New => PeriodOf(self) = self.period /\ self.period \in DOMAIN periods
         /\ self.period = New => PeriodOf(self) \notin DOMAIN periods
<1>1. /\ periods \in Seq({"OPEN", "CLOSED"}) /\ books \in Seq(Books)
      /\ Len(books) = Len(periods) /\ Len(periods) \in Nat
      /\ DOMAIN periods = 1..Len(periods) /\ DOMAIN books = 1..Len(periods)
  BY DEF TypeOK
<1>2. ASSUME NEW book \in Books PROVE WrittenOver(book, self.written) \in Books
  BY DEF WrittenOver, Books, Request
<1>3. CASE self.period = New
  <2>1. /\ periods' = Append(periods, "OPEN") /\ PeriodOf(self) = Len(periods) + 1
        /\ books' = Append(books, WrittenOver(NoBook, self.written))
    BY <1>3 DEF CommitBooks, PeriodOf
  <2>2. WrittenOver(NoBook, self.written) \in Books
    BY <1>2, AbsentType
  <2> QED
    BY <1>1, <1>3, <2>1, <2>2 DEF Base
<1>4. CASE self.period # New
  <2>1. /\ periods' = periods /\ self.period \in DOMAIN periods /\ PeriodOf(self) = self.period
        /\ books' = [books EXCEPT ![self.period] = WrittenOver(books[self.period], self.written)]
    BY <1>1, <1>4 DEF CommitBooks, New, PeriodOf
  <2> QED
    BY <1>1, <1>4, <2>1 DEF Base
<1> QED
  BY <1>3, <1>4

\* Closing sets one period; a new one is appended with balances of zero.
LEMMA PeriodEffect ==
  ASSUME IInv, NEW w \in Workers, Close(w) \/ Ensure(w)
  PROVE  /\ entries' = entries /\ link' = link
         /\ DOMAIN periods \subseteq DOMAIN periods'
         /\ \A p \in DOMAIN periods : books'[p] = books[p]
         /\ \A p \in DOMAIN periods' : p \in DOMAIN periods \/ books'[p] = NoBook
         /\ \A p \in DOMAIN periods : \/ periods'[p] = periods[p]
                                      \/ periods'[p] = "CLOSED"
<1>1. /\ periods \in Seq({"OPEN", "CLOSED"}) /\ books \in Seq(Books)
      /\ Len(books) = Len(periods) /\ op[w] \in Request
      /\ DOMAIN periods = 1..Len(periods) /\ DOMAIN books = 1..Len(periods)
  BY SelfFacts DEF IInv, TypeOK
<1>2. CASE Close(w)
  <2>1. /\ periods' = [periods EXCEPT ![op[w].period] = "CLOSED"]
        /\ entries' = entries /\ link' = link /\ books' = books
    BY <1>2 DEF Close
  <2> QED
    BY <1>1, <2>1
<1>3. CASE Ensure(w)
  BY <1>1, <1>3, AbsentType DEF Ensure
<1> QED
  BY <1>2, <1>3

-----------------------------------------------------------------------------
\* Which requests carry a source, an entry and balances, and which journals are
\* drafts: what no overlap changes.

Shaped(self, es) ==
  /\ self.kind = "refund" <=> self.source \in Refunds
  /\ self.kind \in {"reverse", "post"} \/ self.entry = 0
  /\ self.kind = "draft" \/ self.pc \in Preparing => self.written = NoBook
  /\ self.pc \in Balancing => self.kind # "draft"
  /\ self.kind = "post" => es[self.entry].kind = "draft"
  /\ self.kind = "reverse" => es[self.entry].status # "DRAFT"

DraftsOnly(es) == \A e \in DOMAIN es : es[e].status = "DRAFT" => es[e].kind = "draft"

Shapes == DraftsOnly(entries) /\ \A w \in Workers : Shaped(op[w], entries)

LEMMA IdleShaped == \A es : Shaped(Idle, es)
  BY IdleFields, IdleMore, JournalConstants DEF Shaped

\* A journal that is no draft any more never becomes one again.
NoNewDraft ==
  /\ Ids \subseteq Ids'
  /\ \A e \in Ids : /\ entries'[e].kind = entries[e].kind
                    /\ entries'[e].status = "DRAFT" => entries[e].status = "DRAFT"

LEMMA ShapesNext ==
  ASSUME IInv, IInv', Shapes, [Next]_vars
  PROVE  Shapes'
<1>1. ASSUME NEW w \in Workers, Moves(w)
      PROVE  Shapes'
  <2>1. entries' = entries /\ link' = link /\ op[w] \in Request /\ Sound(op[w])
    BY <1>1, SelfFacts DEF Moves, tables
  <2>2. Starts(op'[w]) => Shaped(op'[w], entries)
    BY JournalConstants DEF Starts, Shaped, Shapes, DraftsOnly, Ids, Preparing, Balancing
  <2>3. Continues(op[w], op'[w]) => Shaped(op'[w], entries)
    BY <2>1 DEF Continues, Shaped, Shapes, Preparing, Balancing, Sound, OnLine
  <2>4. Shaped(op'[w], entries)
    BY <1>1, <2>2, <2>3, IdleShaped DEF Moves
  <2>5. ASSUME NEW v \in Workers PROVE Shaped(op'[v], entries)
    BY <1>1, <2>4 DEF Moves, Untouched, Shapes
  <2> QED
    BY <2>1, <2>5 DEF Shapes
<1>2. ASSUME NEW w \in Workers, Untouched(w), op'[w] = Idle, NoNewDraft, DraftsOnly(entries')
      PROVE  Shapes'
  <2>1. ASSUME NEW v \in Workers PROVE Shaped(op'[v], entries')
    <3>1. CASE v = w
      BY <1>2, <3>1, IdleShaped
    <3>2. CASE v # w
      <4>1. op'[v] = op[v] /\ Shaped(op[v], entries) /\ Sound(op[v])
        BY <1>2, <3>2, SelfFacts DEF Untouched, Shapes
      <4>2. op[v].kind \in {"reverse", "post"} => op[v].entry \in Ids
        BY <4>1 DEF Sound, OnLine
      <4> QED
        BY <1>2, <4>1, <4>2 DEF Shaped, NoNewDraft
    <3> QED
      BY <3>1, <3>2
  <2> QED
    BY <1>2, <2>1 DEF Shapes
<1>3. ASSUME NEW w \in Workers, Ends(w)
      PROVE  NoNewDraft /\ DraftsOnly(entries')
  <2>2. CASE Commits(w)
    <3>1. NoNewDraft
      BY <2>2, CommitEffect, CommitFields DEF NoNewDraft, SameButStatus
    <3>2. EntryOf(op[w]).status = "DRAFT" => EntryOf(op[w]).kind = "draft"
      BY DEF EntryOf
    <3> QED
      BY <2>2, <3>1, <3>2, CommitEffect DEF NoNewDraft, Shapes, DraftsOnly, Ids
  <2>3. CASE PostCommit(w)
    <3>1. NoNewDraft
      BY <2>3, PostEffect, PostFields DEF NoNewDraft, SameButStatus
    <3> QED
      BY <2>3, <3>1, PostEffect DEF NoNewDraft, Shapes, DraftsOnly, Ids
  <2>4. CASE Close(w) \/ Ensure(w)
    <3>1. entries' = entries
      BY <2>4, PeriodEffect
    <3> QED
      BY <3>1 DEF NoNewDraft, Shapes, DraftsOnly, Ids
  <2> QED
    BY <1>3, <2>2, <2>3, <2>4 DEF Ends
<1>4. CASE UNCHANGED vars
  BY <1>4 DEF vars, tables, Shapes
<1>5. CASE Next
  <2>1. PICK w \in Workers : Moves(w) \/ Ends(w)
    BY <1>5, StepEffect
  <2> QED
    BY <1>1, <1>2, <1>3, <2>1 DEF Ends
<1> QED
  BY <1>4, <1>5

-----------------------------------------------------------------------------
\* Closed periods: whoever found a period OPEN still has it OPEN, unless a
\* close went between.

Taken == {"number", "read", "write", "insert"}

Found(self, ps) == self.pc \in Taken /\ self.period # New => ps[self.period] = "OPEN"

Openly == ~raced => \A w \in Workers : Found(op[w], periods)

LEMMA OpenlyNext ==
  ASSUME IInv, Openly, [MCNext]_<<vars, mixed, raced>>
  PROVE  Openly'
<1>1. CASE UNCHANGED <<vars, mixed, raced>>
  BY <1>1 DEF vars, tables, Openly
<1>2. CASE MCNext
  <2>1. PICK w \in Workers : Moves(w) \/ Ends(w)
    BY <1>2, StepEffect DEF MCNext
  <2> SUFFICES ASSUME ~raced', NEW v \in Workers
               PROVE  Found(op'[v], periods')
    BY DEF Openly
  <2>2. /\ Found(op[v], periods) /\ Found(op[w], periods)
        /\ op[v].period # New => op[v].period \in DOMAIN periods
    <3>1. ~raced
      BY <1>2 DEF MCNext
    <3>2. Len(periods) \in Nat /\ DOMAIN periods = 1..Len(periods)
      BY DEF IInv, TypeOK
    <3>3. op[v].period \in 0..Len(periods)
      BY SelfFacts DEF Sound, Refers
    <3> QED
      BY <3>1, <3>2, <3>3 DEF Openly, New
  <2>3. CASE Moves(w)
    <3>1. Found(op'[w], periods)
      BY <2>2, <2>3, IdleFields DEF Moves, Starts, Continues, Found, Taken, OpenPeriods
    <3>2. periods' = periods
      BY <2>3 DEF Moves, tables
    <3> QED
      BY <2>2, <2>3, <3>1, <3>2 DEF Moves, Untouched
  <2>4. CASE Ends(w) /\ v = w
    BY <2>4, IdleFields DEF Ends, Found, Taken
  <2>5. CASE Ends(w) /\ v # w
    <3>1. op'[v] = op[v]
      BY <2>5 DEF Ends, Untouched
    <3>2. CASE Commits(w) \/ PostCommit(w)
      <4>1. op[w] \in Request /\ op[w].period \in 0..Len(periods) /\ CommitBooks(op[w])
        BY <3>2, SelfFacts, CommitEffect, PostEffect DEF Sound, Refers
      <4>2. \A p \in DOMAIN periods : periods'[p] = periods[p]
        BY <4>1, BooksEffect DEF IInv
      <4> QED
        BY <2>2, <3>1, <4>2 DEF Found
    <3>3. CASE Close(w) \/ Ensure(w)
      <4>1. ~ClosedUnder
        BY <1>2 DEF MCNext
      <4>2. \A p \in DOMAIN periods : periods'[p] = periods[p] \/ periods'[p] = "CLOSED"
        BY <3>3, PeriodEffect
      <4> QED
        BY <2>2, <3>1, <4>1, <4>2 DEF Found, ClosedUnder, Taken
    <3> QED
      BY <2>5, <3>2, <3>3 DEF Ends
  <2> QED
    BY <2>1, <2>3, <2>4, <2>5
<1> QED
  BY <1>1, <1>2

-----------------------------------------------------------------------------
\* While nothing overlapped on it, a refund in flight is still unlinked, the
\* journal being reversed is still POSTED and the one being posted a DRAFT.

Fresh(self, es, links) ==
  /\ self.kind = "refund" => links[self.source] = 0
  /\ self.kind = "reverse" => es[self.entry].status = "POSTED"
  /\ self.kind = "post" => es[self.entry].status = "DRAFT"

Apart ==
  ~mixed => /\ ~Overlap /\ OncePerRefundAndReversal
            /\ \A w \in Workers : Fresh(op[w], entries, link)

LEMMA CommitOnce ==
  ASSUME IInv, Shapes, OncePerRefundAndReversal, NEW w \in Workers, Commits(w),
         Fresh(op[w], entries, link)
  PROVE  OncePerRefundAndReversal'
<1> DEFINE self == op[w]
           n == Len(entries) + 1
           row == EntryOf(self)
<1>1. self \in Request /\ Sound(self) /\ Shaped(self, entries) /\ TypeOK
  BY SelfFacts DEF Shapes, IInv
<1>2. /\ row.source = self.source /\ row.reverses = self.entry
      /\ row.status = IF self.kind = "draft" THEN "DRAFT" ELSE "POSTED"
  BY DEF EntryOf
<1>3. /\ self.pc = "insert" /\ self.kind # "post" /\ Len(entries) \in Nat
      /\ Ids = 1..Len(entries) /\ Ids' = Ids \cup {n} /\ n \notin Ids /\ entries'[n] = row
      /\ link' = IF self.kind = "refund" THEN [link EXCEPT ![self.source] = n] ELSE link
  BY CommitEffect
<1>4. ASSUME NEW e \in Ids
      PROVE  /\ entries'[e].source = entries[e].source
             /\ entries'[e].reverses = entries[e].reverses
             /\ entries'[e].status = IF Voids(self, e) THEN "VOIDED" ELSE entries[e].status
             /\ entries[e].reverses \in 0..Len(entries)
  BY <1>1, CommitFields DEF TypeOK, SameButStatus
<1>5. ASSUME NEW r \in Refunds
      PROVE  EntriesFor(r)' = {link'[r]} \ {0}
  <2>1. EntriesFor(r) = {link[r]} \ {0} /\ link \in [Refunds -> 0..Len(entries)]
    BY <1>1 DEF OncePerRefundAndReversal, TypeOK
  <2>2. CASE self.source = r
    <3>1. self.kind = "refund" /\ link[r] = 0 /\ link'[r] = n
      BY <1>1, <1>3, <2>1, <2>2 DEF Shaped, Fresh
    <3>2. EntriesFor(r)' = EntriesFor(r) \cup {n}
      BY <1>2, <1>3, <1>4, <2>2 DEF EntriesFor
    <3> QED
      BY <1>3, <2>1, <3>1, <3>2
  <2>3. CASE self.source # r
    <3>1. link'[r] = link[r]
      BY <1>1, <1>3, <2>1, <2>3
    <3>2. EntriesFor(r)' = EntriesFor(r)
      BY <1>2, <1>3, <1>4, <2>3 DEF EntriesFor
    <3> QED
      BY <2>1, <3>1, <3>2
  <2> QED
    BY <2>2, <2>3
<1>6. ASSUME NEW e \in Ids'
      PROVE  Cardinality(Reversals(e)') = IF entries'[e].status = "VOIDED" THEN 1 ELSE 0
  <2>1. Reversals(e)' = {d \in Ids : entries[d].reverses = e} \cup {d \in {n} : self.entry = e}
    BY <1>2, <1>3, <1>4 DEF Reversals
  <2>2. CASE e = n
    <3>1. self.entry \in 0..Len(entries)
      BY <1>1 DEF Sound, Refers
    <3>2. Reversals(e)' = {}
      BY <1>3, <1>4, <2>1, <2>2, <3>1
    <3> QED
      BY <1>2, <1>3, <2>2, <3>2, FS_EmptySet
  <2>3. CASE e \in Ids
    <3>1. Cardinality(Reversals(e)) = IF entries[e].status = "VOIDED" THEN 1 ELSE 0
      BY <2>3 DEF OncePerRefundAndReversal
    <3>2. CASE self.entry = e
      <4>1. self.kind = "reverse" /\ entries[e].status = "POSTED"
        BY <1>1, <1>3, <2>3, <3>2 DEF Shaped, Fresh
      <4>2. IsFiniteSet(Reversals(e))
        <5>1. IsFiniteSet(Ids)
          BY <1>3, FS_Interval
        <5> QED
          BY <5>1, FS_Subset DEF Reversals
      <4>3. Reversals(e) = {}
        BY <3>1, <4>1, <4>2, FS_EmptySet
      <4>4. Reversals(e)' = {n}
        BY <2>1, <3>2, <4>3 DEF Reversals
      <4> QED
        BY <1>4, <2>3, <3>2, <4>1, <4>4, FS_Singleton DEF Voids
    <3>3. CASE self.entry # e
      <4>1. Reversals(e)' = Reversals(e)
        BY <2>1, <3>3 DEF Reversals
      <4> QED
        BY <1>4, <2>3, <3>1, <3>3, <4>1 DEF Voids
    <3> QED
      BY <3>2, <3>3
  <2> QED
    BY <1>3, <2>2, <2>3
<1> QED
  BY <1>5, <1>6 DEF OncePerRefundAndReversal

LEMMA PostOnce ==
  ASSUME IInv, OncePerRefundAndReversal, NEW w \in Workers, PostCommit(w),
         Fresh(op[w], entries, link)
  PROVE  OncePerRefundAndReversal'
<1>1. /\ op[w].kind = "post" /\ op[w].entry \in Ids /\ Ids' = Ids /\ link' = link
      /\ entries[op[w].entry].status = "DRAFT"
  BY PostEffect DEF Fresh
<1>2. ASSUME NEW e \in Ids
      PROVE  /\ entries'[e].source = entries[e].source
             /\ entries'[e].reverses = entries[e].reverses
             /\ entries'[e].status = IF e = op[w].entry THEN "POSTED" ELSE entries[e].status
  BY PostFields DEF SameButStatus
<1>3. \A r \in Refunds : EntriesFor(r)' = EntriesFor(r)
  BY <1>1, <1>2 DEF EntriesFor
<1>4. \A e \in Ids : Reversals(e)' = Reversals(e)
  BY <1>1, <1>2 DEF Reversals
<1>5. ASSUME NEW e \in Ids
      PROVE  Cardinality(Reversals(e)') = IF entries'[e].status = "VOIDED" THEN 1 ELSE 0
  BY <1>1, <1>2, <1>4, <1>5 DEF OncePerRefundAndReversal
<1> QED
  BY <1>1, <1>3, <1>5 DEF OncePerRefundAndReversal

LEMMA ApartNext ==
  ASSUME IInv, Shapes, Apart, [MCNext]_<<vars, mixed, raced>>
  PROVE  Apart'
<1>1. CASE UNCHANGED <<vars, mixed, raced>>
  BY <1>1 DEF vars, tables, Apart, Overlap, OncePerRefundAndReversal, EntriesFor, Reversals, Ids
<1>2. CASE MCNext
  <2> SUFFICES ASSUME ~mixed'
               PROVE  /\ OncePerRefundAndReversal'
                      /\ \A v \in Workers : Fresh(op'[v], entries', link')
    BY <1>2 DEF MCNext, Apart
  <2>1. ~Overlap /\ OncePerRefundAndReversal /\ \A v \in Workers : Fresh(op[v], entries, link)
    BY <1>2 DEF MCNext, Apart
  <2>2. PICK w \in Workers : Moves(w) \/ Ends(w)
    BY <1>2, StepEffect DEF MCNext
  <2>3. CASE Moves(w)
    <3>1. entries' = entries /\ link' = link
      BY <2>3 DEF Moves, tables
    <3>2. Fresh(op'[w], entries, link)
      BY <2>1, <2>3, IdleFields DEF Moves, Starts, Continues, Fresh
    <3>3. OncePerRefundAndReversal'
      BY <2>1, <3>1 DEF OncePerRefundAndReversal, EntriesFor, Reversals, Ids
    <3> QED
      BY <2>1, <2>3, <3>1, <3>2, <3>3 DEF Moves, Untouched
  <2>4. CASE Ends(w)
    <3>1. OncePerRefundAndReversal'
      <4>1. CASE Close(w) \/ Ensure(w)
        <5>1. entries' = entries /\ link' = link
          BY <4>1, PeriodEffect
        <5> QED
          BY <2>1, <5>1 DEF OncePerRefundAndReversal, EntriesFor, Reversals, Ids
      <4> QED
        BY <2>1, <2>4, <4>1, CommitOnce, PostOnce DEF Ends
    <3>2. ASSUME NEW v \in Workers, v # w
          PROVE  Fresh(op[v], entries', link')
      <4>1. /\ Fresh(op[v], entries, link) /\ Shaped(op[v], entries) /\ Shaped(op[w], entries)
            /\ Sound(op[v]) /\ TypeOK
        BY <2>1, SelfFacts DEF Shapes, IInv
      <4>2. /\ op[v].kind = "refund" => op[v].source \in Refunds /\ op[v].source # op[w].source
            /\ op[v].kind \in {"reverse", "post"} => op[v].entry \in Ids /\ op[v].entry # op[w].entry
            /\ Ids = 1..Len(entries) /\ link \in [Refunds -> 0..Len(entries)]
        BY <2>1, <3>2, <4>1 DEF Shaped, Overlap, Sound, OnLine, TypeOK, Ids
      <4>3. CASE Commits(w)
        BY <4>1, <4>2, <4>3, CommitEffect DEF Fresh, Voids
      <4>4. CASE PostCommit(w)
        BY <4>1, <4>2, <4>4, PostEffect DEF Fresh
      <4>5. CASE Close(w) \/ Ensure(w)
        BY <4>1, <4>5, PeriodEffect DEF Fresh
      <4> QED
        BY <2>4, <4>3, <4>4, <4>5 DEF Ends
    <3>3. Fresh(op'[w], entries', link')
      BY <2>4, IdleFields DEF Ends, Fresh
    <3> QED
      BY <2>4, <3>1, <3>2, <3>3 DEF Ends, Untouched
  <2> QED
    BY <2>2, <2>3, <2>4
<1> QED
  BY <1>1, <1>2

-----------------------------------------------------------------------------
\* The balances.  While all postings are of one day, a number that is still the
\* next one was counted after the last commit, and so every balance read since
\* is the committed one.

Newest(self, es) ==
  /\ self.pc \in Balancing \cup {"insert"} /\ self.kind \notin {"draft", "post"}
  /\ self.number = Len(es) + 1

Current(self, totals) ==
  /\ \A i \in 1..2 :
       self.written[self.lines[i].account] =
         IF i < self.line THEN Plus(Base(self.period, totals)[self.lines[i].account], self.lines[i])
         ELSE Absent
  /\ self.pc = "write" => self.seen = Base(self.period, totals)[Account(self)]
  /\ self.pc = "insert" => self.line = 3

UpToDate == \A w \in Workers : Newest(op[w], entries) => Current(op[w], books)

Ledgers == OneDay => UpToDate /\ BooksAgree

\* The lines of a journal are one per account.
LEMMA TwoLines ==
  ASSUME NEW lines \in LinePairs
  PROVE  /\ lines[1].account # lines[2].account
         /\ \A a \in Accounts : \E i \in 1..2 :
              \A side \in Sides : lines[i].account = a /\
                ((\E j \in DOMAIN lines : lines[j] = Line(a, side)) <=> side = lines[i].side)
<1>1. CASE lines = CashIn
  BY <1>1 DEF CashIn, Line, Accounts, Sides
<1>2. CASE lines = CashOut
  BY <1>2 DEF CashOut, Line, Accounts, Sides
<1>3. CASE lines = Reversed(CashIn)
  <2>1. /\ DOMAIN lines = 1..2
        /\ lines[1] = Line("cash", "credit") /\ lines[2] = Line("held", "debit")
    BY <1>3 DEF CashIn, Line, Reversed, Swapped
  <2> QED
    BY <2>1 DEF Line, Accounts, Sides
<1>4. CASE lines = Reversed(CashOut)
  <2>1. /\ DOMAIN lines = 1..2
        /\ lines[1] = Line("held", "credit") /\ lines[2] = Line("cash", "debit")
    BY <1>4 DEF CashOut, Line, Reversed, Swapped
  <2> QED
    BY <2>1 DEF Line, Accounts, Sides
<1> QED
  BY <1>1, <1>2, <1>3, <1>4 DEF LinePairs

Marked(p, a, side) == {e \in Applied(p) : Has(e, Line(a, side))}

LEMMA MarkedType ==
  ASSUME TypeOK, NEW p, NEW a, NEW side
  PROVE  IsFiniteSet(Marked(p, a, side)) /\ Cardinality(Marked(p, a, side)) \in Nat
<1>1. IsFiniteSet(Ids)
  BY FS_Interval DEF TypeOK, Ids
<1>2. IsFiniteSet(Marked(p, a, side))
  BY <1>1, FS_Subset DEF Marked, Applied
<1> QED
  BY <1>2, FS_CardinalityType

\* The count of a day is at most that of all journals.
LEMMA CountBound ==
  ASSUME TypeOK, NEW day
  PROVE  Count(day) \in Nat /\ Count(day) <= Len(entries) /\ Len(entries) \in Nat
<1>1. Len(entries) \in Nat /\ Ids = 1..Len(entries)
  BY DEF TypeOK, Ids
<1>2. IsFiniteSet(Ids) /\ Cardinality(Ids) = Len(entries)
  BY <1>1, FS_Interval
<1> QED
  BY <1>1, <1>2, FS_Subset, FS_CardinalityType DEF Count, OfDay

\* One day later is one day before: days stay, and a draft posted stays posted.
LEMMA OneDayBack ==
  ASSUME NoNewDraft, \A e \in Ids : entries'[e].day = entries[e].day,
         \A e \in Ids : entries[e].status = "DRAFT" \/ entries'[e].status # "DRAFT",
         OneDay'
  PROVE  OneDay
  BY DEF NoNewDraft, OneDay

\* The steps of a transaction keep what it has read and written current.
LEMMA CurrentMoves ==
  ASSUME IInv, Shapes, NEW w \in Workers, Moves(w), Newest(op[w], entries) => Current(op[w], books),
         Newest(op'[w], entries)
  PROVE  Current(op'[w], books)
<1> DEFINE before == op[w]
           after == op'[w]
<1>1. before \in Request /\ Sound(before) /\ Shaped(before, entries) /\ TypeOK
  BY SelfFacts DEF Shapes, IInv
<1>2. Continues(before, after)
  BY IdleFields DEF Moves, Starts, Newest, Balancing
<1>3. /\ after.lines = before.lines /\ after.kind = before.kind
      /\ after.kind \notin {"draft", "post"} /\ before.lines \in LinePairs
  BY <1>1, <1>2 DEF Continues, Newest, Sound, OnLine, Preparing, Balancing
<1>4. /\ \A i \in 1..2 : before.lines[i].account \in Accounts
      /\ Len(before.lines) = 2 /\ before.lines[1].account # before.lines[2].account
  BY <1>3, PairFacts, TwoLines
<1>5. CASE before.pc = "number"
  <2>1. /\ before.line = 1 /\ after.line = 1 /\ after.pc = "read" /\ after.written = NoBook
    BY <1>1, <1>2, <1>3, <1>5 DEF Continues, Shaped, Sound, OnLine, Preparing
  <2> QED
    BY <1>3, <1>4, <2>1 DEF Current, NoBook
<1>6. CASE before.pc = "read"
  <2>1. /\ after.pc = "write" /\ after.written = before.written /\ after.line = before.line
        /\ after.period = before.period /\ after.number = before.number
        /\ after.seen = Balance(Account(before), before.period)
    BY <1>2, <1>6 DEF Continues
  <2>2. Current(before, books)
    BY <1>3, <1>6, <2>1 DEF Newest, Balancing
  <2>3. before.line \in 1..2 /\ Account(after) = Account(before) /\ Account(before) \in Accounts
    BY <1>1, <1>3, <1>4, <1>6, <2>1 DEF Sound, OnLine, Balancing, Account
  <2>4. after.seen = Base(after.period, books)[Account(after)]
    BY <2>1, <2>3 DEF Balance, Base, NoBook
  <2> QED
    BY <1>3, <2>1, <2>2, <2>4 DEF Current
<1>7. CASE before.pc = "write"
  <2>1. /\ after.pc = (IF before.line < Len(before.lines) THEN "read" ELSE "insert")
        /\ after.written = [before.written EXCEPT
                              ![Account(before)] = Plus(before.seen, before.lines[before.line])]
        /\ after.period = before.period /\ after.line = before.line + 1
        /\ after.number = before.number
    BY <1>2, <1>7 DEF Continues
  <2>2. Current(before, books)
    BY <1>3, <1>7, <2>1 DEF Newest, Balancing
  <2>3. before.line \in 1..2 /\ before.written \in [Accounts -> Totals]
    BY <1>1, <1>7 DEF Sound, OnLine, Balancing, Request, Books
  <2>4. /\ Account(before) = before.lines[before.line].account
        /\ before.seen = Base(before.period, books)[before.lines[before.line].account]
    BY <1>7, <2>2 DEF Current, Account
  <2>5. ASSUME NEW i \in 1..2
        PROVE  after.written[before.lines[i].account] =
                 IF i < after.line THEN Plus(Base(before.period, books)[before.lines[i].account],
                                             before.lines[i])
                 ELSE Absent
    <3>1. CASE i = before.line
      BY <1>4, <2>1, <2>3, <2>4, <3>1
    <3>2. CASE i # before.line
      <4>1. before.lines[i].account # Account(before)
        BY <1>4, <2>3, <2>4, <3>2
      <4>2. after.written[before.lines[i].account] = before.written[before.lines[i].account]
        BY <1>4, <2>1, <2>3, <4>1
      <4>3. i < after.line <=> i < before.line
        BY <2>1, <2>3, <3>2
      <4> QED
        BY <2>2, <4>2, <4>3 DEF Current
    <3> QED
      BY <3>1, <3>2
  <2>6. /\ after.pc # "write"
        /\ after.pc = "insert" => after.line = 3
    BY <1>4, <2>1, <2>3
  <2> QED
    BY <1>3, <2>1, <2>5, <2>6 DEF Current
<1>8. before.pc \in {"number", "read", "write"}
  BY <1>1, <1>2, <1>3 DEF Continues, Newest, Balancing, Sound, OnLine
<1> QED
  BY <1>5, <1>6, <1>7, <1>8

\* Of n things numbered from one there are n.
LEMMA CountUpTo ==
  ASSUME NEW m \in Nat
  PROVE  IsFiniteSet(1..m) /\ Cardinality(1..m) = m
<1>1. m \in Int /\ 1 \in Int
  OBVIOUS
<1>2. IsFiniteSet(1..m) /\ Cardinality(1..m) = IF 1 > m THEN 0 ELSE m - 1 + 1
  BY <1>1, FS_Interval
<1> QED
  BY <1>2

\* An insert that keeps to one day has the newest number.
LEMMA CommitIsNewest ==
  ASSUME IInv, NEW w \in Workers, Commits(w), OneDay', op[w].kind # "draft"
  PROVE  Newest(op[w], entries)
<1> DEFINE self == op[w]
           n == Len(entries) + 1
<1>1. self \in Request /\ Sound(self) /\ TypeOK /\ NumbersDense
  BY SelfFacts DEF IInv
<1>2. /\ self.pc = "insert" /\ self.kind # "post" /\ Len(entries) \in Nat
      /\ Ids = 1..Len(entries) /\ Ids' = Ids \cup {n} /\ entries'[n] = EntryOf(self)
  BY CommitEffect
<1>3. \A e \in Ids : entries[e].day = self.day
  <2>1. \A e \in Ids : entries'[e].day = entries[e].day
    BY CommitFields DEF SameButStatus
  <2>2. entries'[n].day = self.day
    BY <1>2 DEF EntryOf
  <2> QED
    BY <1>2, <2>1, <2>2 DEF OneDay
<1>4. OfDay(self.day) = Ids
  BY <1>3 DEF OfDay
<1>5. Count(self.day) = Len(entries)
  <2>1. IsFiniteSet(Ids) /\ Cardinality(Ids) = Len(entries)
    BY <1>2, CountUpTo
  <2> QED
    BY <1>4, <2>1 DEF Count
<1>6. self.number \in 1..Len(entries) + 1
  BY <1>1, <1>2, <1>5 DEF Sound, Numbered
<1>7. {entries[e].number : e \in Ids} = 1..Len(entries)
  BY <1>1, <1>4, <1>5 DEF NumbersDense, Count, Request
<1>8. self.number \notin {entries[e].number : e \in Ids}
  BY <1>4 DEF Commits, NumberFree
<1>9. self.number = Len(entries) + 1
  BY <1>2, <1>6, <1>7, <1>8
<1> QED
  BY <1>2, <1>9 DEF Newest

\* What a commit adds to the balances of its period is its own two lines.
LEMMA CommitAgrees ==
  ASSUME IInv, Shapes, NEW w \in Workers, Commits(w), BooksAgree,
         Newest(op[w], entries) => Current(op[w], books), OneDay'
  PROVE  BooksAgree'
<1> DEFINE self == op[w]
           n == Len(entries) + 1
           row == EntryOf(self)
<1>0. PICK q : q = PeriodOf(self)
  OBVIOUS
<1>1. self \in Request /\ Sound(self) /\ Shaped(self, entries) /\ TypeOK
  BY SelfFacts DEF Shapes, IInv
<1>2. /\ self.pc = "insert" /\ self.kind # "post" /\ Len(entries) \in Nat
      /\ Ids = 1..Len(entries) /\ Ids' = Ids \cup {n} /\ n \notin Ids
      /\ entries'[n] = row /\ CommitBooks(self)
  BY CommitEffect
<1>3. /\ row.period = q /\ row.lines = self.lines /\ self.lines \in LinePairs
      /\ row.status = IF self.kind = "draft" THEN "DRAFT" ELSE "POSTED"
  BY <1>0, <1>1, <1>2 DEF EntryOf, Sound, OnLine
<1>4. /\ DOMAIN periods' = DOMAIN periods \cup {q}
      /\ \A p \in DOMAIN periods : p # self.period => books'[p] = books[p]
      /\ books'[q] = WrittenOver(Base(self.period, books), self.written)
      /\ self.period # New => q = self.period /\ self.period \in DOMAIN periods
      /\ self.period = New => q \notin DOMAIN periods
  BY <1>0, <1>1, <1>2, BooksEffect DEF Sound, Refers
<1>5. ASSUME NEW e \in Ids
      PROVE  /\ entries'[e].period = entries[e].period /\ entries'[e].lines = entries[e].lines
             /\ entries'[e].status # "DRAFT" <=> entries[e].status # "DRAFT"
  <2>1. Voids(self, e) => entries[e].status # "DRAFT"
    BY <1>1 DEF Shaped, Voids
  <2> QED
    BY <2>1, CommitFields DEF SameButStatus
<1>6. ASSUME NEW p, NEW a, NEW side
      PROVE  Marked(p, a, side)' = Marked(p, a, side)
               \cup {d \in {n} : /\ p = q /\ self.kind # "draft"
                                 /\ \E i \in DOMAIN self.lines : self.lines[i] = Line(a, side)}
  BY <1>2, <1>3, <1>5 DEF Marked, Applied, Has
<1>7. ASSUME NEW a \in Accounts
      PROVE  Base(self.period, books)[a] = [side \in Sides |-> Cardinality(Marked(q, a, side))]
  <2>1. CASE self.period # New
    BY <1>4, <2>1 DEF Base, BooksAgree, Marked
  <2>2. CASE self.period = New
    <3>1. \A e \in Ids : entries[e].period # q
      BY <1>1, <1>4, <2>2 DEF TypeOK
    <3>2. \A side : Marked(q, a, side) = {}
      BY <3>1 DEF Marked, Applied
    <3> QED
      BY <2>2, <3>2, FS_EmptySet DEF Base, NoBook, Absent
  <2> QED
    BY <2>1, <2>2
<1>8. ASSUME NEW a \in Accounts
      PROVE  books'[q][a] = [side \in Sides |-> Cardinality(Marked(q, a, side)')]
  <2>1. books'[q][a] = IF self.written[a] = Absent THEN Base(self.period, books)[a]
                       ELSE self.written[a]
    BY <1>4 DEF WrittenOver
  <2>2. CASE self.kind = "draft"
    <3>1. self.written[a] = Absent
      BY <1>1, <2>2 DEF Shaped, NoBook
    <3>2. \A side : Marked(q, a, side)' = Marked(q, a, side)
      BY <1>6, <2>2
    <3> QED
      BY <1>7, <2>1, <3>1, <3>2
  <2>3. CASE self.kind # "draft"
    <3>1. Current(self, books)
      BY <2>3, CommitIsNewest
    <3>2. PICK i \in 1..2 : \A side \in Sides : self.lines[i].account = a /\
            ((\E j \in DOMAIN self.lines : self.lines[j] = Line(a, side)) <=> side = self.lines[i].side)
      BY <1>3, TwoLines
    <3>3. self.lines[i].account = a /\ self.lines[i].side \in Sides
      BY <1>3, <3>2, PairFacts DEF Sides
    <3>4. self.written[a] = Plus(Base(self.period, books)[a], self.lines[i])
      BY <1>2, <3>1, <3>3 DEF Current
    <3>5. ASSUME NEW side \in Sides
          PROVE  Cardinality(Marked(q, a, side)') =
                   Cardinality(Marked(q, a, side)) + (IF side = self.lines[i].side THEN 1 ELSE 0)
      <4>1. /\ IsFiniteSet(Marked(q, a, side))
            /\ Cardinality(Marked(q, a, side)) \in Nat
        BY <1>1, MarkedType
      <4>2. n \notin Marked(q, a, side)
        BY <1>2 DEF Marked, Applied
      <4>3. CASE side = self.lines[i].side
        <5>1. Marked(q, a, side)' = Marked(q, a, side) \cup {n}
          BY <1>6, <2>3, <3>2, <4>3
        <5> QED
          BY <4>1, <4>2, <4>3, <5>1, FS_AddElement
      <4>4. CASE side # self.lines[i].side
        <5>1. Marked(q, a, side)' = Marked(q, a, side)
          BY <1>6, <2>3, <3>2, <4>4
        <5> QED
          BY <4>1, <4>4, <5>1
      <4> QED
        BY <4>3, <4>4
    <3> DEFINE t == Base(self.period, books)[a]
    <3>6. Plus(t, self.lines[i]) = [side \in Sides |-> Cardinality(Marked(q, a, side)')]
      <4>1. \A side \in Sides : t[side] = Cardinality(Marked(q, a, side)) /\ t[side] \in Nat
        <5>1. \A side \in Sides : t[side] = Cardinality(Marked(q, a, side))
          BY <1>7
        <5> QED
          BY <1>1, <5>1, MarkedType
      <4>2. DOMAIN t = Sides
        BY <1>7
      <4>3. Plus(t, self.lines[i]) =
              [side \in Sides |-> IF side = self.lines[i].side THEN t[side] + 1 ELSE t[side]]
        BY <1>7, <3>3, <4>2 DEF Plus
      <4> QED
        BY <3>5, <4>1, <4>3
    <3>7. Plus(t, self.lines[i]) # Absent
      <4>1. t[self.lines[i].side] \in Nat /\ DOMAIN t = Sides
        <5>1. t[self.lines[i].side] = Cardinality(Marked(q, a, self.lines[i].side)) /\ DOMAIN t = Sides
          BY <1>7, <3>3
        <5> QED
          BY <1>1, <5>1, MarkedType
      <4>2. Plus(t, self.lines[i])[self.lines[i].side] = t[self.lines[i].side] + 1
        BY <3>3, <4>1 DEF Plus
      <4>3. Absent[self.lines[i].side] = 0
        BY <3>3 DEF Absent
      <4> QED
        BY <4>1, <4>2, <4>3
    <3> QED
      BY <2>1, <3>4, <3>6, <3>7
  <2> QED
    BY <2>2, <2>3
<1>9. ASSUME NEW p \in DOMAIN periods, p # q, NEW a \in Accounts
      PROVE  books'[p][a] = [side \in Sides |-> Cardinality(Marked(p, a, side)')]
  <2>1. \A side : Marked(p, a, side)' = Marked(p, a, side)
    BY <1>6, <1>9
  <2>2. books'[p] = books[p]
    <3>1. p # New
      BY <1>1 DEF TypeOK, New
    <3> QED
      BY <1>4, <1>9, <3>1
  <2> QED
    BY <2>1, <2>2 DEF BooksAgree, Marked
<1>10. ASSUME NEW p \in DOMAIN periods', NEW a \in Accounts
       PROVE  books'[p][a] = [side \in Sides |-> Cardinality(Marked(p, a, side)')]
  BY <1>4, <1>8, <1>9
<1> QED
  BY <1>10 DEF BooksAgree, Marked

LEMMA LedgersNext ==
  ASSUME IInv, Shapes, Ledgers, [Next]_vars
  PROVE  Ledgers'
<1>1. CASE UNCHANGED vars
  <2>1. UNCHANGED <<entries, periods, books, op>>
    BY <1>1 DEF vars, tables
  <2>2. OneDay' <=> OneDay
    BY <2>1 DEF OneDay, Ids
  <2>3. BooksAgree => BooksAgree'
    BY <2>1 DEF BooksAgree, Applied, Has, Ids
  <2>4. UpToDate => UpToDate'
    BY <2>1 DEF UpToDate
  <2> QED
    BY <2>2, <2>3, <2>4 DEF Ledgers
<1>2. CASE Next
  <2>1. PICK w \in Workers : Moves(w) \/ Ends(w)
    BY <1>2, StepEffect
  <2> SUFFICES ASSUME OneDay'
               PROVE  BooksAgree' /\ \A v \in Workers : Newest(op'[v], entries') => Current(op'[v], books')
    BY DEF Ledgers, UpToDate
  <2>2. TypeOK /\ \A e \in Ids : entries[e] \in Entry
    BY EntryFacts DEF IInv
  <2>3. CASE Moves(w)
    <3>1. entries' = entries /\ books' = books /\ periods' = periods
      BY <2>3 DEF Moves, tables
    <3>2. UpToDate /\ BooksAgree
      BY <3>1 DEF Ledgers, OneDay, Ids
    <3>3. BooksAgree'
      BY <3>1, <3>2 DEF BooksAgree, Applied, Has, Ids
    <3>4. Newest(op'[w], entries) => Current(op'[w], books)
      BY <2>3, <3>2, CurrentMoves DEF UpToDate
    <3> QED
      BY <2>3, <3>1, <3>2, <3>3, <3>4 DEF Moves, Untouched, UpToDate
  <2>4. CASE Ends(w) /\ Commits(w)
    <3>1. ASSUME NEW e \in Ids
          PROVE  /\ entries'[e].day = entries[e].day /\ entries'[e].kind = entries[e].kind
                 /\ entries'[e].status = entries[e].status \/ entries'[e].status = "VOIDED"
                 /\ Voids(op[w], e) => entries[e].status # "DRAFT"
      <4>1. Voids(op[w], e) => entries[e].status # "DRAFT"
        BY DEF Shapes, Shaped, Voids
      <4> QED
        BY <2>4, <4>1, CommitFields DEF SameButStatus
    <3>2. Ids \subseteq Ids' /\ Len(entries') = Len(entries) + 1
      BY <2>4, CommitEffect
    <3>3. ASSUME NEW e \in Ids
          PROVE  entries'[e].status = "DRAFT" <=> entries[e].status = "DRAFT"
      BY <2>4, <3>1, CommitFields
    <3>4. OneDay
      BY <3>1, <3>2, <3>3, OneDayBack DEF NoNewDraft
    <3>5. BooksAgree'
      BY <2>4, <3>4, CommitAgrees DEF Ledgers, UpToDate
    <3>6. ASSUME NEW v \in Workers
          PROVE  ~Newest(op'[v], entries')
      <4>1. CASE v = w
        BY <2>4, <4>1, IdleFields DEF Ends, Newest, Balancing
      <4>2. CASE v # w
        <5>1. op'[v] = op[v] /\ Sound(op[v])
          BY <2>4, <4>2, SelfFacts DEF Ends, Untouched
        <5>2. PICK day : day = op[v].day
          OBVIOUS
        <5>3. Count(day) \in Nat /\ Count(day) <= Len(entries) /\ Len(entries) \in Nat
          BY <2>2, CountBound
        <5>4. Newest(op'[v], entries') => op[v].number \in 1..Count(day) + 1
          BY <5>1, <5>2 DEF Newest, Sound, Numbered
        <5> QED
          BY <3>2, <5>1, <5>3, <5>4 DEF Newest
      <4> QED
        BY <4>1, <4>2
    <3> QED
      BY <3>5, <3>6
  <2>5. CASE Ends(w) /\ PostCommit(w)
    <3>1. /\ op[w].entry \in Ids /\ op[w].kind = "post" /\ Ids' = Ids
          /\ entries'[op[w].entry] = [entries[op[w].entry] EXCEPT !.status = "POSTED"]
      BY <2>5, PostEffect
    <3>2. entries[op[w].entry].kind = "draft" /\ entries[op[w].entry] \in Entry
      BY <2>2, <3>1 DEF Shapes, Shaped
    <3>3. entries'[op[w].entry].kind = "draft" /\ entries'[op[w].entry].status = "POSTED"
      BY <3>1, <3>2 DEF Entry
    <3> QED
      BY <3>1, <3>3 DEF OneDay
  <2>6. CASE Ends(w) /\ (Close(w) \/ Ensure(w))
    <3>1. /\ entries' = entries
          /\ \A p \in DOMAIN periods : books'[p] = books[p]
          /\ \A p \in DOMAIN periods' : p \in DOMAIN periods \/ books'[p] = NoBook
      BY <2>6, PeriodEffect
    <3>2. UpToDate /\ BooksAgree
      BY <3>1 DEF Ledgers, OneDay, Ids
    <3>3. ASSUME NEW p \in DOMAIN periods', NEW a \in Accounts
          PROVE  books'[p][a] = [side \in Sides |-> Cardinality(Marked(p, a, side))]
      <4>1. CASE p \in DOMAIN periods
        BY <3>1, <3>2, <4>1 DEF BooksAgree, Marked
      <4>2. CASE p \notin DOMAIN periods
        <5>1. \A e \in Ids : entries[e].period # p
          BY <2>2, <4>2 DEF TypeOK
        <5>2. \A side : Marked(p, a, side) = {}
          BY <5>1 DEF Marked, Applied
        <5> QED
          BY <3>1, <4>2, <5>2, FS_EmptySet DEF NoBook, Absent
      <4> QED
        BY <4>1, <4>2
    <3>4. BooksAgree'
      BY <3>1, <3>3 DEF BooksAgree, Marked, Applied, Has, Ids
    <3>5. ASSUME NEW v \in Workers, v # w
          PROVE  Newest(op[v], entries) => Current(op[v], books')
      <4>1. Base(op[v].period, books') = Base(op[v].period, books)
        <5>1. op[v].period = New \/ op[v].period \in DOMAIN periods
          BY <2>2, SelfFacts DEF Sound, Refers, New, TypeOK
        <5> QED
          BY <3>1, <5>1 DEF Base
      <4> QED
        BY <3>2, <4>1 DEF UpToDate, Current
    <3>6. ~Newest(op'[w], entries')
      BY <2>6, IdleFields DEF Ends, Newest, Balancing
    <3> QED
      BY <2>6, <3>1, <3>4, <3>5, <3>6 DEF Ends, Untouched
  <2> QED
    BY <2>1, <2>3, <2>4, <2>5, <2>6 DEF Ends
<1> QED
  BY <1>1, <1>2

-----------------------------------------------------------------------------
Kept == IInv /\ Shapes /\ Openly /\ Apart /\ Ledgers

LEMMA KeptInit == MCInit => Kept
<1> SUFFICES ASSUME MCInit PROVE Kept
  OBVIOUS
<1>1. IInv
  BY InitHolds DEF MCInit
<1>2. /\ entries = << >> /\ Ids = {} /\ DOMAIN entries = {} /\ link = [r \in Refunds |-> 0]
      /\ \A w \in Workers : op[w] = Idle
      /\ \A p \in DOMAIN periods : books[p] = NoBook
  BY DEF MCInit, Init, Ids
<1>3. Shapes
  BY <1>2, IdleShaped DEF Shapes, DraftsOnly
<1>4. Openly
  BY <1>2, IdleFields DEF Openly, Found, Taken
<1>5. Apart
  <2>1. ~Overlap
    BY <1>2, IdleFields, IdleMore, JournalConstants DEF Overlap
  <2>2. OncePerRefundAndReversal
    BY <1>2 DEF OncePerRefundAndReversal, EntriesFor
  <2> QED
    BY <1>2, <2>1, <2>2, IdleFields DEF Apart, Fresh
<1>6. Ledgers
  <2>1. UpToDate
    BY <1>2, IdleFields DEF UpToDate, Newest, Balancing
  <2>2. BooksAgree
    <3>1. \A p, a, side : {e \in Applied(p) : Has(e, Line(a, side))} = {}
      BY <1>2 DEF Applied
    <3> QED
      BY <1>2, <3>1, FS_EmptySet DEF BooksAgree, NoBook, Absent
  <2> QED
    BY <2>1, <2>2 DEF Ledgers
<1> QED
  BY <1>1, <1>3, <1>4, <1>5, <1>6 DEF Kept

LEMMA KeptNext == Kept /\ [MCNext]_<<vars, mixed, raced>> => Kept'
<1> SUFFICES ASSUME Kept, [MCNext]_<<vars, mixed, raced>> PROVE Kept'
  OBVIOUS
<1>1. [Next]_vars
  BY DEF MCNext
<1>2. IInv'
  BY <1>1, StepKeeps DEF Kept
<1> QED
  BY <1>1, <1>2, ShapesNext, OpenlyNext, ApartNext, LedgersNext DEF Kept

LEMMA KeptAlways == MCSpec => []Kept
  BY KeptInit, KeptNext, PTL DEF MCSpec

\* Nothing locks a balance between its read and its write, yet postings of one
\* day lose no increment: the unique number lets one of the transactions that
\* read the same balance commit.  And each refund and reversal is journaled
\* once unless two requests overlapped on it.
THEOREM BooksAddUp == MCSpec => []BooksUnlessMixed
<1>1. Kept => BooksUnlessMixed
  BY DEF Kept, Ledgers, Apart, BooksUnlessMixed, OneDayBooksAgree
<1> QED
  BY <1>1, KeptAlways, PTL

\* postDraft and reverseEntry update journals by id, and postings add to the
\* period they found OPEN: without an overlap no posted journal changes but by
\* its reversal, and no closed period's balances.
THEOREM PostedIsFixed == MCSpec => FixedUnlessMixed
<1>1. ASSUME Kept, ~mixed', [MCNext]_<<vars, mixed, raced>>, NEW e \in Ids
      PROVE  PostedIsImmutable(e)
  <2>1. CASE UNCHANGED <<vars, mixed, raced>>
    BY <2>1 DEF vars, tables, PostedIsImmutable
  <2>2. CASE MCNext
    <3>1. PICK w \in Workers : Moves(w) \/ Ends(w)
      BY <1>1, <2>2, StepEffect DEF MCNext, Kept
    <3>2. Fresh(op[w], entries, link) /\ IInv
      BY <1>1, <2>2 DEF MCNext, Kept, Apart
    <3>3. CASE Moves(w) \/ Close(w) \/ Ensure(w)
      BY <3>2, <3>3, PeriodEffect DEF Moves, tables, PostedIsImmutable
    <3>4. CASE Commits(w)
      <4>1. /\ Len(entries') = Len(entries) + 1
            /\ entries'[Len(entries')].reverses = op[w].entry
        <5>1. /\ Len(entries') = Len(entries) + 1
              /\ entries'[Len(entries) + 1] = EntryOf(op[w])
          BY <3>2, <3>4, CommitEffect
        <5> QED
          BY <5>1 DEF EntryOf
      <4>2. Voids(op[w], e) => entries[e].status = "POSTED" /\ op[w].entry = e
        BY <3>2 DEF Voids, Fresh
      <4> QED
        BY <3>2, <3>4, <4>1, <4>2, CommitEffect DEF PostedIsImmutable
    <3>5. CASE PostCommit(w)
      BY <3>2, <3>5, PostEffect DEF Fresh, PostedIsImmutable
    <3> QED
      BY <3>1, <3>3, <3>4, <3>5 DEF Ends
  <2> QED
    BY <1>1, <2>1, <2>2
<1>2. ASSUME Kept, ~raced', [MCNext]_<<vars, mixed, raced>>,
             NEW p \in DOMAIN periods, periods[p] = "CLOSED"
      PROVE  books'[p] = books[p]
  <2>1. CASE UNCHANGED <<vars, mixed, raced>>
    BY <2>1 DEF vars, tables
  <2>2. CASE MCNext
    <3>1. PICK w \in Workers : Moves(w) \/ Ends(w)
      BY <1>2, <2>2, StepEffect DEF MCNext, Kept
    <3>2. Found(op[w], periods) /\ IInv /\ TypeOK
      BY <1>2, <2>2 DEF MCNext, Kept, Openly, IInv
    <3>3. CASE Moves(w) \/ Close(w) \/ Ensure(w)
      BY <3>2, <3>3, PeriodEffect DEF Moves, tables
    <3>4. CASE Commits(w) \/ PostCommit(w)
      <4>1. /\ op[w] \in Request /\ op[w].period \in 0..Len(periods) /\ CommitBooks(op[w])
            /\ op[w].pc = "insert"
        BY <3>2, <3>4, SelfFacts, CommitEffect, PostEffect DEF Sound, Refers
      <4>2. p # op[w].period
        <5>1. p # New
          BY <3>2 DEF TypeOK, New
        <5> QED
          BY <1>2, <3>2, <4>1, <5>1 DEF Found, Taken
      <4> QED
        BY <3>2, <4>1, <4>2, BooksEffect
    <3> QED
      BY <3>1, <3>3, <3>4 DEF Ends
  <2> QED
    BY <1>2, <2>1, <2>2
<1> DEFINE fixed == /\ ~mixed' => \A e \in Ids : PostedIsImmutable(e)
                    /\ ~raced' => \A p \in DOMAIN periods :
                                    periods[p] = "CLOSED" => books'[p] = books[p]
<1>3. Kept /\ [MCNext]_<<vars, mixed, raced>> => [fixed]_vars
  BY <1>1, <1>2
<1> QED
  BY <1>3, KeptAlways, PTL DEF MCSpec, FixedUnlessMixed
=============================================================================
