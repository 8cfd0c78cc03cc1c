---------------------------- MODULE Commerce_proofs ----------------------------
(***************************************************************************)
(* What customers buy, for every set of requests, rows and amounts.  The   *)
(* models share the payment service's variables only, and a behaviour is   *)
(* one of theirs, so each has an inductive invariant of its own.           *)
(***************************************************************************)
EXTENDS MCCommerce, Sums, SequenceTheorems

-----------------------------------------------------------------------------
\* Event bookings.

\* What a request under way may rely on.
Attending(self, events) ==
  /\ self.pc \in {"pay", "gateway", "pay_write", "confirm", "fail"} => self.booking \in Bookings
  /\ self.pc = "confirm" => <<self.booking, "completed">> \in events

\* A booking that does not exist asks for nothing, and has no tickets.
NewIsEmpty == \A b \in Bookings : bookings[b].status = "NEW" => bookings[b].quantity = 0

\* What each unpaid booking reserves.
Unpaid(rows) == [b \in Bookings |-> IF rows[b].status = "PENDING_PAYMENT" THEN rows[b].quantity ELSE 0]

Taken == type.sold + SumOver(Unpaid(bookings), Bookings)

\* A purchase that nothing overlaps still sees what is left, and has checked that it
\* fits in with the reservations there are.
BuyingAlone(self, t, rows) ==
  /\ self.pc \in {"reserve", "buy"} => self.seen + t.sold <= t.total
  /\ self.pc = "buy" => self.quantity + SumOver(Unpaid(rows), Bookings) <= self.seen

Unraced ==
  /\ ~B!Overlapped
  /\ Taken <= type.total
  /\ \A w \in Workers : BuyingAlone(op[w], type, bookings)

TicketsAgree ==
  /\ \A b \in Bookings :
       /\ tickets[b] = IF bookings[b].status = "PAID" THEN bookings[b].quantity ELSE 0
       /\ bookings[b].status = "PAID" => bookings[b].free \/ <<b, "completed">> \in published
  /\ type.sold = SumOver(tickets, Bookings)

BookingInv ==
  /\ B!TypeOK /\ NewIsEmpty /\ TicketsAgree
  /\ \A w \in Workers : Attending(op[w], published)
  /\ raced \in BOOLEAN /\ (~raced => Unraced)

\* The sums of the properties are these.
LEMMA ReservedIsSum ==
  ASSUME B!TypeOK
  PROVE  B!Reserved = SumOver(Unpaid(bookings), Bookings)
<1> DEFINE S == {b \in Bookings : bookings[b].status = "PENDING_PAYMENT"}
           f == [b \in S |-> bookings[b].quantity]
           step(g, s) == IF s = {} THEN 0 ELSE bookings[Chosen(s)].quantity + g[s \ {Chosen(s)}]
           sums == CHOOSE g : g = [s \in SUBSET S |-> step(g, s)]
<1>1. B!Reserved = sums[S]
  BY Zenon DEF B!Reserved, B!MapThenSumSet, B!MapThenFoldSet, Chosen
<1>2. \A g : \A s \in SUBSET S : step(g, s) = SumStep(f, s, g)
  BY ChosenIn DEF SumStep
<1>3. /\ S \in SUBSET Bookings
      /\ \A b \in S : f[b] \in Int
      /\ Kept(f, Bookings, S) = Unpaid(bookings)
  <2>1. \A b \in S : f[b] = bookings[b].quantity
    OBVIOUS
  <2>2. \A b \in S : bookings[b].quantity \in Int
    BY DEF B!TypeOK, B!Row
  <2> HIDE DEF f
  <2>3. Kept(f, Bookings, S) = Unpaid(bookings)
    BY <2>1 DEF Kept, Unpaid
  <2> QED
    BY <2>1, <2>2, <2>3
<1> HIDE DEF step, f, S
<1>4. \A g : (g = [s \in SUBSET S |-> step(g, s)]) <=> Summation(f, g, S)
  BY <1>2 DEF Summation
<1>5. sums = PartSums(f, S)
  BY <1>4 DEF PartSums
<1>6. SumOver(f, S) = SumOver(Kept(f, Bookings, S), Bookings)
  BY <1>3, SumKept, BookingConstants
<1> QED
  BY <1>1, <1>3, <1>5, <1>6, SumIsPartSums DEF S

LEMMA BookingsImplied ==
  ASSUME BookingInv
  PROVE  B!TypeOK /\ B!TicketsMatchSales /\ B!NotOversoldUnlessRaced
<1>1. B!TypeOK
  BY DEF BookingInv
<1>2. B!TicketsMatchSales
  <2>1. SumOver(tickets, Bookings) = B!MapThenSumSet(LAMBDA b : tickets[b], Bookings)
    BY Zenon DEF SumOver, MapThenSumSet, MapThenFoldSet, B!MapThenSumSet, B!MapThenFoldSet
  <2> QED
    BY <2>1, Zenon DEF BookingInv, TicketsAgree, B!TicketsMatchSales
<1>3. B!NotOversoldUnlessRaced
  BY <1>1, ReservedIsSum DEF BookingInv, Unraced, Taken, B!NotOversoldUnlessRaced
<1> QED
  BY <1>1, <1>2, <1>3

LEMMA IdleBooking ==
  /\ B!Idle \in B!Request /\ B!Idle.pc = "idle" /\ B!Idle.booking = None
  /\ B!Idle.quantity = 0 /\ B!Idle.seen = 0
  BY DEF B!Idle, B!Request

LEMMA BookingFacts ==
  ASSUME BookingInv
  PROVE  /\ type \in [total : Nat, sold : Nat, free : BOOLEAN, active : BOOLEAN]
         /\ bookings \in [Bookings -> B!Row] /\ tickets \in [Bookings -> Nat]
         /\ op \in [Workers -> B!Request]
         /\ \A b \in Bookings : Unpaid(bookings)[b] \in Nat
         /\ SumOver(Unpaid(bookings), Bookings) \in Int
         /\ \A w \in Workers : op[w].seen \in Nat /\ op[w].quantity \in Nat
<1>1. \A b \in Bookings : Unpaid(bookings)[b] \in Nat
  BY DEF BookingInv, B!TypeOK, B!Row, Unpaid
<1>2. SumOver(Unpaid(bookings), Bookings) \in Int
  BY <1>1, SumType, BookingConstants
<1> QED
  BY <1>1, <1>2 DEF BookingInv, B!TypeOK, B!Request

\* A step that leaves the ticket type, the bookings and the tickets alone, and whose
\* request, if it has one, is sound afterwards.
Onlooker ==
  /\ UNCHANGED <<type, bookings, tickets>>
  /\ published \subseteq published'
  /\ B!TypeOK'
  /\ \A w \in Workers :
       \/ op'[w] = op[w]
       \/ /\ Attending(op'[w], published')
          /\ ~raced' => BuyingAlone(op'[w], type, bookings)

LEMMA OnlookerKeeps ==
  ASSUME BookingInv, Onlooker, raced' \in BOOLEAN, ~raced' => ~raced /\ ~B!Overlapped'
  PROVE  BookingInv'
<1>1. NewIsEmpty' /\ TicketsAgree'
  BY DEF BookingInv, Onlooker, NewIsEmpty, TicketsAgree
<1>2. \A w \in Workers : Attending(op[w], published)'
  BY DEF BookingInv, Onlooker, Attending
<1>3. ASSUME ~raced' PROVE Unraced'
  BY <1>3 DEF BookingInv, Onlooker, Unraced, Taken, BuyingAlone
<1> QED
  BY <1>1, <1>2, <1>3 DEF BookingInv, Onlooker

\* Requests that arrive, look, ask the gateway or end; and what the gateway and the
\* admin do, but for the capacity.
LEMMA OnlookerSteps ==
  ASSUME BookingInv, B!MCNext
  PROVE  \/ Onlooker
         \/ \E total \in Capacities, free \in BOOLEAN, active \in BOOLEAN :
              B!UpdateTicketType(total, free, active)
         \/ \E w \in Workers :
              B!PayWrite(w) \/ B!FailWrite(w) \/ B!Confirm(w)
              \/ \E b \in Bookings : B!BuyCommit(w, b)
<1>0. /\ B!TypeOK /\ \A w \in Workers : Attending(op[w], published)
      /\ \A w \in Workers : op[w] \in B!Request
  BY DEF BookingInv, B!TypeOK
<1>1. ASSUME NEW w \in Workers, NEW self \in B!Request, B!Become(w, self),
             UNCHANGED <<type, bookings, tickets, published>>,
             event' = event, payment' = payment \/ payment' \in [Bookings -> {"none", "asked", "completed", "failed"}],
             left' \in 0..MaxBookingOps, faults' \in 0..MaxFaults,
             Attending(self, published),
             ~raced' => BuyingAlone(self, type, bookings)
      PROVE  Onlooker
  <2>1. /\ op' = [op EXCEPT ![w] = self] /\ op \in [Workers -> B!Request]
    BY <1>0, <1>1 DEF B!Become, B!TypeOK
  <2>2. op' \in [Workers -> B!Request] /\ op'[w] = self
    BY <2>1
  <2>3. \A v \in Workers : v = w \/ op'[v] = op[v]
    BY <2>1
  <2>4. B!TypeOK'
    BY <1>0, <1>1, <2>2 DEF B!TypeOK
  <2> QED
    BY <1>1, <2>2, <2>3, <2>4 DEF Onlooker
<1>2. ASSUME NEW w \in Workers, B!Done(w), UNCHANGED <<event, type, bookings, tickets, published>>,
             payment' = payment \/ payment' \in [Bookings -> {"none", "asked", "completed", "failed"}],
             left' \in 0..MaxBookingOps, faults' \in 0..MaxFaults
      PROVE  Onlooker
  BY <1>1, <1>2, IdleBooking DEF B!Done, Attending, BuyingAlone
<1>3. /\ left \in 0..MaxBookingOps /\ faults \in 0..MaxFaults
      /\ B!Spend => left' \in 0..MaxBookingOps
  BY <1>0, BookingConstants DEF B!TypeOK, B!Spend
<1>4. ASSUME NEW w \in Workers, NEW n \in Quantities, B!BuyStart(w, n)
      PROVE  Onlooker
  <2>1. /\ type.total >= type.sold /\ type.total \in Nat /\ type.sold \in Nat /\ type.free \in BOOLEAN
    BY <1>4, BookingFacts DEF B!BuyStart
  <2>2. PICK rest \in Nat, free \in BOOLEAN : rest = type.total - type.sold /\ free = type.free
    BY <2>1
  <2> DEFINE self == [B!Idle EXCEPT !.pc = "reserve", !.quantity = n, !.free = free, !.seen = rest]
  <2>3. /\ self \in B!Request /\ self.pc = "reserve" /\ self.seen = rest
    BY BookingConstants DEF B!Request, B!Idle
  <2>4. /\ B!Become(w, self) /\ B!Spend
        /\ UNCHANGED <<event, type, bookings, tickets, payment, published, faults>>
    BY <1>4, <2>2 DEF B!BuyStart, B!Accept
  <2> HIDE DEF self
  <2>5. Attending(self, published) /\ BuyingAlone(self, type, bookings)
    BY <2>1, <2>2, <2>3 DEF Attending, BuyingAlone
  <2> QED
    BY <1>1, <1>3, <2>3, <2>4, <2>5
<1>5. ASSUME NEW w \in Workers, B!BuyCheck(w)
      PROVE  Onlooker
  <2> DEFINE self == [op[w] EXCEPT !.pc = "buy"]
  <2>1. UNCHANGED <<event, type, bookings, tickets, payment, published, left, faults>>
    BY <1>5 DEF B!BuyCheck
  <2>2. CASE B!Done(w)
    BY <1>2, <1>3, <2>1, <2>2
  <2>3. CASE ~B!Done(w)
    <3>1. /\ op[w].pc = "reserve" /\ B!Become(w, self)
          /\ op[w].quantity + B!Reserved <= op[w].seen
      BY <1>5, <2>3 DEF B!BuyCheck, B!At
    <3>2. /\ self \in B!Request /\ self.pc = "buy" /\ self.seen = op[w].seen
          /\ self.quantity = op[w].quantity
      BY <1>0 DEF B!Request
    <3> HIDE DEF self
    <3>3. Attending(self, published)
      BY <3>2 DEF Attending
    <3>4. ASSUME ~raced' PROVE BuyingAlone(self, type, bookings)
      <4>1. BuyingAlone(op[w], type, bookings)
        BY <3>4 DEF B!MCNext, BookingInv, Unraced
      <4> QED
        BY <1>0, <3>1, <3>2, <4>1, ReservedIsSum DEF BuyingAlone
    <3> QED
      BY <1>1, <1>3, <2>1, <3>1, <3>2, <3>3, <3>4
  <2> QED
    BY <2>2, <2>3
<1>6. ASSUME NEW w \in Workers, NEW b \in Bookings,
             B!PayStart(w, b) \/ B!CompletedStart(w, b) \/ B!FailedStart(w, b)
      PROVE  Onlooker
  <2>1. PICK pc \in {"gateway", "confirm", "fail"} :
          /\ B!Accept(w, [B!Idle EXCEPT !.pc = pc, !.booking = b])
          /\ pc = "confirm" => <<b, "completed">> \in published
    BY <1>6 DEF B!PayStart, B!CompletedStart, B!FailedStart
  <2> DEFINE self == [B!Idle EXCEPT !.pc = pc, !.booking = b]
  <2>2. self \in B!Request /\ self.pc = pc /\ self.booking = b
    BY DEF B!Idle, B!Request
  <2>3. /\ B!Become(w, self) /\ B!Spend
        /\ UNCHANGED <<event, type, bookings, tickets, payment, published, faults>>
    BY <2>1 DEF B!Accept
  <2> HIDE DEF self
  <2>4. Attending(self, published) /\ BuyingAlone(self, type, bookings)
    BY <2>1, <2>2 DEF Attending, BuyingAlone
  <2> QED
    BY <1>1, <1>3, <2>2, <2>3, <2>4
<1>7. ASSUME NEW w \in Workers, B!PayRead(w) \/ B!Initiate(w)
      PROVE  Onlooker
  <2>1. /\ UNCHANGED <<event, type, bookings, tickets, published, left, faults>>
        /\ payment' = payment \/ payment' \in [Bookings -> {"none", "asked", "completed", "failed"}]
    BY <1>0, <1>7 DEF B!PayRead, B!Initiate, B!TypeOK
  <2>2. CASE B!Done(w)
    BY <1>2, <1>3, <2>1, <2>2
  <2>3. CASE ~B!Done(w)
    <3>1. PICK pc \in {"gateway", "pay_write"} : B!Become(w, [op[w] EXCEPT !.pc = pc])
      BY <1>7, <2>3 DEF B!PayRead, B!Initiate
    <3> DEFINE self == [op[w] EXCEPT !.pc = pc]
    <3>2. self \in B!Request /\ self.pc = pc /\ self.booking = op[w].booking
      BY <1>0 DEF B!Request
    <3>3. op[w].booking \in Bookings
      BY <1>0, <1>7 DEF B!PayRead, B!Initiate, B!At, Attending
    <3>4. B!Become(w, self)
      BY <3>1
    <3> HIDE DEF self
    <3>5. Attending(self, published) /\ BuyingAlone(self, type, bookings)
      BY <3>2, <3>3 DEF Attending, BuyingAlone
    <3> QED
      BY <1>1, <1>3, <2>1, <3>2, <3>4, <3>5
  <2> QED
    BY <2>2, <2>3
<1>8. ASSUME NEW w \in Workers, B!Die(w)
      PROVE  Onlooker
  <2>1. faults' \in 0..MaxFaults
    BY <1>3, <1>8, BookingConstants DEF B!Die
  <2> QED
    BY <1>2, <1>3, <1>8, <2>1 DEF B!Die
<1>9. ASSUME B!PublishEvent \/ B!DeleteEvent
      PROVE  Onlooker
  <2>1. /\ UNCHANGED <<type, bookings, tickets, payment, published, op, faults>> /\ B!Spend
        /\ event' \in {"PUBLISHED", "ARCHIVED"}
    BY <1>9 DEF B!PublishEvent, B!DeleteEvent
  <2>2. B!TypeOK'
    BY <1>0, <1>3, <2>1 DEF B!TypeOK
  <2> QED
    BY <2>1, <2>2 DEF Onlooker
<1>10. ASSUME NEW b \in Bookings, B!Settle(b, "completed") \/ B!Settle(b, "failed") \/ B!Retry(b)
       PROVE  Onlooker
  <2>1. /\ UNCHANGED <<event, type, bookings, tickets, op, faults>>
        /\ left' = left \/ B!Spend
        /\ payment' \in [Bookings -> {"none", "asked", "completed", "failed"}]
        /\ published \subseteq published' /\ published' \subseteq Bookings \X {"completed", "failed"}
    BY <1>0, <1>10 DEF B!Settle, B!Retry, B!TypeOK
  <2>2. B!TypeOK'
    BY <1>0, <1>3, <2>1 DEF B!TypeOK
  <2> QED
    BY <2>1, <2>2 DEF Onlooker
<1> QED
  BY <1>4, <1>5, <1>6, <1>7, <1>8, <1>9, <1>10
  DEF B!MCNext, B!Next, B!Arrives, B!Step, B!Admin

\* One booking's reservation changes.
LEMMA UnpaidChanged ==
  ASSUME NEW rows \in [Bookings -> B!Row], NEW more \in [Bookings -> B!Row], NEW b \in Bookings,
         \A c \in Bookings \ {b} : more[c] = rows[c]
  PROVE  /\ SumOver(Unpaid(more), Bookings)
              = SumOver(Unpaid(rows), Bookings) + Unpaid(more)[b] - Unpaid(rows)[b]
         /\ SumOver(Unpaid(rows), Bookings) \in Int
<1>1. /\ \A c \in Bookings : Unpaid(rows)[c] \in Int /\ Unpaid(more)[c] \in Int
      /\ \A c \in Bookings \ {b} : Unpaid(rows)[c] = Unpaid(more)[c]
  BY DEF Unpaid, B!Row
<1> QED
  BY <1>1, BookingConstants, SumChange, SumType

\* The admin sets the capacity: to less only if that counts as a race.
LEMMA CapacityStep ==
  ASSUME BookingInv, B!MCNext, NEW total \in Capacities, NEW free \in BOOLEAN,
         NEW active \in BOOLEAN, B!UpdateTicketType(total, free, active)
  PROVE  BookingInv'
<1>1. /\ type' = [type EXCEPT !.total = total, !.free = free, !.active = active] /\ B!Spend
      /\ UNCHANGED <<event, bookings, tickets, payment, published, op, faults>>
  BY DEF B!UpdateTicketType
<1>2. type \in [total : Nat, sold : Nat, free : BOOLEAN, active : BOOLEAN] /\ total \in Nat
  BY BookingFacts, BookingConstants
<1>3. /\ type' \in [total : Nat, sold : Nat, free : BOOLEAN, active : BOOLEAN]
      /\ type'.sold = type.sold /\ type'.total = total
  BY <1>1, <1>2
<1>4. B!TypeOK'
  <2>1. left' \in 0..MaxBookingOps
    BY <1>1, BookingConstants DEF BookingInv, B!TypeOK, B!Spend
  <2> QED
    BY <1>1, <1>3, <2>1 DEF BookingInv, B!TypeOK
<1>5. /\ NewIsEmpty' /\ TicketsAgree' /\ \A w \in Workers : Attending(op'[w], published')
  BY <1>1, <1>3 DEF BookingInv, NewIsEmpty, TicketsAgree
<1>6. ASSUME ~raced'
      PROVE  Unraced'
  <2>1. ~raced /\ ~B!Overlapped' /\ ~(type'.total < type.total)
    BY <1>6 DEF B!MCNext
  <2>2. type.total <= type'.total /\ type.total \in Nat /\ type'.total \in Nat /\ type.sold \in Nat
    BY <1>2, <1>3, <2>1
  <2>3. Taken' <= type'.total
    BY <1>1, <1>3, <2>1, <2>2, BookingFacts DEF BookingInv, Unraced, Taken
  <2>4. ASSUME NEW w \in Workers
        PROVE  BuyingAlone(op'[w], type', bookings')
    <3>1. BuyingAlone(op[w], type, bookings) /\ op[w].seen \in Nat
      BY <2>1, BookingFacts DEF BookingInv, Unraced
    <3> QED
      BY <1>1, <1>3, <2>2, <3>1 DEF BuyingAlone
  <2> QED
    BY <2>1, <2>3, <2>4 DEF Unraced
<1>7. raced' \in BOOLEAN
  BY DEF B!MCNext, BookingInv
<1> QED
  BY <1>4, <1>5, <1>6, <1>7 DEF BookingInv

Rewritten(f, g, b, v, S) == g \in [Bookings -> S] /\ g[b] = v /\ \A c \in Bookings \ {b} : g[c] = f[c]

Sold(n) ==
  /\ type' \in [total : Nat, sold : Nat, free : BOOLEAN, active : BOOLEAN]
  /\ type'.total = type.total /\ type'.sold = type.sold + n

\* A request's last write: one booking, perhaps the tickets sold.
LEMMA BookingWritten ==
  ASSUME BookingInv, B!MCNext, NEW w \in Workers, NEW b \in Bookings, NEW row \in B!Row,
         NEW n \in Nat, NEW m \in Nat, NEW self \in B!Request,
         B!Become(w, self), UNCHANGED <<event, payment, published, left, faults>>,
         Rewritten(bookings, bookings', b, row, B!Row), Rewritten(tickets, tickets', b, m, Nat),
         Sold(n), m = tickets[b] + n, m = (IF row.status = "PAID" THEN row.quantity ELSE 0),
         row.status = "PAID" => row.free \/ <<b, "completed">> \in published,
         row.status = "NEW" => row.quantity = 0,
         Attending(self, published), self.pc \notin {"reserve", "buy"},
         ~raced' => /\ type.sold + n + SumOver(Unpaid(bookings'), Bookings) <= type.total
                    /\ (n # 0 \/ Unpaid(bookings')[b] > Unpaid(bookings)[b])
                         => \A v \in Workers \ {w} : op[v].pc \notin {"reserve", "buy"}
  PROVE  BookingInv'
<1>1. /\ type \in [total : Nat, sold : Nat, free : BOOLEAN, active : BOOLEAN]
      /\ bookings \in [Bookings -> B!Row] /\ tickets \in [Bookings -> Nat]
      /\ op \in [Workers -> B!Request]
  BY BookingFacts
<1>2. /\ type' \in [total : Nat, sold : Nat, free : BOOLEAN, active : BOOLEAN]
      /\ type'.total = type.total /\ type'.sold = type.sold + n
  BY DEF Sold
<1>3. /\ bookings' \in [Bookings -> B!Row] /\ bookings'[b] = row
      /\ \A c \in Bookings \ {b} : bookings'[c] = bookings[c]
  BY DEF Rewritten
<1>4. /\ tickets' \in [Bookings -> Nat] /\ tickets'[b] = m
      /\ \A c \in Bookings \ {b} : tickets'[c] = tickets[c]
  BY DEF Rewritten
<1>5. /\ op' \in [Workers -> B!Request] /\ op'[w] = self
      /\ \A v \in Workers \ {w} : op'[v] = op[v]
  BY <1>1 DEF B!Become
<1>6. B!TypeOK'
  BY <1>2, <1>3, <1>4, <1>5 DEF BookingInv, B!TypeOK
<1>7. NewIsEmpty'
  BY <1>3 DEF BookingInv, NewIsEmpty
<1>8. TicketsAgree'
  <2>1. SumOver(tickets', Bookings) = SumOver(tickets, Bookings) + tickets'[b] - tickets[b]
    <3>1. /\ \A c \in Bookings : tickets[c] \in Int
          /\ \A c \in Bookings : tickets'[c] \in Int
          /\ \A c \in Bookings \ {b} : tickets[c] = tickets'[c]
      BY <1>1, <1>4
    <3> QED
      BY <3>1, BookingConstants, SumChange
  <2>2. type.sold = SumOver(tickets, Bookings) /\ type.sold \in Nat /\ tickets[b] \in Nat
    BY <1>1 DEF BookingInv, TicketsAgree
  <2>3. type'.sold = SumOver(tickets', Bookings)
    BY <1>2, <1>4, <2>1, <2>2
  <2> QED
    BY <1>3, <1>4, <2>3 DEF BookingInv, TicketsAgree
<1>9. \A v \in Workers : Attending(op'[v], published')
  BY <1>5 DEF BookingInv
<1>10. ASSUME ~raced'
       PROVE  Unraced'
  <2>1. ~raced /\ ~B!Overlapped'
    BY <1>10 DEF B!MCNext
  <2>2. Taken' <= type'.total
    BY <1>2, <1>10 DEF Taken
  <2>3. ASSUME NEW v \in Workers
        PROVE  BuyingAlone(op'[v], type', bookings')
    <3>1. CASE v = w
      BY <1>5, <3>1 DEF BuyingAlone
    <3>2. CASE v # w /\ op[v].pc \notin {"reserve", "buy"}
      BY <1>5, <3>2 DEF BuyingAlone
    <3>3. CASE v # w /\ op[v].pc \in {"reserve", "buy"}
      <4>1. n = 0 /\ ~(Unpaid(bookings')[b] > Unpaid(bookings)[b])
        BY <1>10, <3>3
      <4>2. /\ BuyingAlone(op[v], type, bookings) /\ op[v].seen \in Nat /\ op[v].quantity \in Nat
            /\ Unpaid(bookings)[b] \in Nat /\ Unpaid(bookings')[b] \in Nat
        BY <1>3, <2>1, BookingFacts DEF BookingInv, Unraced, Unpaid, B!Row
      <4>3. /\ SumOver(Unpaid(bookings'), Bookings)
                 = SumOver(Unpaid(bookings), Bookings) + Unpaid(bookings')[b] - Unpaid(bookings)[b]
            /\ SumOver(Unpaid(bookings), Bookings) \in Int
        BY <1>1, <1>3, UnpaidChanged
      <4>4. SumOver(Unpaid(bookings'), Bookings) <= SumOver(Unpaid(bookings), Bookings)
            /\ SumOver(Unpaid(bookings'), Bookings) \in Int
        BY <4>1, <4>2, <4>3
      <4> QED
        BY <1>1, <1>2, <1>5, <3>3, <4>1, <4>2, <4>3, <4>4 DEF BuyingAlone
    <3> QED
      BY <3>1, <3>2, <3>3
  <2> QED
    BY <2>1, <2>2, <2>3 DEF Unraced
<1>11. raced' \in BOOLEAN
  BY DEF B!MCNext, BookingInv
<1> QED
  BY <1>6, <1>7, <1>8, <1>9, <1>10, <1>11 DEF BookingInv

\* The fields of a row whose payment status, or both statuses, are written.
LEMMA RowFields ==
  ASSUME NEW row \in B!Row, NEW pay \in {"PENDING", "PROCESSING", "SUCCESS", "FAILED"}
  PROVE  /\ LET r == [row EXCEPT !.pay = pay]
            IN r \in B!Row /\ r.status = row.status /\ r.quantity = row.quantity /\ r.free = row.free
         /\ LET r == [row EXCEPT !.status = "PAID", !.pay = pay]
            IN r \in B!Row /\ r.status = "PAID" /\ r.quantity = row.quantity /\ r.free = row.free
  BY DEF B!Row

LEMMA PayWriteKeeps ==
  ASSUME BookingInv, B!MCNext, NEW w \in Workers, B!PayWrite(w) \/ B!FailWrite(w)
  PROVE  BookingInv'
<1>1. PICK b \in Bookings : b = op[w].booking
  BY DEF BookingInv, Attending, B!PayWrite, B!FailWrite, B!At
<1>2. bookings[b] \in B!Row /\ tickets[b] \in Nat /\ type \in [total : Nat, sold : Nat, free : BOOLEAN, active : BOOLEAN]
      /\ bookings \in [Bookings -> B!Row] /\ tickets \in [Bookings -> Nat]
  BY BookingFacts
<1>3. PICK pay \in {"PROCESSING", "FAILED"} :
        /\ bookings' = [bookings EXCEPT ![b].pay = pay] /\ B!Done(w)
        /\ UNCHANGED <<event, type, tickets, payment, published, left, faults>>
  BY <1>1 DEF B!PayWrite, B!FailWrite
<1>4. PICK row \in B!Row : /\ row = [bookings[b] EXCEPT !.pay = pay]
                           /\ row.status = bookings[b].status /\ row.quantity = bookings[b].quantity
                           /\ row.free = bookings[b].free
  <2> DEFINE r == [bookings[b] EXCEPT !.pay = pay]
  <2>1. /\ r \in B!Row /\ r.status = bookings[b].status /\ r.quantity = bookings[b].quantity
        /\ r.free = bookings[b].free
    BY <1>2 DEF B!Row
  <2>2. r = [bookings[b] EXCEPT !.pay = pay]
    OBVIOUS
  <2> HIDE DEF r
  <2> QED
    BY <2>1, <2>2
<1>5. /\ Rewritten(bookings, bookings', b, row, B!Row)
      /\ Rewritten(tickets, tickets', b, tickets[b], Nat) /\ Sold(0)
  BY <1>2, <1>3, <1>4 DEF Rewritten, Sold
<1>6. /\ tickets[b] = tickets[b] + 0
      /\ tickets[b] = (IF row.status = "PAID" THEN row.quantity ELSE 0)
      /\ row.status = "PAID" => row.free \/ <<b, "completed">> \in published
      /\ row.status = "NEW" => row.quantity = 0
  BY <1>2, <1>4 DEF BookingInv, TicketsAgree, NewIsEmpty
<1>7. Unpaid(bookings') = Unpaid(bookings) /\ Unpaid(bookings)[b] \in Nat
  <2>1. \A c \in Bookings : /\ bookings'[c].status = bookings[c].status
                            /\ bookings'[c].quantity = bookings[c].quantity
    BY <1>4, <1>5 DEF Rewritten
  <2> QED
    BY <2>1, BookingFacts DEF Unpaid
<1>8. ~raced' => type.sold + 0 + SumOver(Unpaid(bookings'), Bookings) <= type.total
  <2>1. ~raced' => type.sold + SumOver(Unpaid(bookings), Bookings) <= type.total
    BY DEF B!MCNext, BookingInv, Unraced, Taken
  <2>2. type.sold \in Nat
    BY <1>2
  <2> QED
    BY <1>7, <2>1, <2>2
<1>9. B!Become(w, B!Idle) /\ Attending(B!Idle, published)
  BY <1>3, IdleBooking DEF B!Done, Attending
<1>10. ~(0 # 0 \/ Unpaid(bookings')[b] > Unpaid(bookings)[b])
  BY <1>7
<1> QED
  BY <1>2, <1>3, <1>5, <1>6, <1>8, <1>9, <1>10, IdleBooking, BookingWritten

LEMMA ConfirmKeeps ==
  ASSUME BookingInv, B!MCNext, NEW w \in Workers, B!Confirm(w)
  PROVE  BookingInv'
<1>1. PICK b \in Bookings : b = op[w].booking /\ <<b, "completed">> \in published
  BY DEF BookingInv, Attending, B!Confirm, B!At
<1>2. /\ bookings[b] \in B!Row /\ tickets[b] \in Nat
      /\ type \in [total : Nat, sold : Nat, free : BOOLEAN, active : BOOLEAN]
      /\ bookings \in [Bookings -> B!Row] /\ tickets \in [Bookings -> Nat]
  BY BookingFacts
<1>3. /\ tickets[b] = IF bookings[b].status = "PAID" THEN bookings[b].quantity ELSE 0
      /\ bookings[b].status = "NEW" => bookings[b].quantity = 0
      /\ bookings[b].quantity \in Nat
  BY <1>2 DEF BookingInv, TicketsAgree, NewIsEmpty, B!Row
<1>4. PICK n \in Nat : n = IF tickets[b] = 0 THEN bookings[b].quantity ELSE 0
  BY <1>3
<1>5. /\ bookings' = [bookings EXCEPT ![b].status = "PAID", ![b].pay = "SUCCESS"]
      /\ type' = [type EXCEPT !.sold = @ + n]
      /\ tickets' = [tickets EXCEPT ![b] = @ + n]
      /\ B!Done(w) /\ UNCHANGED <<event, payment, published, left, faults>>
  BY <1>1, <1>4 DEF B!Confirm, B!NoTickets
<1>6. PICK row \in B!Row : /\ row = [bookings[b] EXCEPT !.status = "PAID", !.pay = "SUCCESS"]
                           /\ row.status = "PAID" /\ row.quantity = bookings[b].quantity
  <2> DEFINE r == [bookings[b] EXCEPT !.status = "PAID", !.pay = "SUCCESS"]
  <2>1. r \in B!Row /\ r.status = "PAID" /\ r.quantity = bookings[b].quantity
    BY <1>2, RowFields
  <2>2. r = [bookings[b] EXCEPT !.status = "PAID", !.pay = "SUCCESS"]
    OBVIOUS
  <2> HIDE DEF r
  <2> QED
    BY <2>1, <2>2
<1>7. PICK m \in Nat : m = tickets[b] + n
  BY <1>2
<1>8. /\ Rewritten(bookings, bookings', b, row, B!Row)
      /\ Rewritten(tickets, tickets', b, m, Nat) /\ Sold(n)
  BY <1>2, <1>5, <1>6, <1>7 DEF Rewritten, Sold
<1>9. m = (IF row.status = "PAID" THEN row.quantity ELSE 0)
  BY <1>3, <1>4, <1>6, <1>7
<1>10. /\ bookings' \in [Bookings -> B!Row] /\ bookings'[b] = row
       /\ \A c \in Bookings \ {b} : bookings'[c] = bookings[c]
  BY <1>8 DEF Rewritten
<1>11. /\ Unpaid(bookings')[b] = 0
       /\ Unpaid(bookings)[b] = (IF bookings[b].status = "PENDING_PAYMENT" THEN n ELSE 0)
  BY <1>3, <1>4, <1>6, <1>10 DEF Unpaid
<1>12. bookings[b].status # "PENDING_PAYMENT" => n = 0
  BY <1>2, <1>3, <1>4 DEF B!Row
<1>13. ASSUME ~raced'
       PROVE  /\ type.sold + n + SumOver(Unpaid(bookings'), Bookings) <= type.total
              /\ \A v \in Workers \ {w} : op[v].pc \notin {"reserve", "buy"}
  <2>1. ~B!Overlapped /\ type.sold + SumOver(Unpaid(bookings), Bookings) <= type.total
    BY <1>13 DEF B!MCNext, BookingInv, Unraced, Taken
  <2>2. /\ SumOver(Unpaid(bookings'), Bookings)
             = SumOver(Unpaid(bookings), Bookings) + Unpaid(bookings')[b] - Unpaid(bookings)[b]
        /\ SumOver(Unpaid(bookings), Bookings) \in Int
    BY <1>2, <1>10, UnpaidChanged
  <2>3. SumOver(Unpaid(bookings'), Bookings) = SumOver(Unpaid(bookings), Bookings) - n
    BY <1>11, <1>12, <2>2
  <2>4. \A v \in Workers \ {w} : op[v].pc \notin {"reserve", "buy"}
    BY <2>1 DEF B!Overlapped, B!Buying, B!Confirm, B!At
  <2> QED
    BY <1>2, <2>1, <2>2, <2>3, <2>4
<1>14. B!Become(w, B!Idle) /\ Attending(B!Idle, published)
  BY <1>5, IdleBooking DEF B!Done, Attending
<1> QED
  BY <1>1, <1>5, <1>6, <1>7, <1>8, <1>9, <1>13, <1>14, IdleBooking, BookingWritten

LEMMA BuyCommitKeeps ==
  ASSUME BookingInv, B!MCNext, NEW w \in Workers, NEW b \in Bookings, B!BuyCommit(w, b)
  PROVE  BookingInv'
<1>1. /\ bookings[b] = B!Absent /\ tickets[b] = 0 /\ Unpaid(bookings)[b] = 0
  <2>1. bookings[b] = B!Absent /\ B!Absent.status = "NEW"
    BY DEF B!BuyCommit, B!Absent
  <2> QED
    BY <2>1 DEF BookingInv, TicketsAgree, Unpaid
<1>2. /\ type \in [total : Nat, sold : Nat, free : BOOLEAN, active : BOOLEAN]
      /\ bookings \in [Bookings -> B!Row] /\ tickets \in [Bookings -> Nat]
      /\ op[w] \in B!Request
  BY BookingFacts
<1>3. PICK q \in Nat, free \in BOOLEAN : q = op[w].quantity /\ free = op[w].free
  BY <1>2 DEF B!Request
<1>4. PICK row \in B!Row : row = [status |-> IF free THEN "PAID" ELSE "PENDING_PAYMENT",
                                  pay |-> IF free THEN "SUCCESS" ELSE "PENDING",
                                  quantity |-> q, free |-> free]
  BY DEF B!Row
<1>5. PICK n \in Nat : n = IF free THEN q ELSE 0
  OBVIOUS
<1>6. /\ bookings' = [bookings EXCEPT ![b] = row]
      /\ type' = (IF free THEN [type EXCEPT !.sold = @ + n] ELSE type)
      /\ tickets' = (IF free THEN [tickets EXCEPT ![b] = n] ELSE tickets)
      /\ B!Become(w, [B!Idle EXCEPT !.pc = "pay", !.booking = b]) \/ B!Done(w)
      /\ UNCHANGED <<event, payment, published, left, faults>>
  BY <1>3, <1>4, <1>5 DEF B!BuyCommit
<1>7. /\ Rewritten(bookings, bookings', b, row, B!Row)
      /\ Rewritten(tickets, tickets', b, n, Nat) /\ Sold(n)
  BY <1>1, <1>2, <1>5, <1>6 DEF Rewritten, Sold
<1>8. PICK self \in B!Request : /\ B!Become(w, self) /\ Attending(self, published)
                                /\ self.pc \notin {"reserve", "buy"}
  <2> DEFINE self == [B!Idle EXCEPT !.pc = "pay", !.booking = b]
  <2>1. self \in B!Request /\ self.pc = "pay" /\ self.booking = b
    BY DEF B!Idle, B!Request
  <2>2. Attending(self, published) /\ Attending(B!Idle, published)
    BY <2>1, IdleBooking DEF Attending
  <2> QED
    BY <1>6, <2>1, <2>2, IdleBooking DEF B!Done
<1>9. /\ n = tickets[b] + n /\ n = (IF row.status = "PAID" THEN row.quantity ELSE 0)
      /\ row.status = "PAID" => row.free
      /\ row.status # "NEW"
  BY <1>1, <1>4, <1>5
<1>10. /\ bookings' \in [Bookings -> B!Row] /\ bookings'[b] = row
       /\ \A c \in Bookings \ {b} : bookings'[c] = bookings[c]
  BY <1>7 DEF Rewritten
<1>11. n + Unpaid(bookings')[b] = q /\ Unpaid(bookings')[b] \in Nat
  BY <1>4, <1>5, <1>10 DEF Unpaid
<1>12. ASSUME ~raced'
       PROVE  /\ type.sold + n + SumOver(Unpaid(bookings'), Bookings) <= type.total
              /\ \A v \in Workers \ {w} : op[v].pc \notin {"reserve", "buy"}
  <2>1. ~B!Overlapped /\ BuyingAlone(op[w], type, bookings)
    BY <1>12 DEF B!MCNext, BookingInv, Unraced
  <2>2. /\ op[w].seen + type.sold <= type.total
        /\ q + SumOver(Unpaid(bookings), Bookings) <= op[w].seen
        /\ op[w].seen \in Nat
    BY <1>2, <1>3, <2>1 DEF BuyingAlone, B!BuyCommit, B!At, B!Request
  <2>3. /\ SumOver(Unpaid(bookings'), Bookings)
             = SumOver(Unpaid(bookings), Bookings) + Unpaid(bookings')[b] - Unpaid(bookings)[b]
        /\ SumOver(Unpaid(bookings), Bookings) \in Int
    BY <1>2, <1>10, UnpaidChanged
  <2>4. \A v \in Workers \ {w} : op[v].pc \notin {"reserve", "buy"}
    BY <2>1 DEF B!Overlapped, B!Buying, B!BuyCommit, B!At
  <2> QED
    BY <1>1, <1>2, <1>11, <2>2, <2>3, <2>4
<1> QED
  BY <1>6, <1>7, <1>8, <1>9, <1>12, BookingWritten

LEMMA BookingNext ==
  ASSUME BookingInv, B!MCNext
  PROVE  BookingInv'
<1>1. CASE Onlooker
  <2>1. raced' \in BOOLEAN /\ (~raced' => ~raced /\ ~B!Overlapped')
    BY DEF B!MCNext, BookingInv
  <2> QED
    BY <1>1, <2>1, OnlookerKeeps
<1> QED
  BY <1>1, OnlookerSteps, CapacityStep, PayWriteKeeps, ConfirmKeeps, BuyCommitKeeps

LEMMA BookingInit ==
  ASSUME B!MCInit
  PROVE  BookingInv
<1>2. B!TypeOK
  <2>1. /\ event \in {"DRAFT", "PUBLISHED"}
        /\ type \in [total : Capacities, sold : {0}, free : BOOLEAN, active : {TRUE}]
        /\ bookings = [b \in Bookings |-> B!Absent] /\ tickets = [b \in Bookings |-> 0]
        /\ payment = [b \in Bookings |-> "none"] /\ published = {}
        /\ op = [w \in Workers |-> B!Idle] /\ left = MaxBookingOps /\ faults = MaxFaults
    BY DEF B!MCInit, B!Init
  <2>2. B!Absent \in B!Row
    BY DEF B!Absent, B!Row
  <2>3. type \in [total : Nat, sold : Nat, free : BOOLEAN, active : BOOLEAN]
    <3>1. Capacities \subseteq Nat /\ {0} \subseteq Nat /\ {TRUE} \subseteq BOOLEAN
      BY BookingConstants
    <3> QED
      BY <2>1, <3>1
  <2>4. left \in 0..MaxBookingOps /\ faults \in 0..MaxFaults
    BY <2>1, BookingConstants
  <2> QED
    BY <2>1, <2>2, <2>3, <2>4, IdleBooking DEF B!TypeOK
<1>3. /\ \A b \in Bookings : bookings[b] = B!Absent /\ tickets[b] = 0
      /\ raced = FALSE /\ type.sold = 0 /\ type.total \in Nat
      /\ \A w \in Workers : op[w] = B!Idle
  BY BookingConstants DEF B!MCInit, B!Init
<1>4. ASSUME NEW f, \A b \in Bookings : f[b] = 0
      PROVE  SumOver(f, Bookings) = 0
  BY <1>4, SumOfZeros, BookingConstants
<1>5. SumOver(tickets, Bookings) = 0 /\ SumOver(Unpaid(bookings), Bookings) = 0
  BY <1>3, <1>4 DEF Unpaid, B!Absent
<1>6. ~B!Overlapped /\ \A w \in Workers : Attending(op[w], published) /\ BuyingAlone(op[w], type, bookings)
  BY <1>3, IdleBooking DEF B!Overlapped, B!Buying, B!At, Attending, BuyingAlone
<1>7. B!Absent.status = "NEW" /\ B!Absent.quantity = 0
  BY DEF B!Absent
<1>8. NewIsEmpty /\ TicketsAgree
  BY <1>3, <1>5, <1>7 DEF NewIsEmpty, TicketsAgree
<1>9. Unraced
  BY <1>3, <1>5, <1>6 DEF Unraced, Taken
<1> QED
  BY <1>2, <1>3, <1>6, <1>8, <1>9 DEF BookingInv

-----------------------------------------------------------------------------
\* Proofs of delivery and ratings.

Courier(self) ==
  /\ self.pc = "idle" => self.job = None
  /\ self.pc # "idle" => self.job \in G!Jobs
  /\ self.pc \in {"find", "write", "mirror"} => self.proof # None
  /\ self.pc \in {"review", "count", "rated"} => self.proof = None
  /\ self.pc = "mirror" => self.job = "ride"
  /\ self.pc = "complete" => self.completes

\* A request that has completed its job and is yet to announce it: an order is
\* announced last.
Owes(self) ==
  \/ self.pc = "announce"
  \/ self.job = "order" /\ self.completes /\ self.pc \in {"find", "write"}

\* A request whose proof, if it has one, is in the row.
Entered(self) ==
  \/ self.proof = None \/ self.pc = "mirror"
  \/ self.pc = "announce" /\ self.job = "order"

\* The ride's columns say what its row says.
Mirrored(j) == j = "ride" => column = IF proof[j] = None THEN Blank ELSE proof[j]

Completed(j) ==
  /\ announced[j] > 0 => status[j] = "completed"
  /\ \A w \in Workers : op[w].job = j /\ Owes(op[w]) => status[j] = "completed"
  /\ j \notin broken /\ status[j] = "completed" =>
       announced[j] > 0 \/ \E w \in Workers : op[w].job = j /\ Owes(op[w])

\* A job on which no two requests overlapped has one at a time, which finds it as it
\* was when the request arrived.
OneAtATime(j) ==
  /\ \A v, w \in Workers : op[v].job = j /\ op[w].job = j => v = w
  /\ reviewed[j] <= 1
  /\ \A w \in Workers : op[w].job = j =>
       /\ op[w].pc = "review" => reviewed[j] = 0
       /\ op[w].pc = "complete" => status[j] = "under_way"

\* And unless a request broke off, the last proof is on its way or has arrived.
Arriving(j) ==
  /\ announced[j] <= 1
  /\ \A w \in Workers : op[w].job = j =>
       /\ Owes(op[w]) => announced[j] = 0
       /\ op[w].proof # None => last[j] = op[w].proof
       /\ Entered(op[w]) => proof[j] = last[j]
       /\ op[w].proof = None => Mirrored(j)
  /\ ~G!AtWork(j) => proof[j] = last[j] /\ Mirrored(j)

Delivering(j) ==
  /\ Completed(j)
  /\ j \notin mixed => OneAtATime(j)
  /\ j \notin mixed \cup broken => Arriving(j)

\* A count that is written is the count there is, or another is on its way.
Rating ==
  /\ \A v, w \in Workers : op[v].pc = "rated" /\ op[w].pc = "rated" => v = w
  /\ \A w \in Workers : op[w].pc = "rated" =>
       op[w].count = G!Counted \/ \E v \in Workers : op[v].pc = "count"
  /\ (\A w \in Workers : op[w].pc \notin {"count", "rated"}) => standing = G!Counted

ProofInv ==
  /\ G!TypeOK
  /\ \A w \in Workers : Courier(op[w])
  /\ \A j \in G!Jobs : Delivering(j)
  /\ ~crossed /\ broken = {} => Rating

LEMMA ProofsImplied ==
  ASSUME ProofInv
  PROVE  G!TypeOK /\ G!ProofsUnlessBroken /\ G!RatingsUnlessCrossed
<1>1. G!ProofsUnlessBroken
  <2>1. ASSUME NEW j \in G!Jobs \ broken, ~G!AtWork(j)
        PROVE  /\ status[j] = "completed" <=> announced[j] > 0
               /\ j \notin mixed =>
                    /\ proof[j] = last[j] /\ announced[j] <= 1
                    /\ j = "ride" => column = IF proof[j] = None THEN Blank ELSE proof[j]
    BY <2>1 DEF ProofInv, Delivering, Completed, Arriving, Mirrored, G!AtWork
  <2> QED
    BY <2>1 DEF G!ProofsUnlessBroken
<1>2. G!RatingsUnlessCrossed
  BY DEF ProofInv, Delivering, OneAtATime, Rating, G!RatingsUnlessCrossed
<1> QED
  BY <1>1, <1>2 DEF ProofInv

\* A step of one request, on one job.
Works(w, j, self) ==
  /\ op' = [op EXCEPT ![w] = self]
  /\ op[w].job \in {j, None} /\ self.job \in {j, None}
  /\ \A i \in G!Jobs \ {j} :
       /\ status'[i] = status[i] /\ proof'[i] = proof[i] /\ announced'[i] = announced[i]
       /\ reviewed'[i] = reviewed[i] /\ last'[i] = last[i]
       /\ i \in broken' <=> i \in broken
       /\ i \in mixed' <=> i \in mixed
  /\ j = "order" => column' = column

LEMMA OtherJob ==
  ASSUME ProofInv, NEW w \in Workers, NEW j \in G!Jobs, NEW self, Works(w, j, self),
         NEW i \in G!Jobs, i # j
  PROVE  Delivering(i)'
<1>1. /\ op \in [Workers -> [pc : {"idle", "complete", "announce", "find", "write", "mirror",
                              "review", "count", "rated"},
                         job : G!Jobs \cup {None}, completes : BOOLEAN,
                         proof : G!Proofs \cup {None}, found : BOOLEAN, count : Nat]]
      /\ i # None
  BY DeliveryConstants DEF ProofInv, G!TypeOK, G!Jobs
<1>2. /\ status'[i] = status[i] /\ proof'[i] = proof[i] /\ announced'[i] = announced[i]
      /\ reviewed'[i] = reviewed[i] /\ last'[i] = last[i]
      /\ i \in broken' <=> i \in broken
      /\ i \in mixed' <=> i \in mixed
      /\ i = "ride" => column' = column
  BY DEF Works, G!Jobs
<1>3. \A v \in Workers : /\ v # w => op'[v] = op[v]
                         /\ op[w].job # i /\ op'[w].job # i
  BY <1>1 DEF Works
<1>4. \A v \in Workers : op'[v].job = i <=> op[v].job = i
  BY <1>3
<1>5. \A v \in Workers : op[v].job = i => op'[v] = op[v]
  BY <1>3
<1>6. Delivering(i)
  BY DEF ProofInv
<1>7. Completed(i)'
  BY <1>2, <1>4, <1>5, <1>6 DEF Delivering, Completed, Owes
<1>8. i \notin mixed' => OneAtATime(i)'
  BY <1>2, <1>4, <1>5, <1>6 DEF Delivering, OneAtATime
<1>9. i \notin mixed' \cup broken' => Arriving(i)'
  BY <1>2, <1>4, <1>5, <1>6 DEF Delivering, Arriving, Owes, Entered, Mirrored, G!AtWork
<1> QED
  BY <1>7, <1>8, <1>9 DEF Delivering

LEMMA IdleCourier ==
  /\ G!Idle.pc = "idle" /\ G!Idle.job = None /\ G!Idle.proof = None
  /\ Courier(G!Idle) /\ ~Owes(G!Idle)
  BY DEF G!Idle, Courier, Owes

Self == [pc : {"idle", "complete", "announce", "find", "write", "mirror", "review", "count",
               "rated"},
         job : G!Jobs \cup {None}, completes : BOOLEAN,
         proof : G!Proofs \cup {None}, found : BOOLEAN, count : Nat]

\* What a request that is under way is known to be.
LEMMA ProofFacts ==
  ASSUME ProofInv
  PROVE  /\ op \in [Workers -> Self] /\ G!Idle \in Self
         /\ None \notin G!Jobs
         /\ \A w \in Workers : /\ Courier(op[w]) /\ op[w] \in Self
                               /\ op[w].pc # "idle" => op[w].job \in G!Jobs
         /\ status \in [G!Jobs -> {"under_way", "completed"}]
         /\ proof \in [G!Jobs -> G!Proofs \cup {None}]
         /\ announced \in [G!Jobs -> Nat] /\ reviewed \in [G!Jobs -> Nat]
         /\ last \in [G!Jobs -> G!Proofs \cup {None}]
  BY DeliveryConstants DEF ProofInv, G!TypeOK, G!Jobs, Self, Courier, G!Idle

\* A step of one request keeps the invariant if it does so for the job it is on.
LEMMA WorksKeeps ==
  ASSUME ProofInv, NEW w \in Workers, NEW j \in G!Jobs, NEW self \in Self, Works(w, j, self),
         Courier(self), Delivering(j)', G!TypeOK',
         ~crossed' /\ broken' = {} => Rating'
  PROVE  ProofInv'
<1>1. \A v \in Workers : Courier(op'[v])
  BY ProofFacts DEF Works
<1>2. \A i \in G!Jobs : Delivering(i)'
  BY OtherJob
<1> QED
  BY <1>1, <1>2 DEF ProofInv

\* Rating as it was, when the step has nothing to do with it.
LEMMA RatingKept ==
  ASSUME ProofInv, NEW w \in Workers, NEW self, op' = [op EXCEPT ![w] = self],
         op[w].pc \notin {"count", "rated"}, self.pc \notin {"count", "rated"},
         UNCHANGED <<reviewed, standing, crossed>>, broken \subseteq broken'
  PROVE  ~crossed' /\ broken' = {} => Rating'
<1> SUFFICES ASSUME ~crossed', broken' = {} PROVE Rating'
  OBVIOUS
<1>1. Rating
  BY DEF ProofInv
<1>2. op'[w] = self /\ \A v \in Workers : v # w => op'[v] = op[v]
  BY ProofFacts
<1>3. G!Counted' = G!Counted
  BY DEF G!Counted
<1>4. \A v \in Workers : /\ op'[v].pc = "rated" <=> op[v].pc = "rated"
                         /\ op'[v].pc = "count" <=> op[v].pc = "count"
                         /\ op[v].pc = "rated" => op'[v] = op[v]
  BY <1>2
<1> QED
  BY <1>1, <1>3, <1>4 DEF Rating

\* A request arrives.
LEMMA AcceptKeeps ==
  ASSUME ProofInv, NEW w \in Workers, NEW j \in G!Jobs, NEW pc \in {"complete", "find", "review"},
         NEW completes \in BOOLEAN, NEW p \in G!Proofs \cup {None},
         G!Accept(w, pc, j, completes, p),
         pc = "complete" => status[j] = "under_way" /\ completes,
         pc # "complete" => ~completes,
         pc = "find" => p # None,
         pc = "review" => status[j] = "completed" /\ reviewed[j] = 0 /\ p = None
  PROVE  ProofInv'
<1> DEFINE self == [G!Idle EXCEPT !.pc = pc, !.job = j, !.completes = completes, !.proof = p]
<1>1. /\ self \in Self /\ self.pc = pc /\ self.job = j /\ self.completes = completes
      /\ self.proof = p
  BY DEF Self, G!Idle
<1>2. /\ op' = [op EXCEPT ![w] = self] /\ op[w].pc = "idle" /\ left > 0 /\ left' = left - 1
      /\ last' = IF p = None THEN last ELSE [last EXCEPT ![j] = p]
      /\ mixed' = IF G!AtWork(j) THEN mixed \cup {j} ELSE mixed
      /\ UNCHANGED <<status, proof, column, announced, reviewed, standing, faults, broken, crossed>>
  BY DEF G!Accept, G!At, G!jobs, G!rider
<1> HIDE DEF self
<1>3. Courier(self)
  BY <1>1 DEF Courier
<1>4. op'[w] = self /\ (\A v \in Workers : v # w => op'[v] = op[v]) /\ op[w].job = None
  BY <1>2, ProofFacts DEF Courier
<1>5. /\ last'[j] = (IF p = None THEN last[j] ELSE p)
      /\ \A i \in G!Jobs \ {j} : last'[i] = last[i]
      /\ last' \in [G!Jobs -> G!Proofs \cup {None}]
  BY <1>2, ProofFacts
<1>6. Works(w, j, self)
  BY <1>1, <1>2, <1>4, <1>5 DEF Works
<1>7. G!TypeOK'
  BY <1>1, <1>2, <1>5, ProofFacts DEF ProofInv, G!TypeOK, Self
<1>8. ~crossed' /\ broken' = {} => Rating'
  BY <1>1, <1>2, RatingKept
<1>9. Delivering(j)'
  <2>0. Delivering(j) /\ j # None /\ announced[j] \in Nat
    BY ProofFacts DEF ProofInv
  <2>1. \A v \in Workers : op'[v].job = j <=> op[v].job = j \/ v = w
    BY <1>1, <1>4
  <2>2. ~Owes(self) /\ (Entered(self) <=> p = None)
    BY <1>1 DEF Owes, Entered
  <2>3. Completed(j)'
    BY <1>2, <1>4, <2>0, <2>1, <2>2 DEF Delivering, Completed
  <2>4. ASSUME j \notin mixed'
        PROVE  j \notin mixed /\ \A v \in Workers : op[v].job # j
    BY <1>2, <2>4 DEF G!AtWork
  <2>5. ASSUME j \notin mixed' PROVE OneAtATime(j)'
    BY <1>1, <1>2, <1>4, <2>0, <2>1, <2>4, <2>5 DEF Delivering, OneAtATime
  <2>6. ASSUME j \notin mixed' \cup broken' PROVE Arriving(j)'
    <3>1. Arriving(j) /\ ~G!AtWork(j)
      BY <1>2, <2>0, <2>4, <2>6 DEF Delivering, G!AtWork
    <3>2. /\ announced[j] <= 1 /\ proof[j] = last[j] /\ Mirrored(j)
      BY <3>1 DEF Arriving
    <3>3. \A v \in Workers : op'[v].job = j => op'[v] = self
      BY <1>4, <2>1, <2>4, <2>6
    <3>4. G!AtWork(j)'
      BY <1>1, <1>4 DEF G!AtWork
    <3> QED
      BY <1>1, <1>2, <1>5, <2>2, <3>2, <3>3, <3>4 DEF Arriving, Mirrored
  <2> QED
    BY <2>3, <2>5, <2>6 DEF Delivering
<1> QED
  BY <1>1, <1>3, <1>6, <1>7, <1>8, <1>9, WorksKeeps

\* A step of a request under way, as far as it concerns the requests.
LEMMA Working ==
  ASSUME ProofInv, NEW w \in Workers, op[w].pc # "idle", NEW self \in Self,
         op' = [op EXCEPT ![w] = self]
  PROVE  /\ op'[w] = self /\ \A v \in Workers : v # w => op'[v] = op[v]
         /\ op' \in [Workers -> Self]
         /\ op[w].job \in G!Jobs /\ Courier(op[w]) /\ Delivering(op[w].job)
         /\ op[w].job # None /\ announced[op[w].job] \in Nat /\ reviewed[op[w].job] \in Nat
  BY ProofFacts DEF ProofInv

\* Completion and announcement of a job stay as they are.
LEMMA CompletedKept ==
  ASSUME ProofInv, NEW w \in Workers, op[w].pc # "idle", NEW self \in Self,
         op' = [op EXCEPT ![w] = self], self.job \in {op[w].job, None},
         UNCHANGED <<status, announced>>,
         op[w].job \in broken' \/ UNCHANGED broken,
         self.job = op[w].job /\ Owes(self) => Owes(op[w]),
         Owes(op[w]) => (self.job = op[w].job /\ Owes(self)) \/ op[w].job \in broken',
         NEW i, i = op[w].job
  PROVE  Completed(i)'
<1>1. /\ op'[w] = self /\ \A v \in Workers : v # w => op'[v] = op[v]
      /\ Completed(i)
  BY Working DEF Delivering
<1>2. \A v \in Workers : op'[v].job = i /\ Owes(op'[v]) => op[v].job = i /\ Owes(op[v])
  BY <1>1, Working
<1>3. i \notin broken' => /\ i \notin broken
                          /\ \A v \in Workers : op[v].job = i /\ Owes(op[v])
                                                  => op'[v].job = i /\ Owes(op'[v])
  BY <1>1
<1> QED
  BY <1>1, <1>2, <1>3 DEF Completed

\* A job without overlapping requests stays one.
LEMMA OneKept ==
  ASSUME ProofInv, NEW w \in Workers, op[w].pc # "idle", NEW self \in Self,
         op' = [op EXCEPT ![w] = self], self.job \in {op[w].job, None},
         UNCHANGED <<reviewed, mixed>>, self.pc \notin {"complete", "review"},
         op[w].pc = "complete" \/ UNCHANGED status,
         NEW i, i = op[w].job
  PROVE  i \notin mixed' => OneAtATime(i)'
<1>1. /\ op'[w] = self /\ \A v \in Workers : v # w => op'[v] = op[v]
      /\ i \notin mixed => OneAtATime(i) /\ i # None
  BY Working DEF Delivering
<1> QED
  BY <1>1 DEF OneAtATime

\* The last proof of such a job is on its way or has arrived, if that holds of the only
\* request on it.
LEMMA ArrivingKept ==
  ASSUME ProofInv, NEW w \in Workers, op[w].pc # "idle", NEW self \in Self,
         op' = [op EXCEPT ![w] = self], self.job \in {op[w].job, None},
         NEW i, i = op[w].job, i \notin mixed, announced'[i] <= 1,
         self.job = i => /\ Owes(self) => announced'[i] = 0
                         /\ self.proof # None => last'[i] = self.proof
                         /\ Entered(self) => proof'[i] = last'[i]
                         /\ self.proof = None => Mirrored(i)',
         self.job # i => proof'[i] = last'[i] /\ Mirrored(i)'
  PROVE  Arriving(i)'
<1>1. /\ op'[w] = self /\ \A v \in Workers : v # w => op'[v] = op[v]
      /\ OneAtATime(i) /\ i # None
  BY Working DEF Delivering
<1>2. \A v \in Workers : op'[v].job = i => v = w
  BY <1>1 DEF OneAtATime
<1> QED
  BY <1>1, <1>2 DEF Arriving, G!AtWork

\* What is known of a request on such a job no request on which broke off.
LEMMA ArrivingFacts ==
  ASSUME ProofInv, NEW w \in Workers, op[w].pc # "idle", NEW i, i = op[w].job,
         i \notin mixed \cup broken
  PROVE  /\ OneAtATime(i) /\ announced[i] <= 1
         /\ Owes(op[w]) => announced[i] = 0
         /\ op[w].proof # None => last[i] = op[w].proof
         /\ Entered(op[w]) => proof[i] = last[i]
         /\ op[w].proof = None => Mirrored(i)
  BY ProofFacts DEF ProofInv, Delivering, Arriving

LEMMA CompleteKeeps ==
  ASSUME ProofInv, NEW w \in Workers, G!Complete(w)
  PROVE  ProofInv'
<1> DEFINE pc == IF op[w].job = "order" /\ op[w].proof # None THEN "find" ELSE "announce"
<1> DEFINE self == [op[w] EXCEPT !.pc = pc]
<1>0. PICK j : j = op[w].job
  OBVIOUS
<1>1. /\ op[w].pc = "complete" /\ op[w] \in Self /\ j \in G!Jobs /\ Courier(op[w])
      /\ op[w].completes
  BY <1>0, ProofFacts DEF G!Complete, G!At, Courier
<1>2. /\ self \in Self /\ self.pc = pc /\ self.job = j /\ self.completes
      /\ self.proof = op[w].proof
  BY <1>0, <1>1 DEF Self
<1>3. /\ op' = [op EXCEPT ![w] = self]
      /\ status' = [status EXCEPT ![j] = "completed"]
      /\ column' = IF j = "ride" /\ op[w].proof \in Photos THEN op[w].proof ELSE column
      /\ UNCHANGED <<proof, announced, reviewed, standing, left, faults, last, broken, mixed,
                     crossed>>
  BY <1>0 DEF G!Complete, G!Goto, G!Whole, G!rider
<1> HIDE DEF self
<1>4. Courier(self)
  BY <1>0, <1>1, <1>2 DEF Courier
<1>5. /\ status'[j] = "completed" /\ \A i \in G!Jobs \ {j} : status'[i] = status[i]
      /\ status' \in [G!Jobs -> {"under_way", "completed"}]
  BY <1>1, <1>3, ProofFacts
<1>6. Works(w, j, self)
  BY <1>0, <1>2, <1>3, <1>5 DEF Works
<1>7. G!TypeOK'
  BY <1>2, <1>3, <1>5, ProofFacts DEF ProofInv, G!TypeOK, Self, G!Proofs
<1>8. ~crossed' /\ broken' = {} => Rating'
  BY <1>1, <1>2, <1>3, RatingKept
<1>9. Owes(self)
  BY <1>0, <1>2 DEF Owes
<1>10. Completed(j)'
  <2>1. op'[w] = self
    BY <1>3, ProofFacts
  <2> QED
    BY <1>2, <1>3, <1>5, <1>9, <2>1 DEF Completed
<1>11. j \notin mixed' => OneAtATime(j)'
  BY <1>0, <1>1, <1>2, <1>3, OneKept
<1>12. ASSUME j \notin mixed' \cup broken' PROVE Arriving(j)'
  <2>1. j \notin mixed \cup broken /\ op[w].pc # "idle"
    BY <1>1, <1>3, <1>12
  <2>2. /\ op[w].proof # None => last[j] = op[w].proof
        /\ op[w].proof = None => proof[j] = last[j] /\ Mirrored(j)
        /\ announced[j] <= 1 /\ status[j] = "under_way"
    BY <1>0, <1>1, <2>1, ArrivingFacts DEF Entered, OneAtATime
  <2>3. announced[j] \in Nat /\ (announced[j] > 0 => status[j] = "completed")
    BY <1>0, <1>1, ProofFacts DEF ProofInv, Delivering, Completed
  <2>4. announced'[j] = 0
    BY <1>3, <2>2, <2>3
  <2>5. self.proof = None => Mirrored(j)'
    BY <1>2, <1>3, <2>2, DeliveryConstants DEF Mirrored
  <2>6. Entered(self) => self.proof = None
    BY <1>0, <1>2 DEF Entered
  <2> QED
    BY <1>0, <1>2, <1>3, <2>1, <2>2, <2>4, <2>5, <2>6, ArrivingKept
<1>13. Delivering(j)'
  BY <1>10, <1>11, <1>12 DEF Delivering
<1> QED
  BY <1>1, <1>2, <1>4, <1>6, <1>7, <1>8, <1>13, WorksKeeps

LEMMA AnnounceKeeps ==
  ASSUME ProofInv, NEW w \in Workers, G!Announce(w)
  PROVE  ProofInv'
<1> DEFINE onward == op[w].job = "ride" /\ op[w].proof # None
<1> DEFINE self == IF onward THEN [op[w] EXCEPT !.pc = "find"] ELSE G!Idle
<1>0. PICK j : j = op[w].job
  OBVIOUS
<1>1. /\ op[w].pc = "announce" /\ op[w] \in Self /\ j \in G!Jobs /\ Courier(op[w])
  BY <1>0, ProofFacts DEF G!Announce, G!At, Courier
<1>2. /\ self \in Self
      /\ onward => self.pc = "find" /\ self.job = j /\ self.proof = op[w].proof
      /\ ~onward => self = G!Idle
  BY <1>0, <1>1, ProofFacts DEF Self
<1>3. /\ op' = [op EXCEPT ![w] = self]
      /\ announced' = [announced EXCEPT ![j] = @ + 1]
      /\ UNCHANGED <<status, proof, column, reviewed, standing, left, faults, last, broken,
                     mixed, crossed>>
  BY <1>0 DEF G!Announce, G!Goto, G!Done, G!Whole, G!rider
<1> HIDE DEF self
<1>4. Courier(self) /\ self.job \in {j, None} /\ self.pc \in {"find", "idle"} /\ ~(self.job = j /\ Owes(self))
  BY <1>0, <1>1, <1>2, IdleCourier DEF Courier, Owes
<1>5. /\ announced'[j] = announced[j] + 1 /\ announced[j] \in Nat
      /\ \A i \in G!Jobs \ {j} : announced'[i] = announced[i]
      /\ announced' \in [G!Jobs -> Nat]
  BY <1>1, <1>3, ProofFacts
<1>6. Works(w, j, self)
  BY <1>0, <1>3, <1>4, <1>5 DEF Works
<1>7. G!TypeOK'
  BY <1>2, <1>3, <1>5, ProofFacts DEF ProofInv, G!TypeOK, Self
<1>8. ~crossed' /\ broken' = {} => Rating'
  BY <1>1, <1>3, <1>4, RatingKept
<1>9. /\ op'[w] = self /\ \A v \in Workers : v # w => op'[v] = op[v]
      /\ Completed(j) /\ Owes(op[w])
  BY <1>0, <1>1, <1>2, <1>3, Working DEF Delivering, Owes
<1>10. Completed(j)'
  <2>1. status[j] = "completed"
    BY <1>0, <1>9 DEF Completed
  <2> QED
    BY <1>3, <1>5, <2>1 DEF Completed
<1>11. j \notin mixed' => OneAtATime(j)'
  BY <1>0, <1>1, <1>2, <1>3, <1>4, OneKept
<1>12. ASSUME j \notin mixed' \cup broken' PROVE Arriving(j)'
  <2>1. j \notin mixed \cup broken /\ op[w].pc # "idle"
    BY <1>1, <1>3, <1>12
  <2>2. /\ announced[j] = 0
        /\ op[w].proof # None => last[j] = op[w].proof
        /\ op[w].proof = None => proof[j] = last[j] /\ Mirrored(j)
        /\ j = "order" => proof[j] = last[j]
    BY <1>0, <1>1, <1>9, <2>1, ArrivingFacts DEF Entered
  <2>3. announced'[j] = 1
    BY <1>5, <2>2
  <2>4. ~onward => proof'[j] = last'[j] /\ Mirrored(j)'
    BY <1>0, <1>1, <1>3, <2>2 DEF Mirrored, G!Jobs
  <2>5. onward => ~Entered(self) /\ self.proof # None /\ last'[j] = self.proof /\ self.job = j
    BY <1>0, <1>2, <1>3, <2>2 DEF Entered
  <2>6. ~onward => self.job # j
    BY <1>1, <1>2, IdleCourier, ProofFacts
  <2>7. self.job = j => /\ ~Owes(self) /\ self.proof # None /\ last'[j] = self.proof
                         /\ ~Entered(self)
    BY <1>4, <2>5, <2>6
  <2>8. self.job # j => proof'[j] = last'[j] /\ Mirrored(j)'
    BY <2>4, <2>5
  <2>9. announced'[j] <= 1 /\ j \notin mixed /\ op[w].pc # "idle" /\ self.job \in {op[w].job, None}
    BY <1>0, <1>4, <2>1, <2>3
  <2> QED
    BY <1>0, <1>2, <1>3, <2>7, <2>8, <2>9, ArrivingKept
<1>13. Delivering(j)'
  BY <1>10, <1>11, <1>12 DEF Delivering
<1> QED
  BY <1>1, <1>2, <1>4, <1>6, <1>7, <1>8, <1>13, WorksKeeps

LEMMA FindKeeps ==
  ASSUME ProofInv, NEW w \in Workers, G!Find(w)
  PROVE  ProofInv'
<1> DEFINE self == [op[w] EXCEPT !.pc = "write", !.found = proof[op[w].job] # None]
<1>0. PICK j : j = op[w].job
  OBVIOUS
<1>1. /\ op[w].pc = "find" /\ op[w] \in Self /\ j \in G!Jobs /\ Courier(op[w])
  BY <1>0, ProofFacts DEF G!Find, G!At, Courier
<1>2. /\ self \in Self /\ self.pc = "write" /\ self.job = j /\ self.proof = op[w].proof
      /\ self.completes = op[w].completes
  BY <1>0, <1>1 DEF Self
<1>3. /\ op' = [op EXCEPT ![w] = self]
      /\ UNCHANGED <<status, column, proof, announced, reviewed, standing, left, faults, last,
                     broken, mixed, crossed>>
  BY <1>1, ProofFacts DEF G!Find, G!Whole, G!rider, G!jobs, Self
<1> HIDE DEF self
<1>4. /\ Courier(self) /\ op[w].proof # None /\ ~Entered(self)
      /\ Owes(self) <=> Owes(op[w])
  BY <1>0, <1>1, <1>2 DEF Courier, Owes, Entered
<1>6. Works(w, j, self)
  BY <1>0, <1>2, <1>3 DEF Works
<1>7. G!TypeOK'
  BY <1>2, <1>3, ProofFacts DEF ProofInv, G!TypeOK, Self
<1>8. ~crossed' /\ broken' = {} => Rating'
  BY <1>1, <1>2, <1>3, RatingKept
<1>10. Completed(j)'
  BY <1>0, <1>1, <1>2, <1>3, <1>4, CompletedKept
<1>11. j \notin mixed' => OneAtATime(j)'
  BY <1>0, <1>1, <1>2, <1>3, OneKept
<1>12. ASSUME j \notin mixed' \cup broken' PROVE Arriving(j)'
  <2>1. j \notin mixed \cup broken /\ op[w].pc # "idle"
    BY <1>1, <1>3, <1>12
  <2>2. /\ last[j] = op[w].proof /\ announced[j] <= 1
        /\ Owes(op[w]) => announced[j] = 0
    BY <1>0, <1>4, <2>1, ArrivingFacts
  <2> QED
    BY <1>0, <1>2, <1>3, <1>4, <2>1, <2>2, ArrivingKept
<1>13. Delivering(j)'
  BY <1>10, <1>11, <1>12 DEF Delivering
<1> QED
  BY <1>1, <1>2, <1>4, <1>6, <1>7, <1>8, <1>13, WorksKeeps

\* A request that ends in an error.
LEMMA BreaksKeeps ==
  ASSUME ProofInv, NEW w \in Workers, op[w].pc # "idle", G!Breaks(w),
         UNCHANGED <<status, proof, column, announced, reviewed, standing, left, last, mixed,
                     crossed>>,
         faults' \in Nat
  PROVE  ProofInv'
<1>0. PICK j : j = op[w].job
  OBVIOUS
<1>1. op[w] \in Self /\ j \in G!Jobs /\ G!Idle \in Self
  BY <1>0, ProofFacts
<1>3. op' = [op EXCEPT ![w] = G!Idle] /\ broken' = broken \cup {j}
  BY <1>0 DEF G!Breaks, G!Done
<1>6. Works(w, j, G!Idle)
  BY <1>0, <1>1, <1>3, IdleCourier DEF Works
<1>7. G!TypeOK'
  BY <1>1, <1>3, ProofFacts DEF ProofInv, G!TypeOK, Self
<1>8. ~crossed' /\ broken' = {} => Rating'
  BY <1>3
<1>10. Completed(j)'
  BY <1>0, <1>1, <1>3, IdleCourier, CompletedKept
<1>11. j \notin mixed' => OneAtATime(j)'
  BY <1>0, <1>1, <1>3, IdleCourier, OneKept
<1>13. Delivering(j)'
  BY <1>3, <1>10, <1>11 DEF Delivering
<1> QED
  BY <1>1, <1>6, <1>7, <1>8, <1>13, IdleCourier, WorksKeeps

LEMMA FailsKeeps ==
  ASSUME ProofInv, NEW w \in Workers, G!Fails(w)
  PROVE  ProofInv'
<1>1. faults \in Nat
  BY DEF ProofInv, G!TypeOK
<1> QED
  BY <1>1, BreaksKeeps DEF G!Fails, G!At, G!jobs, G!rider

LEMMA MirrorKeeps ==
  ASSUME ProofInv, NEW w \in Workers, G!Mirror(w)
  PROVE  ProofInv'
<1>0. PICK j : j = op[w].job
  OBVIOUS
<1>1. /\ op[w].pc = "mirror" /\ op[w] \in Self /\ j = "ride" /\ j \in G!Jobs
      /\ Courier(op[w]) /\ op[w].proof \in G!Proofs /\ op[w].proof # None /\ G!Idle \in Self
  BY <1>0, ProofFacts DEF G!Mirror, G!At, Courier, G!Jobs, Self
<1>3. /\ op' = [op EXCEPT ![w] = G!Idle] /\ column' = op[w].proof
      /\ UNCHANGED <<status, proof, announced, reviewed, standing, left, faults, last, broken,
                     mixed, crossed>>
  BY DEF G!Mirror, G!Done, G!Whole, G!rider
<1>4. ~Owes(op[w]) /\ Entered(op[w])
  BY <1>0, <1>1 DEF Owes, Entered
<1>6. Works(w, j, G!Idle)
  BY <1>0, <1>1, <1>3, IdleCourier DEF Works
<1>7. G!TypeOK'
  BY <1>1, <1>3, ProofFacts DEF ProofInv, G!TypeOK, Self
<1>8. ~crossed' /\ broken' = {} => Rating'
  BY <1>1, <1>3, IdleCourier, RatingKept
<1>10. Completed(j)'
  BY <1>0, <1>1, <1>3, <1>4, IdleCourier, CompletedKept
<1>11. j \notin mixed' => OneAtATime(j)'
  BY <1>0, <1>1, <1>3, IdleCourier, OneKept
<1>12. ASSUME j \notin mixed' \cup broken' PROVE Arriving(j)'
  <2>1. j \notin mixed \cup broken /\ op[w].pc # "idle"
    BY <1>1, <1>3, <1>12
  <2>2. last[j] = op[w].proof /\ proof[j] = last[j] /\ announced[j] <= 1
    BY <1>0, <1>1, <1>4, <2>1, ArrivingFacts
  <2>3. Mirrored(j)' /\ proof'[j] = last'[j]
    BY <1>1, <1>3, <2>2 DEF Mirrored
  <2> QED
    BY <1>0, <1>1, <1>3, <2>1, <2>2, <2>3, IdleCourier, ProofFacts, ArrivingKept
<1>13. Delivering(j)'
  BY <1>10, <1>11, <1>12 DEF Delivering
<1> QED
  BY <1>1, <1>6, <1>7, <1>8, <1>13, IdleCourier, WorksKeeps

LEMMA WriteKeeps ==
  ASSUME ProofInv, NEW w \in Workers, G!Write(w)
  PROVE  ProofInv'
<1>0. PICK j : j = op[w].job
  OBVIOUS
<1>1. /\ op[w].pc = "write" /\ op[w] \in Self /\ j \in G!Jobs /\ Courier(op[w])
      /\ op[w].proof \in G!Proofs /\ op[w].proof # None /\ G!Idle \in Self /\ j # None
  BY <1>0, ProofFacts DEF G!Write, G!At, Courier, Self
<1>2. CASE G!Breaks(w) /\ UNCHANGED proof
  <2>1. faults \in Nat
    BY DEF ProofInv, G!TypeOK
  <2> QED
    BY <1>1, <1>2, <2>1, BreaksKeeps DEF G!Write, G!rider
<1>3. CASE ~(G!Breaks(w) /\ UNCHANGED proof)
  <2>1. /\ proof' = [proof EXCEPT ![j] = op[w].proof] /\ G!AfterWrite(w)
        /\ UNCHANGED <<status, column, announced, reviewed, standing, left, faults, last,
                       broken, mixed, crossed>>
    BY <1>0, <1>3 DEF G!Write, G!rider
  <2>2. PICK self \in Self :
          /\ op' = [op EXCEPT ![w] = self]
          /\ self.job \in {j, None}
          /\ self.pc \in {"mirror", "announce", "idle"}
          /\ self.pc # "idle" => self.job = j /\ self.proof = op[w].proof
          /\ self.pc = "idle" => self = G!Idle
          /\ self.pc = "mirror" <=> j = "ride"
          /\ self.pc = "announce" <=> j = "order" /\ op[w].completes
    <3>1. CASE j = "ride"
      <4>1. [op[w] EXCEPT !.pc = "mirror"] \in Self
        BY <1>1 DEF Self
      <4> QED
        BY <1>0, <1>1, <2>1, <3>1, <4>1 DEF G!AfterWrite, G!HasColumns, G!Goto, Self
    <3>2. CASE j # "ride" /\ op[w].completes
      <4>1. [op[w] EXCEPT !.pc = "announce"] \in Self /\ j = "order"
        BY <1>1, <3>2 DEF Self, G!Jobs
      <4> QED
        BY <1>0, <1>1, <2>1, <3>2, <4>1 DEF G!AfterWrite, G!HasColumns, G!Goto, Self
    <3>3. CASE j # "ride" /\ ~op[w].completes
      BY <1>0, <1>1, <2>1, <3>3, IdleCourier DEF G!AfterWrite, G!HasColumns, G!Done
    <3> QED
      BY <3>1, <3>2, <3>3
  <2>3. Courier(self) /\ (self.job = j /\ Owes(self) <=> Owes(op[w]))
    BY <1>0, <1>1, <2>2, IdleCourier DEF Courier, Owes, G!Jobs
  <2>5. /\ proof'[j] = op[w].proof /\ \A i \in G!Jobs \ {j} : proof'[i] = proof[i]
        /\ proof' \in [G!Jobs -> G!Proofs \cup {None}]
    BY <1>1, <2>1, ProofFacts
  <2>6. Works(w, j, self)
    BY <1>0, <2>1, <2>2, <2>5 DEF Works
  <2>7. G!TypeOK'
    BY <2>1, <2>2, <2>5, ProofFacts DEF ProofInv, G!TypeOK, Self
  <2>8. ~crossed' /\ broken' = {} => Rating'
    BY <1>1, <2>1, <2>2, RatingKept
  <2>10. Completed(j)'
    BY <1>0, <1>1, <2>1, <2>2, <2>3, CompletedKept
  <2>11. j \notin mixed' => OneAtATime(j)'
    BY <1>0, <1>1, <2>1, <2>2, OneKept
  <2>12. ASSUME j \notin mixed' \cup broken' PROVE Arriving(j)'
    <3>1. j \notin mixed \cup broken /\ op[w].pc # "idle"
      BY <1>1, <2>1, <2>12
    <3>2. /\ last[j] = op[w].proof /\ announced[j] <= 1
          /\ Owes(op[w]) => announced[j] = 0
      BY <1>0, <1>1, <3>1, ArrivingFacts
    <3>3. proof'[j] = last'[j] /\ announced'[j] = announced[j]
      BY <2>1, <2>5, <3>2
    <3>4. self.job # j => j = "order" /\ Mirrored(j)'
      BY <1>1, <2>2 DEF G!Jobs, Mirrored
    <3>5. self.job = j => self.proof = op[w].proof /\ self.proof # None
      BY <1>1, <2>2, IdleCourier
    <3> QED
      BY <1>0, <2>1, <2>2, <2>3, <3>1, <3>2, <3>3, <3>4, <3>5, ArrivingKept
  <2>13. Delivering(j)'
    BY <2>10, <2>11, <2>12 DEF Delivering
  <2> QED
    BY <1>1, <2>2, <2>3, <2>6, <2>7, <2>8, <2>13, WorksKeeps
<1> QED
  BY <1>2, <1>3

\* The steps of a customer who rates: no proof, and nothing that completes a job.
LEMMA RatesDelivering ==
  ASSUME ProofInv, NEW w \in Workers, op[w].pc \in {"review", "count", "rated"},
         NEW self \in Self, op' = [op EXCEPT ![w] = self], self.job \in {op[w].job, None},
         NEW j, j = op[w].job,
         self.proof = None, self.pc \notin {"announce", "mirror", "find", "write"},
         UNCHANGED <<status, proof, column, announced, last, mixed, broken>>,
         j \notin mixed' => OneAtATime(j)'
  PROVE  Delivering(j)'
<1>1. /\ op[w].pc # "idle" /\ op[w] \in Self /\ j \in G!Jobs /\ j # None
      /\ op[w].proof = None
  BY ProofFacts DEF Courier
<1>2. ~Owes(op[w]) /\ ~Owes(self) /\ Entered(op[w])
  BY <1>1 DEF Owes, Entered
<1>3. Completed(j)'
  BY <1>1, <1>2, CompletedKept
<1>4. ASSUME j \notin mixed' \cup broken' PROVE Arriving(j)'
  <2>1. j \notin mixed \cup broken
    BY <1>4
  <2>2. proof[j] = last[j] /\ Mirrored(j) /\ announced[j] <= 1
    BY <1>1, <1>2, <2>1, ArrivingFacts
  <2>3. proof'[j] = last'[j] /\ Mirrored(j)'
    BY <2>2 DEF Mirrored
  <2> QED
    BY <1>1, <1>2, <2>1, <2>2, <2>3, ArrivingKept
<1> QED
  BY <1>3, <1>4 DEF Delivering

LEMMA ReviewKeeps ==
  ASSUME ProofInv, NEW w \in Workers, G!Review(w)
  PROVE  ProofInv'
<1> DEFINE self == [op[w] EXCEPT !.pc = "count"]
<1>0. PICK j : j = op[w].job
  OBVIOUS
<1>1. /\ op[w].pc = "review" /\ op[w] \in Self /\ j \in G!Jobs /\ j # None
      /\ Courier(op[w]) /\ op[w].proof = None
  BY <1>0, ProofFacts DEF G!Review, G!At, Courier
<1>2. /\ self \in Self /\ self.pc = "count" /\ self.job = j /\ self.proof = None
  BY <1>0, <1>1 DEF Self
<1>3. /\ op' = [op EXCEPT ![w] = self]
      /\ reviewed' = [reviewed EXCEPT ![j] = @ + 1]
      /\ UNCHANGED <<status, column, proof, announced, standing, left, faults, last,
                     broken, mixed, crossed>>
  BY <1>0 DEF G!Review, G!Goto, G!Whole, G!jobs
<1> HIDE DEF self
<1>4. Courier(self)
  BY <1>1, <1>2 DEF Courier
<1>5. /\ reviewed'[j] = reviewed[j] + 1 /\ reviewed[j] \in Nat
      /\ \A i \in G!Jobs \ {j} : reviewed'[i] = reviewed[i]
      /\ reviewed' \in [G!Jobs -> Nat]
  BY <1>1, <1>3, ProofFacts
<1>6. Works(w, j, self)
  BY <1>0, <1>2, <1>3, <1>5 DEF Works
<1>7. G!TypeOK'
  BY <1>2, <1>3, <1>5, ProofFacts DEF ProofInv, G!TypeOK, Self
<1>8. /\ op'[w] = self /\ \A v \in Workers : v # w => op'[v] = op[v]
  BY <1>3, ProofFacts
<1>9. ~crossed' /\ broken' = {} => Rating'
  <2>1. ~crossed /\ broken = {} => Rating
    BY DEF ProofInv
  <2> QED
    BY <1>1, <1>2, <1>3, <1>8, <2>1 DEF Rating
<1>10. j \notin mixed' => OneAtATime(j)'
  <2>1. j \notin mixed => OneAtATime(j)
    BY <1>0, <1>1, ProofFacts DEF ProofInv, Delivering
  <2> QED
    BY <1>0, <1>1, <1>2, <1>3, <1>5, <1>8, <2>1 DEF OneAtATime
<1>11. Delivering(j)'
  BY <1>0, <1>1, <1>2, <1>3, <1>10, RatesDelivering
<1> QED
  BY <1>1, <1>2, <1>4, <1>6, <1>7, <1>9, <1>11, WorksKeeps

LEMMA CountKeeps ==
  ASSUME ProofInv, NEW w \in Workers, G!Count(w)
  PROVE  ProofInv'
<1> DEFINE self == [op[w] EXCEPT !.pc = "rated", !.count = G!Counted]
<1>0. PICK j : j = op[w].job
  OBVIOUS
<1>1. /\ op[w].pc = "count" /\ op[w] \in Self /\ j \in G!Jobs /\ j # None
      /\ Courier(op[w]) /\ op[w].proof = None
  BY <1>0, ProofFacts DEF G!Count, G!At, Courier
<1>2. G!Counted \in Nat
  BY ProofFacts DEF G!Counted, G!Jobs
<1>3. /\ self \in Self /\ self.pc = "rated" /\ self.job = j /\ self.proof = None
      /\ self.count = G!Counted
  BY <1>0, <1>1, <1>2 DEF Self
<1>4. /\ op' = [op EXCEPT ![w] = self]
      /\ crossed' = (crossed \/ \E v \in Workers : op[v].pc = "rated")
      /\ UNCHANGED <<status, column, proof, announced, reviewed, standing, left, faults, last,
                     broken, mixed>>
  BY <1>1, ProofFacts DEF G!Count, G!At, G!jobs, G!rider, Self
<1> HIDE DEF self
<1>5. Courier(self)
  BY <1>1, <1>3 DEF Courier
<1>6. Works(w, j, self)
  BY <1>0, <1>3, <1>4 DEF Works
<1>7. G!TypeOK'
  BY <1>3, <1>4, ProofFacts DEF ProofInv, G!TypeOK, Self
<1>8. op'[w] = self /\ \A v \in Workers : v # w => op'[v] = op[v]
  BY <1>4, ProofFacts
<1>9. ASSUME ~crossed', broken' = {} PROVE Rating'
  <2>1. G!Counted' = G!Counted
    BY <1>4 DEF G!Counted
  <2>2. \A v \in Workers : op'[v].pc = "rated" => v = w
    BY <1>4, <1>8, <1>9
  <2> QED
    BY <1>3, <1>8, <2>1, <2>2 DEF Rating
<1>10. j \notin mixed' => OneAtATime(j)'
  BY <1>0, <1>1, <1>3, <1>4, OneKept
<1>11. Delivering(j)'
  BY <1>0, <1>1, <1>3, <1>4, <1>10, RatesDelivering
<1> QED
  BY <1>1, <1>3, <1>5, <1>6, <1>7, <1>9, <1>11, WorksKeeps

LEMMA RatedKeeps ==
  ASSUME ProofInv, NEW w \in Workers, G!Rated(w)
  PROVE  ProofInv'
<1>0. PICK j : j = op[w].job
  OBVIOUS
<1>1. /\ op[w].pc = "rated" /\ op[w] \in Self /\ j \in G!Jobs /\ G!Idle \in Self
      /\ op[w].count \in Nat
  BY <1>0, ProofFacts DEF G!Rated, G!At, Courier, Self
<1>2. /\ op' = [op EXCEPT ![w] = G!Idle] /\ standing' = op[w].count
      /\ UNCHANGED <<status, column, proof, announced, reviewed, left, faults, last,
                     broken, mixed, crossed>>
  BY DEF G!Rated, G!Done, G!Whole, G!jobs
<1>3. Works(w, j, G!Idle)
  BY <1>0, <1>2, IdleCourier DEF Works
<1>4. G!TypeOK'
  BY <1>1, <1>2, ProofFacts DEF ProofInv, G!TypeOK, Self
<1>5. op'[w] = G!Idle /\ \A v \in Workers : v # w => op'[v] = op[v]
  BY <1>2, ProofFacts
<1>6. ASSUME ~crossed', broken' = {} PROVE Rating'
  <2>1. Rating
    BY <1>2, <1>6 DEF ProofInv
  <2>2. G!Counted' = G!Counted
    BY <1>2 DEF G!Counted
  <2>3. \A v \in Workers : op'[v].pc # "rated"
    BY <1>1, <1>5, <2>1, IdleCourier DEF Rating
  <2>4. (\A v \in Workers : op'[v].pc \notin {"count", "rated"}) => standing' = G!Counted
    BY <1>1, <1>2, <1>5, <2>1 DEF Rating
  <2> QED
    BY <2>2, <2>3, <2>4 DEF Rating
<1>7. j \notin mixed' => OneAtATime(j)'
  BY <1>0, <1>1, <1>2, IdleCourier, OneKept
<1>8. Delivering(j)'
  BY <1>0, <1>1, <1>2, <1>7, IdleCourier, RatesDelivering
<1> QED
  BY <1>1, <1>3, <1>4, <1>6, <1>8, IdleCourier, WorksKeeps

LEMMA ProofNext ==
  ASSUME ProofInv, G!Next
  PROVE  ProofInv'
<1> PICK w \in Workers :
      \/ \E j \in G!Jobs, p \in G!Proofs : G!SubmitStart(w, j, p)
      \/ \E j \in G!Jobs, p \in G!Proofs \cup {None} : G!CompleteStart(w, j, p)
      \/ \E j \in G!Jobs : G!RateStart(w, j)
      \/ G!Complete(w) \/ G!Announce(w) \/ G!Find(w) \/ G!Write(w) \/ G!Mirror(w)
      \/ G!Review(w) \/ G!Count(w) \/ G!Rated(w) \/ G!Fails(w)
  BY DEF G!Next
<1>1. ASSUME NEW j \in G!Jobs, NEW p \in G!Proofs, G!SubmitStart(w, j, p) PROVE ProofInv'
  <2>1. p # None
    BY DeliveryConstants DEF G!Proofs
  <2> QED
    BY <1>1, <2>1, AcceptKeeps DEF G!SubmitStart
<1>2. ASSUME NEW j \in G!Jobs, NEW p \in G!Proofs \cup {None}, G!CompleteStart(w, j, p)
      PROVE  ProofInv'
  BY <1>2, AcceptKeeps DEF G!CompleteStart
<1>3. ASSUME NEW j \in G!Jobs, G!RateStart(w, j) PROVE ProofInv'
  BY <1>3, AcceptKeeps DEF G!RateStart
<1> QED
  BY <1>1, <1>2, <1>3, CompleteKeeps, AnnounceKeeps, FindKeeps, WriteKeeps, MirrorKeeps,
     ReviewKeeps, CountKeeps, RatedKeeps, FailsKeeps

LEMMA ProofInit ==
  ASSUME G!Init
  PROVE  ProofInv
<1>1. G!TypeOK
  <2>1. G!Idle \in Self
    BY DEF G!Idle, Self
  <2>2. op \in [Workers -> Self]
    BY <2>1 DEF G!Init
  <2>3. /\ status \in [G!Jobs -> {"under_way", "completed"}]
        /\ announced \in [G!Jobs -> Nat] /\ reviewed \in [G!Jobs -> Nat]
    BY DEF G!Init
  <2>4. /\ proof \in [G!Jobs -> G!Proofs \cup {None}] /\ last \in [G!Jobs -> G!Proofs \cup {None}]
        /\ column \in G!Proofs
    BY DEF G!Init, G!Proofs
  <2> QED
    BY <2>2, <2>3, <2>4, DeliveryConstants DEF G!Init, G!TypeOK, Self
<1>2. \A w \in Workers : op[w] = G!Idle
  BY DEF G!Init
<1>3. \A w \in Workers : Courier(op[w]) /\ op[w].job \notin G!Jobs
  BY <1>2, IdleCourier, DeliveryConstants DEF G!Jobs
<1>4. \A j \in G!Jobs : Delivering(j)
  BY <1>3 DEF G!Init, Delivering, Completed, OneAtATime, Arriving, Mirrored, G!Jobs
<1>5. Rating
  BY <1>2, IdleCourier DEF G!Init, Rating, G!Counted, G!Jobs
<1> QED
  BY <1>1, <1>3, <1>4, <1>5 DEF ProofInv

-----------------------------------------------------------------------------
\* The way of the money.

Refunding == {"refund", "post_refund", "unwind", "reread", "unhold"}

\* What each refund that succeeded gives back, and what each that was unwound took.
Returned(rows) == [r \in Refunds |-> IF rows[r].status = "SUCCEEDED" THEN rows[r].amount ELSE 0]

Unwinds(rows, times) == [r \in Refunds |-> IF times[r] > 0 THEN rows[r].amount ELSE 0]

Total(f) == SumOver(f, Refunds)

\* A handler of a refund's event has a refund that succeeded, and looks for a hold if
\* there may be one.
Handling(self, rows, times) ==
  /\ self.pc \in Refunding =>
       /\ self.refund \in Refunds /\ rows[self.refund].status = "SUCCEEDED"
       /\ times[self.refund] > 0
  /\ self.pc \in {"reread", "unhold"} => purpose = "ORDER"

\* One handler is past the payment's journal before the money is in the wallet.
MirrorsOnce ==
  /\ mirrored <= 1 /\ (mirrored = 1 => collected)
  /\ \A w \in Workers : op[w].pc = "mirror" => collected /\ mirrored = 0
  /\ \A v, w \in Workers : op[v].pc = "mirror" /\ op[w].pc = "mirror" => v = w
  /\ wallet <= Captured * mirrored /\ wallet + others >= 0
  /\ purpose = "WALLET_TOP_UP" => \A r \in Refunds : unwound[r] <= 1

\* Refunds come one at a time and never exceed the capture.
RefundsCovered ==
  /\ life = "CAPTURED" \/ \E r \in Refunds : refunds[r].status # "none"
  /\ Total(Returned(refunds)) <= Captured
  /\ \A r \in Refunds : refunds[r].status = "PENDING" =>
       /\ life = "REFUND_PENDING"
       /\ Total(Returned(refunds)) + refunds[r].amount <= Captured
       /\ \A q \in Refunds : refunds[q].status = "PENDING" => q = r
  /\ \A r \in Refunds : refunds[r].status = "none" \/ refunds[r].amount > 0
  /\ \A r \in Refunds : refunds[r].status = "none" => ~refunds[r].journal /\ refunds[r].amount = 0
  /\ \A r \in Refunds : heard[r] > 0 => refunds[r].status = "SUCCEEDED"

MoneySafe ==
  /\ M!TypeOK /\ purpose \in {"ORDER", "WALLET_TOP_UP"}
  /\ \A w \in Workers : Handling(op[w], refunds, heard)
  /\ MirrorsOnce /\ RefundsCovered

\* A refund whose event was published is in a handler's hands until it is unwound.
Tracked(r) ==
  /\ unwound[r] > 0 => refunds[r].status = "SUCCEEDED" /\ heard[r] > 0
  /\ refunds[r].status = "SUCCEEDED" /\ heard[r] > 0 =>
       refunds[r].journal \/ \E w \in Workers : op[w].refund = r /\ op[w].pc \in {"refund", "post_refund"}
  /\ refunds[r].journal =>
       unwound[r] > 0 \/ \E w \in Workers : op[w].refund = r /\ op[w].pc \in {"unwind", "reread", "unhold"}

\* What a handler has seen of the hold is so.
Holding(self, held, times) ==
  /\ self.pc \in {"reread", "unhold"} =>
       times[self.refund] = 0 /\ held.status = "HELD" /\ self.seen = held.amount
  /\ self.pc = "unhold" => self.fresh = held.amount

\* While nothing is lost or overtaken, the money is in the wallet before a refund is
\* asked for, and refunds are handled one at a time.
Ordered ==
  /\ (\E r \in Refunds : refunds[r].status # "none") => mirrored = 1
  /\ \A v, w \in Workers : op[v].pc \in Refunding /\ op[w].pc \in Refunding => v = w

Collecting ==
  /\ heard[None] > 0 => collected \/ \E w \in Workers : op[w].pc = "collect"
  /\ collected => mirrored = 1 \/ \E w \in Workers : op[w].pc = "mirror"

\* The wallet holds what was captured less what was unwound.
Balanced ==
  /\ wallet = Captured * mirrored - Total(Unwinds(refunds, unwound))
  /\ purpose = "ORDER" /\ mirrored = 1 =>
       IF wallet > 0 THEN hold.status = "HELD" /\ hold.amount = wallet
       ELSE hold.status = "REFUNDED"

Calm ==
  /\ Ordered /\ Collecting /\ Balanced
  /\ \A r \in Refunds : Tracked(r)
  /\ \A w \in Workers : Holding(op[w], hold, unwound)

MoneyInv ==
  /\ MoneySafe /\ disturbed \in BOOLEAN
  /\ ~disturbed => Calm

\* The sum of a set of refunds, as a sum over all.
Among(rows, T) == [r \in Refunds |-> IF r \in T THEN rows[r].amount ELSE 0]

LEMMA RefundSum ==
  ASSUME NEW T \in SUBSET Refunds, \A r \in T : refunds[r].amount \in Int
  PROVE  M!MapThenSumSet(LAMBDA r : refunds[r].amount, T) = Total(Among(refunds, T))
<1> DEFINE f == [r \in T |-> refunds[r].amount]
           step(g, s) == IF s = {} THEN 0 ELSE refunds[Chosen(s)].amount + g[s \ {Chosen(s)}]
           sums == CHOOSE g : g = [s \in SUBSET T |-> step(g, s)]
<1>1. M!MapThenSumSet(LAMBDA r : refunds[r].amount, T) = sums[T]
  BY Zenon DEF M!MapThenSumSet, M!MapThenFoldSet, Chosen
<1>2. \A g : \A s \in SUBSET T : step(g, s) = SumStep(f, s, g)
  BY ChosenIn DEF SumStep
<1>3. (\A r \in T : f[r] \in Int) /\ Kept(f, Refunds, T) = Among(refunds, T)
  <2>1. \A r \in T : f[r] = refunds[r].amount
    OBVIOUS
  <2> HIDE DEF f
  <2> QED
    BY <2>1 DEF Kept, Among
<1> HIDE DEF step, f
<1>4. \A g : (g = [s \in SUBSET T |-> step(g, s)]) <=> Summation(f, g, T)
  BY <1>2 DEF Summation
<1>5. sums = PartSums(f, T)
  BY <1>4 DEF PartSums
<1>6. SumOver(f, T) = SumOver(Kept(f, Refunds, T), Refunds)
  BY <1>3, SumKept, MoneyConstants
<1> QED
  BY <1>1, <1>3, <1>5, <1>6, SumIsPartSums DEF Total

\* What the types say of the amounts and counts.
LEMMA MoneyFacts ==
  ASSUME MoneySafe
  PROVE  /\ op \in [Workers -> M!Request] /\ M!Idle \in M!Request
         /\ \A w \in Workers : op[w] \in M!Request
         /\ \A r \in Refunds : /\ refunds[r].amount \in Nat /\ heard[r] \in Nat
                               /\ unwound[r] \in Nat /\ refunds[r].journal \in BOOLEAN
                               /\ r # None
         /\ heard[None] \in Nat /\ wallet \in Int /\ others \in Nat /\ mirrored \in {0, 1}
         /\ hold.amount \in Int /\ Captured \in Nat /\ Captured > 0
<1>1. /\ heard \in [Refunds \cup {None} -> 0..MaxPublished] /\ unwound \in [Refunds -> Nat]
      /\ \A r \in Refunds : /\ refunds[r].amount \in Amounts \cup {0}
                            /\ refunds[r].journal \in BOOLEAN
      /\ op \in [Workers -> M!Request] /\ wallet \in Int /\ others \in Nat /\ mirrored \in Nat
      /\ hold.amount \in Int
  BY DEF MoneySafe, M!TypeOK
<1>2. M!Idle \in M!Request
  BY DEF M!Idle, M!Request
<1>3. mirrored \in {0, 1}
  BY <1>1 DEF MoneySafe, MirrorsOnce
<1>4. \A e \in Refunds \cup {None} : heard[e] \in Nat
  BY <1>1, MoneyConstants
<1>5. \A r \in Refunds : refunds[r].amount \in Nat /\ unwound[r] \in Nat /\ r # None
  <2>1. \A n \in Amounts \cup {0} : n \in Nat
    BY MoneyConstants
  <2>2. \A r \in Refunds : refunds[r].amount \in Nat
    BY <1>1, <2>1
  <2>3. \A r \in Refunds : unwound[r] \in Nat
    BY <1>1
  <2> QED
    BY <2>2, <2>3, MoneyConstants
<1>6. \A w \in Workers : op[w] \in M!Request
  BY <1>1
<1>7. Captured \in Nat /\ Captured > 0
  BY MoneyConstants
<1> QED
  BY <1>1, <1>2, <1>3, <1>4, <1>5, <1>6, <1>7

LEMMA SumFacts ==
  ASSUME MoneySafe
  PROVE  /\ M!Sum("SUCCEEDED") = Total(Returned(refunds))
         /\ \A r \in Refunds : /\ Returned(refunds)[r] \in Int
                               /\ Unwinds(refunds, unwound)[r] \in Int
         /\ Total(Returned(refunds)) \in Int /\ Total(Unwinds(refunds, unwound)) \in Int
<1>1. /\ \A r \in Refunds : /\ Returned(refunds)[r] \in Int
                            /\ Unwinds(refunds, unwound)[r] \in Int
      /\ IsFiniteSet(Refunds)
  BY MoneyFacts, MoneyConstants DEF Returned, Unwinds
<1>2. Total(Returned(refunds)) \in Int /\ Total(Unwinds(refunds, unwound)) \in Int
  BY <1>1, SumType DEF Total
<1>3. M!Sum("SUCCEEDED") = Total(Returned(refunds))
  <2> DEFINE T == {r \in Refunds : refunds[r].status = "SUCCEEDED"}
  <2>1. T \in SUBSET Refunds /\ \A r \in T : refunds[r].amount \in Int
    BY MoneyFacts
  <2>2. Among(refunds, T) = Returned(refunds)
    BY DEF Among, Returned
  <2>3. M!Sum("SUCCEEDED") = M!MapThenSumSet(LAMBDA r : refunds[r].amount, T)
    BY DEF M!Sum
  <2> HIDE DEF T
  <2> QED
    BY <2>1, <2>2, <2>3, RefundSum
<1> QED
  BY <1>1, <1>2, <1>3

\* A refund that is yet to be unwound is in the wallet.
LEMMA Affordable ==
  ASSUME MoneySafe, Calm, NEW r \in Refunds, refunds[r].status = "SUCCEEDED", unwound[r] = 0
  PROVE  /\ mirrored = 1 /\ refunds[r].amount <= wallet /\ refunds[r].amount > 0
         /\ purpose = "ORDER" => hold.status = "HELD" /\ hold.amount = wallet
<1> DEFINE f == Unwinds(refunds, unwound)
           g == [f EXCEPT ![r] = refunds[r].amount]
<1>0. f \in [Refunds -> Int]
  BY SumFacts DEF Unwinds
<1>1. /\ \A q \in Refunds : f[q] \in Int /\ g[q] \in Int
      /\ \A q \in Refunds \ {r} : f[q] = g[q]
      /\ g[r] = refunds[r].amount
  BY <1>0, MoneyFacts
<1>2. f[r] = 0
  BY DEF Unwinds
<1>3. \A q \in Refunds : g[q] <= Returned(refunds)[q]
  <2>1. \A q \in Refunds : unwound[q] > 0 => refunds[q].status = "SUCCEEDED"
    BY DEF Calm, Tracked
  <2>2. \A q \in Refunds \ {r} : f[q] = IF unwound[q] > 0 THEN refunds[q].amount ELSE 0
    BY DEF Unwinds
  <2> HIDE DEF f, g
  <2> QED
    BY <1>1, <2>1, <2>2, MoneyFacts DEF Returned
<1>4. \A q \in Refunds : Returned(refunds)[q] \in Int
  BY SumFacts
<1> HIDE DEF f, g
<1>5. SumOver(g, Refunds) = SumOver(f, Refunds) + g[r] - f[r]
  BY <1>1, SumChange, MoneyConstants
<1>6. SumOver(g, Refunds) <= SumOver(Returned(refunds), Refunds)
  BY <1>1, <1>3, <1>4, SumMonotone, MoneyConstants
<1>7. Total(f) + refunds[r].amount <= Captured
  <2>1. Total(Returned(refunds)) <= Captured /\ Total(f) \in Int /\ Total(Returned(refunds)) \in Int
    BY SumFacts DEF MoneySafe, RefundsCovered, f
  <2> QED
    BY <1>1, <1>2, <1>5, <1>6, <2>1, MoneyFacts DEF Total
<1>8. mirrored = 1 /\ wallet = Captured * mirrored - Total(f)
  BY DEF Calm, Ordered, Balanced, f
<1>9. refunds[r].amount > 0
  BY DEF MoneySafe, RefundsCovered
<1>10. refunds[r].amount <= wallet
  <2>1. Total(f) \in Int
    BY SumFacts DEF f
  <2> QED
    BY <1>7, <1>8, <2>1, MoneyFacts
<1>11. wallet > 0
  BY <1>9, <1>10, MoneyFacts
<1> QED
  BY <1>8, <1>9, <1>10, <1>11 DEF Calm, Balanced

\* A step of one handler keeps what is always so, if it does for that handler.
LEMMA HandlerSafe ==
  ASSUME MoneySafe, NEW w \in Workers, NEW self, op' = [op EXCEPT ![w] = self],
         UNCHANGED purpose, Handling(self, refunds', heard'),
         \A r \in Refunds : /\ refunds[r].status = "SUCCEEDED" => refunds'[r].status = "SUCCEEDED"
                            /\ heard[r] > 0 => heard'[r] > 0,
         M!TypeOK', MirrorsOnce', RefundsCovered'
  PROVE  MoneySafe'
<1>1. op'[w] = self /\ \A v \in Workers : v # w => op'[v] = op[v]
  BY MoneyFacts
<1>2. \A v \in Workers : Handling(op[v], refunds, heard)
  BY DEF MoneySafe
<1>3. \A v \in Workers : v # w => Handling(op[v], refunds', heard')
  BY <1>2 DEF Handling
<1>4. \A v \in Workers : Handling(op'[v], refunds', heard')
  BY <1>1, <1>3
<1> QED
  BY <1>4 DEF MoneySafe, Handling

\* The wallet and the payment's journal stand still.
LEMMA MirrorsKept ==
  ASSUME MoneySafe, NEW w \in Workers, NEW self, op' = [op EXCEPT ![w] = self],
         self.pc # "mirror",
         UNCHANGED <<purpose, collected, mirrored, wallet, others, unwound>>
  PROVE  MirrorsOnce'
<1>1. op'[w] = self /\ \A v \in Workers : v # w => op'[v] = op[v]
  BY MoneyFacts
<1> QED
  BY <1>1 DEF MoneySafe, MirrorsOnce

\* Money leaves the wallet.
LEMMA MirrorsLess ==
  ASSUME MoneySafe, UNCHANGED <<purpose, collected, mirrored, others>>,
         \A w \in Workers : op'[w].pc = "mirror" => op[w].pc = "mirror",
         wallet' \in Int, wallet' <= wallet, wallet' + others >= 0,
         purpose = "WALLET_TOP_UP" => \A r \in Refunds : unwound'[r] <= 1
  PROVE  MirrorsOnce'
<1>1. Captured * mirrored \in Int
  BY MoneyFacts
<1>2. wallet' <= Captured * mirrored
  BY <1>1, MoneyFacts DEF MoneySafe, MirrorsOnce
<1> QED
  BY <1>2 DEF MoneySafe, MirrorsOnce

\* The refunds stand still, except for their journals and events.
LEMMA RefundsKept ==
  ASSUME MoneySafe, UNCHANGED life,
         \A r \in Refunds : /\ refunds'[r].status = refunds[r].status
                            /\ refunds'[r].amount = refunds[r].amount
                            /\ refunds[r].status = "none" => ~refunds'[r].journal
                            /\ heard'[r] > 0 => refunds[r].status = "SUCCEEDED"
  PROVE  RefundsCovered'
<1>1. Returned(refunds') = Returned(refunds)
  BY DEF Returned
<1>2. Total(Returned(refunds')) = Total(Returned(refunds))
  BY <1>1
<1>3. RefundsCovered
  BY DEF MoneySafe
<1> QED
  BY <1>2, <1>3 DEF RefundsCovered

LEMMA IdleHandler ==
  /\ M!Idle.pc = "idle" /\ M!Idle.refund = None
  /\ \A rows, times : Handling(M!Idle, rows, times)
  BY DEF M!Idle, Handling, Refunding

\* An event starts its handler.
Published(w, e, self) ==
  /\ e \in Refunds \cup {None} /\ self \in M!Request /\ self.refund = e
  /\ op[w].pc = "idle" /\ op' = [op EXCEPT ![w] = self]
  /\ self.pc = IF e = None THEN "collect" ELSE "refund"
  /\ e # None => refunds[e].status = "SUCCEEDED"
  /\ heard'[e] = heard[e] + 1 /\ heard[e] \in Nat
  /\ \A d \in Refunds \cup {None} : d # e => heard'[d] = heard[d]
  /\ heard' \in [Refunds \cup {None} -> 0..MaxPublished]
  /\ UNCHANGED <<purpose, life, refunds, collected, hold, wallet, others, mirrored, unwound,
                 faults>>

LEMMA PublishEffect ==
  ASSUME MoneySafe, NEW w \in Workers,
         M!PaymentCompleted(w) \/ \E r \in Refunds : M!PaymentRefunded(w, r)
  PROVE  \E e, self : Published(w, e, self)
<1>1. PICK e \in Refunds \cup {None}, pc \in {"collect", "refund"} :
        /\ M!Publish(w, e, pc) /\ UNCHANGED <<purpose, life, refunds, collected, M!money, faults>>
        /\ e # None => refunds[e].status = "SUCCEEDED"
        /\ pc = IF e = None THEN "collect" ELSE "refund"
  BY MoneyConstants DEF M!PaymentCompleted, M!PaymentRefunded
<1> DEFINE self == [M!Idle EXCEPT !.pc = pc, !.refund = e]
<1>2. self \in M!Request /\ self.pc = pc /\ self.refund = e
  <2>1. self \in M!Request
    BY MoneyFacts DEF M!Request
  <2>2. self.pc = pc /\ self.refund = e
    BY DEF M!Idle
  <2> QED
    BY <2>1, <2>2
<1>3. /\ op' = [op EXCEPT ![w] = self] /\ heard' = [heard EXCEPT ![e] = @ + 1]
      /\ heard[e] < MaxPublished /\ op[w].pc = "idle"
      /\ UNCHANGED <<purpose, life, refunds, collected, hold, wallet, others, mirrored, unwound,
                     faults>>
  BY <1>1 DEF M!Publish, M!Become, M!money, M!At
<1> HIDE DEF self
<1>4. /\ heard'[e] = heard[e] + 1 /\ heard[e] \in Nat
      /\ \A d \in Refunds \cup {None} : d # e => heard'[d] = heard[d]
      /\ heard' \in [Refunds \cup {None} -> 0..MaxPublished]
  BY <1>3, MoneyFacts, MoneyConstants DEF MoneySafe, M!TypeOK
<1> QED
  BY <1>1, <1>2, <1>3, <1>4 DEF Published

LEMMA PublishedSafe ==
  ASSUME MoneySafe, NEW w \in Workers,
         M!PaymentCompleted(w) \/ \E r \in Refunds : M!PaymentRefunded(w, r)
  PROVE  MoneySafe'
<1>1. PICK e, self : Published(w, e, self)
  BY PublishEffect
<1>2. /\ e \in Refunds \cup {None} /\ self \in M!Request /\ self.refund = e
      /\ self.pc = IF e = None THEN "collect" ELSE "refund"
      /\ e # None => refunds[e].status = "SUCCEEDED"
  BY <1>1 DEF Published
<1>3. /\ op' = [op EXCEPT ![w] = self]
      /\ UNCHANGED <<purpose, life, refunds, collected, hold, wallet, others, mirrored, unwound,
                     faults>>
  BY <1>1 DEF Published
<1>4. /\ heard'[e] = heard[e] + 1 /\ heard[e] \in Nat
      /\ \A d \in Refunds \cup {None} : d # e => heard'[d] = heard[d]
      /\ heard' \in [Refunds \cup {None} -> 0..MaxPublished]
  BY <1>1 DEF Published
<1>5. Handling(self, refunds', heard')
  BY <1>2, <1>3, <1>4 DEF Handling, Refunding
<1>6. M!TypeOK'
  BY <1>2, <1>3, <1>4, MoneyFacts DEF MoneySafe, M!TypeOK
<1>7. MirrorsOnce'
  BY <1>2, <1>3, MirrorsKept
<1>8. RefundsCovered'
  <2>1. \A r \in Refunds : heard'[r] > 0 => refunds[r].status = "SUCCEEDED"
    BY <1>2, <1>4, MoneyFacts DEF MoneySafe, RefundsCovered
  <2>2. \A r \in Refunds : refunds[r].status = "none" => ~refunds[r].journal
    BY DEF MoneySafe, RefundsCovered
  <2> QED
    BY <1>3, <2>1, <2>2, RefundsKept
<1>9. \A r \in Refunds : heard[r] > 0 => heard'[r] > 0
  BY <1>4, MoneyFacts
<1> QED
  BY <1>3, <1>5, <1>6, <1>7, <1>8, <1>9, HandlerSafe

\* What an action on the refunds does to what was given back.
LEMMA ReturnedSame ==
  ASSUME MoneySafe, NEW r \in Refunds, NEW row,
         refunds' = [refunds EXCEPT ![r] = row],
         row.status = "SUCCEEDED" <=> refunds[r].status = "SUCCEEDED",
         row.amount = refunds[r].amount \/ row.status # "SUCCEEDED"
  PROVE  Returned(refunds') = Returned(refunds)
<1>1. refunds'[r] = row /\ \A q \in Refunds \ {r} : refunds'[q] = refunds[q]
  BY DEF MoneySafe, M!TypeOK
<1> QED
  BY <1>1 DEF Returned

LEMMA AskedSafe ==
  ASSUME MoneySafe, NEW r \in Refunds, NEW n \in Amounts, M!RefundAsked(r, n)
  PROVE  MoneySafe'
<1> DEFINE row == [amount |-> n, status |-> "PENDING", journal |-> FALSE]
<1>1. /\ refunds[r].status = "none" /\ Total(Returned(refunds)) + n <= Captured
      /\ life \in {"CAPTURED", "PARTIALLY_REFUNDED"} /\ life' = "REFUND_PENDING"
      /\ refunds' = [refunds EXCEPT ![r] = row] /\ row.status = "PENDING" /\ row.amount = n
      /\ n \in Nat /\ n > 0
      /\ UNCHANGED <<purpose, heard, collected, hold, wallet, others, mirrored, unwound, op, faults>>
  BY SumFacts, MoneyConstants DEF M!RefundAsked, M!NoRefund, M!money
<1>2. row \in [amount : Amounts \cup {0}, journal : BOOLEAN,
               status : {"none", "PENDING", "SUCCEEDED", "FAILED"}]
  OBVIOUS
<1> HIDE DEF row
<1>3. refunds'[r] = row /\ \A q \in Refunds \ {r} : refunds'[q] = refunds[q]
  BY <1>1 DEF MoneySafe, M!TypeOK
<1>4. M!TypeOK'
  BY <1>1, <1>2 DEF MoneySafe, M!TypeOK
<1>5. Total(Returned(refunds')) = Total(Returned(refunds))
  BY <1>1, ReturnedSame
<1>6. \A q \in Refunds : refunds[q].status # "PENDING"
  BY <1>1 DEF MoneySafe, RefundsCovered
<1>a. /\ \A q \in Refunds : refunds'[q].status = "PENDING" => q = r
      /\ refunds'[r].status # "none" /\ refunds'[r].amount > 0
  BY <1>1, <1>3, <1>6
<1>b. /\ \A q \in Refunds : refunds'[q].status = "none" \/ refunds'[q].amount > 0
      /\ \A q \in Refunds : refunds'[q].status = "none" =>
           ~refunds'[q].journal /\ refunds'[q].amount = 0
  BY <1>1, <1>3 DEF MoneySafe, RefundsCovered
<1>c. \A q \in Refunds : heard'[q] > 0 => refunds'[q].status = "SUCCEEDED"
  BY <1>1, <1>3 DEF MoneySafe, RefundsCovered
<1>d. Total(Returned(refunds')) <= Captured /\ Total(Returned(refunds')) + refunds'[r].amount <= Captured
  BY <1>1, <1>3, <1>5 DEF MoneySafe, RefundsCovered
<1>7. RefundsCovered'
  BY <1>1, <1>a, <1>b, <1>c, <1>d DEF RefundsCovered
<1>8. \A w \in Workers : Handling(op'[w], refunds', heard')
  BY <1>1, <1>3 DEF MoneySafe, Handling
<1> QED
  BY <1>1, <1>4, <1>7, <1>8 DEF MoneySafe, MirrorsOnce, Handling

\* The provider's answer on a refund.
LEMMA AnsweredSafe ==
  ASSUME MoneySafe, NEW r \in Refunds, M!RefundFailed(r) \/ M!RefundSettled(r)
  PROVE  MoneySafe'
<1>1. PICK to \in {"FAILED", "SUCCEEDED"} :
        /\ refunds[r].status = "PENDING" /\ refunds' = [refunds EXCEPT ![r].status = to]
        /\ life' \in {"CAPTURED", "PARTIALLY_REFUNDED", "REFUNDED"}
        /\ UNCHANGED <<purpose, heard, collected, hold, wallet, others, mirrored, unwound, op,
                       faults>>
  BY DEF M!RefundFailed, M!RefundSettled, M!money
<1> DEFINE row == [refunds[r] EXCEPT !.status = to]
<1>2. /\ refunds[r] \in [amount : Amounts \cup {0}, journal : BOOLEAN,
                         status : {"none", "PENDING", "SUCCEEDED", "FAILED"}]
      /\ refunds' = [refunds EXCEPT ![r] = row]
  BY <1>1 DEF MoneySafe, M!TypeOK
<1>3. /\ row \in [amount : Amounts \cup {0}, journal : BOOLEAN,
                  status : {"none", "PENDING", "SUCCEEDED", "FAILED"}]
      /\ row.status = to /\ row.amount = refunds[r].amount /\ row.journal = refunds[r].journal
  BY <1>2
<1> HIDE DEF row
<1>4. refunds'[r] = row /\ \A q \in Refunds \ {r} : refunds'[q] = refunds[q]
  BY <1>2 DEF MoneySafe, M!TypeOK
<1>5. M!TypeOK'
  BY <1>1, <1>2, <1>3 DEF MoneySafe, M!TypeOK
<1>6. Total(Returned(refunds')) <= Captured
  <2>1. CASE to = "FAILED"
    <3>1. Returned(refunds') = Returned(refunds)
      BY <1>1, <1>2, <1>3, <2>1, ReturnedSame
    <3> QED
      BY <3>1 DEF MoneySafe, RefundsCovered
  <2>2. CASE to = "SUCCEEDED"
    <3>1. /\ \A q \in Refunds : Returned(refunds)[q] \in Int /\ Returned(refunds')[q] \in Int
          /\ \A q \in Refunds \ {r} : Returned(refunds)[q] = Returned(refunds')[q]
          /\ Returned(refunds)[r] = 0 /\ Returned(refunds')[r] = refunds[r].amount
      BY <1>1, <1>3, <1>4, <2>2, MoneyFacts DEF Returned
    <3>2. SumOver(Returned(refunds'), Refunds)
            = SumOver(Returned(refunds), Refunds) + Returned(refunds')[r] - Returned(refunds)[r]
      BY <3>1, SumChange, MoneyConstants
    <3>3. Total(Returned(refunds)) + refunds[r].amount <= Captured
      BY <1>1 DEF MoneySafe, RefundsCovered
    <3> QED
      BY <3>1, <3>2, <3>3, SumFacts, MoneyFacts DEF Total
  <2> QED
    BY <2>1, <2>2
<1>7. \A q \in Refunds : refunds'[q].status # "PENDING"
  BY <1>1, <1>3, <1>4 DEF MoneySafe, RefundsCovered
<1>8. RefundsCovered'
  BY <1>1, <1>3, <1>4, <1>6, <1>7 DEF MoneySafe, RefundsCovered
<1>9. \A w \in Workers : Handling(op'[w], refunds', heard')
  BY <1>1, <1>3, <1>4 DEF MoneySafe, Handling
<1> QED
  BY <1>1, <1>5, <1>8, <1>9 DEF MoneySafe, MirrorsOnce, Handling

\* A handler looks, or dies.
LEMMA LooksSafe ==
  ASSUME MoneySafe, NEW w \in Workers, NEW self \in M!Request, op' = [op EXCEPT ![w] = self],
         self.pc # "mirror", Handling(self, refunds, heard), faults' \in 0..MaxFaults,
         UNCHANGED <<purpose, life, refunds, heard, collected, hold, wallet, others, mirrored,
                     unwound>>
  PROVE  MoneySafe'
<1>1. M!TypeOK'
  BY DEF MoneySafe, M!TypeOK
<1>2. MirrorsOnce'
  BY MirrorsKept
<1>3. RefundsCovered'
  BY RefundsKept DEF MoneySafe, RefundsCovered
<1>4. Handling(self, refunds', heard')
  BY DEF Handling
<1> QED
  BY <1>1, <1>2, <1>3, <1>4, HandlerSafe

\* What a handler becomes when it goes on.
LEMMA Goes ==
  ASSUME MoneySafe, NEW w \in Workers,
         NEW pc \in {"mirror", "post_refund", "unwind", "reread", "unhold"}
  PROVE  LET self == [op[w] EXCEPT !.pc = pc] IN
         self \in M!Request /\ self.pc = pc /\ self.refund = op[w].refund
  BY MoneyFacts DEF M!Request

LEMMA Seeing ==
  ASSUME MoneySafe, NEW w \in Workers
  PROVE  /\ LET self == [op[w] EXCEPT !.pc = "reread", !.seen = hold.amount] IN
            self \in M!Request /\ self.pc = "reread" /\ self.refund = op[w].refund
            /\ self.seen = hold.amount
         /\ LET self == [op[w] EXCEPT !.pc = "unhold", !.fresh = hold.amount] IN
            self \in M!Request /\ self.pc = "unhold" /\ self.refund = op[w].refund
            /\ self.seen = op[w].seen /\ self.fresh = hold.amount
  BY MoneyFacts DEF M!Request

\* The steps of a handler that leave payment, hold and wallet alone, as one operator.
Looks(w, self) ==
  /\ self \in M!Request /\ op' = [op EXCEPT ![w] = self]
  /\ UNCHANGED <<purpose, life, refunds, heard, collected, hold, wallet, others, mirrored, unwound>>
  /\ \/ self = M!Idle /\ op[w].pc # "idle"
     \/ op[w].pc = "refund" /\ self.pc = "post_refund"
     \/ op[w].pc = "unwind" /\ self.pc = "reread"
     \/ op[w].pc = "reread" /\ self.pc = "unhold"
  /\ self = M!Idle \/ self.refund = op[w].refund

LEMMA ReadRefundLooks ==
  ASSUME MoneySafe, NEW w \in Workers, M!ReadRefund(w)
  PROVE  \E self : /\ Looks(w, self) /\ faults' = faults /\ op[w].pc = "refund"
                   /\ self = M!Idle => refunds[op[w].refund].journal
<1>1. /\ op[w].pc = "refund" /\ faults' = faults
      /\ UNCHANGED <<purpose, life, refunds, heard, collected, hold, wallet, others, mirrored, unwound>>
  BY DEF M!ReadRefund, M!At, M!money
<1>2. CASE refunds[op[w].refund].journal
  BY <1>1, <1>2, MoneyFacts DEF M!ReadRefund, M!Done, M!Become, Looks
<1>3. CASE ~refunds[op[w].refund].journal
  <2> DEFINE self == [op[w] EXCEPT !.pc = "post_refund"]
  <2>1. self \in M!Request /\ self.pc = "post_refund" /\ self.refund = op[w].refund
    BY Goes
  <2>2. op' = [op EXCEPT ![w] = self]
    BY <1>3 DEF M!ReadRefund, M!Continue, M!Become
  <2> HIDE DEF self
  <2>3. self # M!Idle
    BY <2>1, IdleHandler
  <2> QED
    BY <1>1, <2>1, <2>2, <2>3 DEF Looks
<1> QED
  BY <1>2, <1>3

LEMMA FindHoldLooks ==
  ASSUME MoneySafe, NEW w \in Workers, M!FindHold(w)
  PROVE  /\ purpose = "ORDER"
         /\ \E self :
              /\ Looks(w, self) /\ faults' = faults /\ op[w].pc = "unwind"
              /\ self.pc \in {"reread", "unhold"} =>
                   unwound[op[w].refund] = 0 /\ hold.status = "HELD" /\ self.seen = hold.amount
              /\ self = M!Idle => unwound[op[w].refund] # 0 \/ hold.status # "HELD"
              /\ self.pc \in {"idle", "reread"}
<1>1. /\ op[w].pc = "unwind" /\ faults' = faults /\ purpose = "ORDER"
      /\ UNCHANGED <<purpose, life, refunds, heard, collected, hold, wallet, others, mirrored, unwound>>
  BY DEF M!FindHold, M!At, M!money
<1>2. CASE ~(unwound[op[w].refund] = 0 /\ hold.status = "HELD")
  BY <1>1, <1>2, MoneyFacts, IdleHandler DEF M!FindHold, M!Done, M!Become, Looks
<1>3. CASE unwound[op[w].refund] = 0 /\ hold.status = "HELD"
  <2> DEFINE self == [op[w] EXCEPT !.pc = "reread", !.seen = hold.amount]
  <2>1. /\ self \in M!Request /\ self.pc = "reread" /\ self.refund = op[w].refund
        /\ self.seen = hold.amount
    BY Seeing
  <2>2. op' = [op EXCEPT ![w] = self]
    BY <1>3 DEF M!FindHold, M!Become
  <2> HIDE DEF self
  <2>3. self # M!Idle
    BY <2>1, IdleHandler
  <2> QED
    BY <1>1, <1>3, <2>1, <2>2, <2>3 DEF Looks
<1> QED
  BY <1>1, <1>2, <1>3

LEMMA RereadHoldLooks ==
  ASSUME MoneySafe, NEW w \in Workers, M!RereadHold(w)
  PROVE  \E self :
           /\ Looks(w, self) /\ faults' = faults /\ op[w].pc = "reread"
           /\ self.pc = "unhold" =>
                self.seen = op[w].seen /\ self.fresh = hold.amount /\ hold.status = "HELD"
           /\ self = M!Idle => hold.status # "HELD"
           /\ self.pc \in {"idle", "unhold"}
<1>1. /\ op[w].pc = "reread" /\ faults' = faults
      /\ UNCHANGED <<purpose, life, refunds, heard, collected, hold, wallet, others, mirrored, unwound>>
  BY DEF M!RereadHold, M!At, M!money
<1>2. CASE hold.status # "HELD"
  BY <1>1, <1>2, MoneyFacts, IdleHandler DEF M!RereadHold, M!Done, M!Become, Looks
<1>3. CASE hold.status = "HELD"
  <2> DEFINE self == [op[w] EXCEPT !.pc = "unhold", !.fresh = hold.amount]
  <2>1. /\ self \in M!Request /\ self.pc = "unhold" /\ self.refund = op[w].refund
        /\ self.seen = op[w].seen /\ self.fresh = hold.amount
    BY Seeing
  <2>2. op' = [op EXCEPT ![w] = self]
    BY <1>3 DEF M!RereadHold, M!Become
  <2> HIDE DEF self
  <2>3. self # M!Idle
    BY <2>1, IdleHandler
  <2> QED
    BY <1>1, <1>3, <2>1, <2>2, <2>3 DEF Looks
<1> QED
  BY <1>2, <1>3

LEMMA LooksKeepsSafe ==
  ASSUME MoneySafe, NEW w \in Workers, NEW self, Looks(w, self), faults' \in 0..MaxFaults,
         self.pc \in {"reread", "unhold"} => purpose = "ORDER"
  PROVE  MoneySafe'
<1>1. Handling(op[w], refunds, heard)
  BY DEF MoneySafe
<1>2. Handling(self, refunds, heard)
  BY <1>1, IdleHandler DEF Looks, Handling, Refunding
<1>3. self.pc # "mirror"
  BY IdleHandler DEF Looks
<1> QED
  BY <1>2, <1>3, LooksSafe DEF Looks

\* The payment's journal is posted.
LEMMA CollectEffect ==
  ASSUME MoneySafe, NEW w \in Workers, M!PostCollected(w)
  PROVE  /\ op[w].pc = "collect" /\ faults' = faults
         /\ \/ /\ Looks(w, M!Idle)
               /\ collected \/ life # "CAPTURED"
            \/ /\ ~collected /\ collected' = TRUE
               /\ \E self \in M!Request : self.pc = "mirror" /\ op' = [op EXCEPT ![w] = self]
               /\ UNCHANGED <<purpose, life, refunds, heard, hold, wallet, others, mirrored, unwound>>
<1>1. /\ op[w].pc = "collect" /\ faults' = faults
      /\ UNCHANGED <<purpose, life, refunds, heard, hold, wallet, others, mirrored, unwound>>
  BY DEF M!PostCollected, M!At, M!money
<1>2. CASE M!Uncollected /\ M!Collectable
  <2>1. [op[w] EXCEPT !.pc = "mirror"] \in M!Request /\ [op[w] EXCEPT !.pc = "mirror"].pc = "mirror"
    BY Goes
  <2> QED
    BY <1>1, <1>2, <2>1 DEF M!PostCollected, M!Uncollected, M!Continue, M!Become
<1>3. CASE ~(M!Uncollected /\ M!Collectable)
  <2>1. Looks(w, M!Idle)
    BY <1>1, <1>3, MoneyFacts DEF M!PostCollected, M!Done, M!Become, Looks
  <2> QED
    BY <1>1, <1>3, <2>1 DEF M!Uncollected, M!Collectable
<1> QED
  BY <1>2, <1>3

LEMMA CollectSafe ==
  ASSUME MoneySafe, NEW w \in Workers, M!PostCollected(w)
  PROVE  MoneySafe'
<1>1. CASE Looks(w, M!Idle)
  <2>1. faults' \in 0..MaxFaults
    BY CollectEffect DEF MoneySafe, M!TypeOK
  <2> QED
    BY <1>1, <2>1, IdleHandler, LooksKeepsSafe
<1>2. CASE ~Looks(w, M!Idle)
  <2>1. PICK self \in M!Request :
          /\ self.pc = "mirror" /\ op' = [op EXCEPT ![w] = self]
          /\ ~collected /\ collected' = TRUE /\ faults' = faults
          /\ UNCHANGED <<purpose, life, refunds, heard, hold, wallet, others, mirrored, unwound>>
    BY <1>2, CollectEffect
  <2>2. M!TypeOK'
    BY <2>1 DEF MoneySafe, M!TypeOK
  <2>3. MirrorsOnce'
    <3>1. op'[w] = self /\ \A v \in Workers : v # w => op'[v] = op[v]
      BY <2>1, MoneyFacts
    <3>2. mirrored = 0 /\ \A v \in Workers : op[v].pc # "mirror"
      BY <2>1, MoneyFacts DEF MoneySafe, MirrorsOnce
    <3>3. \A v \in Workers : op'[v].pc = "mirror" => v = w
      BY <3>1, <3>2
    <3> QED
      BY <2>1, <3>2, <3>3 DEF MoneySafe, MirrorsOnce
  <2>4. RefundsCovered'
    BY <2>1, RefundsKept DEF MoneySafe, RefundsCovered
  <2>5. Handling(self, refunds', heard')
    BY <2>1 DEF Handling, Refunding
  <2> QED
    BY <2>1, <2>2, <2>3, <2>4, <2>5, HandlerSafe
<1> QED
  BY <1>1, <1>2

\* A refund's journal is posted.
LEMMA PostEffect ==
  ASSUME MoneySafe, NEW w \in Workers, M!PostRefund(w), NEW r, r = op[w].refund
  PROVE  /\ op[w].pc = "post_refund" /\ r \in Refunds /\ refunds[r].status = "SUCCEEDED"
         /\ \E self \in M!Request :
              self.pc = "unwind" /\ self.refund = r /\ op' = [op EXCEPT ![w] = self]
         /\ \A q \in Refunds : /\ refunds'[q].status = refunds[q].status
                               /\ refunds'[q].amount = refunds[q].amount
                               /\ q # r => refunds'[q].journal = refunds[q].journal
         /\ refunds' \in [Refunds -> [amount : Amounts \cup {0}, journal : BOOLEAN,
                                      status : {"none", "PENDING", "SUCCEEDED", "FAILED"}]]
         /\ UNCHANGED <<purpose, life, heard, collected, hold, wallet, others, mirrored, unwound,
                        faults>>
<1> DEFINE row == [refunds[r] EXCEPT !.journal = TRUE]
<1>1. /\ op[w].pc = "post_refund" /\ refunds' = [refunds EXCEPT ![r] = row]
      /\ UNCHANGED <<purpose, life, heard, collected, hold, wallet, others, mirrored, unwound,
                     faults>>
  BY DEF M!PostRefund, M!At, M!money
<1>2. r \in Refunds /\ refunds[r].status = "SUCCEEDED"
  BY <1>1 DEF MoneySafe, Handling, Refunding
<1>3. refunds \in [Refunds -> [amount : Amounts \cup {0}, journal : BOOLEAN,
                               status : {"none", "PENDING", "SUCCEEDED", "FAILED"}]]
  BY DEF MoneySafe, M!TypeOK
<1>4. /\ row \in [amount : Amounts \cup {0}, journal : BOOLEAN,
                  status : {"none", "PENDING", "SUCCEEDED", "FAILED"}]
      /\ row.status = refunds[r].status /\ row.amount = refunds[r].amount
  BY <1>2, <1>3
<1>5. \E self \in M!Request :
        self.pc = "unwind" /\ self.refund = r /\ op' = [op EXCEPT ![w] = self]
  <2>1. LET self == [op[w] EXCEPT !.pc = "unwind"] IN
        self \in M!Request /\ self.pc = "unwind" /\ self.refund = r
    BY Goes
  <2> QED
    BY <2>1 DEF M!PostRefund, M!Continue, M!Become
<1> HIDE DEF row
<1>6. refunds'[r] = row /\ \A q \in Refunds \ {r} : refunds'[q] = refunds[q]
  BY <1>1, <1>2, <1>3
<1>7. refunds' \in [Refunds -> [amount : Amounts \cup {0}, journal : BOOLEAN,
                                status : {"none", "PENDING", "SUCCEEDED", "FAILED"}]]
  BY <1>1, <1>2, <1>3, <1>4
<1> QED
  BY <1>1, <1>2, <1>4, <1>5, <1>6, <1>7

LEMMA PostSafe ==
  ASSUME MoneySafe, NEW w \in Workers, M!PostRefund(w)
  PROVE  MoneySafe'
<1>0. PICK r : r = op[w].refund
  OBVIOUS
<1>1. PICK self \in M!Request :
        self.pc = "unwind" /\ self.refund = r /\ op' = [op EXCEPT ![w] = self]
  BY <1>0, PostEffect
<1>2. /\ op[w].pc = "post_refund" /\ r \in Refunds /\ refunds[r].status = "SUCCEEDED"
      /\ \A q \in Refunds : /\ refunds'[q].status = refunds[q].status
                            /\ refunds'[q].amount = refunds[q].amount
                            /\ q # r => refunds'[q].journal = refunds[q].journal
      /\ refunds' \in [Refunds -> [amount : Amounts \cup {0}, journal : BOOLEAN,
                                   status : {"none", "PENDING", "SUCCEEDED", "FAILED"}]]
      /\ UNCHANGED <<purpose, life, heard, collected, hold, wallet, others, mirrored, unwound,
                     faults>>
  BY <1>0, PostEffect
<1>3. heard[r] > 0
  BY <1>0, <1>2 DEF MoneySafe, Handling, Refunding
<1>4. M!TypeOK'
  BY <1>1, <1>2 DEF MoneySafe, M!TypeOK
<1>5. MirrorsOnce'
  BY <1>1, <1>2, MirrorsKept
<1>6. RefundsCovered'
  <2>1. \A q \in Refunds : /\ refunds[q].status = "none" => ~refunds'[q].journal
                           /\ heard'[q] > 0 => refunds[q].status = "SUCCEEDED"
    BY <1>2 DEF MoneySafe, RefundsCovered
  <2> QED
    BY <1>2, <2>1, RefundsKept
<1>7. Handling(self, refunds', heard')
  BY <1>1, <1>2, <1>3 DEF Handling, Refunding
<1> QED
  BY <1>1, <1>2, <1>4, <1>5, <1>6, <1>7, HandlerSafe

\* The capture is held or credited.
LEMMA MirrorEffect ==
  ASSUME MoneySafe, NEW w \in Workers, M!Mirror(w)
  PROVE  /\ op[w].pc = "mirror" /\ collected /\ mirrored = 0 /\ op' = [op EXCEPT ![w] = M!Idle]
         /\ wallet' = wallet + Captured /\ mirrored' = 1
         /\ IF purpose = "ORDER" THEN hold' = [status |-> "HELD", amount |-> Captured]
            ELSE hold' = hold
         /\ UNCHANGED <<purpose, life, refunds, heard, collected, others, unwound, faults>>
<1>1. /\ op[w].pc = "mirror" /\ op' = [op EXCEPT ![w] = M!Idle]
      /\ wallet' = wallet + Captured /\ mirrored' = mirrored + 1
      /\ IF purpose = "ORDER" THEN hold' = [status |-> "HELD", amount |-> Captured]
         ELSE hold' = hold
      /\ UNCHANGED <<purpose, life, refunds, heard, collected, others, unwound, faults>>
  BY DEF M!Mirror, M!At, M!Done, M!Become
<1>2. collected /\ mirrored = 0
  BY <1>1 DEF MoneySafe, MirrorsOnce
<1> QED
  BY <1>1, <1>2

LEMMA MirrorSafe ==
  ASSUME MoneySafe, NEW w \in Workers, M!Mirror(w)
  PROVE  MoneySafe'
<1>1. /\ op[w].pc = "mirror" /\ collected /\ mirrored = 0 /\ op' = [op EXCEPT ![w] = M!Idle]
      /\ wallet' = wallet + Captured /\ mirrored' = 1
      /\ IF purpose = "ORDER" THEN hold' = [status |-> "HELD", amount |-> Captured]
         ELSE hold' = hold
      /\ UNCHANGED <<purpose, life, refunds, heard, collected, others, unwound, faults>>
  BY MirrorEffect
<1>2. op'[w] = M!Idle /\ \A v \in Workers : v # w => op'[v] = op[v]
  BY <1>1, MoneyFacts
<1>3. hold' \in [status : {"none", "HELD", "RELEASED", "REFUNDED"}, amount : Int]
  <2>1. hold \in [status : {"none", "HELD", "RELEASED", "REFUNDED"}, amount : Int]
    BY DEF MoneySafe, M!TypeOK
  <2>2. Captured \in Int
    BY MoneyFacts
  <2> QED
    BY <1>1, <2>1, <2>2
<1>4. M!TypeOK'
  BY <1>1, <1>3, MoneyFacts DEF MoneySafe, M!TypeOK
<1>5. MirrorsOnce'
  <2>1. \A v \in Workers : op'[v].pc # "mirror"
    BY <1>1, <1>2, IdleHandler DEF MoneySafe, MirrorsOnce
  <2>2. wallet <= 0 /\ wallet + others >= 0
    <3>1. wallet <= Captured * mirrored /\ wallet + others >= 0
      BY DEF MoneySafe, MirrorsOnce
    <3> QED
      BY <1>1, <3>1, MoneyFacts
  <2>3. wallet' <= Captured * mirrored' /\ wallet' + others >= 0
    BY <1>1, <2>2, MoneyFacts
  <2> QED
    BY <1>1, <2>1, <2>3 DEF MoneySafe, MirrorsOnce
<1>6. RefundsCovered'
  BY <1>1, RefundsKept DEF MoneySafe, RefundsCovered
<1> QED
  BY <1>1, <1>4, <1>5, <1>6, IdleHandler, HandlerSafe

\* A handler that ends, having taken n for refund r out of the wallet.
Takes(w, r, n) ==
  /\ r \in Refunds /\ op' = [op EXCEPT ![w] = M!Idle]
  /\ n \in Nat /\ n <= wallet + others /\ wallet' = wallet - n
  /\ unwound'[r] = unwound[r] + 1 /\ unwound' \in [Refunds -> Nat]
  /\ \A q \in Refunds \ {r} : unwound'[q] = unwound[q]
  /\ hold'.status \in {"none", "HELD", "RELEASED", "REFUNDED"} /\ hold'.amount \in Int
  /\ hold' \in [status : {"none", "HELD", "RELEASED", "REFUNDED"}, amount : Int]
  /\ UNCHANGED <<purpose, life, refunds, heard, collected, others, mirrored, faults>>

LEMMA DebitEffect ==
  ASSUME MoneySafe, NEW w \in Workers, M!DebitTopUp(w), NEW r, r = op[w].refund
  PROVE  /\ op[w].pc = "unwind" /\ r \in Refunds /\ purpose = "WALLET_TOP_UP"
         /\ refunds[r].status = "SUCCEEDED" /\ hold' = hold
         /\ \/ Looks(w, M!Idle) /\ faults' = faults
               /\ ~(unwound[r] = 0 /\ refunds[r].amount <= wallet + others)
            \/ Takes(w, r, refunds[r].amount) /\ unwound[r] = 0
<1>1. /\ op[w].pc = "unwind" /\ purpose = "WALLET_TOP_UP" /\ op' = [op EXCEPT ![w] = M!Idle]
      /\ UNCHANGED <<purpose, life, refunds, heard, collected, hold, others, mirrored, faults>>
      /\ IF unwound[r] = 0 /\ refunds[r].amount <= wallet + others
         THEN wallet' = wallet - refunds[r].amount /\ unwound' = [unwound EXCEPT ![r] = @ + 1]
         ELSE UNCHANGED <<wallet, unwound>>
  BY DEF M!DebitTopUp, M!At, M!Done, M!Become
<1>2. r \in Refunds /\ refunds[r].status = "SUCCEEDED"
  BY <1>1 DEF MoneySafe, Handling, Refunding
<1>3. CASE unwound[r] = 0 /\ refunds[r].amount <= wallet + others
  <2>1. /\ unwound'[r] = unwound[r] + 1 /\ \A q \in Refunds \ {r} : unwound'[q] = unwound[q]
        /\ unwound' \in [Refunds -> Nat]
    BY <1>1, <1>2, <1>3 DEF MoneySafe, M!TypeOK
  <2>2. hold' \in [status : {"none", "HELD", "RELEASED", "REFUNDED"}, amount : Int]
    BY <1>1 DEF MoneySafe, M!TypeOK
  <2> QED
    BY <1>1, <1>2, <1>3, <2>1, <2>2, MoneyFacts DEF Takes
<1>4. CASE ~(unwound[r] = 0 /\ refunds[r].amount <= wallet + others)
  BY <1>1, <1>2, <1>4, MoneyFacts DEF Looks
<1> QED
  BY <1>1, <1>2, <1>3, <1>4

LEMMA UnholdEffect ==
  ASSUME MoneySafe, NEW w \in Workers, M!Unhold(w), NEW r, r = op[w].refund,
         NEW full, full = (refunds[r].amount >= op[w].seen),
         NEW n, n = IF full THEN op[w].seen ELSE refunds[r].amount
  PROVE  /\ op[w].pc = "unhold" /\ r \in Refunds /\ purpose = "ORDER"
         /\ refunds[r].status = "SUCCEEDED"
         /\ \/ Looks(w, M!Idle) /\ faults' = faults /\ ~(n > 0 /\ n <= wallet + others)
            \/ /\ Takes(w, r, n) /\ n > 0
               /\ full => hold'.status = "REFUNDED"
               /\ ~full => hold'.status = hold.status /\ hold'.amount = op[w].fresh - n
<1>1. /\ op[w].pc = "unhold" /\ op' = [op EXCEPT ![w] = M!Idle]
      /\ UNCHANGED <<purpose, life, refunds, heard, collected, others, mirrored, faults>>
      /\ IF n > 0 /\ n <= wallet + others
         THEN /\ wallet' = wallet - n /\ unwound' = [unwound EXCEPT ![r] = @ + 1]
              /\ hold' = IF full THEN [hold EXCEPT !.status = "REFUNDED"]
                                 ELSE [hold EXCEPT !.amount = op[w].fresh - n]
         ELSE UNCHANGED <<hold, wallet, unwound>>
  BY DEF M!Unhold, M!At, M!Done, M!Become, M!CoversHold
<1>2. r \in Refunds /\ refunds[r].status = "SUCCEEDED" /\ purpose = "ORDER"
  BY <1>1 DEF MoneySafe, Handling, Refunding
<1>3. n \in Int /\ op[w].fresh - n \in Int
  <2>1. op[w].seen \in Int /\ op[w].fresh \in Int /\ refunds[r].amount \in Int
    BY <1>2, MoneyFacts DEF M!Request
  <2>2. n \in Int
    BY <2>1
  <2> QED
    BY <2>1, <2>2
<1>4. CASE n > 0 /\ n <= wallet + others
  <2>1. /\ unwound'[r] = unwound[r] + 1 /\ \A q \in Refunds \ {r} : unwound'[q] = unwound[q]
        /\ unwound' \in [Refunds -> Nat]
    BY <1>1, <1>2, <1>4 DEF MoneySafe, M!TypeOK
  <2>2. /\ hold' \in [status : {"none", "HELD", "RELEASED", "REFUNDED"}, amount : Int]
        /\ full => hold'.status = "REFUNDED"
        /\ ~full => hold'.status = hold.status /\ hold'.amount = op[w].fresh - n
    <3>1. hold \in [status : {"none", "HELD", "RELEASED", "REFUNDED"}, amount : Int]
      BY DEF MoneySafe, M!TypeOK
    <3>2. hold' = IF full THEN [hold EXCEPT !.status = "REFUNDED"]
                          ELSE [hold EXCEPT !.amount = op[w].fresh - n]
      BY <1>1, <1>4
    <3> QED
      BY <1>3, <3>1, <3>2
  <2>3. n \in Nat
    BY <1>3, <1>4
  <2> QED
    BY <1>1, <1>2, <1>4, <2>1, <2>2, <2>3 DEF Takes
<1>5. CASE ~(n > 0 /\ n <= wallet + others)
  BY <1>1, <1>2, <1>5, MoneyFacts DEF Looks
<1> QED
  BY <1>1, <1>2, <1>4, <1>5

LEMMA TakesSafe ==
  ASSUME MoneySafe, NEW w \in Workers, NEW r, NEW n, Takes(w, r, n),
         purpose = "WALLET_TOP_UP" => unwound[r] = 0
  PROVE  MoneySafe'
<1>1. op'[w] = M!Idle /\ \A v \in Workers : v # w => op'[v] = op[v]
  BY MoneyFacts DEF Takes
<1>2. wallet' \in Int /\ wallet' <= wallet /\ wallet' + others >= 0
  BY MoneyFacts DEF Takes
<1>3. M!TypeOK'
  BY <1>2, MoneyFacts DEF MoneySafe, M!TypeOK, Takes
<1>4. purpose = "WALLET_TOP_UP" => \A q \in Refunds : unwound'[q] <= 1
  BY MoneyFacts DEF MoneySafe, MirrorsOnce, Takes
<1>5. MirrorsOnce'
  <2>1. \A v \in Workers : op'[v].pc = "mirror" => op[v].pc = "mirror"
    BY <1>1, IdleHandler
  <2> QED
    BY <1>2, <1>4, <2>1, MirrorsLess DEF Takes
<1>6. RefundsCovered'
  BY RefundsKept DEF MoneySafe, RefundsCovered, Takes
<1> QED
  BY <1>3, <1>5, <1>6, IdleHandler, HandlerSafe DEF Takes

LEMMA UnwindSafe ==
  ASSUME MoneySafe, NEW w \in Workers, M!DebitTopUp(w) \/ M!Unhold(w)
  PROVE  MoneySafe'
<1>0. PICK r : r = op[w].refund
  OBVIOUS
<1>1. PICK full : full = (refunds[r].amount >= op[w].seen)
  OBVIOUS
<1>2. PICK n : n = IF full THEN op[w].seen ELSE refunds[r].amount
  OBVIOUS
<1>3. CASE Looks(w, M!Idle) /\ faults' = faults
  <2>1. faults' \in 0..MaxFaults
    BY <1>3 DEF MoneySafe, M!TypeOK
  <2> QED
    BY <1>3, <2>1, IdleHandler, LooksKeepsSafe
<1>4. CASE ~(Looks(w, M!Idle) /\ faults' = faults)
  <2>1. CASE M!DebitTopUp(w)
    BY <1>0, <1>4, <2>1, DebitEffect, TakesSafe
  <2>2. CASE M!Unhold(w)
    <3>1. Takes(w, r, n) /\ purpose = "ORDER"
      BY <1>0, <1>1, <1>2, <1>4, <2>2, UnholdEffect
    <3> QED
      BY <3>1, TakesSafe
  <2> QED
    BY <2>1, <2>2
<1> QED
  BY <1>3, <1>4

\* The money is used.
LEMMA UsedSafe ==
  ASSUME MoneySafe, M!Release \/ \E n \in Amounts : M!Spend(n)
  PROVE  MoneySafe'
<1>1. /\ wallet' \in Int /\ wallet' < wallet /\ wallet' + others >= 0
      /\ hold' \in [status : {"none", "HELD", "RELEASED", "REFUNDED"}, amount : Int]
      /\ UNCHANGED <<purpose, life, refunds, heard, collected, others, mirrored, unwound, op, faults>>
  <2>1. hold \in [status : {"none", "HELD", "RELEASED", "REFUNDED"}, amount : Int]
    BY DEF MoneySafe, M!TypeOK
  <2>2. CASE M!Release
    <3>1. hold.amount \in 1..(wallet + others) /\ hold' = [hold EXCEPT !.status = "RELEASED"]
      BY <2>2 DEF M!Release
    <3>2. hold' \in [status : {"none", "HELD", "RELEASED", "REFUNDED"}, amount : Int]
      BY <2>1, <3>1
    <3> QED
      BY <2>2, <3>1, <3>2, MoneyFacts DEF M!Release
  <2>3. CASE \E n \in Amounts : M!Spend(n)
    <3>1. PICK n \in Amounts : M!Spend(n)
      BY <2>3
    <3>2. n \in Nat /\ n > 0
      BY MoneyConstants
    <3> QED
      BY <2>1, <3>1, <3>2, MoneyFacts DEF M!Spend
  <2> QED
    BY <2>2, <2>3
<1>2. M!TypeOK'
  BY <1>1 DEF MoneySafe, M!TypeOK
<1>3. MirrorsOnce'
  <2>1. wallet' <= wallet
    BY <1>1, MoneyFacts
  <2>2. purpose = "WALLET_TOP_UP" => \A q \in Refunds : unwound'[q] <= 1
    BY <1>1 DEF MoneySafe, MirrorsOnce
  <2> QED
    BY <1>1, <2>1, <2>2, MirrorsLess
<1>4. RefundsCovered'
  BY <1>1, RefundsKept DEF MoneySafe, RefundsCovered
<1> QED
  BY <1>1, <1>2, <1>3, <1>4 DEF MoneySafe, Handling

LEMMA MoneySafeNext ==
  ASSUME MoneySafe, M!Next
  PROVE  MoneySafe'
<1>0. faults \in 0..MaxFaults
  BY DEF MoneySafe, M!TypeOK
<1>1. ASSUME NEW w \in Workers, M!ReadRefund(w) PROVE MoneySafe'
  <2>1. PICK self : Looks(w, self) /\ faults' = faults /\ op[w].pc = "refund"
    BY <1>1, ReadRefundLooks
  <2>2. self.pc \notin {"reread", "unhold"}
    BY <2>1, IdleHandler DEF Looks
  <2> QED
    BY <1>0, <2>1, <2>2, LooksKeepsSafe
<1>2. ASSUME NEW w \in Workers, M!FindHold(w) PROVE MoneySafe'
  BY <1>0, <1>2, FindHoldLooks, LooksKeepsSafe
<1>3. ASSUME NEW w \in Workers, M!RereadHold(w) PROVE MoneySafe'
  <2>1. PICK self : Looks(w, self) /\ faults' = faults /\ op[w].pc = "reread"
    BY <1>3, RereadHoldLooks
  <2>2. purpose = "ORDER"
    BY <2>1 DEF MoneySafe, Handling
  <2> QED
    BY <1>0, <2>1, <2>2, LooksKeepsSafe
<1>4. ASSUME NEW w \in Workers, M!Die(w) PROVE MoneySafe'
  <2>1. Looks(w, M!Idle)
    BY <1>4, MoneyFacts DEF M!Die, M!At, M!Done, M!Become, M!money, Looks
  <2>2. faults' \in 0..MaxFaults
    BY <1>0, <1>4, MoneyConstants DEF M!Die
  <2> QED
    BY <2>1, <2>2, IdleHandler, LooksKeepsSafe
<1>5. ASSUME NEW w \in Workers, M!Step(w) PROVE MoneySafe'
  BY <1>1, <1>2, <1>3, <1>5, CollectSafe, PostSafe, MirrorSafe, UnwindSafe DEF M!Step
<1> QED
  BY <1>4, <1>5, PublishedSafe, AskedSafe, AnsweredSafe, UsedSafe DEF M!Next

\* What an undisturbed step is.
Gentle ==
  /\ faults' = faults
  /\ (\E r \in Refunds : refunds'[r].status # "none") => mirrored = 1
  /\ \A v, w \in Workers : op'[v].pc \in Refunding /\ op'[w].pc \in Refunding => v = w
  /\ ~(wallet' < wallet /\ unwound' = unwound)

LEMMA GentleStep ==
  ASSUME MoneySafe, M!MCNext, ~disturbed'
  PROVE  ~disturbed /\ Gentle
<1>0. \A S : M!Cardinality(S) = Cardinality(S)
  BY DEF M!Cardinality, Cardinality
<1>1. /\ ~disturbed /\ ~(faults' # faults)
      /\ ~(M!Asked' # {} /\ mirrored = 0)
      /\ ~(Cardinality(M!OnRefund') > 1)
      /\ ~(wallet' < wallet /\ unwound' = unwound)
  BY <1>0 DEF M!MCNext
<1>2. (\E r \in Refunds : refunds'[r].status # "none") => mirrored = 1
  <2>1. ASSUME NEW r \in Refunds, refunds'[r].status # "none" PROVE r \in M!Asked'
    BY <2>1 DEF M!Asked, M!NoRefund
  <2> QED
    BY <1>1, <2>1, MoneyFacts
<1>3. ASSUME NEW v \in Workers, NEW w \in Workers, op'[v].pc \in Refunding, op'[w].pc \in Refunding,
             v # w
      PROVE  FALSE
  <2>1. PICK S : S = M!OnRefund'
    OBVIOUS
  <2>2. S \in SUBSET Workers /\ {v, w} \in SUBSET S
    BY <1>3, <2>1 DEF M!OnRefund, Refunding
  <2>3. IsFiniteSet(S)
    BY <2>2, MoneyConstants, FS_Subset
  <2>4. Cardinality({v, w}) <= Cardinality(S) /\ Cardinality(S) \in Nat
    BY <2>2, <2>3, FS_Subset, FS_CardinalityType
  <2>5. Cardinality({v, w}) = 2
    <3>1. IsFiniteSet({v}) /\ Cardinality({v}) = 1
      BY FS_Singleton
    <3>2. Cardinality({v} \cup {w}) = Cardinality({v}) + 1
      BY <1>3, <3>1, FS_AddElement
    <3>3. {v} \cup {w} = {v, w}
      OBVIOUS
    <3> QED
      BY <3>1, <3>2, <3>3
  <2> QED
    BY <1>1, <2>1, <2>4, <2>5
<1> QED
  BY <1>1, <1>2, <1>3 DEF Gentle

LEMMA OrderedNext ==
  ASSUME MoneySafe, MoneySafe', Gentle, mirrored' >= mirrored
  PROVE  Ordered'
<1>1. mirrored' \in Nat /\ mirrored' <= 1 /\ mirrored \in {0, 1}
  BY MoneyFacts DEF MoneySafe, MirrorsOnce, M!TypeOK
<1> QED
  BY <1>1 DEF Gentle, Ordered

LEMMA BalancedKept ==
  ASSUME Balanced, UNCHANGED <<purpose, wallet, mirrored, hold>>,
         \A r \in Refunds : /\ unwound'[r] > 0 <=> unwound[r] > 0
                            /\ unwound[r] > 0 => refunds'[r].amount = refunds[r].amount
  PROVE  Balanced'
<1>1. Unwinds(refunds', unwound') = Unwinds(refunds, unwound)
  BY DEF Unwinds
<1>2. Total(Unwinds(refunds', unwound')) = Total(Unwinds(refunds, unwound))
  BY <1>1
<1> QED
  BY <1>2 DEF Balanced

LEMMA CollectingKept ==
  ASSUME MoneySafe, Collecting, NEW w \in Workers, NEW self, op' = [op EXCEPT ![w] = self],
         op[w].pc \notin {"collect", "mirror"}, UNCHANGED <<collected, mirrored>>,
         heard'[None] = heard[None]
  PROVE  Collecting'
<1>1. \A v \in Workers : v # w => op'[v] = op[v]
  BY MoneyFacts
<1> QED
  BY <1>1 DEF Collecting

LEMMA HoldingKept ==
  ASSUME MoneySafe, \A v \in Workers : Holding(op[v], hold, unwound),
         NEW w \in Workers, NEW self, op' = [op EXCEPT ![w] = self],
         UNCHANGED <<hold, unwound>>, Holding(self, hold, unwound)
  PROVE  (\A v \in Workers : Holding(op[v], hold, unwound))'
<1>1. op'[w] = self /\ \A v \in Workers : v # w => op'[v] = op[v]
  BY MoneyFacts
<1>2. \A v \in Workers : Holding(op'[v], hold, unwound)
  BY <1>1
<1> QED
  BY <1>2 DEF Holding

\* A refund the step is not about.
LEMMA TrackedOther ==
  ASSUME MoneySafe, NEW w \in Workers, NEW self, op' = [op EXCEPT ![w] = self],
         NEW r \in Refunds, Tracked(r), op[w].pc \notin Refunding \/ op[w].refund # r,
         refunds'[r].status = refunds[r].status, refunds'[r].journal = refunds[r].journal,
         heard'[r] = heard[r], unwound'[r] = unwound[r]
  PROVE  Tracked(r)'
<1>1. \A v \in Workers : v # w => op'[v] = op[v]
  BY MoneyFacts
<1>2. \A v \in Workers : op[v].refund = r /\ op[v].pc \in Refunding => v # w
  OBVIOUS
<1> QED
  BY <1>1, <1>2 DEF Tracked, Refunding

LEMMA IdleHolding == Holding(M!Idle, hold, unwound)
  BY IdleHandler DEF Holding

\* Steps that only look.
LEMMA LooksCalm ==
  ASSUME MoneySafe, MoneySafe', Calm, Gentle, NEW w \in Workers, NEW self, Looks(w, self),
         op[w].pc \notin {"collect", "mirror"},
         Holding(self, hold, unwound),
         NEW r, r = op[w].refund, op[w].pc \in Refunding => Tracked(r)'
  PROVE  Calm'
<1>1. /\ op' = [op EXCEPT ![w] = self]
      /\ UNCHANGED <<purpose, life, refunds, heard, collected, hold, wallet, others, mirrored, unwound>>
  BY DEF Looks
<1>2. Ordered'
  BY <1>1, OrderedNext, MoneyFacts
<1>3. Collecting'
  BY <1>1, CollectingKept DEF Calm
<1>4. Balanced'
  BY <1>1, BalancedKept DEF Calm
<1>5. \A v \in Workers : Holding(op'[v], hold', unwound')
  BY <1>1, HoldingKept DEF Calm
<1>6. \A q \in Refunds : Tracked(q)'
  <2>1. ASSUME NEW q \in Refunds, op[w].pc \in Refunding, q = r PROVE Tracked(q)'
    BY <2>1
  <2>2. ASSUME NEW q \in Refunds, op[w].pc \notin Refunding \/ q # r PROVE Tracked(q)'
    BY <1>1, <2>2, TrackedOther DEF Calm
  <2> QED
    BY <2>1, <2>2
<1> QED
  BY <1>2, <1>3, <1>4, <1>5, <1>6 DEF Calm

LEMMA PublishedCalm ==
  ASSUME MoneySafe, MoneySafe', Calm, Gentle, NEW w \in Workers,
         M!PaymentCompleted(w) \/ \E r \in Refunds : M!PaymentRefunded(w, r)
  PROVE  Calm'
<1>1. PICK e, self : Published(w, e, self)
  BY PublishEffect
<1>2. /\ e \in Refunds \cup {None} /\ self \in M!Request /\ self.refund = e
      /\ op[w].pc = "idle" /\ op' = [op EXCEPT ![w] = self]
      /\ self.pc = IF e = None THEN "collect" ELSE "refund"
      /\ e # None => refunds[e].status = "SUCCEEDED"
      /\ UNCHANGED <<purpose, life, refunds, collected, hold, wallet, others, mirrored, unwound,
                     faults>>
  BY <1>1 DEF Published
<1>3. /\ heard'[e] = heard[e] + 1 /\ heard[e] \in Nat
      /\ \A d \in Refunds \cup {None} : d # e => heard'[d] = heard[d]
  BY <1>1 DEF Published
<1>4. op'[w] = self /\ \A v \in Workers : v # w => op'[v] = op[v]
  BY <1>2, MoneyFacts
<1>5. Ordered'
  BY <1>2, OrderedNext, MoneyFacts
<1>6. Collecting'
  <2>1. CASE e = None
    BY <1>2, <1>4, <2>1 DEF Calm, Collecting
  <2>2. CASE e # None
    BY <1>2, <1>3, <2>2, CollectingKept DEF Calm
  <2> QED
    BY <2>1, <2>2
<1>7. Balanced'
  BY <1>2, BalancedKept DEF Calm
<1>8. \A v \in Workers : Holding(op'[v], hold', unwound')
  <2>1. Holding(self, hold, unwound)
    BY <1>2 DEF Holding
  <2> QED
    BY <1>2, <2>1, HoldingKept DEF Calm
<1>9. \A q \in Refunds : Tracked(q)'
  <2>1. ASSUME NEW q \in Refunds, q # e PROVE Tracked(q)'
    BY <1>2, <1>3, <2>1, TrackedOther DEF Calm, Refunding
  <2>2. ASSUME NEW q \in Refunds, q = e PROVE Tracked(q)'
    <3>1. self.pc = "refund" /\ self.refund = q /\ q # None
      BY <1>2, <2>2, MoneyFacts
    <3>2. Tracked(q) /\ heard'[q] > 0
      BY <1>3, <2>2 DEF Calm
    <3>3. refunds[q].journal => unwound[q] > 0 \/ \E v \in Workers :
                                  op'[v].refund = q /\ op'[v].pc \in {"unwind", "reread", "unhold"}
      BY <1>2, <1>4, <3>2 DEF Tracked
    <3> QED
      BY <1>2, <1>4, <2>2, <3>1, <3>2, <3>3 DEF Tracked
  <2> QED
    BY <2>1, <2>2
<1> QED
  BY <1>5, <1>6, <1>7, <1>8, <1>9 DEF Calm

\* Refunds are asked for and answered.
LEMMA AnsweredCalm ==
  ASSUME MoneySafe, MoneySafe', Calm, Gentle, NEW r \in Refunds,
         (\E n \in Amounts : M!RefundAsked(r, n)) \/ M!RefundFailed(r) \/ M!RefundSettled(r)
  PROVE  Calm'
<1>1. /\ UNCHANGED <<purpose, heard, collected, hold, wallet, others, mirrored, unwound, op>>
      /\ refunds[r].status \in {"none", "PENDING"}
      /\ \E row : /\ refunds' = [refunds EXCEPT ![r] = row]
                  /\ refunds[r].status = "none" => row.status = "PENDING" /\ ~row.journal
                  /\ refunds[r].status # "none" =>
                       row.journal = refunds[r].journal /\ row.amount = refunds[r].amount
  <2>1. refunds[r] \in [amount : Amounts \cup {0}, journal : BOOLEAN,
                        status : {"none", "PENDING", "SUCCEEDED", "FAILED"}]
    BY DEF MoneySafe, M!TypeOK
  <2>2. CASE \E n \in Amounts : M!RefundAsked(r, n)
    <3>1. PICK n \in Amounts : M!RefundAsked(r, n)
      BY <2>2
    <3>2. PICK row : row = [amount |-> n, status |-> "PENDING", journal |-> FALSE]
      OBVIOUS
    <3>3. row.status = "PENDING" /\ ~row.journal
      BY <3>2
    <3>4. refunds' = [refunds EXCEPT ![r] = row]
      BY <3>1, <3>2 DEF M!RefundAsked
    <3>5. refunds[r].status = "none"
      BY <3>1 DEF M!RefundAsked, M!NoRefund
    <3> QED
      BY <3>1, <3>3, <3>4, <3>5 DEF M!RefundAsked, M!money
  <2>3. CASE M!RefundFailed(r) \/ M!RefundSettled(r)
    <3>1. PICK to \in {"FAILED", "SUCCEEDED"} :
            refunds[r].status = "PENDING" /\ refunds' = [refunds EXCEPT ![r].status = to]
      BY <2>3 DEF M!RefundFailed, M!RefundSettled
    <3>2. PICK row : row = [refunds[r] EXCEPT !.status = to]
      OBVIOUS
    <3>3. row.journal = refunds[r].journal /\ row.amount = refunds[r].amount
      BY <2>1, <3>2
    <3>4. refunds' = [refunds EXCEPT ![r] = row]
      BY <3>1, <3>2
    <3> QED
      BY <2>3, <3>1, <3>3, <3>4 DEF M!RefundFailed, M!RefundSettled, M!money
  <2> QED
    BY <2>2, <2>3
<1>2. PICK row : /\ refunds' = [refunds EXCEPT ![r] = row]
                 /\ refunds[r].status = "none" => row.status = "PENDING" /\ ~row.journal
                 /\ refunds[r].status # "none" =>
                       row.journal = refunds[r].journal /\ row.amount = refunds[r].amount
  BY <1>1
<1>3. refunds'[r] = row /\ \A q \in Refunds \ {r} : refunds'[q] = refunds[q]
  BY <1>2 DEF MoneySafe, M!TypeOK
<1>4. ~(heard[r] > 0) /\ ~(unwound[r] > 0)
  BY <1>1 DEF MoneySafe, RefundsCovered, Calm, Tracked
<1>5. Ordered'
  BY <1>1, OrderedNext, MoneyFacts
<1>6. Collecting' /\ \A v \in Workers : Holding(op'[v], hold', unwound')
  BY <1>1 DEF Calm, Collecting
<1>7. Balanced'
  BY <1>1, <1>3, <1>4, BalancedKept DEF Calm
<1>8. \A q \in Refunds : Tracked(q)'
  <2>1. \A q \in Refunds \ {r} : Tracked(q)'
    BY <1>1, <1>3 DEF Calm, Tracked
  <2>2. Tracked(r)'
    <3>1. Tracked(r)
      BY DEF Calm
    <3>2. refunds[r].status = "none" => ~refunds[r].journal
      BY DEF MoneySafe, RefundsCovered
    <3>3. row.journal => refunds[r].journal
      BY <1>2, <3>2
    <3> QED
      BY <1>1, <1>3, <1>4, <3>1, <3>3 DEF Tracked
  <2> QED
    BY <2>1, <2>2
<1> QED
  BY <1>5, <1>6, <1>7, <1>8 DEF Calm

LEMMA ReadRefundCalm ==
  ASSUME MoneySafe, MoneySafe', Calm, Gentle, NEW w \in Workers, M!ReadRefund(w)
  PROVE  Calm'
<1>0. PICK r : r = op[w].refund
  OBVIOUS
<1>1. PICK self : /\ Looks(w, self) /\ op[w].pc = "refund"
                  /\ self = M!Idle => refunds[r].journal
  BY <1>0, ReadRefundLooks
<1>2. /\ op' = [op EXCEPT ![w] = self] /\ self.pc \in {"idle", "post_refund"}
      /\ self # M!Idle => self.pc = "post_refund" /\ self.refund = r
      /\ UNCHANGED <<refunds, heard, unwound>> /\ r \in Refunds
  BY <1>0, <1>1, IdleHandler DEF Looks, MoneySafe, Handling, Refunding
<1>3. Holding(self, hold, unwound)
  BY <1>2 DEF Holding
<1>4. Tracked(r)'
  <2>1. op'[w] = self /\ \A v \in Workers : v # w => op'[v] = op[v]
    BY <1>2, MoneyFacts
  <2>2. Tracked(r)
    BY <1>2 DEF Calm
  <2> QED
    BY <1>1, <1>2, <2>1, <2>2 DEF Tracked
<1> QED
  BY <1>0, <1>1, <1>3, <1>4, LooksCalm

LEMMA FindHoldCalm ==
  ASSUME MoneySafe, MoneySafe', Calm, Gentle, NEW w \in Workers,
         M!FindHold(w) \/ M!RereadHold(w)
  PROVE  Calm'
<1>0. PICK r : r = op[w].refund
  OBVIOUS
<1>1. PICK self : /\ Looks(w, self) /\ op[w].pc \in {"unwind", "reread"} /\ purpose = "ORDER"
                  /\ self = M!Idle => unwound[r] # 0 \/ hold.status # "HELD"
                  /\ self.pc \in {"idle", "reread", "unhold"}
                  /\ self.pc \in {"reread", "unhold"} =>
                       unwound[r] = 0 /\ hold.status = "HELD" /\ self.seen = hold.amount
                  /\ self.pc = "unhold" => self.fresh = hold.amount
  <2>1. CASE M!FindHold(w)
    <3>1. PICK self :
              /\ Looks(w, self) /\ op[w].pc = "unwind"
              /\ self.pc \in {"reread", "unhold"} =>
                   unwound[op[w].refund] = 0 /\ hold.status = "HELD" /\ self.seen = hold.amount
              /\ self = M!Idle => unwound[op[w].refund] # 0 \/ hold.status # "HELD"
              /\ self.pc \in {"idle", "reread"}
      BY <2>1, FindHoldLooks
    <3> QED
      BY <1>0, <2>1, <3>1, FindHoldLooks
  <2>2. CASE M!RereadHold(w)
    <3>1. PICK self :
            /\ Looks(w, self) /\ op[w].pc = "reread"
            /\ self.pc = "unhold" =>
                 self.seen = op[w].seen /\ self.fresh = hold.amount /\ hold.status = "HELD"
            /\ self = M!Idle => hold.status # "HELD"
            /\ self.pc \in {"idle", "unhold"}
      BY <2>2, RereadHoldLooks
    <3>2. unwound[r] = 0 /\ op[w].seen = hold.amount /\ purpose = "ORDER"
      BY <1>0, <3>1 DEF Calm, Holding, MoneySafe, Handling
    <3> QED
      BY <3>1, <3>2
  <2> QED
    BY <2>1, <2>2
<1>2. /\ op' = [op EXCEPT ![w] = self]
      /\ self # M!Idle => self.pc \in {"reread", "unhold"} /\ self.refund = r
      /\ UNCHANGED <<refunds, heard, unwound>> /\ r \in Refunds
      /\ refunds[r].status = "SUCCEEDED"
  BY <1>0, <1>1, IdleHandler DEF Looks, MoneySafe, Handling, Refunding
<1>3. Holding(self, hold, unwound)
  BY <1>1, <1>2, IdleHandler, IdleHolding DEF Holding
<1>4. self = M!Idle => unwound[r] > 0
  BY <1>1, <1>2, Affordable, MoneyFacts
<1>5. Tracked(r)'
  <2>1. op'[w] = self /\ \A v \in Workers : v # w => op'[v] = op[v]
    BY <1>2, MoneyFacts
  <2>2. Tracked(r)
    BY <1>2 DEF Calm
  <2>3. refunds[r].journal \/ \E v \in Workers : op'[v].refund = r /\ op'[v].pc \in {"refund", "post_refund"}
    <3>1. heard[r] > 0
      BY <1>0, <1>1 DEF MoneySafe, Handling, Refunding
    <3> QED
      BY <1>1, <1>2, <2>1, <2>2, <3>1 DEF Tracked
  <2> QED
    BY <1>1, <1>2, <1>4, <2>1, <2>2, <2>3 DEF Tracked
<1> QED
  BY <1>0, <1>1, <1>3, <1>5, LooksCalm

LEMMA CollectCalm ==
  ASSUME MoneySafe, MoneySafe', Calm, Gentle, NEW w \in Workers, M!PostCollected(w)
  PROVE  Calm'
<1>1. PICK self \in M!Request :
        /\ op[w].pc = "collect" /\ op' = [op EXCEPT ![w] = self]
        /\ \/ self.pc = "idle" /\ collected' = collected /\ (collected \/ life # "CAPTURED")
           \/ self.pc = "mirror" /\ collected' = TRUE
        /\ UNCHANGED <<purpose, life, refunds, heard, hold, wallet, others, mirrored, unwound>>
  BY CollectEffect, MoneyFacts, IdleHandler DEF Looks
<1>2. op'[w] = self /\ \A v \in Workers : v # w => op'[v] = op[v]
  BY <1>1, MoneyFacts
<1>3. Ordered'
  BY <1>1, OrderedNext, MoneyFacts
<1>4. Collecting'
  <2>1. CASE self.pc = "mirror" /\ collected' = TRUE
    BY <1>2, <2>1 DEF Collecting
  <2>2. CASE self.pc = "idle" /\ collected' = collected /\ (collected \/ life # "CAPTURED")
    <3>1. collected
      BY <2>2 DEF MoneySafe, RefundsCovered, MirrorsOnce, Calm, Ordered
    <3> QED
      BY <1>1, <1>2, <2>2, <3>1 DEF Calm, Collecting
  <2> QED
    BY <1>1, <2>1, <2>2
<1>5. Balanced'
  BY <1>1, BalancedKept DEF Calm
<1>6. \A v \in Workers : Holding(op'[v], hold', unwound')
  <2>1. Holding(self, hold, unwound)
    BY <1>1 DEF Holding
  <2> QED
    BY <1>1, <2>1, HoldingKept DEF Calm
<1>7. \A q \in Refunds : Tracked(q)'
  BY <1>1, TrackedOther DEF Calm, Refunding
<1> QED
  BY <1>3, <1>4, <1>5, <1>6, <1>7 DEF Calm

LEMMA PostCalm ==
  ASSUME MoneySafe, MoneySafe', Calm, Gentle, NEW w \in Workers, M!PostRefund(w)
  PROVE  Calm'
<1>0. PICK r : r = op[w].refund
  OBVIOUS
<1>1. PICK self \in M!Request :
        self.pc = "unwind" /\ self.refund = r /\ op' = [op EXCEPT ![w] = self]
  BY <1>0, PostEffect
<1>2. /\ op[w].pc = "post_refund" /\ r \in Refunds /\ refunds[r].status = "SUCCEEDED"
      /\ \A q \in Refunds : /\ refunds'[q].status = refunds[q].status
                            /\ refunds'[q].amount = refunds[q].amount
                            /\ q # r => refunds'[q].journal = refunds[q].journal
      /\ UNCHANGED <<purpose, life, heard, collected, hold, wallet, others, mirrored, unwound,
                     faults>>
  BY <1>0, PostEffect
<1>3. op'[w] = self /\ \A v \in Workers : v # w => op'[v] = op[v]
  BY <1>1, MoneyFacts
<1>4. Ordered'
  BY <1>2, OrderedNext, MoneyFacts
<1>5. Collecting'
  BY <1>1, <1>2, CollectingKept DEF Calm
<1>6. Balanced'
  BY <1>2, BalancedKept DEF Calm
<1>7. \A v \in Workers : Holding(op'[v], hold', unwound')
  <2>1. Holding(self, hold, unwound)
    BY <1>1 DEF Holding
  <2> QED
    BY <1>1, <1>2, <2>1, HoldingKept DEF Calm
<1>8. \A q \in Refunds : Tracked(q)'
  <2>1. ASSUME NEW q \in Refunds, q # r PROVE Tracked(q)'
    BY <1>0, <1>1, <1>2, <2>1, TrackedOther DEF Calm
  <2>2. Tracked(r)'
    <3>1. Tracked(r)
      BY <1>2 DEF Calm
    <3>2. refunds'[r].journal
      BY <1>0, <1>2 DEF M!PostRefund, MoneySafe, M!TypeOK
    <3> QED
      BY <1>1, <1>2, <1>3, <3>1, <3>2 DEF Tracked
  <2> QED
    BY <2>1, <2>2
<1> QED
  BY <1>4, <1>5, <1>6, <1>7, <1>8 DEF Calm

LEMMA MirrorCalm ==
  ASSUME MoneySafe, MoneySafe', Calm, Gentle, NEW w \in Workers, M!Mirror(w)
  PROVE  Calm'
<1>1. /\ op[w].pc = "mirror" /\ collected /\ mirrored = 0 /\ op' = [op EXCEPT ![w] = M!Idle]
      /\ wallet' = wallet + Captured /\ mirrored' = 1
      /\ IF purpose = "ORDER" THEN hold' = [status |-> "HELD", amount |-> Captured]
         ELSE hold' = hold
      /\ UNCHANGED <<purpose, life, refunds, heard, collected, others, unwound, faults>>
  BY MirrorEffect
<1>2. op'[w] = M!Idle /\ \A v \in Workers : v # w => op'[v] = op[v]
  BY <1>1, MoneyFacts
<1>3. Ordered'
  BY <1>1, OrderedNext, MoneyFacts
<1>4. Collecting'
  BY <1>1 DEF Collecting
<1>5. \A q \in Refunds : refunds[q].status = "none" /\ unwound[q] = 0 /\ ~(heard[q] > 0)
  <2>1. \A q \in Refunds : refunds[q].status = "none"
    BY <1>1 DEF Calm, Ordered
  <2> QED
    BY <2>1, MoneyFacts DEF Calm, Tracked, MoneySafe, RefundsCovered
<1>6. Balanced'
  <2>1. Total(Unwinds(refunds', unwound')) = Total(Unwinds(refunds, unwound))
    BY <1>1
  <2>2. Total(Unwinds(refunds, unwound)) = 0
    <3>1. \A q \in Refunds : Unwinds(refunds, unwound)[q] = 0
      BY <1>5 DEF Unwinds
    <3> QED
      BY <3>1, SumOfZeros, MoneyConstants DEF Total
  <2>3. wallet = 0
    BY <1>1, <2>2, MoneyFacts DEF Calm, Balanced
  <2>4. wallet' = Captured /\ Captured > 0 /\ Captured \in Nat
    BY <1>1, <2>3, MoneyFacts
  <2>5. wallet' = Captured * mirrored' - Total(Unwinds(refunds', unwound'))
    BY <1>1, <2>1, <2>2, <2>4
  <2>6. purpose = "ORDER" => hold'.status = "HELD" /\ hold'.amount = wallet'
    BY <1>1, <2>4
  <2> QED
    BY <1>1, <2>4, <2>5, <2>6 DEF Balanced
<1>7. \A v \in Workers : Holding(op'[v], hold', unwound')
  <2>1. \A v \in Workers : op[v].pc \notin Refunding
    BY <1>5 DEF MoneySafe, Handling
  <2>2. \A v \in Workers : op'[v].pc \notin {"reread", "unhold"}
    BY <1>2, <2>1, IdleHandler DEF Refunding
  <2> QED
    BY <2>2 DEF Holding
<1>8. \A q \in Refunds : Tracked(q)'
  BY <1>1, TrackedOther DEF Calm, Refunding
<1> QED
  BY <1>3, <1>4, <1>6, <1>7, <1>8 DEF Calm

\* A refund is unwound in full.
LEMMA TakesCalm ==
  ASSUME MoneySafe, MoneySafe', Calm, Gentle, NEW w \in Workers, NEW r, r = op[w].refund,
         op[w].pc \in {"unwind", "unhold"}, NEW n, Takes(w, r, n), n = refunds[r].amount,
         unwound[r] = 0,
         purpose = "ORDER" => IF n = wallet THEN hold'.status = "REFUNDED"
                              ELSE hold'.status = "HELD" /\ hold'.amount = wallet - n
  PROVE  Calm'
<1>1. /\ r \in Refunds /\ op' = [op EXCEPT ![w] = M!Idle]
      /\ n \in Nat /\ wallet' = wallet - n
      /\ unwound'[r] = unwound[r] + 1
      /\ \A q \in Refunds \ {r} : unwound'[q] = unwound[q]
      /\ UNCHANGED <<purpose, life, refunds, heard, collected, others, mirrored, faults>>
  BY DEF Takes
<1>2. op'[w] = M!Idle /\ \A v \in Workers : v # w => op'[v] = op[v]
  BY <1>1, MoneyFacts
<1>3. op[w].pc \in Refunding /\ refunds[r].status = "SUCCEEDED"
  BY DEF MoneySafe, Handling, Refunding
<1>4. mirrored = 1 /\ n <= wallet /\ n > 0
  BY <1>1, <1>3, Affordable
<1>5. Ordered'
  BY <1>1, OrderedNext, MoneyFacts
<1>6. Collecting'
  BY <1>1, CollectingKept DEF Calm
<1>7. Total(Unwinds(refunds', unwound')) = Total(Unwinds(refunds, unwound)) + n
  <2>1. /\ \A q \in Refunds : Unwinds(refunds, unwound)[q] \in Int /\ Unwinds(refunds', unwound')[q] \in Int
        /\ \A q \in Refunds \ {r} : Unwinds(refunds, unwound)[q] = Unwinds(refunds', unwound')[q]
        /\ Unwinds(refunds, unwound)[r] = 0 /\ Unwinds(refunds', unwound')[r] = n
    BY <1>1, MoneyFacts DEF Unwinds
  <2>2. SumOver(Unwinds(refunds', unwound'), Refunds)
          = SumOver(Unwinds(refunds, unwound), Refunds)
              + Unwinds(refunds', unwound')[r] - Unwinds(refunds, unwound)[r]
    <3>1. PICK f : f = Unwinds(refunds, unwound)
      OBVIOUS
    <3>2. PICK g : g = Unwinds(refunds', unwound')
      OBVIOUS
    <3>3. SumOver(g, Refunds) = SumOver(f, Refunds) + g[r] - f[r]
      BY <1>1, <2>1, <3>1, <3>2, SumChange, MoneyConstants
    <3> QED
      BY <3>1, <3>2, <3>3
  <2> QED
    BY <1>1, <2>1, <2>2, SumFacts DEF Total
<1>8. Balanced'
  <2>1. wallet = Captured - Total(Unwinds(refunds, unwound)) /\ Total(Unwinds(refunds, unwound)) \in Int
    BY <1>4, SumFacts, MoneyFacts DEF Calm, Balanced
  <2>2. wallet' = Captured * mirrored' - Total(Unwinds(refunds', unwound'))
    BY <1>1, <1>4, <1>7, <2>1, MoneyFacts
  <2>3. wallet' > 0 <=> n # wallet
    BY <1>1, <1>4, MoneyFacts
  <2> QED
    BY <1>1, <2>2, <2>3 DEF Balanced
<1>9. \A v \in Workers : op'[v].pc \notin Refunding
  BY <1>2, <1>3, IdleHandler DEF Calm, Ordered, Refunding
<1>10. \A v \in Workers : Holding(op'[v], hold', unwound')
  BY <1>9 DEF Holding, Refunding
<1>11. \A q \in Refunds : Tracked(q)'
  <2>1. ASSUME NEW q \in Refunds, q # r PROVE Tracked(q)'
    BY <1>1, <2>1, TrackedOther DEF Calm
  <2>2. Tracked(r)'
    <3>1. Tracked(r) /\ unwound'[r] > 0
      BY <1>1 DEF Calm
    <3>2. heard[r] > 0
      BY <1>3 DEF MoneySafe, Handling
    <3>3. refunds[r].journal
      <4>1. \A v \in Workers : op[v].pc \in {"refund", "post_refund"} => v # w /\ op[v].pc \in Refunding
        BY DEF Refunding
      <4>2. \A v \in Workers : op[v].pc \notin {"refund", "post_refund"}
        BY <1>3, <4>1 DEF Calm, Ordered
      <4> QED
        BY <1>3, <3>1, <3>2, <4>2 DEF Tracked
    <3> QED
      BY <1>1, <1>3, <3>1, <3>2, <3>3 DEF Tracked
  <2> QED
    BY <2>1, <2>2
<1> QED
  BY <1>5, <1>6, <1>8, <1>10, <1>11 DEF Calm

LEMMA UnwindCalm ==
  ASSUME MoneySafe, MoneySafe', Calm, Gentle, NEW w \in Workers,
         M!DebitTopUp(w) \/ M!Unhold(w)
  PROVE  Calm'
<1>0. PICK r : r = op[w].refund
  OBVIOUS
<1>1. PICK n : n = refunds[r].amount
  OBVIOUS
<1>2. /\ op[w].pc \in {"unwind", "unhold"} /\ r \in Refunds /\ refunds[r].status = "SUCCEEDED"
      /\ n \in Nat
  <2>1. op[w].pc \in {"unwind", "unhold"}
    BY DEF M!DebitTopUp, M!Unhold, M!At
  <2>2. r \in Refunds /\ refunds[r].status = "SUCCEEDED"
    BY <1>0, <2>1 DEF MoneySafe, Handling, Refunding
  <2> QED
    BY <1>1, <2>1, <2>2, MoneyFacts
<1>3. unwound[r] = 0 => /\ mirrored = 1 /\ n <= wallet /\ n > 0 /\ n <= wallet + others
                        /\ purpose = "ORDER" => hold.status = "HELD" /\ hold.amount = wallet
  BY <1>1, <1>2, Affordable, MoneyFacts
<1>4. CASE M!DebitTopUp(w)
  <2>1. CASE Takes(w, r, n) /\ unwound[r] = 0
    <3>1. purpose = "WALLET_TOP_UP"
      BY <1>4 DEF M!DebitTopUp
    <3> QED
      BY <1>0, <1>1, <1>2, <2>1, <3>1, TakesCalm
  <2>2. CASE ~(Takes(w, r, n) /\ unwound[r] = 0)
    <3>1. Looks(w, M!Idle) /\ ~(unwound[r] = 0 /\ n <= wallet + others)
      BY <1>0, <1>1, <1>4, <2>2, DebitEffect
    <3>2. unwound[r] > 0
      BY <1>2, <1>3, <3>1, MoneyFacts
    <3>3. Tracked(r)'
      <4>1. /\ op'[w] = M!Idle /\ \A v \in Workers : v # w => op'[v] = op[v]
            /\ UNCHANGED <<refunds, heard, unwound>>
        BY <3>1, MoneyFacts DEF Looks
      <4>2. Tracked(r) /\ op[w].pc = "unwind"
        BY <1>2, <1>4 DEF Calm, M!DebitTopUp, M!At
      <4>3. refunds[r].status = "SUCCEEDED" /\ heard[r] > 0
        BY <3>2, <4>2 DEF Tracked
      <4>4. refunds[r].journal \/ \E v \in Workers : op'[v].refund = r /\ op'[v].pc \in {"refund", "post_refund"}
        BY <4>1, <4>2, <4>3 DEF Tracked
      <4> QED
        BY <3>2, <4>1, <4>3, <4>4 DEF Tracked
    <3>4. op[w].pc \notin {"collect", "mirror"}
      BY <1>2
    <3> QED
      BY <1>0, <3>1, <3>3, <3>4, IdleHolding, LooksCalm
  <2> QED
    BY <2>1, <2>2
<1>5. CASE M!Unhold(w)
  <2>1. PICK seen : seen = op[w].seen
    OBVIOUS
  <2>2. PICK full : full = (n >= seen)
    OBVIOUS
  <2>3. PICK m : m = IF full THEN seen ELSE n
    OBVIOUS
  <2>4. /\ unwound[r] = 0 /\ seen = hold.amount /\ op[w].fresh = hold.amount /\ purpose = "ORDER"
        /\ hold.status = "HELD"
    BY <1>0, <1>5, <2>1 DEF M!Unhold, M!At, Calm, Holding, MoneySafe, Handling
  <2>5. seen = wallet /\ op[w].fresh = wallet
    BY <1>3, <2>4
  <2>6. m = n /\ (full <=> n = wallet)
    <3>1. wallet \in Int /\ n \in Int /\ n <= wallet
      BY <1>2, <1>3, <2>4, MoneyFacts
    <3>2. full <=> n >= wallet
      BY <2>2, <2>5
    <3>3. m = IF full THEN wallet ELSE n
      BY <2>3, <2>5
    <3>4. n >= wallet <=> n = wallet
      BY <3>1
    <3> QED
      BY <3>2, <3>3, <3>4
  <2>7. /\ \/ Looks(w, M!Idle) /\ faults' = faults /\ ~(m > 0 /\ m <= wallet + others)
           \/ /\ Takes(w, r, m) /\ m > 0
              /\ full => hold'.status = "REFUNDED"
              /\ ~full => hold'.status = hold.status /\ hold'.amount = op[w].fresh - m
    BY <1>0, <1>1, <1>5, <2>1, <2>2, <2>3, UnholdEffect
  <2>8. /\ Takes(w, r, n)
        /\ n = wallet => hold'.status = "REFUNDED"
        /\ n # wallet => hold'.status = "HELD" /\ hold'.amount = wallet - n
    BY <1>3, <2>4, <2>5, <2>6, <2>7
  <2> QED
    BY <1>0, <1>1, <1>2, <2>4, <2>8, TakesCalm
<1> QED
  BY <1>4, <1>5

LEMMA MoneyNext ==
  ASSUME MoneyInv, M!MCNext
  PROVE  MoneyInv'
<1>1. MoneySafe /\ M!Next /\ disturbed' \in BOOLEAN
  BY DEF MoneyInv, M!MCNext
<1>2. MoneySafe'
  BY <1>1, MoneySafeNext
<1>3. ASSUME ~disturbed' PROVE Calm'
  <2>1. Calm /\ Gentle
    BY <1>1, <1>3, GentleStep DEF MoneyInv
  <2>2. ASSUME NEW w \in Workers, M!Die(w) PROVE FALSE
    BY <2>1, <2>2, MoneyConstants DEF M!Die, Gentle, MoneyInv, MoneySafe, M!TypeOK
  <2>3. ASSUME M!Release \/ \E n \in Amounts : M!Spend(n) PROVE FALSE
    <3>1. CASE M!Release
      BY <1>1, <2>1, <3>1, MoneyFacts DEF M!Release, Gentle
    <3>2. CASE \E n \in Amounts : M!Spend(n)
      <4>1. PICK n \in Amounts : M!Spend(n)
        BY <3>2
      <4>2. n \in Nat /\ n > 0
        BY MoneyConstants
      <4> QED
        BY <1>1, <2>1, <4>1, <4>2, MoneyFacts DEF M!Spend, Gentle
    <3> QED
      BY <2>3, <3>1, <3>2
  <2>4. ASSUME NEW w \in Workers, M!Step(w) PROVE Calm'
    BY <1>1, <1>2, <2>1, <2>4, CollectCalm, ReadRefundCalm, PostCalm, MirrorCalm, UnwindCalm,
       FindHoldCalm DEF M!Step
  <2>5. ASSUME NEW r \in Refunds,
               (\E n \in Amounts : M!RefundAsked(r, n)) \/ M!RefundFailed(r) \/ M!RefundSettled(r)
        PROVE  Calm'
    BY <1>1, <1>2, <2>1, <2>5, AnsweredCalm
  <2>6. ASSUME NEW w \in Workers, M!PaymentCompleted(w) \/ \E r \in Refunds : M!PaymentRefunded(w, r)
        PROVE  Calm'
    BY <1>1, <1>2, <2>1, <2>6, PublishedCalm
  <2> QED
    BY <1>1, <2>2, <2>3, <2>4, <2>5, <2>6 DEF M!Next
<1> QED
  BY <1>1, <1>2, <1>3 DEF MoneyInv

LEMMA MoneyInit ==
  ASSUME M!MCInit
  PROVE  MoneyInv
<1>1. /\ \A w \in Workers : op[w] = M!Idle
      /\ \A r \in Refunds : /\ refunds[r].status = "none" /\ ~refunds[r].journal
                            /\ refunds[r].amount = 0 /\ heard[r] = 0 /\ unwound[r] = 0
      /\ heard[None] = 0
  BY DEF M!MCInit, M!Init, M!NoRefund
<1>2. M!TypeOK
  <2>1. M!Idle \in M!Request /\ 0 \in 0..MaxPublished /\ MaxFaults \in 0..MaxFaults
    BY MoneyConstants DEF M!Idle, M!Request
  <2>2. M!NoRefund \in [amount : Amounts \cup {0}, journal : BOOLEAN,
                        status : {"none", "PENDING", "SUCCEEDED", "FAILED"}]
    BY DEF M!NoRefund
  <2>3. /\ op \in [Workers -> M!Request] /\ heard \in [Refunds \cup {None} -> 0..MaxPublished]
        /\ refunds \in [Refunds -> [amount : Amounts \cup {0}, journal : BOOLEAN,
                                    status : {"none", "PENDING", "SUCCEEDED", "FAILED"}]]
        /\ unwound \in [Refunds -> Nat]
    BY <2>1, <2>2 DEF M!MCInit, M!Init
  <2>4. hold \in [status : {"none", "HELD", "RELEASED", "REFUNDED"}, amount : Int]
    BY DEF M!MCInit, M!Init
  <2>5. wallet \in Int /\ others \in Nat /\ mirrored \in Nat
    BY MoneyConstants DEF M!MCInit, M!Init
  <2>6. faults \in 0..MaxFaults /\ collected \in BOOLEAN /\ life = "CAPTURED"
    BY <2>1 DEF M!MCInit, M!Init
  <2> QED
    BY <2>3, <2>4, <2>5, <2>6 DEF M!TypeOK
<1>3. /\ \A r \in Refunds : Returned(refunds)[r] = 0
      /\ \A r \in Refunds : Unwinds(refunds, unwound)[r] = 0
  BY <1>1 DEF Returned, Unwinds
<1>4. Total(Returned(refunds)) = 0 /\ Total(Unwinds(refunds, unwound)) = 0
  BY <1>3, SumOfZeros, MoneyConstants DEF Total
<1>5. MirrorsOnce /\ RefundsCovered
  BY <1>1, <1>4, IdleHandler, MoneyConstants DEF M!MCInit, M!Init, MirrorsOnce, RefundsCovered
<1>6. Ordered /\ Collecting /\ Balanced
  BY <1>1, <1>4, IdleHandler, MoneyConstants DEF M!MCInit, M!Init, Ordered, Collecting, Balanced, Refunding
<1>7. \A r \in Refunds : Tracked(r)
  BY <1>1 DEF Tracked
<1>8. \A w \in Workers : Handling(op[w], refunds, heard) /\ Holding(op[w], hold, unwound)
  BY <1>1, IdleHandler, IdleHolding
<1> QED
  BY <1>2, <1>5, <1>6, <1>7, <1>8 DEF M!MCInit, M!Init, MoneyInv, MoneySafe, Calm

LEMMA MoneyImplied ==
  ASSUME MoneyInv
  PROVE  M!MirroredOnce /\ M!HeldIsNetUnlessDisturbed
<1>1. MoneySafe
  BY DEF MoneyInv
<1>2. M!MirroredOnce
  BY <1>1 DEF MoneySafe, MirrorsOnce, M!MirroredOnce
<1> DEFINE due == {r \in Refunds : refunds[r].status = "SUCCEEDED" /\ heard[r] > 0}
           net == Captured - M!MapThenSumSet(LAMBDA r : refunds[r].amount, due)
<1>3. ASSUME \A w \in Workers : M!At(w, "idle"), ~disturbed, heard[None] > 0
      PROVE  /\ wallet = net
             /\ purpose = "ORDER" =>
                  hold = IF net > 0 THEN [status |-> "HELD", amount |-> net]
                         ELSE [hold EXCEPT !.status = "REFUNDED"]
  <2>1. Calm /\ \A w \in Workers : op[w].pc = "idle"
    BY <1>3 DEF MoneyInv, M!At
  <2>2. mirrored = 1
    BY <1>3, <2>1 DEF Calm, Collecting
  <2>3. due \in SUBSET Refunds /\ \A r \in due : refunds[r].amount \in Int
    BY <1>1, MoneyFacts
  <2>4. Among(refunds, due) = Unwinds(refunds, unwound)
    <3>1. \A r \in Refunds : r \in due <=> unwound[r] > 0
      BY <2>1 DEF Calm, Tracked
    <3> HIDE DEF due
    <3> QED
      BY <3>1 DEF Among, Unwinds
  <2>5. M!MapThenSumSet(LAMBDA r : refunds[r].amount, due) = Total(Unwinds(refunds, unwound))
    <3> HIDE DEF due
    <3> QED
      BY <2>3, <2>4, RefundSum
  <2>6. wallet = net
    BY <1>1, <2>1, <2>2, <2>5, MoneyFacts DEF Calm, Balanced
  <2>7. ASSUME purpose = "ORDER"
        PROVE  hold = IF net > 0 THEN [status |-> "HELD", amount |-> net]
                      ELSE [hold EXCEPT !.status = "REFUNDED"]
    <3>1. hold \in [status : {"none", "HELD", "RELEASED", "REFUNDED"}, amount : Int]
      BY <1>1 DEF MoneySafe, M!TypeOK
    <3>2. IF net > 0 THEN hold.status = "HELD" /\ hold.amount = net ELSE hold.status = "REFUNDED"
      BY <2>1, <2>2, <2>6, <2>7 DEF Calm, Balanced
    <3> HIDE DEF net
    <3> QED
      BY <3>1, <3>2
  <2> QED
    BY <2>6, <2>7
<1>4. M!HeldIsNetUnlessDisturbed
  BY <1>3 DEF M!HeldIsNetUnlessDisturbed
<1> QED
  BY <1>2, <1>4

-----------------------------------------------------------------------------
\* Rides.

\* A ride was paid, or need not be paid first, or an admin sent it searching.
Cleared(i, rows, events, sent) ==
  i \in sent \/ ~rows[i].payFirst \/ <<i, "completed">> \in events

Begun == {"SEARCHING", "ASSIGNED", "ARRIVING", "IN_PROGRESS", "COMPLETED", "REJECTED"}

\* A request under way is about a ride there is, and moves it on only if it may.
Entitled(self, rows, events, sent) ==
  /\ self.pc \notin {"idle", "consume", "create"} => self.ride \in Rides
  /\ self.ride \in Rides => rows[self.ride].status # "NEW"
  /\ self.pc = "confirm" => self.status # "NEW" /\ <<self.ride, "completed">> \in events
  /\ self.pc = "assign_write" => Cleared(self.ride, rows, events, sent)
  /\ self.pc = "status_write" /\ self.to \in Begun \ {"SEARCHING"} =>
       Cleared(self.ride, rows, events, sent)

\* A ride that is not there is empty, and one that is searching or has a rider is cleared.
RowsCleared ==
  \A i \in Rides :
    /\ rides[i].status = "NEW" => /\ rides[i].rider = None /\ payment[i] = "none"
                                  /\ \A k \in {"completed", "failed", "refunded"} : <<i, k>> \notin published
    /\ rides[i].rider # None \/ rides[i].status \in Begun => Cleared(i, rides, published, forced)

\* What a request that nothing overlaps has read of its ride is still so.
KnowsRide(self, rows) ==
  /\ self.pc = "confirm" => self.status = rows[self.ride].status
  /\ self.pc = "assign_write" =>
       rows[self.ride].status \in R!Assignable /\ self.rider = rows[self.ride].rider
  /\ self.pc = "status_write" =>
       R!Allowed(rows[self.ride].status, self.to) /\ self.rider = rows[self.ride].rider
  /\ self.pc = "cancel" => rows[self.ride].status \notin R!Terminal

\* A rider is unavailable with a ride, and no more than one, under way.
Accounted(rows, free, strange) ==
  \A r \in Riders \ strange :
    /\ r \notin free <=> \E i \in Rides : rows[i].rider = r /\ rows[i].status \in R!Active
    /\ \A i, j \in Rides :
         /\ rows[i].rider = r /\ rows[i].status \in R!Active
         /\ rows[j].rider = r /\ rows[j].status \in R!Active
         => i = j

Riderless(rows) ==
  \A i \in Rides :
    rows[i].status \in {"NEW", "PENDING_PAYMENT", "SEARCHING", "REJECTED", "FAILED"} =>
      rows[i].rider = None

RideInv ==
  /\ R!TypeOK /\ RowsCleared
  /\ \A w \in Workers : Entitled(op[w], rides, published, forced)
  /\ mixed \in BOOLEAN
  /\ ~mixed => /\ ~R!Overlapped
               /\ Accounted(rides, available, odd) /\ Riderless(rides)
               /\ \A w \in Workers : KnowsRide(op[w], rides)


LEMMA RidesImplied ==
  ASSUME RideInv
  PROVE  R!TypeOK /\ R!RidersAccounted /\ R!PaidBeforeDispatch
<1>1. R!RidersAccounted
  BY DEF RideInv, Accounted, R!RidersAccounted
<1>2. R!PaidBeforeDispatch
  BY DEF RideInv, RowsCleared, Cleared, R!PaidBeforeDispatch
<1> QED
  BY <1>1, <1>2 DEF RideInv

LEMMA IdleRide ==
  /\ R!Idle \in R!Request /\ R!Idle.pc = "idle" /\ R!Idle.ride = None /\ R!Idle.to = "SEARCHING"
  /\ R!Idle.status = "NEW" /\ R!Idle.rider = None /\ R!Idle.pick = None /\ ~R!Idle.quoted
  /\ \A rows, events, sent : Entitled(R!Idle, rows, events, sent) /\ KnowsRide(R!Idle, rows)
<1>1. R!Idle \in R!Request
  BY DEF R!Idle, R!Request, R!Statuses, R!Transitions
<1>2. /\ R!Idle.pc = "idle" /\ R!Idle.ride = None /\ R!Idle.to = "SEARCHING"
      /\ R!Idle.status = "NEW" /\ R!Idle.rider = None /\ R!Idle.pick = None /\ ~R!Idle.quoted
  BY DEF R!Idle
<1> QED
  BY <1>1, <1>2, RideConstants DEF Entitled, KnowsRide

LEMMA RideFacts ==
  ASSUME R!TypeOK
  PROVE  /\ op \in [Workers -> R!Request] /\ \A w \in Workers : op[w] \in R!Request
         /\ rides \in [Rides -> R!Row] /\ \A i \in Rides : rides[i] \in R!Row
         /\ left \in 0..MaxOps /\ faults \in 0..MaxFaults
         /\ left > 0 => left - 1 \in 0..MaxOps
         /\ faults > 0 => faults - 1 \in 0..MaxFaults
  BY RideConstants DEF R!TypeOK

\* What entitles a request is not lost.
LEMMA EntitledStill ==
  ASSUME NEW self \in R!Request, NEW rows \in [Rides -> R!Row], NEW more \in [Rides -> R!Row],
         NEW events, NEW later, events \subseteq later, NEW sent, NEW then, sent \subseteq then,
         \A i \in Rides : /\ rows[i].status # "NEW" =>
                               more[i].status # "NEW" /\ more[i].payFirst = rows[i].payFirst,
         Entitled(self, rows, events, sent)
  PROVE  Entitled(self, more, later, then)
<1>1. self.ride \in Rides /\ rows[self.ride].status # "NEW" =>
        /\ more[self.ride].status # "NEW"
        /\ Cleared(self.ride, rows, events, sent) => Cleared(self.ride, more, later, then)
  BY DEF Cleared
<1>2. self.pc \in {"confirm", "assign_write", "status_write"} => self.ride \in Rides
  BY DEF Entitled
<1> QED
  BY <1>1, <1>2 DEF Entitled

\* The rides' statuses and riders stay.
Unmoved ==
  /\ available' = available
  /\ \A i \in Rides : /\ rides'[i].status = rides[i].status /\ rides'[i].rider = rides[i].rider
                      /\ rides'[i].payFirst = rides[i].payFirst

\* What the payments do to rides that are there.
PaidFor ==
  /\ published \subseteq published'
  /\ \A i \in Rides : rides[i].status = "NEW" =>
       /\ payment[i] = "none" => payment'[i] = "none"
       /\ \A k \in {"completed", "failed", "refunded"} :
            <<i, k>> \in published' => <<i, k>> \in published \/ payment[i] # "none"

LEMMA RideWatched ==
  ASSUME RideInv, R!MCNext, R!TypeOK', Unmoved, PaidFor,
         \A w \in Workers :
           \/ op'[w] = op[w]
           \/ /\ Entitled(op'[w], rides', published', forced')
              /\ ~mixed' => KnowsRide(op'[w], rides')
  PROVE  RideInv'
<1>1. /\ mixed' \in BOOLEAN /\ (~mixed' => ~mixed /\ ~R!Overlapped')
      /\ odd \subseteq odd' /\ forced \subseteq forced'
  BY DEF R!MCNext, RideInv
<1>2. rides \in [Rides -> R!Row] /\ rides' \in [Rides -> R!Row] /\ R!TypeOK
  BY DEF RideInv, R!TypeOK
<1>3. \A w \in Workers : Entitled(op'[w], rides', published', forced')
  <2> SUFFICES ASSUME NEW w \in Workers, op'[w] = op[w]
               PROVE  Entitled(op[w], rides', published', forced')
    OBVIOUS
  <2>1. op[w] \in R!Request /\ Entitled(op[w], rides, published, forced)
    BY <1>2, RideFacts DEF RideInv
  <2>2. \A i \in Rides : rides[i].status # "NEW" =>
          rides'[i].status # "NEW" /\ rides'[i].payFirst = rides[i].payFirst
    BY DEF Unmoved
  <2> QED
    BY <1>1, <1>2, <2>1, <2>2, EntitledStill DEF PaidFor
<1>4. RowsCleared'
  <2>1. RowsCleared
    BY DEF RideInv
  <2> SUFFICES ASSUME NEW i \in Rides
               PROVE  /\ rides'[i].status = "NEW" =>
                           /\ rides'[i].rider = None /\ payment'[i] = "none"
                           /\ \A k \in {"completed", "failed", "refunded"} : <<i, k>> \notin published'
                      /\ rides'[i].rider # None \/ rides'[i].status \in Begun =>
                           Cleared(i, rides', published', forced')
    BY DEF RowsCleared
  <2>2. rides[i].status = "NEW" =>
          /\ rides'[i].rider = None /\ payment'[i] = "none"
          /\ \A k \in {"completed", "failed", "refunded"} : <<i, k>> \notin published'
    BY <2>1 DEF RowsCleared, PaidFor, Unmoved
  <2>3. Cleared(i, rides, published, forced) => Cleared(i, rides', published', forced')
    BY <1>1 DEF Cleared, PaidFor, Unmoved
  <2> QED
    BY <2>1, <2>2, <2>3 DEF RowsCleared, Unmoved
<1>5. ASSUME ~mixed'
      PROVE  /\ Accounted(rides', available', odd') /\ Riderless(rides')
             /\ \A w \in Workers : KnowsRide(op'[w], rides')
  <2>1. /\ Accounted(rides, available, odd) /\ Riderless(rides)
        /\ \A w \in Workers : KnowsRide(op[w], rides)
    BY <1>1, <1>5 DEF RideInv
  <2>2. Accounted(rides', available', odd')
    BY <1>1, <2>1 DEF Accounted, Unmoved
  <2>3. Riderless(rides')
    BY <2>1 DEF Riderless, Unmoved
  <2>4. ASSUME NEW w \in Workers, op'[w] = op[w]
        PROVE  KnowsRide(op[w], rides')
    <3>1. KnowsRide(op[w], rides) /\ Entitled(op[w], rides, published, forced)
      BY <2>1 DEF RideInv
    <3>2. op[w].pc \in {"confirm", "assign_write", "status_write", "cancel"} => op[w].ride \in Rides
      BY <3>1 DEF Entitled
    <3> QED
      BY <3>1, <3>2 DEF KnowsRide, Unmoved
  <2> QED
    BY <1>5, <2>2, <2>3, <2>4
<1> QED
  BY <1>1, <1>3, <1>4, <1>5 DEF RideInv

\* A request that changes at most itself.
LEMMA RideBecomes ==
  ASSUME RideInv, R!MCNext, R!TypeOK' \/ op' \notin [Workers -> R!Request], Unmoved, PaidFor,
         NEW w \in Workers, NEW self \in R!Request, R!Become(w, self),
         Entitled(self, rides', published', forced'), ~mixed' => KnowsRide(self, rides')
  PROVE  RideInv'
<1>1. op' = [op EXCEPT ![w] = self] /\ op \in [Workers -> R!Request]
  BY DEF R!Become, RideInv, R!TypeOK
<1>2. op' \in [Workers -> R!Request] /\ op'[w] = self /\ \A v \in Workers \ {w} : op'[v] = op[v]
  BY <1>1
<1> QED
  BY <1>2, RideWatched

\* The table, case by case.
LEMMA AllowedBegun ==
  ASSUME NEW from \in R!Statuses, NEW to \in R!Statuses, R!Allowed(from, to)
  PROVE  /\ to \in Begun \ {"SEARCHING"} => from \in Begun
         /\ to \in R!Active => from \in R!Active \/ from = "SEARCHING"
         /\ to = "COMPLETED" => from = "IN_PROGRESS"
         /\ to \in {"SEARCHING", "FAILED"} =>
              from \in {"PENDING_PAYMENT", "SEARCHING", "REJECTED"}
         /\ to \in {"COMPLETED", "CANCELLED"} =>
              from \in R!Active \cup {"PENDING_PAYMENT", "SEARCHING", "REJECTED"}
         /\ to = "REJECTED" => from = "ASSIGNED"
         /\ to \notin {"PENDING_PAYMENT", "NEW"}
  BY DEF R!Statuses, R!Transitions, R!Allowed, Begun, R!Active

LEMMA RideArrives ==
  ASSUME RideInv, R!MCNext, NEW w \in Workers, R!Arrives(w)
  PROVE  RideInv'
<1>0. R!TypeOK /\ RowsCleared /\ odd \subseteq odd' /\ forced \subseteq forced'
  BY DEF RideInv, R!MCNext
<1>1. ASSUME NEW self \in R!Request, R!Accept(w, self),
             Entitled(self, rides, published, forced), KnowsRide(self, rides)
      PROVE  RideInv'
  <2>1. R!Become(w, self) /\ UNCHANGED <<rides, available, consumed, priced, payment, published, faults>>
        /\ left' \in 0..MaxOps
    BY <1>0, <1>1, RideFacts DEF R!Accept
  <2>2. Unmoved /\ PaidFor
    BY <2>1 DEF Unmoved, PaidFor
  <2>3. Entitled(self, rides', published', forced')
    BY <1>0, <1>1, <2>1 DEF Entitled, Cleared
  <2>4. op' \in [Workers -> R!Request]
    BY <1>0, <1>1, <2>1 DEF R!Become, R!TypeOK
  <2>5. R!TypeOK'
    BY <1>0, <2>1, <2>4 DEF R!TypeOK
  <2> QED
    BY <1>1, <2>1, <2>2, <2>3, <2>5, RideBecomes
<1>2. ASSUME NEW first \in BOOLEAN, NEW quoted \in BOOLEAN, R!CreateStart(w, first, quoted)
      PROVE  RideInv'
  <2>1. PICK pc \in {"consume", "create"}, to \in {"PENDING_PAYMENT", "SEARCHING"} :
          R!Accept(w, [R!Idle EXCEPT !.pc = pc, !.to = to, !.quoted = quoted])
    BY <1>2 DEF R!CreateStart
  <2> DEFINE self == [R!Idle EXCEPT !.pc = pc, !.to = to, !.quoted = quoted]
  <2>2. to \in R!Statuses
    BY DEF R!Statuses, R!Transitions
  <2>3. self \in R!Request /\ self.pc = pc /\ self.ride = None
    BY <2>2, IdleRide DEF R!Request
  <2>4. R!Accept(w, self)
    BY <2>1
  <2> HIDE DEF self
  <2>5. Entitled(self, rides, published, forced) /\ KnowsRide(self, rides)
    BY <2>3, RideConstants DEF Entitled, KnowsRide
  <2> QED
    BY <1>1, <2>3, <2>4, <2>5
<1>3. ASSUME NEW i \in Rides, R!Exists(i), NEW pc \in {"gateway", "retry", "fail", "cancel"},
             pc = "cancel" => rides[i].status \notin R!Terminal,
             R!Accept(w, [R!Idle EXCEPT !.pc = pc, !.ride = i])
      PROVE  RideInv'
  <2> DEFINE self == [R!Idle EXCEPT !.pc = pc, !.ride = i]
  <2>1. self \in R!Request /\ self.pc = pc /\ self.ride = i
    BY IdleRide DEF R!Request
  <2>2. R!Accept(w, self)
    BY <1>3
  <2> HIDE DEF self
  <2>3. Entitled(self, rides, published, forced) /\ KnowsRide(self, rides)
    BY <1>3, <2>1 DEF Entitled, KnowsRide, R!Exists
  <2> QED
    BY <1>1, <2>1, <2>2, <2>3
<1>4. ASSUME NEW i \in Rides, R!CompletedStart(w, i)
      PROVE  RideInv'
  <2>1. PICK was \in R!Statuses \cup {"NEW"} : was = rides[i].status
    BY <1>0, RideFacts DEF R!Row
  <2> DEFINE self == [R!Idle EXCEPT !.pc = "confirm", !.ride = i, !.status = was]
  <2>2. self \in R!Request /\ self.pc = "confirm" /\ self.ride = i /\ self.status = was
    BY IdleRide DEF R!Request
  <2>3. R!Accept(w, self) /\ <<i, "completed">> \in published
    BY <1>4, <2>1 DEF R!CompletedStart
  <2> HIDE DEF self
  <2>4. Entitled(self, rides, published, forced) /\ KnowsRide(self, rides)
    BY <1>0, <2>1, <2>2, <2>3 DEF Entitled, KnowsRide, RowsCleared
  <2> QED
    BY <1>1, <2>2, <2>3, <2>4
<1>5. ASSUME NEW i \in Rides, NEW r \in Riders, R!AcceptStart(w, i, r)
      PROVE  RideInv'
  <2> DEFINE self == [R!Idle EXCEPT !.pc = "assign", !.ride = i, !.pick = r]
  <2>1. self \in R!Request /\ self.pc = "assign" /\ self.ride = i
    BY IdleRide DEF R!Request
  <2>2. R!Accept(w, self) /\ rides[i].status = "SEARCHING"
    BY <1>5 DEF R!AcceptStart
  <2> HIDE DEF self
  <2>3. Entitled(self, rides, published, forced) /\ KnowsRide(self, rides)
    BY <2>1, <2>2 DEF Entitled, KnowsRide
  <2> QED
    BY <1>1, <2>1, <2>2, <2>3
<1>6. ASSUME NEW i \in Rides, NEW r \in Riders, R!AssignStart(w, i, r)
      PROVE  RideInv'
  <2>1. PICK rider \in Riders \cup {None} : rider = rides[i].rider
    BY <1>0, RideFacts DEF R!Row
  <2> DEFINE self == [R!Idle EXCEPT !.pc = "assign_write", !.ride = i, !.pick = r, !.rider = rider]
  <2>2. self \in R!Request /\ self.pc = "assign_write" /\ self.ride = i /\ self.rider = rider
    BY IdleRide DEF R!Request
  <2>3. R!Accept(w, self) /\ rides[i].status \in R!Assignable
    BY <1>6, <2>1 DEF R!AssignStart
  <2> HIDE DEF self
  <2>4. Entitled(self, rides, published, forced) /\ KnowsRide(self, rides)
    BY <1>0, <2>1, <2>2, <2>3 DEF Entitled, KnowsRide, RowsCleared, R!Assignable, Begun
  <2> QED
    BY <1>1, <2>2, <2>3, <2>4
<1>7. ASSUME NEW i \in Rides, NEW to \in R!Statuses, R!RiderStart(w, i, to)
      PROVE  RideInv'
  <2> DEFINE self == [R!Idle EXCEPT !.pc = "status", !.ride = i, !.to = to]
  <2>1. self \in R!Request /\ self.pc = "status" /\ self.ride = i
    BY IdleRide DEF R!Request
  <2>2. R!Accept(w, self) /\ rides[i].rider # None
    BY <1>7 DEF R!RiderStart
  <2> HIDE DEF self
  <2>3. Entitled(self, rides, published, forced) /\ KnowsRide(self, rides)
    BY <1>0, <2>1, <2>2 DEF Entitled, KnowsRide, RowsCleared
  <2> QED
    BY <1>1, <2>1, <2>2, <2>3
<1>8. ASSUME NEW i \in Rides, NEW to \in R!Statuses, R!UpdateStart(w, i, to)
      PROVE  RideInv'
  <2>1. PICK rider \in Riders \cup {None} : rider = rides[i].rider
    BY <1>0, RideFacts DEF R!Row
  <2> DEFINE self == [R!Idle EXCEPT !.pc = "status_write", !.ride = i, !.to = to, !.rider = rider]
  <2>2. /\ self \in R!Request /\ self.pc = "status_write" /\ self.ride = i /\ self.rider = rider
        /\ self.to = to
    BY IdleRide DEF R!Request
  <2>3. R!Accept(w, self) /\ R!Exists(i) /\ R!Allowed(rides[i].status, to)
    BY <1>8, <2>1 DEF R!UpdateStart
  <2>4. to \in Begun \ {"SEARCHING"} => rides[i].status \in Begun
    BY <1>0, <2>3, AllowedBegun, RideFacts DEF R!Exists, R!Row
  <2> HIDE DEF self
  <2>5. Entitled(self, rides, published, forced) /\ KnowsRide(self, rides)
    BY <1>0, <2>1, <2>2, <2>3, <2>4 DEF Entitled, KnowsRide, RowsCleared, R!Exists
  <2> QED
    BY <1>1, <2>2, <2>3, <2>5
<1>9. ASSUME NEW i \in Rides,
             R!PayStart(w, i) \/ R!RetryStart(w, i) \/ R!FailedStart(w, i) \/ R!CancelStart(w, i)
             \/ R!CancelUnpaidStart(w, i)
      PROVE  RideInv'
  <2>1. R!Exists(i)
    BY <1>0, <1>9 DEF R!PayStart, R!RetryStart, R!FailedStart, R!CancelStart, R!CancelUnpaidStart,
                      R!Exists, RowsCleared, R!UnpaidCancellable
  <2>2. PICK pc \in {"gateway", "retry", "fail", "cancel"} :
          /\ pc = "cancel" => rides[i].status \notin R!Terminal
          /\ R!Accept(w, [R!Idle EXCEPT !.pc = pc, !.ride = i])
    <3>1. R!UnpaidCancellable \cap R!Terminal = {}
      BY DEF R!UnpaidCancellable, R!Terminal
    <3> QED
      BY <1>9, <3>1 DEF R!PayStart, R!RetryStart, R!FailedStart, R!CancelStart, R!CancelUnpaidStart
  <2> QED
    BY <1>3, <2>1, <2>2
<1> QED
  BY <1>2, <1>4, <1>5, <1>6, <1>7, <1>8, <1>9 DEF R!Arrives

LEMMA RideEnds ==
  ASSUME RideInv, R!MCNext, NEW w \in Workers, R!Done(w),
         UNCHANGED <<rides, available, consumed, priced, payment, published, left>>,
         faults' \in 0..MaxFaults
  PROVE  RideInv'
<1>1. Unmoved /\ PaidFor
  BY DEF Unmoved, PaidFor
<1>2. op' \in [Workers -> R!Request]
  BY IdleRide DEF R!Done, R!Become, RideInv, R!TypeOK
<1>3. R!TypeOK'
  BY <1>2 DEF RideInv, R!TypeOK
<1> QED
  BY <1>1, <1>3, IdleRide, RideBecomes DEF R!Done

\* Requests that look at their ride, or write what was paid; and the gateway.
LEMMA RideLooks ==
  ASSUME RideInv, R!MCNext, NEW w \in Workers,
         \/ R!Consume(w) \/ R!PayRead(w) \/ R!Initiate(w) \/ R!Reinitiate(w) \/ R!PayWrite(w)
         \/ R!FailWrite(w) \/ R!Dispatch(w) \/ R!Nearby(w) \/ R!AssignRead(w) \/ R!StatusRead(w)
         \/ R!Die(w)
  PROVE  RideInv'
<1>0. /\ R!TypeOK /\ RowsCleared /\ odd \subseteq odd' /\ forced \subseteq forced'
      /\ op[w] \in R!Request /\ Entitled(op[w], rides, published, forced)
  BY RideFacts DEF RideInv, R!MCNext
<1>1. PICK i : i = op[w].ride
  OBVIOUS
<1>2. ASSUME NEW self \in R!Request, R!Become(w, self),
             UNCHANGED <<rides, available, priced, payment, published, left>>,
             consumed' \in BOOLEAN, faults' \in 0..MaxFaults,
             Entitled(self, rides, published, forced), KnowsRide(self, rides)
      PROVE  RideInv'
  <2>1. Unmoved /\ PaidFor
    BY <1>2 DEF Unmoved, PaidFor
  <2>2. Entitled(self, rides', published', forced')
    BY <1>0, <1>2 DEF Entitled, Cleared
  <2>3. op' \in [Workers -> R!Request]
    BY <1>0, <1>2 DEF R!Become, R!TypeOK
  <2>4. R!TypeOK'
    BY <1>0, <1>2, <2>3 DEF R!TypeOK
  <2> QED
    BY <1>2, <2>1, <2>2, <2>4, RideBecomes
<1>3. ASSUME R!Done(w), UNCHANGED <<rides, available, consumed, priced, payment, published, left>>,
             faults' \in 0..MaxFaults
      PROVE  RideInv'
  BY <1>3, RideEnds
<1>4. consumed \in BOOLEAN /\ faults \in 0..MaxFaults
  BY <1>0 DEF R!TypeOK
<1>5. ASSUME NEW pc \in {"create", "gateway", "nearby"}, R!Continue(w, pc), i \in Rides \/ pc = "create",
             UNCHANGED <<rides, available, priced, payment, published, left, faults>>,
             consumed' \in BOOLEAN
      PROVE  RideInv'
  <2> DEFINE self == [op[w] EXCEPT !.pc = pc]
  <2>1. self \in R!Request /\ self.pc = pc /\ self.ride = i
    BY <1>0, <1>1 DEF R!Request
  <2>2. R!Become(w, self)
    BY <1>5 DEF R!Continue
  <2> HIDE DEF self
  <2>3. Entitled(self, rides, published, forced) /\ KnowsRide(self, rides)
    BY <1>0, <1>1, <1>5, <2>1 DEF Entitled, KnowsRide
  <2> QED
    BY <1>2, <1>4, <1>5, <2>1, <2>2, <2>3
<1>6. CASE R!Consume(w)
  BY <1>4, <1>5, <1>6 DEF R!Consume
<1>7. CASE R!PayRead(w)
  <2>1. i \in Rides
    BY <1>0, <1>1, <1>7 DEF R!PayRead, R!At, Entitled
  <2> QED
    BY <1>3, <1>4, <1>5, <1>7, <2>1 DEF R!PayRead, R!Others
<1>8. CASE R!Dispatch(w)
  <2>1. i \in Rides
    BY <1>0, <1>1, <1>8 DEF R!Dispatch, R!At, Entitled
  <2> QED
    BY <1>3, <1>4, <1>5, <1>8, <2>1 DEF R!Dispatch, R!Others
<1>9. CASE R!Nearby(w)
  <2>1. i \in Rides
    BY <1>0, <1>1, <1>9 DEF R!Nearby, R!At, Entitled
  <2>2. UNCHANGED <<rides, available, consumed, priced, payment, published, left, faults>>
    BY <1>9 DEF R!Nearby, R!Others
  <2>3. CASE R!Done(w)
    BY <1>3, <1>4, <2>2, <2>3
  <2>4. CASE \E r \in available : R!Become(w, [op[w] EXCEPT !.pc = "claim", !.pick = r])
    <3>1. PICK r \in Riders : R!Become(w, [op[w] EXCEPT !.pc = "claim", !.pick = r])
      BY <1>0, <2>4 DEF R!TypeOK
    <3> DEFINE self == [op[w] EXCEPT !.pc = "claim", !.pick = r]
    <3>2. self \in R!Request /\ self.pc = "claim" /\ self.ride = i
      BY <1>0, <1>1 DEF R!Request
    <3>3. R!Become(w, self)
      BY <3>1
    <3> HIDE DEF self
    <3>4. Entitled(self, rides, published, forced) /\ KnowsRide(self, rides)
      BY <1>0, <1>1, <2>1, <3>2 DEF Entitled, KnowsRide
    <3> QED
      BY <1>2, <1>4, <2>2, <3>2, <3>3, <3>4
  <2> QED
    BY <1>9, <2>3, <2>4 DEF R!Nearby
<1>10. CASE R!AssignRead(w)
  <2>1. i \in Rides
    BY <1>0, <1>1, <1>10 DEF R!AssignRead, R!At, Entitled
  <2>2. UNCHANGED <<rides, available, consumed, priced, payment, published, left, faults>>
    BY <1>10 DEF R!AssignRead, R!Others
  <2>3. CASE rides[i].status \in R!Assignable
    <3>1. PICK rider \in Riders \cup {None} : rider = rides[i].rider
      BY <1>0, <2>1, RideFacts DEF R!Row
    <3> DEFINE self == [op[w] EXCEPT !.pc = "assign_write", !.rider = rider]
    <3>2. self \in R!Request /\ self.pc = "assign_write" /\ self.ride = i /\ self.rider = rider
      BY <1>0, <1>1 DEF R!Request
    <3>3. R!Become(w, self)
      BY <1>1, <1>10, <2>3, <3>1 DEF R!AssignRead
    <3> HIDE DEF self
    <3>4. Entitled(self, rides, published, forced) /\ KnowsRide(self, rides)
      BY <1>0, <1>1, <2>1, <2>3, <3>1, <3>2 DEF Entitled, KnowsRide, RowsCleared, R!Assignable, Begun
    <3> QED
      BY <1>2, <1>4, <2>2, <3>2, <3>3, <3>4
  <2>4. CASE rides[i].status \notin R!Assignable
    BY <1>1, <1>3, <1>4, <1>10, <2>2, <2>4 DEF R!AssignRead
  <2> QED
    BY <2>3, <2>4
<1>11. CASE R!StatusRead(w)
  <2>1. i \in Rides /\ rides[i].status # "NEW"
    BY <1>0, <1>1, <1>11 DEF R!StatusRead, R!At, Entitled
  <2>2. UNCHANGED <<rides, available, consumed, priced, payment, published, left, faults>>
    BY <1>11 DEF R!StatusRead, R!Others
  <2>3. CASE R!Allowed(rides[i].status, op[w].to)
    <3>1. PICK rider \in Riders \cup {None} : rider = rides[i].rider
      BY <1>0, <2>1, RideFacts DEF R!Row
    <3> DEFINE self == [op[w] EXCEPT !.pc = "status_write", !.rider = rider]
    <3>2. /\ self \in R!Request /\ self.pc = "status_write" /\ self.ride = i /\ self.rider = rider
          /\ self.to = op[w].to
      BY <1>0, <1>1 DEF R!Request
    <3>3. R!Become(w, self)
      BY <1>1, <1>11, <2>3, <3>1 DEF R!StatusRead
    <3> HIDE DEF self
    <3>4. rides[i].status \in R!Statuses /\ op[w].to \in R!Statuses
      BY <1>0, <2>1, RideFacts DEF R!Row, R!Request
    <3>5. op[w].to \in Begun \ {"SEARCHING"} => rides[i].status \in Begun
      BY <2>3, <3>4, AllowedBegun
    <3>6. Entitled(self, rides, published, forced) /\ KnowsRide(self, rides)
      BY <1>0, <2>1, <2>3, <3>1, <3>2, <3>5 DEF Entitled, KnowsRide, RowsCleared
    <3> QED
      BY <1>2, <1>4, <2>2, <3>2, <3>3, <3>6
  <2>4. CASE ~R!Allowed(rides[i].status, op[w].to)
    BY <1>1, <1>3, <1>4, <1>11, <2>2, <2>4 DEF R!StatusRead
  <2> QED
    BY <2>3, <2>4
<1>12. CASE R!Die(w)
  <2>1. faults' \in 0..MaxFaults
    BY <1>0, <1>12, RideFacts DEF R!Die
  <2> QED
    BY <1>3, <1>4, <1>12, <2>1 DEF R!Die
<1>13. ASSUME NEW self \in R!Request, R!Become(w, self), i \in Rides,
              self.pc \in {"idle", "pay_write"}, self.ride \in {i, None},
              self.pc = "pay_write" => self.ride = i,
              UNCHANGED <<available, consumed, priced, published, left, faults>>,
              payment' \in [Rides -> {"none", "asked", "completed", "failed", "refunded"}],
              \A j \in Rides \ {i} : payment'[j] = payment[j],
              rides' \in [Rides -> R!Row], Unmoved
      PROVE  RideInv'
  <2>1. rides[i].status # "NEW"
    BY <1>0, <1>1, <1>13 DEF Entitled
  <2>2. PaidFor
    BY <1>13, <2>1 DEF PaidFor
  <2>3. Entitled(self, rides', published', forced') /\ KnowsRide(self, rides')
    BY <1>13, <2>1, RideConstants DEF Entitled, KnowsRide, Unmoved
  <2>4. op' \in [Workers -> R!Request]
    BY <1>0, <1>13 DEF R!Become, R!TypeOK
  <2>5. R!TypeOK'
    BY <1>0, <1>13, <2>4 DEF R!TypeOK
  <2> QED
    BY <1>13, <2>2, <2>3, <2>5, RideBecomes
<1>14. CASE R!Initiate(w) \/ R!Reinitiate(w)
  <2>1. /\ UNCHANGED <<rides, available, consumed, priced, published, left, faults>>
        /\ i \in Rides
    BY <1>0, <1>1, <1>14 DEF R!Initiate, R!Reinitiate, R!At, Entitled
  <2>2. /\ payment' \in [Rides -> {"none", "asked", "completed", "failed", "refunded"}]
        /\ \A j \in Rides \ {i} : payment'[j] = payment[j]
    BY <1>0, <1>1, <1>14 DEF R!Initiate, R!Reinitiate, R!TypeOK
  <2>3. rides' \in [Rides -> R!Row] /\ Unmoved
    BY <1>0, <2>1 DEF Unmoved, R!TypeOK
  <2>4. CASE R!Done(w)
    BY <1>13, <2>1, <2>2, <2>3, <2>4, IdleRide DEF R!Done
  <2>5. CASE R!Continue(w, "pay_write")
    <3> DEFINE self == [op[w] EXCEPT !.pc = "pay_write"]
    <3>1. self \in R!Request /\ self.pc = "pay_write" /\ self.ride = i
      BY <1>0, <1>1 DEF R!Request
    <3>2. R!Become(w, self)
      BY <2>5 DEF R!Continue
    <3> HIDE DEF self
    <3> QED
      BY <1>13, <2>1, <2>2, <2>3, <3>1, <3>2
  <2> QED
    BY <1>14, <2>4, <2>5 DEF R!Initiate, R!Reinitiate
<1>15. CASE R!PayWrite(w) \/ R!FailWrite(w)
  <2>1. PICK pay \in {"PROCESSING", "FAILED"} : rides' = [rides EXCEPT ![i].pay = pay]
    BY <1>1, <1>15 DEF R!PayWrite, R!FailWrite
  <2>2. /\ R!Done(w) /\ UNCHANGED <<available, consumed, priced, payment, published, left, faults>>
        /\ i \in Rides
    BY <1>0, <1>1, <1>15 DEF R!PayWrite, R!FailWrite, R!Others, R!At, Entitled
  <2>3. rides' \in [Rides -> R!Row] /\ Unmoved
    <3>1. \A j \in Rides : rides[j] \in R!Row
      BY <1>0, RideFacts
    <3>2. [rides[i] EXCEPT !.pay = pay] \in R!Row
      BY <2>2, <3>1 DEF R!Row
    <3> QED
      BY <1>0, <2>1, <2>2, <3>1, <3>2 DEF Unmoved, R!TypeOK, R!Row
  <2>4. payment \in [Rides -> {"none", "asked", "completed", "failed", "refunded"}]
    BY <1>0 DEF R!TypeOK
  <2> QED
    BY <1>13, <2>2, <2>3, <2>4, IdleRide DEF R!Done
<1> QED
  BY <1>6, <1>7, <1>8, <1>9, <1>10, <1>11, <1>12, <1>14, <1>15

LEMMA RideSettles ==
  ASSUME RideInv, R!MCNext, R!Gateway \/ \E i \in Rides : R!Refunded(i)
  PROVE  RideInv'
<1>0. R!TypeOK /\ RowsCleared /\ forced \subseteq forced' /\ \A i \in Rides : rides[i] \in R!Row
  BY RideFacts DEF RideInv, R!MCNext
<1>1. CASE R!Gateway
  <2>1. PICK i \in Rides, from \in {"asked", "completed"}, to \in {"completed", "failed", "refunded"} :
          R!Settle(i, from, to)
    BY <1>1 DEF R!Gateway
  <2>2. /\ payment[i] = from /\ payment' = [payment EXCEPT ![i] = to]
        /\ published' = published \cup {<<i, to>>}
        /\ UNCHANGED <<rides, available, consumed, priced, op, left, faults>>
    BY <2>1 DEF R!Settle
  <2>3. Unmoved /\ PaidFor
    BY <1>0, <2>2 DEF Unmoved, PaidFor, R!TypeOK
  <2>4. R!TypeOK'
    BY <1>0, <2>2 DEF R!TypeOK
  <2> QED
    BY <2>2, <2>3, <2>4, RideWatched
<1>2. ASSUME NEW i \in Rides, R!Refunded(i)
      PROVE  RideInv'
  <2>1. /\ rides' = [rides EXCEPT ![i].pay = "REFUNDED"] /\ left' \in 0..MaxOps
        /\ UNCHANGED <<available, consumed, priced, payment, published, op, faults>>
    BY <1>0, <1>2, RideFacts DEF R!Refunded
  <2>2. rides' \in [Rides -> R!Row] /\ Unmoved
    <3>1. [rides[i] EXCEPT !.pay = "REFUNDED"] \in R!Row
      BY <1>0 DEF R!Row
    <3> QED
      BY <1>0, <2>1, <3>1 DEF Unmoved, R!TypeOK, R!Row
  <2>3. PaidFor /\ R!TypeOK'
    BY <1>0, <2>1, <2>2 DEF PaidFor, R!TypeOK
  <2> QED
    BY <2>1, <2>2, <2>3, RideWatched
<1> QED
  BY <1>1, <1>2

\* One ride changes.
LEMMA AccountKept ==
  ASSUME NEW i \in Rides, NEW row \in R!Row, rides \in [Rides -> R!Row],
         rides' = [rides EXCEPT ![i] = row], odd \subseteq odd', Accounted(rides, available, odd),
         \A r \in Riders \ odd' :
           LET had == rides[i].rider = r /\ rides[i].status \in R!Active
               has == row.rider = r /\ row.status \in R!Active
           IN \/ (had <=> has) /\ (r \in available' <=> r \in available)
              \/ had /\ ~has /\ r \in available'
              \/ ~had /\ has /\ r \in available /\ r \notin available'
  PROVE  Accounted(rides', available', odd')
<1> SUFFICES ASSUME NEW r \in Riders \ odd'
             PROVE  /\ r \notin available' <=>
                         \E j \in Rides : rides'[j].rider = r /\ rides'[j].status \in R!Active
                    /\ \A j, k \in Rides :
                         /\ rides'[j].rider = r /\ rides'[j].status \in R!Active
                         /\ rides'[k].rider = r /\ rides'[k].status \in R!Active
                         => j = k
  BY DEF Accounted
<1> DEFINE busy(rows, j) == rows[j].rider = r /\ rows[j].status \in R!Active
<1>1. rides'[i] = row /\ \A j \in Rides \ {i} : rides'[j] = rides[j]
  OBVIOUS
<1>2. (busy(rides', i) <=> row.rider = r /\ row.status \in R!Active)
      /\ \A j \in Rides \ {i} : busy(rides', j) <=> busy(rides, j)
  BY <1>1
<1>3. /\ r \notin available <=> \E j \in Rides : busy(rides, j)
      /\ \A j, k \in Rides : busy(rides, j) /\ busy(rides, k) => j = k
  BY DEF Accounted
<1>4. \/ (busy(rides, i) <=> busy(rides', i)) /\ (r \in available' <=> r \in available)
      \/ busy(rides, i) /\ ~busy(rides', i) /\ r \in available'
      \/ ~busy(rides, i) /\ busy(rides', i) /\ r \in available /\ r \notin available'
  BY <1>2
<1> HIDE DEF busy
<1>5. r \notin available' <=> \E j \in Rides : busy(rides', j)
  BY <1>2, <1>3, <1>4
<1>6. \A j, k \in Rides : busy(rides', j) /\ busy(rides', k) => j = k
  BY <1>2, <1>3, <1>4
<1> QED
  BY <1>5, <1>6 DEF busy

\* A request writes its ride and goes on as self.
Writes(w, i, row, self) ==
  /\ op' = [op EXCEPT ![w] = self] /\ rides' = [rides EXCEPT ![i] = row]
  /\ available' \subseteq Riders
  /\ priced' \subseteq Rides
  /\ UNCHANGED <<consumed, payment, published, left, faults>>

LEMMA RideWritten ==
  ASSUME RideInv, R!MCNext, NEW w \in Workers, NEW i \in Rides, NEW row \in R!Row,
         NEW self \in R!Request, Writes(w, i, row, self),
         \/ op[w].ride = i /\ op[w].pc \notin R!MoneyOnly /\ row.payFirst = rides[i].payFirst
         \/ rides[i].status = "NEW",
         row.status # "NEW",
         row.rider # None \/ row.status \in Begun => Cleared(i, rides', published, forced'),
         Entitled(self, rides', published, forced'),
         ~mixed' /\ ~mixed =>
           /\ \A r \in Riders \ odd' :
                LET had == rides[i].rider = r /\ rides[i].status \in R!Active
                    has == row.rider = r /\ row.status \in R!Active
                IN \/ (had <=> has) /\ (r \in available' <=> r \in available)
                   \/ had /\ ~has /\ r \in available'
                   \/ ~had /\ has /\ r \in available /\ r \notin available'
           /\ row.status \in {"PENDING_PAYMENT", "SEARCHING", "REJECTED", "FAILED"} => row.rider = None
           /\ KnowsRide(self, rides')
  PROVE  RideInv'
<1>0. /\ R!TypeOK /\ RowsCleared /\ mixed' \in BOOLEAN /\ (~mixed' => ~mixed /\ ~R!Overlapped')
      /\ odd \subseteq odd' /\ forced \subseteq forced'
      /\ \A v \in Workers : op[v] \in R!Request /\ Entitled(op[v], rides, published, forced)
      /\ rides \in [Rides -> R!Row]
  BY RideFacts DEF RideInv, R!MCNext
<1>1. /\ op'[w] = self /\ \A v \in Workers \ {w} : op'[v] = op[v]
      /\ rides'[i] = row /\ \A j \in Rides \ {i} : rides'[j] = rides[j]
      /\ op' \in [Workers -> R!Request] /\ rides' \in [Rides -> R!Row]
  BY <1>0 DEF Writes, R!TypeOK
<1>2. R!TypeOK'
  BY <1>0, <1>1 DEF Writes, R!TypeOK
<1>3. \A j \in Rides : rides[j].status # "NEW" =>
        rides'[j].status # "NEW" /\ rides'[j].payFirst = rides[j].payFirst
  BY <1>1
<1>4. ASSUME NEW v \in Workers PROVE Entitled(op'[v], rides', published', forced')
  <2>1. CASE v = w
    BY <1>1, <2>1 DEF Writes
  <2>2. CASE v # w
    BY <1>0, <1>1, <1>3, <2>2, EntitledStill DEF Writes
  <2> QED
    BY <2>1, <2>2
<1>5. RowsCleared'
  <2> SUFFICES ASSUME NEW j \in Rides
               PROVE  /\ rides'[j].status = "NEW" =>
                           /\ rides'[j].rider = None /\ payment'[j] = "none"
                           /\ \A k \in {"completed", "failed", "refunded"} : <<j, k>> \notin published'
                      /\ rides'[j].rider # None \/ rides'[j].status \in Begun =>
                           Cleared(j, rides', published', forced')
    BY DEF RowsCleared
  <2>1. CASE j = i
    BY <1>1, <2>1 DEF Writes
  <2>2. CASE j # i
    BY <1>0, <1>1, <2>2 DEF Writes, RowsCleared, Cleared
  <2> QED
    BY <2>1, <2>2
<1>6. ASSUME ~mixed'
      PROVE  /\ Accounted(rides', available', odd') /\ Riderless(rides')
             /\ \A v \in Workers : KnowsRide(op'[v], rides')
  <2>1. /\ ~R!Overlapped /\ Accounted(rides, available, odd) /\ Riderless(rides)
        /\ \A v \in Workers : KnowsRide(op[v], rides)
    BY <1>0, <1>6 DEF RideInv
  <2>2. Accounted(rides', available', odd')
    BY <1>0, <1>6, <2>1, AccountKept DEF Writes
  <2>3. Riderless(rides')
    BY <1>0, <1>1, <1>6, <2>1 DEF Riderless
  <2>4. ASSUME NEW v \in Workers PROVE KnowsRide(op'[v], rides')
    <3>1. CASE v = w
      BY <1>0, <1>1, <1>6, <3>1
    <3>2. ASSUME v # w, op[v].pc \in {"confirm", "assign_write", "status_write", "cancel"}
          PROVE  op[v].ride \in Rides /\ op[v].ride # i
      <4>1. op[v].ride \in Rides /\ rides[op[v].ride].status # "NEW"
        BY <1>0, <3>2 DEF Entitled
      <4>2. op[v].ride # None
        BY <4>1, RideConstants
      <4>3. op[v].pc \notin R!MoneyOnly
        BY <3>2 DEF R!MoneyOnly
      <4>4. ASSUME op[w].ride = i, op[w].pc \notin R!MoneyOnly, op[v].ride = i PROVE FALSE
        BY <2>1, <3>2, <4>2, <4>3, <4>4 DEF R!Overlapped
      <4> QED
        BY <4>1, <4>4
    <3>3. CASE v # w
      BY <1>1, <2>1, <3>2, <3>3 DEF KnowsRide
    <3> QED
      BY <3>1, <3>3
  <2> QED
    BY <2>2, <2>3, <2>4
<1> QED
  BY <1>0, <1>2, <1>4, <1>5, <1>6 DEF RideInv

LEMMA RideCreated ==
  ASSUME RideInv, R!MCNext, NEW w \in Workers, NEW i \in Rides, R!CreateRow(w, i)
  PROVE  RideInv'
<1>1. R!TypeOK /\ op[w] \in R!Request /\ rides[i].status = "NEW"
  BY RideFacts DEF RideInv, R!CreateRow, R!Exists
<1>2. PICK to \in R!Statuses, first \in BOOLEAN, pc \in {"pay", "dispatch"} :
        /\ to = op[w].to /\ first = (to = "PENDING_PAYMENT")
        /\ pc = IF first THEN "pay" ELSE "dispatch"
  BY <1>1 DEF R!Request
<1> DEFINE row  == [R!Absent EXCEPT !.status = to, !.payFirst = first]
           self == [R!Idle EXCEPT !.pc = pc, !.ride = i]
<1>3. row \in R!Row /\ row.status = to /\ row.rider = None /\ row.payFirst = first
  BY <1>2 DEF R!Absent, R!Row
<1>4. self \in R!Request /\ self.pc = pc /\ self.ride = i
  BY IdleRide DEF R!Request
<1>5. Writes(w, i, row, self) /\ available' = available
  <2>1. op' = [op EXCEPT ![w] = self] /\ rides' = [rides EXCEPT ![i] = row]
    BY <1>2 DEF R!CreateRow, R!Become
  <2>2. available \subseteq Riders /\ priced' \subseteq Rides
    BY <1>1 DEF R!CreateRow, R!TypeOK
  <2> QED
    BY <2>1, <2>2 DEF R!CreateRow, Writes
<1> HIDE DEF row, self
<1>6. rides'[i] = row /\ to # "NEW"
  BY <1>1, <1>2, <1>5 DEF Writes, R!TypeOK, R!Statuses, R!Transitions
<1>7. row.status \in Begun => Cleared(i, rides', published, forced')
  BY <1>2, <1>3, <1>6 DEF Cleared, Begun
<1>8. Entitled(self, rides', published, forced') /\ KnowsRide(self, rides')
  BY <1>3, <1>4, <1>6 DEF Entitled, KnowsRide
<1>9. \A r \in Riders : row.rider # r /\ rides[i].status \notin R!Active
  BY <1>1, <1>3, RideConstants DEF R!Active
<1> QED
  BY <1>1, <1>3, <1>4, <1>5, <1>6, <1>7, <1>8, <1>9, RideWritten

LEMMA RideConfirmed ==
  ASSUME RideInv, R!MCNext, NEW w \in Workers, R!Confirm(w)
  PROVE  RideInv'
<1>1. PICK i : i = op[w].ride
  OBVIOUS
<1>2. /\ R!TypeOK /\ op[w] \in R!Request /\ op[w].pc = "confirm" /\ op[w].status # "NEW"
      /\ i \in Rides /\ rides[i].status # "NEW" /\ <<i, "completed">> \in published
      /\ rides[i] \in R!Row
  BY <1>1, RideFacts DEF RideInv, Entitled, R!Confirm, R!At
<1>3. PICK next \in R!Statuses : next = R!NextStatus(op[w].status)
  BY <1>2 DEF R!NextStatus, R!Request, R!Statuses, R!Transitions
<1>4. PICK self \in R!Request :
        /\ op' = [op EXCEPT ![w] = self] /\ self.pc \in {"idle", "dispatch"}
        /\ self.ride \in {i, None} /\ (self.pc = "dispatch" => self.ride = i)
  <2> DEFINE self == [R!Idle EXCEPT !.pc = "dispatch", !.ride = i]
  <2>1. self \in R!Request /\ self.pc = "dispatch" /\ self.ride = i
    BY <1>2, IdleRide DEF R!Request
  <2>2. op' = [op EXCEPT ![w] = self] \/ op' = [op EXCEPT ![w] = R!Idle]
    BY <1>1 DEF R!Confirm, R!Become, R!Done
  <2> HIDE DEF self
  <2> QED
    BY <2>1, <2>2, IdleRide
<1> DEFINE row == [rides[i] EXCEPT !.pay = "SUCCESS", !.status = next]
<1>5. /\ row \in R!Row /\ row.status = next /\ row.rider = rides[i].rider
      /\ row.payFirst = rides[i].payFirst
  BY <1>2 DEF R!Row
<1>6. rides' = [rides EXCEPT ![i] = row]
  BY <1>1, <1>2, <1>3 DEF R!Confirm, R!TypeOK, R!Row
<1> HIDE DEF row
<1>7. Writes(w, i, row, self) /\ available' = available
  BY <1>2, <1>4, <1>6 DEF R!Confirm, R!Others, Writes, R!TypeOK
<1>8. rides'[i] = row /\ next # "NEW"
  BY <1>2, <1>6 DEF R!TypeOK, R!Statuses, R!Transitions
<1>9. Cleared(i, rides', published, forced')
  BY <1>2 DEF Cleared
<1>10. Entitled(self, rides', published, forced') /\ KnowsRide(self, rides')
  BY <1>2, <1>4, <1>5, <1>8, RideConstants DEF Entitled, KnowsRide
<1>11. ASSUME ~mixed
       PROVE  /\ next \in R!Active <=> rides[i].status \in R!Active
              /\ next \in {"PENDING_PAYMENT", "SEARCHING", "REJECTED", "FAILED"} => rides[i].rider = None
  <2>1. op[w].status = rides[i].status /\ Riderless(rides)
    BY <1>1, <1>2, <1>11 DEF RideInv, KnowsRide
  <2> QED
    BY <1>2, <1>3, <2>1 DEF Riderless, R!NextStatus, R!Active
<1>12. op[w].ride = i /\ op[w].pc \notin R!MoneyOnly
  BY <1>1, <1>2 DEF R!MoneyOnly
<1> QED
  BY <1>2, <1>4, <1>5, <1>7, <1>8, <1>9, <1>10, <1>11, <1>12, RideWritten

LEMMA RideClaimed ==
  ASSUME RideInv, R!MCNext, NEW w \in Workers, R!Claim(w)
  PROVE  RideInv'
<1>1. PICK i, r : i = op[w].ride /\ r = op[w].pick
  OBVIOUS
<1>2. /\ R!TypeOK /\ op[w] \in R!Request /\ op[w].pc = "claim" /\ RowsCleared
      /\ i \in Rides /\ rides[i].status # "NEW" /\ rides[i] \in R!Row /\ r \in Riders \cup {None}
      /\ available \subseteq Riders /\ forced \subseteq forced'
  BY <1>1, RideFacts DEF RideInv, Entitled, R!Claim, R!At, R!Request, R!TypeOK, R!MCNext
<1>3. CASE ~R!Unclaimed(i)
  BY <1>1, <1>2, <1>3, RideEnds DEF R!Claim, R!Others, R!TypeOK
<1>4. CASE R!Unclaimed(i)
  <2> DEFINE row == [rides[i] EXCEPT !.status = "ASSIGNED", !.rider = r]
  <2>0. "ASSIGNED" \in R!Statuses
    BY DEF R!Statuses, R!Transitions
  <2>1. /\ row \in R!Row /\ row.status = "ASSIGNED" /\ row.rider = r
        /\ row.payFirst = rides[i].payFirst
    BY <1>2, <2>0 DEF R!Row
  <2>2. rides' = [rides EXCEPT ![i] = row] /\ available' = available \ {r}
    BY <1>1, <1>2, <1>4 DEF R!Claim, R!TypeOK, R!Row
  <2> HIDE DEF row
  <2>3. Writes(w, i, row, R!Idle)
    BY <1>2, <2>2 DEF R!Claim, R!Others, R!Done, R!Become, Writes, R!TypeOK
  <2>4. rides'[i] = row /\ rides[i].rider = None /\ rides[i].status = "SEARCHING"
    BY <1>2, <1>4, <2>2 DEF R!TypeOK, R!Unclaimed
  <2>5. Cleared(i, rides', published, forced')
    BY <1>2, <2>1, <2>4 DEF Cleared, RowsCleared, Begun
  <2>6. Entitled(R!Idle, rides', published, forced') /\ KnowsRide(R!Idle, rides')
    BY IdleRide
  <2>7. ASSUME NEW q \in Riders \ odd'
        PROVE  /\ ~(rides[i].rider = q /\ rides[i].status \in R!Active)
               /\ q = r => q \in available
    BY <1>2, <2>1, <2>4, <2>7, RideConstants DEF R!MCNext
  <2>8. op[w].ride = i /\ op[w].pc \notin R!MoneyOnly
    BY <1>1, <1>2 DEF R!MoneyOnly
  <2>9. "ASSIGNED" \in R!Active
    BY DEF R!Active
  <2> QED
    BY <1>2, <2>1, <2>2, <2>3, <2>4, <2>5, <2>6, <2>7, <2>8, <2>9, IdleRide, RideWritten
<1> QED
  BY <1>3, <1>4

LEMMA RideAssigned ==
  ASSUME RideInv, R!MCNext, NEW w \in Workers, R!AssignWrite(w)
  PROVE  RideInv'
<1>1. PICK i, r, p : i = op[w].ride /\ r = op[w].pick /\ p = op[w].rider
  OBVIOUS
<1>2. /\ R!TypeOK /\ op[w] \in R!Request /\ op[w].pc = "assign_write" /\ RowsCleared
      /\ i \in Rides /\ rides[i].status # "NEW" /\ rides[i] \in R!Row
      /\ r \in Riders \cup {None} /\ p \in Riders \cup {None}
      /\ Cleared(i, rides, published, forced)
      /\ available \subseteq Riders /\ forced \subseteq forced'
  BY <1>1, RideFacts DEF RideInv, Entitled, R!AssignWrite, R!At, R!Request, R!TypeOK, R!MCNext
<1> DEFINE row == [rides[i] EXCEPT !.status = "ASSIGNED", !.rider = r]
<1>3. "ASSIGNED" \in R!Statuses /\ "ASSIGNED" \in R!Active
  BY DEF R!Statuses, R!Transitions, R!Active
<1>4. /\ row \in R!Row /\ row.status = "ASSIGNED" /\ row.rider = r
      /\ row.payFirst = rides[i].payFirst
  BY <1>2, <1>3 DEF R!Row
<1>5. /\ rides' = [rides EXCEPT ![i] = row]
      /\ available' = (available \ {r}) \cup ({p} \ {None, r})
  BY <1>1, <1>2 DEF R!AssignWrite, R!TypeOK, R!Row, R!Freed
<1> HIDE DEF row
<1>6. Writes(w, i, row, R!Idle)
  BY <1>2, <1>5 DEF R!AssignWrite, R!Others, R!Done, R!Become, Writes, R!TypeOK
<1>7. rides'[i] = row
  BY <1>2, <1>5 DEF R!TypeOK
<1>8. Cleared(i, rides', published, forced')
  BY <1>2, <1>4, <1>7 DEF Cleared
<1>9. Entitled(R!Idle, rides', published, forced') /\ KnowsRide(R!Idle, rides')
  BY IdleRide
<1>10. ASSUME NEW q \in Riders \ odd', ~mixed
       PROVE  LET had == rides[i].rider = q /\ rides[i].status \in R!Active
                  has == row.rider = q /\ row.status \in R!Active
              IN \/ (had <=> has) /\ (q \in available' <=> q \in available)
                 \/ had /\ ~has /\ q \in available'
                 \/ ~had /\ has /\ q \in available /\ q \notin available'
  <2>1. /\ rides[i].rider = p /\ rides[i].status \in R!Assignable
        /\ Riderless(rides) /\ Accounted(rides, available, odd) /\ q \notin odd /\ q # None
    BY <1>1, <1>2, <1>10, RideConstants DEF RideInv, KnowsRide, R!MCNext
  <2>2. p = q => rides[i].status = "ASSIGNED"
    BY <1>2, <2>1 DEF Riderless, R!Assignable
  <2>3. p = q => q \notin available
    BY <1>2, <1>3, <2>1, <2>2 DEF Accounted
  <2>4. q = r /\ p # q => q \in available
    BY <1>2, <1>4, <1>7, <1>10, <2>1 DEF R!MCNext
  <2> QED
    BY <1>3, <1>4, <1>5, <2>1, <2>2, <2>3, <2>4
<1>11. op[w].ride = i /\ op[w].pc \notin R!MoneyOnly
  BY <1>1, <1>2 DEF R!MoneyOnly
<1> QED
  BY <1>2, <1>4, <1>6, <1>8, <1>9, <1>10, <1>11, IdleRide, RideWritten

LEMMA RideStatusWritten ==
  ASSUME RideInv, R!MCNext, NEW w \in Workers, R!StatusWrite(w)
  PROVE  RideInv'
<1>1. PICK i, to, p : i = op[w].ride /\ to = op[w].to /\ p = op[w].rider
  OBVIOUS
<1>2. /\ R!TypeOK /\ op[w] \in R!Request /\ op[w].pc = "status_write" /\ RowsCleared
      /\ i \in Rides /\ rides[i].status # "NEW" /\ rides[i] \in R!Row
      /\ to \in R!Statuses /\ p \in Riders \cup {None}
      /\ (to \in Begun \ {"SEARCHING"} => Cleared(i, rides, published, forced))
      /\ available \subseteq Riders /\ forced \subseteq forced'
  BY <1>1, RideFacts DEF RideInv, Entitled, R!StatusWrite, R!At, R!Request, R!TypeOK, R!MCNext
<1>3. PICK rider \in Riders \cup {None} : rider = IF to = "REJECTED" THEN None ELSE rides[i].rider
  BY <1>2 DEF R!Row
<1>4. PICK self \in R!Request :
        /\ op' = [op EXCEPT ![w] = self] /\ self.pc \in {"idle", "status"}
        /\ self.ride \in {i, None} /\ (self.pc = "status" => self.ride = i)
  <2> DEFINE self == [R!Idle EXCEPT !.pc = "status", !.ride = i, !.to = "SEARCHING"]
  <2>0. "SEARCHING" \in R!Statuses
    BY DEF R!Statuses, R!Transitions
  <2>1. self \in R!Request /\ self.pc = "status" /\ self.ride = i
    BY <1>2, <2>0, IdleRide DEF R!Request
  <2>2. op' = [op EXCEPT ![w] = self] \/ op' = [op EXCEPT ![w] = R!Idle]
    BY <1>1 DEF R!StatusWrite, R!Become, R!Done
  <2> HIDE DEF self
  <2> QED
    BY <2>1, <2>2, IdleRide
<1> DEFINE row == [rides[i] EXCEPT !.status = to, !.rider = rider]
<1>5. /\ row \in R!Row /\ row.status = to /\ row.rider = rider
      /\ row.payFirst = rides[i].payFirst
  BY <1>2, <1>3 DEF R!Row
<1>6. /\ rides' = [rides EXCEPT ![i] = row]
      /\ available' = IF to \in {"COMPLETED", "CANCELLED"} THEN available \cup ({p} \ {None})
                      ELSE available
  <2>1. /\ rides' = [rides EXCEPT ![i].status = to,
                                  ![i].rider = IF to = "REJECTED" THEN None ELSE @]
        /\ available' = IF to \in {"COMPLETED", "CANCELLED"} THEN available \cup ({p} \ {None})
                        ELSE available
    BY <1>1 DEF R!StatusWrite, R!Freed
  <2> QED
    BY <1>2, <1>3, <2>1 DEF R!TypeOK, R!Row
<1> HIDE DEF row
<1>7. Writes(w, i, row, self)
  BY <1>2, <1>4, <1>6 DEF R!StatusWrite, R!Others, Writes, R!TypeOK
<1>8. rides'[i] = row /\ to # "NEW"
  BY <1>2, <1>6 DEF R!TypeOK, R!Statuses, R!Transitions
<1>9. row.rider # None \/ row.status \in Begun => Cleared(i, rides', published, forced')
  <2>1. to = "SEARCHING" => i \in forced'
    BY <1>1, <1>2 DEF R!MCNext, R!At
  <2>2. row.rider # None => Cleared(i, rides, published, forced)
    BY <1>2, <1>3, <1>5 DEF RowsCleared
  <2>3. Cleared(i, rides, published, forced) => Cleared(i, rides', published, forced')
    BY <1>2, <1>5, <1>8 DEF Cleared
  <2> QED
    BY <1>2, <1>5, <2>1, <2>2, <2>3 DEF Cleared
<1>10. Entitled(self, rides', published, forced') /\ KnowsRide(self, rides')
  BY <1>2, <1>4, <1>5, <1>8, RideConstants DEF Entitled, KnowsRide
<1>11. ASSUME ~mixed
       PROVE  /\ \A q \in Riders \ odd' :
                   LET had == rides[i].rider = q /\ rides[i].status \in R!Active
                       has == row.rider = q /\ row.status \in R!Active
                   IN \/ (had <=> has) /\ (q \in available' <=> q \in available)
                      \/ had /\ ~has /\ q \in available'
                      \/ ~had /\ has /\ q \in available /\ q \notin available'
              /\ to \in {"PENDING_PAYMENT", "SEARCHING", "REJECTED", "FAILED"} => rider = None
  <2>1. /\ rides[i].rider = p /\ R!Allowed(rides[i].status, to) /\ Riderless(rides)
        /\ rides[i].status \in R!Statuses
    BY <1>1, <1>2, <1>11 DEF RideInv, KnowsRide, R!Row
  <2>2. rides[i].status \in {"PENDING_PAYMENT", "SEARCHING", "REJECTED"} => p = None
    BY <1>2, <2>1 DEF Riderless
  <2>3. /\ to \in R!Active => rides[i].status \in R!Active \/ rides[i].status = "SEARCHING"
        /\ to \in {"SEARCHING", "FAILED"} =>
             rides[i].status \in {"PENDING_PAYMENT", "SEARCHING", "REJECTED"}
        /\ to \in {"COMPLETED", "CANCELLED"} =>
             rides[i].status \in R!Active \cup {"PENDING_PAYMENT", "SEARCHING", "REJECTED"}
        /\ to # "PENDING_PAYMENT"
    BY <1>2, <2>1, AllowedBegun
  <2>4. to = "REJECTED" => p \in odd'
    <3>1. ASSUME to = "REJECTED" PROVE p \in R!DroppedBy(w)
      <4>1. op'[w] = self /\ self # op[w]
        BY <1>2, <1>4 DEF R!TypeOK
      <4> QED
        BY <1>1, <2>1, <4>1 DEF R!DroppedBy
    <3> QED
      BY <1>1, <1>2, <3>1 DEF R!MCNext, R!At
  <2>5. to \in R!Active \cup {"SEARCHING", "FAILED", "COMPLETED", "CANCELLED", "REJECTED"}
    BY <1>2, <2>3 DEF R!Statuses, R!Transitions, R!Active
  <2>6. {"SEARCHING", "FAILED", "COMPLETED", "CANCELLED", "REJECTED"} \cap R!Active = {}
    BY DEF R!Active
  <2>7. to \in {"SEARCHING", "FAILED", "REJECTED"} => rider = None
    BY <1>3, <2>1, <2>2, <2>3
  <2>8. ASSUME NEW q \in Riders \ odd'
        PROVE  LET had == rides[i].rider = q /\ rides[i].status \in R!Active
                   has == row.rider = q /\ row.status \in R!Active
               IN \/ (had <=> has) /\ (q \in available' <=> q \in available)
                  \/ had /\ ~has /\ q \in available'
                  \/ ~had /\ has /\ q \in available /\ q \notin available'
    <3>1. q # None
      BY RideConstants
    <3>2. CASE to \in R!Active
      BY <1>3, <1>5, <1>6, <2>1, <2>2, <2>3, <2>6, <3>1, <3>2
    <3>3. CASE to \in {"SEARCHING", "FAILED"}
      BY <1>5, <1>6, <2>1, <2>2, <2>3, <2>6, <2>7, <3>1, <3>3
    <3>4. CASE to = "REJECTED"
      BY <1>5, <1>6, <2>1, <2>4, <2>6, <2>7, <2>8, <3>1, <3>4
    <3>5. CASE to \in {"COMPLETED", "CANCELLED"}
      BY <1>3, <1>5, <1>6, <2>1, <2>2, <2>3, <2>6, <3>1, <3>5
    <3> QED
      BY <2>5, <3>2, <3>3, <3>4, <3>5
  <2> QED
    BY <2>3, <2>7, <2>8
<1>12. op[w].ride = i /\ op[w].pc \notin R!MoneyOnly
  BY <1>1, <1>2 DEF R!MoneyOnly
<1> QED
  BY <1>2, <1>4, <1>5, <1>7, <1>8, <1>9, <1>10, <1>11, <1>12, RideWritten

LEMMA RideCancelled ==
  ASSUME RideInv, R!MCNext, NEW w \in Workers, R!CancelWrite(w)
  PROVE  RideInv'
<1>1. PICK i : i = op[w].ride
  OBVIOUS
<1>2. /\ R!TypeOK /\ op[w] \in R!Request /\ op[w].pc = "cancel" /\ RowsCleared
      /\ i \in Rides /\ rides[i].status # "NEW" /\ rides[i] \in R!Row
      /\ available \subseteq Riders /\ forced \subseteq forced'
  BY <1>1, RideFacts DEF RideInv, Entitled, R!CancelWrite, R!At, R!TypeOK, R!MCNext
<1> DEFINE row == [rides[i] EXCEPT !.status = "CANCELLED"]
<1>3. "CANCELLED" \in R!Statuses /\ "CANCELLED" \notin R!Active /\ "CANCELLED" \notin Begun
  BY DEF R!Statuses, R!Transitions, R!Active, Begun
<1>4. /\ row \in R!Row /\ row.status = "CANCELLED" /\ row.rider = rides[i].rider
      /\ row.payFirst = rides[i].payFirst
  BY <1>2, <1>3 DEF R!Row
<1>5. rides' = [rides EXCEPT ![i] = row] /\ available' = available
  BY <1>1, <1>2 DEF R!CancelWrite, R!TypeOK, R!Row
<1> HIDE DEF row
<1>6. Writes(w, i, row, R!Idle)
  BY <1>2, <1>5 DEF R!CancelWrite, R!Others, R!Done, R!Become, Writes, R!TypeOK
<1>7. rides'[i] = row /\ op'[w] = R!Idle
  BY <1>2, <1>5 DEF R!TypeOK, R!CancelWrite, R!Done, R!Become
<1>8. row.rider # None \/ row.status \in Begun => Cleared(i, rides', published, forced')
  BY <1>2, <1>3, <1>4, <1>7 DEF RowsCleared, Cleared
<1>9. Entitled(R!Idle, rides', published, forced') /\ KnowsRide(R!Idle, rides')
  BY IdleRide
<1>10. rides[i].rider \in odd'
  <2>1. rides[i].rider \in R!DroppedBy(w)
    BY <1>1, <1>2, <1>7, IdleRide DEF R!DroppedBy
  <2> QED
    BY <1>2, <2>1 DEF R!MCNext, R!At
<1>11. op[w].ride = i /\ op[w].pc \notin R!MoneyOnly
  BY <1>1, <1>2 DEF R!MoneyOnly
<1> QED
  BY <1>2, <1>3, <1>4, <1>5, <1>6, <1>8, <1>9, <1>10, <1>11, IdleRide, RideWritten

LEMMA RideNext ==
  ASSUME RideInv, R!MCNext
  PROVE  RideInv'
<1>1. ASSUME NEW w \in Workers, R!Step(w) PROVE RideInv'
  BY <1>1, RideLooks, RideCreated, RideConfirmed, RideClaimed, RideAssigned, RideStatusWritten,
     RideCancelled DEF R!Step
<1>2. ASSUME NEW w \in Workers, R!Die(w) PROVE RideInv'
  BY <1>2, RideLooks
<1> QED
  BY <1>1, <1>2, RideArrives, RideSettles DEF R!MCNext, R!Next

LEMMA RideInit ==
  ASSUME R!MCInit
  PROVE  RideInv
<1>1. PICK row \in R!Starts : /\ rides = [i \in Rides |-> IF i = Ride1 THEN row ELSE R!Absent]
                              /\ available = Riders \ {row.rider}
  BY DEF R!MCInit
<1>2. /\ row \in R!Row /\ R!Absent \in R!Row /\ row.payFirst \in BOOLEAN
      /\ row.rider # None => row.rider = Rider1 /\ row.status \in {"ASSIGNED", "IN_PROGRESS"}
      /\ row.status \in Begun => ~row.payFirst
      /\ row.status \in R!Active => row.rider = Rider1
      /\ row.rider = Rider1 => row.status \in R!Active
      /\ row.rider \in {None, Rider1}
      /\ R!Absent.rider = None /\ R!Absent.status = "NEW"
  <2>1. {"PENDING_PAYMENT", "SEARCHING", "ASSIGNED", "IN_PROGRESS"} \subseteq R!Statuses
    BY DEF R!Statuses, R!Transitions
  <2>2. R!Absent \in R!Row /\ R!Absent.rider = None /\ R!Absent.status = "NEW" /\ ~R!Absent.payFirst
    BY DEF R!Absent, R!Row
  <2>3. /\ row \in R!Row
        /\ \/ row.status = "NEW" /\ row.rider = None /\ ~row.payFirst
           \/ row.status = "PENDING_PAYMENT" /\ row.rider = None /\ row.payFirst
           \/ row.status = "SEARCHING" /\ row.rider = None /\ ~row.payFirst
           \/ row.status \in {"ASSIGNED", "IN_PROGRESS"} /\ row.rider = Rider1 /\ ~row.payFirst
    <3>1. CASE row = R!Absent
      BY <2>2, <3>1
    <3>2. CASE row = [R!Absent EXCEPT !.status = "PENDING_PAYMENT", !.payFirst = TRUE]
      BY <2>1, <2>2, <3>2 DEF R!Row
    <3>3. CASE row = [R!Absent EXCEPT !.status = "SEARCHING"]
      BY <2>1, <2>2, <3>3 DEF R!Row
    <3>4. CASE \/ row = [R!Absent EXCEPT !.status = "ASSIGNED", !.rider = Rider1]
               \/ row = [R!Absent EXCEPT !.status = "IN_PROGRESS", !.rider = Rider1]
      BY <2>1, <2>2, <3>4, RideConstants DEF R!Row
    <3> QED
      BY <3>1, <3>2, <3>3, <3>4 DEF R!Starts
  <2> QED
    BY <2>2, <2>3, RideConstants DEF Begun, R!Active, R!Row
<1>3. /\ rides[Ride1] = row /\ \A i \in Rides \ {Ride1} : rides[i] = R!Absent
      /\ rides \in [Rides -> R!Row]
  BY <1>1, <1>2, RideConstants
<1>4. /\ consumed = FALSE /\ priced = {} /\ payment = [i \in Rides |-> "none"] /\ published = {}
      /\ op = [w \in Workers |-> R!Idle] /\ left = MaxOps /\ faults = MaxFaults
      /\ mixed = FALSE /\ odd = {} /\ forced = {}
  BY DEF R!MCInit
<1>5. R!TypeOK
  <2>1. op \in [Workers -> R!Request] /\ MaxOps \in 0..MaxOps /\ MaxFaults \in 0..MaxFaults
    BY <1>4, IdleRide, RideConstants
  <2> QED
    BY <1>1, <1>3, <1>4, <2>1 DEF R!TypeOK
<1>6. RowsCleared
  BY <1>2, <1>3, <1>4 DEF RowsCleared, Cleared, Begun
<1>7. \A w \in Workers : op[w] = R!Idle
  BY <1>4
<1>8. ~R!Overlapped
  BY <1>7, IdleRide DEF R!Overlapped
<1>9. Riderless(rides)
  BY <1>2, <1>3 DEF Riderless
<1>10. Accounted(rides, available, odd)
  <2>1. "NEW" \notin R!Active
    BY DEF R!Active
  <2> QED
    BY <1>1, <1>2, <1>3, <2>1, RideConstants DEF Accounted
<1> QED
  BY <1>4, <1>5, <1>6, <1>7, <1>8, <1>9, <1>10, IdleRide DEF RideInv

\* Requests write a ride's status along the table, and a rider over another by hand.
LEMMA RideFollows ==
  ASSUME RideInv, R!MCNext
  PROVE  R!StatusFollowsTable /\ R!ReplacedByHand
<1>0. /\ R!TypeOK /\ rides \in [Rides -> R!Row]
      /\ \A w \in Workers : Entitled(op[w], rides, published, forced) /\ op[w] \in R!Request
      /\ \A i \in Rides : rides[i] \in R!Row
      /\ ~mixed' => ~mixed /\ \A w \in Workers : KnowsRide(op[w], rides)
  BY RideFacts DEF RideInv, R!MCNext
<1>1. ASSUME \A i \in Rides : rides'[i].status = rides[i].status /\ rides'[i].rider = rides[i].rider
      PROVE  R!StatusFollowsTable /\ R!ReplacedByHand
  BY <1>1 DEF R!StatusFollowsTable, R!ReplacedByHand
<1>2. ASSUME NEW i \in Rides, \A j \in Rides \ {i} : rides'[j] = rides[j],
             \/ mixed' \/ rides[i].status = "NEW" \/ rides'[i].status = rides[i].status
             \/ R!Allowed(rides[i].status, rides'[i].status),
             \/ rides'[i].rider \in {None, rides[i].rider} \/ rides[i].rider = None
             \/ \E w \in Workers : R!At(w, "assign_write") /\ op[w].ride = i /\ op'[w] # op[w]
      PROVE  R!StatusFollowsTable /\ R!ReplacedByHand
  BY <1>2 DEF R!StatusFollowsTable, R!ReplacedByHand, R!Exists
<1>3. ASSUME rides' = rides PROVE R!StatusFollowsTable /\ R!ReplacedByHand
  BY <1>1, <1>3
<1>4. ASSUME NEW i \in Rides, NEW pay, rides' = [rides EXCEPT ![i].pay = pay]
      PROVE  R!StatusFollowsTable /\ R!ReplacedByHand
  BY <1>0, <1>1, <1>4 DEF R!Row
<1>5. ASSUME NEW w \in Workers, R!Step(w) PROVE R!StatusFollowsTable /\ R!ReplacedByHand
  <2>1. PICK i : i = op[w].ride
    OBVIOUS
  <2>2. CASE rides' = rides
    BY <1>3, <2>2
  <2>3. CASE R!PayWrite(w) \/ R!FailWrite(w)
    <3>1. i \in Rides
      BY <1>0, <2>1, <2>3 DEF Entitled, R!PayWrite, R!FailWrite, R!At
    <3> QED
      BY <1>4, <2>1, <2>3, <3>1 DEF R!PayWrite, R!FailWrite
  <2>4. ASSUME NEW j \in Rides, R!CreateRow(w, j) PROVE R!StatusFollowsTable /\ R!ReplacedByHand
    <3>1. /\ rides[j].status = "NEW" /\ rides'[j].rider = None
          /\ \A k \in Rides \ {j} : rides'[k] = rides[k]
      BY <1>0, <2>4 DEF R!CreateRow, R!Exists, R!Absent
    <3> QED
      BY <1>2, <3>1
  <2>5. CASE R!Confirm(w)
    <3>1. op[w].pc = "confirm" /\ i \in Rides
      BY <1>0, <2>1, <2>5 DEF Entitled, R!Confirm, R!At
    <3>2. /\ rides'[i].status = R!NextStatus(op[w].status) /\ rides'[i].rider = rides[i].rider
          /\ \A k \in Rides \ {i} : rides'[k] = rides[k]
      BY <1>0, <2>1, <2>5, <3>1 DEF R!Confirm, R!Row
    <3>3. ~mixed' => op[w].status = rides[i].status
      BY <1>0, <2>1, <3>1 DEF KnowsRide
    <3>4. R!Allowed("PENDING_PAYMENT", "SEARCHING")
      BY DEF R!Allowed, R!Transitions
    <3> QED
      BY <1>2, <3>1, <3>2, <3>3, <3>4 DEF R!NextStatus
  <2>6. CASE R!Claim(w) /\ rides' # rides
    <3>1. op[w].pc = "claim" /\ i \in Rides
      BY <1>0, <2>1, <2>6 DEF Entitled, R!Claim, R!At
    <3>2. /\ R!Unclaimed(i) /\ rides'[i].status = "ASSIGNED"
          /\ \A k \in Rides \ {i} : rides'[k] = rides[k]
      BY <1>0, <2>1, <2>6, <3>1 DEF R!Claim, R!Row
    <3>3. R!Allowed("SEARCHING", "ASSIGNED")
      BY DEF R!Allowed, R!Transitions
    <3> QED
      BY <1>2, <3>1, <3>2, <3>3 DEF R!Unclaimed
  <2>7. CASE R!AssignWrite(w)
    <3>1. op[w].pc = "assign_write" /\ i \in Rides
      BY <1>0, <2>1, <2>7 DEF Entitled, R!AssignWrite, R!At
    <3>2. /\ rides'[i].status = "ASSIGNED" /\ op'[w] = R!Idle
          /\ \A k \in Rides \ {i} : rides'[k] = rides[k]
      BY <1>0, <2>1, <2>7, <3>1 DEF R!AssignWrite, R!Row, R!Done, R!Become, R!TypeOK
    <3>3. ~mixed' => rides[i].status \in {"SEARCHING", "ASSIGNED"}
      BY <1>0, <2>1, <3>1 DEF KnowsRide, R!Assignable
    <3>4. R!Allowed("SEARCHING", "ASSIGNED")
      BY DEF R!Allowed, R!Transitions
    <3>5. R!At(w, "assign_write") /\ op[w].ride = i /\ op'[w] # op[w]
      BY <2>1, <3>1, <3>2, IdleRide DEF R!At
    <3> QED
      BY <1>2, <3>1, <3>2, <3>3, <3>4, <3>5
  <2>8. CASE R!StatusWrite(w)
    <3>1. op[w].pc = "status_write" /\ i \in Rides
      BY <1>0, <2>1, <2>8 DEF Entitled, R!StatusWrite, R!At
    <3>2. /\ rides'[i].status = op[w].to /\ rides'[i].rider \in {None, rides[i].rider}
          /\ \A k \in Rides \ {i} : rides'[k] = rides[k]
      BY <1>0, <2>1, <2>8, <3>1 DEF R!StatusWrite, R!Row
    <3>3. ~mixed' => R!Allowed(rides[i].status, op[w].to)
      BY <1>0, <2>1, <3>1 DEF KnowsRide
    <3> QED
      BY <1>2, <3>1, <3>2, <3>3
  <2>9. CASE R!CancelWrite(w)
    <3>1. op[w].pc = "cancel" /\ i \in Rides /\ rides[i].status # "NEW"
      BY <1>0, <2>1, <2>9 DEF Entitled, R!CancelWrite, R!At
    <3>2. /\ rides'[i].status = "CANCELLED" /\ rides'[i].rider = rides[i].rider
          /\ \A k \in Rides \ {i} : rides'[k] = rides[k]
      BY <1>0, <2>1, <2>9, <3>1 DEF R!CancelWrite, R!Row
    <3>3. ~mixed' => rides[i].status \notin R!Terminal
      BY <1>0, <2>1, <3>1 DEF KnowsRide
    <3>4. rides[i].status \in R!Statuses \ R!Terminal => R!Allowed(rides[i].status, "CANCELLED")
      BY DEF R!Allowed, R!Transitions, R!Statuses, R!Terminal
    <3>5. rides[i].status \in R!Statuses
      BY <1>0, <3>1 DEF R!Row
    <3> QED
      BY <1>2, <3>1, <3>2, <3>3, <3>4, <3>5
  <2> QED
    BY <1>5, <2>2, <2>3, <2>4, <2>5, <2>6, <2>7, <2>8, <2>9
    DEF R!Step, R!Consume, R!PayRead, R!Initiate, R!Reinitiate, R!Dispatch, R!Nearby,
        R!AssignRead, R!StatusRead
<1>6. ASSUME NEW w \in Workers, R!Arrives(w) \/ R!Die(w)
      PROVE  R!StatusFollowsTable /\ R!ReplacedByHand
  <2>1. rides' = rides
    BY <1>6 DEF R!Arrives, R!Die, R!CreateStart, R!PayStart, R!RetryStart, R!CompletedStart,
                R!FailedStart, R!CancelStart, R!CancelUnpaidStart, R!AcceptStart, R!AssignStart,
                R!RiderStart, R!UpdateStart, R!Accept
  <2> QED
    BY <1>3, <2>1
<1>7. ASSUME R!Gateway PROVE R!StatusFollowsTable /\ R!ReplacedByHand
  BY <1>3, <1>7 DEF R!Gateway, R!Settle
<1>8. ASSUME NEW i \in Rides, R!Refunded(i) PROVE R!StatusFollowsTable /\ R!ReplacedByHand
  BY <1>4, <1>8 DEF R!Refunded
<1> QED
  BY <1>5, <1>6, <1>7, <1>8 DEF R!MCNext, R!Next

LEMMA RideStutters ==
  ASSUME RideInv, UNCHANGED vars
  PROVE  RideInv'
<1>1. UNCHANGED <<rides, available, odd, forced, consumed, priced, payment, published, op, left,
                  faults, mixed>>
  BY DEF vars, OfRides, OfQuotes, OfRequests, OfHandlers
<1>2. R!TypeOK' /\ RowsCleared'
  BY <1>1 DEF RideInv, R!TypeOK, RowsCleared, Cleared
<1>3. ~R!Overlapped => ~R!Overlapped'
  BY <1>1 DEF R!Overlapped
<1> QED
  BY <1>1, <1>2, <1>3 DEF RideInv

-----------------------------------------------------------------------------
\* Orders.

\* An order was paid, or an admin moved it.
Justified(i, events, moved) == i \in moved \/ <<i, "completed">> \in events

\* A request under way is about an order there is, and moves it on only if it may.
Asking(self, rows, events, moved) ==
  /\ self.pc \notin {"idle", "place"} => self.order \in Orders
  /\ self.order \in Orders => rows[self.order].status # "NEW"
  /\ self.pc = "confirm" => self.from # "NEW" /\ <<self.order, "completed">> \in events
  /\ self.pc = "update" =>
       /\ self.to \in O!Statuses
       /\ self.by = "USER" /\ self.to \in O!Served \cup {"PAID"} =>
            Justified(self.order, events, moved)

\* An order that is not there is empty, and one that was paid for has its event.
RowJustified(i) ==
  /\ orders[i].status = "NEW" => /\ orders[i].pay = "PENDING" /\ payment[i] = "none"
                                 /\ \A k \in {"completed", "failed"} : <<i, k>> \notin published
  /\ orders[i].status \in O!Served \cup {"PAID"} => Justified(i, published, handled)

\* What a request that nothing overlaps has read of its order is still so.
KnowsOrder(self, rows, rated) ==
  /\ self.pc \in {"gateway", "pay_write", "fail"} => rows[self.order].pay # "SUCCESS"
  /\ self.pc \in {"confirm", "update", "rate", "rated"} => self.from = rows[self.order].status
  /\ self.pc = "rate" => rated[self.order] = 0

Untangled(i) ==
  /\ ~O!Overlapped(i) /\ reviews[i] <= 1
  /\ \A w \in Workers : op[w].order = i => KnowsOrder(op[w], orders, reviews)

Raters(ops, i) == {w \in Workers : ops[w].pc = "rate" /\ ops[w].order = i}

\* Every review took a request.
ReviewsBounded == \A i \in Orders : reviews[i] + Cardinality(Raters(op, i)) + left <= MaxOps

QuoteKept ==
  /\ \A w \in Workers : op[w].quoted > 0 => op[w].pc = "place"
  /\ ~shared => /\ ~O!QuotesInUse
                /\ Cardinality(priced) <= 1
                /\ ~consumed => priced = {}
                /\ \A w \in Workers : op[w].quoted > 0 => ~consumed

OrderInv ==
  /\ O!TypeOK
  /\ \A i \in Orders : RowJustified(i)
  /\ \A w \in Workers : Asking(op[w], orders, published, handled)
  /\ mixed \subseteq Orders /\ \A i \in Orders \ mixed : Untangled(i)
  /\ shared \in BOOLEAN /\ QuoteKept /\ ReviewsBounded

LEMMA OrdersImplied ==
  ASSUME OrderInv
  PROVE  /\ O!TypeOK /\ O!PaidBeforeServed
         /\ O!QuoteOnceUnlessShared /\ O!ReviewedOnceUnlessMixed
<1>1. O!PaidBeforeServed
  BY DEF OrderInv, RowJustified, Justified, O!PaidBeforeServed
<1>2. O!QuoteOnceUnlessShared /\ O!ReviewedOnceUnlessMixed
  BY DEF OrderInv, QuoteKept, Untangled, O!QuoteOnceUnlessShared, O!ReviewedOnceUnlessMixed,
         O!Cardinality, Cardinality
<1> QED
  BY <1>1, <1>2 DEF OrderInv

LEMMA IdleOrder ==
  /\ O!Idle \in O!Request /\ O!Idle.pc = "idle" /\ O!Idle.order = None /\ O!Idle.by = "USER"
  /\ O!Idle.quoted = 0 /\ O!Idle.size = 0 /\ O!Idle.from = "NEW" /\ O!Idle.to = "NEW"
  /\ \A rows, events, moved : Asking(O!Idle, rows, events, moved)
  /\ \A rows, rated : KnowsOrder(O!Idle, rows, rated)
<1>1. O!Idle \in O!Request
  BY DEF O!Idle, O!Request, O!Known
<1>2. /\ O!Idle.pc = "idle" /\ O!Idle.order = None /\ O!Idle.by = "USER"
      /\ O!Idle.quoted = 0 /\ O!Idle.size = 0 /\ O!Idle.from = "NEW" /\ O!Idle.to = "NEW"
  BY DEF O!Idle
<1> QED
  BY <1>1, <1>2, OrderConstants DEF Asking, KnowsOrder

OrderRow == [status : O!Known, pay : {"PENDING", "PROCESSING", "SUCCESS", "FAILED"}]

LEMMA OrderFacts ==
  ASSUME OrderInv, O!MCNext
  PROVE  /\ op \in [Workers -> O!Request] /\ \A w \in Workers : op[w] \in O!Request
         /\ orders \in [Orders -> OrderRow] /\ \A i \in Orders : orders[i] \in OrderRow
         /\ reviews \in [Orders -> 0..MaxOps] /\ left \in 0..MaxOps /\ faults \in 0..MaxFaults
         /\ left > 0 => left - 1 \in 0..MaxOps
         /\ faults > 0 => faults - 1 \in 0..MaxFaults
         /\ \A w \in Workers : Asking(op[w], orders, published, handled)
         /\ \A i \in Orders : RowJustified(i)
         /\ mixed \subseteq mixed' /\ handled \subseteq handled'
         /\ mixed' \subseteq Orders /\ shared' \in BOOLEAN /\ (~shared' => ~shared /\ ~O!QuotesInUse')
         /\ \A i \in Orders \ mixed' : ~O!Overlapped(i)' /\ Untangled(i)
<1>1. \A i \in Orders \ mixed' : ~O!Overlapped(i)'
  BY DEF O!MCNext
<1>2. /\ op \in [Workers -> O!Request] /\ orders \in [Orders -> OrderRow]
      /\ reviews \in [Orders -> 0..MaxOps] /\ left \in 0..MaxOps /\ faults \in 0..MaxFaults
  BY DEF OrderInv, O!TypeOK, OrderRow
<1>3. /\ mixed \subseteq mixed' /\ handled \subseteq handled' /\ mixed \subseteq Orders
      /\ mixed' \subseteq Orders
  BY DEF OrderInv, O!MCNext
<1>4. shared' \in BOOLEAN /\ (~shared' => ~shared /\ ~O!QuotesInUse')
  BY DEF OrderInv, O!MCNext
<1>5. \A i \in Orders \ mixed' : Untangled(i)
  BY <1>3 DEF OrderInv
<1>6. (left > 0 => left - 1 \in 0..MaxOps) /\ (faults > 0 => faults - 1 \in 0..MaxFaults)
  BY <1>2, OrderConstants
<1>7. /\ \A w \in Workers : Asking(op[w], orders, published, handled)
      /\ \A i \in Orders : RowJustified(i)
  BY DEF OrderInv
<1>8. (\A w \in Workers : op[w] \in O!Request) /\ \A i \in Orders : orders[i] \in OrderRow
  BY <1>2
<1> QED
  BY <1>1, <1>2, <1>3, <1>4, <1>5, <1>6, <1>7, <1>8

\* What lets a request ask is not lost.
LEMMA AskingStill ==
  ASSUME NEW self \in O!Request, NEW rows, NEW more, NEW events, NEW later, events \subseteq later,
         NEW moved, NEW then, moved \subseteq then,
         \A i \in Orders : rows[i].status # "NEW" => more[i].status # "NEW",
         Asking(self, rows, events, moved)
  PROVE  Asking(self, more, later, then)
  BY DEF Asking, Justified

\* A worker goes on as self; rows change only where it is at work.
LEMMA OrderWorks ==
  ASSUME OrderInv, O!MCNext, O!TypeOK', NEW w \in Workers, NEW self \in O!Request,
         op' = [op EXCEPT ![w] = self],
         \A i \in Orders : \/ orders'[i] = orders[i] /\ reviews'[i] = reviews[i]
                           \/ orders[i].status = "NEW" /\ reviews'[i] = reviews[i]
                           \/ i = op[w].order,
         \A i \in Orders : orders[i].status # "NEW" => orders'[i].status # "NEW",
         published' = published, \A i \in Orders : RowJustified(i)',
         Asking(self, orders', published', handled'),
         \A i \in Orders \ mixed' : /\ self.order = i => KnowsOrder(self, orders', reviews')
                                    /\ reviews'[i] <= 1,
         QuoteKept', ReviewsBounded'
  PROVE  OrderInv'
<1>1. /\ op'[w] = self /\ \A v \in Workers \ {w} : op'[v] = op[v]
      /\ \A v \in Workers : op[v] \in O!Request
  BY OrderFacts
<1>2. \A v \in Workers : Asking(op'[v], orders', published', handled')
  <2>1. handled \subseteq handled' /\ \A v \in Workers : Asking(op[v], orders, published, handled)
    BY OrderFacts
  <2> QED
    BY <1>1, <2>1, AskingStill
<1>3. ASSUME NEW i \in Orders \ mixed', NEW v \in Workers, op'[v].order = i
      PROVE  KnowsOrder(op'[v], orders', reviews')
  <2>1. CASE v = w
    BY <1>1, <1>3, <2>1
  <2>2. CASE v # w
    <3>1. op[v].order = i /\ orders[i].status # "NEW" /\ KnowsOrder(op[v], orders, reviews)
      BY <1>1, <1>3, <2>2, OrderFacts DEF Asking, Untangled
    <3>2. op[w].order # i
      BY <1>3, <2>2, <3>1, OrderFacts DEF Untangled, O!Overlapped
    <3>3. orders'[i] = orders[i] /\ reviews'[i] = reviews[i]
      BY <3>1, <3>2
    <3> QED
      BY <1>1, <2>2, <3>1, <3>3 DEF KnowsOrder
  <2> QED
    BY <2>1, <2>2
<1>4. \A i \in Orders \ mixed' : Untangled(i)'
  BY <1>3, OrderFacts DEF Untangled
<1> QED
  BY <1>2, <1>4, OrderFacts DEF OrderInv

LEMMA FewerRaters ==
  ASSUME OrderInv, O!MCNext, NEW w \in Workers, NEW self \in O!Request, self.pc # "rate",
         op' = [op EXCEPT ![w] = self], reviews' = reviews, left' \in Int, left' <= left
  PROVE  ReviewsBounded'
<1> SUFFICES ASSUME NEW i \in Orders
             PROVE  reviews'[i] + Cardinality(Raters(op', i)) + left' <= MaxOps
  BY DEF ReviewsBounded
<1>1. PICK now, then : now = Raters(op', i) /\ then = Raters(op, i)
  OBVIOUS
<1>2. now \subseteq then
  BY <1>1, OrderFacts DEF Raters
<1>3. IsFiniteSet(then)
  BY <1>1, OrderConstants, FS_Subset DEF Raters
<1>4. Cardinality(now) <= Cardinality(then) /\ Cardinality(now) \in Nat /\ Cardinality(then) \in Nat
  BY <1>2, <1>3, FS_Subset, FS_CardinalityType
<1>5. reviews[i] + Cardinality(then) + left <= MaxOps
  BY <1>1 DEF OrderInv, ReviewsBounded
<1>6. reviews[i] \in Int /\ left \in Int /\ MaxOps \in Int
  BY OrderFacts, OrderConstants
<1> QED
  BY <1>1, <1>4, <1>5, <1>6

LEMMA QuoteStill ==
  ASSUME OrderInv, O!MCNext, NEW w \in Workers, NEW self \in O!Request, self.quoted = 0,
         op' = [op EXCEPT ![w] = self], UNCHANGED <<consumed, priced>>
  PROVE  QuoteKept'
<1>1. op'[w] = self /\ \A v \in Workers \ {w} : op'[v] = op[v]
  BY OrderFacts
<1> QED
  BY <1>1, OrderFacts DEF OrderInv, QuoteKept

\* A request goes on, and at most writes its own order's row.
LEMMA OrderGoes ==
  ASSUME OrderInv, O!MCNext, NEW w \in Workers, NEW self \in O!Request, O!Become(w, self),
         self.pc # "rate", self.quoted = 0,
         UNCHANGED <<reviews, consumed, priced, published>>,
         orders' \in [Orders -> OrderRow], trail' \in [Orders -> [from : O!Known, to : O!Known]],
         payment' \in [Orders -> {"none", "asked", "completed", "failed"}],
         left' \in 0..MaxOps, left' <= left, faults' \in 0..MaxFaults,
         \A i \in Orders : i = op[w].order \/ (orders'[i] = orders[i] /\ payment'[i] = payment[i]),
         \A i \in Orders : i = op[w].order =>
           /\ orders'[i].status # "NEW"
           /\ orders'[i].status \in O!Served \cup {"PAID"} => Justified(i, published, handled'),
         Asking(self, orders', published, handled'),
         \A i \in Orders \ mixed' : self.order = i => KnowsOrder(self, orders', reviews)
  PROVE  OrderInv'
<1>1. op' = [op EXCEPT ![w] = self] /\ op' \in [Workers -> O!Request]
  BY OrderFacts DEF O!Become
<1>2. O!TypeOK'
  BY <1>1 DEF OrderInv, O!TypeOK, OrderRow
<1>3. QuoteKept' /\ ReviewsBounded'
  <2>1. QuoteKept'
    BY <1>1, QuoteStill
  <2>2. left' \in Int
    OBVIOUS
  <2> QED
    BY <1>1, <2>1, <2>2, FewerRaters
<1>4. \A i \in Orders : RowJustified(i)'
  <2>1. ASSUME NEW i \in Orders, i = op[w].order PROVE RowJustified(i)'
    BY <2>1 DEF RowJustified
  <2>2. ASSUME NEW i \in Orders, i # op[w].order PROVE RowJustified(i)'
    <3>1. RowJustified(i) /\ handled \subseteq handled'
      BY OrderFacts
    <3> QED
      BY <2>2, <3>1 DEF RowJustified, Justified
  <2> QED
    BY <2>1, <2>2
<1>5. \A i \in Orders : orders[i].status # "NEW" => orders'[i].status # "NEW"
  OBVIOUS
<1>6. \A i \in Orders \ mixed' : reviews'[i] <= 1
  BY OrderFacts DEF Untangled
<1> QED
  BY <1>1, <1>2, <1>3, <1>4, <1>5, <1>6, OrderWorks

\* A request arrives.
LEMMA OrderAccepted ==
  ASSUME OrderInv, O!MCNext, NEW w \in Workers, NEW self \in O!Request, O!Accept(w, self),
         self.pc # "rate", self.quoted = 0,
         Asking(self, orders, published, handled),
         \A i \in Orders \ mixed' : self.order = i => KnowsOrder(self, orders, reviews)
  PROVE  OrderInv'
<1>1. /\ O!Become(w, self) /\ op[w].pc = "idle" /\ left' \in 0..MaxOps /\ left' <= left
      /\ UNCHANGED <<orders, trail, reviews, consumed, priced, payment, published, faults>>
  BY OrderFacts DEF O!Accept, O!At
<1>2. \A i \in Orders : i = op[w].order =>
        /\ orders[i].status # "NEW"
        /\ orders[i].status \in O!Served \cup {"PAID"} => Justified(i, published, handled')
  BY OrderFacts DEF Asking, RowJustified, Justified
<1>3. Asking(self, orders', published, handled')
  BY <1>1, OrderFacts, AskingStill
<1>4. /\ trail' \in [Orders -> [from : O!Known, to : O!Known]]
      /\ payment' \in [Orders -> {"none", "asked", "completed", "failed"}]
      /\ orders' \in [Orders -> OrderRow] /\ faults' \in 0..MaxFaults
  BY <1>1, OrderFacts DEF OrderInv, O!TypeOK
<1> QED
  BY <1>1, <1>2, <1>3, <1>4, OrderGoes

LEMMA OrderArrives ==
  ASSUME OrderInv, O!MCNext, NEW w \in Workers, NEW i \in Orders,
         \/ O!PayStart(w, i) \/ O!CompletedStart(w, i) \/ O!FailedStart(w, i)
         \/ \E to \in Targets, by \in {"USER", "ADMIN"} : O!UpdateStart(w, i, to, by)
  PROVE  OrderInv'
<1>0. orders[i] \in OrderRow /\ RowJustified(i)
  BY OrderFacts
<1>1. CASE O!PayStart(w, i) \/ O!FailedStart(w, i)
  <2>1. PICK pc \in {"gateway", "fail"} : O!Accept(w, [O!Idle EXCEPT !.pc = pc, !.order = i])
    BY <1>1 DEF O!PayStart, O!FailedStart
  <2>2. orders[i].pay # "SUCCESS" /\ orders[i].status # "NEW"
    BY <1>0, <1>1 DEF O!PayStart, O!FailedStart, O!Unpaid, O!NotSettled, O!Payable, RowJustified
  <2> DEFINE self == [O!Idle EXCEPT !.pc = pc, !.order = i]
  <2>3. self \in O!Request /\ self.pc = pc /\ self.order = i /\ self.quoted = 0
    BY IdleOrder DEF O!Request
  <2>4. O!Accept(w, self)
    BY <2>1
  <2> HIDE DEF self
  <2>5. Asking(self, orders, published, handled) /\ KnowsOrder(self, orders, reviews)
    BY <2>2, <2>3 DEF Asking, KnowsOrder
  <2> QED
    BY <2>3, <2>4, <2>5, OrderAccepted
<1>2. CASE O!CompletedStart(w, i)
  <2>1. PICK was \in O!Known : was = orders[i].status
    BY <1>0 DEF OrderRow
  <2> DEFINE self == [O!Idle EXCEPT !.pc = "confirm", !.order = i, !.from = was]
  <2>2. /\ self \in O!Request /\ self.pc = "confirm" /\ self.order = i /\ self.quoted = 0
        /\ self.from = was
    BY IdleOrder DEF O!Request
  <2>3. O!Accept(w, self) /\ <<i, "completed">> \in published
    BY <1>2, <2>1 DEF O!CompletedStart
  <2> HIDE DEF self
  <2>4. Asking(self, orders, published, handled) /\ KnowsOrder(self, orders, reviews)
    BY <1>0, <2>1, <2>2, <2>3 DEF Asking, KnowsOrder, RowJustified
  <2> QED
    BY <2>2, <2>3, <2>4, OrderAccepted
<1>3. ASSUME NEW to \in Targets, NEW by \in {"USER", "ADMIN"}, O!UpdateStart(w, i, to, by)
      PROVE  OrderInv'
  <2>1. PICK was \in O!Known : was = orders[i].status
    BY <1>0 DEF OrderRow
  <2> DEFINE self == [O!Idle EXCEPT !.pc = "update", !.order = i, !.from = was, !.to = to, !.by = by]
  <2>2. to \in O!Statuses /\ to \in O!Known
    BY OrderConstants DEF O!Known
  <2>3. /\ self \in O!Request /\ self.pc = "update" /\ self.order = i /\ self.quoted = 0
        /\ self.from = was /\ self.to = to /\ self.by = by
    BY <2>2, IdleOrder DEF O!Request
  <2>4. O!Accept(w, self) /\ was # "NEW"
    BY <1>3, <2>1 DEF O!UpdateStart, O!Exists
  <2>5. by = "USER" => O!MerchantAllowed(was, to) \/ to = "CANCELLED"
    BY <1>3, <2>1 DEF O!UpdateStart, O!CustomerAllowed
  <2>6. O!MerchantAllowed(was, to) => was \in O!Served \cup {"PAID"}
    BY DEF O!MerchantAllowed, O!MerchantTransitions, O!Served
  <2> HIDE DEF self
  <2>7. Asking(self, orders, published, handled) /\ KnowsOrder(self, orders, reviews)
    BY <1>0, <2>1, <2>2, <2>3, <2>4, <2>5, <2>6 DEF Asking, KnowsOrder, RowJustified, O!Served
  <2> QED
    BY <2>3, <2>4, <2>7, OrderAccepted
<1> QED
  BY <1>1, <1>2, <1>3

\* Requests about the payment, and those that end.
LEMMA OrderPays ==
  ASSUME OrderInv, O!MCNext, NEW w \in Workers,
         O!PayRead(w) \/ O!Initiate(w) \/ O!PayWrite(w) \/ O!FailWrite(w) \/ O!RateTrail(w) \/ O!Die(w)
  PROVE  OrderInv'
<1>1. PICK i : i = op[w].order
  OBVIOUS
<1>2. /\ op[w] \in O!Request /\ Asking(op[w], orders, published, handled)
      /\ orders \in [Orders -> OrderRow] /\ left \in 0..MaxOps /\ faults \in 0..MaxFaults
      /\ (faults > 0 => faults - 1 \in 0..MaxFaults) /\ handled \subseteq handled'
      /\ left \in Int
  BY OrderFacts
<1>3. /\ trail \in [Orders -> [from : O!Known, to : O!Known]]
      /\ payment \in [Orders -> {"none", "asked", "completed", "failed"}]
  BY DEF OrderInv, O!TypeOK
<1>4. i \in Orders =>
        /\ orders[i].status # "NEW"
        /\ orders[i].status \in O!Served \cup {"PAID"} => Justified(i, published, handled')
  BY <1>1, <1>2, OrderFacts DEF Asking, RowJustified, Justified
<1>5. ASSUME NEW self \in O!Request, O!Become(w, self), self.pc # "rate", self.quoted = 0,
             self.pc = "idle" \/ i \in Orders, self.order \in {i, None}, self.pc \in {"idle", "gateway", "pay_write"},
             self.pc # "idle" => self.order = i,
             UNCHANGED <<orders, reviews, consumed, priced, published, left>>,
             trail' \in [Orders -> [from : O!Known, to : O!Known]],
             payment' \in [Orders -> {"none", "asked", "completed", "failed"}],
             faults' \in 0..MaxFaults,
             \A j \in Orders : j = i \/ payment'[j] = payment[j],
             \A j \in Orders \ mixed' : self.order = j => KnowsOrder(self, orders, reviews)
      PROVE  OrderInv'
  <2>1. Asking(self, orders', published, handled')
    BY <1>4, <1>5, OrderConstants DEF Asking
  <2> QED
    BY <1>1, <1>2, <1>4, <1>5, <2>1, OrderGoes
<1>6. ASSUME O!Done(w), UNCHANGED <<orders, reviews, consumed, priced, published, left>>,
             trail' \in [Orders -> [from : O!Known, to : O!Known]],
             payment' = payment, faults' \in 0..MaxFaults
      PROVE  OrderInv'
  BY <1>3, <1>5, <1>6, IdleOrder DEF O!Done
<1>7. CASE O!PayRead(w)
  <2>1. i \in Orders /\ op[w].quoted = 0
    BY <1>1, <1>2, <1>7 DEF O!PayRead, O!At, Asking, OrderInv, QuoteKept, O!Request
  <2>2. UNCHANGED <<orders, trail, reviews, consumed, priced, payment, published, left, faults>>
    BY <1>7 DEF O!PayRead
  <2>3. CASE O!Unpaid(i) /\ orders[i].status \in O!Payable
    <3> DEFINE self == [op[w] EXCEPT !.pc = "gateway"]
    <3>1. self \in O!Request /\ self.pc = "gateway" /\ self.order = i /\ self.quoted = 0
      BY <1>1, <1>2, <2>1 DEF O!Request
    <3>2. O!Become(w, self)
      BY <1>1, <1>7, <2>3 DEF O!PayRead
    <3> HIDE DEF self
    <3>3. KnowsOrder(self, orders, reviews)
      BY <2>3, <3>1 DEF KnowsOrder, O!Unpaid
    <3> QED
      BY <1>2, <1>3, <1>5, <2>1, <2>2, <3>1, <3>2, <3>3
  <2>4. CASE ~(O!Unpaid(i) /\ orders[i].status \in O!Payable)
    BY <1>1, <1>2, <1>3, <1>6, <1>7, <2>2, <2>4 DEF O!PayRead
  <2> QED
    BY <2>3, <2>4
<1>8. CASE O!Initiate(w)
  <2>1. i \in Orders /\ op[w].quoted = 0 /\ op[w].pc = "gateway"
    BY <1>1, <1>2, <1>8 DEF O!Initiate, O!At, Asking, OrderInv, QuoteKept, O!Request
  <2>2. UNCHANGED <<orders, trail, reviews, consumed, priced, published, left, faults>>
    BY <1>8 DEF O!Initiate
  <2>3. CASE payment[i] # "failed"
    <3> DEFINE self == [op[w] EXCEPT !.pc = "pay_write"]
    <3>1. self \in O!Request /\ self.pc = "pay_write" /\ self.order = i /\ self.quoted = 0
      BY <1>1, <1>2, <2>1 DEF O!Request
    <3>2. O!Become(w, self)
      BY <1>1, <1>8, <2>3 DEF O!Initiate
    <3> HIDE DEF self
    <3>3. /\ payment' \in [Orders -> {"none", "asked", "completed", "failed"}]
          /\ \A j \in Orders : j = i \/ payment'[j] = payment[j]
      BY <1>1, <1>3, <1>8 DEF O!Initiate
    <3>4. \A j \in Orders \ mixed' : self.order = j => KnowsOrder(self, orders, reviews)
      BY <1>1, <2>1, <3>1, OrderFacts DEF Untangled, KnowsOrder
    <3> QED
      BY <1>2, <1>3, <1>5, <2>1, <2>2, <3>1, <3>2, <3>3, <3>4
  <2>4. CASE payment[i] = "failed"
    <3>1. payment' = payment /\ O!Done(w)
      BY <1>1, <1>8, <2>4 DEF O!Initiate
    <3> QED
      BY <1>2, <1>3, <1>6, <2>2, <3>1
  <2> QED
    BY <2>3, <2>4
<1>9. CASE O!PayWrite(w) \/ O!FailWrite(w)
  <2>1. /\ i \in Orders /\ O!Done(w)
        /\ UNCHANGED <<trail, reviews, consumed, priced, payment, published, left, faults>>
    BY <1>1, <1>2, <1>9 DEF O!PayWrite, O!FailWrite, O!At, Asking
  <2>2. PICK pay \in {"PROCESSING", "FAILED"} : orders' = [orders EXCEPT ![i].pay = pay]
    BY <1>1, <1>9 DEF O!PayWrite, O!FailWrite
  <2>3. /\ orders' \in [Orders -> OrderRow] /\ orders'[i].status = orders[i].status
        /\ \A j \in Orders \ {i} : orders'[j] = orders[j]
    <3>1. orders[i] \in OrderRow
      BY <1>2, <2>1
    <3>2. [orders[i] EXCEPT !.pay = pay] \in OrderRow
      BY <3>1 DEF OrderRow
    <3> QED
      BY <1>2, <2>1, <2>2, <3>1, <3>2 DEF OrderRow
  <2>4. left' <= left
    BY <1>2, <2>1
  <2> QED
    BY <1>1, <1>2, <1>3, <1>4, <2>1, <2>3, <2>4, IdleOrder, OrderGoes DEF O!Done
<1>10. CASE O!RateTrail(w)
  <2>1. /\ i \in Orders /\ op[w].from \in O!Known
    BY <1>1, <1>2, <1>10 DEF O!RateTrail, O!At, Asking, O!Request
  <2>2. trail' \in [Orders -> [from : O!Known, to : O!Known]]
    BY <1>1, <1>3, <1>10, <2>1 DEF O!RateTrail, O!Recorded
  <2> QED
    BY <1>2, <1>6, <1>10, <2>2 DEF O!RateTrail
<1>11. CASE O!Die(w)
  BY <1>2, <1>3, <1>6, <1>11 DEF O!Die
<1> QED
  BY <1>7, <1>8, <1>9, <1>10, <1>11

\* Payments' events and updates move the order.
LEMMA OrderMoved ==
  ASSUME OrderInv, O!MCNext, NEW w \in Workers, O!Confirm(w) \/ O!UpdateWrite(w)
  PROVE  OrderInv'
<1>1. PICK i : i = op[w].order
  OBVIOUS
<1>2. /\ op[w] \in O!Request /\ Asking(op[w], orders, published, handled)
      /\ orders \in [Orders -> OrderRow] /\ left \in 0..MaxOps /\ faults \in 0..MaxFaults
      /\ handled \subseteq handled' /\ left \in Int
  BY OrderFacts
<1>3. /\ trail \in [Orders -> [from : O!Known, to : O!Known]]
      /\ payment \in [Orders -> {"none", "asked", "completed", "failed"}]
  BY DEF OrderInv, O!TypeOK
<1>4. /\ i \in Orders /\ O!Done(w) /\ op[w].from \in O!Known
      /\ UNCHANGED <<reviews, consumed, priced, payment, published, left, faults>>
  BY <1>1, <1>2 DEF O!Confirm, O!UpdateWrite, O!At, Asking, O!Request
<1>5. PICK to \in O!Statuses, pay \in {"PENDING", "PROCESSING", "SUCCESS", "FAILED"} :
        /\ orders' = [orders EXCEPT ![i] = [status |-> to, pay |-> pay]]
        /\ trail' = [trail EXCEPT ![i] = [from |-> op[w].from, to |-> to]]
        /\ to \in O!Served \cup {"PAID"} => Justified(i, published, handled')
  <2>1. CASE O!Confirm(w)
    <3>1. op[w].pc = "confirm" /\ op[w].from # "NEW" /\ <<i, "completed">> \in published
      BY <1>1, <1>2, <2>1 DEF O!Confirm, O!At, Asking
    <3>2. O!NextStatus(op[w].from) \in O!Statuses
      BY <1>4, <3>1 DEF O!NextStatus, O!Known, O!Statuses
    <3> QED
      BY <1>1, <2>1, <3>1, <3>2 DEF O!Confirm, O!Recorded, Justified
  <2>2. CASE O!UpdateWrite(w)
    <3>1. /\ op[w].pc = "update" /\ op[w].to \in O!Statuses /\ op[w].by \in {"USER", "ADMIN"}
          /\ op[w].by = "USER" /\ op[w].to \in O!Served \cup {"PAID"} => Justified(i, published, handled)
      BY <1>1, <1>2, <2>2 DEF O!UpdateWrite, O!At, Asking, O!Request
    <3>2. op[w].by = "ADMIN" => i \in handled'
      BY <1>1, <3>1 DEF O!MCNext, O!At
    <3>3. orders[i] \in OrderRow
      BY <1>2, <1>4
    <3>4. [orders[i] EXCEPT !.status = op[w].to] = [status |-> op[w].to, pay |-> orders[i].pay]
      BY <3>3 DEF OrderRow
    <3>5. orders' = [orders EXCEPT ![i] = [status |-> op[w].to, pay |-> orders[i].pay]]
      BY <1>1, <1>2, <1>4, <2>2, <3>4 DEF O!UpdateWrite
    <3>6. orders[i].pay \in {"PENDING", "PROCESSING", "SUCCESS", "FAILED"}
      BY <3>3 DEF OrderRow
    <3> QED
      BY <1>1, <1>2, <2>2, <3>1, <3>2, <3>5, <3>6 DEF O!UpdateWrite, O!Recorded, Justified
  <2> QED
    BY <2>1, <2>2
<1>6. /\ orders' \in [Orders -> OrderRow] /\ orders'[i].status = to /\ to # "NEW"
      /\ \A j \in Orders \ {i} : orders'[j] = orders[j]
      /\ trail' \in [Orders -> [from : O!Known, to : O!Known]]
  BY <1>2, <1>3, <1>4, <1>5 DEF OrderRow, O!Known, O!Statuses
<1>7. left' <= left
  BY <1>2, <1>4
<1> QED
  BY <1>1, <1>2, <1>3, <1>4, <1>5, <1>6, <1>7, IdleOrder, OrderGoes DEF O!Done

\* The gateway answers, or the customer pays again: no request moves.
LEMMA OrderSettles ==
  ASSUME OrderInv, O!MCNext, NEW i \in Orders,
         O!Settle(i, "completed") \/ O!Settle(i, "failed") \/ O!Retry(i)
  PROVE  OrderInv'
<1>1. /\ UNCHANGED <<orders, trail, reviews, consumed, priced, op, faults>>
      /\ published \subseteq published' /\ payment[i] # "none"
      /\ payment' \in [Orders -> {"none", "asked", "completed", "failed"}]
      /\ \A j \in Orders : j = i \/ payment'[j] = payment[j]
      /\ published' \subseteq Orders \X {"completed", "failed"}
      /\ \A e \in published' : e \in published \/ e[1] = i
  <2>1. /\ payment \in [Orders -> {"none", "asked", "completed", "failed"}]
        /\ published \subseteq Orders \X {"completed", "failed"}
    BY DEF OrderInv, O!TypeOK
  <2> QED
    BY <2>1 DEF O!Settle, O!Retry
<1>2. left' \in 0..MaxOps /\ left' \in Int /\ left \in Int /\ left' <= left
  BY OrderFacts DEF O!Settle, O!Retry
<1>3. O!TypeOK'
  BY <1>1, <1>2 DEF OrderInv, O!TypeOK
<1>4. ASSUME NEW j \in Orders PROVE RowJustified(j)'
  <2>1. RowJustified(j) /\ RowJustified(i) /\ handled \subseteq handled'
    BY OrderFacts
  <2>2. \A k \in {"completed", "failed"} : j # i /\ <<j, k>> \in published' => <<j, k>> \in published
    BY <1>1
  <2>3. orders[i].status # "NEW"
    BY <1>1, <2>1 DEF RowJustified
  <2> QED
    BY <1>1, <2>1, <2>2, <2>3 DEF RowJustified, Justified
<1>5. \A v \in Workers : Asking(op[v], orders, published', handled')
  <2>1. handled \subseteq handled' /\ \A v \in Workers : Asking(op[v], orders, published, handled)
    BY OrderFacts
  <2>2. \A v \in Workers : op[v] \in O!Request
    BY OrderFacts
  <2> QED
    BY <1>1, <2>1, <2>2, AskingStill
<1>6. \A j \in Orders \ mixed' : Untangled(j)'
  BY <1>1, OrderFacts DEF Untangled
<1>7. QuoteKept'
  BY <1>1, OrderFacts DEF OrderInv, QuoteKept
<1>8. ReviewsBounded'
  <2> SUFFICES ASSUME NEW j \in Orders
               PROVE  reviews[j] + Cardinality(Raters(op, j)) + left' <= MaxOps
    BY <1>1 DEF ReviewsBounded
  <2>1. PICK then : then = Raters(op, j)
    OBVIOUS
  <2>2. IsFiniteSet(then)
    BY <2>1, OrderConstants, FS_Subset DEF Raters
  <2>3. Cardinality(then) \in Nat
    BY <2>2, FS_CardinalityType
  <2>4. reviews[j] + Cardinality(then) + left <= MaxOps
    BY <2>1 DEF OrderInv, ReviewsBounded
  <2>5. reviews[j] \in Int /\ MaxOps \in Int
    BY OrderFacts, OrderConstants
  <2> QED
    BY <1>2, <2>1, <2>3, <2>4, <2>5
<1> QED
  BY <1>1, <1>3, <1>4, <1>5, <1>6, <1>7, <1>8, OrderFacts DEF OrderInv

LEMMA RatingStarts ==
  ASSUME OrderInv, O!MCNext, NEW w \in Workers, NEW i \in Orders, O!RateStart(w, i)
  PROVE  OrderInv'
<1> DEFINE self == [O!Idle EXCEPT !.pc = "rate", !.order = i, !.from = "DELIVERED"]
<1>1. /\ self \in O!Request /\ self.pc = "rate" /\ self.order = i /\ self.quoted = 0
      /\ self.from = "DELIVERED"
  BY IdleOrder DEF O!Request, O!Known, O!Statuses
<1>2. /\ O!Accept(w, self) /\ orders[i].status = "DELIVERED" /\ reviews[i] = 0
  BY DEF O!RateStart, O!Unrated
<1> HIDE DEF self
<1>3. /\ op' = [op EXCEPT ![w] = self] /\ left > 0 /\ left' = left - 1 /\ left' \in 0..MaxOps
      /\ UNCHANGED <<orders, trail, reviews, consumed, priced, payment, published, faults>>
  BY <1>2, OrderFacts DEF O!Accept, O!Become
<1>4. op' \in [Workers -> O!Request] /\ op'[w] = self /\ \A v \in Workers \ {w} : op'[v] = op[v]
  BY <1>1, <1>3, OrderFacts
<1>5. O!TypeOK'
  BY <1>3, <1>4 DEF OrderInv, O!TypeOK
<1>6. \A j \in Orders : RowJustified(j)'
  <2>1. handled \subseteq handled' /\ \A j \in Orders : RowJustified(j)
    BY OrderFacts
  <2> QED
    BY <1>3, <2>1 DEF RowJustified, Justified
<1>7. Asking(self, orders, published, handled')
  BY <1>1, <1>2 DEF Asking
<1>8. \A j \in Orders \ mixed' : /\ self.order = j => KnowsOrder(self, orders, reviews)
                                 /\ reviews[j] <= 1
  BY <1>1, <1>2, OrderFacts DEF KnowsOrder, Untangled
<1>9. QuoteKept'
  BY <1>1, <1>3, QuoteStill
<1>10. ASSUME NEW j \in Orders
       PROVE  reviews[j] + Cardinality(Raters(op', j)) + left' <= MaxOps
  <2>1. PICK now, then : now = Raters(op', j) /\ then = Raters(op, j)
    OBVIOUS
  <2>2. now \subseteq then \cup {w}
    BY <1>4, <2>1 DEF Raters
  <2>3. IsFiniteSet(then)
    BY <2>1, OrderConstants, FS_Subset DEF Raters
  <2>4. /\ IsFiniteSet(then \cup {w}) /\ Cardinality(then) \in Nat
        /\ (Cardinality(then \cup {w}) = Cardinality(then)
            \/ Cardinality(then \cup {w}) = Cardinality(then) + 1)
    BY <2>3, FS_AddElement, FS_CardinalityType
  <2>5. Cardinality(now) \in Nat /\ Cardinality(now) <= Cardinality(then \cup {w})
    BY <2>2, <2>4, FS_Subset, FS_CardinalityType
  <2>6. reviews[j] + Cardinality(then) + left <= MaxOps
    BY <2>1 DEF OrderInv, ReviewsBounded
  <2>7. reviews[j] \in Int /\ left \in Int /\ MaxOps \in Int
    BY OrderFacts, OrderConstants
  <2> QED
    BY <1>3, <2>1, <2>4, <2>5, <2>6, <2>7
<1>11. ReviewsBounded'
  BY <1>3, <1>10 DEF ReviewsBounded
<1> QED
  BY <1>1, <1>3, <1>5, <1>6, <1>7, <1>8, <1>9, <1>11, OrderWorks

LEMMA RatingLands ==
  ASSUME OrderInv, O!MCNext, NEW w \in Workers, O!Rate(w)
  PROVE  OrderInv'
<1>1. PICK i, was : i = op[w].order /\ was = op[w]
  OBVIOUS
<1>2. /\ was \in O!Request /\ was.pc = "rate" /\ i = was.order /\ i \in Orders
      /\ orders[i].status # "NEW" /\ op[w] = was
  BY <1>1, OrderFacts DEF O!Rate, O!At, Asking
<1> DEFINE self == [was EXCEPT !.pc = "rated"]
<1>3. /\ self \in O!Request /\ self.pc = "rated" /\ self.order = i /\ self.from = was.from
      /\ self.quoted = was.quoted
  BY <1>2 DEF O!Request
<1>4. /\ op' = [op EXCEPT ![w] = self] /\ reviews' = [reviews EXCEPT ![i] = reviews[i] + 1]
      /\ UNCHANGED <<orders, trail, consumed, priced, payment, published, left, faults>>
  BY <1>1 DEF O!Rate, O!Become
<1> HIDE DEF self
<1>5. op' \in [Workers -> O!Request] /\ op'[w] = self /\ \A v \in Workers \ {w} : op'[v] = op[v]
  BY <1>3, <1>4, OrderFacts
<1>6. self.quoted = 0
  BY <1>2, <1>3 DEF OrderInv, QuoteKept, O!Request
<1>7. /\ reviews[i] \in Int /\ left \in Int /\ left >= 0 /\ MaxOps \in Int
      /\ \A j \in Orders : reviews[j] \in 0..MaxOps
  BY <1>2, OrderFacts, OrderConstants
<1>8. ASSUME NEW j \in Orders
      PROVE  /\ reviews'[j] + Cardinality(Raters(op', j)) + left <= MaxOps
             /\ reviews'[j] \in 0..MaxOps
             /\ j = i \/ reviews'[j] = reviews[j]
  <2>1. PICK now, then : now = Raters(op', j) /\ then = Raters(op, j)
    OBVIOUS
  <2>2. IsFiniteSet(then)
    BY <2>1, OrderConstants, FS_Subset DEF Raters
  <2>3. Cardinality(then) \in Nat /\ reviews[j] + Cardinality(then) + left <= MaxOps
    BY <2>1, <2>2, FS_CardinalityType DEF OrderInv, ReviewsBounded
  <2>4. CASE j = i
    <3>1. now = then \ {w} /\ w \in then
      BY <1>2, <1>3, <1>5, <2>1, <2>4 DEF Raters
    <3>2. Cardinality(now) = Cardinality(then) - 1
      BY <2>2, <3>1, FS_RemoveElement
    <3>3. IsFiniteSet(now)
      BY <2>2, <3>1, FS_Subset
    <3>4. Cardinality(now) \in Nat
      BY <3>3, FS_CardinalityType
    <3>5. reviews'[j] = reviews[j] + 1
      BY <1>4, <1>2, <2>4, OrderFacts
    <3> QED
      BY <1>7, <2>1, <2>3, <2>4, <3>2, <3>4, <3>5
  <2>5. CASE j # i
    <3>1. now = then /\ reviews'[j] = reviews[j]
      BY <1>2, <1>3, <1>4, <1>5, <2>1, <2>5, OrderFacts DEF Raters
    <3> QED
      BY <1>7, <2>1, <2>3, <2>5, <3>1
  <2> QED
    BY <2>4, <2>5
<1>9. O!TypeOK'
  <2>1. reviews' \in [Orders -> 0..MaxOps]
    BY <1>4, <1>8, OrderFacts
  <2> QED
    BY <1>4, <1>5, <2>1 DEF OrderInv, O!TypeOK
<1>10. ReviewsBounded'
  BY <1>4, <1>8 DEF ReviewsBounded
<1>11. \A j \in Orders : RowJustified(j)'
  <2>1. handled \subseteq handled' /\ \A j \in Orders : RowJustified(j)
    BY OrderFacts
  <2> QED
    BY <1>4, <2>1 DEF RowJustified, Justified
<1>12. Asking(self, orders, published, handled')
  BY <1>2, <1>3 DEF Asking
<1>13. ASSUME NEW j \in Orders \ mixed'
       PROVE  /\ self.order = j => KnowsOrder(self, orders, reviews')
              /\ reviews'[j] <= 1
  <2>1. CASE j = i
    <3>1. KnowsOrder(was, orders, reviews)
      BY <1>2, <1>13, <2>1, OrderFacts DEF Untangled
    <3>2. reviews'[j] = 1
      BY <1>2, <1>4, <2>1, <3>1, OrderFacts DEF KnowsOrder
    <3>3. KnowsOrder(self, orders, reviews')
      BY <1>2, <1>3, <3>1 DEF KnowsOrder
    <3> QED
      BY <3>2, <3>3
  <2>2. CASE j # i
    BY <1>3, <1>8, <1>13, <2>2, OrderFacts DEF Untangled
  <2> QED
    BY <2>1, <2>2
<1>14. QuoteKept'
  BY <1>4, <1>6, <1>3, QuoteStill
<1> QED
  BY <1>1, <1>3, <1>4, <1>8, <1>9, <1>10, <1>11, <1>12, <1>13, <1>14, OrderWorks

\* A checkout arrives; it has looked at its quote.
LEMMA PlacingStarts ==
  ASSUME OrderInv, O!MCNext, NEW w \in Workers, NEW size \in 1..2, NEW quoted \in 0..2,
         O!PlaceStart(w, size, quoted)
  PROVE  OrderInv'
<1> DEFINE self == [O!Idle EXCEPT !.pc = "place", !.size = size, !.quoted = quoted]
<1>1. /\ self \in O!Request /\ self.pc = "place" /\ self.order = None /\ self.quoted = quoted
  <2>1. size \in 0..2
    OBVIOUS
  <2>2. self \in O!Request
    BY <2>1, IdleOrder DEF O!Request
  <2> QED
    BY <2>2, IdleOrder DEF O!Request
<1>2. O!Accept(w, self) /\ (quoted > 0 => ~consumed)
  BY DEF O!PlaceStart, O!Usable
<1> HIDE DEF self
<1>3. /\ op' = [op EXCEPT ![w] = self] /\ left > 0 /\ left' = left - 1 /\ left' \in 0..MaxOps
      /\ UNCHANGED <<orders, trail, reviews, consumed, priced, payment, published, faults>>
  BY <1>2, OrderFacts DEF O!Accept, O!Become
<1>4. op' \in [Workers -> O!Request] /\ op'[w] = self /\ \A v \in Workers \ {w} : op'[v] = op[v]
  BY <1>1, <1>3, OrderFacts
<1>5. O!TypeOK'
  BY <1>3, <1>4 DEF OrderInv, O!TypeOK
<1>6. \A j \in Orders : RowJustified(j)'
  <2>1. handled \subseteq handled' /\ \A j \in Orders : RowJustified(j)
    BY OrderFacts
  <2> QED
    BY <1>3, <2>1 DEF RowJustified, Justified
<1>7. Asking(self, orders, published, handled')
  BY <1>1, OrderConstants DEF Asking
<1>8. \A j \in Orders \ mixed' : /\ self.order = j => KnowsOrder(self, orders, reviews)
                                 /\ reviews[j] <= 1
  BY <1>1, OrderConstants, OrderFacts DEF KnowsOrder, Untangled
<1>9. QuoteKept'
  BY <1>1, <1>2, <1>3, <1>4, OrderFacts DEF OrderInv, QuoteKept
<1>10. ReviewsBounded'
  <2>1. left' \in Int /\ left' <= left
    BY <1>3, OrderFacts
  <2> QED
    BY <1>1, <1>3, <2>1, FewerRaters
<1> QED
  BY <1>1, <1>3, <1>5, <1>6, <1>7, <1>8, <1>9, <1>10, OrderWorks

\* The orders' rows are created, and the quote is marked.
LEMMA PlacingLands ==
  ASSUME OrderInv, O!MCNext, NEW w \in Workers, NEW new \in SUBSET Orders, NEW cheap \in SUBSET Orders,
         NEW stk \in BOOLEAN, O!PlaceRows(w, new, cheap, stk)
  PROVE  OrderInv'
<1>1. /\ op[w].pc = "place" /\ op[w] \in O!Request
      /\ \A i \in new : orders[i].status = "NEW"
      /\ cheap \subseteq Orders /\ Cardinality(cheap) = op[w].quoted
      /\ orders' = [i \in Orders |-> IF i \in new THEN O!Placed ELSE orders[i]]
      /\ trail' = [i \in Orders |-> IF i \in new THEN [from |-> "NEW", to |-> O!Placed.status]
                                    ELSE trail[i]]
      /\ priced' = priced \cup cheap /\ consumed' = (consumed \/ cheap # {})
      /\ UNCHANGED <<reviews, payment, published, left, faults>>
  BY OrderFacts DEF O!PlaceRows, O!At, O!Exists, O!Cardinality, Cardinality
<1>2. PICK self \in O!Request :
        /\ op' = [op EXCEPT ![w] = self] /\ self.quoted = 0 /\ self.pc \in {"idle", "pay"}
        /\ self.order \in new \cup {None} /\ (self.pc = "pay" => self.order \in new)
  <2>1. CASE O!Done(w)
    BY <2>1, IdleOrder DEF O!Done, O!Become
  <2>2. ASSUME NEW i \in new, O!Become(w, [O!Idle EXCEPT !.pc = "pay", !.order = i])
        PROVE  \E self \in O!Request :
                 /\ op' = [op EXCEPT ![w] = self] /\ self.quoted = 0 /\ self.pc \in {"idle", "pay"}
                 /\ self.order \in new \cup {None} /\ (self.pc = "pay" => self.order \in new)
    <3> DEFINE then == [O!Idle EXCEPT !.pc = "pay", !.order = i]
    <3>1. then \in O!Request /\ then.pc = "pay" /\ then.order = i /\ then.quoted = 0
      BY IdleOrder DEF O!Request
    <3>2. op' = [op EXCEPT ![w] = then]
      BY <2>2 DEF O!Become
    <3> HIDE DEF then
    <3> QED
      BY <3>1, <3>2
  <2> QED
    BY <2>1, <2>2 DEF O!PlaceRows
<1>3. op' \in [Workers -> O!Request] /\ op'[w] = self /\ \A v \in Workers \ {w} : op'[v] = op[v]
  BY <1>2, OrderFacts
<1>4. /\ O!Placed \in OrderRow /\ O!Placed.status = "PENDING_PAYMENT"
      /\ [from |-> "NEW", to |-> O!Placed.status] \in [from : O!Known, to : O!Known]
  BY DEF O!Placed, OrderRow, O!Known, O!Statuses
<1>5. /\ \A i \in Orders : i \in new => orders'[i] = O!Placed
      /\ \A i \in Orders : i \notin new => orders'[i] = orders[i]
      /\ orders' \in [Orders -> OrderRow]
  BY <1>1, <1>4, OrderFacts
<1>6. O!TypeOK'
  <2>1. trail' \in [Orders -> [from : O!Known, to : O!Known]]
    BY <1>1, <1>4 DEF OrderInv, O!TypeOK
  <2>2. consumed' \in BOOLEAN /\ priced' \subseteq Orders
    BY <1>1 DEF OrderInv, O!TypeOK
  <2> QED
    BY <1>1, <1>3, <1>5, <2>1, <2>2 DEF OrderInv, O!TypeOK, OrderRow
<1>7. \A j \in Orders : RowJustified(j)'
  <2>1. handled \subseteq handled' /\ \A j \in Orders : RowJustified(j)
    BY OrderFacts
  <2> QED
    BY <1>1, <1>4, <1>5, <2>1 DEF RowJustified, Justified, O!Served
<1>8. \A i \in Orders : orders[i].status # "NEW" => orders'[i].status # "NEW"
  BY <1>1, <1>4, <1>5
<1>9. Asking(self, orders', published', handled')
  BY <1>2, <1>4, <1>5, OrderConstants DEF Asking
<1>10. \A j \in Orders \ mixed' : /\ self.order = j => KnowsOrder(self, orders', reviews')
                                  /\ reviews'[j] <= 1
  BY <1>1, <1>2, OrderFacts DEF KnowsOrder, Untangled
<1>11. ReviewsBounded'
  <2>1. left' \in Int /\ left' <= left
    BY <1>1, OrderFacts
  <2> QED
    BY <1>1, <1>2, <2>1, FewerRaters
<1>12. QuoteKept'
  <2>1. \A v \in Workers : op'[v].quoted > 0 => op'[v].pc = "place"
    BY <1>2, <1>3 DEF OrderInv, QuoteKept
  <2>2. ASSUME ~shared'
        PROVE  /\ ~O!QuotesInUse' /\ Cardinality(priced') <= 1 /\ (~consumed' => priced' = {})
               /\ \A v \in Workers : op'[v].quoted > 0 => ~consumed'
    <3>1. /\ ~O!QuotesInUse /\ ~O!QuotesInUse' /\ Cardinality(priced) <= 1
          /\ (~consumed => priced = {})
          /\ \A v \in Workers : op[v].quoted > 0 => ~consumed
      BY <2>2, OrderFacts DEF OrderInv, QuoteKept
    <3>2. op[w].quoted \in {0, 1}
      BY <1>1, <3>1 DEF O!QuotesInUse, O!Request
    <3>3. IsFiniteSet(cheap)
      BY <1>1, OrderConstants, FS_Subset
    <3>4. CASE op[w].quoted = 0
      <4>1. cheap = {}
        BY <1>1, <3>3, <3>4, FS_EmptySet
      <4>2. priced' = priced /\ consumed' = consumed
        BY <1>1, <4>1 DEF OrderInv, O!TypeOK
      <4> QED
        BY <1>2, <1>3, <3>1, <4>2
    <3>5. CASE op[w].quoted = 1
      <4>1. ~consumed /\ priced = {}
        BY <3>1, <3>5
      <4>2. priced' = cheap /\ Cardinality(priced') <= 1
        BY <1>1, <3>5, <4>1
      <4>3. \A v \in Workers : ~(op'[v].quoted > 0)
        BY <1>2, <1>3, <3>1, <3>5 DEF O!QuotesInUse
      <4>4. ~consumed' => priced' = {}
        BY <1>1, <4>2
      <4> QED
        BY <3>1, <4>2, <4>3, <4>4
    <3> QED
      BY <3>2, <3>4, <3>5
  <2> QED
    BY <2>1, <2>2 DEF QuoteKept
<1> QED
  BY <1>1, <1>2, <1>5, <1>7, <1>6, <1>8, <1>9, <1>10, <1>11, <1>12, OrderWorks

LEMMA OrderInit == O!MCInit => OrderInv
<1> SUFFICES ASSUME O!MCInit PROVE OrderInv
  OBVIOUS
<1>1. PICK row \in O!Starts : orders = [i \in Orders |-> IF i = Order1 THEN row ELSE O!Absent]
  BY DEF O!MCInit
<1>2. /\ row \in OrderRow /\ O!Absent \in OrderRow
      /\ row.status = "NEW" => row.pay = "PENDING"
      /\ O!Absent.status = "NEW" /\ O!Absent.pay = "PENDING"
      /\ row.status \in O!Served \cup {"PAID"} => row.status = "ACCEPTED" \/ row.pay = "SUCCESS"
      /\ row.pay \in {"PENDING", "FAILED", "SUCCESS"}
  BY DEF O!Starts, O!Absent, O!Placed, O!Delivered, OrderRow, O!Known, O!Statuses, O!Served
<1>3. /\ orders \in [Orders -> OrderRow]
      /\ \A i \in Orders : orders[i] = row \/ orders[i] = O!Absent
  BY <1>1, <1>2
<1>4. /\ trail = [i \in Orders |-> [from |-> orders[i].status, to |-> orders[i].status]]
      /\ reviews = [i \in Orders |-> 0] /\ consumed = FALSE /\ priced = {}
      /\ payment = [i \in Orders |-> O!PaymentOf(orders[i].pay)]
      /\ published = {<<i, "completed">> : i \in {j \in Orders : payment[j] = "completed"}}
                     \cup {<<i, "failed">> : i \in {j \in Orders : payment[j] = "asked"}}
      /\ op = [w \in Workers |-> O!Idle] /\ left = MaxOps /\ faults = MaxFaults
      /\ mixed = {} /\ shared = FALSE
      /\ handled = {i \in Orders : orders[i].status = "ACCEPTED"}
  BY DEF O!MCInit
<1>5. \A i \in Orders :
        /\ payment[i] \in {"none", "asked", "completed", "failed"}
        /\ (payment[i] = "completed" <=> orders[i].pay = "SUCCESS")
        /\ (payment[i] = "asked" <=> orders[i].pay = "FAILED")
        /\ (orders[i].pay = "PENDING" => payment[i] = "none")
  BY <1>4 DEF O!PaymentOf
<1>6. \A i \in Orders : /\ <<i, "completed">> \in published <=> orders[i].pay = "SUCCESS"
                        /\ <<i, "failed">> \in published <=> orders[i].pay = "FAILED"
  BY <1>4, <1>5
<1>7. O!TypeOK
  <2>1. trail \in [Orders -> [from : O!Known, to : O!Known]]
    BY <1>3, <1>4 DEF OrderRow
  <2>2. op \in [Workers -> O!Request]
    BY <1>4, IdleOrder
  <2>3. left \in 0..MaxOps /\ faults \in 0..MaxFaults /\ reviews \in [Orders -> 0..MaxOps]
    BY <1>4, OrderConstants
  <2>4. published \subseteq Orders \X {"completed", "failed"}
    BY <1>4
  <2>5. payment \in [Orders -> {"none", "asked", "completed", "failed"}]
    BY <1>4, <1>5
  <2> QED
    BY <1>3, <1>4, <2>1, <2>2, <2>3, <2>4, <2>5 DEF O!TypeOK, OrderRow
<1>8. \A i \in Orders : RowJustified(i)
  <2> SUFFICES ASSUME NEW i \in Orders PROVE RowJustified(i)
    OBVIOUS
  <2>1. orders[i].status = "NEW" => orders[i].pay = "PENDING"
    BY <1>2, <1>3
  <2>2. orders[i].status \in O!Served \cup {"PAID"} => orders[i].status = "ACCEPTED" \/ orders[i].pay = "SUCCESS"
    BY <1>2, <1>3 DEF O!Served
  <2> QED
    BY <1>4, <1>5, <1>6, <2>1, <2>2 DEF RowJustified, Justified
<1>9. \A w \in Workers : op[w] = O!Idle
  BY <1>4
<1>10. \A i \in Orders : Untangled(i)
  BY <1>4, <1>9, IdleOrder, OrderConstants DEF Untangled, O!Overlapped
<1>11. QuoteKept
  <2>1. Cardinality(priced) = 0
    BY <1>4, FS_EmptySet
  <2> QED
    BY <1>4, <1>9, <2>1, IdleOrder DEF QuoteKept, O!QuotesInUse
<1>12. ReviewsBounded
  <2> SUFFICES ASSUME NEW i \in Orders PROVE reviews[i] + Cardinality(Raters(op, i)) + left <= MaxOps
    BY DEF ReviewsBounded
  <2>1. Raters(op, i) = {}
    BY <1>9, IdleOrder DEF Raters
  <2>2. Cardinality(Raters(op, i)) = 0
    BY <2>1, FS_EmptySet
  <2> QED
    BY <1>4, <2>2, OrderConstants
<1>13. \A w \in Workers : Asking(op[w], orders, published, handled)
  BY <1>9, IdleOrder
<1> QED
  BY <1>4, <1>7, <1>8, <1>10, <1>11, <1>12, <1>13 DEF OrderInv

LEMMA OrderNext == OrderInv /\ O!MCNext => OrderInv'
<1> SUFFICES ASSUME OrderInv, O!MCNext PROVE OrderInv'
  OBVIOUS
<1>1. ASSUME NEW w \in Workers, O!Arrives(w) PROVE OrderInv'
  BY <1>1, PlacingStarts, OrderArrives, RatingStarts DEF O!Arrives
<1>2. ASSUME NEW w \in Workers, O!Step(w) \/ O!Die(w) PROVE OrderInv'
  BY <1>2, PlacingLands, OrderPays, OrderMoved, RatingLands DEF O!Step
<1>3. ASSUME NEW i \in Orders, O!Settle(i, "completed") \/ O!Settle(i, "failed") \/ O!Retry(i)
      PROVE  OrderInv'
  BY <1>3, OrderSettles
<1> QED
  BY <1>1, <1>2, <1>3 DEF O!MCNext, O!Next

\* What a step may do to an order on which nothing overlaps.
Follows(i) ==
  /\ orders[i].pay = "SUCCESS" => orders'[i].pay = "SUCCESS"
  /\ orders[i].pay # orders'[i].pay /\ orders[i].status \notin {orders'[i].status, "NEW"}
       => orders[i].status = "PENDING_PAYMENT"
  /\ orders'[i].status # orders[i].status => trail'[i].to = orders'[i].status
  /\ trail'[i] # trail[i] => trail'[i].from = orders[i].status

LEMMA OrderFollows ==
  ASSUME OrderInv, O!MCNext
  PROVE  O!PaymentKept /\ O!HistoryChained
<1> SUFFICES ASSUME NEW i \in Orders, i \notin mixed' PROVE Follows(i)
  BY DEF Follows, O!PaymentKept, O!HistoryChained
<1>1. CASE orders'[i] = orders[i] /\ trail'[i] = trail[i]
  BY <1>1 DEF Follows
<1>2. /\ orders \in [Orders -> OrderRow] /\ orders[i] \in OrderRow /\ RowJustified(i)
      /\ \A w \in Workers : op[w] \in O!Request /\ Asking(op[w], orders, published, handled)
      /\ \A w \in Workers : op[w].order = i => KnowsOrder(op[w], orders, reviews)
  BY OrderFacts DEF Untangled
<1>3. trail \in [Orders -> [from : O!Known, to : O!Known]]
  BY DEF OrderInv, O!TypeOK
<1>4. ASSUME NEW w \in Workers, NEW new \in SUBSET Orders, NEW cheap \in SUBSET Orders,
             NEW stk \in BOOLEAN, O!PlaceRows(w, new, cheap, stk)
      PROVE  Follows(i)
  <2>1. /\ orders'[i] = IF i \in new THEN O!Placed ELSE orders[i]
        /\ trail'[i] = IF i \in new THEN [from |-> "NEW", to |-> O!Placed.status] ELSE trail[i]
        /\ i \in new => orders[i].status = "NEW"
    BY <1>4 DEF O!PlaceRows, O!Exists
  <2> QED
    BY <1>2, <2>1 DEF Follows, RowJustified, O!Placed
<1>5. ASSUME NEW w \in Workers,
             O!PayWrite(w) \/ O!FailWrite(w) \/ O!Confirm(w) \/ O!UpdateWrite(w) \/ O!RateTrail(w)
      PROVE  Follows(i)
  <2>1. CASE op[w].order # i
    <3>1. orders'[i] = orders[i] /\ trail'[i] = trail[i]
      BY <1>2, <1>3, <1>5, <2>1
         DEF O!PayWrite, O!FailWrite, O!Confirm, O!UpdateWrite, O!RateTrail, O!Recorded
    <3> QED
      BY <1>1, <3>1
  <2>2. CASE op[w].order = i
    <3>1. KnowsOrder(op[w], orders, reviews)
      BY <1>2, <2>2
    <3>2. CASE O!PayWrite(w) \/ O!FailWrite(w)
      <4>1. orders[i].pay # "SUCCESS" /\ trail' = trail
        BY <2>2, <3>1, <3>2 DEF O!PayWrite, O!FailWrite, O!At, KnowsOrder
      <4>2. orders'[i].status = orders[i].status
        BY <1>2, <2>2, <3>2 DEF O!PayWrite, O!FailWrite, OrderRow
      <4> QED
        BY <4>1, <4>2 DEF Follows
    <3>3. CASE O!Confirm(w)
      <4>1. op[w].from = orders[i].status
        BY <2>2, <3>1, <3>3 DEF O!Confirm, O!At, KnowsOrder
      <4>2. /\ orders'[i] = [status |-> O!NextStatus(orders[i].status), pay |-> "SUCCESS"]
            /\ trail'[i] = [from |-> orders[i].status, to |-> O!NextStatus(orders[i].status)]
        BY <1>2, <1>3, <2>2, <3>3, <4>1 DEF O!Confirm, O!Recorded
      <4> QED
        BY <4>2 DEF Follows, O!NextStatus
    <3>4. CASE O!UpdateWrite(w)
      <4>1. op[w].from = orders[i].status
        BY <2>2, <3>1, <3>4 DEF O!UpdateWrite, O!At, KnowsOrder
      <4>2. /\ orders'[i] = [orders[i] EXCEPT !.status = op[w].to]
            /\ trail'[i] = [from |-> orders[i].status, to |-> op[w].to]
        BY <1>2, <1>3, <2>2, <3>4, <4>1 DEF O!UpdateWrite, O!Recorded
      <4>3. orders'[i].status = op[w].to /\ orders'[i].pay = orders[i].pay
        BY <1>2, <4>2 DEF OrderRow
      <4> QED
        BY <4>2, <4>3 DEF Follows
    <3>5. CASE O!RateTrail(w)
      <4>1. op[w].from = orders[i].status /\ orders' = orders
        BY <2>2, <3>1, <3>5 DEF O!RateTrail, O!At, KnowsOrder
      <4>2. trail'[i].from = orders[i].status
        BY <1>3, <2>2, <3>5, <4>1 DEF O!RateTrail, O!Recorded
      <4> QED
        BY <4>1, <4>2 DEF Follows
    <3> QED
      BY <1>5, <3>2, <3>3, <3>4, <3>5
  <2> QED
    BY <2>1, <2>2
<1>6. ASSUME NEW w \in Workers, O!Arrives(w) PROVE orders' = orders /\ trail' = trail
  BY <1>6 DEF O!Arrives, O!PlaceStart, O!PayStart, O!CompletedStart, O!FailedStart, O!RateStart,
              O!UpdateStart, O!Accept
<1>7. ASSUME NEW w \in Workers, O!PayRead(w) \/ O!Initiate(w) \/ O!Rate(w) \/ O!Die(w)
      PROVE  orders' = orders /\ trail' = trail
  BY <1>7 DEF O!PayRead, O!Initiate, O!Rate, O!Die
<1>8. ASSUME NEW j \in Orders, O!Settle(j, "completed") \/ O!Settle(j, "failed") \/ O!Retry(j)
      PROVE  orders' = orders /\ trail' = trail
  BY <1>8 DEF O!Settle, O!Retry
<1>9. ASSUME NEW w \in Workers, O!Step(w) PROVE Follows(i)
  BY <1>1, <1>4, <1>5, <1>7, <1>9 DEF O!Step
<1> QED
  BY <1>1, <1>6, <1>7, <1>8, <1>9 DEF O!MCNext, O!Next

LEMMA OrderStutters ==
  ASSUME OrderInv, UNCHANGED vars
  PROVE  OrderInv' /\ O!PaymentKept /\ O!HistoryChained
<1>1. UNCHANGED <<orders, trail, reviews, shared, handled, consumed, priced, payment, published, op,
                  left, faults, mixed>>
  BY DEF vars, OfOrders, OfQuotes, OfRequests, OfHandlers
<1>2. O!TypeOK'
  BY <1>1 DEF OrderInv, O!TypeOK
<1>3. (\A i \in Orders : RowJustified(i)') /\ ReviewsBounded'
  BY <1>1 DEF OrderInv, RowJustified, ReviewsBounded
<1>4. \A i \in Orders \ mixed : Untangled(i)'
  BY <1>1 DEF OrderInv, Untangled, O!Overlapped
<1>5. QuoteKept'
  BY <1>1 DEF OrderInv, QuoteKept, O!QuotesInUse
<1>6. O!PaymentKept /\ O!HistoryChained
  BY <1>1 DEF O!PaymentKept, O!HistoryChained
<1> QED
  BY <1>1, <1>2, <1>3, <1>4, <1>5, <1>6 DEF OrderInv

-----------------------------------------------------------------------------
\* Pricing.

PricingRule == [service : {"DELIVERY", "RIDE"}, min : Nat, max : Nat, charge : Nat,
                rider : Nat, commission : Nat, priority : Nat, enabled : BOOLEAN]

PriceQuote ==
  [kind : {"checkout", "ride"}, subtotal : Nat, credit : Nat, delivery : Nat, service : Nat,
   peak : Nat, commission : Nat, merchant : Nat, rider : Nat, platform : Nat, total : Nat,
   fresh : BOOLEAN, used : BOOLEAN]

\* The sums of a quote.
Consistent(q) ==
  /\ q \in PriceQuote
  /\ P!ChargesCover => q.merchant + q.rider + q.platform <= q.total + q.credit
  /\ q.kind = "checkout" =>
       q.total = P!Larger(0, q.subtotal + q.delivery + q.service - q.credit) + q.peak

\* What was ordered follows from the quote, which is still there.
Charged(o, q) ==
  /\ \A a \in P!Parts : o[a] \in Nat
  /\ o.quoted => /\ Consistent(q) /\ o.subtotal \in Nat
                 /\ q.kind = "checkout" => o.total = P!QuotedTotal(q, o.subtotal)
                 /\ q.kind = "ride" => o.total = q.total
  /\ P!ChargesCover /\ ~o.quoted => o.rider + o.platform <= o.total

PricingInv ==
  /\ rules \in [RuleIds -> Offers \cup {None}] /\ hour \in Hours
  /\ quote # None => Consistent(quote)
  /\ order # None => Charged(order, quote)

LEMMA PricingImplied ==
  ASSUME PricingInv
  PROVE  P!TypeOK /\ P!PriceHonoured /\ P!SplitCovered
<1>1. P!TypeOK
  <2>1. quote # None => \A a \in P!Parts : quote[a] \in Nat
    BY DEF PricingInv, Consistent, PriceQuote, P!Parts
  <2> QED
    BY <2>1 DEF PricingInv, Charged, P!TypeOK
<1>2. P!PriceHonoured
  <2> SUFFICES ASSUME order # None, order.quoted, order.subtotal = quote.subtotal,
                      quote.credit <= quote.subtotal + quote.delivery + quote.service
               PROVE  order.total = quote.total
    BY DEF P!PriceHonoured
  <2>1. Consistent(quote) /\ Charged(order, quote)
    BY DEF PricingInv, Charged
  <2>2. CASE quote.kind = "checkout"
    <3>1. /\ order.total = P!Larger(0, quote.subtotal + quote.delivery + quote.service + quote.peak
                                         - quote.credit)
          /\ quote.total = P!Larger(0, quote.subtotal + quote.delivery + quote.service - quote.credit)
                             + quote.peak
      BY <2>1, <2>2 DEF Consistent, Charged, P!QuotedTotal
    <3>2. /\ quote.subtotal \in Nat /\ quote.delivery \in Nat /\ quote.service \in Nat
          /\ quote.peak \in Nat /\ quote.credit \in Nat
      BY <2>1 DEF Consistent, PriceQuote
    <3> QED
      BY <3>1, <3>2 DEF P!Larger
  <2> QED
    BY <2>1, <2>2 DEF Consistent, PriceQuote, Charged
<1>3. P!SplitCovered
  BY DEF PricingInv, Consistent, Charged, P!SplitCovered
<1> QED
  BY <1>1, <1>2, <1>3

\* Surge and peak fees only add.
LEMMA FeesAdd ==
  ASSUME NEW amount \in Nat
  PROVE  P!Surged(amount) \in Nat /\ P!Surged(amount) >= amount /\ P!Peak(amount) \in Nat
<1>1. (5 * amount + 2) \div 4 \in Nat /\ (5 * amount + 2) \div 4 >= amount
  OBVIOUS
<1>2. (amount + 10) \div 20 \in Nat
  OBVIOUS
<1> QED
  BY <1>1, <1>2 DEF P!Surged, P!Peak

LEMMA LargerFacts ==
  ASSUME NEW n \in Int
  PROVE  P!Larger(0, n) \in Nat /\ P!Larger(0, n) >= n
  BY DEF P!Larger

LEMMA OfferFacts ==
  ASSUME NEW rule \in Offers
  PROVE  /\ rule \in PricingRule
         /\ rule.charge \in Nat /\ rule.rider \in Nat /\ rule.commission \in Nat
         /\ P!ChargesCover => rule.rider + rule.commission <= rule.charge
  BY PricingConstants DEF PricingRule, P!ChargesCover

LEMMA BestAreOffers ==
  ASSUME PricingInv
  PROVE  /\ \A s, d : P!Best(s, d) \subseteq Offers
         /\ \A d : P!RideRules(d) \subseteq Offers
<1>1. \A s, d : P!Best(s, d) \subseteq Offers
  BY DEF PricingInv, P!Best, P!Eligible, P!Fits
<1> QED
  BY <1>1 DEF P!RideRules

\* The checkout's quote covers what it promises.
LEMMA CheckoutQuoteConsistent ==
  ASSUME NEW rule \in Offers, NEW subtotal \in Nat, NEW credit \in Nat
  PROVE  LET q == P!CheckoutQuote(rule, subtotal, credit)
         IN  /\ Consistent(q) /\ q.kind = "checkout" /\ q.commission = rule.commission
             /\ q.subtotal = subtotal /\ q.credit = credit /\ q.rider = rule.rider
             /\ P!ChargesCover => rule.rider + rule.commission <= q.delivery
             /\ q.total >= q.subtotal + q.delivery + q.service - q.credit
<1>1. PICK fee, peak : fee = P!Surged(rule.charge) /\ peak = P!Peak(fee)
  OBVIOUS
<1>2. /\ rule.charge \in Nat /\ rule.rider \in Nat /\ rule.commission \in Nat /\ ServiceFee \in Nat
      /\ P!ChargesCover => rule.rider + rule.commission <= rule.charge
  BY OfferFacts, PricingConstants
<1>3. fee \in Nat /\ fee >= rule.charge /\ peak \in Nat
  BY <1>1, <1>2, FeesAdd
<1>4. PICK earn, kept, rest : /\ earn = rule.commission + ServiceFee + peak
                              /\ kept = P!Larger(0, subtotal - rule.commission)
                              /\ rest = P!Larger(0, subtotal + fee + ServiceFee - credit)
  OBVIOUS
<1>5. /\ earn \in Nat
      /\ kept \in Nat /\ (kept = 0 \/ kept = subtotal - rule.commission)
      /\ rest \in Nat /\ rest >= subtotal + fee + ServiceFee - credit
  BY <1>2, <1>3, <1>4 DEF P!Larger
<1>6. P!ChargesCover => kept + rule.rider + earn <= rest + peak + credit
  BY <1>2, <1>3, <1>4, <1>5
<1>7. rest + peak \in Nat /\ rest + peak >= subtotal + fee + ServiceFee - credit
  BY <1>2, <1>3, <1>5
<1>8. P!ChargesCover => rule.rider + rule.commission <= fee
  BY <1>2, <1>3
<1> DEFINE q == P!CheckoutQuote(rule, subtotal, credit)
<1>9. /\ q.kind = "checkout" /\ q.subtotal = subtotal /\ q.credit = credit /\ q.delivery = fee
      /\ q.service = ServiceFee /\ q.peak = peak /\ q.commission = rule.commission
      /\ q.merchant = kept /\ q.rider = rule.rider /\ q.platform = earn /\ q.total = rest + peak
  BY <1>1, <1>4 DEF P!CheckoutQuote, P!Earnings
<1> HIDE DEF q
<1>10. q \in PriceQuote
  BY <1>2, <1>3, <1>5, <1>7, <1>9 DEF PriceQuote, q, P!CheckoutQuote
<1>11. Consistent(q)
  BY <1>4, <1>6, <1>9, <1>10 DEF Consistent
<1> QED
  BY <1>7, <1>8, <1>9, <1>11 DEF q

LEMMA RideQuoteConsistent ==
  ASSUME NEW rule \in Offers, NEW surcharge \in Nat
  PROVE  Consistent(P!RideQuote(rule, surcharge))
<1>1. PICK heavy : heavy = [rule EXCEPT !.charge = rule.charge + surcharge,
                                        !.rider = rule.rider + surcharge]
  OBVIOUS
<1>2. /\ rule.charge \in Nat /\ rule.rider \in Nat /\ rule.commission \in Nat
      /\ rule \in PricingRule
      /\ P!ChargesCover => rule.rider + rule.commission <= rule.charge
  BY OfferFacts
<1>3. /\ heavy.charge = rule.charge + surcharge /\ heavy.rider = rule.rider + surcharge
      /\ heavy.commission = rule.commission
  BY <1>1, <1>2 DEF PricingRule
<1>4. PICK fare, peak : fare = P!Surged(heavy.charge) /\ peak = P!Peak(fare)
  OBVIOUS
<1>5. heavy.charge \in Nat
  BY <1>2, <1>3
<1>6. fare \in Nat /\ fare >= heavy.charge /\ peak \in Nat
  BY <1>4, <1>5, FeesAdd
<1> DEFINE q == P!RideQuote(rule, surcharge)
<1>7. /\ q.kind = "ride" /\ q.subtotal = 0 /\ q.credit = 0 /\ q.delivery = fare /\ q.service = 0
      /\ q.peak = peak /\ q.merchant = 0 /\ q.rider = heavy.rider
      /\ q.platform = heavy.commission + 0 + peak /\ q.total = fare + peak
  BY <1>1, <1>4 DEF P!RideQuote, P!Earnings
<1> HIDE DEF q
<1>8. q \in PriceQuote
  BY <1>2, <1>3, <1>6, <1>7 DEF PriceQuote, q, P!RideQuote
<1>9. P!ChargesCover => q.merchant + q.rider + q.platform <= q.total + q.credit
  BY <1>2, <1>3, <1>6, <1>7
<1>10. Consistent(q)
  BY <1>7, <1>8, <1>9 DEF Consistent
<1> QED
  BY <1>10 DEF q


\* Marking a quote used or stale does not change its sums.
LEMMA QuoteMarked ==
  ASSUME NEW q, NEW also, Consistent(q),
         also = [q EXCEPT !.used = TRUE] \/ also = [q EXCEPT !.fresh = FALSE]
  PROVE  /\ Consistent(also)
         /\ \A o : Charged(o, q) => Charged(o, also)
         /\ also.total = q.total /\ also.kind = q.kind /\ also.rider = q.rider
         /\ also.platform = q.platform
         /\ \A subtotal : P!QuotedTotal(also, subtotal) = P!QuotedTotal(q, subtotal)
<1>1. q \in PriceQuote /\ also \in PriceQuote
  BY DEF Consistent, PriceQuote
<1>2. /\ also.kind = q.kind /\ also.subtotal = q.subtotal /\ also.credit = q.credit
      /\ also.delivery = q.delivery /\ also.service = q.service /\ also.peak = q.peak
      /\ also.merchant = q.merchant /\ also.rider = q.rider /\ also.platform = q.platform
      /\ also.total = q.total
  BY <1>1 DEF PriceQuote
<1>3. Consistent(also)
  BY <1>1, <1>2 DEF Consistent
<1>4. \A subtotal : P!QuotedTotal(also, subtotal) = P!QuotedTotal(q, subtotal)
  BY <1>2 DEF P!QuotedTotal
<1> QED
  BY <1>2, <1>3, <1>4 DEF Charged

LEMMA PricingNext ==
  ASSUME PricingInv, P!Next
  PROVE  PricingInv'
<1>0. /\ rules \in [RuleIds -> Offers \cup {None}] /\ hour \in Hours
      /\ quote # None => Consistent(quote)
      /\ order # None => Charged(order, quote)
  BY DEF PricingInv
<1>1. ASSUME NEW r \in RuleIds, NEW offer \in Offers, P!AdminSetsRule(r, offer) PROVE PricingInv'
  BY <1>0, <1>1 DEF PricingInv, P!AdminSetsRule
<1>2. ASSUME NEW h \in Hours, P!HourTurns(h) PROVE PricingInv'
  BY <1>0, <1>2 DEF PricingInv, P!HourTurns
<1>3. ASSUME NEW h \in Hours, P!HourPasses(h) PROVE PricingInv'
  <2>1. hour' = h /\ rules' = rules /\ order' = order
    BY <1>3 DEF P!HourPasses
  <2>2. CASE quote = None
    BY <1>0, <1>3, <2>1, <2>2 DEF PricingInv, P!HourPasses
  <2>3. CASE quote # None
    <3>1. quote' = [quote EXCEPT !.fresh = FALSE] /\ Consistent(quote)
      BY <1>0, <1>3, <2>3 DEF P!HourPasses
    <3>2. Consistent(quote') /\ \A o : Charged(o, quote) => Charged(o, quote')
      BY <3>1, QuoteMarked
    <3> QED
      BY <1>0, <2>1, <3>2 DEF PricingInv
  <2> QED
    BY <2>2, <2>3
<1>4. ASSUME NEW s \in Subtotals, NEW c \in Credits, NEW d \in Distances, P!QuoteCheckout(d, s, c)
      PROVE  PricingInv'
  <2>1. /\ \E rule \in P!Best("DELIVERY", d) : quote' = P!CheckoutQuote(rule, s, c)
        /\ order' = None /\ rules' = rules /\ hour' = hour
    BY <1>4 DEF P!QuoteCheckout
  <2>2. PICK rule \in Offers : quote' = P!CheckoutQuote(rule, s, c)
    BY <2>1, BestAreOffers
  <2>3. s \in Nat /\ c \in Nat
    BY PricingConstants
  <2>4. Consistent(quote')
    BY <2>2, <2>3, CheckoutQuoteConsistent
  <2> QED
    BY <1>0, <2>1, <2>4 DEF PricingInv
<1>5. ASSUME NEW x \in Surcharges, NEW d \in Distances, P!QuoteTransport(d, x) PROVE PricingInv'
  <2>1. /\ \E rule \in P!RideRules(d) : quote' = P!RideQuote(rule, x)
        /\ order' = None /\ rules' = rules /\ hour' = hour
    BY <1>5 DEF P!QuoteTransport
  <2>2. PICK rule \in Offers : quote' = P!RideQuote(rule, x)
    BY <2>1, BestAreOffers
  <2>3. x \in Nat
    BY PricingConstants
  <2>4. Consistent(quote')
    BY <2>2, <2>3, RideQuoteConsistent
  <2> QED
    BY <1>0, <2>1, <2>4 DEF PricingInv
<1>6. ASSUME NEW s \in Subtotals, P!CheckoutWithQuote(s) PROVE PricingInv'
  <2>1. PICK total : total = P!QuotedTotal(quote, s)
    OBVIOUS
  <2>2. /\ Consistent(quote) /\ quote.kind = "checkout" /\ quote \in PriceQuote
        /\ quote' = [quote EXCEPT !.used = TRUE] /\ rules' = rules /\ hour' = hour
        /\ order' = [quoted |-> TRUE, subtotal |-> s, total |-> total,
                     rider |-> quote.rider, platform |-> quote.platform]
    BY <1>0, <1>6, <2>1 DEF P!CheckoutWithQuote, P!Usable, Consistent
  <2>3. /\ Consistent(quote') /\ quote'.kind = "checkout" /\ s \in Nat
        /\ P!QuotedTotal(quote', s) = total
    BY <2>1, <2>2, QuoteMarked, PricingConstants
  <2>4. quote.rider \in Nat /\ quote.platform \in Nat
    BY <2>2 DEF PriceQuote
  <2>5. total \in Nat
    <3>1. s + quote.delivery + quote.service + quote.peak - quote.credit \in Int
      BY <2>2, <2>3 DEF PriceQuote
    <3> QED
      BY <2>1, <3>1, LargerFacts DEF P!QuotedTotal
  <2>6. Charged(order', quote')
    BY <2>2, <2>3, <2>4, <2>5 DEF Charged, P!Parts
  <2> QED
    BY <1>0, <2>2, <2>3, <2>6 DEF PricingInv
<1>7. ASSUME NEW d \in Distances, NEW s \in Subtotals, P!CheckoutFresh(d, s) PROVE PricingInv'
  <2>1. \E rule \in P!Best("DELIVERY", d) :
          /\ quote' = [P!CheckoutQuote(rule, s, 0) EXCEPT !.used = TRUE]
          /\ order' = [quoted |-> FALSE, subtotal |-> s, total |-> P!CheckoutQuote(rule, s, 0).total,
                       rider |-> P!CheckoutQuote(rule, s, 0).rider,
                       platform |-> P!CheckoutQuote(rule, s, 0).commission]
    BY <1>7 DEF P!CheckoutFresh
  <2>2. PICK rule \in Offers :
          /\ quote' = [P!CheckoutQuote(rule, s, 0) EXCEPT !.used = TRUE]
          /\ order' = [quoted |-> FALSE, subtotal |-> s, total |-> P!CheckoutQuote(rule, s, 0).total,
                       rider |-> P!CheckoutQuote(rule, s, 0).rider,
                       platform |-> P!CheckoutQuote(rule, s, 0).commission]
    BY <2>1, BestAreOffers
  <2>3. PICK q : q = P!CheckoutQuote(rule, s, 0)
    OBVIOUS
  <2>4. /\ quote' = [q EXCEPT !.used = TRUE]
        /\ order' = [quoted |-> FALSE, subtotal |-> s, total |-> q.total, rider |-> q.rider,
                     platform |-> q.commission]
    BY <2>2, <2>3
  <2>5. s \in Nat /\ 0 \in Nat
    BY PricingConstants
  <2>6. /\ Consistent(q) /\ q.subtotal = s /\ q.credit = 0 /\ q \in PriceQuote
        /\ q.rider = rule.rider /\ q.commission = rule.commission
        /\ P!ChargesCover => rule.rider + rule.commission <= q.delivery
        /\ q.total >= q.subtotal + q.delivery + q.service - q.credit
    BY <2>3, <2>5, CheckoutQuoteConsistent DEF Consistent
  <2>7. /\ q.total \in Nat /\ q.rider \in Nat /\ q.commission \in Nat /\ q.delivery \in Nat
        /\ q.service \in Nat
    BY <2>6 DEF PriceQuote
  <2>8. P!ChargesCover => q.rider + q.commission <= q.total
    BY <2>5, <2>6, <2>7
  <2>9. Consistent(quote')
    BY <2>4, <2>6, QuoteMarked
  <2>10. Charged(order', quote')
    BY <2>4, <2>7, <2>8 DEF Charged, P!Parts
  <2>11. rules' = rules /\ hour' = hour
    BY <1>7 DEF P!CheckoutFresh
  <2> QED
    BY <1>0, <2>9, <2>10, <2>11 DEF PricingInv
<1>8. ASSUME NEW d \in Distances, P!RideWithQuote(d) PROVE PricingInv'
  <2>1. /\ Consistent(quote) /\ quote.kind = "ride" /\ quote \in PriceQuote
        /\ quote' = [quote EXCEPT !.used = TRUE] /\ rules' = rules /\ hour' = hour
        /\ order' = [quoted |-> TRUE, subtotal |-> 0, total |-> quote.total,
                     rider |-> quote.rider, platform |-> quote.platform]
    BY <1>0, <1>8 DEF P!RideWithQuote, P!Usable, Consistent
  <2>2. Consistent(quote') /\ quote'.kind = "ride" /\ quote'.total = quote.total
    BY <2>1, QuoteMarked
  <2>3. quote.rider \in Nat /\ quote.platform \in Nat /\ quote.total \in Nat
    BY <2>1 DEF PriceQuote
  <2>4. Charged(order', quote')
    BY <2>1, <2>2, <2>3 DEF Charged, P!Parts
  <2> QED
    BY <1>0, <2>1, <2>2, <2>4 DEF PricingInv
<1>9. ASSUME NEW d \in Distances, NEW x \in Surcharges, P!RideFresh(d, x) PROVE PricingInv'
  <2>1. /\ \E rule \in P!RideRules(d) :
             order' = [quoted |-> FALSE, subtotal |-> 0, total |-> P!Surged(rule.charge + x),
                       rider |-> rule.rider + x, platform |-> rule.commission]
        /\ quote' = None /\ rules' = rules /\ hour' = hour
    BY <1>9 DEF P!RideFresh
  <2>2. PICK rule \in Offers :
          order' = [quoted |-> FALSE, subtotal |-> 0, total |-> P!Surged(rule.charge + x),
                    rider |-> rule.rider + x, platform |-> rule.commission]
    BY <2>1, BestAreOffers
  <2>3. /\ rule.charge \in Nat /\ rule.rider \in Nat /\ rule.commission \in Nat /\ x \in Nat
        /\ P!ChargesCover => rule.rider + rule.commission <= rule.charge
    BY OfferFacts, PricingConstants
  <2>4. rule.charge + x \in Nat
    BY <2>3
  <2>5. PICK fare : fare = P!Surged(rule.charge + x)
    OBVIOUS
  <2>6. fare \in Nat /\ fare >= rule.charge + x
    BY <2>4, <2>5, FeesAdd
  <2>7. /\ order'.quoted = FALSE /\ order'.total = fare /\ order'.rider = rule.rider + x
        /\ order'.platform = rule.commission
    BY <2>2, <2>5
  <2>8. Charged(order', quote')
    BY <2>3, <2>6, <2>7 DEF Charged, P!Parts
  <2> QED
    BY <1>0, <2>1, <2>8 DEF PricingInv
<1> QED
  BY <1>1, <1>2, <1>3, <1>4, <1>5, <1>6, <1>7, <1>8, <1>9 DEF P!Next

LEMMA PricingInit == P!Init => PricingInv
  BY DEF P!Init, PricingInv

LEMMA PricingStutters ==
  ASSUME PricingInv, UNCHANGED vars
  PROVE  PricingInv'
  BY DEF PricingInv, vars, OfPricing

-----------------------------------------------------------------------------
\* The shop.

Switch == {"on", "off", "deleted"}
MerchantStates == {"DRAFT", "ACTIVE", "SUSPENDED", "deleted"}
ItemRow == [state : {"absent", "on", "off", "deleted"}, price : Prices, extra : Extras \cup {None}]
AgeRow == [status : {"PENDING", "VERIFIED", "REJECTED"}, document : Nat \ {0}]
Line == [price : Prices, extra : Extras \cup {None}]

ShopPcs == {"idle", "write", "papers", "review", "commit", "promote", "age", "age_review",
            "check_age", "find_store", "find_items", "find_options", "place"}
ShopKinds == {None, "store", "category", "item", "create", "price", "extra", "merchant", "kyc", "age",
              "checkout"}
ShopTargets == Switch \cup MerchantStates \cup F!Sales \cup
               {None, "NOT_STARTED", "PENDING", "APPROVED", "REJECTED", "VERIFIED"}
ShopAmounts == Prices \cup Extras \cup {None}
ShopLines == {None} \cup UNION {[b -> Line] : b \in SUBSET Items}
ShopItems == Items \cup {None}
ShopNumbers == Nat \cup {None}

ShopRequest ==
  [pc : ShopPcs, kind : ShopKinds, to : ShopTargets, item : ShopItems, amount : ShopAmounts,
   row : ShopNumbers, seen : ShopNumbers, basket : SUBSET Items, lines : ShopLines]

Deciding == {"commit", "promote"}
Reviewing == {"review", "commit", "promote"}
Checking == {"check_age", "find_store", "find_items", "find_options", "place"}

\* A write is of what its kind says.
WriteShape(self, menu) ==
  \/ self.kind \in {"store", "category"} /\ self.to \in Switch /\ self.item = None
  \/ self.kind = "item" /\ self.to \in Switch /\ self.item \in Items /\ menu[self.item].state # "absent"
  \/ self.kind = "create" /\ self.to = "on" /\ self.item \in Items
  \/ self.kind = "price" /\ self.item \in Items /\ self.amount \in Prices
  \/ self.kind = "extra" /\ self.item \in Items /\ self.amount \in Extras \cup {None}
  \/ self.kind = "merchant" /\ self.to \in MerchantStates /\ self.item = None

\* A request has the shape its pc needs, and the rows it refers to are there.
ShopShape(self, menu, papers, documents) ==
  /\ self.pc = "idle" => self.kind = None
  /\ self.pc = "write" => WriteShape(self, menu)
  /\ self.pc = "papers" => self.kind = "kyc" /\ self.to \in {"NOT_STARTED", "PENDING"}
  /\ self.pc \in Reviewing =>
       self.kind = "kyc" /\ self.to \in {"APPROVED", "REJECTED"} /\ self.seen \in Nat /\ papers # 0
  /\ self.pc = "age" => self.kind = "age" /\ self.row \in DOMAIN documents \cup {None}
  /\ self.pc = "age_review" =>
       /\ self.kind = "age" /\ self.row \in DOMAIN documents /\ self.seen \in Nat
       /\ self.to \in {"VERIFIED", "REJECTED"}
  /\ self.pc \in Checking => self.kind = "checkout" /\ self.to \in F!Sales
  /\ self.pc \in {"find_options", "place"} => self.lines \in [self.basket -> Line]

\* What a checkout has found was on offer while it ran.
FoundOnOffer(self, seen) ==
  /\ self.pc \in Checking \ {"check_age"} /\ self.to = "restricted" => \E o \in seen : o.verified
  /\ self.pc \in {"find_items", "find_options", "place"} => \E o \in seen : o.store = "on"
  /\ self.pc \in {"find_options", "place"} =>
       \E o \in seen : \A i \in self.basket :
         o.items[i].state = "on" /\ o.items[i].price = self.lines[i].price
  /\ self.pc = "place" /\ self.to = "options" =>
       \E o \in seen : \A i \in self.basket : o.items[i].extra = self.lines[i].extra

OfferedFairly ==
  /\ ~unfair
  /\ \A w \in Workers : op[w].kind = "checkout" =>
       F!Offer \in offers[w] /\ FoundOnOffer(op[w], offers[w])

\* Requests that are under way together are marked.
OverlapsMarked ==
  \A v, w \in Workers :
    /\ v # w /\ op[v].kind = op[w].kind => op[v].kind \notin {"kyc", "age"} \ mixed
    /\ op[v].kind = "create" /\ op[w].kind = "category" /\ op[w].to = "deleted" => "create" \in mixed
    /\ op[v].kind = "merchant" /\ op[w].kind = "kyc" /\ op[w].pc = "promote" => "merchant" \in mixed

NothingOrphaned ==
  category = "deleted" /\ "create" \notin mixed =>
    /\ \A i \in Items : ~F!Living(items[i].state)
    /\ \A w \in Workers : op[w].kind # "create"

PapersKnown(self, papers) == self.pc \in Reviewing => self.seen = papers

PapersInOrder ==
  /\ \A v, w \in Workers : op[v].pc \in Deciding /\ op[w].pc \in Deciding => v = w
  /\ "kyc" \notin mixed =>
       /\ \A w \in Workers : PapersKnown(op[w], kyc.papers)
       /\ kyc.status = "APPROVED" => judged = kyc.papers
  /\ "merchant" \notin mixed =>
       ~revived /\ \A w \in Workers : op[w].pc = "promote" => merchant = "DRAFT"

AgeKnown(self, documents) ==
  /\ self.pc = "age" /\ self.row = None => documents = << >>
  /\ self.pc = "age_review" => self.seen = documents[self.row].document

AgesInOrder ==
  /\ DOMAIN checked = DOMAIN ages
  /\ "age" \notin mixed =>
       /\ Len(ages) <= 1
       /\ \A n \in DOMAIN ages : ages[n].status = "VERIFIED" => checked[n] = ages[n].document
       /\ \A w \in Workers : AgeKnown(op[w], ages)

ShopInv ==
  /\ F!TypeOK /\ op \in [Workers -> ShopRequest]
  /\ \A w \in Workers : ShopShape(op[w], items, kyc.papers, ages)
  /\ OverlapsMarked /\ OfferedFairly /\ NothingOrphaned /\ PapersInOrder /\ AgesInOrder

LEMMA ShopImplied ==
  ASSUME ShopInv
  PROVE  F!TypeOK /\ F!OrdersAsOffered /\ F!NoOrphanUnlessMixed /\ F!ReviewedAsSeenUnlessMixed
<1>1. F!OrdersAsOffered
  BY DEF ShopInv, OfferedFairly, F!OrdersAsOffered
<1>2. F!NoOrphanUnlessMixed
  BY DEF ShopInv, NothingOrphaned, F!NoOrphanUnlessMixed
<1>3. F!ReviewedAsSeenUnlessMixed
  BY DEF ShopInv, PapersInOrder, AgesInOrder, F!ReviewedAsSeenUnlessMixed
<1> QED
  BY <1>1, <1>2, <1>3 DEF ShopInv

LEMMA IdleShop ==
  /\ F!Idle \in ShopRequest /\ F!Idle.pc = "idle" /\ F!Idle.kind = None /\ F!Idle.to = None
  /\ F!Idle.item = None
  /\ \A menu, papers, documents : ShopShape(F!Idle, menu, papers, documents)
<1>1. F!Idle \in ShopRequest
  <2>1. /\ "idle" \in ShopPcs /\ None \in ShopKinds /\ None \in ShopTargets /\ None \in ShopItems
        /\ None \in ShopAmounts /\ None \in ShopNumbers /\ None \in ShopLines
    BY DEF ShopPcs, ShopKinds, ShopTargets, ShopItems, ShopAmounts, ShopNumbers, ShopLines
  <2> QED
    BY <2>1 DEF F!Idle, ShopRequest
<1>2. F!Idle.pc = "idle" /\ F!Idle.kind = None /\ F!Idle.to = None /\ F!Idle.item = None
  BY DEF F!Idle
<1> QED
  BY <1>1, <1>2 DEF ShopShape, Reviewing, Checking

\* What w's going on as self leaves alone, and what is marked.
LEMMA ShopFacts ==
  ASSUME ShopInv, F!MCNext, NEW w \in Workers, NEW self \in ShopRequest,
         op' = [op EXCEPT ![w] = self]
  PROVE  /\ op' \in [Workers -> ShopRequest] /\ op'[w] = self
         /\ \A v \in Workers \ {w} : op'[v] = op[v]
         /\ mixed \subseteq mixed' /\ OverlapsMarked'
<1>1. mixed' = mixed \cup F!Overlaps
  BY DEF F!MCNext
<1>2. op \in [Workers -> ShopRequest]
  BY DEF ShopInv
<1>3. OverlapsMarked'
  BY <1>1 DEF OverlapsMarked, F!Overlaps, F!InFlight
<1> QED
  BY <1>1, <1>2, <1>3

LEMMA ShapesKept ==
  ASSUME ShopInv, F!MCNext, NEW w \in Workers, NEW self \in ShopRequest,
         op' = [op EXCEPT ![w] = self],
         ShopShape(self, items', kyc'.papers, ages'),
         \A i \in Items : items[i].state # "absent" => items'[i].state # "absent",
         kyc.papers # 0 => kyc'.papers # 0, DOMAIN ages \subseteq DOMAIN ages'
  PROVE  \A v \in Workers : ShopShape(op'[v], items', kyc'.papers, ages')
<1>1. op'[w] = self /\ \A v \in Workers \ {w} : op'[v] = op[v]
  BY ShopFacts
<1>2. ASSUME NEW v \in Workers PROVE ShopShape(op[v], items', kyc'.papers, ages')
  <2>1. ShopShape(op[v], items, kyc.papers, ages)
    BY DEF ShopInv
  <2>2. WriteShape(op[v], items) => WriteShape(op[v], items')
    BY DEF WriteShape
  <2> QED
    BY <2>1, <2>2 DEF ShopShape
<1> QED
  BY <1>1, <1>2

\* The offers a checkout has seen are not forgotten while it runs.
LEMMA OffersGrow ==
  ASSUME ShopInv, F!MCNext, NEW v \in Workers, op'[v].kind = "checkout"
  PROVE  /\ F!Offer' \in offers'[v]
         /\ op[v].kind = "checkout" => offers[v] \subseteq offers'[v]
<1>1. offers'[v] = (IF op[v].kind = "checkout" THEN offers[v] ELSE {}) \cup {F!Offer'}
  BY DEF F!MCNext
<1> QED
  BY <1>1

LEMMA FoundStill ==
  ASSUME NEW self, NEW seen, NEW more, seen \subseteq more, FoundOnOffer(self, seen)
  PROVE  FoundOnOffer(self, more)
  BY DEF FoundOnOffer

LEMMA FairnessKept ==
  ASSUME ShopInv, F!MCNext, NEW w \in Workers, NEW self \in ShopRequest,
         op' = [op EXCEPT ![w] = self],
         self.kind = "checkout" => FoundOnOffer(self, offers'[w])
  PROVE  OfferedFairly'
<1>1. op'[w] = self /\ \A v \in Workers \ {w} : op'[v] = op[v]
  BY ShopFacts
<1>2. ~unfair'
  <2>1. ASSUME NEW v \in Workers, F!Places(v) PROVE F!Fair(v)
    <3>1. op[v].pc = "place"
      BY <2>1 DEF F!Places, F!At
    <3>2. ShopShape(op[v], items, kyc.papers, ages)
      BY DEF ShopInv
    <3>3. op[v].kind = "checkout"
      BY <3>1, <3>2 DEF ShopShape, Checking
    <3>4. FoundOnOffer(op[v], offers[v])
      BY <3>3 DEF ShopInv, OfferedFairly
    <3> QED
      BY <3>1, <3>4 DEF FoundOnOffer, F!Fair, Checking
  <2>2. unfair' = (unfair \/ \E v \in Workers : F!Places(v) /\ ~F!Fair(v))
    BY DEF F!MCNext
  <2>3. ~unfair
    BY DEF ShopInv, OfferedFairly
  <2> QED
    BY <2>1, <2>2, <2>3
<1>3. ASSUME NEW v \in Workers, op'[v].kind = "checkout"
      PROVE  F!Offer' \in offers'[v] /\ FoundOnOffer(op'[v], offers'[v])
  <2>1. F!Offer' \in offers'[v]
    BY <1>3, OffersGrow
  <2>2. CASE v = w
    BY <1>1, <1>3, <2>1, <2>2
  <2>3. CASE v # w
    <3>1. op'[v] = op[v] /\ offers[v] \subseteq offers'[v]
      BY <1>1, <1>3, <2>3, OffersGrow
    <3>2. FoundOnOffer(op[v], offers[v])
      BY <1>3, <3>1 DEF ShopInv, OfferedFairly
    <3> QED
      BY <2>1, <3>1, <3>2, FoundStill
  <2> QED
    BY <2>2, <2>3
<1> QED
  BY <1>2, <1>3 DEF OfferedFairly

LEMMA OrphansKept ==
  ASSUME ShopInv, F!MCNext, NEW w \in Workers, NEW self \in ShopRequest,
         op' = [op EXCEPT ![w] = self], UNCHANGED <<category, items>>,
         self.kind = "create" => F!Living(category)
  PROVE  NothingOrphaned'
<1>1. op'[w] = self /\ (\A v \in Workers \ {w} : op'[v] = op[v]) /\ mixed \subseteq mixed'
  BY ShopFacts
<1> QED
  BY <1>1 DEF ShopInv, NothingOrphaned, F!Living

\* Nothing is approved but by a request that ends.
LEMMA NoApproval ==
  ASSUME ShopInv, F!MCNext, NEW w \in Workers, NEW self \in ShopRequest,
         op' = [op EXCEPT ![w] = self], op[w].pc \notin Deciding
  PROVE  judged' = judged /\ (~revived => ~revived')
<1>1. \A v \in Workers \ {w} : op'[v] = op[v]
  BY ShopFacts
<1>2. \A v \in Workers : ~F!Approves(v)
  BY <1>1, IdleShop DEF F!Approves, F!At, Deciding
<1> QED
  BY <1>1, <1>2 DEF F!MCNext

LEMMA PapersKept ==
  ASSUME ShopInv, F!MCNext, NEW w \in Workers, NEW self \in ShopRequest,
         op' = [op EXCEPT ![w] = self], op[w].pc \notin Deciding,
         UNCHANGED kyc, merchant' = merchant \/ op[w].kind = "merchant",
         self.pc \in Deciding => \A v \in Workers : op[v].pc \notin Deciding,
         "kyc" \notin mixed' => PapersKnown(self, kyc.papers),
         self.pc = "promote" => merchant' = "DRAFT"
  PROVE  PapersInOrder'
<1>1. op'[w] = self /\ (\A v \in Workers \ {w} : op'[v] = op[v]) /\ mixed \subseteq mixed'
  BY ShopFacts
<1>2. judged' = judged /\ (~revived => ~revived')
  BY NoApproval
<1>3. \A u, v \in Workers : op'[u].pc \in Deciding /\ op'[v].pc \in Deciding => u = v
  BY <1>1 DEF ShopInv, PapersInOrder
<1>4. ASSUME "kyc" \notin mixed'
      PROVE  /\ \A v \in Workers : PapersKnown(op'[v], kyc'.papers)
             /\ kyc'.status = "APPROVED" => judged' = kyc'.papers
  BY <1>1, <1>2, <1>4 DEF ShopInv, PapersInOrder
<1>5. ASSUME "merchant" \notin mixed', NEW v \in Workers, op'[v].pc = "promote"
      PROVE  merchant' = "DRAFT"
  <2>1. CASE v = w
    BY <1>1, <1>5, <2>1
  <2>2. CASE v # w
    <3>1. op[v].pc = "promote" /\ "merchant" \notin mixed
      BY <1>1, <1>5, <2>2
    <3>2. op[v].kind = "kyc"
      BY <3>1 DEF ShopInv, ShopShape, Reviewing
    <3>3. op[w].kind # "merchant"
      BY <3>1, <3>2 DEF ShopInv, OverlapsMarked
    <3> QED
      BY <3>1, <3>3 DEF ShopInv, PapersInOrder
  <2> QED
    BY <2>1, <2>2
<1>6. "merchant" \notin mixed' => ~revived'
  BY <1>1, <1>2 DEF ShopInv, PapersInOrder
<1> QED
  BY <1>3, <1>4, <1>5, <1>6 DEF PapersInOrder

\* No verification ends, so none is checked.
LEMMA NoneChecked ==
  ASSUME ShopInv, F!MCNext, NEW w \in Workers, NEW self \in ShopRequest,
         op' = [op EXCEPT ![w] = self], op[w].pc # "age_review"
  PROVE  checked' = [n \in DOMAIN ages' |-> IF n \in DOMAIN checked THEN checked[n] ELSE 0]
<1>1. \A v \in Workers \ {w} : op'[v] = op[v]
  BY ShopFacts
<1>2. \A n : ~\E v \in Workers : F!At(v, "age_review") /\ op[v].row = n /\ op'[v] = F!Idle
  BY <1>1, IdleShop DEF F!At
<1>3. checked' = [n \in DOMAIN ages' |->
        IF \E v \in Workers : F!At(v, "age_review") /\ op[v].row = n /\ op'[v] = F!Idle
        THEN op[CHOOSE v \in Workers : F!At(v, "age_review") /\ op[v].row = n /\ op'[v] = F!Idle].seen
        ELSE IF n \in DOMAIN checked THEN checked[n] ELSE 0]
  BY DEF F!MCNext
<1> QED
  BY <1>2, <1>3

LEMMA AgesKept ==
  ASSUME ShopInv, F!MCNext, NEW w \in Workers, NEW self \in ShopRequest,
         op' = [op EXCEPT ![w] = self], op[w].pc # "age_review", UNCHANGED ages,
         "age" \notin mixed' => AgeKnown(self, ages)
  PROVE  AgesInOrder'
<1>1. op'[w] = self /\ (\A v \in Workers \ {w} : op'[v] = op[v]) /\ mixed \subseteq mixed'
  BY ShopFacts
<1>2. DOMAIN checked = DOMAIN ages
  BY DEF ShopInv, AgesInOrder
<1>3. checked' = [n \in DOMAIN ages |-> checked[n]]
  BY <1>2, NoneChecked
<1>4. DOMAIN checked' = DOMAIN ages' /\ \A n \in DOMAIN ages : checked'[n] = checked[n]
  BY <1>3
<1>5. ASSUME "age" \notin mixed'
      PROVE  /\ Len(ages') <= 1
             /\ \A n \in DOMAIN ages' : ages'[n].status = "VERIFIED" => checked'[n] = ages'[n].document
             /\ \A v \in Workers : AgeKnown(op'[v], ages')
  BY <1>1, <1>4, <1>5 DEF ShopInv, AgesInOrder
<1> QED
  BY <1>4, <1>5 DEF AgesInOrder

\* A request goes on, and the rows stay.
LEMMA ShopRests ==
  ASSUME ShopInv, F!MCNext, NEW w \in Workers, NEW self \in ShopRequest, F!Become(w, self),
         UNCHANGED F!rows, placed' \in Nat, left' \in 0..MaxOps,
         op[w].pc \notin Deciding \cup {"age_review"},
         ShopShape(self, items, kyc.papers, ages),
         self.kind = "checkout" => FoundOnOffer(self, offers'[w]),
         self.kind = "create" => F!Living(category),
         self.pc \in Deciding => \A v \in Workers : op[v].pc \notin Deciding,
         "kyc" \notin mixed' => PapersKnown(self, kyc.papers),
         self.pc = "promote" => merchant = "DRAFT",
         "age" \notin mixed' => AgeKnown(self, ages)
  PROVE  ShopInv'
<1>1. /\ op' = [op EXCEPT ![w] = self]
      /\ UNCHANGED <<merchant, kyc, store, category, items, ages>>
  BY DEF F!Become, F!rows
<1>2. op' \in [Workers -> ShopRequest] /\ OverlapsMarked'
  BY <1>1, ShopFacts
<1>3. F!TypeOK'
  BY <1>1 DEF ShopInv, F!TypeOK
<1>4. \A v \in Workers : ShopShape(op'[v], items', kyc'.papers, ages')
  BY <1>1, ShapesKept
<1>5. OfferedFairly'
  BY <1>1, FairnessKept
<1>6. NothingOrphaned'
  BY <1>1, OrphansKept
<1>7. PapersInOrder'
  BY <1>1, PapersKept
<1>8. AgesInOrder'
  BY <1>1, AgesKept
<1> QED
  BY <1>2, <1>3, <1>4, <1>5, <1>6, <1>7, <1>8 DEF ShopInv

LEMMA ShopCounts ==
  ASSUME ShopInv
  PROVE  /\ placed \in Nat /\ left \in 0..MaxOps
         /\ left > 0 => left - 1 \in 0..MaxOps
         /\ \A w \in Workers : op[w] \in ShopRequest /\ ShopShape(op[w], items, kyc.papers, ages)
<1>1. placed \in Nat /\ left \in 0..MaxOps
  BY DEF ShopInv, F!TypeOK
<1>2. left > 0 => left - 1 \in 0..MaxOps
  BY <1>1, ShopConstants
<1>3. \A w \in Workers : op[w] \in ShopRequest /\ ShopShape(op[w], items, kyc.papers, ages)
  BY DEF ShopInv
<1> QED
  BY <1>1, <1>2, <1>3

\* A request arrives.
LEMMA ShopAccepted ==
  ASSUME ShopInv, F!MCNext, NEW w \in Workers, NEW self \in ShopRequest, F!Accept(w, self),
         ShopShape(self, items, kyc.papers, ages),
         self.kind = "checkout" => self.pc = "check_age" \/ (self.pc = "find_store" /\ self.to # "restricted"),
         self.kind = "create" => F!Living(category),
         self.pc \notin Deciding,
         "kyc" \notin mixed' => PapersKnown(self, kyc.papers),
         "age" \notin mixed' => AgeKnown(self, ages)
  PROVE  ShopInv'
<1>1. /\ F!Become(w, self) /\ op[w].pc = "idle" /\ left' \in 0..MaxOps
      /\ UNCHANGED F!rows /\ placed' \in Nat
  BY ShopCounts DEF F!Accept, F!At
<1>2. self.kind = "checkout" => FoundOnOffer(self, offers'[w])
  BY DEF FoundOnOffer, Checking
<1>3. self.pc # "promote"
  BY DEF Deciding
<1>4. op[w].pc \notin Deciding \cup {"age_review"}
  BY <1>1 DEF Deciding
<1> QED
  BY <1>1, <1>2, <1>3, <1>4, ShopRests

\* An administrator's request to write a row, found not deleted.
LEMMA WritingAccepted ==
  ASSUME ShopInv, F!MCNext, NEW w \in Workers, NEW self \in ShopRequest, F!Accept(w, self),
         self.pc = "write", WriteShape(self, items), self.kind = "create" => F!Living(category)
  PROVE  ShopInv'
<1>1. ShopShape(self, items, kyc.papers, ages)
  BY DEF ShopShape, Reviewing, Checking
<1>2. self.pc \notin Deciding /\ self.kind # "checkout"
  BY DEF Deciding, WriteShape
<1>3. PapersKnown(self, kyc.papers) /\ AgeKnown(self, ages)
  BY DEF PapersKnown, AgeKnown, Reviewing
<1> QED
  BY <1>1, <1>2, <1>3, ShopAccepted

LEMMA WritingShape ==
  ASSUME NEW kind \in ShopKinds, NEW to \in ShopTargets
  PROVE  /\ F!Writing(kind, to) \in ShopRequest /\ F!Writing(kind, to).pc = "write"
         /\ F!Writing(kind, to).kind = kind /\ F!Writing(kind, to).to = to
         /\ F!Writing(kind, to).item = None /\ F!Writing(kind, to).basket = {}
         /\ F!Writing(kind, to).row = None /\ F!Writing(kind, to).lines = None
<1>1. F!Idle \in ShopRequest
  BY IdleShop
<1>2. F!Idle.item = None /\ F!Idle.basket = {} /\ F!Idle.row = None /\ F!Idle.lines = None
  BY DEF F!Idle
<1>3. "write" \in ShopPcs
  BY DEF ShopPcs
<1> QED
  BY <1>1, <1>2, <1>3 DEF F!Writing, ShopRequest

\* A request about an item.
LEMMA ItemWriting ==
  ASSUME NEW kind \in ShopKinds, NEW to \in ShopTargets, NEW i \in Items, NEW amount \in ShopAmounts
  PROVE  /\ [F!Writing(kind, to) EXCEPT !.item = i, !.amount = amount] \in ShopRequest
         /\ [F!Writing(kind, to) EXCEPT !.item = i] \in ShopRequest
<1>1. PICK base : base = F!Writing(kind, to)
  OBVIOUS
<1>2. base \in ShopRequest /\ i \in ShopItems
  BY <1>1, WritingShape DEF ShopItems
<1> QED
  BY <1>1, <1>2 DEF ShopRequest

LEMMA WritingsStart ==
  ASSUME ShopInv, F!MCNext, NEW w \in Workers,
         \/ \E to \in Switch : F!StoreStart(w, to) \/ F!CategoryStart(w, to)
         \/ \E to \in MerchantStates : F!MerchantStart(w, to)
  PROVE  ShopInv'
<1>1. PICK kind \in {"store", "category", "merchant"}, to \in Switch \cup MerchantStates :
        /\ F!Accept(w, F!Writing(kind, to))
        /\ kind \in {"store", "category"} => to \in Switch
        /\ kind = "merchant" => to \in MerchantStates
  BY DEF F!StoreStart, F!CategoryStart, F!MerchantStart
<1>2. PICK self : self = F!Writing(kind, to)
  OBVIOUS
<1>3. self \in ShopRequest /\ self.pc = "write" /\ self.kind = kind /\ self.to = to /\ self.item = None
  <2>1. kind \in ShopKinds /\ to \in ShopTargets
    BY DEF ShopKinds, ShopTargets
  <2> QED
    BY <1>2, <2>1, WritingShape
<1>4. WriteShape(self, items) /\ self.kind # "create"
  BY <1>1, <1>3 DEF WriteShape
<1> QED
  BY <1>1, <1>2, <1>3, <1>4, WritingAccepted

LEMMA ItemWritingsStart ==
  ASSUME ShopInv, F!MCNext, NEW w \in Workers, NEW i \in Items,
         \/ \E to \in Switch : F!ItemStart(w, i, to)
         \/ F!CreateItemStart(w, i)
         \/ \E price \in Prices : F!PriceStart(w, i, price)
         \/ \E extra \in Extras \cup {None} : F!OptionStart(w, i, extra)
  PROVE  ShopInv'
<1>1. ASSUME NEW to \in Switch, F!ItemStart(w, i, to) PROVE ShopInv'
  <2> DEFINE self == [F!Writing("item", to) EXCEPT !.item = i]
  <2>1. self \in ShopRequest /\ self.pc = "write" /\ self.kind = "item" /\ self.to = to /\ self.item = i
    <3>1. "item" \in ShopKinds /\ to \in ShopTargets
      BY DEF ShopKinds, ShopTargets, ShopAmounts, Switch
    <3>2. self \in ShopRequest
      BY <3>1, ItemWriting, WritingShape DEF ShopAmounts
    <3>3. F!Writing("item", to) \in ShopRequest /\ F!Writing("item", to).pc = "write"
          /\ F!Writing("item", to).kind = "item" /\ F!Writing("item", to).to = to
      BY <3>1, WritingShape
    <3> QED
      BY <3>2, <3>3 DEF ShopRequest
  <2>2. F!Accept(w, self) /\ items[i].state # "absent"
    BY <1>1 DEF F!ItemStart, F!Living
  <2> HIDE DEF self
  <2>3. WriteShape(self, items)
    BY <2>1, <2>2 DEF WriteShape
  <2> QED
    BY <2>1, <2>2, <2>3, WritingAccepted
<1>2. CASE F!CreateItemStart(w, i)
  <2> DEFINE self == [F!Writing("create", "on") EXCEPT !.item = i]
  <2>1. self \in ShopRequest /\ self.pc = "write" /\ self.kind = "create" /\ self.to = "on" /\ self.item = i
    <3>1. "create" \in ShopKinds /\ "on" \in ShopTargets
      BY DEF ShopKinds, ShopTargets, ShopAmounts, Switch
    <3>2. self \in ShopRequest
      BY <3>1, ItemWriting, WritingShape DEF ShopAmounts
    <3>3. F!Writing("create", "on") \in ShopRequest /\ F!Writing("create", "on").pc = "write"
          /\ F!Writing("create", "on").kind = "create" /\ F!Writing("create", "on").to = "on"
      BY <3>1, WritingShape
    <3> QED
      BY <3>2, <3>3 DEF ShopRequest
  <2>2. F!Accept(w, self) /\ F!Living(category)
    BY <1>2 DEF F!CreateItemStart
  <2> HIDE DEF self
  <2>3. WriteShape(self, items)
    BY <2>1 DEF WriteShape
  <2> QED
    BY <2>1, <2>2, <2>3, WritingAccepted
<1>3. ASSUME NEW price \in Prices, F!PriceStart(w, i, price) PROVE ShopInv'
  <2> DEFINE self == [F!Writing("price", None) EXCEPT !.item = i, !.amount = price]
  <2>1. self \in ShopRequest /\ self.pc = "write" /\ self.kind = "price" /\ self.item = i /\ self.amount = price
    <3>1. "price" \in ShopKinds /\ None \in ShopTargets /\ price \in ShopAmounts
      BY DEF ShopKinds, ShopTargets, ShopAmounts, Switch
    <3>2. self \in ShopRequest
      BY <3>1, ItemWriting, WritingShape DEF ShopAmounts
    <3>3. F!Writing("price", None) \in ShopRequest /\ F!Writing("price", None).pc = "write"
          /\ F!Writing("price", None).kind = "price" /\ F!Writing("price", None).to = None
      BY <3>1, WritingShape
    <3> QED
      BY <3>2, <3>3 DEF ShopRequest
  <2>2. F!Accept(w, self)
    BY <1>3 DEF F!PriceStart
  <2> HIDE DEF self
  <2>3. WriteShape(self, items)
    BY <2>1 DEF WriteShape
  <2> QED
    BY <2>1, <2>2, <2>3, WritingAccepted
<1>4. ASSUME NEW extra \in Extras \cup {None}, F!OptionStart(w, i, extra) PROVE ShopInv'
  <2> DEFINE self == [F!Writing("extra", None) EXCEPT !.item = i, !.amount = extra]
  <2>1. self \in ShopRequest /\ self.pc = "write" /\ self.kind = "extra" /\ self.item = i /\ self.amount = extra
    <3>1. "extra" \in ShopKinds /\ None \in ShopTargets /\ extra \in ShopAmounts
      BY DEF ShopKinds, ShopTargets, ShopAmounts, Switch
    <3>2. self \in ShopRequest
      BY <3>1, ItemWriting, WritingShape DEF ShopAmounts
    <3>3. F!Writing("extra", None) \in ShopRequest /\ F!Writing("extra", None).pc = "write"
          /\ F!Writing("extra", None).kind = "extra" /\ F!Writing("extra", None).to = None
      BY <3>1, WritingShape
    <3> QED
      BY <3>2, <3>3 DEF ShopRequest
  <2>2. F!Accept(w, self)
    BY <1>4 DEF F!OptionStart
  <2> HIDE DEF self
  <2>3. WriteShape(self, items)
    BY <2>1 DEF WriteShape
  <2> QED
    BY <2>1, <2>2, <2>3, WritingAccepted
<1> QED
  BY <1>1, <1>2, <1>3, <1>4

LEMMA AgesFacts ==
  ASSUME ShopInv
  PROVE  /\ ages \in Seq(AgeRow) /\ Len(ages) \in Nat /\ DOMAIN ages = 1..Len(ages)
         /\ \A n \in DOMAIN ages : ages[n] \in AgeRow /\ n \in Nat /\ ages[n].document \in Nat
         /\ ages # << >> => Len(ages) \in DOMAIN ages
         /\ kyc.papers \in Nat /\ (kyc.status = "PENDING" => kyc.papers # 0)
<1>1. ages \in Seq(AgeRow)
  BY DEF ShopInv, F!TypeOK, AgeRow
<1>2. Len(ages) \in Nat /\ DOMAIN ages = 1..Len(ages) /\ ages \in [1..Len(ages) -> AgeRow]
  BY <1>1, LenProperties
<1>3. \A n \in DOMAIN ages : ages[n] \in AgeRow /\ n \in Nat /\ ages[n].document \in Nat
  BY <1>2 DEF AgeRow
<1>4. ages # << >> => Len(ages) \in Nat \ {0}
  BY <1>1, EmptySeq
<1>5. kyc.papers \in Nat /\ (kyc.status = "PENDING" => kyc.papers # 0)
  BY DEF ShopInv, F!TypeOK
<1> QED
  BY <1>1, <1>2, <1>3, <1>4, <1>5

LEMMA PapersArrive ==
  ASSUME ShopInv, F!MCNext, NEW w \in Workers,
         \/ \E to \in {"NOT_STARTED", "PENDING"} : F!PapersStart(w, to)
         \/ \E decision \in {"APPROVED", "REJECTED"} : F!ReviewStart(w, decision)
  PROVE  ShopInv'
<1>1. ASSUME NEW to \in {"NOT_STARTED", "PENDING"}, F!PapersStart(w, to) PROVE ShopInv'
  <2>1. "kyc" \in ShopKinds /\ to \in ShopTargets /\ "papers" \in ShopPcs
    BY DEF ShopKinds, ShopTargets, ShopPcs
  <2>2. PICK base \in ShopRequest : base = F!Writing("kyc", to) /\ base.kind = "kyc" /\ base.to = to
    BY <2>1, WritingShape
  <2> DEFINE self == [base EXCEPT !.pc = "papers"]
  <2>3. self \in ShopRequest /\ self.pc = "papers" /\ self.kind = "kyc" /\ self.to = to
    BY <2>1, <2>2 DEF ShopRequest
  <2>4. F!Accept(w, self)
    BY <1>1, <2>2 DEF F!PapersStart
  <2> HIDE DEF self
  <2>5. /\ ShopShape(self, items, kyc.papers, ages) /\ self.kind \notin {"checkout", "create"}
        /\ self.pc \notin Deciding /\ PapersKnown(self, kyc.papers) /\ AgeKnown(self, ages)
    BY <2>3 DEF ShopShape, Reviewing, Checking, Deciding, PapersKnown, AgeKnown
  <2> QED
    BY <2>3, <2>4, <2>5, ShopAccepted
<1>2. ASSUME NEW to \in {"APPROVED", "REJECTED"}, F!ReviewStart(w, to) PROVE ShopInv'
  <2>1. /\ "kyc" \in ShopKinds /\ to \in ShopTargets /\ "review" \in ShopPcs
        /\ kyc.papers \in ShopNumbers /\ kyc.papers \in Nat /\ kyc.papers # 0
    BY <1>2, AgesFacts DEF ShopKinds, ShopTargets, ShopPcs, ShopNumbers, F!ReviewStart, F!Reviewable
  <2>2. PICK base \in ShopRequest : base = F!Writing("kyc", to) /\ base.kind = "kyc" /\ base.to = to
    BY <2>1, WritingShape
  <2> DEFINE self == [base EXCEPT !.pc = "review", !.seen = kyc.papers]
  <2>3. /\ self \in ShopRequest /\ self.pc = "review" /\ self.kind = "kyc" /\ self.to = to
        /\ self.seen = kyc.papers
    BY <2>1, <2>2 DEF ShopRequest
  <2>4. F!Accept(w, self)
    BY <1>2, <2>2 DEF F!ReviewStart
  <2> HIDE DEF self
  <2>5. /\ ShopShape(self, items, kyc.papers, ages) /\ self.kind \notin {"checkout", "create"}
        /\ self.pc \notin Deciding /\ PapersKnown(self, kyc.papers) /\ AgeKnown(self, ages)
    BY <2>1, <2>3 DEF ShopShape, Reviewing, Checking, Deciding, PapersKnown, AgeKnown
  <2> QED
    BY <2>3, <2>4, <2>5, ShopAccepted
<1> QED
  BY <1>1, <1>2

LEMMA AgeRequestsArrive ==
  ASSUME ShopInv, F!MCNext, NEW w \in Workers,
         \/ F!AgeStart(w)
         \/ \E n \in DOMAIN ages, decision \in {"VERIFIED", "REJECTED"} : F!AgeReviewStart(w, n, decision)
  PROVE  ShopInv'
<1>1. CASE F!AgeStart(w)
  <2>1. PICK latest : /\ latest = F!Latest /\ latest \in ShopNumbers /\ latest \in DOMAIN ages \cup {None}
                      /\ latest = None => ages = << >>
    <3>1. CASE ages = << >>
      BY <3>1 DEF F!Latest, ShopNumbers
    <3>2. CASE ages # << >>
      BY <3>2, AgesFacts, ShopConstants DEF F!Latest, ShopNumbers
    <3> QED
      BY <3>1, <3>2
  <2>2. "age" \in ShopKinds /\ "PENDING" \in ShopTargets /\ "age" \in ShopPcs
    BY DEF ShopKinds, ShopTargets, ShopPcs
  <2>3. PICK base \in ShopRequest : base = F!Writing("age", "PENDING") /\ base.kind = "age"
    BY <2>2, WritingShape
  <2> DEFINE self == [base EXCEPT !.pc = "age", !.row = latest]
  <2>4. self \in ShopRequest /\ self.pc = "age" /\ self.kind = "age" /\ self.row = latest
    BY <2>1, <2>2, <2>3 DEF ShopRequest
  <2>5. F!Accept(w, self)
    BY <1>1, <2>1, <2>3 DEF F!AgeStart
  <2> HIDE DEF self
  <2>6. /\ ShopShape(self, items, kyc.papers, ages) /\ self.kind \notin {"checkout", "create"}
        /\ self.pc \notin Deciding /\ PapersKnown(self, kyc.papers) /\ AgeKnown(self, ages)
    BY <2>1, <2>4 DEF ShopShape, Reviewing, Checking, Deciding, PapersKnown, AgeKnown
  <2> QED
    BY <2>4, <2>5, <2>6, ShopAccepted
<1>2. ASSUME NEW n \in DOMAIN ages, NEW to \in {"VERIFIED", "REJECTED"}, F!AgeReviewStart(w, n, to)
      PROVE  ShopInv'
  <2>1. PICK document : document = ages[n].document
    OBVIOUS
  <2>2. /\ "age" \in ShopKinds /\ to \in ShopTargets /\ "age_review" \in ShopPcs
        /\ n \in ShopNumbers /\ document \in ShopNumbers /\ document \in Nat
    BY <2>1, AgesFacts DEF ShopKinds, ShopTargets, ShopPcs, ShopNumbers
  <2>3. PICK base \in ShopRequest : base = F!Writing("age", to) /\ base.kind = "age" /\ base.to = to
    BY <2>2, WritingShape
  <2> DEFINE self == [base EXCEPT !.pc = "age_review", !.row = n, !.seen = document]
  <2>4. /\ self \in ShopRequest /\ self.pc = "age_review" /\ self.kind = "age" /\ self.row = n
        /\ self.to = to /\ self.seen = document
    BY <2>2, <2>3 DEF ShopRequest
  <2>5. F!Accept(w, self)
    BY <1>2, <2>1, <2>3 DEF F!AgeReviewStart
  <2> HIDE DEF self
  <2>6. /\ ShopShape(self, items, kyc.papers, ages) /\ self.kind \notin {"checkout", "create"}
        /\ self.pc \notin Deciding /\ PapersKnown(self, kyc.papers) /\ AgeKnown(self, ages)
    BY <2>1, <2>2, <2>4 DEF ShopShape, Reviewing, Checking, Deciding, PapersKnown, AgeKnown
  <2> QED
    BY <2>4, <2>5, <2>6, ShopAccepted
<1> QED
  BY <1>1, <1>2

LEMMA CheckoutsArrive ==
  ASSUME ShopInv, F!MCNext, NEW w \in Workers, NEW basket \in SUBSET Items, NEW sale \in F!Sales,
         F!CheckoutStart(w, basket, sale)
  PROVE  ShopInv'
<1>1. PICK pc : pc = IF sale = "restricted" THEN "check_age" ELSE "find_store"
  OBVIOUS
<1>2. "checkout" \in ShopKinds /\ sale \in ShopTargets /\ pc \in ShopPcs
  BY <1>1 DEF ShopKinds, ShopTargets, ShopPcs
<1>3. PICK base \in ShopRequest : base = F!Writing("checkout", sale) /\ base.kind = "checkout" /\ base.to = sale
  BY <1>2, WritingShape
<1> DEFINE self == [base EXCEPT !.basket = basket, !.pc = pc]
<1>4. self \in ShopRequest /\ self.pc = pc /\ self.kind = "checkout" /\ self.to = sale
  BY <1>2, <1>3 DEF ShopRequest
<1>5. F!Accept(w, self)
  BY <1>1, <1>3 DEF F!CheckoutStart
<1> HIDE DEF self
<1>6. /\ ShopShape(self, items, kyc.papers, ages) /\ self.kind # "create"
      /\ self.pc \notin Deciding /\ PapersKnown(self, kyc.papers) /\ AgeKnown(self, ages)
  BY <1>1, <1>4 DEF ShopShape, Reviewing, Checking, Deciding, PapersKnown, AgeKnown
<1>7. self.pc = "check_age" \/ (self.pc = "find_store" /\ self.to # "restricted")
  BY <1>1, <1>4
<1> QED
  BY <1>4, <1>5, <1>6, <1>7, ShopAccepted

\* A checkout goes on, or ends.
LEMMA CheckoutGoes ==
  ASSUME ShopInv, F!MCNext, NEW w \in Workers, NEW self \in ShopRequest, F!Become(w, self),
         op[w].pc \in Checking, UNCHANGED F!rows, placed' \in Nat, left' = left,
         \/ self = F!Idle
         \/ /\ self.pc \in Checking /\ self.kind = "checkout" /\ self.to \in F!Sales
            /\ self.pc \in {"find_options", "place"} => self.lines \in [self.basket -> Line]
            /\ FoundOnOffer(self, offers[w])
  PROVE  ShopInv'
<1>1. /\ op[w].kind = "checkout" /\ op[w].pc \notin Deciding \cup {"age_review"} /\ left' \in 0..MaxOps
  BY ShopCounts DEF ShopShape, Checking, Deciding
<1>2. op'[w] = self
  BY ShopFacts DEF F!Become
<1>3. CASE self = F!Idle
  <2>1. /\ ShopShape(self, items, kyc.papers, ages) /\ self.kind \notin {"checkout", "create"}
        /\ self.pc \notin Deciding /\ self.pc # "promote"
        /\ PapersKnown(self, kyc.papers) /\ AgeKnown(self, ages)
    BY <1>3, IdleShop, ShopConstants DEF PapersKnown, AgeKnown, Reviewing, Deciding
  <2> QED
    BY <1>1, <2>1, ShopRests
<1>4. CASE /\ self.pc \in Checking /\ self.kind = "checkout" /\ self.to \in F!Sales
           /\ self.pc \in {"find_options", "place"} => self.lines \in [self.basket -> Line]
           /\ FoundOnOffer(self, offers[w])
  <2>1. /\ ShopShape(self, items, kyc.papers, ages) /\ self.kind # "create"
        /\ self.pc \notin Deciding /\ self.pc # "promote"
        /\ PapersKnown(self, kyc.papers) /\ AgeKnown(self, ages)
    BY <1>4 DEF ShopShape, PapersKnown, AgeKnown, Reviewing, Deciding, Checking
  <2>2. offers[w] \subseteq offers'[w]
    BY <1>1, <1>2, <1>4, OffersGrow
  <2>3. FoundOnOffer(self, offers'[w])
    BY <1>4, <2>2, FoundStill
  <2> QED
    BY <1>1, <2>1, <2>3, ShopRests
<1> QED
  BY <1>3, <1>4

LEMMA CheckoutChecks ==
  ASSUME ShopInv, F!MCNext, NEW w \in Workers,
         F!CheckAge(w) \/ F!FindStore(w) \/ F!FindItems(w) \/ F!FindOptions(w) \/ F!Place(w)
  PROVE  ShopInv'
<1>1. PICK was \in ShopRequest : was = op[w] /\ ShopShape(was, items, kyc.papers, ages)
  BY ShopCounts
<1>2. was.pc \in Checking /\ was.kind = "checkout" /\ was.to \in F!Sales /\ was.basket \subseteq Items
  BY <1>1 DEF F!CheckAge, F!FindStore, F!FindItems, F!FindOptions, F!Place, F!At, Checking, ShopShape,
              ShopRequest
<1>3. F!Offer \in offers[w] /\ FoundOnOffer(was, offers[w])
  BY <1>1, <1>2 DEF ShopInv, OfferedFairly
<1>4. F!Offer.store = store /\ F!Offer.items = items /\ F!Offer.verified = F!Verified
  BY DEF F!Offer
<1>5. UNCHANGED F!rows /\ placed' \in Nat /\ left' = left
  BY ShopCounts DEF F!CheckAge, F!FindStore, F!FindItems, F!FindOptions, F!Place
<1>6. CASE F!Done(w)
  BY <1>1, <1>2, <1>5, <1>6, IdleShop, CheckoutGoes DEF F!Done
<1>7. CASE F!CheckAge(w) /\ ~F!Done(w)
  <2> DEFINE self == [was EXCEPT !.pc = "find_store", !.lines = None]
  <2>1. F!Become(w, self) /\ F!Verified
    BY <1>1, <1>7 DEF F!CheckAge, F!Goto
  <2>2. /\ self \in ShopRequest /\ self.pc = "find_store" /\ self.kind = was.kind /\ self.to = was.to
        /\ self.basket = was.basket
    BY <1>1 DEF ShopRequest, ShopPcs, ShopLines
  <2> HIDE DEF self
  <2>3. FoundOnOffer(self, offers[w])
    BY <1>3, <1>4, <2>1, <2>2 DEF FoundOnOffer
  <2> QED
    BY <1>1, <1>2, <1>5, <2>1, <2>2, <2>3, CheckoutGoes DEF Checking
<1>8. CASE F!FindStore(w) /\ ~F!Done(w)
  <2> DEFINE self == [was EXCEPT !.pc = "find_items", !.lines = None]
  <2>1. F!Become(w, self) /\ store = "on" /\ was.pc = "find_store"
    BY <1>1, <1>8 DEF F!FindStore, F!Goto, F!At
  <2>2. /\ self \in ShopRequest /\ self.pc = "find_items" /\ self.kind = was.kind /\ self.to = was.to
        /\ self.basket = was.basket
    BY <1>1 DEF ShopRequest, ShopPcs, ShopLines
  <2> HIDE DEF self
  <2>3. FoundOnOffer(self, offers[w])
    BY <1>3, <1>4, <2>1, <2>2 DEF FoundOnOffer, Checking
  <2> QED
    BY <1>1, <1>2, <1>5, <2>1, <2>2, <2>3, CheckoutGoes DEF Checking
<1>9. ASSUME NEW i \in Items
      PROVE  items[i].price \in Prices /\ items[i].extra \in Extras \cup {None}
  BY DEF ShopInv, F!TypeOK
<1>10. CASE F!FindItems(w) /\ ~F!Done(w)
  <2>1. PICK lines : lines = [i \in was.basket |-> [price |-> items[i].price, extra |-> None]]
    OBVIOUS
  <2>2. lines \in [was.basket -> Line] /\ \A i \in was.basket : lines[i].price = items[i].price
    BY <1>2, <1>9, <2>1 DEF Line
  <2>3. lines \in ShopLines
    BY <1>2, <2>2 DEF ShopLines
  <2> DEFINE self == [was EXCEPT !.pc = "find_options", !.lines = lines]
  <2>4. F!Become(w, self) /\ was.pc = "find_items" /\ \A i \in was.basket : items[i].state = "on"
    BY <1>1, <1>10, <2>1 DEF F!FindItems, F!Goto, F!At, F!Available
  <2>5. /\ self \in ShopRequest /\ self.pc = "find_options" /\ self.kind = was.kind /\ self.to = was.to
        /\ self.basket = was.basket /\ self.lines = lines
    BY <1>1, <2>3 DEF ShopRequest, ShopPcs
  <2> HIDE DEF self
  <2>6. FoundOnOffer(self, offers[w])
    BY <1>3, <1>4, <2>2, <2>4, <2>5 DEF FoundOnOffer, Checking
  <2> QED
    BY <1>1, <1>2, <1>5, <2>2, <2>4, <2>5, <2>6, CheckoutGoes DEF Checking
<1>11. CASE F!FindOptions(w) /\ ~F!Done(w)
  <2>1. was.pc = "find_options" /\ was.lines \in [was.basket -> Line]
    BY <1>1, <1>11 DEF F!FindOptions, F!At, ShopShape
  <2>2. PICK lines : lines = [i \in was.basket |-> [was.lines[i] EXCEPT !.extra = F!Extra(w, i)]]
    OBVIOUS
  <2>3. \A i \in was.basket : /\ F!Extra(w, i) \in Extras \cup {None}
                              /\ was.to = "options" => F!Extra(w, i) = items[i].extra
    BY <1>1, <1>2, <1>9 DEF F!Extra
  <2>4. /\ lines \in [was.basket -> Line]
        /\ \A i \in was.basket : lines[i].price = was.lines[i].price /\ lines[i].extra = F!Extra(w, i)
    BY <2>1, <2>2, <2>3 DEF Line
  <2>5. lines \in ShopLines
    BY <1>2, <2>4 DEF ShopLines
  <2> DEFINE self == [was EXCEPT !.pc = "place", !.lines = lines]
  <2>6. F!Become(w, self)
    BY <1>1, <1>11, <2>2 DEF F!FindOptions, F!Goto
  <2>7. /\ self \in ShopRequest /\ self.pc = "place" /\ self.kind = was.kind /\ self.to = was.to
        /\ self.basket = was.basket /\ self.lines = lines
    BY <1>1, <2>5 DEF ShopRequest, ShopPcs
  <2> HIDE DEF self
  <2>8. FoundOnOffer(self, offers[w])
    BY <1>3, <1>4, <2>1, <2>3, <2>4, <2>7 DEF FoundOnOffer, Checking
  <2> QED
    BY <1>1, <1>2, <1>5, <2>4, <2>6, <2>7, <2>8, CheckoutGoes DEF Checking
<1> QED
  BY <1>6, <1>7, <1>8, <1>10, <1>11 DEF F!Place

\* A reviewer's decision is about to be committed.
LEMMA ReviewGoes ==
  ASSUME ShopInv, F!MCNext, NEW w \in Workers, F!Review(w)
  PROVE  ShopInv'
<1>1. PICK was \in ShopRequest : was = op[w] /\ ShopShape(was, items, kyc.papers, ages)
  BY ShopCounts
<1>2. /\ was.pc = "review" /\ was.kind = "kyc" /\ was.to \in {"APPROVED", "REJECTED"}
      /\ was.seen \in Nat /\ kyc.papers # 0
      /\ \A v \in Workers : op[v].pc \notin Deciding
  BY <1>1 DEF F!Review, F!At, F!Locked, ShopShape, Reviewing, Deciding
<1>3. PICK pc \in Deciding : /\ F!Become(w, [was EXCEPT !.pc = pc, !.lines = None])
                             /\ pc = "promote" => merchant = "DRAFT"
  BY <1>1 DEF F!Review, F!Goto, F!Promotable, Deciding
<1> DEFINE self == [was EXCEPT !.pc = pc, !.lines = None]
<1>4. /\ self \in ShopRequest /\ self.pc = pc /\ self.kind = was.kind /\ self.to = was.to
      /\ self.seen = was.seen
  BY <1>1 DEF ShopRequest, ShopPcs, ShopLines, Deciding
<1>5. F!Become(w, self)
  BY <1>3
<1> HIDE DEF self
<1>6. UNCHANGED F!rows /\ placed' \in Nat /\ left' \in 0..MaxOps
  BY ShopCounts DEF F!Review
<1>7. /\ ShopShape(self, items, kyc.papers, ages) /\ self.kind \notin {"checkout", "create"}
      /\ AgeKnown(self, ages) /\ op[w].pc \notin Deciding \cup {"age_review"}
  BY <1>1, <1>2, <1>4 DEF ShopShape, Reviewing, Deciding, Checking, AgeKnown
<1>8. "kyc" \notin mixed' => PapersKnown(self, kyc.papers)
  <2>1. mixed \subseteq mixed'
    BY <1>4, <1>5, ShopFacts DEF F!Become
  <2>2. "kyc" \notin mixed' => PapersKnown(was, kyc.papers)
    BY <1>1, <2>1 DEF ShopInv, PapersInOrder
  <2> QED
    BY <1>2, <1>4, <2>2 DEF PapersKnown, Reviewing
<1>9. self.pc = "promote" => merchant = "DRAFT"
  BY <1>3, <1>4
<1> QED
  BY <1>2, <1>4, <1>5, <1>6, <1>7, <1>8, <1>9, ShopRests

\* What every request that ends does to the parts its row is not in.
LEMMA ShopEnds ==
  ASSUME ShopInv, F!MCNext, NEW w \in Workers, F!Done(w)
  PROVE  /\ op' = [op EXCEPT ![w] = F!Idle] /\ F!Idle \in ShopRequest
         /\ op' \in [Workers -> ShopRequest] /\ op'[w] = F!Idle
         /\ \A v \in Workers \ {w} : op'[v] = op[v]
         /\ mixed \subseteq mixed' /\ OverlapsMarked' /\ OfferedFairly'
         /\ \A papers, documents : PapersKnown(F!Idle, papers) /\ AgeKnown(F!Idle, documents)
<1>1. op' = [op EXCEPT ![w] = F!Idle]
  BY DEF F!Done, F!Become
<1>2. /\ op' \in [Workers -> ShopRequest] /\ op'[w] = F!Idle
      /\ \A v \in Workers \ {w} : op'[v] = op[v]
      /\ mixed \subseteq mixed' /\ OverlapsMarked'
  BY <1>1, IdleShop, ShopFacts
<1>3. OfferedFairly'
  BY <1>1, IdleShop, ShopConstants, FairnessKept
<1>4. \A papers, documents : PapersKnown(F!Idle, papers) /\ AgeKnown(F!Idle, documents)
  BY IdleShop DEF PapersKnown, AgeKnown, Reviewing
<1> QED
  BY <1>1, <1>2, <1>3, <1>4, IdleShop

\* The merchant hands in papers nobody has seen.
LEMMA PapersPut ==
  ASSUME ShopInv, F!MCNext, NEW w \in Workers, F!PutPapers(w)
  PROVE  ShopInv'
<1>1. PICK was \in ShopRequest : was = op[w] /\ ShopShape(was, items, kyc.papers, ages)
  BY ShopCounts
<1>2. /\ was.pc = "papers" /\ was.kind = "kyc" /\ was.to \in {"NOT_STARTED", "PENDING"} /\ F!Done(w)
      /\ kyc' = [status |-> was.to, papers |-> kyc.papers + 1]
      /\ UNCHANGED <<merchant, store, category, items, ages, placed, left>>
  BY <1>1 DEF F!PutPapers, F!At, ShopShape
<1>3. kyc.papers \in Nat /\ kyc.papers + 1 \in Nat /\ kyc.papers + 1 # 0
  BY AgesFacts
<1>4. F!TypeOK'
  BY <1>2, <1>3 DEF ShopInv, F!TypeOK
<1>5. kyc'.papers = kyc.papers + 1 /\ kyc'.status # "APPROVED"
  BY <1>2
<1>6. \A v \in Workers : ShopShape(op'[v], items', kyc'.papers, ages')
  BY <1>2, <1>3, <1>5, ShopEnds, IdleShop, ShapesKept
<1>7. NothingOrphaned'
  BY <1>2, ShopEnds, IdleShop, ShopConstants, OrphansKept
<1>8. AgesInOrder'
  BY <1>1, <1>2, ShopEnds, AgesKept
<1>9. PapersInOrder'
  <2>1. judged' = judged /\ (~revived => ~revived')
    BY <1>1, <1>2, ShopEnds, NoApproval DEF Deciding
  <2>2. \A u, v \in Workers : op'[u].pc \in Deciding /\ op'[v].pc \in Deciding => u = v
    BY <1>2, ShopEnds, IdleShop DEF ShopInv, PapersInOrder, Deciding
  <2>3. ASSUME "kyc" \notin mixed', NEW v \in Workers PROVE PapersKnown(op'[v], kyc'.papers)
    <3>1. CASE v = w
      BY <1>2, <3>1, ShopEnds
    <3>2. CASE v # w
      <4>1. op'[v] = op[v] /\ "kyc" \notin mixed
        BY <1>2, <2>3, <3>2, ShopEnds
      <4>2. op[v].kind # "kyc"
        BY <1>1, <1>2, <3>2, <4>1 DEF ShopInv, OverlapsMarked
      <4>3. op[v].pc \notin Reviewing
        BY <4>2 DEF ShopInv, ShopShape
      <4> QED
        BY <4>1, <4>3 DEF PapersKnown
    <3> QED
      BY <3>1, <3>2
  <2>4. "merchant" \notin mixed' =>
          ~revived' /\ \A v \in Workers : op'[v].pc = "promote" => merchant' = "DRAFT"
    BY <1>2, <2>1, ShopEnds, IdleShop DEF ShopInv, PapersInOrder
  <2> QED
    BY <1>5, <2>2, <2>3, <2>4 DEF PapersInOrder
<1> QED
  BY <1>2, <1>4, <1>6, <1>7, <1>8, <1>9, ShopEnds DEF ShopInv

\* The decision is committed: it is the one its reviewer took.
LEMMA DecisionCommitted ==
  ASSUME ShopInv, F!MCNext, NEW w \in Workers, F!Commit(w)
  PROVE  ShopInv'
<1>1. PICK was \in ShopRequest : was = op[w] /\ ShopShape(was, items, kyc.papers, ages)
  BY ShopCounts
<1>2. /\ was.pc \in Deciding /\ was.kind = "kyc" /\ was.to \in {"APPROVED", "REJECTED"} /\ F!Done(w)
      /\ kyc' = [kyc EXCEPT !.status = was.to] /\ kyc.papers # 0
      /\ merchant' = IF was.pc = "promote" THEN F!Now(merchant, "ACTIVE") ELSE merchant
      /\ UNCHANGED <<store, category, items, ages, placed, left>>
  BY <1>1 DEF F!Commit, F!At, ShopShape, Reviewing, Deciding
<1>3. kyc'.papers = kyc.papers /\ kyc'.status = was.to
  BY <1>2 DEF ShopInv, F!TypeOK
<1>4. F!TypeOK'
  <2>1. merchant' \in {"DRAFT", "ACTIVE", "SUSPENDED", "deleted"}
    BY <1>2 DEF F!Now, ShopInv, F!TypeOK
  <2>2. /\ kyc' \in [status: {"NONE", "NOT_STARTED", "PENDING", "APPROVED", "REJECTED"}, papers: Nat]
        /\ kyc'.papers # 0 /\ kyc'.status # "NONE"
    BY <1>2, <1>3 DEF ShopInv, F!TypeOK
  <2> QED
    BY <1>2, <2>1, <2>2 DEF ShopInv, F!TypeOK
<1>5. \A v \in Workers : ShopShape(op'[v], items', kyc'.papers, ages')
  BY <1>2, <1>3, ShopEnds, IdleShop, ShapesKept
<1>6. NothingOrphaned'
  BY <1>2, ShopEnds, IdleShop, ShopConstants, OrphansKept
<1>7. AgesInOrder'
  BY <1>1, <1>2, ShopEnds, AgesKept DEF Deciding
<1>8. \A v \in Workers \ {w} : op[v].pc \notin Deciding /\ op'[v] = op[v]
  BY <1>1, <1>2, ShopEnds DEF ShopInv, PapersInOrder
<1>9. \A v \in Workers : op'[v].pc \notin Deciding
  BY <1>2, <1>8, ShopEnds, IdleShop DEF Deciding
<1>10. \A v \in Workers : F!Approves(v) => v = w
  BY <1>8 DEF F!Approves, F!At, Deciding
<1>11. F!Approves(w) <=> was.to = "APPROVED"
  BY <1>1, <1>2, ShopEnds DEF F!Approves, F!At, Deciding
<1>12. was.to = "APPROVED" => judged' = was.seen
  <2> SUFFICES ASSUME was.to = "APPROVED" PROVE judged' = was.seen
    OBVIOUS
  <2>1. \E v \in Workers : F!Approves(v)
    BY <1>11
  <2>2. (CHOOSE v \in Workers : F!Approves(v)) = w
    BY <2>1, <1>10
  <2>3. judged' = op[CHOOSE v \in Workers : F!Approves(v)].seen
    BY <2>1 DEF F!MCNext
  <2> QED
    BY <1>1, <2>2, <2>3
<1>13. PapersInOrder'
  <2>1. ASSUME "kyc" \notin mixed', NEW v \in Workers PROVE PapersKnown(op'[v], kyc'.papers)
    BY <1>2, <1>3, <1>8, <2>1, ShopEnds DEF ShopInv, PapersInOrder
  <2>2. ASSUME "kyc" \notin mixed', kyc'.status = "APPROVED" PROVE judged' = kyc'.papers
    <3>1. "kyc" \notin mixed
      BY <1>2, <2>2, ShopEnds
    <3>2. was.seen = kyc.papers
      BY <1>1, <1>2, <3>1 DEF ShopInv, PapersInOrder, PapersKnown, Deciding, Reviewing
    <3> QED
      BY <1>3, <1>12, <2>2, <3>2
  <2>3. ASSUME "merchant" \notin mixed' PROVE ~revived'
    <3>1. "merchant" \notin mixed
      BY <1>2, <2>3, ShopEnds
    <3>2. ~revived /\ (was.pc = "promote" => merchant = "DRAFT")
      BY <1>1, <3>1 DEF ShopInv, PapersInOrder
    <3>3. merchant # "DRAFT" => merchant' = merchant
      BY <1>2, <3>2
    <3>4. revived' = (revived \/ \E v \in Workers : F!Approves(v) /\ merchant # "DRAFT"
                                                    /\ merchant' # merchant)
      BY DEF F!MCNext
    <3> QED
      BY <3>2, <3>3, <3>4
  <2> QED
    BY <1>9, <2>1, <2>2, <2>3 DEF PapersInOrder, Deciding
<1> QED
  BY <1>2, <1>4, <1>5, <1>6, <1>7, <1>13, ShopEnds DEF ShopInv

\* The rows of proofs of age change, and nothing else.
LEMMA AgesChange ==
  ASSUME ShopInv, F!MCNext, NEW w \in Workers, F!Done(w), op[w].pc \notin Deciding,
         UNCHANGED <<merchant, kyc, store, category, items, placed, left>>,
         ages' \in Seq(AgeRow), DOMAIN ages \subseteq DOMAIN ages', AgesInOrder'
  PROVE  ShopInv'
<1>1. F!TypeOK'
  BY DEF ShopInv, F!TypeOK, AgeRow
<1>2. \A v \in Workers : ShopShape(op'[v], items', kyc'.papers, ages')
  BY ShopEnds, IdleShop, ShapesKept
<1>3. NothingOrphaned'
  BY ShopEnds, IdleShop, ShopConstants, OrphansKept
<1>4. PapersInOrder'
  <2>1. F!Idle.pc = "idle" /\ F!Idle.pc \notin Deciding
    BY IdleShop DEF Deciding
  <2> QED
    BY <2>1, ShopEnds, PapersKept
<1> QED
  BY <1>1, <1>2, <1>3, <1>4, ShopEnds DEF ShopInv

\* Nobody else has to do with proofs of age, unless that is marked.
LEMMA AgeAlone ==
  ASSUME ShopInv, F!MCNext, NEW w \in Workers, F!Done(w), op[w].kind = "age", "age" \notin mixed'
  PROVE  \A v \in Workers : \A documents : AgeKnown(op'[v], documents)
<1> SUFFICES ASSUME NEW v \in Workers, NEW documents PROVE AgeKnown(op'[v], documents)
  OBVIOUS
<1>1. CASE v = w
  BY <1>1, ShopEnds
<1>2. CASE v # w
  <2>1. op'[v] = op[v] /\ "age" \notin mixed
    BY <1>2, ShopEnds
  <2>2. op[v].kind # "age"
    BY <1>2, <2>1 DEF ShopInv, OverlapsMarked
  <2>3. op[v].pc \notin {"age", "age_review"}
    BY <2>2 DEF ShopInv, ShopShape
  <2> QED
    BY <2>1, <2>3 DEF AgeKnown
<1> QED
  BY <1>1, <1>2

LEMMA AgeSubmitted ==
  ASSUME ShopInv, F!MCNext, NEW w \in Workers, F!SubmitAge(w)
  PROVE  ShopInv'
<1>1. PICK was \in ShopRequest : was = op[w] /\ ShopShape(was, items, kyc.papers, ages)
  BY ShopCounts
<1>2. PICK n : n = was.row
  OBVIOUS
<1>3. /\ was.pc = "age" /\ was.kind = "age" /\ n \in DOMAIN ages \cup {None} /\ F!Done(w)
      /\ ages' = IF n = None THEN Append(ages, [status |-> "PENDING", document |-> 1])
                 ELSE [ages EXCEPT ![n] = [status |-> "PENDING", document |-> ages[n].document + 1]]
      /\ UNCHANGED <<merchant, kyc, store, category, items, placed, left>>
  BY <1>1, <1>2 DEF F!SubmitAge, F!At, ShopShape
<1>4. /\ ages \in Seq(AgeRow) /\ Len(ages) \in Nat /\ DOMAIN ages = 1..Len(ages)
      /\ \A m \in DOMAIN ages : ages[m] \in AgeRow /\ m \in Nat /\ ages[m].document \in Nat
  BY AgesFacts
<1>5. op' = [op EXCEPT ![w] = F!Idle] /\ F!Idle \in ShopRequest /\ mixed \subseteq mixed'
  BY <1>3, ShopEnds
<1>6. checked' = [m \in DOMAIN ages' |-> IF m \in DOMAIN checked THEN checked[m] ELSE 0]
  BY <1>1, <1>3, <1>5, NoneChecked
<1>7. DOMAIN checked = DOMAIN ages
  BY DEF ShopInv, AgesInOrder
<1>8. CASE n = None
  <2> DEFINE row == [status |-> "PENDING", document |-> 1]
  <2>1. row \in AgeRow /\ row.status = "PENDING" /\ ages' = Append(ages, row)
    BY <1>3, <1>8 DEF AgeRow
  <2> HIDE DEF row
  <2>2. /\ ages' \in Seq(AgeRow) /\ Len(ages') = Len(ages) + 1
        /\ \A m \in 1..Len(ages) : ages'[m] = ages[m]
        /\ ages'[Len(ages) + 1] = row
    BY <1>4, <2>1, AppendProperties
  <2>3. DOMAIN ages' = 1..Len(ages')
    BY <2>2, LenProperties
  <2>4. DOMAIN ages \subseteq DOMAIN ages'
    BY <1>4, <2>2, <2>3
  <2>5. ASSUME "age" \notin mixed'
        PROVE  /\ Len(ages') <= 1
               /\ \A m \in DOMAIN ages' : ages'[m].status = "VERIFIED" => checked'[m] = ages'[m].document
               /\ \A v \in Workers : AgeKnown(op'[v], ages')
    <3>1. "age" \notin mixed
      BY <1>5, <2>5
    <3>2. ages = << >>
      BY <1>1, <1>2, <1>3, <1>8, <3>1 DEF ShopInv, AgesInOrder, AgeKnown
    <3>3. Len(ages) = 0
      BY <3>2
    <3>4. DOMAIN ages' = {1} /\ ages'[1] = row
      BY <2>2, <2>3, <3>3
    <3>5. \A v \in Workers : AgeKnown(op'[v], ages')
      BY <1>1, <1>3, <2>5, AgeAlone
    <3> QED
      BY <2>1, <2>2, <3>3, <3>4, <3>5
  <2>6. AgesInOrder'
    BY <1>6, <2>5 DEF AgesInOrder
  <2> QED
    BY <1>1, <1>3, <2>2, <2>4, <2>6, AgesChange DEF Deciding
<1>9. CASE n # None
  <2>1. PICK row : row = [status |-> "PENDING", document |-> ages[n].document + 1]
    OBVIOUS
  <2>2. n \in DOMAIN ages /\ ages' = [ages EXCEPT ![n] = row] /\ row.status = "PENDING"
    BY <1>3, <1>9, <2>1
  <2>3. row \in AgeRow
    <3>1. ages[n].document + 1 \in Nat \ {0}
      BY <1>4, <2>2
    <3> QED
      BY <2>1, <3>1 DEF AgeRow
  <2>4. /\ ages' \in Seq(AgeRow) /\ Len(ages') = Len(ages)
        /\ \A m \in 1..Len(ages) : ages'[m] = IF m = n THEN row ELSE ages[m]
    BY <1>4, <2>2, <2>3, ExceptSeq
  <2>5. DOMAIN ages' = DOMAIN ages
    BY <1>4, <2>4, LenProperties
  <2>6. ASSUME "age" \notin mixed'
        PROVE  /\ Len(ages') <= 1
               /\ \A m \in DOMAIN ages' : ages'[m].status = "VERIFIED" => checked'[m] = ages'[m].document
               /\ \A v \in Workers : AgeKnown(op'[v], ages')
    <3>1. /\ Len(ages) <= 1
          /\ \A m \in DOMAIN ages : ages[m].status = "VERIFIED" => checked[m] = ages[m].document
      BY <1>5, <2>6 DEF ShopInv, AgesInOrder
    <3>2. \A m \in DOMAIN ages : checked'[m] = checked[m]
      BY <1>6, <1>7, <2>5
    <3>3. \A v \in Workers : AgeKnown(op'[v], ages')
      BY <1>1, <1>3, <2>6, AgeAlone
    <3> QED
      BY <1>4, <2>2, <2>4, <2>5, <3>1, <3>2, <3>3
  <2>7. AgesInOrder'
    BY <1>6, <2>6 DEF AgesInOrder
  <2> QED
    BY <1>1, <1>3, <2>4, <2>5, <2>7, AgesChange DEF Deciding
<1> QED
  BY <1>8, <1>9

\* An age is verified on the document that was read.
LEMMA AgeDecided ==
  ASSUME ShopInv, F!MCNext, NEW w \in Workers, F!AgeReview(w)
  PROVE  ShopInv'
<1>1. PICK was \in ShopRequest : was = op[w] /\ ShopShape(was, items, kyc.papers, ages)
  BY ShopCounts
<1>2. PICK n : n = was.row
  OBVIOUS
<1>3. /\ was.pc = "age_review" /\ was.kind = "age" /\ n \in DOMAIN ages /\ F!Done(w)
      /\ was.to \in {"VERIFIED", "REJECTED"}
      /\ ages' = [ages EXCEPT ![n].status = was.to]
      /\ UNCHANGED <<merchant, kyc, store, category, items, placed, left>>
  BY <1>1, <1>2 DEF F!AgeReview, F!At, ShopShape
<1>4. /\ ages \in Seq(AgeRow) /\ Len(ages) \in Nat /\ DOMAIN ages = 1..Len(ages)
      /\ \A m \in DOMAIN ages : ages[m] \in AgeRow /\ m \in Nat /\ ages[m].document \in Nat
  BY AgesFacts
<1>5. PICK row : row = [ages[n] EXCEPT !.status = was.to]
  OBVIOUS
<1>6. row \in AgeRow /\ row.document = ages[n].document
  BY <1>3, <1>4, <1>5 DEF AgeRow
<1>7. ages' = [ages EXCEPT ![n] = row]
  BY <1>3, <1>5
<1>8. /\ ages' \in Seq(AgeRow) /\ Len(ages') = Len(ages)
      /\ \A m \in 1..Len(ages) : ages'[m] = IF m = n THEN row ELSE ages[m]
  BY <1>3, <1>4, <1>6, <1>7, ExceptSeq
<1>9. DOMAIN ages' = DOMAIN ages
  BY <1>4, <1>8, LenProperties
<1>10. op'[w] = F!Idle /\ (\A v \in Workers \ {w} : op'[v] = op[v]) /\ mixed \subseteq mixed'
  BY <1>3, ShopEnds
<1>11. checked' = [m \in DOMAIN ages' |->
         IF \E v \in Workers : F!At(v, "age_review") /\ op[v].row = m /\ op'[v] = F!Idle
         THEN op[CHOOSE v \in Workers : F!At(v, "age_review") /\ op[v].row = m /\ op'[v] = F!Idle].seen
         ELSE IF m \in DOMAIN checked THEN checked[m] ELSE 0]
  BY DEF F!MCNext
<1>12. DOMAIN checked = DOMAIN ages
  BY DEF ShopInv, AgesInOrder
<1>13. \A m, v : v \in Workers /\ F!At(v, "age_review") /\ op[v].row = m /\ op'[v] = F!Idle
                   <=> v = w /\ m = n
  <2>1. \A v \in Workers \ {w} : ~(F!At(v, "age_review") /\ op'[v] = F!Idle)
    BY <1>10, IdleShop DEF F!At
  <2>2. F!At(w, "age_review") /\ op[w].row = n
    BY <1>1, <1>2, <1>3 DEF F!At
  <2> QED
    BY <1>10, <2>1, <2>2
<1>14. checked'[n] = was.seen
  <2>1. \E v \in Workers : F!At(v, "age_review") /\ op[v].row = n /\ op'[v] = F!Idle
    BY <1>13
  <2>2. (CHOOSE v \in Workers : F!At(v, "age_review") /\ op[v].row = n /\ op'[v] = F!Idle) = w
    BY <1>13, <2>1
  <2>3. checked'[n] =
          op[CHOOSE v \in Workers : F!At(v, "age_review") /\ op[v].row = n /\ op'[v] = F!Idle].seen
    BY <1>3, <1>9, <1>11, <2>1
  <2> QED
    BY <1>1, <2>2, <2>3
<1>15. \A m \in DOMAIN ages \ {n} : checked'[m] = checked[m]
  <2> SUFFICES ASSUME NEW m \in DOMAIN ages \ {n} PROVE checked'[m] = checked[m]
    OBVIOUS
  <2>1. ~\E v \in Workers : F!At(v, "age_review") /\ op[v].row = m /\ op'[v] = F!Idle
    BY <1>13
  <2> QED
    BY <1>9, <1>11, <1>12, <2>1
<1>16. ASSUME "age" \notin mixed'
       PROVE  /\ Len(ages') <= 1
              /\ \A m \in DOMAIN ages' : ages'[m].status = "VERIFIED" => checked'[m] = ages'[m].document
              /\ \A v \in Workers : AgeKnown(op'[v], ages')
  <2>1. /\ Len(ages) <= 1
        /\ \A m \in DOMAIN ages : ages[m].status = "VERIFIED" => checked[m] = ages[m].document
        /\ AgeKnown(was, ages)
    BY <1>1, <1>10, <1>16 DEF ShopInv, AgesInOrder
  <2>2. was.seen = ages[n].document
    BY <1>2, <1>3, <2>1 DEF AgeKnown
  <2>3. \A v \in Workers : AgeKnown(op'[v], ages')
    BY <1>1, <1>3, <1>16, AgeAlone
  <2>4. ASSUME NEW m \in DOMAIN ages', ages'[m].status = "VERIFIED"
        PROVE  checked'[m] = ages'[m].document
    <3>1. CASE m = n
      BY <1>4, <1>6, <1>8, <1>9, <1>14, <2>2, <3>1
    <3>2. CASE m # n
      BY <1>4, <1>8, <1>9, <1>15, <2>1, <2>4, <3>2
    <3> QED
      BY <3>1, <3>2
  <2> QED
    BY <1>8, <2>1, <2>3, <2>4
<1>17. AgesInOrder'
  <2>1. DOMAIN checked' = DOMAIN ages'
    BY <1>11
  <2> QED
    BY <1>16, <2>1 DEF AgesInOrder
<1> QED
  BY <1>1, <1>3, <1>8, <1>9, <1>17, AgesChange DEF Deciding

\* A row that a write reaches keeps its shape, and only a creation puts it on the menu.
LEMMA ItemsAfterWrite ==
  ASSUME ShopInv, NEW w \in Workers, F!Write(w), NEW i \in Items
  PROVE  /\ items' \in [Items -> ItemRow]
         /\ items[i].state # "absent" => items'[i].state # "absent"
         /\ F!Living(items'[i].state) => F!Living(items[i].state) \/ op[w].kind = "create"
         /\ op[w].kind = "category" /\ op[w].to = "deleted" => ~F!Living(items'[i].state)
<1>1. PICK was \in ShopRequest : was = op[w] /\ ShopShape(was, items, kyc.papers, ages)
  BY ShopCounts
<1>2. was.pc = "write" /\ WriteShape(was, items)
  BY <1>1 DEF F!Write, F!At, ShopShape
<1>3. items \in [Items -> ItemRow]
  BY DEF ShopInv, F!TypeOK, ItemRow
<1>4. items' = IF was.kind = "category" THEN F!Cascaded(was.to)
               ELSE IF was.item \in Items
               THEN [items EXCEPT ![was.item] = F!ItemAfter(items[was.item], was)]
               ELSE items
  BY <1>1 DEF F!Write
<1>5. CASE was.kind = "category"
  <2>1. items' = F!Cascaded(was.to)
    BY <1>4, <1>5
  <2>2. CASE was.to = "deleted"
    <3>1. items' = [j \in Items |-> IF F!Living(items[j].state)
                                    THEN [items[j] EXCEPT !.state = "deleted"] ELSE items[j]]
      BY <2>1, <2>2 DEF F!Cascaded
    <3>2. \A j \in Items : [items[j] EXCEPT !.state = "deleted"] \in ItemRow
      BY <1>3 DEF ItemRow
    <3>3. \A j \in Items : [items[j] EXCEPT !.state = "deleted"].state = "deleted"
      BY <1>3 DEF ItemRow
    <3> QED
      BY <1>1, <1>3, <3>1, <3>2, <3>3 DEF F!Living
  <2>3. CASE was.to # "deleted"
    BY <1>1, <1>3, <2>1, <2>3 DEF F!Cascaded
  <2> QED
    BY <2>2, <2>3
<1>6. CASE was.kind # "category" /\ was.item \notin Items
  BY <1>1, <1>3, <1>4, <1>6
<1>7. CASE was.kind # "category" /\ was.item \in Items
  <2>1. PICK j \in Items : j = was.item
    BY <1>7
  <2>2. PICK row : row = F!ItemAfter(items[j], was)
    OBVIOUS
  <2>3. items[j] \in ItemRow /\ items' = [items EXCEPT ![j] = row]
    BY <1>3, <1>4, <1>7, <2>1, <2>2
  <2>4. was.kind \in {"item", "create", "price", "extra"}
    BY <1>2, <1>7, ShopConstants DEF WriteShape
  <2>5. CASE was.kind = "item"
    <3>1. was.to \in Switch /\ items[j].state # "absent"
      BY <1>2, <2>1, <2>5 DEF WriteShape
    <3>2. row = [items[j] EXCEPT !.state = F!Now(items[j].state, was.to)]
      BY <2>2, <2>5 DEF F!ItemAfter
    <3>3. row \in ItemRow /\ row.state = F!Now(items[j].state, was.to)
      BY <2>3, <3>1, <3>2 DEF ItemRow, F!Now, Switch
    <3>4. row.state # "absent" /\ (F!Living(row.state) => F!Living(items[j].state))
      BY <3>1, <3>3 DEF F!Now, F!Living, Switch
    <3> QED
      BY <1>1, <1>3, <1>7, <2>3, <3>3, <3>4
  <2>6. CASE was.kind = "create"
    <3>1. was.to = "on"
      BY <1>2, <2>6 DEF WriteShape
    <3>2. row = [items[j] EXCEPT !.state = F!Now(items[j].state, was.to)]
      BY <2>2, <2>6 DEF F!ItemAfter
    <3>3. row \in ItemRow /\ row.state # "absent"
      BY <2>3, <3>1, <3>2 DEF ItemRow, F!Now
    <3> QED
      BY <1>1, <1>3, <1>7, <2>3, <2>6, <3>3
  <2>7. CASE was.kind = "price"
    <3>1. was.amount \in Prices /\ row = [items[j] EXCEPT !.price = was.amount]
      BY <1>2, <2>2, <2>7 DEF F!ItemAfter, WriteShape
    <3>2. row \in ItemRow /\ row.state = items[j].state
      BY <2>3, <3>1 DEF ItemRow
    <3> QED
      BY <1>1, <1>3, <1>7, <2>3, <3>2
  <2>8. CASE was.kind = "extra"
    <3>1. was.amount \in Extras \cup {None} /\ row = [items[j] EXCEPT !.extra = was.amount]
      BY <1>2, <2>2, <2>8 DEF F!ItemAfter, WriteShape
    <3>2. row \in ItemRow /\ row.state = items[j].state
      BY <2>3, <3>1 DEF ItemRow
    <3> QED
      BY <1>1, <1>3, <1>7, <2>3, <3>2
  <2> QED
    BY <2>4, <2>5, <2>6, <2>7, <2>8
<1> QED
  BY <1>5, <1>6, <1>7

LEMMA ShopWritten ==
  ASSUME ShopInv, F!MCNext, NEW w \in Workers, F!Write(w)
  PROVE  ShopInv'
<1>1. PICK was \in ShopRequest : was = op[w] /\ ShopShape(was, items, kyc.papers, ages)
  BY ShopCounts
<1>2. /\ was.pc = "write" /\ WriteShape(was, items) /\ F!Done(w)
      /\ store' = IF was.kind = "store" THEN F!Now(store, was.to) ELSE store
      /\ category' = IF was.kind = "category" THEN F!Now(category, was.to) ELSE category
      /\ merchant' = IF was.kind = "merchant" THEN F!Now(merchant, was.to) ELSE merchant
      /\ UNCHANGED <<kyc, ages, placed, left>>
  BY <1>1 DEF F!Write, F!At, ShopShape
<1>3. items' \in [Items -> ItemRow]
  <2>1. CASE Items = {}
    <3>1. items' = IF was.kind = "category" THEN F!Cascaded(was.to) ELSE items
      BY <1>1, <2>1 DEF F!Write
    <3>2. items \in [Items -> ItemRow]
      BY DEF ShopInv, F!TypeOK, ItemRow
    <3> QED
      BY <2>1, <3>1, <3>2 DEF F!Cascaded
  <2> QED
    BY <2>1, ItemsAfterWrite
<1>4. F!TypeOK'
  <2>1. was.kind \in {"store", "category"} => was.to \in Switch
    BY <1>2 DEF WriteShape
  <2>2. was.kind = "merchant" => was.to \in MerchantStates
    BY <1>2 DEF WriteShape
  <2>3. merchant' \in MerchantStates /\ {store', category'} \subseteq Switch
    BY <1>2, <2>1, <2>2 DEF ShopInv, F!TypeOK, F!Now, Switch, MerchantStates
  <2> QED
    BY <1>2, <1>3, <2>3 DEF ShopInv, F!TypeOK, ItemRow, Switch, MerchantStates
<1>5. \A v \in Workers : ShopShape(op'[v], items', kyc'.papers, ages')
  <2>1. \A i \in Items : items[i].state # "absent" => items'[i].state # "absent"
    BY ItemsAfterWrite
  <2> QED
    BY <1>2, <2>1, ShopEnds, IdleShop, ShapesKept
<1>6. PapersInOrder'
  <2>1. F!Idle.pc = "idle" /\ F!Idle.pc \notin Deciding /\ op[w].pc \notin Deciding
    BY <1>1, <1>2, IdleShop DEF Deciding
  <2>2. merchant' = merchant \/ op[w].kind = "merchant"
    BY <1>1, <1>2
  <2> QED
    BY <1>2, <2>1, <2>2, ShopEnds, PapersKept
<1>7. AgesInOrder'
  BY <1>1, <1>2, ShopEnds, AgesKept
<1>8. NothingOrphaned'
  <2> SUFFICES ASSUME category' = "deleted", "create" \notin mixed'
               PROVE  /\ \A i \in Items : ~F!Living(items'[i].state)
                      /\ \A v \in Workers : op'[v].kind # "create"
    BY DEF NothingOrphaned
  <2>1. "create" \notin mixed
    BY <1>2, ShopEnds
  <2>2. CASE category = "deleted"
    <3>1. /\ \A i \in Items : ~F!Living(items[i].state)
          /\ \A v \in Workers : op[v].kind # "create"
      BY <2>1, <2>2 DEF ShopInv, NothingOrphaned
    <3>2. \A i \in Items : ~F!Living(items'[i].state)
      BY <3>1, ItemsAfterWrite
    <3> QED
      BY <1>2, <3>1, <3>2, ShopEnds, IdleShop, ShopConstants
  <2>3. CASE category # "deleted"
    <3>1. was.kind = "category" /\ was.to = "deleted"
      BY <1>2, <2>3 DEF F!Now
    <3>2. \A i \in Items : ~F!Living(items'[i].state)
      BY <1>1, <3>1, ItemsAfterWrite
    <3>3. \A v \in Workers : op[v].kind # "create"
      BY <1>1, <2>1, <3>1 DEF ShopInv, OverlapsMarked
    <3> QED
      BY <1>2, <3>2, <3>3, ShopEnds, IdleShop, ShopConstants
  <2> QED
    BY <2>2, <2>3
<1> QED
  BY <1>2, <1>4, <1>5, <1>6, <1>7, <1>8, ShopEnds DEF ShopInv

LEMMA ShopNext == ShopInv /\ F!MCNext => ShopInv'
<1> SUFFICES ASSUME ShopInv, F!MCNext PROVE ShopInv'
  OBVIOUS
<1>1. PICK w \in Workers :
        \/ \E to \in Switch :
             F!StoreStart(w, to) \/ F!CategoryStart(w, to) \/ \E i \in Items : F!ItemStart(w, i, to)
        \/ \E to \in MerchantStates : F!MerchantStart(w, to)
        \/ \E i \in Items :
             \/ F!CreateItemStart(w, i)
             \/ \E price \in Prices : F!PriceStart(w, i, price)
             \/ \E extra \in Extras \cup {None} : F!OptionStart(w, i, extra)
        \/ F!Write(w)
        \/ \E to \in {"NOT_STARTED", "PENDING"} : F!PapersStart(w, to)
        \/ \E decision \in {"APPROVED", "REJECTED"} : F!ReviewStart(w, decision)
        \/ F!PutPapers(w) \/ F!Review(w) \/ F!Commit(w)
        \/ F!AgeStart(w) \/ F!SubmitAge(w) \/ F!AgeReview(w)
        \/ \E n \in DOMAIN ages, decision \in {"VERIFIED", "REJECTED"} : F!AgeReviewStart(w, n, decision)
        \/ \E basket \in SUBSET Items \ {{}}, sale \in F!Sales : F!CheckoutStart(w, basket, sale)
        \/ F!CheckAge(w) \/ F!FindStore(w) \/ F!FindItems(w) \/ F!FindOptions(w) \/ F!Place(w)
  BY DEF F!MCNext, F!Next, Switch, MerchantStates
<1>2. CASE \/ \E to \in Switch : F!StoreStart(w, to) \/ F!CategoryStart(w, to)
           \/ \E to \in MerchantStates : F!MerchantStart(w, to)
  BY <1>2, WritingsStart
<1>3. CASE \E i \in Items :
             \/ \E to \in Switch : F!ItemStart(w, i, to)
             \/ F!CreateItemStart(w, i)
             \/ \E price \in Prices : F!PriceStart(w, i, price)
             \/ \E extra \in Extras \cup {None} : F!OptionStart(w, i, extra)
  BY <1>3, ItemWritingsStart
<1>4. CASE \/ \E to \in {"NOT_STARTED", "PENDING"} : F!PapersStart(w, to)
           \/ \E decision \in {"APPROVED", "REJECTED"} : F!ReviewStart(w, decision)
  BY <1>4, PapersArrive
<1>5. CASE \/ F!AgeStart(w)
           \/ \E n \in DOMAIN ages, decision \in {"VERIFIED", "REJECTED"} : F!AgeReviewStart(w, n, decision)
  BY <1>5, AgeRequestsArrive
<1>6. CASE \E basket \in SUBSET Items \ {{}}, sale \in F!Sales : F!CheckoutStart(w, basket, sale)
  BY <1>6, CheckoutsArrive
<1>7. CASE F!CheckAge(w) \/ F!FindStore(w) \/ F!FindItems(w) \/ F!FindOptions(w) \/ F!Place(w)
  BY <1>7, CheckoutChecks
<1>8. CASE F!Write(w) \/ F!PutPapers(w) \/ F!Review(w) \/ F!Commit(w) \/ F!SubmitAge(w) \/ F!AgeReview(w)
  BY <1>8, ShopWritten, PapersPut, ReviewGoes, DecisionCommitted, AgeSubmitted, AgeDecided
<1> QED
  BY <1>1, <1>2, <1>3, <1>4, <1>5, <1>6, <1>7, <1>8

LEMMA ShopInit == F!MCInit => ShopInv
<1> SUFFICES ASSUME F!MCInit PROVE ShopInv
  OBVIOUS
<1>1. /\ merchant = "DRAFT" /\ kyc = [status |-> "NONE", papers |-> 0]
      /\ store = "on" /\ category = "on"
      /\ items \in [Items -> {F!Item("absent"), F!Item("on")}]
      /\ ages = << >> /\ placed = 0
      /\ op = [w \in Workers |-> F!Idle] /\ left = MaxOps
      /\ offers = [w \in Workers |-> {}] /\ unfair = FALSE
      /\ judged = 0 /\ checked = << >> /\ revived = FALSE /\ mixed = {}
  BY DEF F!MCInit, F!Init
<1>2. \A w \in Workers : op[w] = F!Idle
  BY <1>1
<1>3. op \in [Workers -> ShopRequest]
  BY <1>1, IdleShop
<1>4. F!TypeOK
  <2>1. (CHOOSE p \in Prices : TRUE) \in Prices
    BY ShopConstants
  <2>2. F!Item("absent") \in ItemRow /\ F!Item("on") \in ItemRow
    BY <2>1 DEF F!Item, ItemRow
  <2>3. items \in [Items -> ItemRow]
    BY <1>1, <2>2
  <2>4. ages \in Seq(AgeRow)
    BY <1>1, EmptySeq
  <2>5. left \in 0..MaxOps /\ placed \in Nat
    BY <1>1, ShopConstants
  <2>6. /\ kyc \in [status: {"NONE", "NOT_STARTED", "PENDING", "APPROVED", "REJECTED"}, papers: Nat]
        /\ kyc.papers = 0 <=> kyc.status = "NONE"
    BY <1>1
  <2> QED
    BY <1>1, <2>3, <2>4, <2>5, <2>6 DEF F!TypeOK, ItemRow, AgeRow
<1>5. \A w \in Workers : ShopShape(op[w], items, kyc.papers, ages)
  BY <1>2, IdleShop
<1>6. OverlapsMarked
  BY <1>2, IdleShop, ShopConstants DEF OverlapsMarked
<1>7. OfferedFairly
  BY <1>1, <1>2, IdleShop, ShopConstants DEF OfferedFairly
<1>8. NothingOrphaned
  BY <1>1 DEF NothingOrphaned
<1>9. PapersInOrder
  BY <1>1, <1>2, IdleShop DEF PapersInOrder, PapersKnown, Deciding, Reviewing
<1>10. AgesInOrder
  <2>1. DOMAIN ages = {} /\ Len(ages) = 0
    BY <1>1
  <2> QED
    BY <1>1, <1>2, <2>1, IdleShop DEF AgesInOrder, AgeKnown
<1> QED
  BY <1>3, <1>4, <1>5, <1>6, <1>7, <1>8, <1>9, <1>10 DEF ShopInv

LEMMA ShopStutters ==
  ASSUME ShopInv, UNCHANGED vars
  PROVE  ShopInv'
<1>1. UNCHANGED <<merchant, kyc, store, category, items, ages, placed, offers, unfair, judged,
                  checked, revived, op, left, mixed>>
  BY DEF vars, OfShop, OfQuotes, OfRequests, OfHandlers
<1>2. F!TypeOK'
  BY <1>1 DEF ShopInv, F!TypeOK
<1>3. OverlapsMarked'
  BY <1>1 DEF ShopInv, OverlapsMarked
<1>4. OfferedFairly'
  BY <1>1 DEF ShopInv, OfferedFairly, F!Offer, F!Verified
<1>5. NothingOrphaned'
  BY <1>1 DEF ShopInv, NothingOrphaned
<1>6. PapersInOrder'
  BY <1>1 DEF ShopInv, PapersInOrder
<1>7. AgesInOrder'
  BY <1>1 DEF ShopInv, AgesInOrder
<1> QED
  BY <1>1, <1>2, <1>3, <1>4, <1>5, <1>6, <1>7 DEF ShopInv

-----------------------------------------------------------------------------
\* The purchases together.

LEMMA BookingStutters ==
  ASSUME BookingInv, UNCHANGED vars
  PROVE  BookingInv'
<1>1. UNCHANGED <<event, type, bookings, tickets, payment, published, op, left, faults, raced>>
  BY DEF vars, OfBookings, OfRequests, OfHandlers
<1>2. B!TypeOK'
  BY <1>1 DEF BookingInv, B!TypeOK
<1>3. NewIsEmpty' /\ TicketsAgree'
  BY <1>1 DEF BookingInv, NewIsEmpty, TicketsAgree
<1>4. ~raced' => Unraced'
  <2>1. Unpaid(bookings') = Unpaid(bookings)
    BY <1>1
  <2>2. Taken' = Taken
    BY <1>1 DEF Taken, Unpaid
  <2> QED
    BY <1>1, <2>2 DEF BookingInv, Unraced, B!Overlapped, B!Buying, B!At, BuyingAlone, Unpaid
<1> QED
  BY <1>1, <1>2, <1>3, <1>4 DEF BookingInv, Attending

LEMMA ProofStutters ==
  ASSUME ProofInv, UNCHANGED vars
  PROVE  ProofInv'
<1>1. UNCHANGED <<status, proof, column, announced, reviewed, standing, op, left, faults, last,
                  broken, mixed, crossed>>
  BY DEF vars, OfProofs, OfQuotes, OfRequests, OfHandlers
<1>2. G!TypeOK'
  BY <1>1 DEF ProofInv, G!TypeOK
<1>3. \A j \in G!Jobs : Delivering(j)'
  BY <1>1 DEF ProofInv, Delivering, Completed, OneAtATime, Arriving, Mirrored, Owes, Entered,
              G!AtWork
<1>4. ~crossed' /\ broken' = {} => Rating'
  BY <1>1 DEF ProofInv, Rating, G!Counted
<1> QED
  BY <1>1, <1>2, <1>3, <1>4 DEF ProofInv, Courier

LEMMA MoneyStutters ==
  ASSUME MoneyInv, UNCHANGED vars
  PROVE  MoneyInv'
<1>1. UNCHANGED <<purpose, life, refunds, heard, collected, hold, wallet, others, mirrored,
                  unwound, disturbed, op, faults>>
  BY DEF vars, OfMoney, OfHandlers
<1>2. M!TypeOK' /\ MirrorsOnce' /\ RefundsCovered'
  BY <1>1 DEF MoneyInv, MoneySafe, M!TypeOK, MirrorsOnce, RefundsCovered
<1>3. MoneySafe'
  BY <1>1, <1>2 DEF MoneyInv, MoneySafe, Handling
<1>4. ~disturbed' => Calm'
  <2>1. Calm => Ordered' /\ Collecting' /\ Balanced'
    BY <1>1 DEF Calm, Ordered, Collecting, Balanced
  <2>2. Calm => \A r \in Refunds : Tracked(r)'
    BY <1>1 DEF Calm, Tracked
  <2>3. Calm => \A w \in Workers : Holding(op[w], hold, unwound)'
    BY <1>1 DEF Calm, Holding
  <2> QED
    BY <1>1, <2>1, <2>2, <2>3 DEF MoneyInv, Calm
<1> QED
  BY <1>1, <1>3, <1>4 DEF MoneyInv

CommerceInv ==
  /\ part \in {"rides", "orders", "bookings", "pricing", "money", "shop", "proofs"}
  /\ part = "rides" => RideInv
  /\ part = "orders" => OrderInv
  /\ part = "bookings" => BookingInv
  /\ part = "pricing" => PricingInv
  /\ part = "money" => MoneyInv
  /\ part = "shop" => ShopInv
  /\ part = "proofs" => ProofInv

LEMMA CommerceStarts == Init => CommerceInv
<1>1. Init => \/ part = "shop" /\ ShopInv
              \/ part = "proofs" /\ ProofInv
              \/ part = "rides" /\ RideInv
              \/ part = "orders" /\ OrderInv
              \/ part = "bookings" /\ BookingInv
              \/ part = "pricing" /\ PricingInv
              \/ part = "money" /\ MoneyInv
  BY RideInit, OrderInit, BookingInit, PricingInit, MoneyInit, ShopInit, ProofInit DEF Init
<1> QED
  BY <1>1 DEF CommerceInv

LEMMA CommerceStutters ==
  ASSUME CommerceInv, UNCHANGED vars
  PROVE  CommerceInv'
<1>1. part' = part
  BY DEF vars
<1>2. /\ RideInv => RideInv'
      /\ OrderInv => OrderInv'
      /\ BookingInv => BookingInv'
      /\ PricingInv => PricingInv'
      /\ MoneyInv => MoneyInv'
      /\ ShopInv => ShopInv'
      /\ ProofInv => ProofInv'
  BY RideStutters, OrderStutters, BookingStutters, PricingStutters, MoneyStutters, ShopStutters,
     ProofStutters
<1> QED
  BY <1>1, <1>2 DEF CommerceInv

LEMMA CommerceSteps ==
  ASSUME CommerceInv, [Next]_vars
  PROVE  CommerceInv'
<1>1. CASE UNCHANGED vars
  BY <1>1, CommerceStutters
<1>2. CASE Next
  <2>1. /\ part' = part
        /\ \/ part = "rides" /\ R!MCNext
           \/ part = "orders" /\ O!MCNext
           \/ part = "bookings" /\ B!MCNext
           \/ part = "pricing" /\ P!Next
           \/ part = "money" /\ M!MCNext
           \/ part = "shop" /\ F!MCNext
           \/ part = "proofs" /\ G!Next
    BY <1>2 DEF Next
  <2>2. /\ part = "rides" /\ R!MCNext => RideInv'
        /\ part = "orders" /\ O!MCNext => OrderInv'
        /\ part = "bookings" /\ B!MCNext => BookingInv'
        /\ part = "pricing" /\ P!Next => PricingInv'
        /\ part = "money" /\ M!MCNext => MoneyInv'
        /\ part = "shop" /\ F!MCNext => ShopInv'
        /\ part = "proofs" /\ G!Next => ProofInv'
    BY RideNext, OrderNext, BookingNext, PricingNext, MoneyNext, ShopNext, ProofNext DEF CommerceInv
  <2> QED
    BY <2>1, <2>2 DEF CommerceInv
<1> QED
  BY <1>1, <1>2

LEMMA CommerceHolds == Spec => []CommerceInv
  BY CommerceStarts, CommerceSteps, PTL DEF Spec

\* For every set of requests, rows and amounts, the state of each of the seven models
\* keeps its shape.
THEOREM CommerceIsTyped == Spec => []TypeOK
<1>1. CommerceInv => TypeOK
  <2>1. /\ RideInv => R!TypeOK
        /\ OrderInv => O!TypeOK
        /\ BookingInv => B!TypeOK
        /\ PricingInv => P!TypeOK
        /\ MoneyInv => M!TypeOK
        /\ ShopInv => F!TypeOK
        /\ ProofInv => G!TypeOK
    BY RidesImplied, OrdersImplied, PricingImplied, ShopImplied
       DEF BookingInv, MoneyInv, MoneySafe, ProofInv
  <2> QED
    BY <2>1 DEF CommerceInv, TypeOK
<1> QED
  BY <1>1, CommerceHolds, PTL

\* However dispatches, hand assignments, answers of riders and cancellations overlap, for
\* any number of rides and riders: a rider is unavailable exactly while under way.
THEOREM RidersAreAccounted == Spec => []RidersAccounted
<1>1. CommerceInv => RidersAccounted
  BY RidesImplied DEF CommerceInv, RidersAccounted
<1> QED
  BY <1>1, CommerceHolds, PTL

\* However requests and payment events overlap, for any number of them: no rider is
\* found and no order served before the payment completed, unless an admin says so.
THEOREM ServiceIsPaid == Spec => []PaidBeforeService
<1>1. CommerceInv => PaidBeforeService
  BY RidesImplied, OrdersImplied DEF CommerceInv, PaidBeforeService
<1> QED
  BY <1>1, CommerceHolds, PTL

\* No step of any number of requests moves a ride against the table or gives it a second
\* rider, but by hand.
THEOREM RidesFollowTheTable == Spec => RideStepsUnlessMixed
<1>1. CommerceInv /\ [Next]_vars =>
        [part = "rides" => R!StatusFollowsTable /\ R!ReplacedByHand]_vars
  BY RideFollows DEF CommerceInv, Next
<1> QED
  BY <1>1, CommerceHolds, PTL DEF Spec, RideStepsUnlessMixed

\* For any number of checkouts, ratings, rules and hours, and any amounts: a
\* quote prices one order, a delivered order is reviewed once, and the price quoted is
\* charged and covers its shares, as long as the rules' charges cover what they promise.
THEOREM QuotesAreHonoured == Spec => []QuotesHonoured
<1>1. CommerceInv => QuotesHonoured
  BY OrdersImplied, PricingImplied DEF CommerceInv, QuotesHonoured
<1> QED
  BY <1>1, CommerceHolds, PTL

\* No step of any number of requests and events takes the recorded payment off an order,
\* moves it back, or breaks the chain of its history, unless they overlapped on it.
THEOREM OrdersGoForward == Spec => OrderStepsUnlessMixed
<1>1. CommerceInv /\ [Next]_vars => [part = "orders" => O!PaymentKept /\ O!HistoryChained]_vars
  BY OrderFollows DEF CommerceInv, Next
<1> QED
  BY <1>1, CommerceHolds, PTL DEF Spec, OrderStepsUnlessMixed

\* However purchases, payments, settlements and cancellations of any number of bookings
\* overlap, die and repeat: tickets, sales and completed payments agree, and what is sold
\* and reserved is within the capacity unless purchases raced.
THEOREM TicketsAreCovered == Spec => []TicketsWithinCapacity
<1>1. CommerceInv => TicketsWithinCapacity
  BY BookingsImplied DEF CommerceInv, TicketsWithinCapacity
<1> QED
  BY <1>1, CommerceHolds, PTL

\* For any number of requests that complete jobs, hand in proofs and rate: a completed
\* job was announced, its proof is the last one, and the rider's count is right, unless
\* requests overlapped on it or broke off.
THEOREM ProofsAreKept == Spec => []ProofsUnlessBroken
<1>1. CommerceInv => ProofsUnlessBroken
  BY ProofsImplied DEF CommerceInv, ProofsUnlessBroken
<1> QED
  BY <1>1, CommerceHolds, PTL

\* However often and in whatever order the events of a payment arrive, and however many
\* refunds it has: its money is mirrored at most once, and is what was captured less what
\* was refunded once all events are handled, unless one was lost or overtaken.
THEOREM MoneyIsFollowed == Spec => []MoneyFollowsPayment
<1>1. CommerceInv => MoneyFollowsPayment
  BY MoneyImplied DEF CommerceInv, MoneyFollowsPayment
<1> QED
  BY <1>1, CommerceHolds, PTL

\* However the menu, the store and proofs of age change under any number of checkouts and
\* reviews: customers pay for what was on sale, no item outlives its category, and what is
\* approved is what its reviewer saw, unless requests overlapped.
THEOREM SalesAreAsOffered == Spec => []SoldAsOffered
<1>1. CommerceInv => SoldAsOffered
  BY ShopImplied DEF CommerceInv, SoldAsOffered
<1> QED
  BY <1>1, CommerceHolds, PTL
=============================================================================
