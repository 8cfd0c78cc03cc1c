---------------------------- MODULE Escrow_proofs ----------------------------
(***************************************************************************)
(* Escrow for every set of workers, payments, refunds and keys, with all   *)
(* its races: the types, the wallet that never goes below zero and the one *)
(* hold per payment.  OneHoldPerPayment is not inductive: a worker past    *)
(* its check may create a second hold.  What stops it is that every hold   *)
(* left its reference in the unique index (HoldsIndexed).  EscrowKnown is  *)
(* needed for the types only.  The second half is about requests that do   *)
(* not overlap on a hold: then the wallet and the journal add up.          *)
(***************************************************************************)
EXTENDS MCEscrow, Sums, SequenceTheorems

HoldsIndexed == \A e \in Ids : <<"escrow", escrows[e].payment>> \in refs

OnEscrow == {"close_check", "close_apply", "post_check", "post_insert",
             "refund_check", "refund_apply"}

\* A request that closes, posts or refunds works on an escrow that exists.
EscrowKnown == \A w \in Workers : op[w].pc \in OnEscrow => op[w].id \in Ids

IInv ==
  TypeOK /\ NonNegative /\ OneHoldPerPayment /\ HoldsIndexed /\ EscrowKnown

Tables == <<escrows, wallet, refs, journal>>

-----------------------------------------------------------------------------
\* An operation that wallet-ops accepts leaves a well-formed snapshot with
\* both balances non-negative.
LEMMA AcceptedStaysNonNegative ==
  ASSUME NEW s \in Snapshot, NEW kind \in Kind, NEW amount \in Int,
         s.available >= 0, s.held >= 0, Sufficient(kind, s, amount)
  PROVE  /\ After(kind, s, amount) \in Snapshot
         /\ After(kind, s, amount).available >= 0
         /\ After(kind, s, amount).held >= 0
  BY DEF Snapshot, Sufficient, After, Moved, Kind,
         TakesAvailable, GivesAvailable, TakesHeld, GivesHeld

\* Appending an element keeps the others and adds one position.
LEMMA AppendFacts ==
  ASSUME NEW S, NEW q \in Seq(S), NEW x \in S
  PROVE  /\ Append(q, x) \in Seq(S)
         /\ DOMAIN Append(q, x) = DOMAIN q \cup {Len(q) + 1}
         /\ Append(q, x)[Len(q) + 1] = x
         /\ \A i \in DOMAIN q : Append(q, x)[i] = q[i]
         /\ Len(q) + 1 \notin DOMAIN q
  OBVIOUS

\* Replacing an element keeps the positions and the other elements.
LEMMA ReplaceFacts ==
  ASSUME NEW S, NEW q \in Seq(S), NEW i \in DOMAIN q, NEW x \in S
  PROVE  /\ [q EXCEPT ![i] = x] \in Seq(S)
         /\ DOMAIN [q EXCEPT ![i] = x] = DOMAIN q
         /\ [q EXCEPT ![i] = x][i] = x
         /\ \A j \in DOMAIN q : j # i => [q EXCEPT ![i] = x][j] = q[j]
<1>1. i \in 1..Len(q)
  OBVIOUS
<1> QED
  BY <1>1, ExceptSeq

LEMMA ElementIn ==
  ASSUME NEW S, NEW q \in Seq(S), NEW i \in DOMAIN q
  PROVE  q[i] \in S
  OBVIOUS

LEMMA SeqOfMore ==
  ASSUME NEW S, NEW T, S \subseteq T, NEW q \in Seq(S)
  PROVE  q \in Seq(T)
  OBVIOUS

LEMMA EscrowType ==
  ASSUME IInv, NEW e \in Ids
  PROVE  escrows[e] \in EscrowRow /\ escrows[e].amount \in Int
<1>1. escrows[e] \in EscrowRow
  BY DEF IInv, TypeOK, Ids
<1> QED
  BY <1>1 DEF EscrowRow

LEMMA IdleType == Idle \in Request /\ Idle.pc \notin OnEscrow
  BY DEF Idle, Request, References, OnEscrow

-----------------------------------------------------------------------------
\* Steps that only move a request.
LEMMA RequestKeeps ==
  ASSUME IInv, NEW w \in Workers, NEW self \in Request, Become(w, self),
         self.pc \in OnEscrow => self.id \in Ids,
         UNCHANGED Tables, left' \in Nat, faults' \in Nat
  PROVE  IInv'
<1>1. TypeOK'
  BY DEF IInv, TypeOK, Become, Tables, EscrowRow, Request, References, Ids
<1>2. EscrowKnown'
  BY DEF IInv, TypeOK, EscrowKnown, Become, Tables, Ids
<1> QED
  BY <1>1, <1>2 DEF IInv, NonNegative, OneHoldPerPayment, HoldsIndexed, Tables, Ids

LEMMA DoneKeeps ==
  ASSUME IInv, NEW w \in Workers, Done(w),
         UNCHANGED Tables, left' \in Nat, faults' \in Nat
  PROVE  IInv'
  BY IdleType, RequestKeeps DEF Done

\* With more escrows there are only more references and requests.
LEMMA TypesGrow ==
  ASSUME Ids \subseteq Ids'
  PROVE  References \subseteq References' /\ Request \subseteq Request'
<1>1. References \subseteq References'
  BY DEF References
<1>2. ASSUME NEW r \in Request
      PROVE  r \in Request'
  BY <1>1, <1>2 DEF Request
<1> QED
  BY <1>1, <1>2

\* A request that commits one wallet operation on an escrow, and moves on.
LEMMA CommitKeeps ==
  ASSUME IInv, NEW w \in Workers, NEW e \in Ids, NEW row \in EscrowRow,
         row.payment = escrows[e].payment,
         escrows' = [escrows EXCEPT ![e] = row],
         NEW kind \in Kind, NEW amount \in Int, NEW ref \in References,
         CanApply(kind, amount, ref), ApplyInTx(kind, amount, ref),
         UNCHANGED <<journal, left, faults>>,
         NEW self \in Request, Become(w, self),
         self.pc \in OnEscrow => self.id \in Ids
  PROVE  IInv'
<1>1. /\ escrows' \in Seq(EscrowRow) /\ Ids' = Ids
      /\ \A d \in Ids : escrows'[d].payment = escrows[d].payment
  BY ReplaceFacts DEF IInv, TypeOK, Ids
<1>2. wallet' \in Snapshot /\ NonNegative'
  BY AcceptedStaysNonNegative DEF IInv, TypeOK, NonNegative, CanApply, ApplyInTx
<1>3. Request \subseteq Request' /\ References \subseteq References'
  BY <1>1, TypesGrow
<1>4. /\ refs' \subseteq References' /\ refs \subseteq refs'
      /\ op' \in [Workers -> Request']
  BY <1>3 DEF IInv, TypeOK, ApplyInTx, Become
<1>5. TypeOK'
  BY <1>1, <1>2, <1>4 DEF IInv, TypeOK, EscrowRow
<1>6. OneHoldPerPayment' /\ HoldsIndexed'
  BY <1>1, <1>4 DEF IInv, OneHoldPerPayment, HoldsIndexed
<1>7. EscrowKnown'
  BY <1>1 DEF IInv, TypeOK, EscrowKnown, Become
<1> QED
  BY <1>2, <1>5, <1>6, <1>7 DEF IInv

\* The hold of a payment whose reference the unique index still had room for:
\* no earlier escrow is of this payment.
LEMMA HoldApplyKeeps ==
  ASSUME IInv, NEW w \in Workers, HoldApply(w)
  PROVE  IInv'
<1>1. PICK p \in op[w].subject :
        IF Unused(<<"escrow", p>>)
        THEN /\ ApplyInTx("collect", Captured[p], <<"escrow", p>>)
             /\ escrows' = Append(escrows,
                  [payment |-> p, status |-> "HELD", amount |-> Captured[p]])
        ELSE UNCHANGED <<escrows, wallet, refs>>
  BY DEF HoldApply
<1>2. Done(w) /\ UNCHANGED <<journal, left, faults>>
  BY DEF HoldApply
<1>3. CASE ~Unused(<<"escrow", p>>)
  BY <1>1, <1>2, <1>3, DoneKeeps DEF Tables, IInv, TypeOK
<1>4. CASE Unused(<<"escrow", p>>)
  <2> DEFINE row == [payment |-> p, status |-> "HELD", amount |-> Captured[p]]
             n == Len(escrows) + 1
  <2>1. p \in Payments /\ Captured[p] \in Nat /\ Captured[p] > 0
    BY EscrowConstants DEF IInv, TypeOK, Request
  <2>2. row \in EscrowRow /\ row.payment = p
    BY <2>1 DEF EscrowRow
  <2>3. /\ ApplyInTx("collect", Captured[p], <<"escrow", p>>)
        /\ escrows' = Append(escrows, row)
    BY <1>1, <1>4
  <2> HIDE DEF row
  <2>4. /\ escrows' \in Seq(EscrowRow) /\ Ids' = Ids \cup {n}
        /\ escrows'[n] = row /\ n \notin Ids
        /\ \A e \in Ids : escrows'[e] = escrows[e]
    BY <2>2, <2>3, AppendFacts DEF IInv, TypeOK, Ids
  <2> HIDE DEF n
  <2>5. wallet' \in Snapshot /\ NonNegative'
    <3>1. "collect" \in Kind /\ Sufficient("collect", wallet, Captured[p])
      BY <2>1 DEF Kind, Sufficient, TakesAvailable, TakesHeld
    <3> QED
      BY <2>1, <2>3, <3>1, AcceptedStaysNonNegative
         DEF IInv, TypeOK, NonNegative, ApplyInTx
  <2>6. /\ Request \subseteq Request' /\ References \subseteq References'
        /\ <<"escrow", p>> \in References
    BY <2>1, <2>4, TypesGrow DEF References
  <2>7. refs' = refs \cup {<<"escrow", p>>} /\ refs' \subseteq References'
    BY <2>3, <2>6 DEF IInv, TypeOK, ApplyInTx
  <2>8. op' = [op EXCEPT ![w] = Idle] /\ op' \in [Workers -> Request']
    BY <1>2, <2>6, IdleType DEF IInv, TypeOK, Done, Become
  <2>9. TypeOK'
    <3>1. [escrow: Ids, amount: Int] \subseteq [escrow: Ids', amount: Int]
      BY <2>4
    <3>2. journal' \in Seq([escrow: Ids', amount: Int])
      BY <1>2, <3>1, SeqOfMore DEF IInv, TypeOK
    <3> QED
      BY <1>2, <2>4, <2>5, <2>7, <2>8, <3>2 DEF IInv, TypeOK, EscrowRow
  <2>10. \A e \in Ids : escrows[e].payment # p
    BY <1>4 DEF IInv, HoldsIndexed, Unused
  <2>11. OneHoldPerPayment' /\ HoldsIndexed'
    BY <2>2, <2>4, <2>7, <2>10 DEF IInv, OneHoldPerPayment, HoldsIndexed
  <2>12. EscrowKnown'
    BY <2>4, <2>8, IdleType DEF IInv, TypeOK, EscrowKnown
  <2> QED
    BY <2>5, <2>9, <2>11, <2>12 DEF IInv
<1> QED
  BY <1>3, <1>4

\* Closing changes the status of a known escrow and nothing of its payment.
LEMMA CloseApplyKeeps ==
  ASSUME IInv, NEW w \in Workers, CloseApply(w)
  PROVE  IInv'
<1> DEFINE self == op[w]
           e == op[w].id
           kind == OpOf(op[w].mode)
<1>1. /\ self \in Request /\ self.pc = "close_apply" /\ e \in Ids
      /\ self.amount \in Int /\ self.ref \in References
  BY DEF CloseApply, At, IInv, TypeOK, EscrowKnown, OnEscrow, Request
<1>2. CASE ~CanApply(kind, self.amount, self.ref)
  BY <1>2, DoneKeeps DEF CloseApply, Tables, IInv, TypeOK
<1>3. CASE CanApply(kind, self.amount, self.ref)
  <2> DEFINE row == [escrows[e] EXCEPT !.status = ClosedStatus(self.mode)]
             next == [self EXCEPT !.pc = "post_check", !.amount = escrows[e].amount]
  <2>1. escrows[e] \in EscrowRow
    BY <1>1 DEF IInv, TypeOK, Ids
  <2>2. row \in EscrowRow /\ row.payment = escrows[e].payment
    BY <2>1 DEF EscrowRow, ClosedStatus
  <2>3. kind \in Kind
    BY DEF OpOf, Kind
  <2>4. /\ ApplyInTx(kind, self.amount, self.ref)
        /\ escrows' = [escrows EXCEPT ![e] = row]
        /\ Become(w, next) \/ Become(w, Idle)
        /\ UNCHANGED <<journal, left, faults>>
    BY <1>3 DEF CloseApply, Done
  <2>5. next \in Request /\ next.id = e
    BY <1>1, <2>1 DEF Request, EscrowRow
  <2> HIDE DEF row, next, kind
  <2>6. CASE Become(w, next)
    BY <1>1, <1>3, <2>2, <2>3, <2>4, <2>5, <2>6, CommitKeeps
  <2>7. CASE Become(w, Idle)
    BY <1>1, <1>3, <2>2, <2>3, <2>4, <2>7, IdleType, CommitKeeps
  <2> QED
    BY <2>4, <2>6, <2>7
<1> QED
  BY <1>2, <1>3

\* A refund lowers the amount of a known escrow, by what the worker read, or
\* closes it.
LEMMA RefundApplyKeeps ==
  ASSUME IInv, NEW w \in Workers, RefundApply(w)
  PROVE  IInv'
<1> DEFINE self == op[w]
           e == op[w].id
<1>1. /\ self \in Request /\ e \in Ids
      /\ self.amount \in Int /\ self.fresh \in Int /\ self.ref \in References
  BY DEF RefundApply, At, IInv, TypeOK, EscrowKnown, OnEscrow, Request
<1>2. CASE ~CanApply("unhold", self.amount, self.ref)
  BY <1>2, DoneKeeps DEF RefundApply, Tables, IInv, TypeOK
<1>3. CASE CanApply("unhold", self.amount, self.ref)
  <2> DEFINE row == Unwound(escrows[e], self)
  <2>1. escrows[e] \in EscrowRow
    BY <1>1 DEF IInv, TypeOK, Ids
  <2>2. row \in EscrowRow /\ row.payment = escrows[e].payment
    BY <1>1, <2>1 DEF EscrowRow, Unwound
  <2>3. /\ ApplyInTx("unhold", self.amount, self.ref)
        /\ escrows' = [escrows EXCEPT ![e] = row]
        /\ Become(w, Idle)
        /\ UNCHANGED <<journal, left, faults>>
    BY <1>3 DEF RefundApply, Done
  <2>4. "unhold" \in Kind
    BY DEF Kind
  <2> HIDE DEF row
  <2> QED
    BY <1>1, <1>3, <2>2, <2>3, <2>4, IdleType, CommitKeeps
<1> QED
  BY <1>2, <1>3

\* The insert of a release's journal entry.
LEMMA PostInsertKeeps ==
  ASSUME IInv, NEW w \in Workers, PostInsert(w)
  PROVE  IInv'
<1> DEFINE entry == [escrow |-> op[w].id, amount |-> op[w].amount]
<1>1. /\ entry \in [escrow: Ids, amount: Int]
      /\ journal' = Append(journal, entry) /\ Done(w)
      /\ UNCHANGED <<escrows, wallet, refs, left, faults>>
  BY DEF PostInsert, At, IInv, TypeOK, EscrowKnown, OnEscrow, Request
<1> HIDE DEF entry
<1>2. journal' \in Seq([escrow: Ids, amount: Int])
  BY <1>1, AppendFacts DEF IInv, TypeOK
<1>3. Ids' = Ids /\ op' = [op EXCEPT ![w] = Idle]
  BY <1>1 DEF Ids, Done, Become
<1>4. Request \subseteq Request' /\ References \subseteq References'
  BY <1>3, TypesGrow
<1>5. TypeOK'
  BY <1>1, <1>2, <1>3, <1>4, IdleType DEF IInv, TypeOK, EscrowRow
<1>6. EscrowKnown'
  BY <1>3, IdleType DEF IInv, TypeOK, EscrowKnown
<1> QED
  BY <1>1, <1>3, <1>5, <1>6
     DEF IInv, NonNegative, OneHoldPerPayment, HoldsIndexed

\* A request that arrives.
LEMMA AcceptKeeps ==
  ASSUME IInv, NEW w \in Workers, NEW self \in Request, Accept(w, self),
         self.pc \in OnEscrow => self.id \in Ids
  PROVE  IInv'
<1>1. Become(w, self) /\ UNCHANGED Tables /\ left' \in Nat /\ faults' \in Nat
  BY DEF Accept, Tables, IInv, TypeOK
<1> QED
  BY <1>1, RequestKeeps

LEMMA StartKeeps ==
  ASSUME IInv, NEW w \in Workers,
         \/ \E p \in Payments : HoldStart(w, p)
         \/ \E e \in Ids, mode \in Modes, key \in Keys \cup {NoKey} :
              CloseStart(w, e, mode, key)
         \/ \E r \in Refunds : RefundStart(w, r)
  PROVE  IInv'
<1>1. ASSUME NEW p \in Payments, HoldStart(w, p)
      PROVE  IInv'
  <2> DEFINE self == [Idle EXCEPT !.pc = "hold_check", !.subject = {p}]
  <2>1. self \in Request /\ self.pc \notin OnEscrow
    BY IdleType DEF Request, OnEscrow
  <2>2. Accept(w, self)
    BY <1>1 DEF HoldStart
  <2> HIDE DEF self
  <2> QED
    BY <2>1, <2>2, AcceptKeeps
<1>2. ASSUME NEW e \in Ids, NEW mode \in Modes, NEW key \in Keys \cup {NoKey},
             CloseStart(w, e, mode, key)
      PROVE  IInv'
  <2> DEFINE self == [Idle EXCEPT !.pc = "close_check", !.mode = mode, !.id = e,
                                  !.amount = escrows[e].amount,
                                  !.ref = CloseReference(mode, e, key)]
  <2>1. escrows[e].amount \in Int /\ mode \in {"release", "forfeit", "refund"}
    BY EscrowConstants, EscrowType
  <2>2. CloseReference(mode, e, key) \in References
    BY DEF CloseReference, References
  <2>3. self \in Request /\ self.id = e
    BY <2>1, <2>2, IdleType DEF Request
  <2>4. Accept(w, self)
    BY <1>2 DEF CloseStart
  <2> HIDE DEF self
  <2> QED
    BY <2>3, <2>4, AcceptKeeps
<1>3. ASSUME NEW r \in Refunds, RefundStart(w, r)
      PROVE  IInv'
  <2>1. PICK e \in HeldEscrowsOf(r.payment) :
          Accept(w, [Idle EXCEPT
            !.pc = "refund_check", !.id = e,
            !.full = r.amount >= escrows[e].amount,
            !.amount = IF r.amount >= escrows[e].amount THEN escrows[e].amount
                       ELSE r.amount,
            !.ref = <<"refund", r.id>>])
    BY <1>3 DEF RefundStart
  <2> DEFINE self == [Idle EXCEPT
            !.pc = "refund_check", !.id = e,
            !.full = r.amount >= escrows[e].amount,
            !.amount = IF r.amount >= escrows[e].amount THEN escrows[e].amount
                       ELSE r.amount,
            !.ref = <<"refund", r.id>>]
  <2>2. e \in Ids /\ escrows[e].amount \in Int /\ r.amount \in Int
    BY EscrowConstants, EscrowType DEF HeldEscrowsOf, EscrowsOf
  <2>3. <<"refund", r.id>> \in References
    BY DEF References
  <2>4. self \in Request /\ self.id = e
    <3>1. Idle \in Request
      BY IdleType
    <3>2. ASSUME NEW full \in BOOLEAN, NEW amount \in Int, NEW ref \in References
          PROVE  LET new == [Idle EXCEPT !.pc = "refund_check", !.id = e, !.full = full,
                                         !.amount = amount, !.ref = ref] IN
                 new \in Request /\ new.id = e
      BY <2>2, <3>1 DEF Request
    <3>3. /\ (r.amount >= escrows[e].amount) \in BOOLEAN
          /\ (IF r.amount >= escrows[e].amount THEN escrows[e].amount ELSE r.amount)
               \in Int
      BY <2>2
    <3> QED
      BY <2>3, <3>2, <3>3
  <2>5. Accept(w, self)
    BY <2>1
  <2> HIDE DEF self
  <2> QED
    BY <2>2, <2>4, <2>5, AcceptKeeps
<1> QED
  BY <1>1, <1>2, <1>3

\* The second reads, inside the transaction, and the lookup of the journal.
LEMMA CheckKeeps ==
  ASSUME IInv, NEW w \in Workers,
         HoldCheck(w) \/ CloseCheck(w) \/ PostCheck(w) \/ RefundCheck(w)
  PROVE  IInv'
<1>1. UNCHANGED Tables /\ left' \in Nat /\ faults' \in Nat
  BY DEF HoldCheck, CloseCheck, PostCheck, RefundCheck, Tables, IInv, TypeOK
<1>2. op[w] \in Request /\ (op[w].pc \in OnEscrow => op[w].id \in Ids)
  BY DEF IInv, TypeOK, EscrowKnown
<1>3. CASE Done(w)
  BY <1>1, <1>3, DoneKeeps
<1>4. CASE Become(w, [op[w] EXCEPT !.pc = "hold_apply"])
  <2>1. /\ [op[w] EXCEPT !.pc = "hold_apply"] \in Request
        /\ [op[w] EXCEPT !.pc = "hold_apply"].pc \notin OnEscrow
    BY <1>2 DEF Request, OnEscrow
  <2> QED
    BY <1>1, <1>4, <2>1, RequestKeeps
<1>5. ASSUME NEW pc \in {"close_apply", "post_insert"}, op[w].pc \in OnEscrow,
             Become(w, [op[w] EXCEPT !.pc = pc])
      PROVE  IInv'
  <2>1. /\ [op[w] EXCEPT !.pc = pc] \in Request
        /\ [op[w] EXCEPT !.pc = pc].id \in Ids
    BY <1>2, <1>5 DEF Request
  <2> QED
    BY <1>1, <1>5, <2>1, RequestKeeps
<1>6. ASSUME op[w].pc \in OnEscrow,
             Become(w, [op[w] EXCEPT !.pc = "refund_apply",
                                     !.fresh = escrows[op[w].id].amount])
      PROVE  IInv'
  <2> DEFINE self == [op[w] EXCEPT !.pc = "refund_apply",
                                   !.fresh = escrows[op[w].id].amount]
  <2>1. escrows[op[w].id].amount \in Int
    BY <1>2, <1>6, EscrowType
  <2>2. self \in Request /\ self.id \in Ids
    BY <1>2, <1>6, <2>1 DEF Request
  <2>3. Become(w, self)
    BY <1>6
  <2> HIDE DEF self
  <2> QED
    BY <1>1, <2>2, <2>3, RequestKeeps
<1>7. CASE HoldCheck(w)
  BY <1>3, <1>4, <1>7 DEF HoldCheck
<1>8. CASE CloseCheck(w)
  BY <1>3, <1>5, <1>8 DEF CloseCheck, At, OnEscrow
<1>9. CASE PostCheck(w)
  BY <1>3, <1>5, <1>9 DEF PostCheck, At, OnEscrow
<1>10. CASE RefundCheck(w)
  BY <1>3, <1>6, <1>10 DEF RefundCheck, At, OnEscrow
<1> QED
  BY <1>7, <1>8, <1>9, <1>10

LEMMA AbortKeeps ==
  ASSUME IInv, NEW w \in Workers, Abort(w)
  PROVE  IInv'
  BY DoneKeeps DEF Abort, Tables, IInv, TypeOK

-----------------------------------------------------------------------------
LEMMA InitHolds == Init => IInv
<1> SUFFICES ASSUME Init PROVE IInv
  OBVIOUS
<1>1. Ids = {}
  BY DEF Init, Ids
<1>2. TypeOK
  BY IdleType, EscrowConstants DEF Init, TypeOK, Snapshot, Empty
<1> QED
  BY <1>1, <1>2, IdleType
     DEF IInv, Init, NonNegative, Empty, OneHoldPerPayment, HoldsIndexed, EscrowKnown

LEMMA StepKeeps == IInv /\ [Next]_vars => IInv'
<1> SUFFICES ASSUME IInv, [Next]_vars PROVE IInv'
  OBVIOUS
<1>1. CASE Next
  <2>1. PICK w \in Workers :
          \/ \E p \in Payments : HoldStart(w, p)
          \/ HoldCheck(w) \/ HoldApply(w)
          \/ \E e \in Ids, mode \in Modes, key \in Keys \cup {NoKey} :
               CloseStart(w, e, mode, key)
          \/ CloseCheck(w) \/ CloseApply(w) \/ PostCheck(w) \/ PostInsert(w)
          \/ \E r \in Refunds : RefundStart(w, r)
          \/ RefundCheck(w) \/ RefundApply(w)
          \/ Abort(w)
    BY <1>1 DEF Next
  <2> QED
    BY <2>1, StartKeeps, CheckKeeps, HoldApplyKeeps, CloseApplyKeeps,
       RefundApplyKeeps, PostInsertKeeps, AbortKeeps
<1>2. CASE UNCHANGED vars
  <2>1. TypeOK'
    BY <1>2 DEF vars, IInv, TypeOK, EscrowRow, Request, References, Ids
  <2> QED
    BY <1>2, <2>1
       DEF vars, IInv, NonNegative, OneHoldPerPayment, HoldsIndexed, EscrowKnown, Ids
<1> QED
  BY <1>1, <1>2

\* The inductive invariant of EscrowService.
THEOREM Invariant == Spec => []IInv
  BY InitHolds, StepKeeps, PTL DEF Spec

\* Every reachable state of the escrow tables and requests is well-formed.
THEOREM TypeCorrect == Spec => []TypeOK
<1>1. IInv => TypeOK
  BY DEF IInv
<1> QED
  BY <1>1, Invariant, PTL

\* However the two reads of ensureHoldForPayment interleave between listeners,
\* the unique index on (wallet_id, reference) leaves one hold per payment.
THEOREM HoldOnce == Spec => []OneHoldPerPayment
<1>1. IInv => OneHoldPerPayment
  BY DEF IInv
<1> QED
  BY <1>1, Invariant, PTL

\* Closing and refunding with stale amounts can take another payment's hold,
\* but it never drives the wallet's balances below zero.
THEOREM NeverNegative == Spec => []NonNegative
<1>1. IInv => NonNegative
  BY DEF IInv
<1> QED
  BY <1>1, Invariant, PTL

\* One hold per payment and balances that are never negative, together.
THEOREM HoldsAreSound == Spec => []HoldsSound
<1>1. IInv => HoldsSound
  BY DEF IInv, HoldsSound
<1> QED
  BY <1>1, Invariant, PTL

-----------------------------------------------------------------------------
\* One request at a time on a hold: what each step does.

Closing == {"close_check", "close_apply"}
Refunding == {"refund_check", "refund_apply"}
InPosting == {"post_check", "post_insert"}

JournaledIds == {journal[i].escrow : i \in DOMAIN journal}

WorkerStep(w) ==
  \/ \E p \in Payments : HoldStart(w, p)
  \/ HoldCheck(w) \/ HoldApply(w)
  \/ \E e \in Ids, mode \in Modes, key \in Keys \cup {NoKey} : CloseStart(w, e, mode, key)
  \/ CloseCheck(w) \/ CloseApply(w) \/ PostCheck(w) \/ PostInsert(w)
  \/ \E r \in Refunds : RefundStart(w, r)
  \/ RefundCheck(w) \/ RefundApply(w)
  \/ Abort(w)

LEMMA NextSteps == Next <=> \E w \in Workers : WorkerStep(w)
  BY DEF Next, WorkerStep

\* The request goes on to pc, on the same hold, with what it has read.
Moves(w, pc) ==
  /\ op'[w].pc = pc /\ op'[w].id = op[w].id /\ op'[w].amount = op[w].amount
  /\ op'[w].full = op[w].full /\ op'[w].ref = op[w].ref

\* A step that changes no table.
Quiet(w) ==
  /\ UNCHANGED Tables
  /\ \/ /\ op'[w] = Idle
        /\ op[w].pc \in InPosting => op[w].id \in JournaledIds \/ faults' < faults
     \/ op[w].pc = "idle" /\ op'[w].pc = "hold_check"
     \/ op[w].pc = "hold_check" /\ op'[w].pc = "hold_apply"
     \/ \E e \in Ids : /\ op[w].pc = "idle" /\ op'[w].pc = "close_check" /\ op'[w].id = e
                       /\ escrows[e].status = "HELD" /\ op'[w].amount = escrows[e].amount
     \/ \E e \in Ids : /\ op[w].pc = "idle" /\ op'[w].pc = "refund_check" /\ op'[w].id = e
                       /\ escrows[e].status = "HELD"
                       /\ op'[w].full => op'[w].amount = escrows[e].amount
     \/ op[w].pc = "close_check" /\ Moves(w, "close_apply")
     \/ /\ op[w].pc = "refund_check" /\ Moves(w, "refund_apply")
        /\ op'[w].fresh = escrows[op[w].id].amount
     \/ op[w].pc = "post_check" /\ Moves(w, "post_insert") /\ op[w].id \notin JournaledIds

\* HoldApply that inserts the hold of p.
NewHold(w, p) ==
  /\ escrows' = Append(escrows, [payment |-> p, status |-> "HELD", amount |-> Captured[p]])
  /\ wallet'.held = wallet.held + Captured[p] /\ wallet'.available = wallet.available
  /\ refs \subseteq refs' /\ journal' = journal
  /\ op[w].pc = "hold_apply" /\ op'[w] = Idle

\* An admin's or a refund's transaction that commits: the hold becomes row.
Commits(w, row, held, available) ==
  /\ escrows' = [escrows EXCEPT ![op[w].id] = row]
  /\ wallet'.held = wallet.held + held /\ wallet'.available = wallet.available + available
  /\ op[w].ref \notin refs /\ refs' = refs \cup {op[w].ref} /\ journal' = journal

ClosesHold(w) ==
  LET e == op[w].id
      row == [escrows[e] EXCEPT !.status = ClosedStatus(op[w].mode)] IN
  /\ op[w].pc = "close_apply"
  /\ \/ /\ op[w].mode = "release" /\ Commits(w, row, -op[w].amount, op[w].amount)
        /\ op'[w].pc = "post_check" /\ op'[w].id = e /\ op'[w].amount = escrows'[e].amount
     \/ /\ op[w].mode # "release" /\ Commits(w, row, -op[w].amount, 0) /\ op'[w] = Idle

RefundsHold(w) ==
  /\ op[w].pc = "refund_apply" /\ op'[w] = Idle
  /\ Commits(w, Unwound(escrows[op[w].id], op[w]), -op[w].amount, 0)

PostsRelease(w) ==
  /\ op[w].pc = "post_insert" /\ op'[w] = Idle
  /\ journal' = Append(journal, [escrow |-> op[w].id, amount |-> op[w].amount])
  /\ UNCHANGED <<escrows, wallet, refs>>

LEMMA BecomeEffect ==
  ASSUME IInv, NEW w \in Workers, NEW self, Become(w, self)
  PROVE  op'[w] = self /\ \A v \in Workers : v # w => op'[v] = op[v]
  BY DEF IInv, TypeOK, Become

LEMMA IdleFacts == Idle.pc = "idle" /\ Idle.id = 0
  BY DEF Idle

LEMMA Alone ==
  ASSUME IInv, NEW w \in Workers, WorkerStep(w)
  PROVE  \A v \in Workers : v # w => op'[v] = op[v]
<1>1. \E self : Become(w, self)
  BY DEF WorkerStep, HoldStart, HoldCheck, HoldApply, CloseStart, CloseCheck, CloseApply,
         PostCheck, PostInsert, RefundStart, RefundCheck, RefundApply, Abort, Accept, Done
<1> QED
  BY <1>1, BecomeEffect

LEMMA StartIsQuiet ==
  ASSUME IInv, NEW w \in Workers,
         \/ \E p \in Payments : HoldStart(w, p)
         \/ \E e \in Ids, mode \in Modes, key \in Keys \cup {NoKey} :
              CloseStart(w, e, mode, key)
         \/ \E r \in Refunds : RefundStart(w, r)
  PROVE  Quiet(w)
<1>1. ASSUME NEW p \in Payments, HoldStart(w, p)
      PROVE  Quiet(w)
  <2>1. /\ op'[w] = [Idle EXCEPT !.pc = "hold_check", !.subject = {p}]
        /\ op[w].pc = "idle" /\ UNCHANGED Tables
    BY <1>1, BecomeEffect DEF HoldStart, Accept, At, Tables
  <2>2. op'[w].pc = "hold_check"
    BY <2>1 DEF Idle
  <2> QED
    BY <2>1, <2>2 DEF Quiet
<1>2. ASSUME NEW e \in Ids, NEW mode \in Modes, NEW key \in Keys \cup {NoKey},
             CloseStart(w, e, mode, key)
      PROVE  Quiet(w)
  <2>1. /\ op'[w] = [Idle EXCEPT !.pc = "close_check", !.mode = mode, !.id = e,
                                 !.amount = escrows[e].amount,
                                 !.ref = CloseReference(mode, e, key)]
        /\ escrows[e].status = "HELD" /\ op[w].pc = "idle" /\ UNCHANGED Tables
    BY <1>2, BecomeEffect DEF CloseStart, StillHeld, Accept, At, Tables
  <2>2. op'[w].pc = "close_check" /\ op'[w].id = e /\ op'[w].amount = escrows[e].amount
    BY <2>1 DEF Idle
  <2> QED
    BY <2>1, <2>2 DEF Quiet
<1>3. ASSUME NEW r \in Refunds, RefundStart(w, r)
      PROVE  Quiet(w)
  <2>1. PICK e \in HeldEscrowsOf(r.payment) :
          Accept(w, [Idle EXCEPT
            !.pc = "refund_check", !.id = e,
            !.full = r.amount >= escrows[e].amount,
            !.amount = IF r.amount >= escrows[e].amount THEN escrows[e].amount
                       ELSE r.amount,
            !.ref = <<"refund", r.id>>])
    BY <1>3 DEF RefundStart
  <2>2. e \in Ids /\ escrows[e].status = "HELD"
    BY DEF HeldEscrowsOf, EscrowsOf
  <2>3. ASSUME NEW full, NEW amount, NEW ref,
               Accept(w, [Idle EXCEPT !.pc = "refund_check", !.id = e, !.full = full,
                                      !.amount = amount, !.ref = ref])
        PROVE  /\ op[w].pc = "idle" /\ UNCHANGED Tables
               /\ op'[w].pc = "refund_check" /\ op'[w].id = e /\ op'[w].full = full
               /\ op'[w].amount = amount
    <3>1. /\ op'[w] = [Idle EXCEPT !.pc = "refund_check", !.id = e, !.full = full,
                                   !.amount = amount, !.ref = ref]
          /\ op[w].pc = "idle" /\ UNCHANGED Tables
      BY <2>3, BecomeEffect DEF Accept, At, Tables
    <3> QED
      BY <3>1 DEF Idle
  <2>4. /\ op[w].pc = "idle" /\ UNCHANGED Tables
        /\ op'[w].pc = "refund_check" /\ op'[w].id = e
        /\ op'[w].full = (r.amount >= escrows[e].amount)
        /\ op'[w].amount = IF r.amount >= escrows[e].amount THEN escrows[e].amount ELSE r.amount
    BY <2>1, <2>3
  <2> QED
    BY <2>2, <2>4 DEF Quiet
<1> QED
  BY <1>1, <1>2, <1>3

LEMMA CheckIsQuiet ==
  ASSUME IInv, NEW w \in Workers,
         HoldCheck(w) \/ CloseCheck(w) \/ PostCheck(w) \/ RefundCheck(w) \/ Abort(w)
  PROVE  Quiet(w)
<1>1. op[w] \in Request /\ UNCHANGED Tables
  BY DEF IInv, TypeOK, HoldCheck, CloseCheck, PostCheck, RefundCheck, Abort, Tables
<1>2. ASSUME NEW pc, Become(w, [op[w] EXCEPT !.pc = pc])
      PROVE  Moves(w, pc)
  BY <1>1, <1>2, BecomeEffect DEF Request, Moves
<1>3. CASE HoldCheck(w)
  BY <1>1, <1>2, <1>3, BecomeEffect DEF HoldCheck, Done, At, Quiet, Moves, InPosting
<1>4. CASE CloseCheck(w)
  BY <1>1, <1>2, <1>4, BecomeEffect DEF CloseCheck, Done, At, Quiet, InPosting
<1>5. CASE PostCheck(w)
  BY <1>1, <1>2, <1>5, BecomeEffect DEF PostCheck, Done, At, Quiet, InPosting, JournaledIds
<1>6. CASE RefundCheck(w)
  <2>1. CASE Done(w)
    BY <1>1, <1>6, <2>1, BecomeEffect DEF RefundCheck, Done, At, Quiet, InPosting
  <2>2. CASE Become(w, [op[w] EXCEPT !.pc = "refund_apply", !.fresh = escrows[op[w].id].amount])
    <3>1. op'[w] = [op[w] EXCEPT !.pc = "refund_apply", !.fresh = escrows[op[w].id].amount]
      BY <2>2, BecomeEffect
    <3>2. Moves(w, "refund_apply") /\ op'[w].fresh = escrows[op[w].id].amount
      BY <1>1, <3>1 DEF Request, Moves
    <3> QED
      BY <1>1, <1>6, <3>2 DEF RefundCheck, At, Quiet
  <2> QED
    BY <1>6, <2>1, <2>2 DEF RefundCheck
<1>7. CASE Abort(w)
  <2>1. op'[w] = Idle /\ faults' = faults - 1 /\ faults \in Nat
    BY <1>7, BecomeEffect DEF Abort, Done, IInv, TypeOK
  <2>2. faults' < faults
    BY <2>1
  <2> QED
    BY <1>1, <2>1, <2>2 DEF Quiet
<1> QED
  BY <1>3, <1>4, <1>5, <1>6, <1>7

LEMMA StepEffect ==
  ASSUME IInv, NEW w \in Workers, WorkerStep(w)
  PROVE  /\ \/ Quiet(w) \/ (\E p \in Payments : NewHold(w, p))
            \/ ClosesHold(w) \/ RefundsHold(w) \/ PostsRelease(w)
         /\ faults' = faults \/ faults' < faults
<1>0. op[w] \in Request
  BY DEF IInv, TypeOK
<1>1. CASE HoldApply(w)
  <2>1. PICK p \in op[w].subject :
          IF Unused(<<"escrow", p>>)
          THEN /\ ApplyInTx("collect", Captured[p], <<"escrow", p>>)
               /\ escrows' = Append(escrows,
                    [payment |-> p, status |-> "HELD", amount |-> Captured[p]])
          ELSE UNCHANGED <<escrows, wallet, refs>>
    BY <1>1 DEF HoldApply
  <2>2. op'[w] = Idle /\ UNCHANGED <<journal, left, faults>> /\ op[w].pc = "hold_apply"
    BY <1>1, BecomeEffect DEF HoldApply, Done, At
  <2>3. CASE Unused(<<"escrow", p>>)
    <3>1. p \in Payments /\ Captured[p] \in Nat
      BY <1>0, EscrowConstants DEF Request
    <3>2. /\ wallet' = After("collect", wallet, Captured[p]) /\ refs \subseteq refs'
          /\ wallet \in Snapshot
      BY <2>1, <2>3 DEF ApplyInTx, IInv, TypeOK
    <3>3. wallet'.held = wallet.held + Captured[p] /\ wallet'.available = wallet.available
      BY <3>1, <3>2 DEF After, Moved, GivesHeld, GivesAvailable, TakesHeld, TakesAvailable, Snapshot
    <3> QED
      BY <2>1, <2>2, <2>3, <3>1, <3>2, <3>3 DEF NewHold
  <2>4. CASE ~Unused(<<"escrow", p>>)
    BY <2>1, <2>2, <2>4 DEF Quiet, Tables, InPosting
  <2> QED
    BY <2>3, <2>4
<1>2. CASE CloseApply(w)
  <2> DEFINE e == op[w].id
             kind == OpOf(op[w].mode)
             row == [escrows[e] EXCEPT !.status = ClosedStatus(op[w].mode)]
             next == [op[w] EXCEPT !.pc = "post_check", !.amount = escrows[e].amount]
  <2>1. op[w].pc = "close_apply" /\ UNCHANGED <<journal, left, faults>>
    BY <1>2 DEF CloseApply, At
  <2>2. CASE ~CanApply(kind, op[w].amount, op[w].ref)
    <3>1. op'[w] = Idle /\ UNCHANGED <<escrows, wallet, refs>>
      BY <1>2, <2>2, BecomeEffect DEF CloseApply, Done
    <3> QED
      BY <2>1, <3>1 DEF Quiet, Tables, InPosting
  <2>3. CASE CanApply(kind, op[w].amount, op[w].ref)
    <3>1. /\ ApplyInTx(kind, op[w].amount, op[w].ref)
          /\ escrows' = [escrows EXCEPT ![e].status = ClosedStatus(op[w].mode)]
          /\ IF op[w].mode = "release" THEN op'[w] = next ELSE op'[w] = Idle
      BY <1>2, <2>3, BecomeEffect DEF CloseApply, Done
    <3>2. /\ op[w].ref \notin refs /\ refs' = refs \cup {op[w].ref}
          /\ wallet' = After(kind, wallet, op[w].amount) /\ wallet \in Snapshot
          /\ op[w].amount \in Int /\ op[w].mode \in {"release", "forfeit", "refund"}
      BY <1>0, <2>3, <3>1 DEF CanApply, Unused, ApplyInTx, IInv, TypeOK, Request
    <3>3. /\ wallet'.held = wallet.held + -op[w].amount
          /\ wallet'.available = wallet.available + IF op[w].mode = "release" THEN op[w].amount ELSE 0
      <4>1. CASE op[w].mode = "release"
        BY <3>2, <4>1 DEF OpOf, After, Moved, GivesHeld, GivesAvailable, TakesHeld, TakesAvailable, Snapshot
      <4>2. CASE op[w].mode # "release"
        BY <3>2, <4>2 DEF OpOf, After, Moved, GivesHeld, GivesAvailable, TakesHeld, TakesAvailable, Snapshot
      <4> QED
        BY <4>1, <4>2
    <3>4. e \in Ids /\ escrows[e] \in EscrowRow
      BY <2>1, EscrowType DEF IInv, EscrowKnown, OnEscrow
    <3>5. escrows' = [escrows EXCEPT ![e] = row]
      BY <3>1
    <3>6. escrows'[e].amount = escrows[e].amount
      BY <3>1, <3>4 DEF EscrowRow, Ids
    <3>7. next.pc = "post_check" /\ next.id = e /\ next.amount = escrows[e].amount
      BY <1>0 DEF Request
    <3>8. CASE op[w].mode = "release"
      <4>1. Commits(w, row, -op[w].amount, op[w].amount)
        BY <2>1, <3>2, <3>3, <3>5, <3>8 DEF Commits
      <4>2. op'[w].pc = "post_check" /\ op'[w].id = e /\ op'[w].amount = escrows'[e].amount
        BY <3>1, <3>6, <3>7, <3>8
      <4> QED
        BY <2>1, <3>8, <4>1, <4>2 DEF ClosesHold
    <3>9. CASE op[w].mode # "release"
      <4>1. Commits(w, row, -op[w].amount, 0)
        BY <2>1, <3>2, <3>3, <3>5, <3>9 DEF Commits
      <4> QED
        BY <2>1, <3>1, <3>9, <4>1 DEF ClosesHold
    <3> QED
      BY <2>1, <3>8, <3>9
  <2> QED
    BY <2>2, <2>3
<1>3. CASE RefundApply(w)
  <2>1. op[w].pc = "refund_apply" /\ UNCHANGED <<journal, left, faults>> /\ op'[w] = Idle
    BY <1>3, BecomeEffect DEF RefundApply, Done, At
  <2>2. CASE ~CanApply("unhold", op[w].amount, op[w].ref)
    BY <1>3, <2>1, <2>2 DEF RefundApply, Quiet, Tables, InPosting
  <2>3. CASE CanApply("unhold", op[w].amount, op[w].ref)
    <3>1. /\ ApplyInTx("unhold", op[w].amount, op[w].ref)
          /\ escrows' = [escrows EXCEPT ![op[w].id] = Unwound(escrows[op[w].id], op[w])]
      BY <1>3, <2>3 DEF RefundApply
    <3>2. /\ op[w].ref \notin refs /\ refs' = refs \cup {op[w].ref}
          /\ wallet' = After("unhold", wallet, op[w].amount) /\ wallet \in Snapshot
          /\ op[w].amount \in Int
      BY <1>0, <2>3, <3>1 DEF CanApply, Unused, ApplyInTx, IInv, TypeOK, Request
    <3>3. wallet'.held = wallet.held + -op[w].amount /\ wallet'.available = wallet.available + 0
      BY <3>2 DEF After, Moved, GivesHeld, GivesAvailable, TakesHeld, TakesAvailable, Snapshot
    <3>4. Commits(w, Unwound(escrows[op[w].id], op[w]), -op[w].amount, 0)
      BY <2>1, <3>1, <3>2, <3>3 DEF Commits
    <3> QED
      BY <2>1, <3>4 DEF RefundsHold
  <2> QED
    BY <2>2, <2>3
<1>4. CASE PostInsert(w)
  BY <1>4, BecomeEffect DEF PostInsert, Done, At, PostsRelease
<1>5. CASE Abort(w)
  <2>1. faults' = faults - 1 /\ faults \in Nat
    BY <1>5 DEF Abort, IInv, TypeOK
  <2> QED
    BY <1>5, <2>1, CheckIsQuiet
<1>6. ASSUME WorkerStep(w), ~HoldApply(w), ~CloseApply(w), ~RefundApply(w), ~PostInsert(w), ~Abort(w)
      PROVE  Quiet(w) /\ faults' = faults
  <2>1. \/ \E p \in Payments : HoldStart(w, p)
        \/ \E e \in Ids, mode \in Modes, key \in Keys \cup {NoKey} : CloseStart(w, e, mode, key)
        \/ \E r \in Refunds : RefundStart(w, r)
        \/ HoldCheck(w) \/ CloseCheck(w) \/ PostCheck(w) \/ RefundCheck(w)
    BY <1>6 DEF WorkerStep
  <2>2. faults' = faults
    BY <2>1 DEF HoldStart, CloseStart, RefundStart, Accept, HoldCheck, CloseCheck, PostCheck, RefundCheck
  <2> QED
    BY <2>1, <2>2, StartIsQuiet, CheckIsQuiet
<1> QED
  BY <1>1, <1>2, <1>3, <1>4, <1>5, <1>6

-----------------------------------------------------------------------------
\* The invariant of requests that do not overlap on a hold.

\* What a request has read is still so, unless its reference has been used.
Fresh(self, es, rs) ==
  /\ self.pc \in Closing \cup Refunding /\ self.ref \notin rs =>
       /\ es[self.id].status = "HELD"
       /\ self.pc \in Closing \/ self.full => self.amount = es[self.id].amount
       /\ self.pc = "refund_apply" => self.fresh = es[self.id].amount
  /\ self.pc \in InPosting =>
       es[self.id].status = "RELEASED" /\ self.amount = es[self.id].amount

HeldOf == [e \in Ids |-> IF escrows[e].status = "HELD" THEN escrows[e].amount ELSE 0]
ReleasedOf == [e \in Ids |-> IF escrows[e].status = "RELEASED" THEN escrows[e].amount ELSE 0]
JournaledOf == [e \in Ids |-> IF e \in JournaledIds THEN escrows[e].amount ELSE 0]
Entries == [i \in DOMAIN journal |-> journal[i].amount]

Balanced ==
  wallet.held = SumOver(HeldOf, Ids) /\ wallet.available = SumOver(ReleasedOf, Ids)

\* A release is journaled by the one request that made it.
Booked ==
  /\ \A e \in JournaledIds : escrows[e].status = "RELEASED"
  /\ \A w \in Workers : op[w].pc = "post_insert" => op[w].id \notin JournaledIds
  /\ \A v, w \in Posting : op[v].id = op[w].id => v = w
  /\ SumOver(Entries, DOMAIN journal) = SumOver(JournaledOf, Ids)
  /\ faults <= MaxFaults
  /\ faults = MaxFaults =>
       \A e \in Ids : escrows[e].status = "RELEASED" =>
         e \in JournaledIds \/ \E w \in Posting : op[w].id = e

Orderly ==
  ~mixed =>
    /\ ~Overlap
    /\ \A w \in Workers : Fresh(op[w], escrows, refs)
    /\ Balanced /\ Booked

LEMMA TableFacts ==
  ASSUME IInv
  PROVE  /\ Ids = 1..Len(escrows) /\ Len(escrows) \in Nat /\ IsFiniteSet(Ids)
         /\ DOMAIN journal = 1..Len(journal) /\ Len(journal) \in Nat
         /\ IsFiniteSet(DOMAIN journal) /\ JournaledIds \subseteq Ids
         /\ \A e \in Ids : escrows[e].amount \in Int
         /\ \A e \in Ids : HeldOf[e] \in Int /\ ReleasedOf[e] \in Int /\ JournaledOf[e] \in Int
         /\ \A i \in DOMAIN journal : Entries[i] = journal[i].amount /\ Entries[i] \in Int
         /\ wallet.held \in Int /\ wallet.available \in Int /\ faults \in Nat
<1>1. /\ Ids = 1..Len(escrows) /\ Len(escrows) \in Nat
      /\ DOMAIN journal = 1..Len(journal) /\ Len(journal) \in Nat
  BY DEF IInv, TypeOK, Ids
<1>2. IsFiniteSet(Ids) /\ IsFiniteSet(DOMAIN journal)
  BY <1>1, FS_Interval
<1>3. \A i \in DOMAIN journal : journal[i] \in [escrow: Ids, amount: Int]
  BY ElementIn DEF IInv, TypeOK
<1>4. JournaledIds \subseteq Ids
  BY <1>3 DEF JournaledIds
<1>5. \A e \in Ids : escrows[e].amount \in Int
  BY EscrowType
<1>6. \A e \in Ids : HeldOf[e] \in Int /\ ReleasedOf[e] \in Int /\ JournaledOf[e] \in Int
  BY <1>5 DEF HeldOf, ReleasedOf, JournaledOf
<1>7. \A i \in DOMAIN journal : Entries[i] = journal[i].amount /\ Entries[i] \in Int
  BY <1>3 DEF Entries
<1>8. wallet.held \in Int /\ wallet.available \in Int /\ faults \in Nat
  BY DEF IInv, TypeOK, Snapshot
<1> QED
  BY <1>1, <1>2, <1>4, <1>5, <1>6, <1>7, <1>8

LEMMA TableFactsNext ==
  (IInv => /\ IsFiniteSet(Ids)
           /\ \A e \in Ids : HeldOf[e] \in Int /\ ReleasedOf[e] \in Int /\ JournaledOf[e] \in Int
           /\ \A i \in DOMAIN journal : Entries[i] = journal[i].amount /\ Entries[i] \in Int)'
<1>1. IInv =>
        /\ IsFiniteSet(Ids)
        /\ \A e \in Ids : HeldOf[e] \in Int /\ ReleasedOf[e] \in Int /\ JournaledOf[e] \in Int
        /\ \A i \in DOMAIN journal : Entries[i] = journal[i].amount /\ Entries[i] \in Int
  BY TableFacts
<1> QED
  BY <1>1, PTL

LEMMA HeldIsSum ==
  ASSUME IInv
  PROVE  Sum({e \in Ids : escrows[e].status = "HELD"}) = SumOver(HeldOf, Ids)
<1> DEFINE H == {e \in Ids : escrows[e].status = "HELD"}
           f == [e \in Ids |-> escrows[e].amount]
           h == [e \in H |-> escrows[e].amount]
<1>1. Sum(H) = SumOver(h, H)
  <2> HIDE DEF H
  <2> QED
    BY SumOfAmounts DEF Sum
<1>2. IsFiniteSet(Ids) /\ H \in SUBSET Ids /\ IsFiniteSet(H) /\ \A e \in Ids : escrows[e].amount \in Int
  BY TableFacts, FS_Subset
<1>3. (\A e \in H : h[e] = f[e] /\ f[e] \in Int) /\ Kept(f, Ids, H) = HeldOf
  BY <1>2 DEF Kept, HeldOf
<1> HIDE DEF H, f, h
<1>4. SumOver(h, H) = SumOver(f, H)
  BY <1>2, <1>3, SumSame
<1>5. SumOver(f, H) = SumOver(Kept(f, Ids, H), Ids)
  BY <1>2, <1>3, SumKept
<1> QED
  BY <1>1, <1>3, <1>4, <1>5 DEF H

LEMMA JournaledIsSum == Journaled = SumOver(Entries, DOMAIN journal)
  BY SumOfAmounts DEF Journaled, Entries

LEMMA OrderlyIsEnough ==
  ASSUME IInv, Orderly
  PROVE  HeldUnlessMixed
<1> SUFFICES ASSUME ~mixed
             PROVE  HeldMatchesEscrows /\ (faults = MaxFaults => ReleasesMatchJournals)
  BY DEF HeldUnlessMixed
<1>1. HeldMatchesEscrows
  BY HeldIsSum DEF HeldMatchesEscrows, Orderly, Balanced
<1>2. ASSUME faults = MaxFaults, Posting = {}
      PROVE  Journaled = wallet.available
  <2>1. \A e \in Ids : escrows[e].status = "RELEASED" <=> e \in JournaledIds
    BY <1>2, TableFacts DEF Orderly, Booked
  <2>2. JournaledOf = ReleasedOf
    BY <2>1 DEF JournaledOf, ReleasedOf
  <2> QED
    BY <2>2, JournaledIsSum DEF Orderly, Balanced, Booked
<1> QED
  BY <1>1, <1>2 DEF ReleasesMatchJournals

\* A committed close or refund of a hold that was fresh, on the sums: the held
\* balance and the available one follow the hold.
LEMMA CommitFacts ==
  ASSUME IInv, NEW w \in Workers, ClosesHold(w) \/ RefundsHold(w), Fresh(op[w], escrows, refs)
  PROVE  LET e == op[w].id IN
         /\ e \in Ids /\ Ids' = Ids /\ escrows[e].status = "HELD"
         /\ \A d \in Ids : d # e => escrows'[d] = escrows[d]
         /\ escrows'[e].amount \in Int
         /\ wallet'.held = wallet.held + HeldOf'[e] - HeldOf[e]
         /\ wallet'.available = wallet.available + ReleasedOf'[e] - ReleasedOf[e]
         /\ op[w].ref \notin refs /\ refs' = refs \cup {op[w].ref} /\ journal' = journal
         /\ \/ op'[w] = Idle /\ escrows'[e].status # "RELEASED"
            \/ /\ op'[w].pc = "post_check" /\ op'[w].id = e /\ op'[w].amount = escrows'[e].amount
               /\ escrows'[e].status = "RELEASED"
<1> DEFINE e == op[w].id
           self == op[w]
<1>1. self.pc \in {"close_apply", "refund_apply"} /\ self \in Request
  BY DEF ClosesHold, RefundsHold, IInv, TypeOK
<1>2. e \in Ids /\ escrows[e] \in EscrowRow /\ self.amount \in Int /\ self.fresh \in Int
  BY <1>1, EscrowType DEF IInv, EscrowKnown, OnEscrow, Request
<1>3. \E row, available : Commits(w, row, -self.amount, available)
  BY DEF ClosesHold, RefundsHold
<1>4. /\ op[w].ref \notin refs /\ refs' = refs \cup {op[w].ref} /\ journal' = journal
      /\ wallet'.held = wallet.held + -self.amount
      /\ \A d \in Ids : d # e => escrows'[d] = escrows[d]
      /\ Ids' = Ids
  BY <1>2, <1>3 DEF Commits, Ids
<1>5. escrows[e].status = "HELD" /\ (self.pc = "close_apply" \/ self.full => self.amount = escrows[e].amount)
      /\ (self.pc = "refund_apply" => self.fresh = escrows[e].amount)
  BY <1>1, <1>4 DEF Fresh, Closing, Refunding
<1>6. HeldOf[e] = escrows[e].amount /\ ReleasedOf[e] = 0 /\ wallet.held \in Int /\ wallet.available \in Int
  BY <1>2, <1>5, TableFacts DEF HeldOf, ReleasedOf
<1>7. /\ HeldOf'[e] = IF escrows'[e].status = "HELD" THEN escrows'[e].amount ELSE 0
      /\ ReleasedOf'[e] = IF escrows'[e].status = "RELEASED" THEN escrows'[e].amount ELSE 0
  BY <1>2, <1>4 DEF HeldOf, ReleasedOf
<1>8. CASE ClosesHold(w)
  <2>1. escrows'[e] = [escrows[e] EXCEPT !.status = ClosedStatus(self.mode)]
    BY <1>2, <1>8 DEF ClosesHold, Commits, Ids
  <2>2. escrows'[e].status = ClosedStatus(self.mode) /\ escrows'[e].amount = escrows[e].amount
    BY <1>2, <2>1 DEF EscrowRow
  <2>3. /\ ClosedStatus(self.mode) # "HELD"
        /\ ClosedStatus(self.mode) = "RELEASED" <=> self.mode = "release"
    BY DEF ClosedStatus
  <2>4. self.amount = escrows[e].amount /\ HeldOf'[e] = 0 /\ escrows[e].amount \in Int
    BY <1>2, <1>5, <1>7, <1>8, <2>2, <2>3, TableFacts DEF ClosesHold
  <2>5. wallet'.available = wallet.available + IF self.mode = "release" THEN self.amount ELSE 0
    BY <1>8 DEF ClosesHold, Commits
  <2>6. /\ wallet'.held = wallet.held + HeldOf'[e] - HeldOf[e]
        /\ wallet'.available = wallet.available + ReleasedOf'[e] - ReleasedOf[e]
    BY <1>4, <1>6, <1>7, <2>2, <2>3, <2>4, <2>5
  <2> QED
    BY <1>2, <1>4, <1>5, <1>8, <2>2, <2>3, <2>4, <2>6 DEF ClosesHold
<1>9. CASE RefundsHold(w)
  <2>1. escrows'[e] = Unwound(escrows[e], self) /\ op'[w] = Idle
    BY <1>2, <1>9 DEF RefundsHold, Commits, Ids
  <2>2. CASE self.full
    <3>1. escrows'[e].status = "REFUNDED" /\ escrows'[e].amount = escrows[e].amount
      BY <1>2, <2>1, <2>2 DEF Unwound, EscrowRow
    <3>2. self.amount = escrows[e].amount /\ escrows[e].amount \in Int
      BY <1>2, <1>5, <2>2, TableFacts
    <3> QED
      BY <1>2, <1>4, <1>5, <1>6, <1>7, <1>9, <2>1, <3>1, <3>2 DEF RefundsHold, Commits
  <2>3. CASE ~self.full
    <3>1. escrows'[e].status = "HELD" /\ escrows'[e].amount = escrows[e].amount - self.amount
      BY <1>2, <1>5, <1>9, <2>1, <2>3 DEF Unwound, EscrowRow, RefundsHold
    <3>2. escrows[e].amount \in Int
      BY <1>2, TableFacts
    <3> QED
      BY <1>2, <1>4, <1>5, <1>6, <1>7, <1>9, <2>1, <3>1, <3>2 DEF RefundsHold, Commits
  <2> QED
    BY <2>2, <2>3
<1> QED
  BY <1>8, <1>9

LEMMA NewHoldFacts ==
  ASSUME IInv, NEW w \in Workers, NEW p \in Payments, NewHold(w, p)
  PROVE  LET n == Len(escrows) + 1 IN
         /\ Ids' = Ids \cup {n} /\ n \notin Ids
         /\ \A e \in Ids : escrows'[e] = escrows[e]
         /\ escrows'[n].status = "HELD" /\ escrows'[n].amount = Captured[p]
<1> DEFINE row == [payment |-> p, status |-> "HELD", amount |-> Captured[p]]
<1>1. row \in EscrowRow /\ row.status = "HELD" /\ row.amount = Captured[p]
  BY EscrowConstants DEF EscrowRow
<1>2. escrows' = Append(escrows, row)
  BY DEF NewHold
<1> HIDE DEF row
<1> QED
  BY <1>1, <1>2, AppendFacts DEF IInv, TypeOK, Ids

LEMMA FreshNext ==
  ASSUME IInv, ~Overlap, \A v \in Workers : Fresh(op[v], escrows, refs),
         NEW w \in Workers, WorkerStep(w), NEW v \in Workers
  PROVE  Fresh(op'[v], escrows', refs')
<1> USE DEF Closing, Refunding, InPosting
<1>1. v # w => op'[v] = op[v]
  BY Alone
<1>2. op[v].pc \in OnEscrow => op[v].id \in Ids
  BY DEF IInv, EscrowKnown
<1>3. Fresh(Idle, escrows', refs')
  BY IdleFacts DEF Fresh
<1>4. CASE Quiet(w)
  <2>1. CASE v # w
    BY <1>1, <1>4, <2>1 DEF Quiet, Tables
  <2>2. CASE v = w
    BY <1>3, <1>4, <2>2 DEF Quiet, Tables, Moves, Fresh
  <2> QED
    BY <2>1, <2>2
<1>5. ASSUME NEW p \in Payments, NewHold(w, p)
      PROVE  Fresh(op'[v], escrows', refs')
  <2>1. op'[w] = Idle /\ refs \subseteq refs' /\ \A e \in Ids : escrows'[e] = escrows[e]
    BY <1>5, NewHoldFacts DEF NewHold
  <2>2. CASE v # w
    BY <1>1, <1>2, <2>1, <2>2 DEF Fresh, OnEscrow
  <2>3. CASE v = w
    BY <1>3, <2>1, <2>3
  <2> QED
    BY <2>2, <2>3
<1>6. CASE ClosesHold(w) \/ RefundsHold(w)
  <2> DEFINE e == op[w].id
  <2>1. /\ e \in Ids /\ escrows[e].status = "HELD"
        /\ \A d \in Ids : d # e => escrows'[d] = escrows[d]
        /\ refs' = refs \cup {op[w].ref}
        /\ \/ op'[w] = Idle
           \/ /\ op'[w].pc = "post_check" /\ op'[w].id = e /\ op'[w].amount = escrows'[e].amount
              /\ escrows'[e].status = "RELEASED"
    BY <1>6, CommitFacts
  <2>2. CASE v = w
    BY <1>3, <2>1, <2>2 DEF Fresh
  <2>3. CASE v # w /\ op[v].id = e
    <3>1. op[v].ref = op[w].ref
      BY <2>1, <2>3, TableFacts DEF Overlap
    <3>2. op[v].pc \notin InPosting
      BY <2>1, <2>3 DEF Fresh
    <3> QED
      BY <1>1, <2>1, <2>3, <3>1, <3>2 DEF Fresh
  <2>4. CASE v # w /\ op[v].id # e
    BY <1>1, <1>2, <2>1, <2>4 DEF Fresh, OnEscrow
  <2> QED
    BY <2>2, <2>3, <2>4
<1>7. CASE PostsRelease(w)
  BY <1>1, <1>3, <1>7 DEF PostsRelease
<1> QED
  BY <1>4, <1>5, <1>6, <1>7, StepEffect

LEMMA BalancedNext ==
  ASSUME IInv, IInv', Balanced, \A v \in Workers : Fresh(op[v], escrows, refs),
         NEW w \in Workers, WorkerStep(w)
  PROVE  Balanced'
<1>1. IsFiniteSet(Ids) /\ wallet.held \in Int /\ wallet.available \in Int
  BY TableFacts
<1>2. \A e \in Ids : HeldOf[e] \in Int /\ ReleasedOf[e] \in Int
  BY TableFacts
<1>3. \A e \in Ids' : HeldOf'[e] \in Int /\ ReleasedOf'[e] \in Int
  BY TableFactsNext
<1>5. CASE UNCHANGED <<escrows, wallet>>
  BY <1>5 DEF Balanced, HeldOf, ReleasedOf, Ids
<1>6. ASSUME NEW p \in Payments, NewHold(w, p)
      PROVE  Balanced'
  <2> DEFINE n == Len(escrows) + 1
  <2>1. /\ Ids' = Ids \cup {n} /\ n \notin Ids
        /\ \A e \in Ids : escrows'[e] = escrows[e]
        /\ escrows'[n].status = "HELD" /\ escrows'[n].amount = Captured[p]
        /\ wallet'.held = wallet.held + Captured[p] /\ wallet'.available = wallet.available
    BY <1>6, NewHoldFacts DEF NewHold
  <2> HIDE DEF n
  <2>2. /\ HeldOf'[n] = Captured[p] /\ ReleasedOf'[n] = 0 /\ Captured[p] \in Int
        /\ \A e \in Ids : HeldOf[e] = HeldOf'[e] /\ ReleasedOf[e] = ReleasedOf'[e]
    BY <2>1, EscrowConstants DEF HeldOf, ReleasedOf
  <2>3. /\ SumOver(HeldOf', Ids') = SumOver(HeldOf', Ids) + HeldOf'[n]
        /\ SumOver(ReleasedOf', Ids') = SumOver(ReleasedOf', Ids) + ReleasedOf'[n]
    BY <1>1, <1>3, <2>1, SumAdd
  <2>4. SumOver(HeldOf, Ids) = SumOver(HeldOf', Ids) /\ SumOver(ReleasedOf, Ids) = SumOver(ReleasedOf', Ids)
    BY <1>1, <2>2, SumSame
  <2>5. wallet.held = SumOver(HeldOf', Ids) /\ wallet.available = SumOver(ReleasedOf', Ids)
    BY <2>4 DEF Balanced
  <2>6. SumOver(ReleasedOf', Ids) \in Int /\ SumOver(HeldOf', Ids) \in Int
    BY <1>1, <2>5
  <2> QED
    BY <2>1, <2>2, <2>3, <2>5, <2>6 DEF Balanced
<1>7. CASE ClosesHold(w) \/ RefundsHold(w)
  <2> DEFINE e == op[w].id
  <2>1. /\ e \in Ids /\ Ids' = Ids
        /\ \A d \in Ids : d # e => escrows'[d] = escrows[d]
        /\ wallet'.held = wallet.held + HeldOf'[e] - HeldOf[e]
        /\ wallet'.available = wallet.available + ReleasedOf'[e] - ReleasedOf[e]
    BY <1>7, CommitFacts
  <2> HIDE DEF e
  <2>2. \A d \in Ids \ {e} : HeldOf[d] = HeldOf'[d] /\ ReleasedOf[d] = ReleasedOf'[d]
    BY <2>1 DEF HeldOf, ReleasedOf
  <2>3. \A d \in Ids : HeldOf'[d] \in Int /\ ReleasedOf'[d] \in Int
    BY <1>3, <2>1
  <2>4. SumOver(HeldOf', Ids) = SumOver(HeldOf, Ids) + HeldOf'[e] - HeldOf[e]
    BY <1>1, <1>2, <2>1, <2>2, <2>3, SumChange
  <2>5. SumOver(ReleasedOf', Ids) = SumOver(ReleasedOf, Ids) + ReleasedOf'[e] - ReleasedOf[e]
    BY <1>1, <1>2, <2>1, <2>2, <2>3, SumChange
  <2> QED
    BY <2>1, <2>4, <2>5 DEF Balanced
<1> QED
  BY <1>5, <1>6, <1>7, StepEffect DEF Quiet, Tables, PostsRelease

LEMMA BookedNext ==
  ASSUME IInv, IInv', Booked, \A v \in Workers : Fresh(op[v], escrows, refs),
         NEW w \in Workers, WorkerStep(w)
  PROVE  Booked'
<1> USE DEF InPosting
<1>1. /\ IsFiniteSet(Ids) /\ IsFiniteSet(DOMAIN journal) /\ JournaledIds \subseteq Ids
      /\ DOMAIN journal = 1..Len(journal) /\ Len(journal) \in Nat
      /\ \A e \in Ids : JournaledOf[e] \in Int
      /\ \A i \in DOMAIN journal : Entries[i] \in Int
      /\ faults \in Nat
  BY TableFacts
<1>2. /\ \A e \in Ids' : JournaledOf'[e] \in Int
      /\ \A i \in DOMAIN journal' : Entries'[i] = journal'[i].amount /\ Entries'[i] \in Int
  BY TableFactsNext
<1>3. \A v \in Workers : v # w => op'[v] = op[v]
  BY Alone
<1>4. faults' = faults \/ faults' < faults
  BY StepEffect
<1>5. faults' \in Nat /\ faults' <= MaxFaults /\ (faults' = MaxFaults => faults' = faults)
  BY <1>1, <1>4, EscrowConstants DEF Booked, IInv, TypeOK
<1>6. \A v \in Workers :
        /\ v \in Posting <=> op[v].pc \in InPosting
        /\ v \in Posting' <=> op'[v].pc \in InPosting
  BY DEF Posting
<1>7. \A v \in Posting : op[v].id \in Ids /\ escrows[op[v].id].status = "RELEASED"
                         /\ op[v].amount = escrows[op[v].id].amount
  BY <1>6 DEF IInv, EscrowKnown, OnEscrow, Fresh, Posting
<1>8. Idle.pc = "idle"
  BY IdleFacts
<1>9. CASE Quiet(w)
  <2>1. /\ UNCHANGED Tables /\ JournaledIds' = JournaledIds /\ JournaledOf' = JournaledOf
        /\ Ids' = Ids /\ Entries' = Entries
    BY <1>9 DEF Quiet, Tables, JournaledIds, JournaledOf, Ids, Entries
  <2>2. /\ \A v \in Posting' : v \in Posting /\ op'[v].id = op[v].id
        /\ op'[w].pc = "post_insert" => op'[w].id \notin JournaledIds
        /\ w \in Posting => \/ w \in Posting'
                            \/ op[w].id \in JournaledIds \/ faults' < faults
    BY <1>3, <1>6, <1>8, <1>9 DEF Quiet, Moves, Posting
  <2>3. \A v \in Workers : op'[v].pc = "post_insert" => op'[v].id \notin JournaledIds
    BY <1>3, <2>2 DEF Booked
  <2>4. ASSUME faults' = MaxFaults, NEW e \in Ids, escrows[e].status = "RELEASED"
        PROVE  e \in JournaledIds \/ \E v \in Posting' : op'[v].id = e
    <3>1. ~(faults' < faults) /\ faults = MaxFaults
      BY <1>1, <1>5, <2>4
    <3>2. e \in JournaledIds \/ \E v \in Posting : op[v].id = e
      BY <2>4, <3>1 DEF Booked
    <3>3. ASSUME NEW v \in Posting, op[v].id = e, e \notin JournaledIds
          PROVE  \E u \in Posting' : op'[u].id = e
      <4>1. v \in Workers
        BY DEF Posting
      <4>2. CASE v = w
        BY <2>2, <3>1, <3>3, <4>2
      <4>3. CASE v # w
        BY <1>3, <1>6, <3>3, <4>1, <4>3
      <4> QED
        BY <4>2, <4>3
    <3> QED
      BY <3>2, <3>3
  <2>5. /\ \A e \in JournaledIds' : escrows'[e].status = "RELEASED"
        /\ SumOver(Entries', DOMAIN journal') = SumOver(JournaledOf', Ids')
    BY <2>1 DEF Booked, Tables
  <2>6. \A u, v \in Posting' : op'[u].id = op'[v].id => u = v
    BY <2>2 DEF Booked
  <2> QED
    BY <1>5, <2>1, <2>3, <2>4, <2>5, <2>6 DEF Booked, Tables
<1>10. ASSUME NEW p \in Payments, NewHold(w, p)
       PROVE  Booked'
  <2> DEFINE n == Len(escrows) + 1
  <2>1. /\ Ids' = Ids \cup {n} /\ n \notin Ids
        /\ \A e \in Ids : escrows'[e] = escrows[e]
        /\ escrows'[n].status = "HELD"
        /\ op[w].pc = "hold_apply" /\ op'[w] = Idle
        /\ JournaledIds' = JournaledIds /\ Entries' = Entries /\ journal' = journal
    BY <1>10, NewHoldFacts DEF NewHold, JournaledIds, Entries
  <2> HIDE DEF n
  <2>2. JournaledOf'[n] = 0 /\ \A e \in Ids : JournaledOf[e] = JournaledOf'[e]
    BY <1>1, <2>1 DEF JournaledOf
  <2>3. SumOver(JournaledOf', Ids') = SumOver(JournaledOf', Ids) + JournaledOf'[n]
    BY <1>1, <1>2, <2>1, SumAdd
  <2>4. SumOver(JournaledOf, Ids) = SumOver(JournaledOf', Ids) /\ SumOver(JournaledOf, Ids) \in Int
    BY <1>1, <2>2, SumSame, SumType
  <2>5. SumOver(Entries', DOMAIN journal') = SumOver(JournaledOf', Ids')
    BY <2>1, <2>2, <2>3, <2>4 DEF Booked
  <2>6. \A v \in Workers : /\ v \in Posting' <=> v \in Posting
                           /\ v \in Posting => op'[v] = op[v]
                           /\ op'[v].pc = "post_insert" => op'[v] = op[v]
    BY <1>3, <1>6, <1>8, <2>1
  <2>7. Posting' = Posting
    BY <2>6 DEF Posting
  <2>8. \A e \in JournaledIds' : escrows'[e].status = "RELEASED"
    BY <1>1, <2>1 DEF Booked
  <2>9. \A e \in Ids' : escrows'[e].status = "RELEASED" => e \in Ids /\ escrows[e].status = "RELEASED"
    BY <2>1
  <2>10. \A v \in Posting : op'[v] = op[v]
    BY <2>6 DEF Posting
  <2>11. faults' = MaxFaults =>
          \A e \in Ids' : escrows'[e].status = "RELEASED" =>
            e \in JournaledIds' \/ \E v \in Posting' : op'[v].id = e
    BY <1>5, <2>1, <2>7, <2>9, <2>10 DEF Booked
  <2> QED
    BY <1>5, <2>1, <2>5, <2>6, <2>7, <2>8, <2>10, <2>11 DEF Booked
<1>11. CASE ClosesHold(w) \/ RefundsHold(w)
  <2> DEFINE e == op[w].id
  <2>1. /\ e \in Ids /\ Ids' = Ids /\ escrows[e].status = "HELD"
        /\ \A d \in Ids : d # e => escrows'[d] = escrows[d]
        /\ journal' = journal /\ JournaledIds' = JournaledIds /\ Entries' = Entries
        /\ \/ op'[w] = Idle /\ escrows'[e].status # "RELEASED"
           \/ /\ op'[w].pc = "post_check" /\ op'[w].id = e
              /\ escrows'[e].status = "RELEASED"
    BY <1>11, CommitFacts DEF JournaledIds, Entries
  <2>2. op[w].pc \notin InPosting
    BY <1>11 DEF ClosesHold, RefundsHold
  <2> HIDE DEF e
  <2>3. e \notin JournaledIds /\ \A v \in Posting : op[v].id # e
    BY <1>7, <2>1 DEF Booked
  <2>4. JournaledOf' = JournaledOf
    BY <2>1, <2>3 DEF JournaledOf
  <2>5. \A v \in Posting : v # w /\ op'[v] = op[v] /\ v \in Posting'
    BY <1>3, <1>6, <2>2 DEF Posting
  <2>6. \A v \in Posting' : v \in Posting \/ (v = w /\ op'[v].id = e /\ op'[v].pc = "post_check")
    BY <1>3, <1>6, <1>8, <2>1 DEF Posting
  <2>7. \A u, v \in Posting' : op'[u].id = op'[v].id => u = v
    BY <2>3, <2>5, <2>6 DEF Booked
  <2>8. \A v \in Workers : op'[v].pc = "post_insert" => op'[v].id \notin JournaledIds
    BY <1>3, <1>8, <2>1 DEF Booked
  <2>9. \A d \in JournaledIds' : escrows'[d].status = "RELEASED"
    BY <1>1, <2>1, <2>3 DEF Booked
  <2>10. ASSUME faults' = MaxFaults, NEW d \in Ids, escrows'[d].status = "RELEASED"
         PROVE  d \in JournaledIds \/ \E v \in Posting' : op'[v].id = d
    <3>1. CASE d = e
      BY <1>6, <1>8, <2>1, <2>10, <3>1
    <3>2. CASE d # e
      <4>1. d \in JournaledIds \/ \E v \in Posting : op[v].id = d
        BY <1>5, <2>1, <2>10, <3>2 DEF Booked
      <4> QED
        BY <2>5, <4>1
    <3> QED
      BY <3>1, <3>2
  <2> QED
    BY <1>5, <2>1, <2>4, <2>7, <2>8, <2>9, <2>10 DEF Booked
<1>12. CASE PostsRelease(w)
  <2> DEFINE e == op[w].id
             entry == [escrow |-> op[w].id, amount |-> op[w].amount]
             n == Len(journal) + 1
  <2>1. /\ op[w].pc = "post_insert" /\ op'[w] = Idle /\ UNCHANGED <<escrows, wallet, refs>>
        /\ journal' = Append(journal, entry) /\ Ids' = Ids
    BY <1>12 DEF PostsRelease, Ids
  <2>2. w \in Posting /\ e \in Ids /\ escrows[e].status = "RELEASED" /\ op[w].amount = escrows[e].amount
        /\ e \notin JournaledIds
    BY <1>6, <1>7, <2>1 DEF Booked
  <2>3. entry.escrow = e /\ entry.amount = escrows[e].amount /\ escrows[e].amount \in Int
    BY <2>2, TableFacts
  <2>4. /\ DOMAIN journal' = DOMAIN journal \cup {n} /\ n \notin DOMAIN journal
        /\ journal'[n] = entry /\ \A i \in DOMAIN journal : journal'[i] = journal[i]
    <3>1. entry \in [escrow: Ids, amount: Int]
      BY <2>2, <2>3
    <3> HIDE DEF entry
    <3> QED
      BY <2>1, <3>1, AppendFacts DEF IInv, TypeOK
  <2> HIDE DEF n, entry
  <2>5. JournaledIds' = JournaledIds \cup {e}
    BY <2>3, <2>4 DEF JournaledIds
  <2> HIDE DEF e
  <2>6. /\ Entries'[n] = escrows[e].amount
        /\ \A i \in DOMAIN journal : Entries[i] = Entries'[i]
    BY <2>3, <2>4 DEF Entries
  <2>7. SumOver(Entries', DOMAIN journal') = SumOver(Entries', DOMAIN journal) + Entries'[n]
    BY <1>1, <1>2, <2>4, SumAdd
  <2>8. SumOver(Entries, DOMAIN journal) = SumOver(Entries', DOMAIN journal)
        /\ SumOver(Entries, DOMAIN journal) \in Int
    BY <1>1, <2>6, SumSame, SumType
  <2>9. /\ JournaledOf[e] = 0 /\ JournaledOf'[e] = escrows[e].amount
        /\ \A d \in Ids \ {e} : JournaledOf[d] = JournaledOf'[d]
    BY <2>1, <2>2, <2>5 DEF JournaledOf
  <2>10. SumOver(JournaledOf', Ids) = SumOver(JournaledOf, Ids) + JournaledOf'[e] - JournaledOf[e]
    BY <1>1, <1>2, <2>1, <2>2, <2>9, SumChange
  <2>11. SumOver(Entries', DOMAIN journal') = SumOver(JournaledOf', Ids')
    BY <2>1, <2>3, <2>6, <2>7, <2>8, <2>9, <2>10 DEF Booked
  <2>12. \A v \in Posting' : v # w /\ v \in Posting /\ op'[v] = op[v] /\ op[v].id # e
    <3>1. \A v \in Posting : op[v].id = e => v = w
      BY <2>2 DEF Booked, e
    <3> QED
      BY <1>3, <1>6, <1>8, <2>1, <3>1 DEF Posting
  <2>13. \A u, v \in Posting' : op'[u].id = op'[v].id => u = v
    BY <2>12 DEF Booked
  <2>14. ASSUME NEW v \in Workers, op'[v].pc = "post_insert"
         PROVE  op'[v].id \notin JournaledIds'
    <3>1. v \in Posting'
      BY <1>6, <2>14
    <3> QED
      BY <2>5, <2>12, <2>14, <3>1 DEF Booked
  <2>15. \A d \in JournaledIds' : escrows'[d].status = "RELEASED"
    BY <2>1, <2>2, <2>5 DEF Booked
  <2>16. ASSUME faults' = MaxFaults, NEW d \in Ids, escrows'[d].status = "RELEASED", d # e
         PROVE  d \in JournaledIds \/ \E v \in Posting' : op'[v].id = d
    <3>1. d \in JournaledIds \/ \E v \in Posting : op[v].id = d
      BY <1>5, <2>1, <2>16 DEF Booked
    <3>2. ASSUME NEW v \in Posting, op[v].id = d
          PROVE  v \in Posting' /\ op'[v].id = d
      <4>1. v \in Workers /\ v # w
        BY <2>16, <3>2 DEF Posting, e
      <4> QED
        BY <1>3, <1>6, <3>2, <4>1
    <3> QED
      BY <3>1, <3>2
  <2> QED
    BY <1>5, <2>1, <2>5, <2>11, <2>13, <2>14, <2>15, <2>16 DEF Booked
<1> QED
  BY <1>9, <1>10, <1>11, <1>12, StepEffect

LEMMA OrderlyNext ==
  ASSUME IInv, IInv', Orderly, [MCNext]_<<vars, mixed>>
  PROVE  Orderly'
<1> SUFFICES ASSUME ~mixed'
             PROVE  /\ ~Overlap'
                    /\ \A v \in Workers : Fresh(op'[v], escrows', refs')
                    /\ Balanced' /\ Booked'
  BY DEF Orderly
<1>1. ~mixed
  BY DEF MCNext
<1>2. ~Overlap /\ (\A v \in Workers : Fresh(op[v], escrows, refs)) /\ Balanced /\ Booked
  BY <1>1 DEF Orderly
<1>3. CASE MCNext
  <2>1. PICK w \in Workers : WorkerStep(w)
    BY <1>3, NextSteps DEF MCNext
  <2>2. ~Overlap'
    BY <1>3 DEF MCNext
  <2> QED
    BY <1>2, <2>1, <2>2, FreshNext, BalancedNext, BookedNext
<1>4. CASE UNCHANGED <<vars, mixed>>
  <2>1. ~Overlap' /\ \A v \in Workers : Fresh(op'[v], escrows', refs')
    BY <1>2, <1>4 DEF vars, Overlap
  <2>2. Balanced'
    BY <1>2, <1>4 DEF vars, Balanced, HeldOf, ReleasedOf, Ids
  <2>3. Booked'
    BY <1>2, <1>4 DEF vars, Booked, JournaledIds, JournaledOf, Entries, Posting, Ids
  <2> QED
    BY <2>1, <2>2, <2>3
<1> QED
  BY <1>3, <1>4

LEMMA InitOrderly == MCInit => Orderly
<1> SUFFICES ASSUME Init
             PROVE  ~Overlap /\ (\A v \in Workers : Fresh(op[v], escrows, refs)) /\ Balanced /\ Booked
  BY DEF MCInit, Orderly
<1>1. /\ Ids = {} /\ DOMAIN journal = {} /\ JournaledIds = {}
      /\ \A v \in Workers : op[v] = Idle
      /\ wallet.held = 0 /\ wallet.available = 0 /\ faults = MaxFaults
  BY DEF Init, Ids, JournaledIds, Empty
<1>2. /\ ~Overlap /\ (\A v \in Workers : Fresh(op[v], escrows, refs)) /\ Posting = {}
  BY <1>1, IdleFacts DEF Overlap, Fresh, Closing, Refunding, InPosting, Posting
<1>3. Balanced
  BY <1>1, SumEmpty DEF Balanced
<1>4. Booked
  BY <1>1, <1>2, SumEmpty, IdleFacts, EscrowConstants DEF Booked
<1> QED
  BY <1>2, <1>3, <1>4

LEMMA MCStep ==
  /\ MCInit => IInv /\ Orderly
  /\ IInv /\ Orderly /\ [MCNext]_<<vars, mixed>> => (IInv /\ Orderly)'
<1>1. MCInit => IInv /\ Orderly
  BY InitHolds, InitOrderly DEF MCInit
<1>2. IInv /\ [MCNext]_<<vars, mixed>> => IInv'
  BY StepKeeps DEF MCNext
<1> QED
  BY <1>1, <1>2, OrderlyNext

\* closeEscrow and refundForPayment set the status by id and subtract what they
\* read earlier.  As long as no two different requests overlap on one hold, what
\* they read is still so when they commit (Fresh): the wallet holds what its
\* HELD escrows say and every release is posted once.
THEOREM HoldsAddUp == MCSpec => []HeldUnlessMixed
<1>1. IInv /\ Orderly => HeldUnlessMixed
  BY OrderlyIsEnough
<1> QED
  BY <1>1, MCStep, PTL DEF MCSpec

\* Under the same condition no request ever changes a hold that is closed.
THEOREM ClosedIsFinal == MCSpec => FinalUnlessMixed
<1>1. ASSUME IInv, Orderly, ~mixed', [MCNext]_<<vars, mixed>>,
             NEW e \in Ids, escrows[e].status # "HELD"
      PROVE  escrows'[e] = escrows[e]
  <2>1. ~mixed
    BY <1>1 DEF MCNext
  <2>2. \A v \in Workers : Fresh(op[v], escrows, refs)
    BY <1>1, <2>1 DEF Orderly
  <2>3. CASE escrows' = escrows
    BY <2>3
  <2>4. CASE escrows' # escrows
    <3>1. PICK w \in Workers : WorkerStep(w)
      BY <1>1, <2>4, NextSteps DEF MCNext, vars
    <3>2. CASE \E p \in Payments : NewHold(w, p)
      BY <1>1, <3>2, NewHoldFacts
    <3>3. CASE ClosesHold(w) \/ RefundsHold(w)
      BY <1>1, <2>2, <3>3, CommitFacts
    <3> QED
      BY <1>1, <2>4, <3>1, <3>2, <3>3, StepEffect DEF Quiet, Tables, PostsRelease
  <2> QED
    BY <2>3, <2>4
<1>2. IInv /\ Orderly /\ [MCNext]_<<vars, mixed>> =>
        [~mixed' => \A e \in Ids : escrows[e].status # "HELD" => escrows'[e] = escrows[e]]_vars
  BY <1>1
<1> QED
  BY <1>2, MCStep, PTL DEF MCSpec, FinalUnlessMixed
=============================================================================
