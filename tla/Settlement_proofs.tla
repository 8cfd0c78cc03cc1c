------------------------- MODULE Settlement_proofs -------------------------
(***************************************************************************)
(* Settlement batches, proved for every set of workers, every finite set   *)
(* of wallets with its opening balances, every policy and every number of  *)
(* batches, requests and faults.  Effects of each step first (Goes,        *)
(* TablesGrow, BatchesGrow), then one inductive invariant per property:    *)
(* Known under all of them, Asked, Progress, Solvent, Single.              *)
(***************************************************************************)
EXTENDS MCSettlement, Sums

AtItem ==
  {"create", "claim", "lost", "debit", "debit_apply", "journal", "journal_insert", "finish"}

Looping == AtItem \cup {"next", "complete"}

WorkerStep(w) ==
  \/ \E key \in Keys \cup {NoKey} : CreateStart(w, key)
  \/ CreateRead(w) \/ CreateInsert(w)
  \/ \E b \in Ids : ApproveStart(w, b) \/ CancelStart(w, b) \/ ProcessStart(w, b)
  \/ Approve(w) \/ Cancel(w) \/ ProcessStep(w) \/ CallFails(w)

MoveStep == \E x \in Wallets, amount \in {-1, 1} : Move(x, amount)

LEMMA NextSteps == Next <=> (\E w \in Workers : WorkerStep(w)) \/ MoveStep \/ Crash
  BY DEF Next, WorkerStep, MoveStep

-----------------------------------------------------------------------------
\* Types.

AnyBatch == UNION {Batch(S) : S \in SUBSET Wallets}

\* The part of TypeOK about one request.
Placed(self) == \E S \in SUBSET Wallets : self \in Request(S)

LEMMA BatchesAreTyped ==
  ASSUME TypeOK
  PROVE  /\ batches \in Seq(AnyBatch) /\ Ids = 1..Len(batches) /\ Len(batches) \in Nat
         /\ 0 \notin Ids
<1>1. \A b \in Ids : batches[b] \in AnyBatch
  BY DEF TypeOK, AnyBatch
<1>2. batches \in Seq({batches[b] : b \in Ids})
  BY DEF TypeOK
<1>3. Ids = 1..Len(batches) /\ Len(batches) \in Nat
  BY <1>2 DEF Ids
<1>4. batches = [b \in 1..Len(batches) |-> batches[b]]
  BY <1>2, <1>3 DEF Ids
<1>5. batches \in [1..Len(batches) -> AnyBatch]
  BY <1>1, <1>3, <1>4
<1> QED
  BY <1>3, <1>5

LEMMA TypedBatches ==
  ASSUME batches \in Seq(AnyBatch)
  PROVE  /\ batches \in Seq({batches[b] : b \in Ids})
         /\ \A b \in Ids : \E S \in SUBSET Wallets : batches[b] \in Batch(S)
<1>1. Ids = 1..Len(batches) /\ Len(batches) \in Nat
  BY DEF Ids
<1>2. batches \in [1..Len(batches) -> {batches[b] : b \in Ids}]
  BY <1>1
<1> QED
  BY <1>1, <1>2 DEF AnyBatch

LEMMA TypedBatchesNext ==
  (batches \in Seq(AnyBatch) =>
     /\ batches \in Seq({batches[b] : b \in Ids})
     /\ \A b \in Ids : \E S \in SUBSET Wallets : batches[b] \in Batch(S))'
<1>1. batches \in Seq(AnyBatch) =>
     /\ batches \in Seq({batches[b] : b \in Ids})
     /\ \A b \in Ids : \E S \in SUBSET Wallets : batches[b] \in Batch(S)
  BY TypedBatches
<1> QED
  BY <1>1, PTL

\* What a batch on record is.
LEMMA BatchFacts ==
  ASSUME TypeOK, NEW b \in Ids
  PROVE  /\ DOMAIN batches[b].items \subseteq Wallets
         /\ \A x \in DOMAIN batches[b].items : batches[b].items[x] \in Nat
         /\ batches[b].approved \in BOOLEAN
         /\ batches[b] \in AnyBatch
<1>1. PICK S \in SUBSET Wallets : batches[b] \in Batch(S)
  BY DEF TypeOK
<1> QED
  BY <1>1 DEF Batch, AnyBatch

LEMMA AppendFacts ==
  ASSUME NEW S, NEW q \in Seq(S), NEW e \in S
  PROVE  /\ Append(q, e) \in Seq(S)
         /\ Len(Append(q, e)) = Len(q) + 1
         /\ Append(q, e)[Len(q) + 1] = e
         /\ \A i \in 1..Len(q) : Append(q, e)[i] = q[i]
  OBVIOUS

\* An update of a batch, by id, of its status or of its approval.
LEMMA UpdateFacts ==
  ASSUME TypeOK, NEW b \in Ids,
         \/ \E st \in {"PENDING", "PROCESSING", "COMPLETED", "FAILED", "CANCELLED"} :
              batches' = [batches EXCEPT ![b].status = st]
         \/ batches' = [batches EXCEPT ![b].approved = TRUE]
  PROVE  /\ batches' \in Seq(AnyBatch) /\ Ids' = Ids
         /\ \A c \in Ids : /\ batches'[c].items = batches[c].items
                           /\ batches[c].approved => batches'[c].approved
                           /\ c # b => batches'[c] = batches[c]
<1>1. batches \in Seq(AnyBatch) /\ Ids = 1..Len(batches)
  BY BatchesAreTyped
<1>2. PICK S \in SUBSET Wallets : batches[b] \in Batch(S)
  BY DEF TypeOK
<1>0. PICK e : /\ batches' = [batches EXCEPT ![b] = e] /\ e \in Batch(S)
               /\ e.items = batches[b].items /\ (batches[b].approved => e.approved)
  <2>1. CASE batches' = [batches EXCEPT ![b].approved = TRUE]
    <3>1. [batches[b] EXCEPT !.approved = TRUE] \in Batch(S)
      BY <1>2 DEF Batch
    <3> QED
      BY <1>2, <2>1, <3>1 DEF Batch
  <2>2. ASSUME NEW st \in {"PENDING", "PROCESSING", "COMPLETED", "FAILED", "CANCELLED"},
               batches' = [batches EXCEPT ![b].status = st]
        PROVE  \E e : /\ batches' = [batches EXCEPT ![b] = e] /\ e \in Batch(S)
                      /\ e.items = batches[b].items /\ (batches[b].approved => e.approved)
    <3>1. [batches[b] EXCEPT !.status = st] \in Batch(S)
      BY <1>2 DEF Batch
    <3> QED
      BY <1>2, <2>2, <3>1 DEF Batch
  <2> QED
    BY <2>1, <2>2
<1>3. /\ batches'[b] \in Batch(S)
      /\ batches'[b].items = batches[b].items
      /\ batches[b].approved => batches'[b].approved
      /\ \A c \in Ids : c # b => batches'[c] = batches[c]
      /\ Ids' = Ids /\ DOMAIN batches' = DOMAIN batches
      /\ batches' = [c \in Ids |-> batches'[c]]
  BY <1>0, <1>1 DEF Ids
<1>4. \A c \in Ids : batches'[c] \in AnyBatch
  BY <1>3, BatchFacts DEF AnyBatch
<1>5. batches' \in [1..Len(batches) -> AnyBatch]
  BY <1>1, <1>3, <1>4
<1>6. batches' \in Seq(AnyBatch)
  BY <1>1, <1>5
<1> QED
  BY <1>3, <1>6

\* A request of the next state is typed by the batches of either state.
LEMMA RequestGrows ==
  ASSUME Ids \subseteq Ids', NEW self, Placed(self)
  PROVE  \E S \in SUBSET Wallets : self \in Request(S)'
  BY DEF Placed, Request

-----------------------------------------------------------------------------
\* What a step does to the request of its worker.

Pcs == Busy \cup {"idle", "create_read", "create_insert", "approve", "cancel"}

\* The request goes on to pc with the same batch and items.
Moves(w, pc) ==
  /\ op'[w].pc = pc /\ op'[w].batch = op[w].batch
  /\ op'[w].todo = op[w].todo /\ op'[w].item = op[w].item

\* The request begins on batch b.
Begins(w, pc, b) ==
  /\ op[w].pc = "idle" /\ op'[w].pc = pc /\ op'[w].batch = b
  /\ op'[w].todo = {} /\ op'[w].item = {}

LEMMA IdleFacts ==
  /\ Placed(Idle) /\ Idle.pc = "idle" /\ Idle.batch = 0 /\ Idle.todo = {} /\ Idle.item = {}
<1>1. NoItems \in [{} -> Nat]
  BY DEF NoItems
<1>2. Idle \in Request({})
  BY <1>1 DEF Idle, Request
<1> QED
  BY <1>2 DEF Placed, Idle

LEMMA BecomeEffect ==
  ASSUME TypeOK, NEW w \in Workers, NEW self, Become(w, self)
  PROVE  /\ op'[w] = self /\ DOMAIN op' = Workers
         /\ \A v \in Workers : v # w => op'[v] = op[v]
  BY DEF TypeOK, Become

LEMMA PcPlaced ==
  ASSUME NEW self, Placed(self), NEW pc \in Pcs
  PROVE  /\ Placed([self EXCEPT !.pc = pc]) /\ [self EXCEPT !.pc = pc].pc = pc
         /\ [self EXCEPT !.pc = pc].batch = self.batch
         /\ [self EXCEPT !.pc = pc].todo = self.todo
         /\ [self EXCEPT !.pc = pc].item = self.item
<1>1. PICK S \in SUBSET Wallets : self \in Request(S)
  BY DEF Placed
<1>2. [self EXCEPT !.pc = pc] \in Request(S)
  BY <1>1 DEF Request, Pcs
<1> QED
  BY <1>1, <1>2 DEF Placed, Request

LEMMA ContinueEffect ==
  ASSUME TypeOK, NEW w \in Workers, NEW pc \in Pcs, Continue(w, pc)
  PROVE  Moves(w, pc) /\ Placed(op'[w])
<1>1. Placed(op[w])
  BY DEF TypeOK, Placed
<1>2. op'[w] = [op[w] EXCEPT !.pc = pc]
  BY BecomeEffect DEF Continue
<1> QED
  BY <1>1, <1>2, PcPlaced DEF Moves

LEMMA DoneEffect ==
  ASSUME TypeOK, NEW w \in Workers, Done(w)
  PROVE  op'[w] = Idle
  BY BecomeEffect DEF Done

LEMMA StartEffect ==
  ASSUME TypeOK, NEW w \in Workers
  PROVE  /\ \A key \in Keys \cup {NoKey} : CreateStart(w, key) =>
              Begins(w, "create_read", 0) /\ Placed(op'[w])
         /\ \A b \in Ids :
              /\ ApproveStart(w, b) => Begins(w, "approve", b) /\ Placed(op'[w])
              /\ CancelStart(w, b) => Begins(w, "cancel", b) /\ Placed(op'[w])
              /\ ProcessStart(w, b) =>
                   /\ \/ batches[b].status = "PENDING" /\ Begins(w, "process", b)
                      \/ batches[b].status = "PROCESSING" /\ Begins(w, "items", b)
                   /\ Placed(op'[w])
<1>1. Idle \in Request({})
  <2>1. NoItems \in [{} -> Nat]
    BY DEF NoItems
  <2> QED
    BY <2>1 DEF Idle, Request
<1>2. ASSUME NEW key \in Keys \cup {NoKey}, CreateStart(w, key)
      PROVE  Begins(w, "create_read", 0) /\ Placed(op'[w])
  <2>1. op'[w] = [Idle EXCEPT !.pc = "create_read", !.key = key] /\ op[w].pc = "idle"
    BY <1>2, BecomeEffect DEF CreateStart, Accept, At
  <2>2. [Idle EXCEPT !.pc = "create_read", !.key = key] \in Request({})
    BY <1>1 DEF Request
  <2> QED
    BY <2>1, <2>2, IdleFacts DEF Placed, Begins, Idle
<1>3. ASSUME NEW b \in Ids, NEW pc \in Pcs, Accept(w, [Idle EXCEPT !.pc = pc, !.batch = b])
      PROVE  Begins(w, pc, b) /\ Placed(op'[w])
  <2>1. op'[w] = [Idle EXCEPT !.pc = pc, !.batch = b] /\ op[w].pc = "idle"
    BY <1>3, BecomeEffect DEF Accept, At
  <2>2. [Idle EXCEPT !.pc = pc, !.batch = b] \in Request({})
    BY <1>1 DEF Request, Pcs
  <2> QED
    BY <2>1, <2>2, IdleFacts DEF Placed, Begins, Idle
<1>4. ASSUME NEW b \in Ids, ApproveStart(w, b)
      PROVE  Begins(w, "approve", b) /\ Placed(op'[w])
  BY <1>3, <1>4 DEF ApproveStart, Pcs
<1>5. ASSUME NEW b \in Ids, CancelStart(w, b)
      PROVE  Begins(w, "cancel", b) /\ Placed(op'[w])
  BY <1>3, <1>5 DEF CancelStart, Pcs
<1>6. ASSUME NEW b \in Ids, ProcessStart(w, b)
      PROVE  /\ \/ batches[b].status = "PENDING" /\ Begins(w, "process", b)
                \/ batches[b].status = "PROCESSING" /\ Begins(w, "items", b)
             /\ Placed(op'[w])
  <2>1. PICK pc \in {"process", "items"} :
          /\ pc = IF batches[b].status = "PENDING" THEN "process" ELSE "items"
          /\ Accept(w, [Idle EXCEPT !.pc = pc, !.batch = b])
    BY <1>6 DEF ProcessStart
  <2>2. batches[b].status \in {"PENDING", "PROCESSING"}
    BY <1>6 DEF ProcessStart
  <2> QED
    BY <1>3, <2>1, <2>2 DEF Pcs, Busy
<1> QED
  BY <1>2, <1>4, <1>5, <1>6

\* The two database calls of createBatchFromPolicy.
LEMMA ReadEffect ==
  ASSUME TypeOK, NEW w \in Workers, CreateRead(w)
  PROVE  /\ op[w].pc = "create_read" /\ UNCHANGED <<tables, moved, left, faults>>
         /\ \/ op'[w] = Idle
            \/ op'[w].pc = "create_insert" /\ op'[w].batch = op[w].batch
         /\ Placed(op'[w])
<1>1. PICK S \in SUBSET Wallets : op[w] \in Request(S)
  BY DEF TypeOK
<1>2. op[w].pc = "create_read" /\ UNCHANGED <<tables, moved, left, faults>>
  BY DEF CreateRead, At
<1>3. CASE op'[w] = Idle
  BY <1>2, <1>3, IdleFacts
<1>4. CASE op'[w] # Idle
  <2> DEFINE self == [op[w] EXCEPT !.pc = "create_insert",
                                   !.items = [x \in Eligible |-> balance[x]]]
  <2>1. op'[w] = self
    BY <1>4, BecomeEffect, DoneEffect DEF CreateRead
  <2>2. Eligible \in SUBSET Wallets /\ [x \in Eligible |-> balance[x]] \in [Eligible -> Nat]
    BY DEF Eligible, TypeOK
  <2>3. self \in Request(Eligible) /\ self.pc = "create_insert" /\ self.batch = op[w].batch
    BY <1>1, <2>2 DEF Request
  <2> HIDE DEF self
  <2>4. Placed(self)
    BY <2>2, <2>3 DEF Placed
  <2> QED
    BY <1>2, <2>1, <2>3, <2>4
<1> QED
  BY <1>3, <1>4

LEMMA InsertEffect ==
  ASSUME TypeOK, NEW w \in Workers, CreateInsert(w)
  PROVE  /\ op[w].pc = "create_insert" /\ Len(batches) < MaxBatches /\ op'[w] = Idle
         /\ UNCHANGED <<balance, settlements, debited, journals, moved, left, faults>>
         /\ batches' \in Seq(AnyBatch)
         /\ Len(batches') = Len(batches) + 1
         /\ \A b \in Ids : batches'[b] = batches[b]
         /\ batches'[Len(batches) + 1].status = "PENDING"
         /\ batches'[Len(batches) + 1].approved = FALSE
<1> DEFINE new == [status |-> "PENDING", items |-> op[w].items, key |-> op[w].key,
                   approved |-> FALSE]
<1>1. PICK S \in SUBSET Wallets : op[w] \in Request(S)
  BY DEF TypeOK
<1>2. new \in Batch(S)
  BY <1>1 DEF Batch, Request
<1>3. new \in AnyBatch /\ batches \in Seq(AnyBatch) /\ Ids = 1..Len(batches)
  BY <1>2, BatchesAreTyped DEF AnyBatch
<1>4. batches' = Append(batches, new)
  BY DEF CreateInsert
<1>5. new.status = "PENDING" /\ new.approved = FALSE
  OBVIOUS
<1>6. /\ op[w].pc = "create_insert" /\ Len(batches) < MaxBatches /\ Done(w)
      /\ UNCHANGED <<balance, settlements, debited, journals, moved, left, faults>>
  BY DEF CreateInsert, At
<1> HIDE DEF new
<1>7. /\ batches' \in Seq(AnyBatch) /\ Len(batches') = Len(batches) + 1
      /\ \A b \in Ids : batches'[b] = batches[b]
      /\ batches'[Len(batches) + 1] = new
  BY <1>3, <1>4, AppendFacts
<1> QED
  BY <1>5, <1>6, <1>7, DoneEffect

-----------------------------------------------------------------------------
\* What refers to a batch refers to one that exists, and to an item of it.

Known ==
  /\ Len(batches) <= MaxBatches
  /\ \A s \in Payouts : settlements[s] # "ABSENT" \/ s \in debited =>
       s[1] \in Ids /\ s[2] \in DOMAIN batches[s[1]].items
  /\ \A w \in Workers :
       /\ op[w].pc \in Busy \cup {"approve", "cancel"} => op[w].batch \in Ids
       /\ op[w].pc \in Looping => op[w].todo \subseteq DOMAIN batches[op[w].batch].items
       /\ op[w].pc \in AtItem =>
            \E x \in DOMAIN batches[op[w].batch].items : op[w].item = {x} /\ x \notin op[w].todo

\* The settlement a request works on is one of its batch.
LEMMA CurrentFacts ==
  ASSUME TypeOK, Known, NEW w \in Workers, op[w].pc \in AtItem
  PROVE  /\ op[w].batch \in Ids /\ Current(w) \in Payouts /\ Current(w)[1] = op[w].batch
         /\ Current(w)[2] \in DOMAIN batches[op[w].batch].items
         /\ op[w].item = {Current(w)[2]} /\ Current(w)[2] \notin op[w].todo
         /\ Current(w) = <<op[w].batch, Current(w)[2]>>
<1>1. op[w].batch \in Ids
  BY DEF Known, AtItem, Busy
<1>2. PICK x \in DOMAIN batches[op[w].batch].items : op[w].item = {x} /\ x \notin op[w].todo
  BY DEF Known
<1>3. Current(w) = <<op[w].batch, x>>
  BY <1>2 DEF Current
<1>4. x \in Wallets /\ op[w].batch \in 1..MaxBatches
  BY <1>1, <1>2, BatchFacts, BatchesAreTyped, SettlementConstants DEF Known
<1> QED
  BY <1>1, <1>2, <1>3, <1>4 DEF Payouts

\* The steps that update a batch.
LEMMA BatchEffect ==
  ASSUME TypeOK, Known, NEW w \in Workers
  PROVE  /\ Approve(w) =>
              /\ op[w].pc = "approve" /\ op'[w] = Idle
              /\ batches' = [batches EXCEPT ![op[w].batch].approved = TRUE]
         /\ Cancel(w) =>
              /\ op[w].pc = "cancel" /\ op'[w] = Idle
              /\ batches' = [batches EXCEPT ![op[w].batch].status = "CANCELLED"]
         /\ Process(w) =>
              /\ op[w].pc = "process" /\ Moves(w, "items") /\ Placed(op'[w])
              /\ batches' = [batches EXCEPT ![op[w].batch].status = "PROCESSING"]
         /\ Finish(w) =>
              /\ op[w].pc \in {"complete", "fail"} /\ op'[w] = Idle
              /\ batches' = [batches EXCEPT ![op[w].batch].status =
                               IF op[w].pc = "fail" THEN "FAILED" ELSE "COMPLETED"]
         /\ Approve(w) \/ Cancel(w) \/ Process(w) \/ Finish(w) =>
              /\ op[w].batch \in Ids
              /\ UNCHANGED <<balance, settlements, debited, journals, moved, left, faults>>
<1>1. Approve(w) \/ Cancel(w) \/ Process(w) \/ Finish(w) =>
        /\ op[w].batch \in Ids
        /\ UNCHANGED <<balance, settlements, debited, journals, moved, left, faults>>
  BY DEF Approve, Cancel, Process, Finish, At, Known, Busy
<1>2. Process(w) => Moves(w, "items") /\ Placed(op'[w])
  BY ContinueEffect DEF Process, Pcs, Busy
<1>3. Approve(w) \/ Cancel(w) \/ Finish(w) => op'[w] = Idle
  BY DoneEffect DEF Approve, Cancel, Finish
<1> QED
  BY <1>1, <1>2, <1>3 DEF Approve, Cancel, Process, Finish, At, FinalStatus

\* The steps of an item.
LEMMA ItemEffect ==
  ASSUME TypeOK, NEW w \in Workers
  PROVE  /\ ItemCreate(w) =>
              /\ op[w].pc = "create" /\ UNCHANGED <<balance, batches, debited, journals, moved, left, faults>>
              /\ \/ /\ settlements[Current(w)] = "ABSENT" /\ Moves(w, "claim")
                    /\ settlements' = [settlements EXCEPT ![Current(w)] = "PENDING"]
                 \/ settlements' = settlements /\ Moves(w, "fail")
              /\ Placed(op'[w])
         /\ ItemClaim(w) =>
              /\ op[w].pc = "claim" /\ UNCHANGED <<balance, batches, debited, journals, moved, left, faults>>
              /\ \/ /\ settlements[Current(w)] = "PENDING" /\ Moves(w, "debit")
                    /\ settlements' = [settlements EXCEPT ![Current(w)] = "PROCESSING"]
                 \/ settlements' = settlements /\ Moves(w, "lost")
              /\ Placed(op'[w])
         /\ ItemLost(w) =>
              /\ op[w].pc = "lost" /\ UNCHANGED <<tables, moved, left, faults>>
              /\ \/ settlements[Current(w)] = "COMPLETED" /\ Moves(w, "next")
                 \/ Moves(w, "fail")
              /\ Placed(op'[w])
         /\ ItemDebit(w) =>
              /\ op[w].pc = "debit" /\ UNCHANGED <<tables, moved, left, faults>>
              /\ \/ Current(w) \in debited /\ Moves(w, "journal")
                 \/ Moves(w, "debit_apply")
              /\ Placed(op'[w])
         /\ ItemJournal(w) =>
              /\ op[w].pc = "journal" /\ UNCHANGED <<tables, moved, left, faults>>
              /\ \/ journals[Current(w)] > 0 /\ Moves(w, "finish")
                 \/ ~(journals[Current(w)] > 0) /\ Moves(w, "journal_insert")
              /\ Placed(op'[w])
         /\ ItemJournalInsert(w) =>
              /\ op[w].pc = "journal_insert" /\ Moves(w, "finish") /\ Placed(op'[w])
              /\ journals' = [journals EXCEPT ![Current(w)] = @ + 1]
              /\ UNCHANGED <<balance, batches, settlements, debited, moved, left, faults>>
         /\ ItemFinish(w) =>
              /\ op[w].pc = "finish" /\ Moves(w, "next") /\ Placed(op'[w])
              /\ settlements' = [settlements EXCEPT ![Current(w)] = "COMPLETED"]
              /\ UNCHANGED <<balance, batches, debited, journals, moved, left, faults>>
         /\ CallFails(w) =>
              /\ op[w].pc \in AtItem /\ Moves(w, "fail") /\ Placed(op'[w])
              /\ faults > 0 /\ faults' = faults - 1 /\ UNCHANGED <<tables, moved, left>>
<1>1. \A pc \in Pcs : Continue(w, pc) => Moves(w, pc) /\ Placed(op'[w])
  BY ContinueEffect
<1>2. Busy \subseteq Pcs
  BY DEF Pcs
<1> USE DEF At, Busy
<1>3. ItemCreate(w) =>
              /\ op[w].pc = "create" /\ UNCHANGED <<balance, batches, debited, journals, moved, left, faults>>
              /\ \/ /\ settlements[Current(w)] = "ABSENT" /\ Moves(w, "claim")
                    /\ settlements' = [settlements EXCEPT ![Current(w)] = "PENDING"]
                 \/ settlements' = settlements /\ Moves(w, "fail")
              /\ Placed(op'[w])
  BY <1>1, <1>2 DEF ItemCreate, ItemFails
<1>4. ItemClaim(w) =>
              /\ op[w].pc = "claim" /\ UNCHANGED <<balance, batches, debited, journals, moved, left, faults>>
              /\ \/ /\ settlements[Current(w)] = "PENDING" /\ Moves(w, "debit")
                    /\ settlements' = [settlements EXCEPT ![Current(w)] = "PROCESSING"]
                 \/ settlements' = settlements /\ Moves(w, "lost")
              /\ Placed(op'[w])
  BY <1>1, <1>2 DEF ItemClaim
<1>5. ItemLost(w) =>
              /\ op[w].pc = "lost" /\ UNCHANGED <<tables, moved, left, faults>>
              /\ \/ settlements[Current(w)] = "COMPLETED" /\ Moves(w, "next")
                 \/ Moves(w, "fail")
              /\ Placed(op'[w])
  BY <1>1, <1>2 DEF ItemLost, ItemFails
<1>6. ItemDebit(w) =>
              /\ op[w].pc = "debit" /\ UNCHANGED <<tables, moved, left, faults>>
              /\ \/ Current(w) \in debited /\ Moves(w, "journal")
                 \/ Moves(w, "debit_apply")
              /\ Placed(op'[w])
  BY <1>1, <1>2 DEF ItemDebit
<1>7. ItemJournal(w) =>
              /\ op[w].pc = "journal" /\ UNCHANGED <<tables, moved, left, faults>>
              /\ \/ journals[Current(w)] > 0 /\ Moves(w, "finish")
                 \/ ~(journals[Current(w)] > 0) /\ Moves(w, "journal_insert")
              /\ Placed(op'[w])
  BY <1>1, <1>2 DEF ItemJournal, Linked
<1>8. ItemJournalInsert(w) =>
              /\ op[w].pc = "journal_insert" /\ Moves(w, "finish") /\ Placed(op'[w])
              /\ journals' = [journals EXCEPT ![Current(w)] = @ + 1]
              /\ UNCHANGED <<balance, batches, settlements, debited, moved, left, faults>>
  BY <1>1, <1>2 DEF ItemJournalInsert
<1>9. ItemFinish(w) =>
              /\ op[w].pc = "finish" /\ Moves(w, "next") /\ Placed(op'[w])
              /\ settlements' = [settlements EXCEPT ![Current(w)] = "COMPLETED"]
              /\ UNCHANGED <<balance, batches, debited, journals, moved, left, faults>>
  BY <1>1, <1>2 DEF ItemFinish
<1>10. CallFails(w) =>
              /\ op[w].pc \in AtItem /\ Moves(w, "fail") /\ Placed(op'[w])
              /\ faults > 0 /\ faults' = faults - 1 /\ UNCHANGED <<tables, moved, left>>
  BY <1>1, <1>2 DEF CallFails, ItemFails, AtItem
<1> QED
  BY <1>3, <1>4, <1>5, <1>6, <1>7, <1>8, <1>9, <1>10

LEMMA ItemsEffect ==
  ASSUME TypeOK, NEW w \in Workers, Items(w), op[w].batch \in Ids
  PROVE  /\ op[w].pc = "items" /\ UNCHANGED <<tables, moved, left, faults>>
         /\ op'[w].pc = "next" /\ op'[w].batch = op[w].batch
         /\ op'[w].todo = DOMAIN batches[op[w].batch].items /\ op'[w].item = op[w].item
         /\ Placed(op'[w])
<1> DEFINE self == [op[w] EXCEPT !.pc = "next", !.todo = DOMAIN batches[op[w].batch].items]
<1>1. PICK S \in SUBSET Wallets : op[w] \in Request(S)
  BY DEF TypeOK
<1>2. DOMAIN batches[op[w].batch].items \subseteq Wallets
  BY BatchFacts
<1>3. /\ self \in Request(S) /\ self.pc = "next" /\ self.batch = op[w].batch
      /\ self.todo = DOMAIN batches[op[w].batch].items /\ self.item = op[w].item
  BY <1>1, <1>2 DEF Request, Busy
<1>4. op'[w] = self
  BY BecomeEffect DEF Items
<1> HIDE DEF self
<1> QED
  BY <1>3, <1>4 DEF Items, At, Placed

\* Where the loop goes with an item, by the status of its settlement.
Entry(status) ==
  CASE status = "ABSENT"     -> "create"
    [] status = "PENDING"    -> "claim"
    [] status = "PROCESSING" -> "debit"
    [] OTHER                 -> "next"

LEMMA NextItemEffect ==
  ASSUME TypeOK, NEW w \in Workers, NextItem(w)
  PROVE  /\ op[w].pc = "next" /\ UNCHANGED <<tables, moved, left, faults>>
         /\ \/ op[w].todo = {} /\ Moves(w, "complete")
            \/ \E x \in op[w].todo :
                 /\ op'[w].pc = Entry(settlements[<<op[w].batch, x>>])
                 /\ op'[w].batch = op[w].batch
                 /\ op'[w].todo = op[w].todo \ {x} /\ op'[w].item = {x}
         /\ Placed(op'[w])
<1>1. PICK S \in SUBSET Wallets : op[w] \in Request(S)
  BY DEF TypeOK
<1>2. op[w].pc = "next" /\ UNCHANGED <<tables, moved, left, faults>>
  BY DEF NextItem, At
<1>3. CASE op[w].todo = {} /\ Continue(w, "complete")
  BY <1>2, <1>3, ContinueEffect DEF Pcs, Busy
<1>4. ASSUME NEW x \in op[w].todo,
             Become(w, [op[w] EXCEPT
               !.todo = @ \ {x}, !.item = {x},
               !.pc = CASE settlements[<<op[w].batch, x>>] = "ABSENT"     -> "create"
                        [] settlements[<<op[w].batch, x>>] = "PENDING"    -> "claim"
                        [] settlements[<<op[w].batch, x>>] = "PROCESSING" -> "debit"
                        [] OTHER                                          -> "next"])
      PROVE  /\ op'[w].pc = Entry(settlements[<<op[w].batch, x>>])
             /\ op'[w].batch = op[w].batch
             /\ op'[w].todo = op[w].todo \ {x} /\ op'[w].item = {x}
             /\ Placed(op'[w])
  <2> DEFINE pc == Entry(settlements[<<op[w].batch, x>>])
             self == [op[w] EXCEPT !.todo = @ \ {x}, !.item = {x}, !.pc = pc]
  <2>1. op'[w] = self
    BY <1>4, BecomeEffect DEF Entry
  <2>2. pc \in {"create", "claim", "debit", "next"}
    BY DEF Entry
  <2> HIDE DEF pc
  <2>3. /\ self \in Request(S) /\ self.pc = pc /\ self.batch = op[w].batch
        /\ self.todo = op[w].todo \ {x} /\ self.item = {x}
    BY <1>1, <2>2 DEF Request, Busy
  <2> HIDE DEF self
  <2>4. Placed(self)
    BY <2>3 DEF Placed
  <2> QED
    BY <2>1, <2>3, <2>4 DEF pc
<1> QED
  BY <1>2, <1>3, <1>4 DEF NextItem

\* The debit: it happens once, in full, and only from a sufficient balance.
LEMMA DebitEffect ==
  ASSUME TypeOK, Known, NEW w \in Workers, ItemDebitApply(w)
  PROVE  LET s == Current(w)
             amount == batches[s[1]].items[s[2]] IN
         /\ op[w].pc = "debit_apply" /\ Placed(op'[w])
         /\ UNCHANGED <<batches, settlements, journals, moved, left, faults>>
         /\ \/ /\ Moves(w, "journal") /\ s \notin debited /\ debited' = debited \cup {s}
               /\ amount \in Nat /\ balance[s[2]] >= amount
               /\ balance' = [balance EXCEPT ![s[2]] = balance[s[2]] - amount]
            \/ Moves(w, "fail") /\ UNCHANGED <<balance, debited>>
<1> DEFINE s == Current(w)
           amount == batches[s[1]].items[s[2]]
           snapshot == [Empty EXCEPT !.available = balance[s[2]]]
<1>1. op[w].pc = "debit_apply" /\ op[w].pc \in AtItem
      /\ UNCHANGED <<batches, settlements, journals, moved, left, faults>>
  BY DEF ItemDebitApply, At, AtItem
<1>2. s[1] \in Ids /\ s[2] \in DOMAIN batches[s[1]].items
  BY <1>1, CurrentFacts
<1>3. amount \in Nat /\ s[2] \in Wallets /\ balance[s[2]] \in Int
  BY <1>2, BatchFacts DEF TypeOK
<1>4. snapshot.available = balance[s[2]]
  BY DEF Empty
<1>5. Continue(w, "journal") \/ Continue(w, "fail")
  BY DEF ItemDebitApply, ItemFails
<1>6. Placed(op'[w])
  BY <1>5, ContinueEffect DEF Pcs, Busy
<1>7. CASE Sufficient("debit", snapshot, amount) /\ Undebited(s)
  <2>1. /\ balance' = [balance EXCEPT ![s[2]] = After("debit", snapshot, amount).available]
        /\ debited' = debited \cup {s} /\ Continue(w, "journal")
    BY <1>7 DEF ItemDebitApply
  <2>2. Moves(w, "journal")
    BY <2>1, ContinueEffect DEF Pcs, Busy
  <2>3. After("debit", snapshot, amount).available = balance[s[2]] - amount
    BY <1>3, <1>4 DEF After, Moved, GivesAvailable, TakesAvailable
  <2>4. balance[s[2]] >= amount /\ s \notin debited
    BY <1>4, <1>7 DEF Sufficient, Undebited, TakesAvailable
  <2> QED
    BY <1>1, <1>3, <1>6, <2>1, <2>2, <2>3, <2>4
<1>8. CASE ~(Sufficient("debit", snapshot, amount) /\ Undebited(s))
  <2>1. UNCHANGED <<balance, debited>> /\ Continue(w, "fail")
    BY <1>8 DEF ItemDebitApply, ItemFails
  <2>2. Moves(w, "fail")
    BY <2>1, ContinueEffect DEF Pcs, Busy
  <2> QED
    BY <1>1, <1>6, <2>1, <2>2
<1> QED
  BY <1>7, <1>8

-----------------------------------------------------------------------------
\* The tables only grow.

LEMMA Alone ==
  ASSUME TypeOK, NEW w \in Workers, WorkerStep(w)
  PROVE  DOMAIN op' = Workers /\ \A v \in Workers : v # w => op'[v] = op[v]
<1>1. \E self : Become(w, self)
  <2>1. CASE ProcessStep(w) \/ CallFails(w)
    BY <2>1 DEF ProcessStep, Process, Items, NextItem, ItemCreate, ItemClaim, ItemLost, ItemDebit,
                ItemDebitApply, ItemJournal, ItemJournalInsert, ItemFinish, Finish, CallFails,
                ItemFails, Continue, Done
  <2> QED
    BY <2>1 DEF WorkerStep, CreateStart, CreateRead, CreateInsert, ApproveStart, CancelStart,
                ProcessStart, Approve, Cancel, Accept, Done
<1> QED
  BY <1>1, BecomeEffect

\* Batches are appended and never lose their items or their approval.
BatchesGrow ==
  /\ batches' \in Seq(AnyBatch) /\ Ids \subseteq Ids' /\ Len(batches') <= MaxBatches
  /\ \A b \in Ids : /\ batches'[b].items = batches[b].items
                    /\ batches[b].approved => batches'[b].approved
  /\ \A b \in Ids' \ Ids : batches'[b].status = "PENDING" /\ batches'[b].approved = FALSE

LEMMA BatchesStep ==
  ASSUME TypeOK, Known, [Next]_vars
  PROVE  BatchesGrow
<1>1. /\ batches \in Seq(AnyBatch) /\ Ids = 1..Len(batches) /\ Len(batches) \in Nat
      /\ Len(batches) <= MaxBatches /\ MaxBatches \in Nat
  BY BatchesAreTyped, SettlementConstants DEF Known
<1>2. CASE batches' = batches
  BY <1>1, <1>2 DEF BatchesGrow, Ids
<1>3. ASSUME NEW w \in Workers, CreateInsert(w)
      PROVE  BatchesGrow
  <2>1. /\ Len(batches) < MaxBatches /\ batches' \in Seq(AnyBatch)
        /\ Len(batches') = Len(batches) + 1
        /\ \A b \in Ids : batches'[b] = batches[b]
        /\ batches'[Len(batches) + 1].status = "PENDING"
        /\ batches'[Len(batches) + 1].approved = FALSE
    BY <1>3, InsertEffect
  <2>2. Ids' = 1..(Len(batches) + 1)
    BY <2>1 DEF Ids
  <2> QED
    BY <1>1, <2>1, <2>2 DEF BatchesGrow
<1>4. ASSUME NEW w \in Workers, Approve(w) \/ Cancel(w) \/ Process(w) \/ Finish(w)
      PROVE  BatchesGrow
  <2>1. op[w].batch \in Ids
    BY <1>4, BatchEffect
  <2>2. \/ \E st \in {"PENDING", "PROCESSING", "COMPLETED", "FAILED", "CANCELLED"} :
             batches' = [batches EXCEPT ![op[w].batch].status = st]
        \/ batches' = [batches EXCEPT ![op[w].batch].approved = TRUE]
    BY <1>4, BatchEffect
  <2>3. /\ batches' \in Seq(AnyBatch) /\ Ids' = Ids
        /\ \A c \in Ids : /\ batches'[c].items = batches[c].items
                          /\ batches[c].approved => batches'[c].approved
    BY <2>1, <2>2, UpdateFacts
  <2>4. Len(batches') = Len(batches)
    BY <1>1, <2>3 DEF Ids
  <2> QED
    BY <1>1, <2>3, <2>4 DEF BatchesGrow
<1>5. ASSUME NEW w \in Workers, WorkerStep(w), ~CreateInsert(w), ~Approve(w), ~Cancel(w),
             ~Process(w), ~Finish(w)
      PROVE  batches' = batches
  BY <1>5 DEF WorkerStep, ProcessStep, CreateStart, CreateRead, ApproveStart, CancelStart,
              ProcessStart, Accept, Items, NextItem, ItemCreate, ItemClaim, ItemLost, ItemDebit,
              ItemDebitApply, ItemJournal, ItemJournalInsert, ItemFinish, CallFails, tables
<1>6. MoveStep \/ Crash \/ UNCHANGED vars => batches' = batches
  BY DEF MoveStep, Move, Crash, tables, vars
<1> QED
  BY <1>2, <1>3, <1>4, <1>5, <1>6, NextSteps

-----------------------------------------------------------------------------
\* Where a step takes the request of its worker, and what it has then read or
\* written.

Goes(w) ==
  \/ op'[w] = Idle
  \/ Begins(w, "create_read", 0)
  \/ \E b \in Ids :
       \/ Begins(w, "approve", b)
       \/ Begins(w, "cancel", b) /\ batches[b].status = "PENDING"
       \/ Begins(w, "process", b) /\ batches[b].status = "PENDING" /\ Processable(batches[b])
       \/ Begins(w, "items", b) /\ batches[b].status = "PROCESSING" /\ Processable(batches[b])
  \/ op[w].pc = "create_read" /\ op'[w].pc = "create_insert" /\ op'[w].batch = op[w].batch
  \/ op[w].pc = "process" /\ Moves(w, "items") /\ batches'[op[w].batch].status = "PROCESSING"
  \/ /\ op[w].pc = "items" /\ op'[w].pc = "next" /\ op'[w].batch = op[w].batch
     /\ op'[w].todo = DOMAIN batches[op[w].batch].items /\ op'[w].item = op[w].item
  \/ op[w].pc = "next" /\ op[w].todo = {} /\ Moves(w, "complete")
  \/ /\ op[w].pc = "next" /\ op'[w].batch = op[w].batch
     /\ \E x \in op[w].todo :
          /\ op'[w].pc = Entry(settlements[<<op[w].batch, x>>])
          /\ op'[w].todo = op[w].todo \ {x} /\ op'[w].item = {x}
  \/ op[w].pc = "create" /\ Moves(w, "claim")
  \/ op[w].pc = "claim" /\ (Moves(w, "debit") \/ Moves(w, "lost"))
  \/ op[w].pc \in {"lost", "finish"} /\ Moves(w, "next") /\ settlements'[Current(w)] = "COMPLETED"
  \/ op[w].pc = "debit" /\ Moves(w, "debit_apply")
  \/ op[w].pc \in {"debit", "debit_apply"} /\ Moves(w, "journal") /\ Current(w) \in debited'
  \/ op[w].pc = "journal" /\ Moves(w, "journal_insert") /\ ~(journals[Current(w)] > 0)
  \/ op[w].pc \in {"journal", "journal_insert"} /\ Moves(w, "finish") /\ journals'[Current(w)] > 0
  \/ op[w].pc \in AtItem /\ Moves(w, "fail")

LEMMA WorkerGoes ==
  ASSUME TypeOK, Known, NEW w \in Workers, WorkerStep(w)
  PROVE  Goes(w) /\ Placed(op'[w])
<1>1. ASSUME NEW key \in Keys \cup {NoKey}, CreateStart(w, key)
      PROVE  Goes(w) /\ Placed(op'[w])
  BY <1>1, StartEffect DEF Goes
<1>2. ASSUME NEW b \in Ids, ApproveStart(w, b) \/ CancelStart(w, b) \/ ProcessStart(w, b)
      PROVE  Goes(w) /\ Placed(op'[w])
  <2>1. CASE ApproveStart(w, b)
    BY <2>1, StartEffect DEF Goes
  <2>2. CASE CancelStart(w, b)
    <3>1. batches[b].status = "PENDING"
      BY <2>2 DEF CancelStart, Cancellable
    <3> QED
      BY <2>2, <3>1, StartEffect DEF Goes
  <2>3. CASE ProcessStart(w, b)
    <3>1. Processable(batches[b])
      BY <2>3 DEF ProcessStart
    <3>2. /\ \/ batches[b].status = "PENDING" /\ Begins(w, "process", b)
             \/ batches[b].status = "PROCESSING" /\ Begins(w, "items", b)
          /\ Placed(op'[w])
      BY <2>3, StartEffect
    <3> QED
      BY <3>1, <3>2 DEF Goes
  <2> QED
    BY <1>2, <2>1, <2>2, <2>3
<1>3. CASE CreateRead(w)
  BY <1>3, ReadEffect DEF Goes
<1>4. CASE CreateInsert(w)
  BY <1>4, InsertEffect, IdleFacts DEF Goes
<1>5. CASE Approve(w) \/ Cancel(w) \/ Finish(w)
  BY <1>5, BatchEffect, IdleFacts DEF Goes
<1>6. CASE Process(w)
  <2>1. /\ op[w].pc = "process" /\ Moves(w, "items") /\ Placed(op'[w]) /\ op[w].batch \in Ids
        /\ batches' = [batches EXCEPT ![op[w].batch].status = "PROCESSING"]
    BY <1>6, BatchEffect
  <2>2. PICK S \in SUBSET Wallets : batches[op[w].batch] \in Batch(S)
    BY <2>1 DEF TypeOK
  <2>3. batches'[op[w].batch].status = "PROCESSING"
    BY <2>1, <2>2 DEF Ids, Batch
  <2> QED
    BY <2>1, <2>3 DEF Goes
<1>7. CASE Items(w)
  <2>1. op[w].pc = "items"
    BY <1>7 DEF Items, At
  <2>2. op[w].batch \in Ids
    BY <2>1 DEF Known, Busy
  <2> QED
    BY <1>7, <2>2, ItemsEffect DEF Goes
<1>8. CASE NextItem(w)
  <2>1. /\ op[w].pc = "next"
        /\ \/ op[w].todo = {} /\ Moves(w, "complete")
           \/ \E x \in op[w].todo :
                /\ op'[w].pc = Entry(settlements[<<op[w].batch, x>>])
                /\ op'[w].batch = op[w].batch
                /\ op'[w].todo = op[w].todo \ {x} /\ op'[w].item = {x}
        /\ Placed(op'[w])
    BY <1>8, NextItemEffect
  <2> QED
    BY <2>1 DEF Goes
<1>9. CASE ItemCreate(w) \/ ItemClaim(w) \/ ItemDebit(w) \/ ItemJournal(w) \/ CallFails(w)
  <2>1. CASE ItemCreate(w)
    BY <2>1, ItemEffect DEF Goes, AtItem
  <2>2. CASE ItemClaim(w)
    BY <2>2, ItemEffect DEF Goes
  <2>3. CASE ItemDebit(w)
    <3>1. /\ op[w].pc = "debit" /\ debited' = debited /\ Placed(op'[w])
          /\ \/ Current(w) \in debited /\ Moves(w, "journal")
             \/ Moves(w, "debit_apply")
      BY <2>3, ItemEffect DEF tables
    <3> QED
      BY <3>1 DEF Goes
  <2>4. CASE ItemJournal(w)
    <3>1. /\ op[w].pc = "journal" /\ journals' = journals /\ Placed(op'[w])
          /\ \/ journals[Current(w)] > 0 /\ Moves(w, "finish")
             \/ ~(journals[Current(w)] > 0) /\ Moves(w, "journal_insert")
      BY <2>4, ItemEffect DEF tables
    <3> QED
      BY <3>1 DEF Goes
  <2>5. CASE CallFails(w)
    BY <2>5, ItemEffect DEF Goes
  <2> QED
    BY <1>9, <2>1, <2>2, <2>3, <2>4, <2>5
<1>10. CASE ItemLost(w)
  <2>1. /\ op[w].pc = "lost" /\ settlements' = settlements /\ Placed(op'[w])
        /\ \/ settlements[Current(w)] = "COMPLETED" /\ Moves(w, "next")
           \/ Moves(w, "fail")
    BY <1>10, ItemEffect DEF tables
  <2> QED
    BY <2>1 DEF Goes, AtItem
<1>11. CASE ItemDebitApply(w)
  <2>1. /\ op[w].pc = "debit_apply" /\ Placed(op'[w])
        /\ \/ Moves(w, "journal") /\ Current(w) \in debited'
           \/ Moves(w, "fail")
    <3>1. Current(w) \in debited \cup {Current(w)}
      OBVIOUS
    <3> QED
      BY <1>11, <3>1, DebitEffect
  <2> QED
    BY <2>1 DEF Goes, AtItem
<1>12. CASE ItemJournalInsert(w)
  <2>1. /\ op[w].pc = "journal_insert" /\ Moves(w, "finish") /\ Placed(op'[w])
        /\ journals' = [journals EXCEPT ![Current(w)] = journals[Current(w)] + 1]
    BY <1>12, ItemEffect
  <2>2. Current(w) \in Payouts
    BY <2>1, CurrentFacts DEF AtItem
  <2>3. journals'[Current(w)] > 0
    BY <2>1, <2>2 DEF TypeOK
  <2> QED
    BY <2>1, <2>3 DEF Goes
<1>13. CASE ItemFinish(w)
  <2>1. /\ op[w].pc = "finish" /\ Moves(w, "next") /\ Placed(op'[w])
        /\ settlements' = [settlements EXCEPT ![Current(w)] = "COMPLETED"]
    BY <1>13, ItemEffect
  <2>2. Current(w) \in Payouts
    BY <2>1, CurrentFacts DEF AtItem
  <2>3. settlements'[Current(w)] = "COMPLETED"
    BY <2>1, <2>2 DEF TypeOK
  <2> QED
    BY <2>1, <2>3 DEF Goes
<1> QED
  BY <1>1, <1>2, <1>3, <1>4, <1>5, <1>6, <1>7, <1>8, <1>9, <1>10, <1>11, <1>12, <1>13
     DEF WorkerStep, ProcessStep

\* Which step changes what: a settlement is created, claimed and completed,
\* and debited and journaled, by the request that works on it.
TablesGrow ==
  /\ settlements' \in [Payouts -> {"ABSENT", "PENDING", "PROCESSING", "COMPLETED"}]
  /\ debited \subseteq debited' /\ debited' \subseteq Payouts
  /\ journals' \in [Payouts -> Nat]
  /\ \A s \in Payouts :
       /\ settlements[s] # "ABSENT" => settlements'[s] # "ABSENT"
       /\ settlements[s] = "COMPLETED" => settlements'[s] = "COMPLETED"
       /\ journals'[s] >= journals[s]

Working(w, s) == op[w].pc \in AtItem /\ Current(w) = s

ChangedBy(w) ==
  \A s \in Payouts :
    /\ settlements[s] # settlements'[s] => Working(w, s)
    /\ settlements[s] # "COMPLETED" /\ settlements'[s] = "COMPLETED" => op[w].pc = "finish"
    /\ s \notin debited /\ s \in debited' => Working(w, s) /\ op[w].pc = "debit_apply"
    /\ journals'[s] # journals[s] =>
         Working(w, s) /\ op[w].pc = "journal_insert" /\ journals'[s] = journals[s] + 1

LEMMA TablesKept ==
  ASSUME TypeOK, UNCHANGED <<settlements, debited, journals>>
  PROVE  TablesGrow /\ \A w : ChangedBy(w)
<1>1. \A s \in Payouts : journals[s] \in Nat
  BY DEF TypeOK
<1> QED
  BY <1>1 DEF TypeOK, TablesGrow, ChangedBy

LEMMA SettlementSet ==
  ASSUME TypeOK, Known, NEW w \in Workers, op[w].pc \in AtItem,
         NEW st \in {"PENDING", "PROCESSING", "COMPLETED"},
         settlements' = [settlements EXCEPT ![Current(w)] = st],
         st # "COMPLETED" => settlements[Current(w)] # "COMPLETED",
         st = "COMPLETED" => op[w].pc = "finish",
         UNCHANGED <<debited, journals>>
  PROVE  TablesGrow /\ ChangedBy(w)
<1>1. Current(w) \in Payouts
  BY CurrentFacts
<1>2. \A s \in Payouts : settlements'[s] = IF s = Current(w) THEN st ELSE settlements[s]
  BY <1>1 DEF TypeOK
<1>3. settlements' \in [Payouts -> {"ABSENT", "PENDING", "PROCESSING", "COMPLETED"}]
  BY DEF TypeOK
<1>4. \A s \in Payouts : journals[s] \in Nat
  BY DEF TypeOK
<1> QED
  BY <1>1, <1>2, <1>3, <1>4 DEF TypeOK, TablesGrow, ChangedBy, Working

LEMMA TablesStep ==
  ASSUME TypeOK, Known, NEW w \in Workers, WorkerStep(w)
  PROVE  TablesGrow /\ ChangedBy(w)
<1>1. CASE ItemCreate(w)
  <2>1. /\ op[w].pc = "create" /\ UNCHANGED <<debited, journals>>
        /\ \/ /\ settlements[Current(w)] = "ABSENT"
              /\ settlements' = [settlements EXCEPT ![Current(w)] = "PENDING"]
           \/ settlements' = settlements
    BY <1>1, ItemEffect
  <2> QED
    BY <2>1, TablesKept, SettlementSet DEF AtItem
<1>2. CASE ItemClaim(w)
  <2>1. /\ op[w].pc = "claim" /\ UNCHANGED <<debited, journals>>
        /\ \/ /\ settlements[Current(w)] = "PENDING"
              /\ settlements' = [settlements EXCEPT ![Current(w)] = "PROCESSING"]
           \/ settlements' = settlements
    BY <1>2, ItemEffect
  <2> QED
    BY <2>1, TablesKept, SettlementSet DEF AtItem
<1>3. CASE ItemFinish(w)
  <2>1. /\ op[w].pc = "finish" /\ UNCHANGED <<debited, journals>>
        /\ settlements' = [settlements EXCEPT ![Current(w)] = "COMPLETED"]
    BY <1>3, ItemEffect
  <2> QED
    BY <2>1, SettlementSet DEF AtItem
<1>4. CASE ItemDebitApply(w)
  <2>1. /\ op[w].pc = "debit_apply" /\ UNCHANGED <<settlements, journals>>
        /\ debited' = debited \cup {Current(w)} \/ debited' = debited
    BY <1>4, DebitEffect
  <2>2. CASE debited' = debited
    BY <2>1, <2>2, TablesKept
  <2>3. CASE debited' = debited \cup {Current(w)}
    <3>1. Current(w) \in Payouts /\ op[w].pc \in AtItem
      BY <2>1, CurrentFacts DEF AtItem
    <3>2. \A s \in Payouts : journals[s] \in Nat
      BY DEF TypeOK
    <3> QED
      BY <2>1, <2>3, <3>1, <3>2 DEF TypeOK, TablesGrow, ChangedBy, Working
  <2> QED
    BY <2>1, <2>2, <2>3
<1>5. CASE ItemJournalInsert(w)
  <2>1. /\ op[w].pc = "journal_insert" /\ UNCHANGED <<settlements, debited>>
        /\ journals' = [journals EXCEPT ![Current(w)] = journals[Current(w)] + 1]
    BY <1>5, ItemEffect
  <2>2. Current(w) \in Payouts /\ op[w].pc \in AtItem
    BY <2>1, CurrentFacts DEF AtItem
  <2>3. \A s \in Payouts : /\ journals[s] \in Nat
                           /\ journals'[s] = IF s = Current(w) THEN journals[s] + 1 ELSE journals[s]
    BY <2>1, <2>2 DEF TypeOK
  <2>4. journals' \in [Payouts -> Nat]
    BY <2>1, <2>2 DEF TypeOK
  <2> QED
    BY <2>1, <2>2, <2>3, <2>4 DEF TypeOK, TablesGrow, ChangedBy, Working
<1>6. ASSUME ~ItemCreate(w), ~ItemClaim(w), ~ItemFinish(w), ~ItemDebitApply(w), ~ItemJournalInsert(w)
      PROVE  UNCHANGED <<settlements, debited, journals>>
  BY <1>6 DEF WorkerStep, ProcessStep, CreateStart, CreateRead, CreateInsert, ApproveStart,
              CancelStart, ProcessStart, Approve, Cancel, Process, Accept, Items, NextItem,
              ItemLost, ItemDebit, ItemJournal, Finish, CallFails, tables
<1> QED
  BY <1>1, <1>2, <1>3, <1>4, <1>5, <1>6, TablesKept

\* The balances and the bounds stay typed.
LEMMA CountersStep ==
  ASSUME TypeOK, Known, [Next]_vars
  PROVE  balance' \in [Wallets -> Int] /\ moved' \in Int /\ left' \in Nat /\ faults' \in Nat
<1> DEFINE Good == balance' \in [Wallets -> Int] /\ moved' \in Int /\ left' \in Nat /\ faults' \in Nat
<1>1. ASSUME NEW w \in Workers, ItemDebitApply(w)
      PROVE  Good
  <2>1. Current(w) \in Payouts /\ op[w].pc \in AtItem
    <3>1. op[w].pc \in AtItem
      BY <1>1 DEF ItemDebitApply, At, AtItem
    <3> QED
      BY <3>1, CurrentFacts
  <2>2. /\ UNCHANGED <<moved, left, faults>>
        /\ \/ /\ batches[Current(w)[1]].items[Current(w)[2]] \in Nat
              /\ balance' = [balance EXCEPT ![Current(w)[2]] =
                               balance[Current(w)[2]] - batches[Current(w)[1]].items[Current(w)[2]]]
           \/ UNCHANGED balance
    BY <1>1, DebitEffect
  <2>3. Current(w)[2] \in Wallets
    BY <2>1 DEF Payouts
  <2> DEFINE amount == batches[Current(w)[1]].items[Current(w)[2]]
  <2> HIDE DEF amount
  <2>4. amount \in Nat => balance[Current(w)[2]] - amount \in Int
    BY <2>3 DEF TypeOK
  <2> QED
    BY <2>2, <2>3, <2>4 DEF TypeOK, amount
<1>2. ASSUME NEW x \in Wallets, NEW amount \in {-1, 1}, Move(x, amount)
      PROVE  Good
  <2>1. /\ left > 0 /\ left' = left - 1 /\ moved' = moved + amount /\ faults' = faults
        /\ balance' = [balance EXCEPT ![x] = balance[x] + amount]
    BY <1>2 DEF Move
  <2>2. balance[x] + amount \in Int /\ moved + amount \in Int /\ (left > 0 => left - 1 \in Nat)
    BY DEF TypeOK
  <2> QED
    BY <2>1, <2>2 DEF TypeOK
<1>3. CASE Crash
  BY <1>3 DEF Crash, tables, TypeOK
<1>4. CASE UNCHANGED vars
  BY <1>4 DEF vars, TypeOK
<1>5. ASSUME NEW w \in Workers, WorkerStep(w), ~ItemDebitApply(w)
      PROVE  Good
  <2>1. /\ balance' = balance /\ moved' = moved
        /\ left' = left \/ (left > 0 /\ left' = left - 1)
        /\ faults' = faults \/ (faults > 0 /\ faults' = faults - 1)
    BY <1>5 DEF WorkerStep, ProcessStep, CreateStart, CreateRead, CreateInsert, ApproveStart,
                CancelStart, ProcessStart, Approve, Cancel, Process, Accept, Items, NextItem,
                ItemCreate, ItemClaim, ItemLost, ItemDebit, ItemJournal, ItemJournalInsert,
                ItemFinish, Finish, CallFails, tables
  <2> QED
    BY <2>1 DEF TypeOK
<1> QED
  BY <1>1, <1>2, <1>3, <1>4, <1>5, NextSteps DEF MoveStep

\* What a step does to any request, and to the tables.
LEMMA RequestsStep ==
  ASSUME TypeOK, Known, [Next]_vars
  PROVE  /\ DOMAIN op' = Workers
         /\ \A v \in Workers :
              /\ op'[v] = op[v] \/ op'[v] = Idle \/ (WorkerStep(v) /\ Goes(v))
              /\ Placed(op'[v])
         /\ TablesGrow
         /\ \A s \in Payouts :
              \/ settlements'[s] = settlements[s] /\ journals'[s] = journals[s]
                 /\ (s \in debited' => s \in debited)
              \/ \E w \in Workers : WorkerStep(w) /\ ChangedBy(w)
<1> DEFINE Same(s) == /\ settlements'[s] = settlements[s] /\ journals'[s] = journals[s]
                      /\ s \in debited' => s \in debited
           Changed == \E w \in Workers : WorkerStep(w) /\ ChangedBy(w)
<1>1. \A v \in Workers : Placed(op[v])
  BY DEF TypeOK, Placed
<1>2. ASSUME NEW w \in Workers, WorkerStep(w)
      PROVE  /\ DOMAIN op' = Workers
             /\ \A v \in Workers : op'[v] = op[v] \/ (WorkerStep(v) /\ Goes(v))
             /\ \A v \in Workers : Placed(op'[v])
             /\ TablesGrow /\ Changed
  <2>1. DOMAIN op' = Workers /\ \A v \in Workers : v # w => op'[v] = op[v]
    BY <1>2, Alone
  <2>2. Goes(w) /\ Placed(op'[w])
    BY <1>2, WorkerGoes
  <2>3. TablesGrow /\ ChangedBy(w)
    BY <1>2, TablesStep
  <2> QED
    BY <1>1, <1>2, <2>1, <2>2, <2>3
<1>3. ASSUME MoveStep \/ Crash \/ UNCHANGED vars
      PROVE  /\ UNCHANGED <<settlements, debited, journals>> /\ DOMAIN op' = Workers
             /\ \A v \in Workers : op'[v] = op[v] \/ op'[v] = Idle
  <2>1. CASE MoveStep
    BY <2>1 DEF MoveStep, Move, TypeOK
  <2>2. CASE Crash
    BY <2>2 DEF Crash, tables
  <2>3. CASE UNCHANGED vars
    BY <2>3 DEF vars, TypeOK
  <2> QED
    BY <1>3, <2>1, <2>2, <2>3
<1>4. ASSUME MoveStep \/ Crash \/ UNCHANGED vars
      PROVE  /\ TablesGrow /\ \A s : Same(s)
             /\ \A v \in Workers : Placed(op'[v])
  <2>1. TablesGrow
    BY <1>3, <1>4, TablesKept
  <2>2. \A s : Same(s)
    BY <1>3, <1>4
  <2>3. \A v \in Workers : Placed(op'[v])
    BY <1>1, <1>3, <1>4, IdleFacts
  <2> QED
    BY <2>1, <2>2, <2>3
<1>5. (\E w \in Workers : WorkerStep(w)) \/ (MoveStep \/ Crash \/ UNCHANGED vars)
  BY NextSteps
<1> HIDE DEF Same, Changed
<1>6. CASE \E w \in Workers : WorkerStep(w)
  <2>1. PICK w \in Workers : WorkerStep(w)
    BY <1>6
  <2>2. /\ DOMAIN op' = Workers
        /\ \A v \in Workers : op'[v] = op[v] \/ (WorkerStep(v) /\ Goes(v))
        /\ \A v \in Workers : Placed(op'[v])
        /\ TablesGrow /\ Changed
    BY <1>2, <2>1
  <2> QED
    BY <2>2 DEF Changed
<1>7. CASE MoveStep \/ Crash \/ UNCHANGED vars
  BY <1>3, <1>4, <1>7 DEF Same
<1> QED
  BY <1>5, <1>6, <1>7

LEMMA TypeNext ==
  ASSUME TypeOK, Known, [Next]_vars
  PROVE  TypeOK'
<1>1. batches' \in Seq(AnyBatch) /\ Ids \subseteq Ids'
  BY BatchesStep DEF BatchesGrow
<1>2. /\ (batches \in Seq({batches[b] : b \in Ids}))'
      /\ (\A b \in Ids : \E S \in SUBSET Wallets : batches[b] \in Batch(S))'
  BY <1>1, TypedBatchesNext
<1>3. DOMAIN op' = Workers /\ TablesGrow /\ \A v \in Workers : Placed(op'[v])
  BY RequestsStep
<1>4. (\A w \in Workers : \E S \in SUBSET Wallets : op[w] \in Request(S))'
  BY <1>1, <1>3, RequestGrows
<1>5. balance' \in [Wallets -> Int] /\ moved' \in Int /\ left' \in Nat /\ faults' \in Nat
  BY CountersStep
<1>6. /\ settlements' \in [Payouts -> {"ABSENT", "PENDING", "PROCESSING", "COMPLETED"}]
      /\ debited' \subseteq Payouts /\ journals' \in [Payouts -> Nat]
  BY <1>3 DEF TablesGrow
<1> QED
  BY <1>2, <1>3, <1>4, <1>5, <1>6 DEF TypeOK

\* The part of Known about one request, in the terms of the batches of now.
KnownRequest(self) ==
  /\ self.pc \in Busy \cup {"approve", "cancel"} => self.batch \in Ids
  /\ self.pc \in Looping => self.todo \subseteq DOMAIN batches[self.batch].items
  /\ self.pc \in AtItem =>
       \E x \in DOMAIN batches[self.batch].items : self.item = {x} /\ x \notin self.todo

LEMMA KnownGoes ==
  ASSUME TypeOK, Known, NEW w \in Workers, Goes(w)
  PROVE  KnownRequest(op'[w])
<1> DEFINE b == op[w].batch
<1>1. KnownRequest(op[w])
  BY DEF Known, KnownRequest
<1>2. \A st : Entry(st) \in {"create", "claim", "debit", "next"}
  BY DEF Entry
<1>3. CASE op'[w] = Idle
  BY <1>3, IdleFacts DEF KnownRequest, Looping, AtItem, Busy
<1>4. CASE Begins(w, "create_read", 0)
  BY <1>4 DEF Begins, KnownRequest, Looping, AtItem, Busy
<1>5. ASSUME NEW c \in Ids, NEW pc \in {"approve", "cancel", "process", "items"}, Begins(w, pc, c)
      PROVE  KnownRequest(op'[w])
  BY <1>5 DEF Begins, KnownRequest, Looping, AtItem, Busy
<1>6. CASE op[w].pc = "create_read" /\ op'[w].pc = "create_insert"
  BY <1>6 DEF KnownRequest, Looping, AtItem, Busy
<1>7. CASE op[w].pc = "process" /\ Moves(w, "items")
  BY <1>1, <1>7 DEF Moves, KnownRequest, Looping, AtItem, Busy
<1>8. CASE /\ op[w].pc = "items" /\ op'[w].pc = "next" /\ op'[w].batch = op[w].batch
           /\ op'[w].todo = DOMAIN batches[op[w].batch].items
  BY <1>1, <1>8 DEF KnownRequest, Looping, AtItem, Busy
<1>9. CASE op[w].pc = "next" /\ Moves(w, "complete")
  BY <1>1, <1>9 DEF Moves, KnownRequest, Looping, AtItem, Busy
<1>10. ASSUME NEW x \in op[w].todo, op[w].pc = "next", op'[w].batch = op[w].batch,
              op'[w].pc \in {"create", "claim", "debit", "next"},
              op'[w].todo = op[w].todo \ {x}, op'[w].item = {x}
       PROVE  KnownRequest(op'[w])
  BY <1>1, <1>10 DEF KnownRequest, Looping, AtItem, Busy
<1>11. ASSUME NEW pc \in AtItem \cup {"next", "fail"}, op[w].pc \in AtItem, Moves(w, pc)
       PROVE  KnownRequest(op'[w])
  <2>1. op[w].pc \in Busy /\ op[w].pc \in Looping
    BY <1>11 DEF AtItem, Busy, Looping
  <2>2. op'[w].batch = op[w].batch /\ op'[w].todo = op[w].todo /\ op'[w].item = op[w].item
    BY <1>11 DEF Moves
  <2> QED
    BY <1>1, <1>11, <2>1, <2>2 DEF KnownRequest
<1> QED
  BY <1>2, <1>3, <1>4, <1>5, <1>6, <1>7, <1>8, <1>9, <1>10, <1>11 DEF Goes, AtItem

LEMMA KnownNext ==
  ASSUME TypeOK, Known, [Next]_vars
  PROVE  Known'
<1>1. BatchesGrow
  BY BatchesStep
<1>2. /\ TablesGrow
      /\ \A v \in Workers : op'[v] = op[v] \/ op'[v] = Idle \/ Goes(v)
  BY RequestsStep
<1>3. ASSUME NEW s \in Payouts, settlements'[s] # "ABSENT" \/ s \in debited'
      PROVE  s[1] \in Ids /\ s[2] \in DOMAIN batches[s[1]].items
  <2>1. CASE settlements[s] # "ABSENT" \/ s \in debited
    BY <2>1 DEF Known
  <2>2. CASE settlements[s] = "ABSENT" /\ s \notin debited
    <3>1. PICK w \in Workers : WorkerStep(w) /\ ChangedBy(w)
      BY <1>3, <2>2, RequestsStep
    <3>2. Working(w, s)
      BY <1>3, <2>2, <3>1 DEF ChangedBy
    <3> QED
      BY <3>2, CurrentFacts DEF Working
  <2> QED
    BY <2>1, <2>2
<1>4. ASSUME NEW s \in Payouts, settlements'[s] # "ABSENT" \/ s \in debited'
      PROVE  s[1] \in Ids' /\ s[2] \in DOMAIN batches'[s[1]].items
  BY <1>1, <1>3, <1>4 DEF BatchesGrow
<1>5. ASSUME NEW v \in Workers
      PROVE  KnownRequest(op'[v])
  <2>1. CASE op'[v] = op[v]
    BY <2>1 DEF Known, KnownRequest
  <2>2. CASE op'[v] = Idle
    BY <2>2, IdleFacts DEF KnownRequest, Looping, AtItem, Busy
  <2>3. CASE Goes(v)
    BY <2>3, KnownGoes
  <2> QED
    BY <1>2, <2>1, <2>2, <2>3
<1>6. ASSUME NEW v \in Workers
      PROVE  /\ op'[v].pc \in Busy \cup {"approve", "cancel"} => op'[v].batch \in Ids'
             /\ op'[v].pc \in Looping => op'[v].todo \subseteq DOMAIN batches'[op'[v].batch].items
             /\ op'[v].pc \in AtItem =>
                  \E x \in DOMAIN batches'[op'[v].batch].items :
                    op'[v].item = {x} /\ x \notin op'[v].todo
  <2>1. op'[v].pc \in Busy \cup {"approve", "cancel"} => op'[v].batch \in Ids
    BY <1>5 DEF KnownRequest
  <2>2. op'[v].pc \in Looping => op'[v].pc \in Busy
    BY DEF Looping, AtItem, Busy
  <2>3. op'[v].batch \in Ids =>
          batches'[op'[v].batch].items = batches[op'[v].batch].items /\ op'[v].batch \in Ids'
    BY <1>1 DEF BatchesGrow
  <2>4. op'[v].pc \in AtItem => op'[v].pc \in Looping
    BY DEF Looping
  <2> QED
    BY <1>5, <2>1, <2>2, <2>3, <2>4 DEF KnownRequest
<1>7. Len(batches') <= MaxBatches
  BY <1>1 DEF BatchesGrow
<1> QED
  BY <1>4, <1>6, <1>7 DEF Known

LEMMA InitTyped == Init => TypeOK /\ Known
<1> SUFFICES ASSUME Init
             PROVE  TypeOK /\ Known
  OBVIOUS
<1>1. Ids = {} /\ Len(batches) = 0
  BY DEF Init, Ids
<1>2. batches \in Seq({batches[b] : b \in Ids})
  BY DEF Init
<1>3. \A w \in Workers : op[w] = Idle
  BY DEF Init
<1>4. \A w \in Workers : \E S \in SUBSET Wallets : op[w] \in Request(S)
  BY <1>3, IdleFacts DEF Placed
<1>5. /\ balance \in [Wallets -> Int] /\ DOMAIN op = Workers
      /\ settlements \in [Payouts -> {"ABSENT", "PENDING", "PROCESSING", "COMPLETED"}]
      /\ debited \subseteq Payouts /\ journals \in [Payouts -> Nat]
      /\ moved \in Int /\ left \in Nat /\ faults \in Nat
  BY SettlementConstants DEF Init
<1>6. TypeOK
  BY <1>1, <1>2, <1>4, <1>5 DEF TypeOK
<1>7. \A s \in Payouts : settlements[s] = "ABSENT" /\ s \notin debited
  BY DEF Init
<1>8. \A w \in Workers : op[w].pc = "idle"
  BY <1>3, IdleFacts
<1>9. Known
  BY <1>1, <1>7, <1>8, SettlementConstants DEF Known, Looping, AtItem, Busy
<1> QED
  BY <1>6, <1>9

\* Every table and request keeps its shape, and whatever settles, debits or is
\* being processed belongs to a batch on record and to one of its items.
THEOREM BatchesAreKept == Spec => [](TypeOK /\ Known)
<1>1. Init => TypeOK /\ Known
  BY InitTyped
<1>2. TypeOK /\ Known /\ [Next]_vars => (TypeOK /\ Known)'
  BY TypeNext, KnownNext
<1> QED
  BY <1>1, <1>2, PTL DEF Spec

-----------------------------------------------------------------------------
\* Approval.

Asked ==
  RequiresApproval =>
    /\ \A s \in Payouts : settlements[s] # "ABSENT" => batches[s[1]].approved
    /\ \A w \in Workers : op[w].pc \in Busy => batches[op[w].batch].approved

LEMMA AskedNext ==
  ASSUME TypeOK, Known, Asked, [Next]_vars
  PROVE  Asked'
<1> SUFFICES ASSUME RequiresApproval
             PROVE  /\ \A s \in Payouts : settlements'[s] # "ABSENT" => batches'[s[1]].approved
                    /\ \A w \in Workers : op'[w].pc \in Busy => batches'[op'[w].batch].approved
  BY DEF Asked
<1>1. BatchesGrow
  BY BatchesStep
<1>2. \A v \in Workers : op'[v] = op[v] \/ op'[v] = Idle \/ Goes(v)
  BY RequestsStep
<1>3. \A w \in Workers : op[w].pc \in Busy =>
        op[w].batch \in Ids /\ batches[op[w].batch].approved
  BY DEF Asked, Known
<1>4. ASSUME NEW s \in Payouts, settlements'[s] # "ABSENT"
      PROVE  batches'[s[1]].approved
  <2>1. CASE settlements[s] # "ABSENT"
    <3>1. s[1] \in Ids /\ batches[s[1]].approved
      BY <2>1 DEF Asked, Known
    <3> QED
      BY <1>1, <3>1 DEF BatchesGrow
  <2>2. CASE settlements[s] = "ABSENT"
    <3>1. PICK w \in Workers : WorkerStep(w) /\ ChangedBy(w)
      BY <1>4, <2>2, RequestsStep
    <3>2. Working(w, s)
      BY <1>4, <2>2, <3>1 DEF ChangedBy
    <3>3. s[1] = op[w].batch /\ op[w].pc \in Busy
      BY <3>2, CurrentFacts DEF Working, AtItem, Busy
    <3> QED
      BY <1>1, <1>3, <3>3 DEF BatchesGrow
  <2> QED
    BY <2>1, <2>2
<1>5. ASSUME NEW v \in Workers, op'[v].pc \in Busy
      PROVE  batches'[op'[v].batch].approved
  <2>1. op'[v].batch \in Ids /\ batches[op'[v].batch].approved
    <3>1. CASE op'[v] = op[v]
      BY <1>3, <1>5, <3>1
    <3>2. CASE op'[v] = Idle
      BY <1>5, <3>2, IdleFacts DEF Busy
    <3>3. CASE op[v].pc \in Busy /\ op'[v].batch = op[v].batch
      BY <1>3, <3>3
    <3>4. ASSUME NEW b \in Ids, NEW pc, Begins(v, pc, b), Processable(batches[b])
          PROVE  op'[v].batch \in Ids /\ batches[op'[v].batch].approved
      BY <3>4 DEF Begins, Processable
    <3>5. CASE Goes(v) /\ ~(op[v].pc \in Busy /\ op'[v].batch = op[v].batch)
      BY <1>5, <3>2, <3>4, <3>5 DEF Goes, Moves, Begins, Busy, AtItem
    <3> QED
      BY <1>2, <3>1, <3>2, <3>3, <3>5
  <2> QED
    BY <1>1, <2>1 DEF BatchesGrow
<1> QED
  BY <1>4, <1>5

-----------------------------------------------------------------------------
\* How far a batch is.

Paid(s, st, ds, js) == st[s] = "COMPLETED" /\ s \in ds /\ js[s] > 0

\* What a request has done, in the terms of the tables: everything before the
\* current item is paid, and the current one as far as the request has come.
Advanced(self, bs, st, ds, js) ==
  LET s == <<self.batch, CHOOSE x \in self.item : TRUE>> IN
  /\ self.pc \in {"process", "items"} => self.item = {}
  /\ self.pc \in {"journal", "journal_insert", "finish"} => s \in ds
  /\ self.pc = "finish" => js[s] > 0
  /\ self.pc \in Looping =>
       \A x \in DOMAIN bs[self.batch].items \ (self.todo \cup self.item) :
         Paid(<<self.batch, x>>, st, ds, js)
  /\ self.pc \in {"next", "complete"} =>
       \A x \in self.item \cap DOMAIN bs[self.batch].items : Paid(<<self.batch, x>>, st, ds, js)
  /\ self.pc = "complete" => self.todo = {}

CompletedIsPaid(st, ds, js) ==
  \A s \in Payouts : st[s] = "COMPLETED" => Paid(s, st, ds, js)

Progress ==
  /\ CompletedIsPaid(settlements, debited, journals)
  /\ \A w \in Workers : Advanced(op[w], batches, settlements, debited, journals)
  /\ CompletedBatchIsPaid

LEMMA PayoutOfItem ==
  ASSUME TypeOK, Known, NEW b \in Ids, NEW x \in DOMAIN batches[b].items
  PROVE  <<b, x>> \in Payouts
<1>1. b \in 1..MaxBatches
  BY BatchesAreTyped, SettlementConstants DEF Known
<1> QED
  BY <1>1, BatchFacts DEF Payouts

LEMMA PaidGrows ==
  ASSUME TypeOK, TablesGrow, NEW s \in Payouts, Paid(s, settlements, debited, journals)
  PROVE  Paid(s, settlements', debited', journals')
<1>1. journals[s] \in Nat /\ journals'[s] \in Nat
  BY DEF TypeOK, TablesGrow
<1> QED
  BY <1>1 DEF TablesGrow, Paid

LEMMA CompletedNext ==
  ASSUME TypeOK, Known, Progress, [Next]_vars
  PROVE  CompletedIsPaid(settlements', debited', journals')
<1> SUFFICES ASSUME NEW s \in Payouts, settlements'[s] = "COMPLETED"
             PROVE  Paid(s, settlements', debited', journals')
  BY DEF CompletedIsPaid
<1>1. TablesGrow
  BY RequestsStep
<1>2. CASE settlements[s] = "COMPLETED"
  BY <1>1, <1>2, PaidGrows DEF Progress, CompletedIsPaid
<1>3. CASE settlements[s] # "COMPLETED"
  <2>1. PICK w \in Workers : WorkerStep(w) /\ ChangedBy(w)
    BY <1>3, RequestsStep
  <2>2. Working(w, s) /\ op[w].pc = "finish"
    BY <1>3, <2>1 DEF ChangedBy
  <2>3. s = <<op[w].batch, CHOOSE x \in op[w].item : TRUE>>
    BY <2>2 DEF Working, Current
  <2>4. s \in debited /\ journals[s] > 0
    BY <2>2, <2>3 DEF Progress, Advanced
  <2>5. journals[s] \in Nat /\ journals'[s] \in Nat
    BY <1>1 DEF TypeOK, TablesGrow
  <2> QED
    BY <1>1, <2>4, <2>5 DEF TablesGrow, Paid
<1> QED
  BY <1>2, <1>3

\* What changes the status of a batch: the request that cancels, processes or
\* finishes it.
StatusSet(w, b) ==
  /\ op[w].batch = b
  /\ \/ op[w].pc = "cancel" /\ op'[w] = Idle /\ batches'[b].status = "CANCELLED"
     \/ op[w].pc = "process" /\ Moves(w, "items") /\ batches'[b].status = "PROCESSING"
     \/ op[w].pc = "complete" /\ op'[w] = Idle /\ batches'[b].status = "COMPLETED"
     \/ op[w].pc = "fail" /\ op'[w] = Idle /\ batches'[b].status = "FAILED"

LEMMA StatusStep ==
  ASSUME TypeOK, Known, [Next]_vars, NEW b \in Ids
  PROVE  \/ batches'[b].status = batches[b].status
         \/ \E w \in Workers : WorkerStep(w) /\ StatusSet(w, b)
<1>1. ASSUME NEW c \in Ids, NEW st, batches' = [batches EXCEPT ![c].status = st]
      PROVE  batches'[b].status = IF b = c THEN st ELSE batches[b].status
  <2>1. PICK S \in SUBSET Wallets : batches[c] \in Batch(S)
    BY DEF TypeOK
  <2>2. [batches[c] EXCEPT !.status = st].status = st
    BY <2>1 DEF Batch
  <2> QED
    BY <1>1, <2>2 DEF Ids
<1>2. ASSUME NEW w \in Workers, Cancel(w) \/ Process(w) \/ Finish(w)
      PROVE  batches'[b].status = batches[b].status \/ StatusSet(w, b)
  <2>1. op[w].batch \in Ids
    BY <1>2, BatchEffect
  <2>2. CASE Cancel(w)
    <3>1. /\ op[w].pc = "cancel" /\ op'[w] = Idle
          /\ batches' = [batches EXCEPT ![op[w].batch].status = "CANCELLED"]
      BY <2>2, BatchEffect
    <3>2. batches'[b].status = IF b = op[w].batch THEN "CANCELLED" ELSE batches[b].status
      BY <1>1, <2>1, <3>1
    <3> QED
      BY <3>1, <3>2 DEF StatusSet
  <2>3. CASE Process(w)
    <3>1. /\ op[w].pc = "process" /\ Moves(w, "items")
          /\ batches' = [batches EXCEPT ![op[w].batch].status = "PROCESSING"]
      BY <2>3, BatchEffect
    <3>2. batches'[b].status = IF b = op[w].batch THEN "PROCESSING" ELSE batches[b].status
      BY <1>1, <2>1, <3>1
    <3> QED
      BY <3>1, <3>2 DEF StatusSet
  <2>4. CASE Finish(w)
    BY <1>1, <2>1, <2>4, BatchEffect DEF StatusSet
  <2> QED
    BY <1>2, <2>2, <2>3, <2>4
<1>3. ASSUME NEW w \in Workers, Approve(w)
      PROVE  batches'[b].status = batches[b].status
  <2>1. op[w].batch \in Ids /\ batches' = [batches EXCEPT ![op[w].batch].approved = TRUE]
    BY <1>3, BatchEffect
  <2>2. PICK S \in SUBSET Wallets : batches[op[w].batch] \in Batch(S)
    BY <2>1 DEF TypeOK
  <2>3. [batches[op[w].batch] EXCEPT !.approved = TRUE].status = batches[op[w].batch].status
    BY <2>2 DEF Batch
  <2> QED
    BY <2>1, <2>3 DEF Ids
<1>4. ASSUME NEW w \in Workers, CreateInsert(w)
      PROVE  batches'[b].status = batches[b].status
  BY <1>4, InsertEffect
<1>5. ASSUME NEW w \in Workers, WorkerStep(w), ~CreateInsert(w), ~Approve(w), ~Cancel(w),
             ~Process(w), ~Finish(w)
      PROVE  batches' = batches
  BY <1>5 DEF WorkerStep, ProcessStep, CreateStart, CreateRead, ApproveStart, CancelStart,
              ProcessStart, Accept, Items, NextItem, ItemCreate, ItemClaim, ItemLost, ItemDebit,
              ItemDebitApply, ItemJournal, ItemJournalInsert, ItemFinish, CallFails, tables
<1>6. MoveStep \/ Crash \/ UNCHANGED vars => batches' = batches
  BY DEF MoveStep, Move, Crash, tables, vars
<1>7. \A w \in Workers : Cancel(w) \/ Process(w) \/ Finish(w) => WorkerStep(w)
  BY DEF WorkerStep, ProcessStep
<1> QED
  BY <1>2, <1>3, <1>4, <1>5, <1>6, <1>7, NextSteps

LEMMA CompletedBatchNext ==
  ASSUME TypeOK, Known, Progress, [Next]_vars
  PROVE  CompletedBatchIsPaid'
<1> SUFFICES ASSUME NEW b \in Ids', batches'[b].status = "COMPLETED",
                    NEW x \in DOMAIN batches'[b].items
             PROVE  Paid(<<b, x>>, settlements', debited', journals')
  BY DEF CompletedBatchIsPaid, Of, Paid
<1>1. BatchesGrow /\ TablesGrow
  BY BatchesStep, RequestsStep
<1>2. b \in Ids /\ x \in DOMAIN batches[b].items
  BY <1>1 DEF BatchesGrow
<1>3. <<b, x>> \in Payouts
  BY <1>2, PayoutOfItem
<1>4. Paid(<<b, x>>, settlements, debited, journals)
  <2>1. CASE batches[b].status = "COMPLETED"
    BY <1>2, <2>1 DEF Progress, CompletedBatchIsPaid, Of, Paid
  <2>2. CASE batches[b].status # "COMPLETED"
    <3>1. PICK w \in Workers : StatusSet(w, b)
      BY <1>2, <2>2, StatusStep
    <3>2. op[w].pc = "complete" /\ op[w].batch = b
      BY <3>1 DEF StatusSet
    <3>3. /\ op[w].todo = {}
          /\ \A y \in DOMAIN batches[b].items \ op[w].item :
               Paid(<<b, y>>, settlements, debited, journals)
          /\ \A y \in op[w].item \cap DOMAIN batches[b].items :
               Paid(<<b, y>>, settlements, debited, journals)
      BY <3>2 DEF Progress, Advanced, Looping
    <3> QED
      BY <1>2, <3>3
  <2> QED
    BY <2>1, <2>2
<1> QED
  BY <1>1, <1>3, <1>4, PaidGrows

\* A request that stays where it is has done no less.
LEMMA AdvancedStays ==
  ASSUME TypeOK, Known, TablesGrow, BatchesGrow, NEW v \in Workers,
         Advanced(op[v], batches, settlements, debited, journals)
  PROVE  Advanced(op[v], batches', settlements', debited', journals')
<1> DEFINE self == op[v]
           s == <<self.batch, CHOOSE x \in self.item : TRUE>>
<1>1. \A x : self.pc \in Looping /\ x \in DOMAIN batches[self.batch].items
               => <<self.batch, x>> \in Payouts
  <2>1. self.pc \in Looping => self.batch \in Ids
    BY DEF Known, Looping, AtItem, Busy
  <2> QED
    BY <2>1, PayoutOfItem
<1>2. self.pc \in Looping => batches'[self.batch].items = batches[self.batch].items
  BY DEF Known, Looping, AtItem, Busy, BatchesGrow
<1>3. self.pc \in AtItem => s \in Payouts
  BY CurrentFacts DEF Current
<1>4. \A r \in Payouts : Paid(r, settlements, debited, journals) =>
        Paid(r, settlements', debited', journals')
  BY PaidGrows
<1>5. \A r \in Payouts : journals[r] > 0 => journals'[r] > 0
  <2>1. \A r \in Payouts : journals[r] \in Nat /\ journals'[r] \in Nat /\ journals'[r] >= journals[r]
    BY DEF TypeOK, TablesGrow
  <2> QED
    BY <2>1
<1>6. debited \subseteq debited'
  BY DEF TablesGrow
<1>7. /\ self.pc \in {"process", "items"} => self.item = {}
      /\ self.pc \in {"journal", "journal_insert", "finish"} => s \in debited'
      /\ self.pc = "finish" => journals'[s] > 0
      /\ self.pc = "complete" => self.todo = {}
  BY <1>3, <1>5, <1>6 DEF Advanced, AtItem
<1>8. /\ self.pc \in Looping =>
           \A x \in DOMAIN batches'[self.batch].items \ (self.todo \cup self.item) :
             Paid(<<self.batch, x>>, settlements', debited', journals')
      /\ self.pc \in {"next", "complete"} =>
           \A x \in self.item \cap DOMAIN batches'[self.batch].items :
             Paid(<<self.batch, x>>, settlements', debited', journals')
  BY <1>1, <1>2, <1>4 DEF Advanced, Looping
<1> QED
  BY <1>7, <1>8 DEF Advanced

LEMMA AdvancedGoes ==
  ASSUME TypeOK, Known, TablesGrow, BatchesGrow, NEW w \in Workers, Goes(w),
         Advanced(op[w], batches, settlements, debited, journals),
         CompletedIsPaid(settlements, debited, journals),
         CompletedIsPaid(settlements', debited', journals')
  PROVE  Advanced(op'[w], batches', settlements', debited', journals')
<1> DEFINE Result == Advanced(op'[w], batches', settlements', debited', journals')
           b == op[w].batch
           s == <<op[w].batch, CHOOSE x \in op[w].item : TRUE>>
           NowPaid(x) == Paid(<<b, x>>, settlements, debited, journals)
           ThenPaid(x) == Paid(<<b, x>>, settlements', debited', journals')
<1>0. Advanced(op[w], batches', settlements', debited', journals')
  BY AdvancedStays
<1>1. Current(w) = s
  BY DEF Current
<1>2. op[w].pc \in Looping \cup {"items"} =>
        /\ b \in Ids /\ batches'[b].items = batches[b].items
        /\ \A x \in DOMAIN batches[b].items : <<b, x>> \in Payouts
  <2>1. op[w].pc \in Looping \cup {"items"} => b \in Ids
    BY DEF Known, Looping, AtItem, Busy
  <2> QED
    BY <2>1, PayoutOfItem DEF BatchesGrow
<1>3. CASE op'[w] = Idle
  BY <1>3, IdleFacts DEF Advanced, Looping, AtItem
<1>4. ASSUME NEW c, NEW pc \in {"create_read", "approve", "cancel", "process", "items"},
             Begins(w, pc, c)
      PROVE  Result
  BY <1>4 DEF Begins, Advanced, Looping, AtItem
<1>5. CASE op'[w].pc = "create_insert"
  BY <1>5 DEF Advanced, Looping, AtItem
<1>6. CASE op[w].pc = "process" /\ Moves(w, "items")
  BY <1>6 DEF Moves, Advanced, Looping, AtItem
<1>7. CASE /\ op[w].pc = "items" /\ op'[w].pc = "next" /\ op'[w].batch = op[w].batch
           /\ op'[w].todo = DOMAIN batches[op[w].batch].items /\ op'[w].item = op[w].item
  <2>1. op'[w].item = {} /\ op'[w].todo = DOMAIN batches'[op'[w].batch].items
    BY <1>2, <1>7 DEF Advanced
  <2> QED
    BY <1>7, <2>1 DEF Advanced
<1>8. CASE op[w].pc = "next" /\ op[w].todo = {} /\ Moves(w, "complete")
  BY <1>0, <1>8 DEF Moves, Advanced, Looping
<1>9. ASSUME NEW x \in op[w].todo, op[w].pc = "next", op'[w].batch = op[w].batch,
             op'[w].pc = Entry(settlements[<<op[w].batch, x>>]),
             op'[w].todo = op[w].todo \ {x}, op'[w].item = {x}
      PROVE  Result
  <2>1. \A y \in DOMAIN batches'[b].items \ (op'[w].todo \cup op'[w].item) : ThenPaid(y)
    BY <1>0, <1>9 DEF Advanced, Looping
  <2>2. op'[w].pc \in {"create", "claim", "debit", "next"}
    BY <1>9 DEF Entry
  <2>3. x \in DOMAIN batches[b].items /\ <<b, x>> \in Payouts
    BY <1>2, <1>9 DEF Known, Looping
  <2>4. op'[w].pc = "next" => ThenPaid(x)
    <3>1. settlements[<<b, x>>] \in {"ABSENT", "PENDING", "PROCESSING", "COMPLETED"}
      BY <2>3 DEF TypeOK
    <3>2. op'[w].pc = "next" => settlements[<<b, x>>] = "COMPLETED"
      BY <1>9, <3>1 DEF Entry
    <3> QED
      BY <2>3, <3>2 DEF TablesGrow, CompletedIsPaid
  <2> QED
    BY <1>9, <2>1, <2>2, <2>4 DEF Advanced
<1>10. ASSUME NEW pc \in {"claim", "debit", "lost", "debit_apply", "journal", "journal_insert", "finish", "fail"},
              op[w].pc \in AtItem, Moves(w, pc),
              pc \in {"journal", "journal_insert", "finish"} => s \in debited',
              pc = "finish" => journals'[s] > 0
       PROVE  Result
  BY <1>0, <1>10 DEF Moves, Advanced, Looping, AtItem
<1>11. CASE op[w].pc \in {"lost", "finish"} /\ Moves(w, "next") /\ settlements'[Current(w)] = "COMPLETED"
  <2>1. op[w].pc \in AtItem
    BY <1>11 DEF AtItem
  <2>2. s \in Payouts /\ op[w].item = {s[2]} /\ s = <<b, s[2]>>
    BY <1>1, <2>1, CurrentFacts
  <2>3. ThenPaid(s[2])
    BY <1>1, <1>11, <2>2 DEF CompletedIsPaid
  <2>4. op'[w].pc = "next" /\ op'[w].batch = b /\ op'[w].todo = op[w].todo /\ op'[w].item = {s[2]}
    BY <1>11, <2>2 DEF Moves
  <2>5. \A y \in DOMAIN batches'[b].items \ (op[w].todo \cup op[w].item) : ThenPaid(y)
    BY <1>0, <2>1 DEF Advanced, Looping
  <2> QED
    BY <2>2, <2>3, <2>4, <2>5 DEF Advanced
<1>12. op[w].pc \in {"journal", "journal_insert"} => s \in debited'
  BY <1>0 DEF Advanced
<1> HIDE DEF s, Result
<1> QED
  BY <1>1, <1>3, <1>4, <1>5, <1>6, <1>7, <1>8, <1>9, <1>10, <1>11, <1>12 DEF Goes, AtItem, Result

LEMMA ProgressNext ==
  ASSUME TypeOK, Known, Progress, [Next]_vars
  PROVE  Progress'
<1>1. CompletedIsPaid(settlements', debited', journals') /\ CompletedBatchIsPaid'
  BY CompletedNext, CompletedBatchNext
<1>2. BatchesGrow /\ TablesGrow
  BY BatchesStep, RequestsStep
<1>3. ASSUME NEW v \in Workers
      PROVE  Advanced(op'[v], batches', settlements', debited', journals')
  <2>1. /\ Advanced(op[v], batches, settlements, debited, journals)
        /\ CompletedIsPaid(settlements, debited, journals)
    BY DEF Progress
  <2>2. op'[v] = op[v] \/ op'[v] = Idle \/ Goes(v)
    BY RequestsStep
  <2>3. CASE op'[v] = op[v]
    BY <1>2, <2>1, <2>3, AdvancedStays
  <2>4. CASE op'[v] = Idle
    BY <2>4, IdleFacts DEF Advanced, Looping, AtItem
  <2>5. CASE Goes(v)
    BY <1>1, <1>2, <2>1, <2>5, AdvancedGoes
  <2> QED
    BY <2>2, <2>3, <2>4, <2>5
<1> QED
  BY <1>1, <1>3 DEF Progress, CompletedIsPaid

LEMMA InitProgress == Init => Asked /\ Progress
<1> SUFFICES ASSUME Init
             PROVE  Asked /\ Progress
  OBVIOUS
<1>1. /\ \A s \in Payouts : settlements[s] = "ABSENT"
      /\ \A w \in Workers : op[w] = Idle
      /\ Ids = {}
  BY DEF Init, Ids
<1>2. \A w \in Workers : op[w].pc = "idle"
  BY <1>1, IdleFacts
<1>3. Asked
  BY <1>1, <1>2 DEF Asked, Busy
<1>4. \A w \in Workers : Advanced(op[w], batches, settlements, debited, journals)
  BY <1>2 DEF Advanced, Looping, AtItem
<1>5. CompletedIsPaid(settlements, debited, journals) /\ CompletedBatchIsPaid
  BY <1>1 DEF CompletedIsPaid, CompletedBatchIsPaid
<1> QED
  BY <1>3, <1>4, <1>5 DEF Progress

LEMMA ApprovalIsRespected ==
  ASSUME TypeOK, Known, Asked
  PROVE  ApprovalRespected
<1> SUFFICES ASSUME RequiresApproval, NEW b \in Ids, NEW x \in DOMAIN batches[b].items,
                    settlements[<<b, x>>] # "ABSENT"
             PROVE  batches[b].approved
  BY DEF ApprovalRespected, Of
<1>1. <<b, x>> \in Payouts
  BY PayoutOfItem
<1> QED
  BY <1>1 DEF Asked

\* processBatch starts no payout before the approval that the policy asks for,
\* and sets COMPLETED only once each wallet has been debited and journaled and
\* its settlement is COMPLETED.  Asked and Progress make that inductive.
THEOREM PaymentFollowsApproval == Spec => []PaidAsApproved
<1>1. Init => TypeOK /\ Known /\ Asked /\ Progress
  BY InitTyped, InitProgress
<1>2. TypeOK /\ Known /\ Asked /\ Progress /\ [Next]_vars => (TypeOK /\ Known /\ Asked /\ Progress)'
  BY TypeNext, KnownNext, AskedNext, ProgressNext
<1>3. TypeOK /\ Known /\ Asked /\ Progress => PaidAsApproved
  BY ApprovalIsRespected DEF PaidAsApproved, Progress
<1> QED
  BY <1>1, <1>2, <1>3, PTL DEF Spec

-----------------------------------------------------------------------------
\* The money.

Amount == [s \in debited |-> batches[s[1]].items[s[2]]]

PaidOut == MapThenSumSet(LAMBDA s : batches[s[1]].items[s[2]], debited)

\* The fold of the model is the sum of the module Sums.
LEMMA PaidIsSum == PaidOut = SumOver(Amount, debited)
<1> DEFINE step(g, s) == IF s = {} THEN 0
                         ELSE batches[Chosen(s)[1]].items[Chosen(s)[2]] + g[s \ {Chosen(s)}]
           sums == CHOOSE g : g = [s \in SUBSET debited |-> step(g, s)]
<1>1. PaidOut = sums[debited]
  BY Zenon DEF PaidOut, MapThenSumSet, MapThenFoldSet, Chosen
<1>2. \A g : \A s \in SUBSET debited : step(g, s) = SumStep(Amount, s, g)
  BY ChosenIn DEF SumStep, Amount
<1> HIDE DEF step
<1>3. \A g : (g = [s \in SUBSET debited |-> step(g, s)]) <=> Summation(Amount, g, debited)
  BY <1>2 DEF Summation
<1>4. sums = PartSums(Amount, debited)
  BY <1>3 DEF PartSums
<1> QED
  BY <1>1, <1>4, SumIsPartSums

Solvent ==
  /\ SumOver(balance, Wallets) + SumOver(Amount, debited) = SumOver(Opening, Wallets) + moved
  /\ \A x \in Wallets : balance[x] >= 0

LEMMA SolventIsAccounted == Solvent => MoneyAccounted
<1>1. MoneyAccounted <=>
        /\ MapThenSumSet(LAMBDA x : balance[x], Wallets) + PaidOut
             = MapThenSumSet(LAMBDA x : Opening[x], Wallets) + moved
        /\ \A x \in Wallets : balance[x] >= 0
  BY Zenon DEF MoneyAccounted, PaidOut
<1>2. /\ SumOver(balance, Wallets) = MapThenSumSet(LAMBDA x : balance[x], Wallets)
      /\ SumOver(Opening, Wallets) = MapThenSumSet(LAMBDA x : Opening[x], Wallets)
  BY Zenon DEF SumOver
<1> QED
  BY <1>1, <1>2, PaidIsSum DEF Solvent

LEMMA FiniteTables ==
  ASSUME TypeOK
  PROVE  IsFiniteSet(Wallets) /\ IsFiniteSet(Payouts) /\ IsFiniteSet(debited)
<1>1. IsFiniteSet(1..MaxBatches)
  BY SettlementConstants, FS_Interval
<1>2. IsFiniteSet(Payouts)
  BY <1>1, SettlementConstants, FS_Product DEF Payouts
<1> QED
  BY <1>2, SettlementConstants, FS_Subset DEF TypeOK

LEMMA AmountFacts ==
  ASSUME TypeOK, Known
  PROVE  \A s \in debited : Amount[s] = batches[s[1]].items[s[2]] /\ Amount[s] \in Nat
<1> SUFFICES ASSUME NEW s \in debited
             PROVE  Amount[s] = batches[s[1]].items[s[2]] /\ Amount[s] \in Nat
  OBVIOUS
<1>1. s[1] \in Ids /\ s[2] \in DOMAIN batches[s[1]].items
  BY DEF TypeOK, Known
<1> QED
  BY <1>1, BatchFacts DEF Amount

\* The batches of a step keep the amounts.
LEMMA AmountKept ==
  ASSUME TypeOK, Known, [Next]_vars
  PROVE  \A s \in debited : Amount'[s] = Amount[s]
<1> SUFFICES ASSUME NEW s \in debited
             PROVE  Amount'[s] = Amount[s]
  OBVIOUS
<1>1. s[1] \in Ids
  BY DEF TypeOK, Known
<1>2. BatchesGrow /\ s \in debited'
  BY BatchesStep, RequestsStep DEF TablesGrow
<1> QED
  BY <1>1, <1>2 DEF Amount, BatchesGrow

LEMMA SolventNext ==
  ASSUME TypeOK, Known, Solvent, [Next]_vars
  PROVE  Solvent'
<1> DEFINE A == SumOver(Amount, debited)
           B == SumOver(balance, Wallets)
<1>1. IsFiniteSet(Wallets) /\ IsFiniteSet(debited)
  BY FiniteTables
<1>2. \A s \in debited : Amount'[s] = Amount[s] /\ Amount[s] \in Int
  BY AmountKept, AmountFacts
<1>3. A \in Int /\ B \in Int /\ SumOver(Opening, Wallets) \in Int
  <2>1. A \in Int
    BY <1>1, <1>2, SumType
  <2>2. B \in Int
    BY <1>1, SumType DEF TypeOK
  <2>3. SumOver(Opening, Wallets) \in Int
    BY <1>1, SumType, SettlementConstants
  <2> QED
    BY <2>1, <2>2, <2>3
<1>4. debited' = debited => SumOver(Amount', debited') = A
  BY <1>1, <1>2, SumSame
<1>5. balance' \in [Wallets -> Int] /\ moved' \in Int
  BY CountersStep
<1>6. ASSUME UNCHANGED <<balance, debited, moved>>
      PROVE  Solvent'
  <2>1. SumOver(balance', Wallets) = B
    BY <1>6
  <2> QED
    BY <1>4, <1>6, <2>1 DEF Solvent
<1>7. ASSUME NEW w \in Workers, ItemDebitApply(w)
      PROVE  Solvent'
  <2> DEFINE s == Current(w)
             x == s[2]
             amount == batches[s[1]].items[x]
  <2>1. op[w].pc \in AtItem
    BY <1>7 DEF ItemDebitApply, At, AtItem
  <2>2. s \in Payouts /\ x \in Wallets /\ s[1] \in Ids
    BY <2>1, CurrentFacts DEF Payouts
  <2>3. /\ UNCHANGED <<batches, moved>>
        /\ \/ /\ s \notin debited /\ debited' = debited \cup {s}
              /\ amount \in Nat /\ balance[x] >= amount
              /\ balance' = [balance EXCEPT ![x] = balance[x] - amount]
           \/ UNCHANGED <<balance, debited>>
    BY <1>7, DebitEffect
  <2> HIDE DEF s
  <2>4. CASE UNCHANGED <<balance, debited>>
    BY <1>6, <2>3, <2>4
  <2>5. ASSUME s \notin debited, debited' = debited \cup {s},
               amount \in Nat, balance[x] >= amount,
               balance' = [balance EXCEPT ![x] = balance[x] - amount]
        PROVE  Solvent'
    <3>1. Amount'[s] = amount
      BY <2>3, <2>5 DEF Amount
    <3>2. \A r \in debited \cup {s} : Amount'[r] \in Int
      BY <1>2, <2>5, <3>1
    <3> HIDE DEF amount
    <3>3. SumOver(Amount', debited \cup {s}) = SumOver(Amount', debited) + Amount'[s]
      BY <1>1, <2>5, <3>2, SumAdd
    <3>4. SumOver(Amount', debited) = A
      BY <1>1, <1>2, SumSame
    <3>5. /\ \A y \in Wallets : balance[y] \in Int /\ balance'[y] \in Int
          /\ \A y \in Wallets \ {x} : balance[y] = balance'[y]
          /\ balance'[x] = balance[x] - amount
      BY <1>5, <2>2, <2>5 DEF TypeOK
    <3>6. SumOver(balance', Wallets) = B + balance'[x] - balance[x]
      <4> HIDE DEF x
      <4> QED
        BY <1>1, <2>2, <3>5, SumChange
    <3>7. SumOver(balance', Wallets) = B - amount
      <4>1. balance[x] \in Int /\ amount \in Int
        BY <2>2, <2>5 DEF TypeOK
      <4> HIDE DEF x, B
      <4> QED
        BY <1>3, <3>5, <3>6, <4>1
    <3>8. \A y \in Wallets : balance'[y] >= 0
      BY <2>2, <2>5, <3>5 DEF Solvent
    <3>9. /\ B + A = SumOver(Opening, Wallets) + moved
          /\ SumOver(Amount', debited') = A + amount /\ amount \in Int
      BY <2>5, <3>1, <3>3, <3>4 DEF Solvent
    <3>10. SumOver(balance', Wallets) + SumOver(Amount', debited') = SumOver(Opening, Wallets) + moved'
      <4> HIDE DEF A, B
      <4> QED
        BY <1>3, <2>3, <3>7, <3>9
    <3> QED
      BY <3>8, <3>10 DEF Solvent
  <2> QED
    BY <2>3, <2>4, <2>5
<1>8. ASSUME NEW x \in Wallets, NEW amount \in {-1, 1}, Move(x, amount)
      PROVE  Solvent'
  <2>1. /\ balance' = [balance EXCEPT ![x] = balance[x] + amount] /\ moved' = moved + amount
        /\ balance[x] + amount >= 0 /\ debited' = debited
    BY <1>8 DEF Move
  <2>2. /\ \A y \in Wallets : balance[y] \in Int /\ balance'[y] \in Int
        /\ \A y \in Wallets \ {x} : balance[y] = balance'[y]
        /\ balance'[x] = balance[x] + amount
    BY <1>5, <2>1 DEF TypeOK
  <2>3. SumOver(balance', Wallets) = B + balance'[x] - balance[x]
    BY <1>1, <2>2, SumChange
  <2>4. \A y \in Wallets : balance'[y] >= 0
    BY <2>1, <2>2 DEF Solvent
  <2>5. balance[x] \in Int /\ moved \in Int
    BY DEF TypeOK
  <2>6. SumOver(balance', Wallets) + SumOver(Amount', debited') = SumOver(Opening, Wallets) + moved'
    <3>1. B + A = SumOver(Opening, Wallets) + moved /\ SumOver(Amount', debited') = A
      BY <1>4, <2>1 DEF Solvent
    <3> HIDE DEF A, B
    <3> QED
      BY <1>3, <2>1, <2>2, <2>3, <2>5, <3>1
  <2> QED
    BY <2>4, <2>6 DEF Solvent
<1>9. ASSUME NEW w \in Workers, WorkerStep(w), ~ItemDebitApply(w)
      PROVE  UNCHANGED <<balance, debited, moved>>
  BY <1>9 DEF WorkerStep, ProcessStep, CreateStart, CreateRead, CreateInsert, ApproveStart,
              CancelStart, ProcessStart, Approve, Cancel, Process, Accept, Items, NextItem,
              ItemCreate, ItemClaim, ItemLost, ItemDebit, ItemJournal, ItemJournalInsert,
              ItemFinish, Finish, CallFails, tables
<1>10. Crash \/ UNCHANGED vars => UNCHANGED <<balance, debited, moved>>
  BY DEF Crash, tables, vars
<1> QED
  BY <1>6, <1>7, <1>8, <1>9, <1>10, NextSteps DEF MoveStep

\* wallets.debit takes each settlement from its wallet once, in full and from a
\* sufficient balance: what left the wallets is what the debited items say.
THEOREM MoneyIsAccounted == Spec => []MoneyAccounted
<1>1. Init => TypeOK /\ Known /\ Solvent
  <2> SUFFICES ASSUME Init
               PROVE  Solvent
    BY InitTyped
  <2>1. balance = Opening /\ moved = 0 /\ debited = {} /\ \A x \in Wallets : Opening[x] \in Nat
    BY SettlementConstants DEF Init
  <2>2. SumOver(Amount, debited) = 0
    BY <2>1, SumEmpty
  <2>3. SumOver(Opening, Wallets) \in Int
    BY <2>1, SumType, SettlementConstants
  <2>4. SumOver(balance, Wallets) = SumOver(Opening, Wallets)
    BY <2>1
  <2> QED
    BY <2>1, <2>2, <2>3, <2>4 DEF Solvent
<1>2. TypeOK /\ Known /\ Solvent /\ [Next]_vars => (TypeOK /\ Known /\ Solvent)'
  BY TypeNext, KnownNext, SolventNext
<1> QED
  BY <1>1, <1>2, SolventIsAccounted, PTL DEF Spec

-----------------------------------------------------------------------------
\* One request at a time on a batch.

Placid(self, bs, js) ==
  LET s == <<self.batch, CHOOSE x \in self.item : TRUE>> IN
  /\ self.pc = "journal_insert" => js[s] = 0
  /\ self.pc \in Busy \ {"process"} => bs[self.batch].status = "PROCESSING"
  /\ self.pc \in {"cancel", "process"} => bs[self.batch].status = "PENDING"

Single ==
  ~mixed =>
    /\ ~Overlap /\ JournaledOnce
    /\ \A w \in Workers : Placid(op[w], batches, journals)
    /\ \A s \in debited : batches[s[1]].status \notin {"PENDING", "CANCELLED"}

LEMMA SingleIsEnough ==
  ASSUME TypeOK, Known, Single
  PROVE  PayoutsUnlessMixed
<1> SUFFICES ASSUME ~mixed
             PROVE  JournaledOnce /\ CancelledIsUnpaid
  BY DEF PayoutsUnlessMixed
<1>1. ASSUME NEW b \in Ids, batches[b].status = "CANCELLED", NEW s \in Of(b), s \in debited
      PROVE  FALSE
  BY <1>1 DEF Single, Of
<1> QED
  BY <1>1 DEF Single, CancelledIsUnpaid

\* While a request goes on, another one on its batch would overlap with it.
LEMMA OnlyOne ==
  ASSUME TypeOK, Known, ~Overlap, NEW v \in Workers, NEW w \in Workers,
         op[v].pc \in Busy \cup {"cancel"}, op[w].pc \in Busy \cup {"cancel"},
         op[v].batch = op[w].batch
  PROVE  v = w
<1>1. op[v].batch \in Ids /\ 0 \notin Ids
  BY BatchesAreTyped DEF Known
<1> QED
  BY <1>1 DEF Overlap

\* The steps that are not of a worker.
LEMMA OtherSteps ==
  ASSUME TypeOK, MoveStep \/ Crash \/ UNCHANGED vars
  PROVE  /\ UNCHANGED <<batches, journals, debited>>
         /\ \A v \in Workers : op'[v] = op[v] \/ op'[v] = Idle
<1>1. CASE MoveStep
  BY <1>1 DEF MoveStep, Move
<1>2. CASE Crash
  BY <1>2 DEF Crash, tables
<1>3. CASE UNCHANGED vars
  BY <1>3 DEF vars
<1> QED
  BY <1>1, <1>2, <1>3

\* Which request may change the status of a batch.
LEMMA StatusByOne ==
  ASSUME TypeOK, Known, [Next]_vars, NEW w \in Workers, WorkerStep(w), NEW b \in Ids
  PROVE  batches'[b].status = batches[b].status \/ StatusSet(w, b)
<1>1. ASSUME NEW u \in Workers, WorkerStep(u), StatusSet(u, b)
      PROVE  u = w
  <2>1. op'[u] # op[u]
    BY <1>1, IdleFacts DEF StatusSet, Moves
  <2> QED
    BY <2>1, Alone
<1> QED
  BY <1>1, StatusStep

\* The request that moves, and a request that stays.
LEMMA PlacidGoes ==
  ASSUME TypeOK, Known, [Next]_vars, NEW w \in Workers, WorkerStep(w),
         Placid(op[w], batches, journals)
  PROVE  Placid(op'[w], batches', journals')
<1> DEFINE b == op[w].batch
<1>0. Goes(w) /\ ChangedBy(w)
  BY WorkerGoes, TablesStep
<1>1. CASE op'[w] = Idle
  BY <1>1, IdleFacts DEF Placid, Busy
<1>2. CASE Begins(w, "create_read", 0) \/ op'[w].pc = "create_insert"
  BY <1>2 DEF Begins, Placid, Busy
<1>3. ASSUME NEW c \in Ids, NEW pc \in {"approve", "cancel", "process", "items"},
             Begins(w, pc, c),
             pc \in {"cancel", "process"} => batches[c].status = "PENDING",
             pc = "items" => batches[c].status = "PROCESSING"
      PROVE  Placid(op'[w], batches', journals')
  <2>1. batches'[c].status = batches[c].status
    BY <1>3, StatusByOne DEF Begins, StatusSet
  <2> QED
    BY <1>3, <2>1 DEF Begins, Placid, Busy
<1>4. CASE op[w].pc = "process" /\ Moves(w, "items") /\ batches'[op[w].batch].status = "PROCESSING"
  BY <1>4 DEF Moves, Placid, Busy
<1>5. ASSUME op[w].pc \in Busy \ {"process", "complete", "fail"}, op'[w].pc \in Busy \ {"process"},
             op'[w].batch = b,
             op'[w].pc = "journal_insert" =>
               op[w].pc = "journal" /\ op'[w].item = op[w].item /\ ~(journals[Current(w)] > 0)
      PROVE  Placid(op'[w], batches', journals')
  <2>1. b \in Ids
    BY <1>5 DEF Known
  <2>2. batches'[b].status = batches[b].status
    BY <1>5, <2>1, StatusByOne DEF StatusSet, Busy
  <2>3. batches[b].status = "PROCESSING"
    BY <1>5 DEF Placid
  <2>4. ASSUME op'[w].pc = "journal_insert"
        PROVE  journals'[Current(w)] = 0 /\ Current(w) = <<op'[w].batch, CHOOSE x \in op'[w].item : TRUE>>
    <3>1. op[w].pc = "journal" /\ ~(journals[Current(w)] > 0) /\ Current(w) \in Payouts
      BY <1>5, <2>4, CurrentFacts DEF AtItem
    <3>2. journals'[Current(w)] = journals[Current(w)]
      BY <1>0, <3>1 DEF ChangedBy
    <3>3. journals[Current(w)] \in Nat
      BY <3>1 DEF TypeOK
    <3> QED
      BY <1>5, <2>4, <3>1, <3>2, <3>3 DEF Current
  <2> QED
    BY <1>5, <2>2, <2>3, <2>4 DEF Placid, Busy
<1>6. Entry("ABSENT") \in Busy /\ \A st : Entry(st) \in {"create", "claim", "debit", "next"}
  BY DEF Entry, Busy
<1>7. Goes(w) =>
        \/ op'[w] = Idle
        \/ Begins(w, "create_read", 0) \/ op'[w].pc = "create_insert"
        \/ \E c \in Ids :
             \/ Begins(w, "approve", c)
             \/ Begins(w, "cancel", c) /\ batches[c].status = "PENDING"
             \/ Begins(w, "process", c) /\ batches[c].status = "PENDING"
             \/ Begins(w, "items", c) /\ batches[c].status = "PROCESSING"
        \/ op[w].pc = "process" /\ Moves(w, "items") /\ batches'[op[w].batch].status = "PROCESSING"
        \/ /\ op[w].pc \in Busy \ {"process", "complete", "fail"} /\ op'[w].pc \in Busy \ {"process"}
           /\ op'[w].batch = b
           /\ op'[w].pc = "journal_insert" =>
                op[w].pc = "journal" /\ op'[w].item = op[w].item /\ ~(journals[Current(w)] > 0)
  BY <1>6 DEF Goes, Moves, Busy, AtItem
<1> QED
  BY <1>0, <1>1, <1>2, <1>3, <1>4, <1>5, <1>7

LEMMA PlacidStays ==
  ASSUME TypeOK, Known, [Next]_vars, ~Overlap, NEW w \in Workers, WorkerStep(w),
         NEW v \in Workers, v # w, Placid(op[v], batches, journals)
  PROVE  Placid(op'[v], batches', journals')
<1>1. op'[v] = op[v] /\ ChangedBy(w)
  BY Alone, TablesStep
<1>2. op[v].pc \in Busy \cup {"cancel"} => batches'[op[v].batch].status = batches[op[v].batch].status
  <2> SUFFICES ASSUME op[v].pc \in Busy \cup {"cancel"}
               PROVE  batches'[op[v].batch].status = batches[op[v].batch].status
    OBVIOUS
  <2>1. op[v].batch \in Ids
    BY DEF Known
  <2>2. ~StatusSet(w, op[v].batch)
    BY OnlyOne DEF StatusSet, Busy
  <2> QED
    BY <2>1, <2>2, StatusByOne
<1>3. op[v].pc = "journal_insert" => journals'[Current(v)] = journals[Current(v)]
  <2> SUFFICES ASSUME op[v].pc = "journal_insert"
               PROVE  journals'[Current(v)] = journals[Current(v)]
    OBVIOUS
  <2>1. Current(v) \in Payouts /\ Current(v)[1] = op[v].batch
    BY CurrentFacts DEF AtItem
  <2>2. ~Working(w, Current(v))
    BY <2>1, CurrentFacts, OnlyOne DEF Working, Busy, AtItem
  <2> QED
    BY <1>1, <2>1, <2>2 DEF ChangedBy
<1> QED
  BY <1>1, <1>2, <1>3 DEF Placid, Current, Busy

LEMMA SingleNext ==
  ASSUME TypeOK, Known, Single, [MCNext]_<<vars, mixed>>
  PROVE  Single'
<1> SUFFICES ASSUME ~mixed'
             PROVE  /\ ~Overlap' /\ JournaledOnce'
                    /\ \A v \in Workers : Placid(op'[v], batches', journals')
                    /\ \A s \in debited' : batches'[s[1]].status \notin {"PENDING", "CANCELLED"}
  BY DEF Single
<1>1. ~mixed
  BY DEF MCNext
<1>2. /\ ~Overlap /\ JournaledOnce
      /\ \A v \in Workers : Placid(op[v], batches, journals)
      /\ \A s \in debited : batches[s[1]].status \notin {"PENDING", "CANCELLED"}
  BY <1>1 DEF Single
<1>3. [Next]_vars
  BY DEF MCNext
<1>4. ~Overlap'
  <2>1. CASE MCNext
    BY <2>1 DEF MCNext
  <2>2. CASE UNCHANGED <<vars, mixed>>
    BY <1>2, <2>2 DEF Overlap, vars
  <2> QED
    BY <2>1, <2>2
<1>5. CASE MoveStep \/ Crash \/ UNCHANGED vars
  <2>1. /\ UNCHANGED <<batches, journals, debited>>
        /\ \A v \in Workers : op'[v] = op[v] \/ op'[v] = Idle
    BY <1>5, OtherSteps
  <2>2. Placid(Idle, batches, journals)
    BY IdleFacts DEF Placid, Busy
  <2> QED
    BY <1>2, <1>4, <2>1, <2>2 DEF JournaledOnce
<1>6. ASSUME NEW w \in Workers, WorkerStep(w)
      PROVE  /\ JournaledOnce'
             /\ \A v \in Workers : Placid(op'[v], batches', journals')
             /\ \A s \in debited' : batches'[s[1]].status \notin {"PENDING", "CANCELLED"}
  <2>1. ChangedBy(w) /\ TablesGrow
    BY <1>6, TablesStep
  <2>2. \A v \in Workers : Placid(op'[v], batches', journals')
    BY <1>2, <1>3, <1>6, PlacidGoes, PlacidStays
  <2>3. ASSUME NEW s \in Payouts
        PROVE  journals'[s] <= 1
    <3>1. CASE journals'[s] = journals[s]
      BY <1>2, <3>1 DEF JournaledOnce
    <3>2. CASE journals'[s] # journals[s]
      <4>1. Working(w, s) /\ op[w].pc = "journal_insert" /\ journals'[s] = journals[s] + 1
        BY <2>1, <3>2 DEF ChangedBy
      <4>2. journals[s] = 0
        BY <1>2, <4>1 DEF Placid, Working, Current
      <4> QED
        BY <4>1, <4>2
    <3> QED
      BY <3>1, <3>2
  <2>4. ASSUME NEW s \in debited'
        PROVE  batches'[s[1]].status \notin {"PENDING", "CANCELLED"}
    <3>1. s \in Payouts
      BY <2>1 DEF TablesGrow
    <3>2. s[1] \in Ids /\ batches[s[1]].status \notin {"PENDING", "CANCELLED"}
      <4>1. CASE s \in debited
        BY <1>2, <3>1, <4>1 DEF Known
      <4>2. CASE s \notin debited
        <5>1. Working(w, s) /\ op[w].pc = "debit_apply"
          BY <2>1, <3>1, <4>2 DEF ChangedBy
        <5>2. s[1] = op[w].batch /\ s[1] \in Ids
          BY <5>1, CurrentFacts DEF Working
        <5>3. batches[op[w].batch].status = "PROCESSING"
          BY <1>2, <5>1 DEF Placid, Busy
        <5> QED
          BY <5>2, <5>3
      <4> QED
        BY <4>1, <4>2
    <3>3. CASE batches'[s[1]].status = batches[s[1]].status
      BY <3>2, <3>3
    <3>4. CASE StatusSet(w, s[1])
      <4>1. op[w].pc # "cancel"
        BY <1>2, <3>2, <3>4 DEF StatusSet, Placid
      <4> QED
        BY <3>4, <4>1 DEF StatusSet
    <3> QED
      BY <1>3, <1>6, <3>2, <3>3, <3>4, StatusByOne
  <2> QED
    BY <2>2, <2>3, <2>4 DEF JournaledOnce
<1> QED
  BY <1>3, <1>4, <1>5, <1>6, NextSteps

\* While no two requests overlap on a batch, a payout is journaled once and a
\* cancelled batch has paid nobody, through every failure, crash and retry.
THEOREM PayoutsAreSingle == MCSpec => []PayoutsUnlessMixed
<1>1. MCInit => TypeOK /\ Known /\ Single
  <2> SUFFICES ASSUME Init
               PROVE  /\ ~Overlap /\ JournaledOnce
                      /\ \A w \in Workers : Placid(op[w], batches, journals)
                      /\ \A s \in debited : batches[s[1]].status \notin {"PENDING", "CANCELLED"}
    BY InitTyped DEF MCInit, Single
  <2>1. /\ \A w \in Workers : op[w] = Idle
        /\ debited = {} /\ \A s \in Payouts : journals[s] = 0
    BY DEF Init
  <2> QED
    BY <2>1, IdleFacts DEF Overlap, JournaledOnce, Placid, Busy
<1>2. TypeOK /\ Known /\ Single /\ [MCNext]_<<vars, mixed>> => (TypeOK /\ Known /\ Single)'
  <2>1. [MCNext]_<<vars, mixed>> => [Next]_vars
    BY DEF MCNext
  <2> QED
    BY <2>1, TypeNext, KnownNext, SingleNext
<1>3. TypeOK /\ Known /\ Single => PayoutsUnlessMixed
  BY SingleIsEnough
<1> QED
  BY <1>1, <1>2, <1>3, PTL DEF MCSpec
=============================================================================
