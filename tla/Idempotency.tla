----------------------------- MODULE Idempotency -----------------------------
(***************************************************************************)
(* IdempotencyService.execute over its two stores: the in-memory one, with *)
(* atomic calls and a capacity, and the Prisma one, which reads a row and  *)
(* writes it in a later step.  A request reserves its key, runs its        *)
(* operation, and completes or releases the record; a request that finds   *)
(* the key taken waits and replays the response.  Keys here are the scoped *)
(* storage keys; a response is the fingerprint of the request that earned  *)
(* it.                                                                     *)
(***************************************************************************)
EXTENDS Naturals, FiniteSets

CONSTANTS
  Workers,       \* requests in flight; also the owner tokens
  Keys, Prints,  \* storage keys and request fingerprints
  None,          \* no record
  Capacity,      \* maxEntries of the in-memory store
  MaxOps,        \* bound: requests received
  MaxFaults      \* bound: crashes and failed calls of the store

VARIABLES
  store,     \* "memory" or "prisma"
  records,   \* [Keys -> [row, print, owner, state, live, response] or None]
  rows,      \* records created so far: a row's id, and the Map's order
  effects,   \* [Keys -> how many operations took effect]
  answers,   \* responses given: <<key, fingerprint asked, fingerprint answered>>
  op, left, faults

vars == <<store, records, rows, effects, answers, op, left, faults>>

Idle == [pc |-> "idle", key |-> None, print |-> None, seen |-> 0]

Init ==
  /\ store \in {"memory", "prisma"}
  /\ records = [k \in Keys |-> None] /\ rows = 0
  /\ effects = [k \in Keys |-> 0] /\ answers = {}
  /\ op = [w \in Workers |-> Idle]
  /\ left = MaxOps /\ faults = MaxFaults

At(w, pc) == op[w].pc = pc

Become(w, self) == op' = [op EXCEPT ![w] = self]

Goto(w, pc) == Become(w, [op[w] EXCEPT !.pc = pc])

Done(w) == Become(w, Idle)

Active(k) == records[k] # None /\ records[k].live

Reserved(w, id) == [row |-> id, print |-> op[w].print, owner |-> w, state |-> "in_progress",
                    live |-> TRUE, response |-> None]

RowId(k) == IF records[k] = None THEN 0 ELSE records[k].row

-----------------------------------------------------------------------------
Receive(w, k, f) ==
  /\ At(w, "idle") /\ left > 0 /\ left' = left - 1
  /\ Become(w, [Idle EXCEPT !.pc = "reserve", !.key = k, !.print = f])
  /\ UNCHANGED <<store, records, rows, effects, answers, faults>>

\* evictExpired, of the in-memory store.
Purge == records' = [q \in Keys |-> IF Active(q) THEN records[q] ELSE None]

\* handleExisting.
OnExisting(w, r) ==
  \/ /\ r.print # op[w].print /\ Done(w) /\ UNCHANGED answers
  \/ /\ r.print = op[w].print /\ r.state = "completed" /\ Done(w)
     /\ answers' = answers \cup {<<op[w].key, op[w].print, r.response>>}
  \/ /\ r.print = op[w].print /\ r.state = "in_progress"
     /\ Goto(w, "wait") /\ UNCHANGED answers

\* The Map's first key: a record is set under a key that has none.
Oldest(ks) == CHOOSE k \in ks : \A q \in ks : records[k].row <= records[q].row

\* Mutation: eviction begins one record late.
OneMore(ks) == IF Cardinality(ks) <= Capacity THEN ks ELSE ks \ {Oldest(ks)}

\* ensureCapacity drops the oldest record, in progress or not.
Evicted(ks) == IF Cardinality(ks) < Capacity THEN ks ELSE ks \ {Oldest(ks)}

ReserveInMemory(w) ==
  LET k    == op[w].key
      kept == Evicted({q \in Keys : Active(q)})
  IN /\ store = "memory" /\ At(w, "reserve")
     /\ IF Active(k)
        THEN OnExisting(w, records[k]) /\ Purge /\ UNCHANGED rows
        ELSE /\ rows' = rows + 1
             /\ records' = [q \in Keys |-> IF q = k THEN Reserved(w, rows')
                                           ELSE IF q \in kept THEN records[q] ELSE None]
             /\ Goto(w, "run") /\ UNCHANGED answers
     /\ UNCHANGED <<store, effects, left, faults>>

\* The Prisma store looks for a record in force, then for a row of any age, and writes
\* by what it saw: a row that came in between is taken for an expired one.
ReserveRead(w) ==
  LET k == op[w].key IN
  /\ store = "prisma" /\ At(w, "reserve")
  /\ IF Active(k) THEN OnExisting(w, records[k])
     ELSE Goto(w, "look") /\ UNCHANGED answers
  /\ UNCHANGED <<store, records, rows, effects, left, faults>>

ReserveLook(w) ==
  /\ At(w, "look")
  /\ Become(w, [op[w] EXCEPT !.pc = "reserve_write", !.seen = RowId(op[w].key)])
  /\ UNCHANGED <<store, records, rows, effects, answers, left, faults>>

\* Mutation: the unique index of the table does not cover the key.
AnyRow(k) == TRUE

NoRow(k) == records[k] = None

\* An expired row is updated by id; otherwise one is created.  An update of a row that
\* is gone fails, and so does a second row for a key: in PostgreSQL the rest of the
\* transaction fails too, so the store's own second look cannot answer.
ReserveWrite(w) ==
  LET k == op[w].key IN
  /\ At(w, "reserve_write")
  /\ \/ /\ op[w].seen = 0 /\ NoRow(k)
        /\ rows' = rows + 1 /\ records' = [records EXCEPT ![k] = Reserved(w, rows')]
        /\ Goto(w, "run")
     \/ /\ op[w].seen > 0 /\ op[w].seen = RowId(k)
        /\ records' = [records EXCEPT ![k] = Reserved(w, @.row)]
        /\ Goto(w, "run") /\ UNCHANGED rows
     \/ /\ IF op[w].seen = 0 THEN ~NoRow(k) ELSE op[w].seen # RowId(k)
        /\ Done(w) /\ UNCHANGED <<records, rows>>
  /\ UNCHANGED <<store, effects, answers, left, faults>>

-----------------------------------------------------------------------------
\* The operation takes effect, or fails and its reservation is released.
RunOperation(w) ==
  /\ At(w, "run")
  /\ \/ effects' = [effects EXCEPT ![op[w].key] = @ + 1] /\ Goto(w, "complete")
     \/ Goto(w, "release") /\ UNCHANGED effects
  /\ UNCHANGED <<store, records, rows, answers, left, faults>>

Mine(w, r) == r # None /\ r.owner = w /\ r.state = "in_progress"

Completed(r, w) == [r EXCEPT !.state = "completed", !.response = op[w].print, !.live = TRUE]

Answered(w) == answers' = answers \cup {<<op[w].key, op[w].print, op[w].print>>}

CompleteInMemory(w) ==
  LET k == op[w].key IN
  /\ store = "memory" /\ At(w, "complete") /\ Done(w) /\ Answered(w)
  /\ records' = IF Mine(w, records[k]) THEN [records EXCEPT ![k] = Completed(@, w)] ELSE records
  /\ UNCHANGED <<store, rows, effects, left, faults>>

CompleteRead(w) ==
  LET k == op[w].key IN
  /\ store = "prisma" /\ At(w, "complete")
  /\ IF Mine(w, records[k])
     THEN Become(w, [op[w] EXCEPT !.pc = "complete_write", !.seen = RowId(k)]) /\ UNCHANGED answers
     ELSE Done(w) /\ Answered(w)
  /\ UNCHANGED <<store, records, rows, effects, left, faults>>

CompleteWrite(w) ==
  LET k == op[w].key IN
  /\ At(w, "complete_write")
  /\ IF op[w].seen # RowId(k)
     THEN Goto(w, "release") /\ UNCHANGED <<records, answers>>
     ELSE /\ records' = [records EXCEPT ![k] = Completed(@, w)]
          /\ Done(w) /\ Answered(w)
  /\ UNCHANGED <<store, rows, effects, left, faults>>

\* A failing completion releases the reservation of an operation that took effect.
CompleteFails(w) ==
  /\ store = "prisma" /\ (At(w, "complete") \/ At(w, "complete_write"))
  /\ faults > 0 /\ faults' = faults - 1
  /\ Goto(w, "release")
  /\ UNCHANGED <<store, records, rows, effects, answers, left>>

Release(w) ==
  LET k == op[w].key IN
  /\ store = "memory" /\ At(w, "release") /\ Done(w)
  /\ IF Mine(w, records[k])
     THEN records' = [records EXCEPT ![k] = None] ELSE UNCHANGED records
  /\ UNCHANGED <<store, rows, effects, answers, left, faults>>

ReleaseRead(w) ==
  /\ store = "prisma" /\ At(w, "release")
  /\ IF Mine(w, records[op[w].key])
     THEN Become(w, [op[w] EXCEPT !.pc = "delete", !.seen = RowId(op[w].key)])
     ELSE Done(w)
  /\ UNCHANGED <<store, records, rows, effects, answers, left, faults>>

ReleaseWrite(w) ==
  /\ At(w, "delete") /\ Done(w)
  /\ records' = IF op[w].seen = RowId(op[w].key) THEN [records EXCEPT ![op[w].key] = None]
                ELSE records
  /\ UNCHANGED <<store, rows, effects, answers, left, faults>>

-----------------------------------------------------------------------------
SamePrint(w, r) == r.print = op[w].print

\* One look of waitForCompletion: it ends with the record gone or completed, or with
\* the deadline.
WaitEnds(w) ==
  LET k == op[w].key IN
  /\ At(w, "wait") /\ Done(w)
  /\ IF Active(k) /\ records[k].state = "completed" /\ SamePrint(w, records[k])
     THEN answers' = answers \cup {<<k, op[w].print, records[k].response>>}
     ELSE UNCHANGED answers
  /\ IF store = "memory" THEN Purge ELSE UNCHANGED records
  /\ UNCHANGED <<store, rows, effects, left, faults>>

\* A record's time to live ends; the stores notice when they look.
Expire(k) ==
  /\ Active(k) /\ faults > 0 /\ faults' = faults - 1
  /\ records' = [records EXCEPT ![k].live = FALSE]
  /\ UNCHANGED <<store, rows, effects, answers, op, left>>

\* The process of a request dies; the in-memory store dies with it, and with every
\* other request of that process.
Crash(w) ==
  /\ ~At(w, "idle") /\ faults > 0 /\ faults' = faults - 1
  /\ IF store = "prisma"
     THEN Done(w) /\ UNCHANGED records
     ELSE /\ op' = [v \in Workers |-> Idle]
          /\ records' = [k \in Keys |-> None]
  /\ UNCHANGED <<store, rows, effects, answers, left>>

Next ==
  \/ \E w \in Workers :
       \/ \E k \in Keys, f \in Prints : Receive(w, k, f)
       \/ ReserveInMemory(w) \/ ReserveRead(w) \/ ReserveLook(w) \/ ReserveWrite(w)
       \/ RunOperation(w)
       \/ CompleteInMemory(w) \/ CompleteRead(w) \/ CompleteWrite(w) \/ CompleteFails(w)
       \/ Release(w) \/ ReleaseRead(w) \/ ReleaseWrite(w) \/ WaitEnds(w) \/ Crash(w)
  \/ \E k \in Keys : Expire(k)

Spec == Init /\ [][Next]_vars

-----------------------------------------------------------------------------
Record == [row : Nat \ {0}, print : Prints, owner : Workers, state : {"in_progress", "completed"},
           live : BOOLEAN, response : Prints \cup {None}]

\* The records and the requests have their shapes, and the in-memory store never holds
\* more records than its capacity.
TypeOK ==
  /\ store \in {"memory", "prisma"}
  /\ records \in [Keys -> Record \cup {None}]
  /\ store = "memory" => Cardinality({k \in Keys : records[k] # None}) <= Capacity
  /\ effects \in [Keys -> Nat]
  /\ answers \subseteq Keys \X Prints \X (Prints \cup {None})
  /\ \A w \in Workers : op[w].key \in Keys \cup {None} /\ op[w].print \in Prints \cup {None}
  /\ left \in 0..MaxOps /\ faults \in 0..MaxFaults

=============================================================================
