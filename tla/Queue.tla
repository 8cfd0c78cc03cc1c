-------------------------------- MODULE Queue --------------------------------
(***************************************************************************)
(* InMemoryQueueAdapter: a bounded list of waiting jobs in priority order, *)
(* a bounded set of job records, and passes of process(): concurrent       *)
(* workers that shift jobs until none waits, the queue is paused or the    *)
(* pass is aborted.  process() called while the promise of a pass is still *)
(* unsettled returns that promise and starts no worker.  A worker runs     *)
(* from one await to the next in a step.  Jobs are numbered in order of    *)
(* creation.                                                               *)
(***************************************************************************)
EXTENDS Integers, Sequences, FiniteSets, SequencesExt

CONSTANTS
  Concurrency,   \* the most workers of a pass; they are 1..Concurrency
  Priorities,
  None,          \* no job
  MaxWaiting, MaxJobs,
  MaxOps         \* bound: calls of the queue

VARIABLES
  created,   \* the jobs created: their priorities
  status,    \* [ids of the retained records -> status]
  waiting,   \* ids, next first
  ended,     \* completedOrder: ids of finished jobs, oldest first
  paused, aborted,
  pass,      \* processingPromise: "none", "running", or "settling" with no worker left
  job,       \* [1..Concurrency -> id or None]: what each worker awaits
  left

vars == <<created, status, waiting, ended, paused, aborted, pass, job, left>>

Slots == 1..Concurrency

Init ==
  /\ created = <<>> /\ status = <<>> /\ waiting = <<>> /\ ended = <<>>
  /\ paused = FALSE /\ aborted = FALSE /\ pass = "none"
  /\ job = [w \in Slots |-> None]
  /\ left = MaxOps

Spend == left > 0 /\ left' = left - 1

-----------------------------------------------------------------------------
\* Mutation: the oldest records go, finished or not.
OldestRecords(st, order) == SetToSortSeq(DOMAIN st, <)

Evictable(st, order) == order

\* evictCompletedIfNeeded: the oldest finished jobs that must go for there to be room.
Evicted(st, order) ==
  LET excess == Cardinality(DOMAIN st) - MaxJobs + 1
      q      == Evictable(st, order)
  IN {q[i] : i \in {j \in DOMAIN q : j <= excess}}

Retain(st, order) ==
  LET gone == Evicted(st, order) IN
  /\ status' = [i \in DOMAIN st \ gone |-> st[i]]
  /\ ended' = SelectSeq(order, LAMBDA i : i \notin gone)

\* The order of the waiting list: higher priority first, then older first.
Precedes(ps, i, j) == ps[i] > ps[j] \/ (ps[i] = ps[j] /\ i < j)

Waiting == IF paused THEN "paused" ELSE "waiting"

\* add rejects with the waiting list full, and with the records full of jobs that have
\* not finished; it has evicted what it could by then.
Add(p) ==
  LET i    == Len(created) + 1
      gone == Evicted(status, ended)
  IN
  /\ Spend
  /\ Len(waiting) < MaxWaiting
  /\ IF Cardinality(DOMAIN status \ gone) >= MaxJobs
     THEN Retain(status, ended) /\ UNCHANGED <<created, waiting>>
     ELSE /\ created' = Append(created, p)
          /\ waiting' = SetToSortSeq(ToSet(waiting) \cup {i},
                                     LAMBDA a, b : Precedes(created', a, b))
          /\ status' = [k \in (DOMAIN status \ gone) \cup {i} |->
                          IF k = i THEN Waiting ELSE status[k]]
          /\ ended' = SelectSeq(ended, LAMBDA k : k \notin gone)
  /\ UNCHANGED <<paused, aborted, pass, job>>

RemoveJob(i) ==
  /\ Spend
  /\ Contains(waiting, i)
  /\ waiting' = Remove(waiting, i)
  /\ status' = [k \in DOMAIN status \ {i} |-> status[k]]
  /\ UNCHANGED <<created, ended, paused, aborted, pass, job>>

Relabelled(label) ==
  status' = [k \in DOMAIN status |-> IF Contains(waiting, k) THEN label ELSE status[k]]

Pause ==
  /\ Spend
  /\ paused' = TRUE /\ Relabelled("paused")
  /\ UNCHANGED <<created, waiting, ended, aborted, pass, job>>

Resume ==
  /\ Spend
  /\ paused' = FALSE /\ Relabelled("waiting")
  /\ UNCHANGED <<created, waiting, ended, aborted, pass, job>>

-----------------------------------------------------------------------------
\* process(): each worker takes a job before anything else happens, unless the queue
\* is paused or the caller's signal is already aborted.
Process(workers, signalled) ==
  LET taken == IF paused \/ signalled THEN {}
               ELSE {w \in Slots : w <= workers /\ w <= Len(waiting)}
      ids   == {waiting[w] : w \in taken}
  IN
  /\ pass = "none" /\ Spend
  /\ aborted' = signalled
  /\ pass' = IF taken = {} THEN "settling" ELSE "running"
  /\ job' = [w \in Slots |-> IF w \in taken THEN waiting[w] ELSE None]
  /\ waiting' = SubSeq(waiting, Cardinality(taken) + 1, Len(waiting))
  /\ status' = [k \in DOMAIN status |-> IF k \in ids THEN "active" ELSE status[k]]
  /\ UNCHANGED <<created, ended, paused>>

\* The signal of the running pass is aborted.
Abort ==
  /\ pass = "running" /\ ~aborted /\ Spend
  /\ aborted' = TRUE
  /\ UNCHANGED <<created, status, waiting, ended, paused, pass, job>>

TakesNext == ~paused /\ ~aborted /\ waiting # <<>>

\* A job ends (a timeout or an abort ends it as failed) and its worker goes on to the
\* next one or leaves the pass.
JobEnds(w, outcome) ==
  LET id   == job[w]
      next == TakesNext
      st   == [k \in DOMAIN status |->
                 IF k = id THEN outcome
                 ELSE IF next /\ k = Head(waiting) THEN "active" ELSE status[k]]
      rest == [job EXCEPT ![w] = IF next THEN Head(waiting) ELSE None]
  IN
  /\ id # None
  /\ Retain(st, Append(ended, id))
  /\ job' = rest
  /\ waiting' = IF next THEN Tail(waiting) ELSE waiting
  /\ pass' = IF \A v \in Slots : rest[v] = None THEN "settling" ELSE pass
  /\ UNCHANGED <<created, paused, aborted, left>>

\* The promise of the pass settles and is forgotten.
Settle ==
  /\ pass = "settling" /\ pass' = "none"
  /\ UNCHANGED <<created, status, waiting, ended, paused, aborted, job, left>>

Next ==
  \/ \E p \in Priorities : Add(p)
  \/ \E i \in DOMAIN created : RemoveJob(i)
  \/ Pause \/ Resume \/ Abort \/ Settle
  \/ \E n \in Slots, signalled \in BOOLEAN : Process(n, signalled)
  \/ \E w \in Slots, outcome \in {"completed", "failed"} : JobEnds(w, outcome)

Spec == Init /\ [][Next]_vars

-----------------------------------------------------------------------------
Active == {job[w] : w \in Slots} \ {None}

\* Records, lists and workers have their shapes and bounds.
TypeOK ==
  /\ created \in Seq(Priorities)
  /\ DOMAIN status \subseteq DOMAIN created
  /\ Len(waiting) <= MaxWaiting
  /\ job \in [Slots -> DOMAIN created \cup {None}]
  /\ paused \in BOOLEAN /\ aborted \in BOOLEAN
  /\ pass \in {"none", "running", "settling"}
  /\ left \in 0..MaxOps

\* Every retained job is in one place, the one its status names, and a job that waits
\* or runs is always retained, in a set of records that never outgrows its bound:
\* eviction, at either of its call sites, takes finished jobs only.
PlacesAgree ==
  /\ Cardinality(DOMAIN status) <= MaxJobs
  /\ ToSet(waiting) \cup Active \cup ToSet(ended) = DOMAIN status
  /\ \A k \in DOMAIN status :
       status[k] = (IF Contains(waiting, k) THEN Waiting
                    ELSE IF k \in Active THEN "active" ELSE status[k])
  /\ \A k \in ToSet(ended) : status[k] \in {"completed", "failed"}
  /\ Len(waiting) + Cardinality(Active) + Len(ended) = Cardinality(DOMAIN status)
-----------------------------------------------------------------------------
\* A history variable for the calls a pass comes too early for.
VARIABLES
  stranded   \* jobs a settled pass left waiting, without a reason

MCVars == <<vars, stranded>>

MCInit == Init /\ stranded = {}

\* A job waits while the last worker leaves a pass that is neither paused nor aborted.
LeftBehind ==
  IF pass # "settling" /\ pass' = "settling" /\ ~paused /\ ~aborted'
  THEN ToSet(waiting') ELSE {}

MCNext == Next /\ stranded' = stranded \cup LeftBehind

MCSpec == MCInit /\ [][MCNext]_MCVars

\* However its workers end, fail, are paused and resumed, a pass that is neither paused
\* nor aborted when its last worker leaves has taken every waiting job: only a job
\* added, or a queue resumed, before the promise settles can be left to another pass.
PassDrains == stranded = {}

\* A job is only ever started when none that waits precedes it: more urgent, or as
\* urgent and older.
TakenInOrder ==
  \A k \in Active' \ Active :
    \A i \in ToSet(waiting') \cap ToSet(waiting) :
      created[k] > created[i] \/ (created[k] = created[i] /\ k < i)
=============================================================================
