----------------------------- MODULE SearchIndex -----------------------------
(***************************************************************************)
(* The search index: administrators change the catalogue, each change      *)
(* announces a job, a job loads the row and puts its document into the     *)
(* index of the process that runs it, and a reindex rebuilds one whole     *)
(* index.  Every process has an index of its own, in memory.  Queries,     *)
(* scores, facets, what a document says and the limits on how many rows a  *)
(* reindex loads are left out.                                             *)
(***************************************************************************)
EXTENDS Naturals, FiniteSets

CONSTANTS
  Workers,      \* requests and runs of jobs in flight
  Processes,    \* each with its index and its consumer of the queue
  Entities,     \* stores, products, events, merchants, categories
  EntityKinds,
  KindOf,       \* [Entities -> EntityKinds]
  KindSets,     \* the sets of kinds an administrator asks to reindex
  Before,       \* the catalogue before anything happens
  Texts,        \* what an entity on show may say
  None,
  Concurrency,  \* jobs a consumer runs at once
  Attempts,     \* runs of a job before it counts as failed
  MaxOps,       \* bound: changes, reindexes and searches
  MaxFaults     \* bound: failed calls and restarts

VARIABLES
  catalog,  \* the rows: [Entities -> Rows]
  jobs,     \* what the queue knows of each job id
  engine,   \* [Processes -> [Entities -> the document of the index]]
  warm,     \* processes whose searches read the index as it is
  op, left, faults

vars == <<catalog, jobs, engine, warm, op, left, faults>>

\* A row is on show with some text, inactive, or deleted for good.
Rows == {"absent", "inactive", "deleted"} \cup Texts

Document(row) == IF row \in Texts THEN row ELSE None

Job(name, target) == [name |-> name, target |-> target]

\* An administrator's reindex has an id of its own; two of the same kinds are not queued
\* at once here.
Jobs ==
  {Job(name, e) : name \in {"index", "remove"}, e \in Entities}
    \cup {Job("reindex-all", kinds) : kinds \in KindSets}

NoJob == [status |-> "none", tries |-> 0]

Empty == [e \in Entities |-> None]

Idle == [pc |-> "idle", in |-> None, job |-> None, docs |-> Empty, todo |-> {}]

Init ==
  /\ catalog = Before
  /\ jobs = [j \in Jobs |-> NoJob]
  /\ engine = [p \in Processes |-> Empty] /\ warm = {}
  /\ op = [w \in Workers |-> Idle]
  /\ left = MaxOps /\ faults = MaxFaults

At(w, pc) == op[w].pc = pc

Become(w, self) == op' = [op EXCEPT ![w] = self]

Done(w) == Become(w, Idle)

Asked(w) == At(w, "idle") /\ left > 0 /\ left' = left - 1

-----------------------------------------------------------------------------
\* The administrators' services: the row commits, then its event is emitted.
Change(w, e, row) ==
  /\ Asked(w)
  /\ catalog[e] \notin {"deleted", row}
  /\ row = "deleted" => catalog[e] # "absent"
  /\ catalog' = [catalog EXCEPT ![e] = row]
  /\ Become(w, [Idle EXCEPT !.pc = "announce",
                            !.job = Job(IF row = "deleted" THEN "remove" ELSE "index", e)])
  /\ UNCHANGED <<jobs, engine, warm, faults>>

\* The queue ignores a job whose id it still knows, whatever became of that job.
Announce(w) ==
  /\ At(w, "announce") /\ Done(w)
  /\ jobs' = IF jobs[op[w].job].status = "none"
             THEN [jobs EXCEPT ![op[w].job].status = "waiting"] ELSE jobs
  /\ UNCHANGED <<catalog, engine, warm, left, faults>>

\* The listener logs that it could not enqueue, and that is all.
AnnounceFails(w) ==
  /\ At(w, "announce") /\ Done(w)
  /\ faults > 0 /\ faults' = faults - 1
  /\ UNCHANGED <<catalog, jobs, engine, warm, left>>

AskReindex(w, kinds) ==
  LET j == Job("reindex-all", kinds) IN
  /\ Asked(w) /\ jobs[j].status = "none"
  /\ jobs' = [jobs EXCEPT ![j].status = "waiting"]
  /\ UNCHANGED <<catalog, engine, warm, op, faults>>

-----------------------------------------------------------------------------
\* The consumer of process p takes a job; a reindex clears the index first.
Running(p) == {w \in Workers : op[w].in = p /\ op[w].job # None}

Start(j) == IF j.name = "index" THEN "load" ELSE "put"

Take(w, p, j) ==
  /\ At(w, "idle") /\ jobs[j].status = "waiting" /\ Cardinality(Running(p)) < Concurrency
  /\ jobs' = [jobs EXCEPT ![j] = [status |-> "active", tries |-> @.tries + 1]]
  /\ IF j.name = "reindex-all"
     THEN /\ engine' = [engine EXCEPT ![p] = Empty]
          /\ Become(w, [Idle EXCEPT !.pc = "collect", !.in = p, !.job = j, !.todo = j.target])
     ELSE /\ Become(w, [Idle EXCEPT !.pc = Start(j), !.in = p, !.job = j])
          /\ UNCHANGED engine
  /\ UNCHANGED <<catalog, warm, left, faults>>

\* The first search in a cold process rebuilds its index before it answers.
ColdSearch(w, p) ==
  /\ Asked(w) /\ p \notin warm
  /\ engine' = [engine EXCEPT ![p] = Empty]
  /\ Become(w, [Idle EXCEPT !.pc = "collect", !.in = p, !.todo = EntityKinds])
  /\ UNCHANGED <<catalog, jobs, warm, faults>>

Load(w) ==
  LET e == op[w].job.target IN
  /\ At(w, "load")
  /\ Become(w, [op[w] EXCEPT !.pc = "put", !.docs[e] = Document(catalog[e])])
  /\ UNCHANGED <<catalog, jobs, engine, warm, left, faults>>

\* loadMany: one query a kind, in the order of the request.
LoadKind(w, kind) ==
  /\ At(w, "collect") /\ kind \in op[w].todo
  /\ Become(w, [op[w] EXCEPT
       !.todo = @ \ {kind},
       !.docs = [e \in Entities |-> IF KindOf[e] = kind THEN Document(catalog[e]) ELSE @[e]]])
  /\ UNCHANGED <<catalog, jobs, engine, warm, left, faults>>

\* A job with an id is remembered; one without will not be asked for again.
Finished(j, status) ==
  IF j.name = "reindex-all" /\ status # "waiting" THEN [jobs EXCEPT ![j] = NoJob]
  ELSE [jobs EXCEPT ![j].status = status]

\* Mutation: a document that is no longer on show is left in the index.
PutOnly(index, e, doc) == [index EXCEPT ![e] = IF doc = None THEN @ ELSE doc]

Replaced(index, e, doc) == [index EXCEPT ![e] = doc]

Put(w) ==
  LET self == op[w]
      e == self.job.target IN
  /\ At(w, "put") /\ Done(w)
  /\ engine' = [engine EXCEPT ![self.in] = Replaced(@, e, self.docs[e])]
  /\ warm' = IF self.docs[e] = None THEN warm ELSE warm \cup {self.in}
  /\ jobs' = Finished(self.job, "completed")
  /\ UNCHANGED <<catalog, left, faults>>

PutAll(w) ==
  LET self == op[w] IN
  /\ At(w, "collect") /\ self.todo = {} /\ Done(w)
  /\ engine' = [engine EXCEPT ![self.in] =
       [e \in Entities |-> IF self.docs[e] = None THEN @[e] ELSE self.docs[e]]]
  /\ warm' = warm \cup {self.in}
  /\ jobs' = IF self.job = None THEN jobs ELSE Finished(self.job, "completed")
  /\ UNCHANGED <<catalog, left, faults>>

AfterFailure(j) == Finished(j, IF jobs[j].tries < Attempts THEN "waiting" ELSE "failed")

\* A query fails: a reindex leaves its process cold; a job is tried again or given up.
QueryFails(w) ==
  /\ At(w, "load") \/ (At(w, "collect") /\ op[w].todo # {})
  /\ faults > 0 /\ faults' = faults - 1
  /\ Done(w)
  /\ warm' = IF At(w, "collect") THEN warm \ {op[w].in} ELSE warm
  /\ jobs' = IF op[w].job = None THEN jobs ELSE AfterFailure(op[w].job)
  /\ UNCHANGED <<catalog, engine, left>>

\* A process restarts with an empty index; the queue hands its jobs out again.
Restart(p) ==
  /\ faults > 0 /\ faults' = faults - 1
  /\ engine' = [engine EXCEPT ![p] = Empty] /\ warm' = warm \ {p}
  /\ jobs' = [j \in Jobs |-> IF \E w \in Running(p) : op[w].job = j
                             THEN [jobs[j] EXCEPT !.status = "waiting"] ELSE jobs[j]]
  /\ op' = [w \in Workers |-> IF op[w].in = p THEN Idle ELSE op[w]]
  /\ UNCHANGED <<catalog, left>>

\* The queue drops what it remembers of a completed job after an hour, of a failed one
\* after a week.
Forget(j) ==
  /\ jobs[j].status \in {"completed", "failed"}
  /\ jobs' = [jobs EXCEPT ![j] = NoJob]
  /\ UNCHANGED <<catalog, engine, warm, op, left, faults>>

Next ==
  \/ \E w \in Workers :
       \/ \E e \in Entities, row \in Rows \ {"absent"} : Change(w, e, row)
       \/ Announce(w) \/ AnnounceFails(w) \/ Load(w) \/ Put(w) \/ PutAll(w) \/ QueryFails(w)
       \/ \E kinds \in KindSets : AskReindex(w, kinds)
       \/ \E p \in Processes : ColdSearch(w, p) \/ \E j \in Jobs : Take(w, p, j)
       \/ \E kind \in EntityKinds : LoadKind(w, kind)
  \/ \E p \in Processes : Restart(p)
  \/ \E j \in Jobs : Forget(j)

Spec == Init /\ [][Next]_vars
-----------------------------------------------------------------------------
Documents == [Entities -> Texts \cup {None}]

\* Rows, jobs, indexes and runs keep their shape, and a job is active exactly while one
\* run works on it.
TypeOK ==
  /\ catalog \in [Entities -> Rows]
  /\ jobs \in [Jobs -> [status: {"none", "waiting", "active", "completed", "failed"},
                        tries: 0..Attempts + MaxFaults]]
  /\ engine \in [Processes -> Documents] /\ warm \subseteq Processes
  /\ op \in [Workers -> [pc: {"idle", "announce", "load", "put", "collect"},
                         in: Processes \cup {None}, job: Jobs \cup {None},
                         docs: Documents, todo: SUBSET EntityKinds]]
  /\ \A j \in Jobs :
       Cardinality({w \in Workers : op[w].in # None /\ op[w].job = j})
         = IF jobs[j].status = "active" THEN 1 ELSE 0
  /\ left \in Nat /\ faults \in Nat

AtRest ==
  /\ op = [w \in Workers |-> Idle]
  /\ \A j \in Jobs : jobs[j].status \notin {"waiting", "active"}
=============================================================================
