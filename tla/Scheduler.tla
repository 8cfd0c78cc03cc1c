------------------------------ MODULE Scheduler ------------------------------
(***************************************************************************)
(* One registered task in several SchedulerServices that share one         *)
(* SchedulerLock, the in-memory one being the reference implementation.    *)
(* A scheduler keeps the handle of the last timer it armed; a timer that   *)
(* is pending but whose handle was overwritten or dropped is a stray one,  *)
(* beyond the reach of stop().  A run takes the lock, calls the handler,   *)
(* releases the lock and arms the next timer.                              *)
(***************************************************************************)
EXTENDS Naturals, FiniteSets

CONSTANTS
  Workers,     \* runs in flight; also the lock tokens
  Schedulers,
  None,        \* the lock is free
  MaxOps,      \* bound: starts, stops and timers fired
  MaxFaults    \* bound: late renewals and failed calls of the lock

VARIABLES
  kind,        \* "interval" (cron ends alike) or "once"
  running,     \* [Schedulers -> BOOLEAN]
  completed,   \* [Schedulers -> BOOLEAN]: a one-time task has run
  tracked,     \* [Schedulers -> BOOLEAN]: timerHandle names a pending timer
  stray,       \* [Schedulers -> Nat]: pending timers no handle names
  lock,        \* [token, live] or None
  op,          \* [Workers -> [pc, at]]: the runs
  left, faults

vars == <<kind, running, completed, tracked, stray, lock, op, left, faults>>

Idle == [pc |-> "idle", at |-> None]

Init ==
  /\ kind \in {"interval", "once"}
  /\ running = [s \in Schedulers |-> FALSE]
  /\ completed = [s \in Schedulers |-> FALSE]
  /\ tracked = [s \in Schedulers |-> FALSE]
  /\ stray = [s \in Schedulers |-> 0]
  /\ lock = None
  /\ op = [w \in Workers |-> Idle]
  /\ left = MaxOps /\ faults = MaxFaults

At(w, pc) == op[w].pc = pc

Goto(w, pc) == op' = [op EXCEPT ![w].pc = pc]

Toll == left > 0 /\ left' = left - 1

Fault == faults > 0 /\ faults' = faults - 1

Spend == Toll /\ UNCHANGED faults

\* schedule: a new timer takes the handle; the one it named, if any, is out of reach.
Schedule(s) ==
  /\ tracked' = [tracked EXCEPT ![s] = TRUE]
  /\ stray' = [stray EXCEPT ![s] = @ + (IF tracked[s] THEN 1 ELSE 0)]

Unscheduled == UNCHANGED <<tracked, stray>>

-----------------------------------------------------------------------------
Start(s) ==
  /\ ~running[s] /\ Spend
  /\ running' = [running EXCEPT ![s] = TRUE]
  /\ IF completed[s] THEN Unscheduled ELSE Schedule(s)
  /\ UNCHANGED <<kind, completed, lock, op>>

Stop(s) ==
  /\ running[s] /\ Spend
  /\ running' = [running EXCEPT ![s] = FALSE]
  /\ tracked' = [tracked EXCEPT ![s] = FALSE]
  /\ UNCHANGED <<kind, completed, stray, lock, op>>

\* The callback of a timer drops the handle, whichever timer it names, and starts a run.
Fire(s, w) ==
  /\ At(w, "idle") /\ Spend
  /\ \/ tracked[s] /\ UNCHANGED stray
     \/ stray[s] > 0 /\ stray' = [stray EXCEPT ![s] = @ - (IF tracked[s] THEN 0 ELSE 1)]
  /\ tracked' = [tracked EXCEPT ![s] = FALSE]
  /\ op' = [op EXCEPT ![w] = [pc |-> "acquire", at |-> s]]
  /\ UNCHANGED <<kind, running, completed, lock>>

-----------------------------------------------------------------------------
Held == lock # None /\ lock.live

Mine(w) == lock # None /\ lock.token = w

Acquire(w) ==
  /\ At(w, "acquire")
  /\ IF Held THEN Goto(w, "next") /\ UNCHANGED lock
     ELSE Goto(w, "handler") /\ lock' = [token |-> w, live |-> TRUE]
  /\ UNCHANGED <<kind, running, completed, tracked, stray, left, faults>>

\* acquire rejects (the lock's map is full, the store is away): nothing awaits the run,
\* so it ends there and no timer follows it.
AcquireFails(w) ==
  /\ At(w, "acquire") /\ Fault
  /\ op' = [op EXCEPT ![w] = Idle]
  /\ UNCHANGED <<kind, running, completed, tracked, stray, lock, left>>

\* The handler returns or throws.
HandlerEnds(w) ==
  /\ At(w, "handler") /\ Goto(w, "release")
  /\ UNCHANGED <<kind, running, completed, tracked, stray, lock, left, faults>>

\* Renewals keep the lock alive while its run lasts, unless one is late or fails.
Expire ==
  /\ Held
  /\ IF At(lock.token, "handler") \/ At(lock.token, "release")
     THEN Fault ELSE UNCHANGED faults
  /\ lock' = [lock EXCEPT !.live = FALSE]
  /\ UNCHANGED <<kind, running, completed, tracked, stray, op, left>>

\* A late renewal finds its entry expired, and removes it.
RenewTooLate(w) ==
  /\ At(w, "handler") /\ Mine(w) /\ ~lock.live
  /\ lock' = None
  /\ UNCHANGED <<kind, running, completed, tracked, stray, op, left, faults>>

\* Mutation: release deletes the entry whoever holds it.
AnyToken(w) == lock # None

Releasable(w) == Mine(w)

\* A release that fails is ignored and leaves the lock to its time to live.
Release(w) ==
  /\ At(w, "release") /\ Goto(w, "next")
  /\ \/ lock' = (IF Releasable(w) THEN None ELSE lock) /\ UNCHANGED faults
     \/ Fault /\ UNCHANGED lock
  /\ UNCHANGED <<kind, running, completed, tracked, stray, left>>

Finish(w) ==
  LET s == op[w].at IN
  /\ At(w, "next")
  /\ op' = [op EXCEPT ![w] = Idle]
  /\ completed' = [completed EXCEPT ![s] = @ \/ kind = "once"]
  /\ IF kind = "interval" /\ running[s] THEN Schedule(s) ELSE Unscheduled
  /\ UNCHANGED <<kind, running, lock, left, faults>>

Next ==
  \/ \E s \in Schedulers : Start(s) \/ Stop(s) \/ \E w \in Workers : Fire(s, w)
  \/ \E w \in Workers :
       Acquire(w) \/ AcquireFails(w) \/ HandlerEnds(w) \/ RenewTooLate(w) \/ Release(w) \/ Finish(w)
  \/ Expire

Spec == Init /\ [][Next]_vars

-----------------------------------------------------------------------------
RunsOf(s) == {w \in Workers : op[w].at = s}

\* Flags, timers, the lock and the runs have their shapes.
TypeOK ==
  /\ kind \in {"interval", "once"}
  /\ running \in [Schedulers -> BOOLEAN] /\ completed \in [Schedulers -> BOOLEAN]
  /\ tracked \in [Schedulers -> BOOLEAN] /\ stray \in [Schedulers -> 0..MaxOps]
  /\ lock \in [token : Workers, live : BOOLEAN] \cup {None}
  /\ op \in [Workers -> [pc : {"idle", "acquire", "handler", "release", "next"},
                         at : Schedulers \cup {None}]]
  /\ left \in 0..MaxOps /\ faults \in 0..MaxFaults
-----------------------------------------------------------------------------
\* History variables for what its lock and its restarts do not promise.
VARIABLES
  late,       \* runs whose lock expired under them
  disturbed   \* schedulers restarted while a run was in flight, or whose run ended
              \* with its acquisition

MCVars == <<vars, late, disturbed>>

MCInit == Init /\ late = {} /\ disturbed = {}

MCNext ==
  /\ Next
  /\ late' = {w \in late \cup {v \in Workers : Mine(v) /\ Held /\ lock' # None /\ ~lock'.live} :
                op'[w].pc \in {"handler", "release"}}
  /\ disturbed' = disturbed
       \cup {s \in Schedulers : running'[s] /\ ~running[s] /\ RunsOf(s) # {}}
       \cup {op[w].at : w \in {v \in Workers : At(v, "acquire") /\ op'[v].pc = "idle"}}

MCSpec == MCInit /\ [][MCNext]_MCVars

\* Whatever overlaps, stops or fails, two runs are in the handler together only if one
\* of them lost its lock to a late renewal; the late one never takes the lock of a
\* third run with it.
AloneUnlessLate == Cardinality({w \in Workers \ late : At(w, "handler")}) <= 1

\* A running scheduler has exactly one run or pending timer of its task (none once a
\* one-time task is done) and a stopped one has no timer that could still fire, unless
\* it was restarted during a run or an acquisition was rejected.
OneChainUnlessDisturbed ==
  \A s \in Schedulers \ disturbed :
    LET timers == stray[s] + (IF tracked[s] THEN 1 ELSE 0)
        due    == running[s] /\ ~completed[s]
    IN IF due THEN timers + Cardinality(RunsOf(s)) = 1
       ELSE timers = 0 /\ Cardinality(RunsOf(s)) <= 1
=============================================================================
