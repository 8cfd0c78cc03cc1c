------------------------------- MODULE Delivery -------------------------------
(***************************************************************************)
(* Proof of delivery and ratings: an order and a ride of one rider, the    *)
(* requests of a merchant or rider that complete them with or without a    *)
(* proof, proofs handed in by themselves, and customers who rate the       *)
(* rider.  A job has one row of proof, written over by every later one,    *)
(* and a ride keeps copies in columns of its own; the rider's row keeps    *)
(* the number of reviews (and their average, which is left out).  Of a     *)
(* proof only the photo is kept here; who may hand it in, the places, and  *)
(* the delivery codes, which no request issues, are left out; the review   *)
(* of the store is in Orders.                                              *)
(***************************************************************************)
EXTENDS Naturals

CONSTANTS
  Workers,
  Photos,
  Blank,    \* no photo: a proof of notes or a name only
  None,     \* no proof
  MaxOps,   \* bound: requests
  MaxFaults \* bound: failed calls

VARIABLES
  status,     \* [Jobs -> "under_way" or "completed"]
  proof,      \* the ProofOfDelivery row of each job
  column,     \* podPhotoUrl of the ride
  announced,  \* how often the completion of each job was announced
  reviews,    \* how many reviews of the rider each job has
  standing,   \* Rider.reviewCount
  op, left, faults,
  last,       \* history: the proof of each job that was handed in last
  broken,     \* history: jobs a request of which ended in an error
  mixed,      \* history: jobs on which two requests overlapped
  crossed     \* history: two counts of the rider's reviews overlapped

jobs == <<status, proof, column, announced>>
rider == <<reviews, standing>>
vars == <<jobs, rider, op, left, faults, last, broken, mixed, crossed>>

Jobs == {"order", "ride"}
Proofs == Photos \cup {Blank}

Idle == [pc |-> "idle", job |-> None, completes |-> FALSE, proof |-> None, found |-> FALSE,
         count |-> 0]

Init ==
  /\ \/ status = [j \in Jobs |-> "under_way"] /\ announced = [j \in Jobs |-> 0]
     \/ status = [j \in Jobs |-> "completed"] /\ announced = [j \in Jobs |-> 1]
  /\ reviews = [j \in Jobs |-> 0] /\ standing = 0
  /\ proof = [j \in Jobs |-> None] /\ column = Blank
  /\ op = [w \in Workers |-> Idle] /\ left = MaxOps /\ faults = MaxFaults
  /\ last = [j \in Jobs |-> None] /\ broken = {} /\ mixed = {} /\ crossed = FALSE

At(w, pc) == op[w].pc = pc

Goto(w, pc) == op' = [op EXCEPT ![w].pc = pc]

Done(w) == op' = [op EXCEPT ![w] = Idle]

Breaks(w) == Done(w) /\ broken' = broken \cup {op[w].job}

\* Rows and counters a step does not touch; Whole is for one that ends in no error.
Whole == UNCHANGED <<left, faults, last, broken, mixed, crossed>>

AtWork(j) == \E w \in Workers : op[w].job = j

Accept(w, pc, j, completes, p) ==
  /\ At(w, "idle") /\ left > 0 /\ left' = left - 1
  /\ op' = [op EXCEPT ![w] = [Idle EXCEPT !.pc = pc, !.job = j, !.completes = completes,
                                           !.proof = p]]
  /\ last' = IF p = None THEN last ELSE [last EXCEPT ![j] = p]
  /\ mixed' = IF AtWork(j) THEN mixed \cup {j} ELSE mixed
  /\ UNCHANGED <<jobs, rider, faults, broken, crossed>>

-----------------------------------------------------------------------------
\* updateStatus of the merchant and of the rider, to DELIVERED and COMPLETED.
CompleteStart(w, j, p) == status[j] = "under_way" /\ Accept(w, "complete", j, TRUE, p)

\* The row is written by id; a ride's photo goes along if there is one.
Complete(w) ==
  LET self == op[w] IN
  /\ At(w, "complete")
  /\ status' = [status EXCEPT ![self.job] = "completed"]
  /\ column' = IF self.job = "ride" /\ self.proof \in Photos THEN self.proof ELSE column
  /\ Goto(w, IF self.job = "order" /\ self.proof # None THEN "find" ELSE "announce")
  /\ UNCHANGED <<proof, announced, rider>> /\ Whole

\* A ride is announced before its proof is handed on, an order after.
Announce(w) ==
  LET self == op[w] IN
  /\ At(w, "announce")
  /\ announced' = [announced EXCEPT ![self.job] = @ + 1]
  /\ IF self.job = "ride" /\ self.proof # None THEN Goto(w, "find") ELSE Done(w)
  /\ UNCHANGED <<status, proof, column, rider>> /\ Whole

-----------------------------------------------------------------------------
\* ProofOfDeliveryService.submit, called by the two above or by a request of its own.
SubmitStart(w, j, p) == Accept(w, "find", j, FALSE, p)

Find(w) ==
  /\ At(w, "find")
  /\ op' = [op EXCEPT ![w].pc = "write", ![w].found = proof[op[w].job] # None]
  /\ UNCHANGED <<jobs, rider>> /\ Whole

\* Mutation: the ride's columns are left as they are.
NoColumns(j) == FALSE

HasColumns(j) == j = "ride"

\* What comes after the row: a ride's columns, an order's announcement.
AfterWrite(w) ==
  IF HasColumns(op[w].job) THEN Goto(w, "mirror")
  ELSE IF op[w].completes /\ op[w].job = "order" THEN Goto(w, "announce")
  ELSE Done(w)

\* A row that was found is written over; a second one breaks the unique index.
Write(w) ==
  LET self == op[w]
      collides == ~self.found /\ proof[self.job] # None IN
  /\ At(w, "write")
  /\ IF collides THEN Breaks(w) /\ UNCHANGED proof
     ELSE /\ proof' = [proof EXCEPT ![self.job] = self.proof]
          /\ AfterWrite(w) /\ UNCHANGED broken
  /\ UNCHANGED <<status, column, announced, rider, left, faults, last, mixed, crossed>>

\* The columns are set to what the row had when this request wrote it.
Mirror(w) ==
  /\ At(w, "mirror") /\ Done(w)
  /\ column' = op[w].proof
  /\ UNCHANGED <<status, proof, announced, rider>> /\ Whole

-----------------------------------------------------------------------------
\* rate, of an order and of a ride: one review of the rider by the job's customer, who
\* must not have written one; then the reviews are counted and the count is written.
RateStart(w, j) ==
  status[j] = "completed" /\ reviews[j] = 0 /\ Accept(w, "review", j, FALSE, None)

Review(w) ==
  /\ At(w, "review") /\ Goto(w, "count")
  /\ reviews' = [reviews EXCEPT ![op[w].job] = @ + 1]
  /\ UNCHANGED <<jobs, standing>> /\ Whole

Counted == reviews["order"] + reviews["ride"]

Count(w) ==
  /\ At(w, "count")
  /\ op' = [op EXCEPT ![w].pc = "rated", ![w].count = Counted]
  /\ crossed' = (crossed \/ \E v \in Workers : At(v, "rated"))
  /\ UNCHANGED <<jobs, rider, left, faults, last, broken, mixed>>

Rated(w) ==
  /\ At(w, "rated") /\ Done(w)
  /\ standing' = op[w].count
  /\ UNCHANGED <<jobs, reviews>> /\ Whole

\* A call fails and with it the request, or for a ride all that is left of it.
Fails(w) ==
  /\ ~At(w, "idle") /\ faults > 0 /\ faults' = faults - 1
  /\ Breaks(w)
  /\ UNCHANGED <<jobs, rider, left, last, mixed, crossed>>

Next ==
  \E w \in Workers :
    \/ \E j \in Jobs, p \in Proofs : SubmitStart(w, j, p)
    \/ \E j \in Jobs, p \in Proofs \cup {None} : CompleteStart(w, j, p)
    \/ \E j \in Jobs : RateStart(w, j)
    \/ Complete(w) \/ Announce(w) \/ Find(w) \/ Write(w) \/ Mirror(w)
    \/ Review(w) \/ Count(w) \/ Rated(w) \/ Fails(w)

Spec == Init /\ [][Next]_vars
-----------------------------------------------------------------------------
\* Rows and requests keep their shape.
TypeOK ==
  /\ status \in [Jobs -> {"under_way", "completed"}]
  /\ proof \in [Jobs -> Proofs \cup {None}] /\ column \in Proofs
  /\ announced \in [Jobs -> Nat] /\ reviews \in [Jobs -> Nat] /\ standing \in Nat
  /\ op \in [Workers -> [pc: {"idle", "complete", "announce", "find", "write", "mirror",
                              "review", "count", "rated"},
                         job: Jobs \cup {None}, completes: BOOLEAN,
                         proof: Proofs \cup {None}, found: BOOLEAN, count: Nat]]
  /\ last \in [Jobs -> Proofs \cup {None}]
  /\ broken \subseteq Jobs /\ mixed \subseteq Jobs /\ crossed \in BOOLEAN
  /\ left \in Nat /\ faults \in Nat

\* Once no request is at work on a job: it is completed exactly if that was announced,
\* unless a request broke off, as one does that finds another's proof where it wants to
\* put its own; its proof is the one handed in last, a ride's columns say the same, and
\* its completion was announced once, unless requests overlapped as well.
ProofsUnlessBroken ==
  \A j \in Jobs \ broken : ~AtWork(j) =>
    /\ status[j] = "completed" <=> announced[j] > 0
    /\ j \notin mixed =>
         /\ proof[j] = last[j] /\ announced[j] <= 1
         /\ j = "ride" => column = IF proof[j] = None THEN Blank ELSE proof[j]

\* Once no customer is rating, the rider's row counts all reviews, unless two counts
\* overlapped or a request broke off; and a job has one review unless two customers'
\* requests overlapped on it.
RatingsUnlessCrossed ==
  /\ \A j \in Jobs : reviews[j] <= 1 \/ j \in mixed
  /\ ~crossed /\ broken = {} /\ (\A w \in Workers : op[w].pc \notin {"count", "rated"})
       => standing = Counted
=============================================================================
