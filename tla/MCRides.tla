------------------------------- MODULE MCRides -------------------------------
(***************************************************************************)
(* Rides with the start states TLC begins from, and history variables that *)
(* tell which guarantees the code gives up, and where.                     *)
(***************************************************************************)
EXTENDS Rides

CONSTANTS Ride1, Rider1

VARIABLES
  mixed,   \* two requests that write a ride's status overlapped on it
  odd,     \* riders assigned while unavailable, or whose ride was dropped
           \* by a rejection or by the customer
  forced   \* rides an admin sent searching before they were paid

MCVars == <<vars, mixed, odd, forced>>

MoneyOnly == {"pay", "gateway", "retry", "pay_write", "fail"}

Overlapped ==
  \E v, w \in Workers :
    /\ v # w /\ op[v].ride # None /\ op[v].ride = op[w].ride
    /\ {op[v].pc, op[w].pc} \cap MoneyOnly = {}

\* The rider of the ride whose status w has just written.
DroppedBy(w) == IF op'[w] # op[w] THEN {rides[op[w].ride].rider} ELSE {}

\* A ride under way, and one that was just requested, as left by requests that
\* came one at a time; or none.
Starts ==
  { Absent,
    [Absent EXCEPT !.status = "PENDING_PAYMENT", !.payFirst = TRUE],
    [Absent EXCEPT !.status = "SEARCHING"],
    [Absent EXCEPT !.status = "ASSIGNED", !.rider = Rider1],
    [Absent EXCEPT !.status = "IN_PROGRESS", !.rider = Rider1] }

MCInit ==
  \E row \in Starts :
    /\ rides = [i \in Rides |-> IF i = Ride1 THEN row ELSE Absent]
    /\ available = Riders \ {row.rider}
    /\ consumed = FALSE /\ priced = {}
    /\ payment = [i \in Rides |-> "none"] /\ published = {}
    /\ op = [w \in Workers |-> Idle]
    /\ left = MaxOps /\ faults = MaxFaults
    /\ mixed = FALSE /\ odd = {} /\ forced = {}

MCNext ==
  /\ Next
  /\ mixed' = (mixed \/ Overlapped')
  /\ odd' = odd \cup
       {r \in Riders \ available :
          \E i \in Rides : rides'[i].rider = r /\ rides[i].rider # r}
       \cup UNION {DroppedBy(w) : w \in
          {v \in Workers : \/ At(v, "cancel")
                           \/ At(v, "status_write") /\ op[v].to = "REJECTED"}}
  /\ forced' = forced \cup
       {op[w].ride : w \in {v \in Workers : At(v, "status_write") /\ op[v].to = "SEARCHING"}}

MCSpec == MCInit /\ [][MCNext]_MCVars

Active == {"ASSIGNED", "ARRIVING", "IN_PROGRESS"}

\* Where requests do not overlap on a ride its status follows the table, whoever
\* moves it (ride-lifecycle.ts: terminal states "never transition further"),
\* although four services check statuses each with lists of their own.
StatusFollowsTable ==
  \A i \in Rides :
    mixed' \/ ~Exists(i) \/ rides'[i].status = rides[i].status
    \/ Allowed(rides[i].status, rides'[i].status)

\* A rider is unavailable exactly while a ride of theirs is under way: assignments,
\* reassignments, completions and cancellations by admins and riders keep the flag
\* and the rides together.  Not so after a rejection or a customer's cancellation,
\* which free nobody, or once a rider was assigned while busy.
RidersAccounted ==
  mixed \/ \A r \in Riders \ odd :
             r \notin available <=>
             \E i \in Rides : rides[i].rider = r /\ rides[i].status \in Active

\* A ride that is to be paid first finds no rider before its payment completed,
\* unless an admin sends it searching, however its requests and events overlap.
PaidBeforeDispatch ==
  \A i \in Rides \ forced :
    rides[i].payFirst /\ rides[i].rider # None => <<i, "completed">> \in published

=============================================================================
