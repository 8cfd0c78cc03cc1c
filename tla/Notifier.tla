------------------------------- MODULE Notifier -------------------------------
(***************************************************************************)
(* What becomes of a domain event at the notification listeners and the    *)
(* workflow orchestrators: emit starts every listener at once, and each    *)
(* walks its recipients, stores a notice in the app and pushes to the      *)
(* recipient's device, as the recipient's preferences allow.  The          *)
(* preferences row is created by the first who misses it.  Texts, sockets, *)
(* outbox rows, e-mail and SMS (off by default) are left out; a user has   *)
(* one device, and here only the customer has one.                         *)
(***************************************************************************)
EXTENDS Integers, FiniteSets, Sequences

CONSTANTS
  Events,      \* occurrences of domain events
  Kinds,       \* the kinds of events that occur, of those below
  None,
  MaxTasks,    \* bound: listeners of more than one event running at once
  MaxOps,      \* bound: events, changes of preferences and of the device
  MaxFaults    \* bound: calls that fail

VARIABLES
  kinds,   \* [Events -> the kind of the event, or "none"]
  prefs,   \* [Users -> the preferences row, or None]
  device,  \* the customer's push token: "live" or "none"
  inbox,   \* [Events -> [Users -> notices stored]]
  pushed,  \* [Events -> pushes the customer's device received]
  tasks,   \* listeners under way
  left, faults

vars == <<kinds, prefs, device, inbox, pushed, tasks, left, faults>>

Users == {"customer", "rider", "merchant"}

Defaults == [push |-> TRUE, inApp |-> TRUE]

-----------------------------------------------------------------------------
\* The listeners of an event: whom each notifies, and whether it pushes to the customer
\* once more.

Listener == [users |-> <<"customer">>, again |-> FALSE]

OrderWorkflow(users) == [users |-> users, again |-> FALSE]

RideWorkflow(users) == [users |-> users, again |-> TRUE]

RideMoved == <<RideWorkflow(<<"customer", "rider">>), Listener>>

Listeners ==
  [ order_placed   |-> <<OrderWorkflow(<<"customer">>)>>,
    order_paid     |-> <<OrderWorkflow(<<"customer">>), Listener>>,
    order_moved    |-> <<OrderWorkflow(<<"customer", "merchant">>), Listener>>,
    order_cancelled |-> << >>,  \* nobody listens to orders.cancelled
    ride_created   |-> <<RideWorkflow(<<"customer">>)>>,
    ride_paid      |-> <<RideWorkflow(<<"customer">>), Listener>>,
    ride_refunded  |-> <<RideWorkflow(<<"customer">>)>>,
    rider_assigned |-> <<RideWorkflow(<<"customer", "rider">>)>>,
    ride_moved_by_customer |-> RideMoved,
    \* A rider's step is emitted under two names, and both are listened to.
    ride_moved     |-> RideMoved \o RideMoved,
    ride_rejected  |-> <<RideWorkflow(<<"customer">>), RideWorkflow(<<"customer">>)>>,
    booking_paid   |-> <<Listener>> ]

Init ==
  /\ kinds = [e \in Events |-> "none"]
  /\ prefs \in {[u \in Users |-> None], [u \in Users |-> Defaults]}
  /\ device \in {"none", "live"}
  /\ inbox = [e \in Events |-> [u \in Users |-> 0]]
  /\ pushed = [e \in Events |-> 0]
  /\ tasks = {} /\ left = MaxOps /\ faults = MaxFaults

Task(e, n, l) == [event |-> e, n |-> n, users |-> l.users, again |-> l.again, pc |-> "inapp"]

Emit(e, kind) ==
  LET ls == Listeners[kind] IN
  /\ left > 0 /\ left' = left - 1
  /\ kinds[e] = "none" /\ kinds' = [kinds EXCEPT ![e] = kind]
  /\ tasks = {} \/ Cardinality(tasks) + Len(ls) <= MaxTasks
  /\ tasks' = tasks \cup {Task(e, n, ls[n]) : n \in DOMAIN ls}
  /\ UNCHANGED <<prefs, device, inbox, pushed, faults>>

To(t) == Head(t.users)

Become(t, after) == tasks' = (tasks \ {t}) \cup after

Goto(t, pc) == Become(t, {[t EXCEPT !.pc = pc]})

\* The next recipient, or the end of the listener.
Rest(t) ==
  IF Len(t.users) = 1 THEN {} ELSE {[t EXCEPT !.users = Tail(@), !.pc = "inapp"]}

\* What follows createInApp, a push in it, or their failure: the ride orchestrator pushes
\* by itself once more.
AfterInApp(t) == IF t.again THEN {[t EXCEPT !.again = FALSE, !.pc = "push"]} ELSE Rest(t)

-----------------------------------------------------------------------------
\* isChannelEnabled, through ensure: find, and create where there is none.

FindInApp(t) ==
  LET row == prefs[To(t)] IN
  /\ t \in tasks /\ t.pc = "inapp"
  /\ Goto(t, IF row = None THEN "make" ELSE IF row.inApp THEN "store" ELSE "push")
  /\ UNCHANGED <<kinds, prefs, device, inbox, pushed, left, faults>>

\* A second row for a user is refused, and the notice is lost with the exception.
MakePrefs(t) ==
  /\ t \in tasks /\ t.pc = "make"
  /\ IF prefs[To(t)] = None
     THEN prefs' = [prefs EXCEPT ![To(t)] = Defaults] /\ Goto(t, "store")
     ELSE Become(t, AfterInApp(t)) /\ UNCHANGED prefs
  /\ UNCHANGED <<kinds, device, inbox, pushed, left, faults>>

Store(t) ==
  /\ t \in tasks /\ t.pc = "store"
  /\ inbox' = [inbox EXCEPT ![t.event][To(t)] = @ + 1]
  /\ Goto(t, "push")
  /\ UNCHANGED <<kinds, prefs, device, pushed, left, faults>>

\* Mutation: the switch of the channel is not looked at.
Always(row) == TRUE

\* A recipient without a row by now gets one, with the defaults.
PushAllowed(row) == row = None \/ row.push

\* sendToUser reads the preference and the live tokens.
ReadTokens(t) ==
  /\ t \in tasks /\ t.pc = "push"
  /\ IF PushAllowed(prefs[To(t)]) /\ To(t) = "customer" /\ device = "live"
     THEN Goto(t, "send") ELSE Become(t, AfterInApp(t))
  /\ prefs' = IF prefs[To(t)] = None THEN [prefs EXCEPT ![To(t)] = Defaults] ELSE prefs
  /\ UNCHANGED <<kinds, device, inbox, pushed, left, faults>>

Send(t) ==
  /\ t \in tasks /\ t.pc = "send"
  /\ pushed' = [pushed EXCEPT ![t.event] = @ + 1]
  /\ Become(t, AfterInApp(t))
  /\ UNCHANGED <<kinds, prefs, device, inbox, left, faults>>

\* The provider no longer knows the token: it is deleted by id in a later step.
Unregistered(t) ==
  /\ t \in tasks /\ t.pc = "send" /\ faults > 0 /\ faults' = faults - 1
  /\ Goto(t, "drop")
  /\ UNCHANGED <<kinds, prefs, device, inbox, pushed, left>>

DropToken(t) ==
  /\ t \in tasks /\ t.pc = "drop"
  /\ device' = "none"
  /\ Become(t, AfterInApp(t))
  /\ UNCHANGED <<kinds, prefs, inbox, pushed, left, faults>>

CallFails(t) ==
  /\ t \in tasks /\ faults > 0 /\ faults' = faults - 1
  /\ Become(t, AfterInApp(t))
  /\ UNCHANGED <<kinds, prefs, device, inbox, pushed, left>>

-----------------------------------------------------------------------------
\* The customer changes a preference (the row is there by then), and registers and
\* unregisters the device.
Update(row) ==
  /\ left > 0 /\ left' = left - 1
  /\ prefs["customer"] # row /\ prefs' = [prefs EXCEPT !["customer"] = row]
  /\ UNCHANGED <<kinds, device, inbox, pushed, tasks, faults>>

Register ==
  /\ left > 0 /\ left' = left - 1
  /\ device # "live" /\ device' = "live"
  /\ UNCHANGED <<kinds, prefs, inbox, pushed, tasks, faults>>

Unregister ==
  /\ left > 0 /\ left' = left - 1
  /\ device = "live" /\ device' = "none"
  /\ UNCHANGED <<kinds, prefs, inbox, pushed, tasks, faults>>

Next ==
  \/ \E e \in Events, kind \in Kinds : Emit(e, kind)
  \/ \E t \in tasks :
       \/ FindInApp(t) \/ MakePrefs(t) \/ Store(t) \/ ReadTokens(t) \/ Send(t)
       \/ Unregistered(t) \/ DropToken(t) \/ CallFails(t)
  \/ \E push, inApp \in BOOLEAN : Update([push |-> push, inApp |-> inApp])
  \/ Register \/ Unregister

Spec == Init /\ [][Next]_vars

-----------------------------------------------------------------------------
Row == [push : BOOLEAN, inApp : BOOLEAN]

\* Rows, notices and listeners have their shapes.
TypeOK ==
  /\ kinds \in [Events -> Kinds \cup {"none"}]
  /\ prefs \in [Users -> Row \cup {None}]
  /\ device \in {"none", "live"}
  /\ inbox \in [Events -> [Users -> Nat]]
  /\ pushed \in [Events -> Nat]
  /\ \A t \in tasks : t.users # << >> /\ To(t) \in Users /\ kinds[t.event] # "none"
  /\ left \in 0..MaxOps /\ faults \in 0..MaxFaults

=============================================================================
