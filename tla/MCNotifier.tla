------------------------------ MODULE MCNotifier ------------------------------
(***************************************************************************)
(* Notifier with history variables for what the customer had asked for     *)
(* when an event was emitted and for what came between.                    *)
(***************************************************************************)
EXTENDS Notifier

VARIABLES
  asked,      \* [Events -> the customer's preferences and device at its emission]
  shaken,     \* events whose listeners met a failure or a change of mind
  collided    \* events a listener of which lost the race to create a preferences row

MCVars == <<vars, asked, shaken, collided>>

Effective(row) == IF row = None THEN Defaults ELSE row

MCInit ==
  /\ Init
  /\ asked = [e \in Events |-> None] /\ shaken = {} /\ collided = {}

UnderWay == {t.event : t \in tasks}

ChangedMind ==
  \/ Effective(prefs'["customer"]) # Effective(prefs["customer"])
  \/ device' # device

MCNext ==
  /\ Next
  /\ asked' = [e \in Events |-> IF kinds[e] = "none" /\ kinds'[e] # "none"
                                THEN [row |-> Effective(prefs["customer"]), device |-> device]
                                ELSE asked[e]]
  /\ shaken' = IF faults' < faults \/ ChangedMind THEN shaken \cup UnderWay ELSE shaken
  /\ collided' = collided \cup
       {t.event : t \in {u \in tasks \ tasks' : u.pc = "make" /\ prefs[To(u)] # None}}

MCSpec == MCInit /\ [][MCNext]_MCVars

\* What the listeners of an event send to one user when nothing comes between.
Heard(ls, u) == Cardinality({n \in DOMAIN ls : \E k \in DOMAIN ls[n].users : ls[n].users[k] = u})

Pushes(ls) == Heard(ls, "customer") + Cardinality({n \in DOMAIN ls : ls[n].again})

\* However listeners interleave, every recipient gets one notice per listener, and the
\* customer's device one push per listener and one more of each ride workflow, if the
\* preferences at the time allow them, unless a call failed, the customer changed the
\* preferences or device meanwhile, or two listeners both tried to create the row.
AsAskedUnlessShaken ==
  \A e \in Events \ (shaken \cup collided) :
    kinds[e] # "none" /\ e \notin UnderWay =>
      LET ls == Listeners[kinds[e]]
          wish == asked[e] IN
      /\ \A u \in Users :
           inbox[e][u] = IF u = "customer" /\ ~wish.row.inApp THEN 0 ELSE Heard(ls, u)
      /\ pushed[e] = IF wish.row.push /\ wish.device = "live" THEN Pushes(ls) ELSE 0

=============================================================================
