------------------------------- MODULE MCBroker -------------------------------
(***************************************************************************)
(* Broker with history variables for what faults did to the messages.      *)
(***************************************************************************)
EXTENDS Broker

VARIABLES
  tries,   \* [Messages -> handlers that threw or timed out]
  cut,     \* messages a fault may have taken
  again    \* messages a handler may still be working on, or that were taken back

MCVars == <<vars, tries, cut, again>>

MCInit ==
  /\ Init
  /\ tries = [m \in Messages |-> 0] /\ cut = {} /\ again = {}

Working(l) == hand[l].pc \in {"handle", "ack", "nack", "republish"}

Batched(l) == {e.m : e \in ToSet(batch[l])}

InHand(pcs) == {hand[l].entry.m : l \in {k \in Loops : hand[k].pc \in pcs}}

\* What the loops a step takes hold of have read; what is between its settlement and its
\* republication; everything.
Touched ==
  UNION {Batched(l) \cup (IF Working(l) THEN {hand[l].entry.m} ELSE {}) :
           l \in {k \in Loops : hand'[k] # hand[k]}}

Failing(l) == At(l, "handle") /\ hand'[l].pc = "nack"

AtRisk ==
  CASE Redis                 -> Touched
    [] driver = "rabbitmq"   -> InHand({"republish"})
    [] OTHER                 -> published

MCNext ==
  /\ Next
  /\ tries' = [m \in Messages |->
                 tries[m] + Cardinality({l \in Loops : Failing(l) /\ hand[l].entry.m = m})]
  /\ cut' = cut
       \cup (IF faults' < faults /\ ~\E l \in Loops : Failing(l) THEN AtRisk ELSE {})
       \cup (IF driver = "nats" /\ ~consuming' THEN published' ELSE {})
  /\ again' = again
       \cup {m \in Messages : loose'[m] > loose[m]}
       \cup (IF faults' < faults /\ driver = "rabbitmq"
             THEN InHand({"handle", "ack", "nack"}) ELSE {})

MCSpec == MCInit /\ [][MCNext]_MCVars

Waits(m) ==
  \/ \E k \in DOMAIN topic : topic[k].m = m
  \/ \E l \in Loops : m \in Batched(l) \/ (Working(l) /\ hand[l].entry.m = m)

\* Through retries, timeouts and reconnections no published message is lost that no fault
\* took, one is given up only after all its retries, and its handler takes effect once
\* unless it was timed out or its delivery taken back.
DeliveredUnlessCut ==
  \A m \in published :
    /\ m \notin cut => Waits(m) \/ handled[m] > 0 \/ dead[m] > 0
    /\ ~ownDead /\ dead[m] > 0 => tries[m] > MaxRetries
    /\ m \notin again => handled[m] <= 1

\* A connected Redis subscription that waits for no recovery has exactly one loop that
\* goes on, however many recoveries one disconnection has set off.
OneLoop ==
  Redis /\ connected /\ recovering = 0 =>
    \E l \in Loops : active = {l} /\ ~At(l, "off")

=============================================================================
