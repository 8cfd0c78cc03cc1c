-------------------------------- MODULE Broker --------------------------------
(***************************************************************************)
(* BaseBrokerAdapter over the drivers of Redis Streams, RabbitMQ and core  *)
(* NATS, for one topic with one subscription: deliveries, acknowledgement, *)
(* retries, the dead-letter topic, handlers that time out, disconnection   *)
(* and recovery.  What a broker keeps of an unacknowledged message is      *)
(* external: Redis holds it pending for its reader, RabbitMQ delivers it   *)
(* again, NATS forgets it.  The Kafka driver, whose client library retries *)
(* by itself, and a graceful shutdown are left out.                        *)
(***************************************************************************)
EXTENDS Integers, Sequences, FiniteSets, SequencesExt

CONSTANTS
  Messages,
  Loops,        \* poll loops of the Redis driver, deliveries in flight of the others
  None,
  MaxRetries,
  MaxBatch,     \* bound: entries read at once (10 in the code)
  MaxFaults     \* bound: failed calls, timeouts, disconnections, crashes

VARIABLES
  driver,      \* "redis", "rabbitmq" or "nats"
  ownDead,     \* deadLetterTopic is configured, for the adapter and the driver alike
  topic,       \* entries not delivered yet: <<[m, n]>>, n the attempt
  batch,       \* [Loops -> entries a loop has read and not handled]
  hand,        \* [Loops -> [pc, entry]]
  active,      \* loops whose subscription has not been ended
  pending,     \* entries Redis holds for a reader that has forgotten them
  dead,        \* [Messages -> entries in the dead-letter topic]
  handled,     \* [Messages -> handlers that ran to their end]
  loose,     \* [Messages -> handlers given up on by the timeout and still running]
  connected,
  consuming,   \* RabbitMQ, NATS: the connection in use has a consumer for the topic
  listeners,   \* recover callbacks registered with the driver
  recovering,  \* recoveries that wait for driver.connect
  published, faults

vars == <<driver, ownDead, topic, batch, hand, active, pending, dead, handled, loose,
          connected, consuming, listeners, recovering, published, faults>>

Nothing == [m |-> None, n |-> 0]

Off == [pc |-> "off", entry |-> Nothing]

Polling == [pc |-> "poll", entry |-> Nothing]

First == CHOOSE l \in Loops : TRUE

\* The start, and a restart: one subscription on one connection.
Subscribed(d) ==
  /\ hand' = [l \in Loops |-> IF d = "redis" /\ l = First THEN Polling ELSE Off]
  /\ active' = IF d = "redis" THEN {First} ELSE {}
  /\ batch' = [l \in Loops |-> << >>] /\ loose' = [m \in Messages |-> 0]
  /\ connected' = TRUE /\ consuming' = TRUE /\ listeners' = 1 /\ recovering' = 0

Init ==
  /\ driver \in {"redis", "rabbitmq", "nats"} /\ ownDead \in BOOLEAN
  /\ topic = << >> /\ pending = {}
  /\ hand = [l \in Loops |-> IF driver = "redis" /\ l = First THEN Polling ELSE Off]
  /\ active = IF driver = "redis" THEN {First} ELSE {}
  /\ batch = [l \in Loops |-> << >>] /\ loose = [m \in Messages |-> 0]
  /\ dead = [m \in Messages |-> 0] /\ handled = [m \in Messages |-> 0]
  /\ connected = TRUE /\ consuming = TRUE /\ listeners = 1 /\ recovering = 0
  /\ published = {} /\ faults = MaxFaults

Redis == driver = "redis"

At(l, pc) == hand[l].pc = pc

Goto(l, pc) == hand' = [hand EXCEPT ![l].pc = pc]

Fault == faults > 0 /\ faults' = faults - 1

Connection == <<connected, consuming, listeners, recovering>>

Config == <<driver, ownDead, published>>

-----------------------------------------------------------------------------
\* NATS drops what nobody is subscribed to.
Sent(m, n) ==
  IF driver = "nats" /\ ~consuming THEN topic ELSE Append(topic, [m |-> m, n |-> n])

Publish(m) ==
  /\ m \notin published /\ published' = published \cup {m}
  /\ Redis \/ connected
  /\ topic' = Sent(m, 0)
  /\ UNCHANGED <<driver, ownDead, batch, hand, active, pending, dead, handled, loose,
                 Connection, faults>>

\* xreadgroup: the loop takes a batch, and Redis notes it as pending.
Poll(l) ==
  /\ Redis /\ At(l, "poll") /\ topic # << >>
  /\ LET k == IF Len(topic) < MaxBatch THEN Len(topic) ELSE MaxBatch IN
     /\ batch' = [batch EXCEPT ![l] = SubSeq(topic, 2, k)]
     /\ topic' = SubSeq(topic, k + 1, Len(topic))
  /\ hand' = [hand EXCEPT ![l] = [pc |-> "handle", entry |-> Head(topic)]]
  /\ UNCHANGED <<Config, active, pending, dead, handled, loose, Connection, faults>>

\* An ended subscription leaves its loop when the read in progress comes back.
Retire(l) ==
  /\ Redis /\ At(l, "poll") /\ l \notin active
  /\ hand' = [hand EXCEPT ![l] = Off]
  /\ UNCHANGED <<Config, topic, batch, active, pending, dead, handled, loose,
                 Connection, faults>>

Deliver(l) ==
  /\ ~Redis /\ consuming /\ At(l, "off") /\ topic # << >>
  /\ hand' = [hand EXCEPT ![l] = [pc |-> "handle", entry |-> Head(topic)]]
  /\ topic' = Tail(topic)
  /\ UNCHANGED <<Config, batch, active, pending, dead, handled, loose, Connection, faults>>

\* The loop goes on with its batch, then polls; the other drivers' deliveries end.
Proceed(l) ==
  IF batch[l] # << >>
  THEN /\ hand' = [hand EXCEPT ![l] = [pc |-> "handle", entry |-> Head(batch[l])]]
       /\ batch' = [batch EXCEPT ![l] = Tail(@)]
  ELSE /\ hand' = [hand EXCEPT ![l] = IF Redis /\ l \in active THEN Polling ELSE Off]
       /\ UNCHANGED batch

-----------------------------------------------------------------------------
\* runHandler: it ends, throws, or is overtaken by the timeout, which does not stop it.

HandlerEnds(l) ==
  /\ At(l, "handle") /\ Goto(l, "ack")
  /\ handled' = [handled EXCEPT ![hand[l].entry.m] = @ + 1]
  /\ UNCHANGED <<Config, topic, batch, active, pending, dead, loose, Connection, faults>>

HandlerThrows(l) ==
  /\ At(l, "handle") /\ Goto(l, "nack")
  /\ UNCHANGED <<Config, topic, batch, active, pending, dead, handled, loose,
                 Connection, faults>>

HandlerTimesOut(l) ==
  /\ At(l, "handle") /\ Goto(l, "nack") /\ Fault
  /\ loose' = [loose EXCEPT ![hand[l].entry.m] = @ + 1]
  /\ UNCHANGED <<Config, topic, batch, active, pending, dead, handled, Connection>>

LateHandlerEnds(m) ==
  /\ loose[m] > 0
  /\ loose' = [loose EXCEPT ![m] = @ - 1]
  /\ handled' = [handled EXCEPT ![m] = @ + 1]
  /\ UNCHANGED <<Config, topic, batch, hand, active, pending, dead, Connection, faults>>

\* A failing ack leads to a nack that finds the message settled: Redis keeps the entry.
Ack(l) ==
  /\ At(l, "ack")
  /\ \/ UNCHANGED <<pending, faults>>
     \/ Redis /\ Fault /\ pending' = pending \cup {hand[l].entry}
  /\ Proceed(l)
  /\ UNCHANGED <<Config, topic, active, dead, handled, loose, Connection>>

\* reject settles the delivery before it publishes the next attempt.  The Redis driver's
\* nack(false) dead-letters it as well if it knows a dead-letter topic.
Nack(l) ==
  /\ At(l, "nack") /\ Goto(l, "republish")
  /\ dead' = IF Redis /\ ownDead THEN [dead EXCEPT ![hand[l].entry.m] = @ + 1] ELSE dead
  /\ UNCHANGED <<Config, topic, batch, active, pending, handled, loose, Connection, faults>>

\* Mutation: an attempt too few.
RetriedLess(n) == n + 1 < MaxRetries

Retried(n) == n + 1 <= MaxRetries

\* Without a connection the publication fails, and the settled entry is gone.
Republish(l) ==
  LET e == hand[l].entry IN
  /\ At(l, "republish")
  /\ IF ~Redis /\ ~connected THEN UNCHANGED <<topic, dead>>
     ELSE IF Retried(e.n)
     THEN topic' = Sent(e.m, e.n + 1) /\ UNCHANGED dead
     ELSE dead' = [dead EXCEPT ![e.m] = @ + 1] /\ UNCHANGED topic
  /\ Proceed(l)
  /\ UNCHANGED <<Config, active, pending, handled, loose, Connection, faults>>

\* A nack or a republication fails.  The loop of the Redis driver ends, with the rest of
\* its batch pending, and takes it for a disconnection; the others only lose the entry.
SettlementFails(l) ==
  /\ hand[l].pc \in {"nack", "republish"} /\ Fault
  /\ IF Redis
     THEN /\ \E acked \in {At(l, "republish"), At(l, "republish") \/ ownDead} :
               pending' = pending \cup ToSet(batch[l])
                            \cup (IF acked THEN {} ELSE {hand[l].entry})
          /\ batch' = [batch EXCEPT ![l] = << >>]
          /\ hand' = [hand EXCEPT ![l] = Off]
          /\ recovering' = recovering + listeners /\ connected' = FALSE
     ELSE /\ At(l, "republish") /\ Proceed(l)
          /\ UNCHANGED <<pending, recovering, connected>>
  /\ UNCHANGED <<Config, topic, active, dead, handled, loose, consuming, listeners>>

-----------------------------------------------------------------------------
\* What RabbitMQ delivers again, ahead of the rest and in some order: deliveries that were
\* not settled.
Unsettled == {l \in Loops : hand[l].pc \in {"handle", "ack", "nack"}}

Requeued ==
  {[k \in DOMAIN order |-> hand[order[k]].entry] \o topic : order \in SetToSeqs(Unsettled)}

\* Handlers that are running when their delivery is taken back run on.
StillRunning(m) ==
  loose[m] + Cardinality({l \in Loops : At(l, "handle") /\ hand[l].entry.m = m})

\* The connection closes.  A Redis loop meets it when it reads; RabbitMQ takes back what
\* was not acknowledged; NATS has delivered what it had, or lost it.
Disconnect(l) ==
  /\ Fault
  /\ CASE Redis ->
            /\ At(l, "poll") /\ hand' = [hand EXCEPT ![l] = Off]
            /\ UNCHANGED <<topic, consuming, loose>>
       [] driver = "rabbitmq" ->
            /\ consuming /\ consuming' = FALSE /\ l = First
            /\ topic' \in Requeued
            /\ loose' = [m \in Messages |-> StillRunning(m)]
            /\ hand' = [k \in Loops |-> IF At(k, "republish") THEN hand[k] ELSE Off]
       [] OTHER ->
            /\ consuming /\ consuming' = FALSE /\ l = First
            /\ topic' = << >> /\ UNCHANGED <<hand, loose>>
  /\ connected' = FALSE /\ recovering' = recovering + listeners
  /\ UNCHANGED <<Config, batch, active, pending, dead, handled, listeners>>

\* Every registered callback recovers: it connects, which registers one more, and ends
\* the subscription's loop for a new one.  The other drivers find their consumer still
\* noted and do not consume on the new connection.
Recover(l) ==
  /\ recovering > 0 /\ recovering' = recovering - 1
  /\ connected' = TRUE /\ listeners' = listeners + 1
  /\ IF Redis
     THEN At(l, "off") /\ hand' = [hand EXCEPT ![l] = Polling] /\ active' = {l}
     ELSE l = First /\ UNCHANGED <<hand, active>>
  /\ UNCHANGED <<Config, topic, batch, pending, dead, handled, loose, consuming, faults>>

RecoveryFails ==
  /\ recovering > 0 /\ recovering' = recovering - 1 /\ Fault
  /\ UNCHANGED <<Config, topic, batch, hand, active, pending, dead, handled, loose,
                 connected, consuming, listeners>>

\* The process dies with everything it holds, and another takes its place.
Held == {hand[l].entry : l \in Unsettled}

Crash ==
  /\ Fault /\ Subscribed(driver)
  /\ topic' \in IF driver = "rabbitmq" THEN Requeued ELSE {topic}
  /\ pending' = IF Redis THEN pending \cup Held \cup UNION {ToSet(batch[l]) : l \in Loops}
                ELSE pending
  /\ UNCHANGED <<Config, dead, handled>>

Next ==
  \/ \E m \in Messages : Publish(m) \/ LateHandlerEnds(m)
  \/ \E l \in Loops :
       \/ Poll(l) \/ Retire(l) \/ Deliver(l)
       \/ HandlerEnds(l) \/ HandlerThrows(l) \/ HandlerTimesOut(l)
       \/ Ack(l) \/ Nack(l) \/ Republish(l) \/ SettlementFails(l)
       \/ Disconnect(l) \/ Recover(l)
  \/ RecoveryFails \/ Crash

Spec == Init /\ [][Next]_vars

-----------------------------------------------------------------------------
Entry == [m : Messages, n : 0..MaxRetries]

\* The entries, wherever they are, and the loops have their shapes.
TypeOK ==
  /\ driver \in {"redis", "rabbitmq", "nats"} /\ ownDead \in BOOLEAN
  /\ topic \in Seq(Entry) /\ batch \in [Loops -> Seq(Entry)] /\ pending \subseteq Entry
  /\ \A l \in Loops : hand[l] \in {Off, Polling} \/ hand[l].entry \in Entry
  /\ active \subseteq Loops
  /\ dead \in [Messages -> Nat] /\ handled \in [Messages -> Nat]
  /\ loose \in [Messages -> Nat]
  /\ connected \in BOOLEAN /\ consuming \in BOOLEAN
  /\ listeners \in Nat /\ recovering \in Nat
  /\ published \subseteq Messages /\ faults \in 0..MaxFaults

=============================================================================
