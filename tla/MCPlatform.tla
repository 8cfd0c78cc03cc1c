----------------------------- MODULE MCPlatform ------------------------------
(***************************************************************************)
(* The services other modules rely on: idempotency keys, scheduled tasks,  *)
(* the in-memory queue, sessions, support tickets, notifications, the      *)
(* message brokers and the search index.  They share no state, so a        *)
(* behaviour is one of theirs; the others' variables stand still.          *)
(***************************************************************************)
EXTENDS Integers, FiniteSets, TLC

CONSTANTS
  Workers, None, Keys, Prints, Capacity, Runners, Schedulers, Concurrency, Priorities,
  MaxWaiting, MaxJobs, Sessions, Challenges, MaxAttempts, Tickets,
  Occurrences, Kinds, MaxTasks, Messages, Loops, MaxRetries, MaxBatch,
  Processes, Entities, Entity1, Texts, Attempts,
  MaxRequests,    \* bound: requests of idempotency keys
  MaxTimers,      \* bound: starts, stops and timers of the scheduler
  MaxCalls,       \* bound: calls of the queue
  MaxSignIns,     \* bound: requests about sessions
  MaxReplies,     \* bound: requests about support tickets
  MaxNotices,     \* bound: events, and changes of what the customer wants to hear
  MaxChanges,     \* bound: changes, reindexes and searches of the catalogue
  MaxFaults,
  MaxCuts         \* bound: faults of the brokers

VARIABLES
  part,  \* which of the models
  op, left, faults,
  store, records, rows, effects, answers, forgotten,
  kind, running, completed, tracked, stray, lock, late, disturbed,
  created, status, waiting, ended, paused, aborted, pass, job, stranded,
  account, sessions, challenges, signup, reset, basis, overtaken, raced,
  tickets, audit, told, mixed, broken,
  kinds, prefs, device, inbox, pushed, listening, asked, shaken, collided,
  driver, ownDead, topic, batch, hand, active, pending, dead, handled, loose, connected,
  consuming, listeners, recovering, published, tries, cut, again,
  catalog, jobs, engine, warm, behind, crossed

OfKeys     == <<store, records, rows, effects, answers, forgotten>>
OfTasks    == <<kind, running, completed, tracked, stray, lock, late, disturbed>>
OfQueue    == <<created, status, waiting, ended, paused, aborted, pass, job, stranded>>
OfSessions == <<account, sessions, challenges, signup, reset, basis, overtaken, raced>>
OfTickets  == <<tickets, audit, told, mixed, broken>>
OfNotices  == <<kinds, prefs, device, inbox, pushed, listening, asked, shaken, collided>>
OfBrokers  == <<driver, ownDead, topic, batch, hand, active, pending, dead, handled, loose,
                connected, consuming, listeners, recovering, published, tries, cut, again>>
OfSearch   == <<catalog, jobs, engine, warm, behind, crossed>>

vars == <<part, op, left, faults, OfKeys, OfTasks, OfQueue, OfSessions, OfTickets, OfNotices,
          OfBrokers, OfSearch>>

K == INSTANCE MCIdempotency WITH MaxOps <- MaxRequests
T == INSTANCE Scheduler WITH Workers <- Runners, MaxOps <- MaxTimers
Q == INSTANCE Queue WITH MaxOps <- MaxCalls
S == INSTANCE MCIdentity WITH MaxOps <- MaxSignIns
C == INSTANCE Support WITH MaxOps <- MaxReplies
N == INSTANCE MCNotifier WITH
       Events <- Occurrences, MaxOps <- MaxNotices, tasks <- listening
B == INSTANCE MCBroker WITH MaxFaults <- MaxCuts
I == INSTANCE MCSearchIndex WITH \* one entity of each kind; the store is on show
       MaxOps <- MaxChanges, EntityKinds <- Entities, KindOf <- [e \in Entities |-> e],
       KindSets <- {Entities, {Entity1}},
       Before <- [e \in Entities |-> IF e = Entity1 THEN "text" ELSE "absent"]

\* None is no id, no record, no state and no job; the catalogue's markers are no texts; every
\* kind of event has listeners; a consumer has finitely many loops; a store has room for a
\* record and a batch for a message; the limits and the bounds are numbers.
ASSUME PlatformConstants ==
  /\ None \notin Keys \cup Tickets \cup Schedulers \cup Sessions \cup Challenges
  /\ None \notin K!Record \cup [token : Runners, live : BOOLEAN]
  /\ None \notin S!Statuses \cup S!Accounts \cup S!SessionRows \cup S!LoginChallenges
                    \cup [password : Nat, challenge : Challenges \cup {None}]
  /\ None \notin Processes \cup I!Jobs \cup Loops \cup Messages
  /\ Entity1 \in Entities /\ "text" \in Texts
  /\ {"absent", "inactive", "deleted", None} \cap Texts = {}
  /\ Kinds \subseteq DOMAIN N!Listeners
  /\ IsFiniteSet(Loops) /\ Loops # {} /\ MaxRetries \in Nat /\ MaxBatch \in Nat \ {0}
  /\ Capacity \in Nat \ {0} /\ MaxAttempts \in Nat /\ Attempts \in Nat \ {0}
  /\ {MaxRequests, MaxTimers, MaxSignIns, MaxReplies, MaxNotices, MaxChanges, MaxFaults, MaxCuts}
       \subseteq Nat

NoKeys ==
  /\ store = None /\ records = None /\ rows = None
  /\ effects = None /\ answers = None /\ forgotten = None
NoTasks ==
  /\ kind = None /\ running = None /\ completed = None /\ tracked = None
  /\ stray = None /\ lock = None /\ late = None /\ disturbed = None
NoQueue ==
  /\ created = None /\ status = None /\ waiting = None /\ ended = None /\ paused = None
  /\ aborted = None /\ pass = None /\ job = None /\ stranded = None
NoSessions ==
  /\ account = None /\ sessions = None /\ challenges = None /\ signup = None
  /\ reset = None /\ basis = None /\ overtaken = None /\ raced = None

NoTickets ==
  tickets = None /\ audit = None /\ told = None /\ mixed = None /\ broken = None
NoNotices ==
  /\ kinds = None /\ prefs = None /\ device = None /\ inbox = None /\ pushed = None
  /\ listening = None /\ asked = None /\ shaken = None /\ collided = None
NoBrokers ==
  /\ driver = None /\ ownDead = None /\ topic = None /\ batch = None /\ hand = None
  /\ active = None /\ pending = None /\ dead = None /\ handled = None /\ loose = None
  /\ connected = None /\ consuming = None /\ listeners = None /\ recovering = None
  /\ published = None /\ tries = None /\ cut = None /\ again = None
NoSearch ==
  /\ catalog = None /\ jobs = None /\ engine = None /\ warm = None
  /\ behind = None /\ crossed = None

\* Every part but one.
But(of) ==
  /\ of # "keys" => NoKeys
  /\ of # "tasks" => NoTasks
  /\ of # "queue" => NoQueue
  /\ of # "sessions" => NoSessions
  /\ of # "tickets" => NoTickets
  /\ of # "notices" => NoNotices
  /\ of # "brokers" => NoBrokers
  /\ of # "search" => NoSearch

Init ==
  \/ part = "keys" /\ K!MCInit /\ But("keys")
  \/ part = "tasks" /\ T!MCInit /\ But("tasks")
  \/ part = "queue" /\ Q!MCInit /\ But("queue") /\ op = None /\ faults = None
  \/ part = "sessions" /\ S!MCInit /\ But("sessions")
  \/ part = "tickets" /\ C!MCInit /\ But("tickets")
  \/ part = "notices" /\ N!MCInit /\ But("notices") /\ op = None
  \/ part = "brokers" /\ B!MCInit /\ But("brokers") /\ op = None /\ left = None
  \/ part = "search" /\ I!MCInit /\ But("search")

Next ==
  /\ UNCHANGED part
  /\ part # "keys" => UNCHANGED OfKeys
  /\ part # "tasks" => UNCHANGED OfTasks
  /\ part # "queue" => UNCHANGED OfQueue
  /\ part # "sessions" => UNCHANGED OfSessions
  /\ part # "tickets" => UNCHANGED OfTickets
  /\ part # "notices" => UNCHANGED OfNotices
  /\ part # "brokers" => UNCHANGED OfBrokers
  /\ part # "search" => UNCHANGED OfSearch
  /\ \/ part = "keys" /\ K!MCNext
     \/ part = "tasks" /\ T!MCNext
     \/ part = "queue" /\ Q!MCNext /\ UNCHANGED <<op, faults>>
     \/ part = "sessions" /\ S!MCNext
     \/ part = "tickets" /\ C!MCNext
     \/ part = "notices" /\ N!MCNext /\ UNCHANGED op
     \/ part = "brokers" /\ B!MCNext /\ UNCHANGED <<op, left>>
     \/ part = "search" /\ I!MCNext

Spec == Init /\ [][Next]_vars

\* The state of each service has its shape.
TypeOK ==
  CASE part = "keys" -> K!TypeOK
    [] part = "tasks" -> T!TypeOK
    [] part = "queue" -> Q!TypeOK
    [] part = "sessions" -> S!TypeOK
    [] part = "tickets" -> C!TypeOK
    [] part = "notices" -> N!TypeOK
    [] part = "brokers" -> B!TypeOK
    [] part = "search" -> I!TypeOK

\* A key's operation takes effect once and only answers the request it was made for,
\* unless the record of the key was forgotten (see MCIdempotency).
IdempotentUnlessForgotten ==
  part = "keys" => K!OnceUnlessForgotten /\ K!ReplayedUnlessForgotten

\* A task runs alone, across instances, as long as no renewal is late, and a running
\* scheduler keeps exactly one chain of runs (see Scheduler).
OneRunUnlessDisturbed ==
  part = "tasks" => T!AloneUnlessLate /\ T!OneChainUnlessDisturbed

\* Every job is in exactly the places its status says, no undisturbed pass leaves one
\* behind, and jobs start in order of priority and age, through pauses, failures,
\* removals and eviction (see Queue).
JobsKeptInOrder ==
  /\ [](part = "queue" => Q!PlacesAgree /\ Q!PassDrains)
  /\ [][part = "queue" => Q!TakenInOrder]_vars

\* Suspending, deleting or re-keying an account signs it out everywhere, unless it
\* overtakes the request that issues a session; a login challenge yields one session, and
\* a session's refresh tokens follow one another without a gap unless two refreshes
\* overlap (see MCIdentity).
SessionsUnlessOvertaken ==
  part = "sessions" =>
    S!SignedOutUnlessOvertaken /\ S!OneSessionPerChallenge /\ S!HandedOutUnlessRaced

\* A ticket's row, audit trail and announcements agree, unless requests overlap on it
\* or die (see Support).
TrailUnlessMixed == part = "tickets" => C!TrailUnlessMixed

\* Every recipient of an event gets what its listeners send and the preferences allow,
\* unless something came between (see MCNotifier).
AsAskedUnlessShaken == part = "notices" => N!AsAskedUnlessShaken

\* No message is lost, given up too early or handled twice but by a fault, and a
\* connected Redis subscription has exactly one loop (see MCBroker).
DeliveredUnlessCut == part = "brokers" => B!DeliveredUnlessCut /\ B!OneLoop

\* A warm process finds what the catalogue shows, unless the index of that process is
\* known to have fallen behind (see MCSearchIndex).
IndexFollowsUnlessBehind == part = "search" => I!IndexFollowsUnlessBehind

\* The keys, tickets, sessions, events, messages and processes are the same two values.
Symmetry == Permutations(Workers) \cup Permutations(Keys)

=============================================================================
