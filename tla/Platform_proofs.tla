---------------------------- MODULE Platform_proofs ----------------------------
(***************************************************************************)
(* The services other modules rely on, for every set of requests, keys,    *)
(* runs, sessions, tickets, recipients, messages, loops and processes.     *)
(* They share no state and a behaviour is one of theirs, so each has an    *)
(* inductive invariant of its own: KeyInv, TaskInv, SessionInv, TicketInv, *)
(* NoticeInv, BrokerInv, SearchInv.  The in-memory queue stays with TLC.   *)
(***************************************************************************)
EXTENDS MCPlatform, Sequences, Functions, FiniteSetTheorems, SequenceTheorems,
        WellFoundedInduction, TLAPS

-----------------------------------------------------------------------------
\* Idempotency keys.

KeyRequest ==
  [pc : {"idle", "reserve", "look", "reserve_write", "run", "complete", "complete_write",
         "release", "delete", "wait"},
   key : Keys \cup {None}, print : Prints \cup {None}, seen : Nat]

\* Steps only the store with a database takes.
OfTheTable == {"look", "reserve_write", "complete_write", "delete"}

\* A request that has reserved its key.
Holds(self, k) ==
  self.key = k /\ self.pc \in {"run", "complete", "complete_write", "release", "delete"}

\* Its operation has taken effect.
Finished(self, k) == self.key = k /\ self.pc \in {"complete", "complete_write"}

\* What the record of a key that was not forgotten says of its effects and its owner.
Told(k, times, r, requests) ==
  /\ r.live
  /\ r.state = "completed" => times = 1 /\ r.response = r.print
  /\ r.state = "in_progress" => times = IF Finished(requests[r.owner], k) THEN 1 ELSE 0

Owned(self, w, r) ==
  /\ r # None /\ r.owner = w /\ r.state = "in_progress" /\ r.print = self.print
  /\ self.pc \in {"complete_write", "delete"} => self.seen = r.row

KeyKept(k) ==
  /\ IF records[k] = None THEN effects[k] = 0 ELSE Told(k, effects[k], records[k], op)
  /\ \A w \in Workers :
       /\ Holds(op[w], k) => Owned(op[w], w, records[k])
       /\ op[w].key = k /\ op[w].pc \in {"look", "reserve_write"} /\ records[k] # None
            => records[k].owner # w

InStore == {k \in Keys : records[k] # None}

KeyInv ==
  /\ K!TypeOK /\ rows \in Nat
  /\ op \in [Workers -> KeyRequest]
  /\ \A w \in Workers :
       /\ op[w].pc # "idle" => op[w].key \in Keys /\ op[w].print \in Prints
       /\ op[w].pc = "complete_write" => op[w].seen > 0
  /\ store = "memory" => IsFiniteSet(InStore) /\ \A w \in Workers : op[w].pc \notin OfTheTable
  /\ \A k \in Keys \ forgotten : KeyKept(k)
  /\ K!ReplayedUnlessForgotten


LEMMA KeyCount ==
  ASSUME NEW ks
  PROVE  K!Cardinality(ks) = Cardinality(ks)
  BY Zenon DEF Cardinality, K!Cardinality

LEMMA KeysImplied ==
  ASSUME KeyInv
  PROVE  K!TypeOK /\ K!OnceUnlessForgotten /\ K!ReplayedUnlessForgotten
BY DEF KeyInv, K!TypeOK, KeyKept, K!Record, Told, K!OnceUnlessForgotten

LEMMA KeysStutter ==
  ASSUME KeyInv, UNCHANGED vars
  PROVE  KeyInv'
<1>1. UNCHANGED <<store, records, rows, effects, answers, forgotten, op, left, faults>>
  BY DEF vars, OfKeys
<1>2. K!TypeOK'
  BY <1>1 DEF KeyInv, K!TypeOK
<1>3. \A k \in Keys : KeyKept(k) => KeyKept(k)'
  BY <1>1 DEF KeyKept, Told
<1>4. (store' = "memory" => IsFiniteSet(InStore')) /\ K!ReplayedUnlessForgotten'
  BY <1>1 DEF InStore, KeyInv, K!ReplayedUnlessForgotten
<1> QED
  BY <1>1, <1>2, <1>3, <1>4 DEF KeyInv

\* A key whose record goes, though no request that released it went on, is forgotten.
LEMMA KeyLost ==
  ASSUME K!MCNext, NEW k \in Keys, records[k] # None, records'[k] = None,
         \A v \in Workers : op[v].key = k /\ op[v].pc \in {"release", "delete"} => op'[v] = op[v]
  PROVE  k \in forgotten'
BY DEF K!Dropped, K!MCNext

LEMMA ForgottenGrows ==
  ASSUME K!MCNext
  PROVE  forgotten \subseteq forgotten'
  BY DEF K!MCNext

\* A key nobody at work on it moves on keeps what it says.
LEMMA KeyElsewhere ==
  ASSUME KeyInv, NEW k \in Keys, KeyKept(k),
         op' \in [Workers -> KeyRequest],
         records'[k] = records[k], effects'[k] = effects[k],
         \A v \in Workers : op[v].key = k \/ op'[v].key = k => op'[v] = op[v]
  PROVE  KeyKept(k)'
<1>1. \A v \in Workers : op'[v].key = k => op'[v] = op[v]
  OBVIOUS
<1>2. \A v \in Workers : Finished(op'[v], k) <=> Finished(op[v], k)
  BY DEF Finished
<1>3. records[k] # None => records[k].owner \in Workers
  BY DEF KeyInv, K!TypeOK, K!Record
<1>4. records[k] # None => Told(k, effects'[k], records'[k], op')
  BY <1>2, <1>3 DEF KeyKept, Told
<1>5. \A v \in Workers : Holds(op'[v], k) => Owned(op'[v], v, records[k])
  BY <1>1 DEF KeyKept, Holds
<1> QED
  BY <1>1, <1>4, <1>5 DEF KeyKept

\* A request that neither had reserved its key nor does so leaves what is said of it.
LEMMA KeyPasses ==
  ASSUME KeyInv, NEW w \in Workers, NEW k \in Keys, KeyKept(k), NEW self \in KeyRequest,
         op' = [op EXCEPT ![w] = self], records'[k] = records[k], effects'[k] = effects[k],
         ~Holds(op[w], k), ~Holds(self, k),
         self.key = k /\ self.pc \in {"look", "reserve_write"} =>
           records[k] = None \/ (op[w].key = k /\ op[w].pc \in {"look", "reserve_write"})
  PROVE  KeyKept(k)'
<1>1. op'[w] = self /\ \A v \in Workers \ {w} : op'[v] = op[v]
  BY DEF KeyInv
<1>2. \A v \in Workers : Finished(op'[v], k) <=> Finished(op[v], k)
  BY <1>1 DEF Finished, Holds
<1>3. records[k] # None => records[k].owner \in Workers
  BY DEF KeyInv, K!TypeOK, K!Record
<1>4. records[k] # None => Told(k, effects'[k], records'[k], op')
  BY <1>2, <1>3 DEF KeyKept, Told
<1>5. \A v \in Workers : Holds(op'[v], k) => Owned(op'[v], v, records[k])
  BY <1>1 DEF KeyKept
<1>6. \A v \in Workers : op'[v].key = k /\ op'[v].pc \in {"look", "reserve_write"} /\ records[k] # None
                           => records[k].owner # v
  BY <1>1 DEF KeyKept
<1> QED
  BY <1>4, <1>5, <1>6 DEF KeyKept

\* A request alone with its key does what it likes with the record.
LEMMA KeyAlone ==
  ASSUME KeyInv, NEW w \in Workers, NEW k \in Keys, KeyKept(k), NEW self \in KeyRequest,
         op' = [op EXCEPT ![w] = self],
         Holds(op[w], k) \/ records[k] = None,
         records'[k] = None => effects'[k] = 0,
         records'[k] # None =>
           /\ records'[k].owner = w /\ records'[k].live
           /\ records'[k].state = "completed" =>
                effects'[k] = 1 /\ records'[k].response = records'[k].print
           /\ records'[k].state = "in_progress" => effects'[k] = IF Finished(self, k) THEN 1 ELSE 0,
         Holds(self, k) => Owned(self, w, records'[k]),
         self.pc \notin {"look", "reserve_write"}
  PROVE  KeyKept(k)'
<1>1. op'[w] = self /\ \A v \in Workers \ {w} : op'[v] = op[v]
  BY DEF KeyInv
<1>2. \A v \in Workers \ {w} : ~Holds(op[v], k)
  BY DEF KeyKept, Owned
<1>3. records'[k] # None => Told(k, effects'[k], records'[k], op')
  BY <1>1 DEF Told
<1>4. \A v \in Workers : Holds(op'[v], k) => Owned(op'[v], v, records'[k])
  BY <1>1, <1>2
<1>5. \A v \in Workers : op'[v].key = k /\ op'[v].pc \in {"look", "reserve_write"} /\ records'[k] # None
                           => records'[k].owner # v
  BY <1>1
<1> QED
  BY <1>3, <1>4, <1>5 DEF KeyKept

\* A request's step: its own key is in order, and the records of others may only go.
LEMMA KeyStep ==
  ASSUME KeyInv, K!MCNext, NEW w \in Workers, NEW k \in Keys, NEW self \in KeyRequest,
         op' = [op EXCEPT ![w] = self], op[w].key \in {k, None}, self.key \in {k, None},
         self.pc # "idle" => self.key \in Keys /\ self.print \in Prints,
         self.pc = "complete_write" => self.seen > 0,
         store' = store, rows' \in Nat, left' \in 0..MaxRequests, faults' \in 0..MaxFaults,
         records' \in [Keys -> K!Record \cup {None}], effects' \in [Keys -> Nat],
         \A q \in Keys \ {k} : effects'[q] = effects[q] /\ records'[q] \in {records[q], None},
         store = "memory" =>
           /\ IsFiniteSet(InStore') /\ Cardinality(InStore') <= Capacity
           /\ self.pc \notin OfTheTable,
         answers' \subseteq Keys \X Prints \X (Prints \cup {None}),
         \A a \in answers' \ answers : a[1] \in forgotten' \/ a[2] = a[3],
         k \notin forgotten' => KeyKept(k)'
  PROVE  KeyInv'
<1>1. /\ op \in [Workers -> KeyRequest]
      /\ op' \in [Workers -> KeyRequest] /\ op'[w] = self
      /\ \A v \in Workers \ {w} : op'[v] = op[v]
  BY DEF KeyInv
<1>2. K!TypeOK'
  BY <1>1, KeyCount DEF KeyRequest, InStore, KeyInv, K!TypeOK
<1>3. \A v \in Workers :
        /\ op'[v].pc # "idle" => op'[v].key \in Keys /\ op'[v].print \in Prints
        /\ op'[v].pc = "complete_write" => op'[v].seen > 0
  BY <1>1 DEF KeyInv
<1>4. store' = "memory" => IsFiniteSet(InStore') /\ \A v \in Workers : op'[v].pc \notin OfTheTable
  BY <1>1 DEF KeyInv
<1>5. K!ReplayedUnlessForgotten'
  BY ForgottenGrows DEF KeyInv, K!ReplayedUnlessForgotten
<1>6. ASSUME NEW q \in Keys \ forgotten', q # k
      PROVE  KeyKept(q)'
  BY ForgottenGrows, <1>6, PlatformConstants, <1>1, KeyLost, KeyElsewhere DEF KeyInv
<1> QED
  BY <1>1, <1>2, <1>3, <1>4, <1>5, <1>6 DEF KeyInv

\* A request that has been received, its key and what the store has under it.
LEMMA KeyOf ==
  ASSUME KeyInv, NEW w \in Workers, op[w].pc # "idle"
  PROVE  /\ op[w] \in KeyRequest /\ op[w].key \in Keys /\ op[w].print \in Prints
         /\ op[w].key # None
         /\ records[op[w].key] \in K!Record \cup {None}
         /\ K!Idle \in KeyRequest /\ K!Idle.pc = "idle" /\ K!Idle.key = None
  BY PlatformConstants DEF KeyInv, K!TypeOK, KeyRequest, K!Idle

\* A request that looks at the store, or whose look drops what has expired.
LEMMA KeyLooks ==
  ASSUME KeyInv, K!MCNext, NEW w \in Workers, op[w].pc # "idle", NEW k \in Keys, op[w].key = k,
         NEW self \in KeyRequest,
         op' = [op EXCEPT ![w] = self], self.key \in {k, None},
         self.pc # "idle" => self.key = k /\ self.print = op[w].print,
         self.pc # "complete_write",
         store = "memory" => self.pc \notin OfTheTable,
         UNCHANGED <<store, rows, effects, left>>, faults' \in 0..MaxFaults,
         records' \in [Keys -> K!Record \cup {None}],
         \A q \in Keys : records'[q] \in {records[q], None},
         answers' \subseteq Keys \X Prints \X (Prints \cup {None}),
         \A a \in answers' \ answers : a[1] \in forgotten' \/ a[2] = a[3],
         k \notin forgotten' => KeyKept(k)'
  PROVE  KeyInv'
<1>1. /\ rows' \in Nat /\ left' \in 0..MaxRequests /\ effects' \in [Keys -> Nat]
      /\ \A q \in Keys : effects'[q] = effects[q]
  BY DEF KeyInv, K!TypeOK
<1>2. op[w].key \in Keys /\ op[w].print \in Prints
  BY KeyOf
<1>3. store = "memory" => IsFiniteSet(InStore') /\ Cardinality(InStore') <= Capacity
  <2> SUFFICES ASSUME store = "memory" PROVE IsFiniteSet(InStore') /\ Cardinality(InStore') <= Capacity
    OBVIOUS
  <2>1. InStore' \subseteq InStore
    BY DEF InStore
  <2>2. IsFiniteSet(InStore) /\ Cardinality(InStore) <= Capacity
    BY KeyCount DEF KeyInv, K!TypeOK, InStore
  <2>3. IsFiniteSet(InStore') /\ Cardinality(InStore') <= Cardinality(InStore)
    BY <2>1, <2>2, FS_Subset
  <2>4. Cardinality(InStore) \in Nat /\ Cardinality(InStore') \in Nat
    BY <2>2, <2>3, FS_CardinalityType
  <2> QED
    BY <2>2, <2>3, <2>4, PlatformConstants
<1>4. self.pc # "idle" => self.key \in Keys /\ self.print \in Prints
  BY <1>2
<1> QED
  BY <1>1, <1>3, <1>4, KeyStep

\* A request finds a record of its key in force.
LEMMA KeyFound ==
  ASSUME KeyInv, K!MCNext, NEW w \in Workers, op[w].pc = "reserve", NEW k \in Keys,
         op[w].key = k, K!Active(k), K!OnExisting(w, records[k]),
         UNCHANGED <<store, rows, effects, left, faults>>,
         records' \in [Keys -> K!Record \cup {None}],
         \A q \in Keys : records'[q] \in {records[q], None},
         records'[k] = records[k]
  PROVE  KeyInv'
<1> DEFINE r == records[k]
<1>1. /\ op[w] \in KeyRequest /\ k \in Keys /\ op[w].print \in Prints /\ r \in K!Record
      /\ K!Idle \in KeyRequest /\ K!Idle.pc = "idle" /\ K!Idle.key = None /\ k # None
  BY KeyOf DEF K!Active
<1>2. faults' \in 0..MaxFaults /\ answers \subseteq Keys \X Prints \X (Prints \cup {None})
      /\ effects'[k] = effects[k]
  BY DEF KeyInv, K!TypeOK
<1>3. k \notin forgotten' => k \notin forgotten /\ KeyKept(k)
  BY ForgottenGrows, <1>1 DEF KeyInv
<1>4. ~Holds(op[w], k)
  BY DEF Holds
<1>5. PICK self \in KeyRequest :
        /\ op' = [op EXCEPT ![w] = self] /\ self.key \in {k, None} /\ self.pc \in {"idle", "wait"}
        /\ self.pc # "idle" => self.key = k /\ self.print = op[w].print
  <2>1. CASE K!Done(w)
    BY <1>1, <2>1 DEF K!Done, K!Become
  <2>2. CASE K!Goto(w, "wait")
    <3> DEFINE self == [op[w] EXCEPT !.pc = "wait"]
    <3>1. self \in KeyRequest /\ self.pc = "wait" /\ self.key = k /\ self.print = op[w].print
      BY <1>1 DEF KeyRequest
    <3>2. op' = [op EXCEPT ![w] = self]
      BY <2>2 DEF K!Goto, K!Become
    <3> HIDE DEF self
    <3> QED
      BY <3>1, <3>2
  <2> QED
    BY <2>1, <2>2 DEF K!OnExisting
<1>6. ~Holds(self, k) /\ self.pc \notin OfTheTable
  BY <1>5 DEF Holds, OfTheTable
<1>7. /\ answers' \subseteq Keys \X Prints \X (Prints \cup {None})
      /\ \A a \in answers' \ answers : a[1] \in forgotten' \/ a[2] = a[3]
  BY <1>2, <1>1, <1>3 DEF K!Record, KeyKept, Told, K!Active, K!OnExisting
<1>8. k \notin forgotten' => KeyKept(k)'
  <2> SUFFICES ASSUME k \notin forgotten' PROVE KeyKept(k)'
    OBVIOUS
  <2>1. records'[k] = records[k] /\ self.pc \notin {"look", "reserve_write"}
    BY <1>5
  <2> QED
    BY <1>1, <1>2, <1>3, <1>4, <1>5, <1>6, <2>1, KeyPasses
<1> QED
  BY <1>2, <1>5, <1>6, <1>7, <1>8, KeyLooks

\* Dropping the oldest of the records in force makes room for one more.
LEMMA KeyRoom ==
  ASSUME KeyInv, store = "memory", NEW k \in Keys, ~K!Active(k),
         NEW live, live = {q \in Keys : K!Active(q)},
         InStore' \subseteq K!Evicted(live) \cup {k}
  PROVE  IsFiniteSet(InStore') /\ Cardinality(InStore') <= Capacity
<1>1. IsFiniteSet(InStore) /\ Cardinality(InStore) <= Capacity /\ records \in [Keys -> K!Record \cup {None}]
  BY KeyCount DEF KeyInv, K!TypeOK, InStore
<1>2. live \subseteq InStore
  BY DEF InStore, K!Active
<1>3. IsFiniteSet(live) /\ Cardinality(live) <= Cardinality(InStore)
  BY <1>1, <1>2, FS_Subset
<1>4. Cardinality(live) \in Nat /\ Cardinality(InStore) \in Nat /\ Capacity \in Nat /\ Capacity # 0
  BY <1>1, <1>3, FS_CardinalityType, PlatformConstants
<1> DEFINE kept == K!Evicted(live)
<1>5. IsFiniteSet(kept) /\ Cardinality(kept) \in Nat /\ Cardinality(kept) < Capacity
  <2>1. CASE Cardinality(live) < Capacity
    BY <2>1, KeyCount, <1>3, <1>4 DEF K!Evicted
  <2>2. CASE ~(Cardinality(live) < Capacity)
    <3>1. kept = live \ {K!Oldest(live)}
      BY <2>2, KeyCount DEF K!Evicted
    <3>2. K!Oldest(live) \in live
      <4> DEFINE ids == {records[q].row : q \in live}
      <4>1. live # {}
        BY <1>4, <2>2, <1>3, FS_EmptySet
      <4>2. ids # {} /\ ids \in SUBSET Nat
        BY <1>1, <1>2, <4>1 DEF InStore, K!Record
      <4>3. PICK n \in ids : \A m \in ids : <<m, n>> \notin OpToRel(<, Nat)
        BY <4>2, NatLessThanWellFounded, WFMin
      <4>4. ASSUME NEW m \in ids PROVE n <= m
        <5>1. m \in Nat /\ n \in Nat
          BY <4>2
        <5>2. ASSUME m < n PROVE FALSE
          BY <5>1, <5>2, <4>3 DEF OpToRel
        <5> QED
          BY <5>1, <5>2
      <4>5. \E p \in live : \A q \in live : records[p].row <= records[q].row
        BY <4>4
      <4> QED
        BY <4>5 DEF K!Oldest
    <3>3. IsFiniteSet(kept) /\ Cardinality(kept) = Cardinality(live) - 1
      BY <1>3, <3>1, <3>2, FS_RemoveElement
    <3>4. Cardinality(kept) \in Nat /\ Cardinality(live) <= Capacity
      BY <1>1, <1>3, <1>4, <3>3, FS_CardinalityType
    <3> HIDE DEF kept
    <3> QED
      BY <1>4, <3>3, <3>4
  <2> QED
    BY <2>1, <2>2
<1> HIDE DEF kept
<1>6. IsFiniteSet(kept \cup {k}) /\ Cardinality(kept \cup {k}) <= Capacity
      /\ Cardinality(kept \cup {k}) \in Nat
  <2>1. IsFiniteSet(kept \cup {k}) /\ Cardinality(kept \cup {k}) <= Cardinality(kept) + 1
    BY <1>5, FS_AddElement
  <2> QED
    BY <1>4, <1>5, <2>1, FS_CardinalityType
<1>7. InStore' \subseteq kept \cup {k}
  BY DEF kept
<1>8. IsFiniteSet(InStore') /\ Cardinality(InStore') <= Cardinality(kept \cup {k})
  BY <1>6, <1>7, FS_Subset
<1> QED
  BY <1>4, <1>6, <1>8, FS_CardinalityType

\* A key is reserved where there was no record of it, or none in force.
LEMMA KeyReserved ==
  ASSUME KeyInv, K!MCNext, NEW w \in Workers, NEW k \in Keys, op[w].key = k,
         op[w].pc \in {"reserve", "reserve_write"}, K!Goto(w, "run"),
         NEW id \in Nat \ {0}, rows' \in Nat, UNCHANGED <<store, effects, answers, left, faults>>,
         records' \in [Keys -> K!Record \cup {None}], records'[k] = K!Reserved(w, id),
         \A q \in Keys \ {k} : records'[q] \in {records[q], None},
         store = "memory" => IsFiniteSet(InStore') /\ Cardinality(InStore') <= Capacity,
         k \notin forgotten' => records[k] = None
  PROVE  KeyInv'
<1> DEFINE self == [op[w] EXCEPT !.pc = "run"]
           r == K!Reserved(w, id)
<1>1. op[w] \in KeyRequest /\ op[w].key \in Keys /\ op[w].print \in Prints /\ k # None
  BY KeyOf
<1>2. /\ self \in KeyRequest /\ self.pc = "run" /\ self.key = k /\ self.print = op[w].print
  BY <1>1 DEF KeyRequest
<1>3. op' = [op EXCEPT ![w] = self]
  BY DEF K!Goto, K!Become
<1>4. r \in K!Record /\ r # None /\ r.owner = w /\ r.live /\ r.state = "in_progress"
      /\ r.print = op[w].print
  <2>1. r \in K!Record
    BY <1>1 DEF K!Reserved, K!Record
  <2> QED
    BY <2>1, PlatformConstants DEF K!Reserved
<1> HIDE DEF self, r
<1>5. /\ left' \in 0..MaxRequests /\ faults' \in 0..MaxFaults /\ effects' \in [Keys -> Nat]
      /\ answers' \subseteq Keys \X Prints \X (Prints \cup {None})
      /\ \A q \in Keys : effects'[q] = effects[q]
  BY DEF KeyInv, K!TypeOK
<1>6. k \notin forgotten' => KeyKept(k)'
  <2> SUFFICES ASSUME k \notin forgotten' PROVE KeyKept(k)'
    OBVIOUS
  <2>1. KeyKept(k) /\ records[k] = None /\ effects[k] = 0 /\ records'[k] = r
    BY ForgottenGrows DEF KeyInv, KeyKept, r
  <2>2. ~Finished(self, k) /\ Owned(self, w, r) /\ self.pc \notin {"look", "reserve_write"}
    BY <1>2, <1>4 DEF Finished, Owned
  <2> QED
    BY <1>2, <1>3, <1>4, <1>5, <2>1, <2>2, KeyAlone
<1>7. op[w].key \in {k, None} /\ self.key \in {k, None} /\ self.pc \notin OfTheTable
      /\ (self.pc # "idle" => self.key \in Keys /\ self.print \in Prints)
  BY <1>1, <1>2 DEF OfTheTable
<1>8. \A q \in Keys \ {k} : effects'[q] = effects[q] /\ records'[q] \in {records[q], None}
  BY <1>5
<1> QED
  BY <1>2, <1>3, <1>5, <1>6, <1>7, <1>8, KeyStep

\* The records of a purged store.
LEMMA KeyPurge ==
  ASSUME KeyInv, K!Purge
  PROVE  /\ records' \in [Keys -> K!Record \cup {None}]
         /\ \A q \in Keys : records'[q] \in {records[q], None}
         /\ \A q \in Keys : records[q] = None \/ records[q].live => records'[q] = records[q]
  BY DEF KeyInv, K!TypeOK, K!Purge, K!Active

LEMMA KeyReserve ==
  ASSUME KeyInv, K!MCNext, NEW w \in Workers,
         K!ReserveInMemory(w) \/ K!ReserveRead(w) \/ K!ReserveWrite(w)
  PROVE  KeyInv'
<1>1. op[w].pc \in {"reserve", "reserve_write"}
  BY DEF K!ReserveInMemory, K!ReserveRead, K!ReserveWrite, K!At
<1> DEFINE key == op[w].key
<1>2. PICK k \in Keys : op[w].key = k
  BY <1>1, KeyOf
<1>3. /\ op[w] \in KeyRequest /\ op[w].print \in Prints /\ k # None
      /\ records \in [Keys -> K!Record \cup {None}] /\ rows \in Nat /\ faults \in 0..MaxFaults
      /\ answers \subseteq Keys \X Prints \X (Prints \cup {None})
      /\ K!Idle \in KeyRequest /\ K!Idle.pc = "idle" /\ K!Idle.key = None
  BY <1>1, <1>2, KeyOf DEF KeyInv, K!TypeOK
<1>4. k \notin forgotten => KeyKept(k) /\ (K!Active(k) \/ records[k] = None)
  BY DEF KeyInv, KeyKept, Told, K!Active
<1>5. \A id \in Nat \ {0} : K!Reserved(w, id) \in K!Record
  BY <1>3 DEF K!Reserved, K!Record
<1>6. ASSUME K!ReserveInMemory(w)
      PROVE  KeyInv'
  <2>1. op[w].pc = "reserve" /\ store = "memory" /\ UNCHANGED <<store, effects, left, faults>>
    BY <1>6 DEF K!ReserveInMemory, K!At
  <2>2. CASE K!Active(k)
    BY <1>2, <1>6, <2>2, KeyPurge, <2>1, KeyFound DEF K!ReserveInMemory, K!Active
  <2>3. CASE ~K!Active(k)
    <3> DEFINE live == {q \in Keys : K!Active(q)}
               kept == K!Evicted(live)
    <3>1. /\ rows' = rows + 1 /\ K!Goto(w, "run") /\ answers' = answers
          /\ records' = [q \in Keys |-> IF q = k THEN K!Reserved(w, rows')
                                        ELSE IF q \in kept THEN records[q] ELSE None]
      BY <1>2, <1>6, <2>3 DEF K!ReserveInMemory
    <3> HIDE DEF kept
    <3>2. rows' \in Nat \ {0}
      BY <1>3, <3>1
    <3>3. /\ records' \in [Keys -> K!Record \cup {None}] /\ records'[k] = K!Reserved(w, rows')
          /\ \A q \in Keys \ {k} : records'[q] \in {records[q], None}
      BY <1>3, <1>5, <3>1, <3>2
    <3>4. InStore' \subseteq kept \cup {k}
      BY <3>1 DEF InStore
    <3>5. IsFiniteSet(InStore') /\ Cardinality(InStore') <= Capacity
      BY <2>1, <2>3, <3>4, KeyRoom DEF kept
    <3>6. k \notin forgotten' => records[k] = None
      BY <1>4, <2>3, ForgottenGrows
    <3> QED
      BY <1>1, <1>2, <2>1, <3>1, <3>2, <3>3, <3>5, <3>6, KeyReserved
  <2> QED
    BY <2>2, <2>3
<1>7. ASSUME K!ReserveRead(w)
      PROVE  KeyInv'
  <2>1. /\ op[w].pc = "reserve" /\ store = "prisma"
        /\ UNCHANGED <<store, records, rows, effects, left, faults>>
    BY <1>7 DEF K!ReserveRead, K!At
  <2>2. CASE K!Active(k)
    BY <1>2, <1>7, <2>2, <1>3, <2>1, KeyFound DEF K!ReserveRead
  <2>3. CASE ~K!Active(k)
    <3> DEFINE self == [op[w] EXCEPT !.pc = "look"]
    <3>1. op' = [op EXCEPT ![w] = self] /\ answers' = answers
      BY <1>2, <1>7, <2>3 DEF K!ReserveRead, K!Goto, K!Become
    <3>2. self \in KeyRequest /\ self.pc = "look" /\ self.key = k /\ self.print = op[w].print
      BY <1>2, <1>3 DEF KeyRequest
    <3> HIDE DEF self
    <3>3. k \notin forgotten' => KeyKept(k)'
      BY <2>1, <3>2, <1>4, <2>3, ForgottenGrows, <3>1, KeyPasses DEF Holds
    <3> QED
      BY <1>2, <1>3, <2>1, <3>1, <3>2, <3>3, KeyLooks
  <2> QED
    BY <2>2, <2>3
<1>8. ASSUME K!ReserveWrite(w)
      PROVE  KeyInv'
  <2>1. op[w].pc = "reserve_write" /\ UNCHANGED <<store, effects, answers, left, faults>>
    BY <1>8 DEF K!ReserveWrite, K!At
  <2>2. store # "memory"
    BY <2>1 DEF KeyInv, OfTheTable
  <2>3. CASE K!Goto(w, "run") /\ K!NoRow(k) /\ rows' = rows + 1
             /\ records' = [records EXCEPT ![k] = K!Reserved(w, rows')]
    BY <1>3, <2>3, <1>5, <1>1, <1>2, <2>1, <2>2, KeyReserved DEF K!NoRow
  <2>4. CASE K!Goto(w, "run") /\ op[w].seen > 0 /\ op[w].seen = K!RowId(k) /\ rows' = rows
             /\ records' = [records EXCEPT ![k] = K!Reserved(w, records[k].row)]
    <3>1. records[k] \in K!Record /\ records[k] # None
      BY <1>3, <2>4 DEF K!RowId
    <3>2. records[k].row \in Nat \ {0} /\ rows' \in Nat
      BY <1>3, <2>4, <3>1 DEF K!Record
    <3>3. /\ records' \in [Keys -> K!Record \cup {None}]
          /\ records'[k] = K!Reserved(w, records[k].row)
          /\ \A q \in Keys \ {k} : records'[q] \in {records[q], None}
      BY <1>3, <1>5, <2>4, <3>2
    <3>4. k \in forgotten'
      <4> SUFFICES ASSUME k \notin forgotten' PROVE FALSE
        OBVIOUS
      <4>1. K!Active(k) /\ records[k].owner # w
        BY <1>2, <1>4, <2>1, <3>1, ForgottenGrows DEF KeyKept
      <4>2. /\ records'[k] # None /\ records'[k].row = records[k].row
            /\ records'[k].owner = w
        BY <1>5, <3>2, <3>3, PlatformConstants DEF K!Reserved
      <4>3. K!Dropped(k)
        BY <4>1, <4>2 DEF K!Dropped
      <4> QED
        BY <4>3 DEF K!MCNext
    <3> QED
      BY <1>1, <1>2, <2>1, <2>2, <2>4, <3>2, <3>3, <3>4, KeyReserved
  <2>5. CASE K!Done(w) /\ UNCHANGED <<records, rows>>
    BY <2>5, <1>3, <2>1, <1>4, ForgottenGrows, KeyPasses, <1>2, <2>2, KeyLooks DEF K!Done,
       K!Become, Holds
  <2> QED
    BY <1>2, <1>8, <2>3, <2>4, <2>5 DEF K!ReserveWrite
<1> QED
  BY <1>6, <1>7, <1>8

LEMMA KeyReceived ==
  ASSUME KeyInv, K!MCNext, NEW w \in Workers, NEW k \in Keys, NEW f \in Prints, K!Receive(w, k, f)
  PROVE  KeyInv'
<1> DEFINE self == [K!Idle EXCEPT !.pc = "reserve", !.key = k, !.print = f]
<1>1. self \in KeyRequest /\ self.pc = "reserve" /\ self.key = k /\ self.print = f
  BY DEF KeyRequest, K!Idle
<1>2. /\ op' = [op EXCEPT ![w] = self] /\ left > 0 /\ left' = left - 1
      /\ UNCHANGED <<store, records, rows, effects, answers, faults>> /\ op[w].pc = "idle"
  BY DEF K!Receive, K!Become, K!At
<1> HIDE DEF self
<1>3. op' \in [Workers -> KeyRequest] /\ op'[w] = self /\ \A v \in Workers \ {w} : op'[v] = op[v]
  BY <1>1, <1>2 DEF KeyInv
<1>4. K!TypeOK'
  BY <1>3, <1>2, PlatformConstants DEF KeyRequest, KeyInv, K!TypeOK
<1>5. \A v \in Workers :
        /\ op'[v].pc # "idle" => op'[v].key \in Keys /\ op'[v].print \in Prints
        /\ op'[v].pc = "complete_write" => op'[v].seen > 0
  BY <1>1, <1>3 DEF KeyInv
<1>6. store' = "memory" => IsFiniteSet(InStore') /\ \A v \in Workers : op'[v].pc \notin OfTheTable
  BY <1>1, <1>2, <1>3 DEF InStore, OfTheTable, KeyInv
<1>7. ASSUME NEW q \in Keys \ forgotten'
      PROVE  KeyKept(q)'
  BY <1>1, <1>2, ForgottenGrows, KeyPasses DEF KeyInv, Holds
<1>8. K!ReplayedUnlessForgotten'
  BY <1>2, ForgottenGrows DEF KeyInv, K!ReplayedUnlessForgotten
<1> QED
  BY <1>2, <1>3, <1>4, <1>5, <1>6, <1>7, <1>8 DEF KeyInv

LEMMA KeyReserveLook ==
  ASSUME KeyInv, K!MCNext, NEW w \in Workers, K!ReserveLook(w)
  PROVE  KeyInv'
<1>1. op[w].pc = "look" /\ UNCHANGED <<store, records, rows, effects, answers, left, faults>>
  BY DEF K!ReserveLook, K!At
<1>2. PICK k \in Keys : op[w].key = k
  BY <1>1, KeyOf
<1> DEFINE self == [op[w] EXCEPT !.pc = "reserve_write", !.seen = K!RowId(k)]
<1>3. /\ op[w] \in KeyRequest /\ op[w].print \in Prints /\ k # None
      /\ records \in [Keys -> K!Record \cup {None}] /\ faults \in 0..MaxFaults /\ store # "memory"
      /\ answers \subseteq Keys \X Prints \X (Prints \cup {None})
  BY <1>1, <1>2, KeyOf DEF KeyInv, K!TypeOK, OfTheTable
<1>4. K!RowId(k) \in Nat
  BY <1>3 DEF K!RowId, K!Record
<1>5. op' = [op EXCEPT ![w] = self]
  BY <1>2 DEF K!ReserveLook, K!Become
<1>6. self \in KeyRequest /\ self.pc = "reserve_write" /\ self.key = k /\ self.print = op[w].print
  BY <1>2, <1>3, <1>4 DEF KeyRequest
<1> HIDE DEF self
<1>7. k \notin forgotten' => KeyKept(k)'
  BY <1>1, <1>6, ForgottenGrows, <1>2, <1>5, KeyPasses DEF Holds, KeyInv
<1> QED
  BY <1>1, <1>2, <1>3, <1>5, <1>6, <1>7, KeyLooks

\* What is known of the record of a request that has reserved its key.
Earned(w, k) ==
  /\ k \notin forgotten' /\ Owned(op[w], w, records[k])
  /\ records[k].live /\ effects[k] = IF Finished(op[w], k) THEN 1 ELSE 0

\* A record and a count of effects that agree with what its owner is doing.
Righted(self, w, k, times, r) ==
  /\ r = None => times = 0
  /\ r # None =>
       /\ r.owner = w /\ r.live
       /\ r.state = "completed" => times = 1 /\ r.response = r.print
       /\ r.state = "in_progress" => times = IF Finished(self, k) THEN 1 ELSE 0
  /\ Holds(self, k) => Owned(self, w, r)

\* A step of a request that has reserved its key.
LEMMA KeyHolder ==
  ASSUME KeyInv, K!MCNext, NEW w \in Workers, NEW k \in Keys, Holds(op[w], k),
         NEW self \in KeyRequest, op' = [op EXCEPT ![w] = self], self.key \in {k, None},
         self.pc # "idle" => Holds(self, k) /\ self.print = op[w].print,
         self.pc = "complete_write" => self.seen > 0,
         store = "memory" => self.pc \notin OfTheTable,
         UNCHANGED <<store, rows, left>>, faults' \in 0..MaxFaults,
         NEW times \in Nat, effects' = [effects EXCEPT ![k] = times],
         NEW r \in K!Record \cup {None}, records' = [records EXCEPT ![k] = r],
         records[k] = None => r = None,
         answers' \subseteq answers \cup {<<k, op[w].print, op[w].print>>},
         Earned(w, k) => Righted(self, w, k, times, r)
  PROVE  KeyInv'
<1>1. /\ op[w] \in KeyRequest /\ op[w].key = k /\ op[w].print \in Prints /\ k # None
      /\ records \in [Keys -> K!Record \cup {None}] /\ effects \in [Keys -> Nat] /\ rows \in Nat
      /\ left \in 0..MaxRequests /\ answers \subseteq Keys \X Prints \X (Prints \cup {None})
  BY KeyOf DEF KeyInv, K!TypeOK, Holds
<1>2. /\ records' \in [Keys -> K!Record \cup {None}] /\ records'[k] = r
      /\ effects' \in [Keys -> Nat] /\ effects'[k] = times
      /\ \A q \in Keys \ {k} : effects'[q] = effects[q] /\ records'[q] \in {records[q], None}
  BY <1>1
<1>3. store = "memory" => IsFiniteSet(InStore') /\ Cardinality(InStore') <= Capacity
  <2> SUFFICES ASSUME store = "memory" PROVE IsFiniteSet(InStore') /\ Cardinality(InStore') <= Capacity
    OBVIOUS
  <2>1. InStore' \subseteq InStore
    BY <1>1 DEF InStore
  <2>2. IsFiniteSet(InStore) /\ Cardinality(InStore) <= Capacity
    BY KeyCount DEF KeyInv, K!TypeOK, InStore
  <2>3. IsFiniteSet(InStore') /\ Cardinality(InStore') <= Cardinality(InStore)
    BY <2>1, <2>2, FS_Subset
  <2>4. Cardinality(InStore) \in Nat /\ Cardinality(InStore') \in Nat
    BY <2>2, <2>3, FS_CardinalityType
  <2> QED
    BY <2>2, <2>3, <2>4, PlatformConstants
<1>4. k \notin forgotten' => KeyKept(k)'
  <2> SUFFICES ASSUME k \notin forgotten' PROVE KeyKept(k)'
    OBVIOUS
  <2>1. KeyKept(k)
    BY ForgottenGrows DEF KeyInv
  <2>2. Owned(op[w], w, records[k])
    BY <2>1 DEF KeyKept
  <2>3. Righted(self, w, k, times, r)
    BY <2>1, <2>2 DEF KeyKept, Told, Owned, Earned
  <2>4. self.pc \notin {"look", "reserve_write"}
    BY DEF Holds
  <2> QED
    BY <1>2, <2>1, <2>2, <2>3, <2>4, KeyAlone DEF Righted
<1>5. /\ answers' \subseteq Keys \X Prints \X (Prints \cup {None})
      /\ \A a \in answers' \ answers : a[1] \in forgotten' \/ a[2] = a[3]
  BY <1>1
<1>6. self.pc # "idle" => self.key \in Keys /\ self.print \in Prints
  BY <1>1 DEF Holds
<1>7. rows' \in Nat /\ left' \in 0..MaxRequests
  BY <1>1
<1>8. op[w].key \in {k, None}
  BY <1>1
<1> QED
  BY <1>2, <1>3, <1>4, <1>5, <1>6, <1>7, <1>8, KeyStep

LEMMA KeyRuns ==
  ASSUME KeyInv, K!MCNext, NEW w \in Workers, K!RunOperation(w)
  PROVE  KeyInv'
<1>1. op[w].pc = "run" /\ UNCHANGED <<store, records, rows, answers, left, faults>>
  BY DEF K!RunOperation, K!At
<1>2. PICK k \in Keys : op[w].key = k
  BY <1>1, KeyOf
<1>3. /\ op[w] \in KeyRequest /\ Holds(op[w], k) /\ ~Finished(op[w], k) /\ faults' \in 0..MaxFaults
      /\ effects \in [Keys -> Nat] /\ effects = [effects EXCEPT ![k] = effects[k]]
      /\ records[k] \in K!Record \cup {None} /\ records' = [records EXCEPT ![k] = records[k]]
      /\ k # None
  BY <1>1, <1>2, KeyOf DEF KeyInv, K!TypeOK, Holds, Finished
<1>4. PICK pc \in {"complete", "release"} :
        /\ op' = [op EXCEPT ![w] = [op[w] EXCEPT !.pc = pc]]
        /\ effects' = [effects EXCEPT ![k] = IF pc = "complete" THEN effects[k] + 1 ELSE effects[k]]
  BY <1>3, <1>2 DEF K!Goto, K!Become, K!RunOperation
<1> DEFINE self == [op[w] EXCEPT !.pc = pc]
           times == IF pc = "complete" THEN effects[k] + 1 ELSE effects[k]
<1>5. self \in KeyRequest /\ self.pc = pc /\ self.key = k /\ self.print = op[w].print
  BY <1>2, <1>3 DEF KeyRequest
<1>6. times \in Nat
  BY <1>3
<1> HIDE DEF self
<1>7. Holds(self, k) /\ (Finished(self, k) <=> pc = "complete") /\ self.pc \notin OfTheTable
      /\ self.pc # "complete_write"
  BY <1>5 DEF Holds, Finished, OfTheTable
<1>8. Owned(op[w], w, records[k]) => Owned(self, w, records[k])
  BY <1>5 DEF Owned
<1>9. Earned(w, k) => Righted(self, w, k, times, records[k])
  BY <1>3, <1>7, <1>8 DEF Owned, Earned, Righted
<1>11. op' = [op EXCEPT ![w] = self] /\ effects' = [effects EXCEPT ![k] = times]
  BY <1>4 DEF self
<1> HIDE DEF times
<1> QED
  BY <1>1, <1>3, <1>5, <1>6, <1>7, <1>9, <1>11, KeyHolder

\* A request that has reserved its key, what it knows of the record, and what it may become.
LEMMA KeyHeld ==
  ASSUME KeyInv, NEW w \in Workers, NEW k \in Keys, Holds(op[w], k)
  PROVE  /\ op[w] \in KeyRequest /\ op[w].key = k /\ op[w].print \in Prints /\ k # None
         /\ K!Idle \in KeyRequest /\ K!Idle.pc = "idle" /\ K!Idle.key = None /\ ~Holds(K!Idle, k)
         /\ records[k] \in K!Record \cup {None}
         /\ records = [records EXCEPT ![k] = records[k]]
         /\ effects[k] \in Nat /\ effects = [effects EXCEPT ![k] = effects[k]]
         /\ faults \in 0..MaxFaults
         /\ k \notin forgotten => records[k] = None \/ records[k].live
         /\ Owned(op[w], w, records[k]) => K!Mine(w, records[k])
         /\ records[k] # None => K!Completed(records[k], w) \in K!Record
                                 /\ K!Completed(records[k], w) # None
<1>1. /\ op[w] \in KeyRequest /\ op[w].key = k /\ op[w].print \in Prints /\ k # None
      /\ K!Idle \in KeyRequest /\ K!Idle.pc = "idle" /\ K!Idle.key = None
      /\ records \in [Keys -> K!Record \cup {None}] /\ effects \in [Keys -> Nat]
      /\ faults \in 0..MaxFaults
  BY KeyOf DEF Holds, KeyInv, K!TypeOK
<1>2. k \notin forgotten => records[k] = None \/ records[k].live
  BY DEF KeyInv, KeyKept, Told
<1>3. records[k] # None => K!Completed(records[k], w) \in K!Record
  BY <1>1 DEF K!Completed, K!Record
<1> QED
  BY <1>1, <1>2, <1>3, PlatformConstants DEF K!Mine, Owned, Holds

LEMMA KeyCompletes ==
  ASSUME KeyInv, K!MCNext, NEW w \in Workers,
         K!CompleteInMemory(w) \/ K!CompleteRead(w) \/ K!CompleteWrite(w) \/ K!CompleteFails(w)
  PROVE  KeyInv'
<1>1. /\ op[w].pc \in {"complete", "complete_write"} /\ UNCHANGED <<store, rows, effects, left>>
  BY DEF K!CompleteInMemory, K!CompleteRead, K!CompleteWrite, K!CompleteFails, K!At
<1>2. PICK k \in Keys : op[w].key = k
  BY <1>1, KeyOf
<1>3. Holds(op[w], k) /\ Finished(op[w], k)
  BY <1>1, <1>2 DEF Holds, Finished
<1>4. /\ op[w] \in KeyRequest /\ op[w].print \in Prints /\ k # None
      /\ records[k] \in K!Record \cup {None}
      /\ K!Idle \in KeyRequest /\ K!Idle.pc = "idle" /\ K!Idle.key = None /\ ~Holds(K!Idle, k)
      /\ effects[k] \in Nat /\ effects' = [effects EXCEPT ![k] = effects[k]]
      /\ faults \in 0..MaxFaults
  BY <1>1, <1>3, KeyHeld
<1>5. ASSUME records'[k] = records[k], op'[w].pc \in {"release", "idle"}, k \notin forgotten',
             Owned(op[w], w, records[k])
      PROVE  FALSE
  BY <1>1, <1>2, <1>5 DEF K!Dropped, Owned, K!MCNext
<1>6. ASSUME NEW self \in KeyRequest, op' = [op EXCEPT ![w] = self], records' = records,
             \/ self = K!Idle
             \/ Holds(self, k) /\ self.print = op[w].print /\ self.pc = "release"
             \/ /\ Holds(self, k) /\ self.print = op[w].print /\ self.pc = "complete_write"
                /\ self.seen > 0 /\ store # "memory"
                /\ records[k] # None => self.seen = records[k].row,
             answers' \subseteq answers \cup {<<k, op[w].print, op[w].print>>},
             faults' \in 0..MaxFaults
      PROVE  KeyInv'
  <2>1. records' = [records EXCEPT ![k] = records[k]] /\ records'[k] = records[k]
    BY <1>3, <1>6, KeyHeld
  <2>2. op'[w] = self
    BY <1>6 DEF KeyInv
  <2>3. ASSUME Earned(w, k)
        PROVE  Righted(self, w, k, effects[k], records[k])
    BY <1>4, <1>5, <1>6, <2>1, <2>2, <2>3, <1>3 DEF Earned, Owned, Finished, Holds, Righted
  <2>4. /\ self.key \in {k, None} /\ (self.pc # "idle" => Holds(self, k) /\ self.print = op[w].print)
        /\ self.pc = "complete_write" => self.seen > 0
        /\ store = "memory" => self.pc \notin OfTheTable
    BY <1>4, <1>6 DEF Holds, OfTheTable
  <2> QED
    BY <1>1, <1>3, <1>4, <1>6, <2>1, <2>3, <2>4, KeyHolder
<1>7. ASSUME records[k] # None, op' = [op EXCEPT ![w] = K!Idle],
             records' = [records EXCEPT ![k] = K!Completed(@, w)], faults' = faults,
             answers' \subseteq answers \cup {<<k, op[w].print, op[w].print>>}
      PROVE  KeyInv'
  <2> DEFINE full == K!Completed(records[k], w)
  <2>1. full \in K!Record /\ full # None /\ records' = [records EXCEPT ![k] = full]
    BY <1>3, <1>7, KeyHeld
  <2>2. /\ full.owner = records[k].owner /\ full.live /\ full.state = "completed"
        /\ full.print = records[k].print /\ full.response = op[w].print
    BY <1>4, <1>7 DEF K!Completed, K!Record
  <2> HIDE DEF full
  <2>3. Earned(w, k) => Righted(K!Idle, w, k, effects[k], full)
    BY <1>3, <1>4, <2>1, <2>2 DEF Owned, Earned, Righted
  <2>4. K!Idle.pc \notin OfTheTable /\ faults' \in 0..MaxFaults
    BY <1>4, <1>7 DEF OfTheTable
  <2> QED
    BY <1>1, <1>3, <1>4, <1>7, <2>1, <2>2, <2>3, <2>4, KeyHolder
<1>8. CASE K!CompleteInMemory(w)
  BY <1>2, <1>8, <1>7, <1>4, <1>6 DEF K!CompleteInMemory, K!Done, K!Become, K!Answered, K!Mine
<1>9. CASE K!CompleteRead(w)
  <2>1. store # "memory" /\ faults' = faults /\ records' = records
    BY <1>9 DEF K!CompleteRead
  <2>2. CASE K!Mine(w, records[k])
    <3> DEFINE self == [op[w] EXCEPT !.pc = "complete_write", !.seen = K!RowId(k)]
    <3>1. op' = [op EXCEPT ![w] = self] /\ answers' = answers
      BY <1>2, <1>9, <2>2 DEF K!CompleteRead, K!Become
    <3>2. K!RowId(k) = records[k].row /\ K!RowId(k) \in Nat /\ K!RowId(k) > 0
      BY <1>4, <2>2 DEF K!RowId, K!Mine, K!Record
    <3>3. /\ self \in KeyRequest /\ self.pc = "complete_write" /\ self.key = k
          /\ self.print = op[w].print /\ self.seen = K!RowId(k)
      BY <1>2, <1>4, <3>2 DEF KeyRequest
    <3> HIDE DEF self
    <3>4. Holds(self, k)
      BY <3>3 DEF Holds
    <3> QED
      BY <1>4, <1>6, <2>1, <3>1, <3>2, <3>3, <3>4
  <2>3. CASE ~K!Mine(w, records[k])
    BY <1>2, <1>9, <2>3, <1>4, <1>6, <2>1 DEF K!CompleteRead, K!Done, K!Become, K!Answered
  <2> QED
    BY <2>2, <2>3
<1>10. ASSUME NEW pc, pc = "release", K!Goto(w, pc), records' = records, answers' = answers,
              faults' \in 0..MaxFaults
       PROVE  KeyInv'
  <2> DEFINE self == [op[w] EXCEPT !.pc = "release"]
  <2>1. op' = [op EXCEPT ![w] = self]
    BY <1>10 DEF K!Goto, K!Become
  <2>2. self \in KeyRequest /\ self.pc = "release" /\ self.key = k /\ self.print = op[w].print
    BY <1>2, <1>4 DEF KeyRequest
  <2> HIDE DEF self
  <2>3. Holds(self, k)
    BY <2>2 DEF Holds
  <2> QED
    BY <1>6, <1>10, <2>1, <2>2, <2>3
<1>11. CASE K!CompleteWrite(w)
  BY <1>11, <1>2, <1>4, <1>10, <1>7 DEF K!CompleteWrite, K!At, KeyInv, K!RowId, K!Done, K!Become,
     K!Answered
<1>12. CASE K!CompleteFails(w)
  BY <1>12, <1>4, PlatformConstants, <1>10 DEF K!CompleteFails
<1> QED
  BY <1>8, <1>9, <1>11, <1>12

LEMMA KeyReleases ==
  ASSUME KeyInv, K!MCNext, NEW w \in Workers,
         K!Release(w) \/ K!ReleaseRead(w) \/ K!ReleaseWrite(w)
  PROVE  KeyInv'
<1>1. /\ op[w].pc \in {"release", "delete"}
      /\ UNCHANGED <<store, rows, effects, answers, left, faults>>
  BY DEF K!Release, K!ReleaseRead, K!ReleaseWrite, K!At
<1>2. PICK k \in Keys : op[w].key = k
  BY <1>1, KeyOf
<1>3. Holds(op[w], k) /\ ~Finished(op[w], k)
  BY <1>1, <1>2 DEF Holds, Finished
<1>4. /\ op[w] \in KeyRequest /\ op[w].print \in Prints /\ k # None
      /\ records[k] \in K!Record \cup {None} /\ records = [records EXCEPT ![k] = records[k]]
      /\ K!Idle \in KeyRequest /\ K!Idle.pc = "idle" /\ K!Idle.key = None /\ ~Holds(K!Idle, k)
      /\ effects[k] \in Nat /\ effects' = [effects EXCEPT ![k] = effects[k]]
      /\ faults' \in 0..MaxFaults
  BY <1>1, <1>3, KeyHeld
<1>6. ASSUME NEW r \in {None, records[k]}, records' = [records EXCEPT ![k] = r],
             op' = [op EXCEPT ![w] = K!Idle]
      PROVE  KeyInv'
  <2>1. r \in K!Record \cup {None} /\ (records[k] = None => r = None)
    BY <1>4, <1>6
  <2>2. Earned(w, k) => Righted(K!Idle, w, k, effects[k], r)
    BY <1>3, <1>4, <1>6 DEF Owned, Finished, Earned, Righted
  <2>3. K!Idle.pc \notin OfTheTable
    BY <1>4 DEF OfTheTable
  <2> QED
    BY <1>1, <1>3, <1>4, <1>6, <2>1, <2>2, <2>3, KeyHolder
<1>7. CASE K!Release(w)
  BY <1>7, <1>2, <1>4, <1>6 DEF K!Release, K!Done, K!Become
<1>8. CASE K!ReleaseWrite(w)
  BY <1>8, <1>2, <1>4, <1>6 DEF K!ReleaseWrite, K!Done, K!Become
<1>9. CASE K!ReleaseRead(w)
  <2>1. records' = records /\ store # "memory"
    BY <1>9 DEF K!ReleaseRead
  <2>2. CASE ~K!Mine(w, records[k])
    BY <1>2, <1>9, <2>2, <1>4, <1>6, <2>1 DEF K!ReleaseRead, K!Done, K!Become
  <2>3. CASE K!Mine(w, records[k])
    <3> DEFINE self == [op[w] EXCEPT !.pc = "delete", !.seen = K!RowId(k)]
    <3>1. op' = [op EXCEPT ![w] = self]
      BY <1>2, <1>9, <2>3 DEF K!ReleaseRead, K!Become
    <3>2. K!RowId(k) = records[k].row /\ K!RowId(k) \in Nat
      BY <1>4, <2>3 DEF K!RowId, K!Mine, K!Record
    <3>3. /\ self \in KeyRequest /\ self.pc = "delete" /\ self.key = k
          /\ self.print = op[w].print /\ self.seen = K!RowId(k)
      BY <1>2, <1>4, <3>2 DEF KeyRequest
    <3> HIDE DEF self
    <3>4. Holds(self, k) /\ ~Finished(self, k)
      BY <3>3 DEF Holds, Finished
    <3>5. Earned(w, k) => Righted(self, w, k, effects[k], records[k])
      BY <1>3, <3>2, <3>3, <3>4 DEF Owned, Earned, Righted
    <3>6. self.pc # "complete_write" /\ self.key \in {k, None}
      BY <1>2, <3>3
    <3> QED
      BY <1>1, <1>3, <1>4, <2>1, <3>1, <3>3, <3>4, <3>5, <3>6, KeyHolder
  <2> QED
    BY <2>2, <2>3
<1> QED
  BY <1>7, <1>8, <1>9

LEMMA KeyWaits ==
  ASSUME KeyInv, K!MCNext, NEW w \in Workers, K!WaitEnds(w)
  PROVE  KeyInv'
<1>1. op[w].pc = "wait" /\ UNCHANGED <<store, rows, effects, left, faults>>
  BY DEF K!WaitEnds, K!At
<1>2. PICK k \in Keys : op[w].key = k
  BY <1>1, KeyOf
<1>3. /\ op[w].print \in Prints /\ k # None /\ K!Idle \in KeyRequest /\ K!Idle.pc = "idle"
      /\ K!Idle.key = None /\ records \in [Keys -> K!Record \cup {None}] /\ faults' \in 0..MaxFaults
      /\ answers \subseteq Keys \X Prints \X (Prints \cup {None}) /\ op' = [op EXCEPT ![w] = K!Idle]
  BY <1>1, <1>2, KeyOf DEF KeyInv, K!TypeOK, K!WaitEnds, K!Done, K!Become
<1>4. /\ records' \in [Keys -> K!Record \cup {None}]
      /\ \A q \in Keys : records'[q] \in {records[q], None}
      /\ \A q \in Keys : records[q] = None \/ records[q].live => records'[q] = records[q]
  BY <1>3, KeyPurge DEF K!WaitEnds
<1>5. k \notin forgotten' =>
        KeyKept(k) /\ records'[k] = records[k] /\ (records[k] # None => Told(k, effects[k], records[k], op))
  BY <1>4, ForgottenGrows DEF KeyInv, KeyKept, Told
<1>6. k \notin forgotten' => KeyKept(k)'
  BY <1>1, <1>3, <1>5, KeyPasses DEF Holds
<1>7. /\ answers' \subseteq Keys \X Prints \X (Prints \cup {None})
      /\ \A a \in answers' \ answers : a[1] \in forgotten' \/ a[2] = a[3]
  BY <1>3, <1>5, <1>2 DEF K!Record, K!Active, Told, K!SamePrint, K!WaitEnds
<1>8. K!Idle.pc \notin OfTheTable /\ K!Idle.pc # "complete_write"
  BY <1>3 DEF OfTheTable
<1> QED
  BY <1>1, <1>2, <1>3, <1>4, <1>6, <1>7, <1>8, KeyLooks

LEMMA KeyExpires ==
  ASSUME KeyInv, K!MCNext, NEW k \in Keys, K!Expire(k)
  PROVE  KeyInv'
<1>1. /\ K!Active(k) /\ faults > 0 /\ faults' = faults - 1
      /\ UNCHANGED <<store, rows, effects, answers, op, left>>
      /\ records' = [records EXCEPT ![k].live = FALSE]
  BY DEF K!Expire
<1>2. records \in [Keys -> K!Record \cup {None}] /\ records[k] \in K!Record /\ faults \in 0..MaxFaults
      /\ op \in [Workers -> KeyRequest]
  BY <1>1 DEF KeyInv, K!TypeOK, K!Active
<1>3. [records[k] EXCEPT !.live = FALSE] \in K!Record /\ ~[records[k] EXCEPT !.live = FALSE].live
  BY <1>2 DEF K!Record
<1>4. /\ records' \in [Keys -> K!Record \cup {None}] /\ records'[k] # None /\ ~records'[k].live
      /\ \A q \in Keys \ {k} : records'[q] = records[q]
  BY <1>1, <1>2, <1>3, PlatformConstants
<1>5. InStore' = InStore
  BY <1>1, <1>4 DEF InStore, K!Active
<1>6. K!TypeOK'
  <2>1. store' = "memory" => K!Cardinality({q \in Keys : records'[q] # None}) <= Capacity
    BY <1>1, <1>5 DEF KeyInv, K!TypeOK, InStore
  <2>2. faults' \in 0..MaxFaults
    BY <1>1, <1>2, PlatformConstants
  <2> QED
    BY <1>1, <1>4, <2>1, <2>2 DEF KeyInv, K!TypeOK
<1>7. k \in forgotten'
  BY <1>1, <1>4 DEF K!Dropped, K!MCNext
<1>8. ASSUME NEW q \in Keys \ forgotten'
      PROVE  KeyKept(q)'
  BY <1>1, <1>4, <1>7, ForgottenGrows, <1>2, KeyElsewhere DEF KeyInv
<1>9. K!ReplayedUnlessForgotten'
  BY <1>1, ForgottenGrows DEF KeyInv, K!ReplayedUnlessForgotten
<1> QED
  BY <1>1, <1>5, <1>6, <1>8, <1>9 DEF KeyInv

LEMMA KeyCrashes ==
  ASSUME KeyInv, K!MCNext, NEW w \in Workers, K!Crash(w)
  PROVE  KeyInv'
<1>1. /\ op[w].pc # "idle" /\ faults > 0 /\ faults' = faults - 1
      /\ UNCHANGED <<store, rows, effects, answers, left>>
  BY DEF K!Crash, K!At
<1>2. PICK k \in Keys : op[w].key = k
  BY <1>1, KeyOf
<1>3. /\ k # None /\ K!Idle \in KeyRequest /\ K!Idle.pc = "idle" /\ K!Idle.key = None
      /\ records \in [Keys -> K!Record \cup {None}] /\ faults' \in 0..MaxFaults
      /\ answers' \subseteq Keys \X Prints \X (Prints \cup {None})
      /\ op \in [Workers -> KeyRequest]
  BY <1>1, PlatformConstants, <1>2, KeyOf DEF KeyInv, K!TypeOK
<1>4. CASE store = "prisma"
  <2>1. op' = [op EXCEPT ![w] = K!Idle] /\ records' = records
    BY <1>4 DEF K!Crash, K!Done, K!Become
  <2>2. k \notin forgotten' => KeyKept(k)'
    <3> SUFFICES ASSUME k \notin forgotten' PROVE KeyKept(k)'
      OBVIOUS
    <3>1. KeyKept(k) /\ records'[k] = records[k] /\ effects'[k] = effects[k] /\ ~Holds(K!Idle, k)
      BY <1>1, <1>3, <2>1, ForgottenGrows DEF KeyInv, Holds
    <3>2. CASE ~Holds(op[w], k)
      BY <1>3, <2>1, <3>1, <3>2, KeyPasses
    <3>3. CASE Holds(op[w], k)
      <4>1. Owned(op[w], w, records[k])
        BY <3>1, <3>3 DEF KeyKept
      <4>2. ~Finished(op[w], k)
        <5> SUFFICES ASSUME Finished(op[w], k) PROVE FALSE
          OBVIOUS
        <5>1. op'[w].pc = "idle"
          BY <1>3, <2>1
        <5>2. K!Dropped(k)
          BY <2>1, <4>1, <5>1 DEF K!Dropped, Finished, Owned
        <5> QED
          BY <5>2 DEF K!MCNext
      <4>3. effects[k] = 0 /\ records[k].live
        BY <3>1, <4>1, <4>2 DEF KeyKept, Told, Owned
      <4>4. /\ records'[k] # None /\ records'[k].owner = w /\ records'[k].state = "in_progress"
            /\ records'[k].live /\ effects'[k] = 0 /\ ~Finished(K!Idle, k)
        BY <1>3, <3>1, <4>1, <4>3 DEF Owned, Finished
      <4>5. K!Idle.pc \notin {"look", "reserve_write"}
        BY <1>3
      <4> QED
        BY <1>3, <2>1, <3>1, <3>3, <4>4, <4>5, KeyAlone
    <3> QED
      BY <3>2, <3>3
  <2>3. K!Idle.pc # "complete_write" /\ store # "memory"
        /\ \A a \in answers' \ answers : a[1] \in forgotten' \/ a[2] = a[3]
    BY <1>1, <1>3, <1>4
  <2>4. \A q \in Keys : records'[q] \in {records[q], None}
    BY <2>1
  <2> QED
    BY <1>1, <1>2, <1>3, <2>1, <2>2, <2>3, <2>4, KeyLooks
<1>5. CASE store # "prisma"
  <2>1. op' = [v \in Workers |-> K!Idle] /\ records' = [q \in Keys |-> None]
    BY <1>5 DEF K!Crash
  <2>2. op' \in [Workers -> KeyRequest] /\ \A v \in Workers : op'[v] = K!Idle
    BY <1>3, <2>1
  <2>3. InStore' = {}
    BY <2>1 DEF InStore
  <2>4. IsFiniteSet(InStore') /\ Cardinality(InStore') = 0
    BY <2>3, FS_EmptySet
  <2>5. K!TypeOK'
    BY <2>4, KeyCount, PlatformConstants, <2>2, <2>1, <1>1, <1>3 DEF InStore, KeyRequest, KeyInv,
       K!TypeOK
  <2>6. ASSUME NEW q \in Keys \ forgotten'
        PROVE  KeyKept(q)'
    <3>1. KeyKept(q)
      BY ForgottenGrows DEF KeyInv
    <3>2. records[q] = None
      <4> SUFFICES ASSUME records[q] # None PROVE FALSE
        OBVIOUS
      <4>1. records'[q] = None /\ faults' # faults
        BY <1>1, <1>3, <2>1
      <4>2. K!Dropped(q)
        BY <4>1 DEF K!Dropped
      <4> QED
        BY <4>2 DEF K!MCNext
    <3>3. effects'[q] = 0 /\ records'[q] = None
      BY <1>1, <2>1, <3>1, <3>2 DEF KeyKept
    <3>4. \A v \in Workers : ~Holds(op'[v], q)
      BY <1>3, <2>2 DEF Holds
    <3> QED
      BY <2>2, <3>3, <3>4 DEF KeyKept
  <2>7. K!ReplayedUnlessForgotten'
    BY <1>1, ForgottenGrows DEF KeyInv, K!ReplayedUnlessForgotten
  <2>8. \A v \in Workers : op'[v].pc = "idle" /\ op'[v].pc \notin OfTheTable
    BY <1>3, <2>2 DEF OfTheTable
  <2>9. \A v \in Workers :
          /\ op'[v].pc # "idle" => op'[v].key \in Keys /\ op'[v].print \in Prints
          /\ op'[v].pc = "complete_write" => op'[v].seen > 0
    BY <2>8
  <2> QED
    BY <1>1, <2>2, <2>4, <2>5, <2>6, <2>7, <2>8, <2>9 DEF KeyInv
<1> QED
  BY <1>4, <1>5

LEMMA KeysNext == KeyInv /\ K!MCNext => KeyInv'
<1> SUFFICES ASSUME KeyInv, K!MCNext PROVE KeyInv'
  OBVIOUS
<1>1. K!Next
  BY DEF K!MCNext
<1>2. ASSUME NEW w \in Workers,
             \/ \E k \in Keys, f \in Prints : K!Receive(w, k, f)
             \/ K!ReserveInMemory(w) \/ K!ReserveRead(w) \/ K!ReserveLook(w) \/ K!ReserveWrite(w)
             \/ K!RunOperation(w)
             \/ K!CompleteInMemory(w) \/ K!CompleteRead(w) \/ K!CompleteWrite(w)
             \/ K!CompleteFails(w)
             \/ K!Release(w) \/ K!ReleaseRead(w) \/ K!ReleaseWrite(w) \/ K!WaitEnds(w)
             \/ K!Crash(w)
      PROVE  KeyInv'
  BY <1>2, KeyReceived, KeyReserve, KeyReserveLook, KeyRuns, KeyCompletes, KeyReleases, KeyWaits,
     KeyCrashes
<1>3. ASSUME NEW k \in Keys, K!Expire(k)
      PROVE  KeyInv'
  BY <1>3, KeyExpires
<1> QED
  BY <1>1, <1>2, <1>3 DEF K!Next

LEMMA KeysInit == K!MCInit => KeyInv
<1> SUFFICES ASSUME K!MCInit PROVE KeyInv
  OBVIOUS
<1>1. /\ store \in {"memory", "prisma"} /\ records = [k \in Keys |-> None] /\ rows = 0
      /\ effects = [k \in Keys |-> 0] /\ answers = {} /\ op = [w \in Workers |-> K!Idle]
      /\ left = MaxRequests /\ faults = MaxFaults /\ forgotten = {}
  BY DEF K!MCInit, K!Init
<1>2. K!Idle \in KeyRequest /\ K!Idle.pc = "idle" /\ K!Idle.key = None /\ K!Idle.pc \notin OfTheTable
  BY DEF K!Idle, KeyRequest, OfTheTable
<1>3. op \in [Workers -> KeyRequest] /\ \A w \in Workers : op[w] = K!Idle
  BY <1>1, <1>2
<1>4. IsFiniteSet(InStore) /\ Cardinality(InStore) = 0
  BY <1>1, FS_EmptySet DEF InStore
<1>5. K!TypeOK
  BY <1>4, KeyCount, PlatformConstants, <1>3, <1>1 DEF InStore, KeyRequest, K!Idle, K!TypeOK
<1>6. \A k \in Keys : KeyKept(k)
  BY <1>2, <1>3, <1>1 DEF Holds, KeyKept
<1>7. \A v \in Workers :
        /\ op[v].pc # "idle" => op[v].key \in Keys /\ op[v].print \in Prints
        /\ op[v].pc = "complete_write" => op[v].seen > 0
  BY <1>2, <1>3
<1> QED
  BY <1>1, <1>2, <1>3, <1>4, <1>5, <1>6, <1>7 DEF KeyInv, K!ReplayedUnlessForgotten

-----------------------------------------------------------------------------
\* Scheduled tasks.

Timers(s) == stray[s] + (IF tracked[s] THEN 1 ELSE 0)

Due(s) == running[s] /\ ~completed[s]

AtWork == {"acquire", "handler", "release", "next"}

TaskRun == [pc : {"idle"}, at : {None}] \cup [pc : AtWork, at : Schedulers]

\* A run that is not late holds the live lock from the handler to the release.
HasLock(w) ==
  op[w].pc \in {"handler", "release"} /\ w \notin late
    => lock # None /\ lock.token = w /\ lock.live

\* Every timer and every run of a scheduler was paid for by a call.
Paid(s) == Timers(s) + Cardinality(T!RunsOf(s)) + left <= MaxTimers

\* One chain, whose timer is the one that stop() reaches.
Chained(s) ==
  /\ stray[s] = 0
  /\ IF Due(s) THEN Timers(s) + Cardinality(T!RunsOf(s)) = 1
     ELSE ~tracked[s] /\ Cardinality(T!RunsOf(s)) <= 1

TaskInv ==
  /\ kind \in {"interval", "once"}
  /\ running \in [Schedulers -> BOOLEAN] /\ completed \in [Schedulers -> BOOLEAN]
  /\ tracked \in [Schedulers -> BOOLEAN] /\ stray \in [Schedulers -> Nat]
  /\ lock \in [token : Runners, live : BOOLEAN] \cup {None}
  /\ op \in [Runners -> TaskRun]
  /\ left \in 0..MaxTimers /\ faults \in 0..MaxFaults
  /\ disturbed \subseteq Schedulers
  /\ kind = "interval" => \A s \in Schedulers : ~completed[s]
  /\ \A w \in Runners : HasLock(w)
  /\ \A s \in Schedulers :
       /\ IsFiniteSet(T!RunsOf(s)) /\ Paid(s)
       /\ s \notin disturbed => Chained(s)

LEMMA TaskCount ==
  ASSUME NEW ws
  PROVE  T!Cardinality(ws) = Cardinality(ws)
  BY Zenon DEF Cardinality, T!Cardinality

LEMMA TasksImplied ==
  ASSUME TaskInv
  PROVE  T!TypeOK /\ T!AloneUnlessLate /\ T!OneChainUnlessDisturbed
<1>1. T!TypeOK
  <2>1. op \in [Runners -> [pc : {"idle", "acquire", "handler", "release", "next"},
                            at : Schedulers \cup {None}]]
    BY DEF TaskInv, TaskRun, AtWork
  <2>2. ASSUME NEW s \in Schedulers
        PROVE  stray[s] \in 0..MaxTimers
    <3>1. Cardinality(T!RunsOf(s)) \in Nat
      BY FS_CardinalityType DEF TaskInv
    <3> QED
      BY <3>1, PlatformConstants DEF TaskInv, Paid, Timers
  <2> QED
    BY <2>1, <2>2 DEF TaskInv, T!TypeOK
<1>2. T!AloneUnlessLate
  <2> DEFINE alone == {w \in Runners \ late : T!At(w, "handler")}
  <2>1. \A v, w \in alone : v = w
    BY DEF TaskInv, HasLock, T!At
  <2>2. IsFiniteSet(alone) /\ Cardinality(alone) <= 1
    <3>1. CASE alone = {}
      BY <3>1, FS_EmptySet
    <3>2. ASSUME NEW w \in alone
          PROVE  IsFiniteSet(alone) /\ Cardinality(alone) <= 1
      <4>1. alone = {w}
        BY <2>1, <3>2
      <4>2. IsFiniteSet({w}) /\ Cardinality({w}) = 1
        BY FS_Singleton
      <4> HIDE DEF alone
      <4> QED
        BY <4>1, <4>2
    <3> QED
      BY <3>1, <3>2
  <2> QED
    BY <2>2, TaskCount DEF T!AloneUnlessLate
<1>3. T!OneChainUnlessDisturbed
  BY TaskCount DEF TaskInv, Chained, Timers, Due, T!OneChainUnlessDisturbed
<1> QED
  BY <1>1, <1>2, <1>3

LEMMA TasksStutter ==
  ASSUME TaskInv, UNCHANGED vars
  PROVE  TaskInv'
BY DEF vars, OfTasks, HasLock, T!RunsOf, Paid, Chained, Timers, Due, TaskInv

\* Where the runs of a scheduler are, when one of them moves on.
LEMMA RunsMove ==
  ASSUME TaskInv, NEW w \in Runners, NEW self \in TaskRun, op' = [op EXCEPT ![w] = self],
         NEW s \in Schedulers
  PROVE  /\ T!RunsOf(s)' = IF self.at = s THEN T!RunsOf(s) \cup {w} ELSE T!RunsOf(s) \ {w}
         /\ w \in T!RunsOf(s) <=> op[w].at = s
  BY DEF TaskInv, T!RunsOf

\* How many there are.
LEMMA RunsCounted ==
  ASSUME TaskInv, NEW w \in Runners, NEW self \in TaskRun, op' = [op EXCEPT ![w] = self],
         NEW s \in Schedulers
  PROVE  /\ IsFiniteSet(T!RunsOf(s)')
         /\ Cardinality(T!RunsOf(s)) \in Nat
         /\ Cardinality(T!RunsOf(s)') =
              Cardinality(T!RunsOf(s)) + (IF self.at = s THEN 1 ELSE 0) - (IF op[w].at = s THEN 1 ELSE 0)
<1> DEFINE runs == T!RunsOf(s)
<1>1. IsFiniteSet(runs) /\ Cardinality(runs) \in Nat
  BY FS_CardinalityType DEF TaskInv
<1>2. /\ T!RunsOf(s)' = IF self.at = s THEN runs \cup {w} ELSE runs \ {w}
      /\ w \in runs <=> op[w].at = s
  BY RunsMove
<1> HIDE DEF runs
<1>3. /\ IsFiniteSet(runs \cup {w})
      /\ Cardinality(runs \cup {w}) = IF w \in runs THEN Cardinality(runs) ELSE Cardinality(runs) + 1
  BY <1>1, FS_AddElement
<1>4. /\ IsFiniteSet(runs \ {w})
      /\ Cardinality(runs \ {w}) = IF w \in runs THEN Cardinality(runs) - 1 ELSE Cardinality(runs)
  BY <1>1, FS_RemoveElement
<1> QED
  BY <1>1, <1>2, <1>3, <1>4 DEF runs

\* A run that moves on is in one of its shapes.
LEMMA TaskRuns ==
  ASSUME TaskInv, T!Next
  PROVE  op' \in [Runners -> TaskRun]
<1>1. ASSUME NEW w \in Runners, NEW self \in TaskRun, op' = [op EXCEPT ![w] = self]
      PROVE  op' \in [Runners -> TaskRun]
  BY <1>1 DEF TaskInv
<1>2. ASSUME NEW w \in Runners, NEW pc \in AtWork, op[w].pc # "idle", T!Goto(w, pc)
      PROVE  op' \in [Runners -> TaskRun]
  BY <1>2, <1>1 DEF TaskInv, TaskRun, T!Goto
<1>3. T!Idle \in TaskRun
  BY DEF T!Idle, TaskRun
<1>4. ASSUME NEW s \in Schedulers, T!Start(s) \/ T!Stop(s)
      PROVE  op' \in [Runners -> TaskRun]
  BY <1>4 DEF TaskInv, T!Start, T!Stop
<1>5. ASSUME NEW s \in Schedulers, NEW w \in Runners, T!Fire(s, w)
      PROVE  op' \in [Runners -> TaskRun]
  BY <1>1, <1>5 DEF TaskRun, AtWork, T!Fire
<1>6. ASSUME NEW w \in Runners, T!Acquire(w) \/ T!HandlerEnds(w) \/ T!Release(w)
      PROVE  op' \in [Runners -> TaskRun]
  <2>1. PICK pc \in {"next", "handler", "release"} : op[w].pc # "idle" /\ T!Goto(w, pc)
    BY <1>6 DEF T!Acquire, T!HandlerEnds, T!Release, T!At
  <2> QED
    BY <1>2, <2>1 DEF AtWork
<1>7. ASSUME NEW w \in Runners, T!AcquireFails(w) \/ T!Finish(w)
      PROVE  op' \in [Runners -> TaskRun]
  BY <1>1, <1>3, <1>7 DEF T!AcquireFails, T!Finish
<1>8. ASSUME NEW w \in Runners, T!RenewTooLate(w)
      PROVE  op' \in [Runners -> TaskRun]
  BY <1>8 DEF TaskInv, T!RenewTooLate
<1>9. CASE T!Expire
  BY <1>9 DEF TaskInv, T!Expire
<1> QED
  BY <1>4, <1>5, <1>6, <1>7, <1>8, <1>9 DEF T!Next

\* Flags, timers and the lock keep their shapes.
TaskShape ==
  /\ kind \in {"interval", "once"}
  /\ running \in [Schedulers -> BOOLEAN] /\ completed \in [Schedulers -> BOOLEAN]
  /\ tracked \in [Schedulers -> BOOLEAN] /\ stray \in [Schedulers -> Nat]
  /\ lock \in [token : Runners, live : BOOLEAN] \cup {None}
  /\ left \in 0..MaxTimers /\ faults \in 0..MaxFaults
  /\ kind = "interval" => \A s \in Schedulers : ~completed[s]

LEMMA TaskShapes ==
  ASSUME TaskInv, T!Next
  PROVE  TaskShape'
<1> USE DEF TaskShape
<1>0. TaskShape /\ MaxTimers \in Nat /\ MaxFaults \in Nat
  BY PlatformConstants DEF TaskInv
<1>1. ASSUME NEW s \in Schedulers, T!Schedule(s)
      PROVE  tracked' \in [Schedulers -> BOOLEAN] /\ stray' \in [Schedulers -> Nat]
  BY <1>0, <1>1 DEF T!Schedule
<1>2. ASSUME NEW s \in Schedulers, T!Start(s)
      PROVE  TaskShape'
  BY <1>0, <1>1, <1>2 DEF T!Start, T!Unscheduled, T!Spend, T!Toll
<1>3. ASSUME NEW s \in Schedulers, T!Stop(s)
      PROVE  TaskShape'
  BY <1>0, <1>3 DEF T!Stop, T!Spend, T!Toll
<1>4. ASSUME NEW s \in Schedulers, NEW w \in Runners, T!Fire(s, w)
      PROVE  TaskShape'
  BY <1>0, <1>4 DEF T!Fire, T!Spend, T!Toll
<1>5. ASSUME NEW w \in Runners,
             T!Acquire(w) \/ T!AcquireFails(w) \/ T!HandlerEnds(w) \/ T!RenewTooLate(w) \/ T!Release(w)
      PROVE  TaskShape'
  <2>1. UNCHANGED <<kind, running, completed, tracked, stray, left>>
    BY <1>5 DEF T!Acquire, T!AcquireFails, T!HandlerEnds, T!RenewTooLate, T!Release
  <2>2. faults' \in 0..MaxFaults
    BY <1>0, <1>5 DEF T!Acquire, T!AcquireFails, T!HandlerEnds, T!RenewTooLate, T!Release, T!Fault
  <2>3. lock' \in [token : Runners, live : BOOLEAN] \cup {None}
    <3>1. lock' \in {lock, None, [token |-> w, live |-> TRUE]}
      BY <1>5 DEF T!Acquire, T!AcquireFails, T!HandlerEnds, T!RenewTooLate, T!Release
    <3>2. [token |-> w, live |-> TRUE] \in [token : Runners, live : BOOLEAN]
      OBVIOUS
    <3>3. lock \in [token : Runners, live : BOOLEAN] \cup {None}
      BY <1>0
    <3> QED
      BY ONLY <3>1, <3>2, <3>3
  <2> QED
    BY <1>0, <2>1, <2>2, <2>3
<1>6. ASSUME NEW w \in Runners, T!Finish(w)
      PROVE  TaskShape'
  BY <1>6, <1>0, <1>1 DEF TaskInv, TaskRun, T!Finish, T!At, T!Unscheduled
<1>7. CASE T!Expire
  <2>1. UNCHANGED <<kind, running, completed, tracked, stray, left>>
    BY <1>7 DEF T!Expire
  <2>2. faults' = faults \/ (faults > 0 /\ faults' = faults - 1)
    BY <1>7 DEF T!Expire, T!Fault
  <2>3. lock \in [token : Runners, live : BOOLEAN] /\ lock' = [lock EXCEPT !.live = FALSE]
    BY <1>0, <1>7 DEF T!Expire, T!Held
  <2>4. lock' \in [token : Runners, live : BOOLEAN]
    BY <2>3
  <2>5. faults' \in 0..MaxFaults
    BY <1>0, <2>2
  <2> QED
    BY <1>0, <2>1, <2>4, <2>5
<1> QED
  BY <1>2, <1>3, <1>4, <1>5, <1>6, <1>7 DEF T!Next

\* A run that goes on is where it goes, at the scheduler it was at.
LEMMA TaskGoes ==
  ASSUME TaskInv, NEW w \in Runners, NEW pc, T!Goto(w, pc), NEW v \in Runners
  PROVE  /\ v = w => op'[v].pc = pc
         /\ v # w => op'[v] = op[v]
         /\ op'[v].at = op[v].at
BY DEF TaskInv, TaskRun, T!Goto

\* The lock passes from a run that is not late only when it ends.
LEMMA LocksKept ==
  ASSUME TaskInv, T!MCNext, op' \in [Runners -> TaskRun], NEW v \in Runners
  PROVE  HasLock(v)'
<1>0. /\ op \in [Runners -> TaskRun] /\ HasLock(v)
      /\ lock \in [token : Runners, live : BOOLEAN] \cup {None}
  BY DEF TaskInv
<1>1. /\ \A w \in late : op'[w].pc \in {"handler", "release"} => w \in late'
      /\ T!Mine(v) /\ T!Held /\ lock' # None /\ ~lock'.live /\ op'[v].pc \in {"handler", "release"}
           => v \in late'
  BY DEF T!MCNext
<1>2. CASE /\ lock' = lock
           /\ op'[v].pc \in {"handler", "release"} => op[v].pc \in {"handler", "release"}
  BY <1>0, <1>1, <1>2 DEF HasLock
<1>3. ASSUME NEW s \in Schedulers, T!Start(s) \/ T!Stop(s)
      PROVE  HasLock(v)'
  BY <1>2, <1>3 DEF T!Start, T!Stop
<1>4. ASSUME NEW s \in Schedulers, NEW w \in Runners, T!Fire(s, w)
      PROVE  HasLock(v)'
  BY <1>0, <1>4, <1>2 DEF T!Fire
<1>5. ASSUME NEW w \in Runners, T!Acquire(w)
      PROVE  HasLock(v)'
  <2>1. CASE T!Held
    BY <1>5, <2>1, TaskGoes, <1>2 DEF T!Acquire
  <2>2. CASE ~T!Held
    <3>1. lock' = [token |-> w, live |-> TRUE] /\ (v # w => op'[v] = op[v])
      BY <1>5, <2>2, TaskGoes DEF T!Acquire
    <3>2. lock' # None
      <4>1. lock' \in [token : Runners, live : BOOLEAN]
        BY <3>1
      <4> QED
        BY <4>1, PlatformConstants
    <3>3. CASE v = w
      BY <3>1, <3>2, <3>3 DEF HasLock
    <3>4. CASE v # w
      BY <1>0, <1>1, <2>2, <3>1, <3>4 DEF HasLock, T!Held
    <3> QED
      BY <3>3, <3>4
  <2> QED
    BY <2>1, <2>2
<1>6. ASSUME NEW w \in Runners, T!AcquireFails(w) \/ T!Finish(w)
      PROVE  HasLock(v)'
  BY <1>0, <1>6, <1>2 DEF T!AcquireFails, T!Finish, T!Idle
<1>7. ASSUME NEW w \in Runners, T!HandlerEnds(w)
      PROVE  HasLock(v)'
  BY <1>7, TaskGoes, <1>2 DEF T!HandlerEnds, T!At
<1>8. ASSUME NEW w \in Runners, T!RenewTooLate(w)
      PROVE  HasLock(v)'
  BY <1>0, <1>1, <1>8 DEF T!RenewTooLate, T!Mine, T!At, HasLock
<1>9. ASSUME NEW w \in Runners, T!Release(w)
      PROVE  HasLock(v)'
  BY <1>9, TaskGoes, <1>2, <1>0, <1>1 DEF T!Release, T!At, T!Releasable, HasLock, T!Mine
<1>10. CASE T!Expire
  BY <1>10, <1>0, PlatformConstants, <1>1 DEF T!Expire, T!Held, HasLock, T!Mine
<1> QED
  BY <1>3, <1>4, <1>5, <1>6, <1>7, <1>8, <1>9, <1>10 DEF T!MCNext, T!Next

\* The runs and the timers of a scheduler.
TaskChain(s) ==
  IsFiniteSet(T!RunsOf(s)) /\ Paid(s) /\ (s \notin disturbed => Chained(s))

LEMMA ChainFacts ==
  ASSUME TaskInv, NEW s \in Schedulers
  PROVE  /\ MaxTimers \in Nat /\ left \in Nat /\ stray[s] \in Nat /\ tracked[s] \in BOOLEAN
         /\ running[s] \in BOOLEAN /\ completed[s] \in BOOLEAN
         /\ Cardinality(T!RunsOf(s)) \in Nat /\ TaskChain(s)
BY FS_CardinalityType, PlatformConstants DEF TaskInv, TaskChain

LEMMA Disturbances ==
  ASSUME T!MCNext
  PROVE  /\ disturbed \subseteq disturbed'
         /\ \A s \in Schedulers : running'[s] /\ ~running[s] /\ T!RunsOf(s) # {} => s \in disturbed'
         /\ \A w \in Runners : T!At(w, "acquire") /\ op'[w].pc = "idle" => op[w].at \in disturbed'
  BY DEF T!MCNext

\* Arming a timer.
LEMMA TimerArmed ==
  ASSUME TaskInv, NEW r \in Schedulers, T!Schedule(r), NEW s \in Schedulers
  PROVE  /\ s # r => tracked'[s] = tracked[s] /\ stray'[s] = stray[s]
         /\ s = r => tracked'[s] /\ stray'[s] = stray[s] + (IF tracked[s] THEN 1 ELSE 0)
  BY DEF TaskInv, T!Schedule

\* A step that leaves a scheduler's runs and timers as they are.
LEMMA ChainElsewhere ==
  ASSUME TaskInv, T!MCNext, NEW s \in Schedulers, T!RunsOf(s)' = T!RunsOf(s), left' \in Nat, left' <= left,
         stray'[s] = stray[s], tracked'[s] = tracked[s], running'[s] = running[s], completed'[s] = completed[s]
  PROVE  TaskChain(s)'
<1>1. disturbed \subseteq disturbed'
  BY Disturbances
<1> DEFINE n == Cardinality(T!RunsOf(s))
<1>2. /\ MaxTimers \in Nat /\ left \in Nat /\ stray[s] \in Nat /\ n \in Nat /\ TaskChain(s)
      /\ Cardinality(T!RunsOf(s)') = n
  BY ChainFacts
<1> HIDE DEF n
<1>3. Paid(s)'
  BY <1>2 DEF TaskChain, Paid, Timers, n
<1> QED
  BY <1>1, <1>2, <1>3 DEF TaskChain, Chained, Timers, Due, n

LEMMA StartChains ==
  ASSUME TaskInv, T!MCNext, NEW r \in Schedulers, T!Start(r), NEW s \in Schedulers
  PROVE  TaskChain(s)'
<1> DEFINE n == Cardinality(T!RunsOf(s))
<1>1. T!RunsOf(s)' = T!RunsOf(s) /\ IsFiniteSet(T!RunsOf(s))
  BY DEF T!Start, T!RunsOf, TaskInv
<1>2. /\ MaxTimers \in Nat /\ left \in Nat /\ stray[s] \in Nat /\ n \in Nat /\ TaskChain(s)
      /\ tracked[s] \in BOOLEAN /\ completed[s] \in BOOLEAN
  BY ChainFacts
<1>3. /\ left' = left - 1 /\ left' \in Nat /\ completed' = completed /\ ~running[r]
      /\ running'[s] = (IF s = r THEN TRUE ELSE running[s])
  BY <1>2 DEF T!Start, T!Spend, T!Toll, TaskInv
<1>4. disturbed \subseteq disturbed'
  BY Disturbances
<1>5. CASE s # r \/ completed[s]
  BY <1>5, TimerArmed, <1>1, <1>2, <1>3, ChainElsewhere, <1>4 DEF T!Start, T!Unscheduled, Timers,
     Due, TaskChain, Paid, Chained
<1>6. CASE s = r /\ ~completed[s]
  <2>1. tracked'[s] /\ stray'[s] = stray[s] + (IF tracked[s] THEN 1 ELSE 0)
    BY <1>6, TimerArmed DEF T!Start
  <2>2. Paid(s)'
    BY <1>2, <2>1, <1>1, <1>3 DEF Timers, TaskChain, Paid
  <2>3. ASSUME s \notin disturbed'
        PROVE  Chained(s)'
    <3>1. T!RunsOf(s) = {}
      BY <1>3, <1>6, <2>3, Disturbances
    <3>2. Cardinality(T!RunsOf(s)') = 0
      BY <1>1, <3>1, FS_EmptySet
    <3>3. stray[s] = 0 /\ ~tracked[s]
      BY <1>2, <1>3, <1>4, <1>6, <2>3 DEF TaskChain, Chained, Due
    <3>4. Due(s)' /\ Timers(s)' = 1 /\ stray'[s] = 0
      BY <1>3, <1>6, <2>1, <3>3 DEF Due, Timers
    <3> QED
      BY <3>2, <3>4 DEF Chained
  <2> QED
    BY <1>1, <2>2, <2>3 DEF TaskChain
<1> QED
  BY <1>2, <1>5, <1>6

LEMMA StopChains ==
  ASSUME TaskInv, T!MCNext, NEW r \in Schedulers, T!Stop(r), NEW s \in Schedulers
  PROVE  TaskChain(s)'
<1> DEFINE n == Cardinality(T!RunsOf(s))
<1>1. T!RunsOf(s)' = T!RunsOf(s) /\ IsFiniteSet(T!RunsOf(s))
  BY DEF T!Stop, T!RunsOf, TaskInv
<1>2. /\ MaxTimers \in Nat /\ left \in Nat /\ stray[s] \in Nat /\ n \in Nat /\ TaskChain(s)
      /\ tracked[s] \in BOOLEAN /\ completed[s] \in BOOLEAN
  BY ChainFacts
<1>3. /\ left' = left - 1 /\ left' \in Nat /\ completed' = completed /\ stray' = stray
      /\ s # r => running'[s] = running[s] /\ tracked'[s] = tracked[s]
      /\ s = r => ~running'[s] /\ ~tracked'[s]
  <2>1. left' = left - 1 /\ left > 0 /\ completed' = completed /\ stray' = stray
    BY DEF T!Stop, T!Spend, T!Toll
  <2>2. left' \in Nat
    BY <1>2, <2>1
  <2>3. /\ running \in [Schedulers -> BOOLEAN] /\ running' = [running EXCEPT ![r] = FALSE]
        /\ tracked \in [Schedulers -> BOOLEAN] /\ tracked' = [tracked EXCEPT ![r] = FALSE]
    BY DEF T!Stop, TaskInv
  <2> QED
    BY <2>1, <2>2, <2>3
<1>4. disturbed \subseteq disturbed'
  BY Disturbances
<1>5. CASE s # r
  BY <1>1, <1>2, <1>3, <1>5, ChainElsewhere
<1>6. CASE s = r
  BY <1>2, <1>3, <1>6, <1>1, <1>4 DEF Timers, TaskChain, Paid, Chained, Due
<1> QED
  BY <1>5, <1>6

LEMMA FireChains ==
  ASSUME TaskInv, T!MCNext, NEW r \in Schedulers, NEW w \in Runners, T!Fire(r, w), NEW s \in Schedulers
  PROVE  TaskChain(s)'
<1> DEFINE n == Cardinality(T!RunsOf(s))
<1>1. PICK self \in TaskRun : op' = [op EXCEPT ![w] = self] /\ self.at = r /\ op[w].at = None
  <2>1. [pc |-> "acquire", at |-> r] \in TaskRun
    BY DEF TaskRun, AtWork
  <2>2. op[w].at = None
    BY DEF T!Fire, TaskInv, TaskRun, AtWork, T!At
  <2> QED
    BY <2>1, <2>2 DEF T!Fire
<1>2. /\ MaxTimers \in Nat /\ left \in Nat /\ stray[s] \in Nat /\ n \in Nat /\ TaskChain(s)
      /\ tracked[s] \in BOOLEAN /\ completed[s] \in BOOLEAN
  BY ChainFacts
<1>3. /\ left' = left - 1 /\ left' \in Nat /\ completed' = completed /\ running' = running
      /\ s # r => stray'[s] = stray[s] /\ tracked'[s] = tracked[s]
      /\ s = r => /\ ~tracked'[s] /\ stray'[s] \in Nat
                  /\ \/ tracked[s] /\ stray'[s] = stray[s]
                     \/ stray[s] > 0 /\ stray'[s] = stray[s] - (IF tracked[s] THEN 0 ELSE 1)
  <2>1. left' = left - 1 /\ left > 0 /\ completed' = completed /\ running' = running
    BY DEF T!Fire, T!Spend, T!Toll
  <2>2. left' \in Nat
    BY <1>2, <2>1
  <2>3. /\ tracked \in [Schedulers -> BOOLEAN] /\ tracked' = [tracked EXCEPT ![r] = FALSE]
        /\ stray \in [Schedulers -> Nat]
        /\ \/ tracked[r] /\ stray' = stray
           \/ stray[r] > 0 /\ stray' = [stray EXCEPT ![r] = stray[r] - (IF tracked[r] THEN 0 ELSE 1)]
    BY DEF T!Fire, TaskInv
  <2>4. s # r => stray'[s] = stray[s] /\ tracked'[s] = tracked[s]
    BY <2>3
  <2>5. s = r => \/ tracked[s] /\ stray'[s] = stray[s]
                 \/ stray[s] > 0 /\ stray'[s] = stray[s] - (IF tracked[s] THEN 0 ELSE 1)
    BY <2>3
  <2>6. s = r => stray'[s] \in Nat /\ ~tracked'[s]
    BY <1>2, <2>3, <2>5
  <2> QED
    BY <2>1, <2>2, <2>4, <2>5, <2>6
<1>4. disturbed \subseteq disturbed'
  BY Disturbances
<1>5. CASE s # r
  <2>1. T!RunsOf(s)' = T!RunsOf(s)
    <3>1. T!RunsOf(s)' = T!RunsOf(s) \ {w} /\ w \notin T!RunsOf(s)
      <4>1. self.at # s /\ op[w].at # s
        BY <1>1, <1>5, PlatformConstants
      <4> QED
        BY <1>1, <4>1, RunsMove
    <3> QED
      BY <3>1
  <2> QED
    BY <1>2, <1>3, <1>5, <2>1, ChainElsewhere
<1>6. CASE s = r
  <2>1. IsFiniteSet(T!RunsOf(s)') /\ Cardinality(T!RunsOf(s)') = n + 1
    <3>1. /\ IsFiniteSet(T!RunsOf(s)')
          /\ Cardinality(T!RunsOf(s)') =
               n + (IF self.at = s THEN 1 ELSE 0) - (IF op[w].at = s THEN 1 ELSE 0)
      BY <1>1, RunsCounted
    <3>2. op[w].at # s
      BY <1>1, PlatformConstants
    <3> QED
      BY <1>1, <1>2, <1>6, <3>1, <3>2
  <2> HIDE DEF n
  <2>2. Timers(s)' + 1 = Timers(s) /\ Timers(s) \in Nat /\ Timers(s)' \in Nat
    BY <1>2, <1>3, <1>6 DEF Timers
  <2>3. Paid(s)'
    BY <1>2, <1>3, <2>1, <2>2 DEF TaskChain, Paid, n
  <2>4. ASSUME s \notin disturbed'
        PROVE  Chained(s)'
    BY <1>2, <1>4, <2>4, <2>2, <1>3, <1>6, <2>1 DEF TaskChain, Chained, Timers, n, Due
  <2> QED
    BY <2>1, <2>3, <2>4 DEF TaskChain
<1> QED
  BY <1>5, <1>6

\* A run that goes on, or a step of the lock, leaves the chain alone.
LEMMA RunChains ==
  ASSUME TaskInv, T!MCNext, NEW s \in Schedulers,
         T!Expire \/ \E w \in Runners :
           T!Acquire(w) \/ T!HandlerEnds(w) \/ T!RenewTooLate(w) \/ T!Release(w)
  PROVE  TaskChain(s)'
<1>1. UNCHANGED <<running, completed, tracked, stray, left>>
  BY DEF T!Expire, T!Acquire, T!HandlerEnds, T!RenewTooLate, T!Release
<1>2. T!RunsOf(s)' = T!RunsOf(s)
  BY TaskGoes DEF T!Expire, T!Acquire, T!HandlerEnds, T!RenewTooLate, T!Release, T!RunsOf
<1>3. left \in Nat
  BY ChainFacts
<1> QED
  BY <1>1, <1>2, <1>3, ChainElsewhere

LEMMA EndChains ==
  ASSUME TaskInv, T!MCNext, NEW w \in Runners, T!AcquireFails(w) \/ T!Finish(w), NEW s \in Schedulers
  PROVE  TaskChain(s)'
<1> DEFINE n == Cardinality(T!RunsOf(s))
           at == op[w].at
<1>1. PICK self \in TaskRun :
        /\ op' = [op EXCEPT ![w] = self] /\ self = T!Idle /\ self.at = None
        /\ op[w].at \in Schedulers
  BY DEF T!Idle, TaskRun, T!AcquireFails, T!Finish, TaskInv, AtWork, T!At
<1>2. /\ MaxTimers \in Nat /\ left \in Nat /\ stray[s] \in Nat /\ n \in Nat /\ TaskChain(s)
      /\ tracked[s] \in BOOLEAN /\ completed[s] \in BOOLEAN /\ running[s] \in BOOLEAN
  BY ChainFacts
<1>3. /\ left' = left /\ running' = running
      /\ s # at => stray'[s] = stray[s] /\ tracked'[s] = tracked[s] /\ completed'[s] = completed[s]
  BY <1>1, TimerArmed DEF T!AcquireFails, T!Finish, T!Unscheduled, TaskInv
<1>4. disturbed \subseteq disturbed'
  BY Disturbances
<1>5. CASE s # at
  <2>1. T!RunsOf(s)' = T!RunsOf(s)
    <3>1. T!RunsOf(s)' = T!RunsOf(s) \ {w} /\ w \notin T!RunsOf(s)
      BY <1>1, <1>5, RunsMove, PlatformConstants
    <3> QED
      BY <3>1
  <2> QED
    BY <1>2, <1>3, <1>5, <2>1, ChainElsewhere
<1>6. CASE s = at
  <2>1. IsFiniteSet(T!RunsOf(s)') /\ Cardinality(T!RunsOf(s)') = n - 1
    <3>1. /\ IsFiniteSet(T!RunsOf(s)')
          /\ Cardinality(T!RunsOf(s)') =
               n + (IF self.at = s THEN 1 ELSE 0) - (IF op[w].at = s THEN 1 ELSE 0)
      BY <1>1, RunsCounted
    <3>2. self.at # s
      BY <1>1, PlatformConstants
    <3> QED
      BY <1>1, <1>2, <1>6, <3>1, <3>2
  <2>2. n >= 1
    BY <2>1, FS_CardinalityType, <1>2
  <2> HIDE DEF n, at
  <2>3. /\ Timers(s) \in Nat
        /\ Chained(s) => n = 1 /\ stray[s] = 0 /\ ~tracked[s]
    BY <1>2, <2>2 DEF Chained, Timers, n
  <2>4. CASE T!AcquireFails(w)
    BY <2>4, <1>1, <1>6, Disturbances, <1>2, <1>3, <2>1, <2>3 DEF T!AcquireFails, Timers, TaskInv,
       T!Idle, at, TaskChain, Paid, n
  <2>5. CASE T!Finish(w)
    <3>1. /\ completed'[s] = (completed[s] \/ kind = "once")
          /\ IF kind = "interval" /\ running[s]
             THEN tracked'[s] /\ stray'[s] = stray[s] + (IF tracked[s] THEN 1 ELSE 0)
             ELSE tracked'[s] = tracked[s] /\ stray'[s] = stray[s]
      BY <1>1, <1>6, <2>5, TimerArmed DEF T!Finish, T!Unscheduled, TaskInv, at
    <3>2. Timers(s)' = Timers(s) + (IF kind = "interval" /\ running[s] THEN 1 ELSE 0)
      BY <1>2, <3>1 DEF Timers
    <3>3. Paid(s)'
      BY <1>2, <1>3, <2>1, <2>3, <3>2 DEF TaskChain, Paid, n
    <3>4. ASSUME s \notin disturbed'
          PROVE  Chained(s)'
      BY <1>2, <1>4, <2>3, <3>4, <2>1, <3>1, <1>3, <3>2 DEF TaskChain, Due, TaskInv, Timers,
         Chained
    <3> QED
      BY <2>1, <3>3, <3>4 DEF TaskChain
  <2> QED
    BY <2>4, <2>5
<1> QED
  BY <1>5, <1>6

LEMMA TasksNext == TaskInv /\ T!MCNext => TaskInv'
<1> SUFFICES ASSUME TaskInv, T!MCNext
             PROVE  TaskInv'
  OBVIOUS
<1>1. T!Next
  BY DEF T!MCNext
<1>2. TaskShape' /\ op' \in [Runners -> TaskRun]
  BY <1>1, TaskShapes, TaskRuns
<1>3. \A w \in Runners : HasLock(w)'
  BY <1>2, LocksKept
<1>4. ASSUME NEW s \in Schedulers
      PROVE  TaskChain(s)'
  BY StartChains, StopChains, FireChains, EndChains, RunChains, <1>1 DEF T!Next
<1>5. disturbed' \subseteq Schedulers
  BY DEF TaskInv, TaskRun, T!At, T!MCNext
<1> QED
  BY <1>2, <1>3, <1>4, <1>5 DEF TaskInv, TaskShape, TaskChain

LEMMA TasksInit == T!MCInit => TaskInv
<1> SUFFICES ASSUME T!MCInit
             PROVE  TaskInv
  OBVIOUS
<1>1. op = [w \in Runners |-> T!Idle] /\ T!Idle \in TaskRun /\ T!Idle = [pc |-> "idle", at |-> None]
  BY DEF T!MCInit, T!Init, T!Idle, TaskRun
<1>2. ASSUME NEW s \in Schedulers
      PROVE  TaskChain(s)
  <2>1. T!RunsOf(s) = {}
    BY <1>1, PlatformConstants DEF T!RunsOf
  <2>2. IsFiniteSet(T!RunsOf(s)) /\ Cardinality(T!RunsOf(s)) = 0
    BY <2>1, FS_EmptySet
  <2>3. /\ stray[s] = 0 /\ ~tracked[s] /\ ~running[s] /\ left = MaxTimers /\ MaxTimers \in Nat
    BY PlatformConstants DEF T!MCInit, T!Init
  <2> QED
    BY <2>2, <2>3 DEF TaskChain, Paid, Chained, Timers, Due
<1>3. \A w \in Runners : HasLock(w)
  BY <1>1 DEF HasLock
<1> QED
  BY <1>1, <1>2, <1>3, PlatformConstants DEF TaskInv, TaskChain, T!MCInit, T!Init

-----------------------------------------------------------------------------
\* Sessions.

SignIn ==
  [pc : {"idle", "challenge", "issue", "consume", "fail", "user", "owner", "rotate", "revoke",
         "status", "password", "used", "signup", "create"},
   seen : S!Accounts \cup {None}, session : Sessions \cup {None},
   challenge : Challenges \cup {None}, value : Nat, status : S!Statuses \cup {None}]

Basis == [password : Nat, challenge : Challenges \cup {None}]

\* A request that a login challenge let in, and one that refreshes a session.
LetIn(self, c) == self.challenge = c /\ self.pc \in {"user", "issue"}

Refreshing(self, s) == self.session = s /\ self.pc \in {"owner", "rotate"}

Refreshers(s) == {w \in Workers : op[w].session = s /\ op[w].pc \in {"owner", "rotate"}}

\* What a request relies on was there when it was read.
Grounded(self) ==
  /\ self.pc # "idle" => left < MaxSignIns
  /\ self.pc \notin {"idle", "signup", "create"} => account # None
  /\ self.pc = "issue" => self.seen # None
  /\ self.pc \in {"signup", "create"} => self.challenge = None
  /\ self.pc \in {"consume", "fail", "user"} => self.challenge # None
  /\ self.pc \in {"consume", "fail"} => challenges[self.challenge] # None
  /\ self.pc = "fail" => self.value < MaxAttempts
  /\ self.pc \in {"owner", "rotate", "revoke"} => self.session # None
  /\ self.session # None => sessions[self.session] # None
  /\ self.pc \in {"owner", "rotate"} => self.value \in 1..sessions[self.session].made
  /\ self.pc = "status" => self.status # None

\* The rotations of a session, done and under way, were each asked for.
Rotations(s) ==
  /\ IsFiniteSet(Refreshers(s))
  /\ sessions[s] # None =>
       /\ sessions[s].made + Cardinality(Refreshers(s)) + left <= MaxSignIns
       /\ sessions[s].current <= sessions[s].made /\ sessions[s].previous <= sessions[s].made

\* Without overlapping refreshes they follow one another.
InTurn(s) ==
  /\ Cardinality(Refreshers(s)) <= 1
  /\ sessions[s] # None =>
       /\ sessions[s].current = sessions[s].made /\ sessions[s].previous + 1 = sessions[s].made
       /\ \A w \in Refreshers(s) : op[w].value = sessions[s].current

\* A challenge lets one request in, or has yielded one session, once it is consumed.
OneUse(c) ==
  LET users == {w \in Workers : LetIn(op[w], c)}
      made  == {s \in Sessions : basis[s] # None /\ basis[s].challenge = c}
  IN /\ users # {} \/ made # {} => challenges[c] # None /\ challenges[c].consumed
     /\ \A v, w \in users : v = w
     /\ \A s, t \in made : s = t
     /\ users = {} \/ made = {}

SessionInv ==
  /\ S!TypeOK
  /\ op \in [Workers -> SignIn]
  /\ basis \in [Sessions -> Basis \cup {None}]
  /\ overtaken \subseteq Sessions
  /\ signup.token + left <= MaxSignIns
  /\ account = None => \A c \in Challenges : challenges[c] = None
  /\ \A w \in Workers : Grounded(op[w])
  /\ \A s \in Sessions :
       /\ sessions[s] = None <=> basis[s] = None
       /\ sessions[s] # None => account # None
       /\ Rotations(s)
       /\ s \notin raced => InTurn(s)
  /\ \A c \in Challenges : OneUse(c)
  /\ S!SignedOutUnlessOvertaken

LEMMA SessionCount ==
  ASSUME NEW ws
  PROVE  S!Cardinality(ws) = Cardinality(ws)
  BY Zenon DEF Cardinality, S!Cardinality

LEMMA SessionBounds ==
  ASSUME SessionInv
  PROVE  MaxSignIns \in Nat /\ MaxAttempts \in Nat /\ left \in Nat
  BY PlatformConstants DEF SessionInv, S!TypeOK

LEMMA SessionsImplied ==
  ASSUME SessionInv
  PROVE  /\ S!TypeOK /\ S!SignedOutUnlessOvertaken /\ S!OneSessionPerChallenge
         /\ S!HandedOutUnlessRaced
<1>1. S!OneSessionPerChallenge
  <2> SUFFICES ASSUME NEW s \in Sessions, NEW t \in Sessions, s # t,
                      basis[s] # None, basis[t] # None, basis[s].challenge # None,
                      basis[s].challenge = basis[t].challenge
               PROVE  FALSE
    BY DEF S!OneSessionPerChallenge
  <2>1. basis[s].challenge \in Challenges
    BY DEF SessionInv, Basis
  <2> QED
    BY <2>1 DEF SessionInv, OneUse
<1>2. S!HandedOutUnlessRaced
  BY DEF SessionInv, InTurn, S!HandedOutUnlessRaced, S!LiveSessions
<1> QED
  BY <1>1, <1>2 DEF SessionInv

\* Revoking changes nothing else.
LEMMA RevokedRow ==
  ASSUME NEW it \in S!SessionRows \cup {None}
  PROVE  /\ S!Revoked(it) \in S!SessionRows \cup {None}
         /\ S!Revoked(it) = None <=> it = None
         /\ it # None => /\ S!Revoked(it).revoked /\ S!Revoked(it).made = it.made
                         /\ S!Revoked(it).current = it.current
                         /\ S!Revoked(it).previous = it.previous
  BY PlatformConstants DEF S!Revoked, S!SessionRows

\* What becomes of a session in a step: an old one is never made new.
Stays(it, now) ==
  /\ now \in S!SessionRows \cup {None}
  /\ now = None <=> it = None
  /\ it # None => /\ now.made = it.made /\ now.current = it.current
                  /\ now.previous = it.previous /\ (it.revoked => now.revoked)

Opened == [current |-> 1, previous |-> 0, made |-> 1, age |-> "live", revoked |-> FALSE]

SessionMove(s) ==
  \/ Stays(sessions[s], sessions'[s])
  \/ /\ sessions[s] = None /\ sessions'[s] = Opened /\ \E w \in Workers : S!Issue(w, s)
  \/ \E w \in Workers :
       /\ S!Rotate(w) /\ op[w].session = s
       /\ sessions'[s] = S!Rotated(sessions[s], op[w].value)

LEMMA StaysSame ==
  ASSUME SessionInv, NEW s \in Sessions
  PROVE  /\ sessions[s] \in S!SessionRows \cup {None}
         /\ Stays(sessions[s], sessions[s])
         /\ Stays(sessions[s], S!Revoked(sessions[s]))
BY RevokedRow DEF SessionInv, S!TypeOK, Stays

\* The steps that leave every session alone, and those that revoke some.
SessionsRest(w) ==
  \/ S!LoginRead(w) \/ S!FailChallenge(w) \/ S!ConsumeChallenge(w) \/ S!ReadUser(w)
  \/ S!RefreshOwner(w) \/ S!ResetRead(w) \/ S!ConsumeReset(w) \/ S!RequestReset(w)
  \/ S!VerifyReset(w) \/ S!VerifySignup(w) \/ S!ConsumeSignup(w) \/ S!CreateAccount(w)
  \/ \E c \in Challenges : S!Challenge(w, c) \/ \E right \in BOOLEAN : S!VerifyRead(w, c, right)
  \/ \E s \in Sessions : S!ChangeRead(w, s)
  \/ \E s \in Sessions, t \in 1..MaxSignIns : S!RefreshRead(w, s, t)
  \/ \E to \in S!Statuses : S!StatusRead(w, to)
  \/ \E t \in 1..MaxSignIns : S!RegisterRead(w, t)
  \/ \E on \in BOOLEAN : S!SetMfa(w, on)

SessionsEnd(w) ==
  \/ S!RevokeWrite(w) \/ S!StatusWrite(w) \/ S!PasswordWrite(w)
  \/ \E s \in Sessions : S!Logout(w, s)
  \/ \E s \in Sessions \cup {None} : S!RevokeAll(w, s)

LEMMA SessionCases ==
  ASSUME S!Next
  PROVE  \/ \E w \in Workers : SessionsRest(w) \/ SessionsEnd(w) \/ S!Rotate(w)
         \/ \E w \in Workers, s \in Sessions : S!Issue(w, s)
         \/ \E s \in Sessions : S!Age(s)
         \/ \E c \in Challenges : S!Lapse(c)
  BY Zenon DEF S!Next, SessionsRest, SessionsEnd

LEMMA SessionsRested ==
  ASSUME NEW w, SessionsRest(w)
  PROVE  sessions' = sessions
  BY DEF SessionsRest, S!LoginRead, S!FailChallenge, S!ConsumeChallenge, S!ReadUser, S!RefreshOwner,
     S!ResetRead, S!ConsumeReset, S!RequestReset, S!VerifyReset, S!VerifySignup, S!ConsumeSignup,
     S!CreateAccount, S!Challenge, S!VerifyRead, S!ChangeRead, S!RefreshRead, S!StatusRead,
     S!RegisterRead, S!SetMfa

LEMMA SessionsEnded ==
  ASSUME SessionInv, NEW w \in Workers, SessionsEnd(w), NEW s \in Sessions
  PROVE  sessions'[s] \in {sessions[s], S!Revoked(sessions[s])}
<1>1. sessions \in [Sessions -> S!SessionRows \cup {None}]
  BY DEF SessionInv, S!TypeOK
<1>2. ASSUME NEW r, sessions' = S!AllRevoked(r)
      PROVE  sessions'[s] \in {sessions[s], S!Revoked(sessions[s])}
  BY <1>2 DEF S!AllRevoked
<1>3. ASSUME NEW r, sessions' = [sessions EXCEPT ![r] = S!Revoked(@)]
      PROVE  sessions'[s] \in {sessions[s], S!Revoked(sessions[s])}
  BY <1>1, <1>3
<1>4. CASE sessions' = sessions
  BY <1>4
<1>5. CASE S!RevokeWrite(w) \/ \E r \in Sessions : S!Logout(w, r)
  BY <1>3, <1>5 DEF S!RevokeWrite, S!Logout
<1>6. CASE S!StatusWrite(w) \/ S!PasswordWrite(w) \/ \E r \in Sessions \cup {None} : S!RevokeAll(w, r)
  BY <1>2, <1>4, <1>6 DEF S!StatusWrite, S!PasswordWrite, S!RevokeAll
<1> QED
  BY <1>5, <1>6 DEF SessionsEnd

LEMMA SessionMoves ==
  ASSUME SessionInv, S!Next, NEW s \in Sessions
  PROVE  SessionMove(s)
<1>1. sessions \in [Sessions -> S!SessionRows \cup {None}]
  BY DEF SessionInv, S!TypeOK
<1>2. CASE sessions'[s] \in {sessions[s], S!Revoked(sessions[s])}
  BY <1>2, StaysSame DEF SessionMove
<1>3. CASE \E w \in Workers : SessionsRest(w) \/ SessionsEnd(w)
  BY <1>2, <1>3, SessionsRested, SessionsEnded
<1>4. ASSUME NEW w \in Workers, S!Rotate(w)
      PROVE  SessionMove(s)
  BY <1>1, <1>4, <1>2 DEF S!Rotate, SessionMove
<1>5. ASSUME NEW w \in Workers, NEW r \in Sessions, S!Issue(w, r)
      PROVE  SessionMove(s)
  BY <1>2, <1>1, <1>5 DEF S!Issue, SessionMove, Opened
<1>6. ASSUME NEW r \in Sessions, S!Age(r)
      PROVE  SessionMove(s)
  <2>1. PICK age \in {"stale", "over"} : sessions' = [sessions EXCEPT ![r].age = age]
    BY <1>6 DEF S!Age
  <2>2. CASE s # r
    BY <1>1, <1>2, <2>1, <2>2
  <2>3. CASE s = r
    <3> DEFINE it == sessions[s]
    <3>1. it \in S!SessionRows /\ sessions'[s] = [it EXCEPT !.age = age]
      BY <1>1, <1>6, <2>1, <2>3 DEF S!Age
    <3> HIDE DEF it
    <3>2. Stays(it, [it EXCEPT !.age = age])
      BY <3>1, PlatformConstants DEF Stays, S!SessionRows
    <3> QED
      BY <3>1, <3>2 DEF SessionMove, it
  <2> QED
    BY <2>2, <2>3
<1>7. CASE \E c \in Challenges : S!Lapse(c)
  BY <1>2, <1>7 DEF S!Lapse
<1> QED
  BY <1>3, <1>4, <1>5, <1>6, <1>7, SessionCases

\* Nothing that a request relies on goes away.
Lasting ==
  /\ left' \in Nat /\ left' <= left
  /\ account # None => account' # None
  /\ \A c \in Challenges :
       challenges[c] # None =>
         challenges'[c] # None /\ (challenges[c].consumed => challenges'[c].consumed)
  /\ \A s \in Sessions :
       sessions[s] # None => /\ sessions'[s] # None /\ sessions'[s].made \in Nat
                            /\ sessions'[s].made >= sessions[s].made

\* The account and the challenges in a step.
LEMMA AccountMoves ==
  ASSUME SessionInv, S!Next
  PROVE  /\ account' \in S!Accounts \cup {None}
         /\ account # None => account' # None
         /\ account' # account =>
              \/ account = None /\ \E w \in Workers : S!CreateAccount(w)
              \/ account # None /\ \E w \in Workers : S!StatusWrite(w) \/ S!PasswordWrite(w)
              \/ account # None /\ \E w \in Workers, on \in BOOLEAN : S!SetMfa(w, on)
<1>0. account \in S!Accounts \cup {None}
  BY DEF SessionInv, S!TypeOK
<1>1. CASE account' = account
  BY <1>0, <1>1
<1>2. ASSUME NEW w \in Workers, S!CreateAccount(w)
      PROVE  account' = account \/ (account = None /\ account' \in S!Accounts)
  <2>1. S!Fresh \in S!Accounts
    BY DEF S!Accounts, S!Fresh, S!Statuses
  <2>2. account' = account \/ (account = None /\ account' = S!Fresh)
    BY <1>2 DEF S!CreateAccount
  <2> QED
    BY <2>1, <2>2
<1>3. ASSUME NEW w \in Workers, S!StatusWrite(w)
      PROVE  account # None /\ account' \in S!Accounts
  BY <1>3, <1>0 DEF SessionInv, Grounded, SignIn, S!StatusWrite, S!At, S!Accounts
<1>4. ASSUME NEW w \in Workers, S!PasswordWrite(w)
      PROVE  account # None /\ account' \in S!Accounts
  BY <1>4, <1>0 DEF SessionInv, Grounded, S!PasswordWrite, S!At, S!Accounts
<1>5. ASSUME NEW w \in Workers, NEW on \in BOOLEAN, S!SetMfa(w, on)
      PROVE  account # None /\ account' \in S!Accounts
  BY <1>0, <1>5 DEF S!SetMfa, S!Accounts, S!Found
<1>6. \/ account' = account
      \/ \E w \in Workers : S!CreateAccount(w) \/ S!StatusWrite(w) \/ S!PasswordWrite(w)
      \/ \E w \in Workers, on \in BOOLEAN : S!SetMfa(w, on)
  <2>1. ASSUME NEW w \in Workers, SessionsRest(w)
        PROVE  account' = account \/ S!CreateAccount(w) \/ \E on \in BOOLEAN : S!SetMfa(w, on)
    BY <2>1 DEF SessionsRest, S!LoginRead, S!FailChallenge, S!ConsumeChallenge, S!ReadUser, S!RefreshOwner,
       S!ResetRead, S!ConsumeReset, S!RequestReset, S!VerifyReset, S!VerifySignup, S!ConsumeSignup,
       S!Challenge, S!VerifyRead, S!ChangeRead, S!RefreshRead, S!StatusRead, S!RegisterRead
  <2>2. ASSUME NEW w \in Workers, SessionsEnd(w)
        PROVE  account' = account \/ S!StatusWrite(w) \/ S!PasswordWrite(w)
    BY <2>2 DEF SessionsEnd, S!RevokeWrite, S!Logout, S!RevokeAll
  <2>3. (\E w \in Workers : S!Rotate(w)) \/ (\E w \in Workers, s \in Sessions : S!Issue(w, s))
        \/ (\E s \in Sessions : S!Age(s)) \/ (\E c \in Challenges : S!Lapse(c)) => account' = account
    BY DEF S!Rotate, S!Issue, S!Age, S!Lapse
  <2> QED
    BY <2>1, <2>2, <2>3, SessionCases
<1> QED
  BY <1>1, <1>2, <1>3, <1>4, <1>5, <1>6, PlatformConstants

\* What becomes of a challenge.
ChallengeMove(c) ==
  /\ challenges'[c] \in S!LoginChallenges \cup {None}
  /\ challenges[c] = None /\ challenges'[c] # None =>
       ~challenges'[c].consumed /\ \E w \in Workers : S!Challenge(w, c)
  /\ challenges[c] # None =>
       /\ challenges'[c] # None /\ (challenges[c].consumed => challenges'[c].consumed)
       /\ challenges'[c].consumed /\ ~challenges[c].consumed =>
            \E w \in Workers : S!ConsumeChallenge(w) /\ op[w].challenge = c

LEMMA ChallengeMoves ==
  ASSUME SessionInv, S!Next, NEW c \in Challenges
  PROVE  ChallengeMove(c)
<1>0. /\ challenges \in [Challenges -> S!LoginChallenges \cup {None}]
      /\ challenges[c] \in S!LoginChallenges \cup {None}
  BY DEF SessionInv, S!TypeOK
<1>1. CASE challenges'[c] = challenges[c]
  BY <1>0, <1>1 DEF ChallengeMove
<1>2. ASSUME NEW w \in Workers, NEW d \in Challenges, S!Challenge(w, d)
      PROVE  ChallengeMove(c)
  <2>1. [attempts |-> 0, consumed |-> FALSE, live |-> TRUE] \in S!LoginChallenges
    BY SessionBounds DEF S!LoginChallenges
  <2>2. CASE c = d
    BY <1>0, <1>2, <2>1, <2>2 DEF S!Challenge, ChallengeMove
  <2>3. CASE c # d
    BY <1>0, <1>1, <1>2, <2>3 DEF S!Challenge
  <2> QED
    BY <2>2, <2>3
<1>3. ASSUME NEW w \in Workers, S!FailChallenge(w)
      PROVE  ChallengeMove(c)
  <2>1. /\ op[w].challenge \in Challenges /\ challenges[op[w].challenge] # None
        /\ op[w].value \in Nat /\ op[w].value < MaxAttempts
    BY <1>3 DEF S!FailChallenge, S!At, SessionInv, SignIn, Grounded
  <2>2. challenges' = [challenges EXCEPT ![op[w].challenge].attempts = op[w].value + 1]
    BY <1>3 DEF S!FailChallenge
  <2>3. CASE c = op[w].challenge
    <3> DEFINE it == challenges[c]
               n == op[w].value + 1
    <3>1. it \in S!LoginChallenges /\ challenges'[c] = [it EXCEPT !.attempts = n]
      BY <1>0, <2>1, <2>2, <2>3
    <3>2. n \in 0..MaxAttempts
      BY <2>1, SessionBounds
    <3> HIDE DEF it, n
    <3>3. /\ [it EXCEPT !.attempts = n] \in S!LoginChallenges
          /\ [it EXCEPT !.attempts = n].consumed = it.consumed
      BY <3>1, <3>2 DEF S!LoginChallenges
    <3>4. it # None /\ challenges'[c] # None /\ challenges'[c].consumed = it.consumed
      BY <3>1, <3>3, PlatformConstants
    <3> QED
      BY <3>1, <3>3, <3>4 DEF ChallengeMove, it
  <2>4. CASE c # op[w].challenge
    BY <1>0, <1>1, <2>2, <2>4
  <2> QED
    BY <2>3, <2>4
<1>4. ASSUME NEW w \in Workers, S!ConsumeChallenge(w)
      PROVE  ChallengeMove(c)
  <2>1. op[w].challenge \in Challenges /\ challenges[op[w].challenge] # None
    BY <1>4 DEF S!ConsumeChallenge, S!At, SessionInv, SignIn, Grounded
  <2>2. CASE challenges' = [challenges EXCEPT ![op[w].challenge].consumed = TRUE] /\ c = op[w].challenge
    <3> DEFINE it == challenges[c]
    <3>1. it \in S!LoginChallenges /\ challenges'[c] = [it EXCEPT !.consumed = TRUE]
      BY <1>0, <2>1, <2>2
    <3> HIDE DEF it
    <3>2. /\ [it EXCEPT !.consumed = TRUE] \in S!LoginChallenges
          /\ [it EXCEPT !.consumed = TRUE].consumed
      BY <3>1 DEF S!LoginChallenges
    <3>3. it # None /\ challenges'[c] # None
      BY <3>1, <3>2, PlatformConstants
    <3> QED
      BY <1>4, <2>2, <3>1, <3>2, <3>3 DEF ChallengeMove, it
  <2>3. CASE challenges' = challenges \/ c # op[w].challenge
    BY <1>0, <1>1, <1>4, <2>3 DEF S!ConsumeChallenge
  <2> QED
    BY <1>4, <2>2, <2>3 DEF S!ConsumeChallenge
<1>5. ASSUME NEW d \in Challenges, S!Lapse(d)
      PROVE  ChallengeMove(c)
  <2>1. CASE c # d
    BY <1>0, <1>1, <1>5, <2>1 DEF S!Lapse
  <2>2. CASE c = d
    <3> DEFINE it == challenges[c]
    <3>1. it \in S!LoginChallenges /\ challenges'[c] = [it EXCEPT !.live = FALSE]
      BY <1>0, <1>5, <2>2 DEF S!Lapse
    <3> HIDE DEF it
    <3>2. /\ [it EXCEPT !.live = FALSE] \in S!LoginChallenges
          /\ [it EXCEPT !.live = FALSE].consumed = it.consumed
      BY <3>1 DEF S!LoginChallenges
    <3>3. it # None /\ challenges'[c] # None
      BY <3>1, <3>2, PlatformConstants
    <3> QED
      BY <3>1, <3>2, <3>3 DEF ChallengeMove, it
  <2> QED
    BY <2>1, <2>2
<1>6. ASSUME NEW w \in Workers, SessionsRest(w)
      PROVE  \/ challenges' = challenges \/ S!FailChallenge(w) \/ S!ConsumeChallenge(w)
             \/ \E d \in Challenges : S!Challenge(w, d)
  BY <1>6 DEF SessionsRest, S!LoginRead, S!ReadUser, S!RefreshOwner, S!CreateAccount,
     S!ResetRead, S!ConsumeReset, S!RequestReset, S!VerifyReset, S!VerifySignup, S!ConsumeSignup,
     S!VerifyRead, S!ChangeRead, S!RefreshRead, S!StatusRead, S!RegisterRead, S!SetMfa
<1>7. ASSUME NEW w \in Workers, SessionsEnd(w)
      PROVE  challenges' = challenges
  BY <1>7 DEF SessionsEnd, S!RevokeWrite, S!StatusWrite, S!PasswordWrite, S!Logout, S!RevokeAll
<1>8. \/ \E w \in Workers : S!Rotate(w)
      \/ \E w \in Workers, s \in Sessions : S!Issue(w, s)
      \/ \E s \in Sessions : S!Age(s)
      => challenges' = challenges
  BY DEF S!Rotate, S!Issue, S!Age
<1> QED
  BY <1>1, <1>2, <1>3, <1>4, <1>5, <1>6, <1>7, <1>8, SessionCases

LEMMA BudgetMoves ==
  ASSUME SessionInv, S!Next
  PROVE  left' \in 0..MaxSignIns /\ faults' \in 0..MaxFaults /\ left' <= left
<1>1. left \in 0..MaxSignIns /\ faults \in 0..MaxFaults /\ MaxSignIns \in Nat /\ MaxFaults \in Nat
  BY PlatformConstants DEF SessionInv, S!TypeOK
<1>2. ASSUME NEW w \in Workers, SessionsRest(w)
      PROVE  (left' = left \/ (left > 0 /\ left' = left - 1)) /\ faults' = faults
  BY <1>2 DEF SessionsRest, S!LoginRead, S!FailChallenge, S!ConsumeChallenge, S!ReadUser, S!RefreshOwner,
     S!ResetRead, S!ConsumeReset, S!RequestReset, S!VerifyReset, S!VerifySignup, S!ConsumeSignup,
     S!CreateAccount, S!Challenge, S!VerifyRead, S!ChangeRead, S!RefreshRead, S!StatusRead,
     S!RegisterRead, S!SetMfa, S!Step, S!Receive
<1>3. ASSUME NEW w \in Workers, SessionsEnd(w)
      PROVE  (left' = left \/ (left > 0 /\ left' = left - 1)) /\ faults' = faults
  BY <1>3 DEF SessionsEnd, S!RevokeWrite, S!StatusWrite, S!PasswordWrite, S!Logout, S!RevokeAll,
     S!Step, S!Receive
<1>4. \/ \E w \in Workers : S!Rotate(w)
      \/ \E w \in Workers, s \in Sessions : S!Issue(w, s)
      \/ \E s \in Sessions : S!Age(s)
      \/ \E c \in Challenges : S!Lapse(c)
      => left' = left /\ (faults' = faults \/ (faults > 0 /\ faults' = faults - 1))
  BY DEF S!Rotate, S!Issue, S!Age, S!Lapse, S!Step
<1>5. /\ left' = left \/ (left > 0 /\ left' = left - 1)
      /\ faults' = faults \/ (faults > 0 /\ faults' = faults - 1)
  BY <1>2, <1>3, <1>4, SessionCases
<1> QED
  BY <1>1, <1>5

\* A rotation makes a token.
LEMMA RotationMade ==
  ASSUME SessionInv, NEW w \in Workers, S!Rotate(w), NEW s \in Sessions, op[w].session = s
  PROVE  LET it == sessions[s] now == S!Rotated(it, op[w].value) IN
         /\ it \in S!SessionRows /\ now # None /\ now \in S!SessionRows
         /\ now.made = it.made + 1 /\ now.current = it.made + 1 /\ now.previous = op[w].value
         /\ now.revoked = it.revoked
<1> DEFINE it == sessions[s]
           used == op[w].value
<1>1. it \in S!SessionRows \cup {None}
  BY DEF SessionInv, S!TypeOK
<1>2. it # None /\ used \in 1..it.made
  BY PlatformConstants DEF SessionInv, S!Rotate, S!At, Grounded
<1>3. it.made < MaxSignIns
  <2>1. w \in Refreshers(s)
    BY DEF S!Rotate, S!At, Refreshers
  <2>2. IsFiniteSet(Refreshers(s)) /\ it.made + Cardinality(Refreshers(s)) + left <= MaxSignIns
    BY <1>2 DEF SessionInv, Rotations
  <2>3. Cardinality(Refreshers(s)) \in Nat /\ Cardinality(Refreshers(s)) # 0
    BY <2>1, <2>2, FS_CardinalityType, FS_EmptySet
  <2>4. it.made \in Nat
    BY <1>1, <1>2 DEF S!SessionRows
  <2> HIDE DEF it
  <2> QED
    BY <2>2, <2>3, <2>4, SessionBounds
<1> HIDE DEF it, used
<1>4. it \in S!SessionRows
  BY <1>1, <1>2
<1>5. it.made \in 1..MaxSignIns /\ it.made + 1 \in 1..MaxSignIns /\ used \in 0..MaxSignIns
  BY <1>2, <1>3, <1>4, SessionBounds DEF S!SessionRows
<1>6. /\ S!Rotated(it, used) \in S!SessionRows
      /\ S!Rotated(it, used).made = it.made + 1 /\ S!Rotated(it, used).current = it.made + 1
      /\ S!Rotated(it, used).previous = used /\ S!Rotated(it, used).revoked = it.revoked
  BY <1>4, <1>5 DEF S!Rotated, S!SessionRows
<1> QED
  BY <1>4, <1>6, PlatformConstants DEF it, used

LEMMA SessionsLast ==
  ASSUME SessionInv, S!Next
  PROVE  Lasting
BY RotationMade, SessionMoves, BudgetMoves, SessionBounds, AccountMoves, ChallengeMoves DEF
   SessionInv, S!TypeOK, S!SessionRows, Stays, SessionMove, Lasting, ChallengeMove

\* How a request goes on: where it refreshes a session or was let in by a challenge, it
\* did so before, unless the step is the one that begins it.
GoesOn(before, self) ==
  /\ \A s \in Sessions : Refreshing(self, s) => Refreshing(before, s) /\ self.value = before.value
  /\ \A c \in Challenges : LetIn(self, c) => LetIn(before, c)

Begins(w, self) ==
  \/ \E s \in Sessions : /\ S!RefreshRead(w, s, sessions[s].current)
                        /\ self.session = s /\ self.value = sessions[s].current
                        /\ \A c \in Challenges : ~LetIn(self, c)
  \/ \E c \in Challenges : /\ S!ConsumeChallenge(w) /\ self.challenge = c /\ op[w].challenge = c
                          /\ ~challenges[c].consumed /\ challenges'[c].consumed
                          /\ \A s \in Sessions : ~Refreshing(self, s)

Request(w, self) ==
  /\ op' = [op EXCEPT ![w] = self] /\ Grounded(self)'
  /\ GoesOn(op[w], self) \/ Begins(w, self)

LEMMA IdleRequest ==
  /\ S!Idle \in SignIn /\ Grounded(S!Idle)'
  /\ \A before : GoesOn(before, S!Idle)
BY DEF S!Idle, SignIn, Grounded, GoesOn, Refreshing, LetIn

\* The requests that end, and those that only change the account or a code.
LEMMA RequestDone ==
  ASSUME NEW w \in Workers, S!Done(w)
  PROVE  \E self \in SignIn : Request(w, self)
  BY IdleRequest DEF S!Done, S!Become, Request

\* A request just received.
LEMMA RequestReceived ==
  ASSUME SessionInv, S!Next, NEW w \in Workers, S!Receive(w), NEW self \in SignIn, S!Become(w, self),
         self.pc \in {"idle", "challenge", "issue", "consume", "fail", "revoke",
                     "status", "password", "signup"},
         self.pc = "issue" => self.seen # None /\ self.challenge = None,
         self.pc \in {"consume", "fail"} =>
           self.challenge \in Challenges /\ challenges[self.challenge] # None /\ self.value < MaxAttempts,
         self.pc = "revoke" => self.session # None,
         self.pc = "signup" => self.challenge = None,
         self.session # None => sessions[self.session] # None,
         self.pc = "status" => self.status # None,
         self.pc \notin {"idle", "signup"} => account # None
  PROVE  \E it \in SignIn : Request(w, it)
<1>1. left' < MaxSignIns
  BY SessionBounds DEF SessionInv, S!TypeOK, S!Receive
<1>2. Grounded(self)'
  <2>1. self.session # None => self.session \in Sessions
    BY DEF SignIn
  <2>2. self.session # None => sessions'[self.session] # None
    BY <2>1, SessionsLast DEF Lasting
  <2>3. self.pc \in {"consume", "fail"} =>
          self.challenge # None /\ challenges'[self.challenge] # None
    BY SessionsLast, PlatformConstants DEF Lasting
  <2>4. self.pc \notin {"idle", "signup"} => account' # None
    BY SessionsLast DEF Lasting
  <2>5. self.pc \notin {"owner", "rotate", "user", "create"}
    OBVIOUS
  <2> HIDE DEF Lasting
  <2> QED
    BY <1>1, <2>2, <2>3, <2>4, <2>5 DEF Grounded
<1>3. GoesOn(op[w], self)
  BY PlatformConstants DEF GoesOn, Refreshing, LetIn
<1> QED
  BY <1>2, <1>3 DEF Request, S!Become

\* What it keeps saying.
LEMMA GroundKept ==
  ASSUME Lasting, NEW self \in SignIn, Grounded(self), SessionInv
  PROVE  Grounded(self)'
<1>1. /\ self.session # None => self.session \in Sessions
      /\ self.challenge # None => self.challenge \in Challenges
      /\ left' <= left /\ left \in Nat /\ left' \in Nat /\ MaxSignIns \in Nat
  BY SessionBounds DEF SignIn, Lasting
<1>2. self.pc # "idle" => left' < MaxSignIns
  BY <1>1 DEF Grounded
<1>3. self.pc \in {"owner", "rotate"} => self.value \in 1..sessions'[self.session].made
  <2> SUFFICES ASSUME self.pc \in {"owner", "rotate"}
               PROVE  self.value \in 1..sessions'[self.session].made
    OBVIOUS
  <2>1. self.session \in Sessions /\ sessions[self.session] # None
        /\ self.value \in 1..sessions[self.session].made
    BY <1>1 DEF Grounded
  <2>2. sessions[self.session].made \in Nat
    BY <2>1 DEF SessionInv, S!TypeOK, S!SessionRows
  <2> QED
    BY <2>1, <2>2 DEF Lasting
<1> QED
  BY <1>1, <1>2, <1>3 DEF Grounded, Lasting

LEMMA RequestGoesOn ==
  ASSUME SessionInv, S!Next, NEW w \in Workers, NEW pc, S!Goto(w, pc),
         \/ op[w].pc = "owner" /\ pc = "rotate"
         \/ op[w].pc = "password" /\ op[w].session = None /\ pc = "used"
         \/ op[w].pc = "signup" /\ pc = "create"
  PROVE  \E self \in SignIn : Request(w, self)
<1>1. PICK it \in SignIn : it = op[w] /\ Grounded(it)
  BY DEF SessionInv
<1>2. PICK self \in SignIn : self = [it EXCEPT !.pc = pc]
  BY DEF SignIn
<1>3. /\ self.pc = pc /\ self.seen = it.seen /\ self.session = it.session /\ self.value = it.value
      /\ self.challenge = it.challenge /\ op' = [op EXCEPT ![w] = self]
  BY <1>1, <1>2 DEF SignIn, S!Goto, S!Become
<1>4. Grounded(it)'
  BY <1>1, GroundKept, SessionsLast
<1>5. Grounded(self)'
  BY <1>1, <1>3, <1>4 DEF Grounded
<1>6. GoesOn(it, self)
  BY <1>1, <1>3 DEF GoesOn, Refreshing, LetIn
<1> QED
  BY <1>1, <1>3, <1>5, <1>6 DEF Request

LEMMA RequestMoves ==
  ASSUME SessionInv, S!Next
  PROVE  op' = op \/ \E w \in Workers : \E self \in SignIn : Request(w, self)
<1> DEFINE Goal == \E w \in Workers : \E self \in SignIn : Request(w, self)
<1>0. /\ op \in [Workers -> SignIn] /\ account \in S!Accounts \cup {None}
      /\ \A w \in Workers : Grounded(op[w])
      /\ \A s \in Sessions : sessions[s] # None => account # None
      /\ account = None => \A c \in Challenges : challenges[c] = None
      /\ \A s \in Sessions : sessions[s] \in S!SessionRows \cup {None}
      /\ \A c \in Challenges : challenges[c] \in S!LoginChallenges \cup {None}
  BY DEF SessionInv, S!TypeOK
<1>1. CASE op' = op
  BY <1>1
<1>2. ASSUME NEW w \in Workers, S!Done(w)
      PROVE  Goal
  BY <1>2, RequestDone
<1>3. ASSUME NEW w \in Workers, S!LoginRead(w)
      PROVE  Goal
  <2>1. PICK self \in SignIn :
          self = [S!Idle EXCEPT !.pc = IF account.mfa THEN "challenge" ELSE "issue", !.seen = account]
    BY <1>0 DEF S!Idle, SignIn
  <2>2. /\ self.pc \in {"challenge", "issue"} /\ self.seen = account /\ self.challenge = None
        /\ self.session = None
    BY <2>1 DEF S!Idle
  <2>3. S!Receive(w) /\ S!Become(w, self) /\ account # None
    BY <1>3, <2>1 DEF S!LoginRead, S!ActiveAccount, S!Found
  <2> QED
    BY <2>2, <2>3, RequestReceived
<1>4. ASSUME NEW w \in Workers, NEW c \in Challenges, NEW right \in BOOLEAN, S!VerifyRead(w, c, right)
      PROVE  Goal
  <2>1. challenges[c].attempts \in Nat /\ challenges[c].attempts < MaxAttempts /\ challenges[c] # None
    BY <1>0, <1>4, SessionBounds DEF S!VerifyRead, S!LoginChallenges
  <2>2. PICK self \in SignIn :
          self = [S!Idle EXCEPT !.pc = IF right THEN "consume" ELSE "fail",
                                !.challenge = c, !.value = challenges[c].attempts]
    BY <2>1 DEF S!Idle, SignIn
  <2>3. /\ self.pc \in {"consume", "fail"} /\ self.challenge = c /\ self.session = None
        /\ self.value = challenges[c].attempts
    BY <2>2 DEF S!Idle
  <2>4. S!Receive(w) /\ S!Become(w, self)
    BY <1>4, <2>2 DEF S!VerifyRead
  <2> QED
    BY <1>0, <2>1, <2>3, <2>4, RequestReceived
<1>5. ASSUME NEW w \in Workers, S!ConsumeChallenge(w)
      PROVE  Goal
  <2>1. S!Done(w) => Goal
    BY <1>2
  <2>2. CASE /\ S!Consumable(challenges[op[w].challenge]) /\ S!Goto(w, "user")
             /\ challenges' = [challenges EXCEPT ![op[w].challenge].consumed = TRUE]
    <3>1. PICK it \in SignIn : it = op[w] /\ Grounded(it)
      BY <1>0
    <3>2. PICK self \in SignIn : self = [it EXCEPT !.pc = "user"]
      BY DEF SignIn
    <3>3. /\ self.pc = "user" /\ self.seen = it.seen /\ self.session = it.session
          /\ self.challenge = it.challenge /\ op' = [op EXCEPT ![w] = self] /\ it.pc = "consume"
      BY <1>5, <2>2, <3>1, <3>2 DEF SignIn, S!Goto, S!Become, S!ConsumeChallenge, S!At
    <3>4. Grounded(it)'
      BY <3>1, GroundKept, SessionsLast
    <3>5. Grounded(self)'
      BY <3>1, <3>3, <3>4 DEF Grounded
    <3>6. self.challenge \in Challenges /\ challenges[self.challenge] # None
      BY <3>1, <3>3 DEF Grounded, SignIn
    <3>7. challenges'[self.challenge].consumed /\ ~challenges[self.challenge].consumed
      BY <1>0, <3>6, <2>2, <3>1, <3>3 DEF SessionInv, S!TypeOK, S!Consumable, S!LoginChallenges
    <3>8. Begins(w, self)
      BY <1>5, <3>1, <3>3, <3>6, <3>7 DEF Begins, Refreshing
    <3> QED
      BY <3>3, <3>5, <3>8 DEF Request
  <2> QED
    BY <1>5, <2>1, <2>2 DEF S!ConsumeChallenge
<1>6. ASSUME NEW w \in Workers, S!ReadUser(w)
      PROVE  Goal
  <2>1. S!Done(w) => Goal
    BY <1>2
  <2>2. CASE S!Found /\ S!Become(w, [op[w] EXCEPT !.pc = "issue", !.seen = account])
    <3>1. PICK it \in SignIn : it = op[w] /\ Grounded(it)
      BY <1>0
    <3>2. PICK self \in SignIn : self = [it EXCEPT !.pc = "issue", !.seen = account]
      BY <1>0 DEF SignIn
    <3>3. /\ self.pc = "issue" /\ self.seen = account /\ self.session = it.session
          /\ self.challenge = it.challenge /\ op' = [op EXCEPT ![w] = self] /\ it.pc = "user"
      BY <1>6, <2>2, <3>1, <3>2 DEF SignIn, S!Become, S!ReadUser, S!At
    <3>4. Grounded(it)'
      BY <3>1, GroundKept, SessionsLast
    <3>5. Grounded(self)'
      BY <2>2, <3>3, <3>4 DEF Grounded, S!Found
    <3>6. GoesOn(it, self)
      BY <3>3 DEF GoesOn, Refreshing, LetIn
    <3> QED
      BY <3>1, <3>3, <3>5, <3>6 DEF Request
  <2> QED
    BY <1>6, <2>1, <2>2 DEF S!ReadUser
<1>7. ASSUME NEW w \in Workers, S!CreateAccount(w)
      PROVE  Goal
  <2>1. S!Done(w) => Goal
    BY <1>2
  <2>2. CASE account' = S!Fresh /\ S!Become(w, [op[w] EXCEPT !.pc = "issue", !.seen = S!Fresh])
    <3>1. PICK it \in SignIn : it = op[w] /\ Grounded(it)
      BY <1>0
    <3>0. S!Fresh \in S!Accounts
      BY DEF S!Accounts, S!Fresh, S!Statuses
    <3>2. PICK self \in SignIn : self = [it EXCEPT !.pc = "issue", !.seen = S!Fresh]
      BY <3>0 DEF SignIn
    <3>3. /\ self.pc = "issue" /\ self.seen = S!Fresh /\ self.session = it.session
          /\ self.challenge = it.challenge /\ op' = [op EXCEPT ![w] = self] /\ it.pc = "create"
      BY <1>7, <2>2, <3>1, <3>2 DEF SignIn, S!Become, S!CreateAccount, S!At
    <3>4. Grounded(it)'
      BY <3>1, GroundKept, SessionsLast
    <3>5. Grounded(self)'
      BY <2>2, <3>0, <3>3, <3>4, PlatformConstants DEF Grounded
    <3>6. GoesOn(it, self)
      BY <3>1, <3>3, PlatformConstants DEF Grounded, GoesOn, Refreshing, LetIn
    <3> QED
      BY <3>1, <3>3, <3>5, <3>6 DEF Request
  <2> QED
    BY <1>7, <2>1, <2>2 DEF S!CreateAccount
<1>8. ASSUME NEW w \in Workers, NEW s \in Sessions, NEW t \in 1..MaxSignIns, S!RefreshRead(w, s, t)
      PROVE  Goal
  <2>1. sessions[s] # None /\ sessions[s] \in S!SessionRows /\ S!Receive(w) /\ t \in 1..sessions[s].made
    BY <1>0, <1>8 DEF S!RefreshRead
  <2>2. CASE S!Become(w, [S!Idle EXCEPT !.pc = "revoke", !.session = s])
    <3>1. PICK self \in SignIn : self = [S!Idle EXCEPT !.pc = "revoke", !.session = s]
      BY DEF S!Idle, SignIn
    <3>2. self.pc = "revoke" /\ self.session = s /\ s # None /\ account # None
      BY <1>0, <2>1, <3>1, PlatformConstants DEF S!Idle
    <3> QED
      BY <2>1, <2>2, <3>1, <3>2, RequestReceived
  <2>3. CASE /\ t = sessions[s].current
             /\ S!Become(w, [S!Idle EXCEPT !.pc = "owner", !.session = s, !.value = t])
    <3>1. PICK self \in SignIn : self = [S!Idle EXCEPT !.pc = "owner", !.session = s, !.value = t]
      <4>0. t \in Nat
        BY SessionBounds
      <4>1. [S!Idle EXCEPT !.pc = "owner", !.session = s, !.value = t] \in SignIn
        BY <4>0 DEF S!Idle, SignIn
      <4> QED
        BY <4>1
    <3>2. /\ self.pc = "owner" /\ self.session = s /\ self.value = t /\ self.challenge = None
      BY <3>1 DEF S!Idle
    <3>3. op' = [op EXCEPT ![w] = self] /\ UNCHANGED <<account, sessions>> /\ account # None /\ s # None
      BY <1>0, <1>8, <2>1, <2>3, <3>1, PlatformConstants DEF S!RefreshRead, S!Become
    <3>4. left' < MaxSignIns
      BY <2>1, SessionBounds DEF SessionInv, S!TypeOK, S!Receive
    <3>5. Grounded(self)'
      BY <2>1, <3>2, <3>3, <3>4 DEF Grounded
    <3>6. Begins(w, self)
      BY <1>8, <2>3, <3>2, PlatformConstants DEF Begins, LetIn
    <3> QED
      BY <3>3, <3>5, <3>6 DEF Request
  <2> QED
    BY <1>8, <2>2, <2>3 DEF S!RefreshRead
<1>9. ASSUME NEW w \in Workers, NEW to \in S!Statuses, S!StatusRead(w, to)
      PROVE  Goal
  <2>1. PICK self \in SignIn : self = [S!Idle EXCEPT !.pc = "status", !.status = to]
    BY DEF S!Idle, SignIn
  <2>2. self.pc = "status" /\ self.status = to /\ self.session = None
    BY <2>1 DEF S!Idle
  <2>3. S!Receive(w) /\ S!Become(w, self) /\ account # None
    BY <1>9, <2>1 DEF S!StatusRead, S!ActiveAccount, S!Found
  <2>4. to # None
    BY PlatformConstants DEF S!Statuses
  <2> QED
    BY <2>2, <2>3, <2>4, RequestReceived
<1>10. ASSUME NEW w \in Workers, NEW s \in Sessions, S!ChangeRead(w, s)
       PROVE  Goal
  <2>1. PICK self \in SignIn : self = [S!Idle EXCEPT !.pc = "password", !.session = s]
    BY DEF S!Idle, SignIn
  <2>2. self.pc = "password" /\ self.session = s /\ sessions[s] # None
    BY <1>10, <2>1 DEF S!Idle, S!ChangeRead
  <2>3. S!Receive(w) /\ S!Become(w, self) /\ account # None
    BY <1>10, <2>1 DEF S!ChangeRead, S!ActiveAccount, S!Found
  <2> QED
    BY <2>2, <2>3, RequestReceived
<1>11. ASSUME NEW w \in Workers, S!ResetRead(w)
       PROVE  Goal
  <2>1. PICK self \in SignIn : self = [S!Idle EXCEPT !.pc = "password"]
    BY DEF S!Idle, SignIn
  <2>2. self.pc = "password" /\ self.session = None
    BY <2>1 DEF S!Idle
  <2>3. S!Receive(w) /\ S!Become(w, self) /\ account # None
    BY <1>11, <2>1 DEF S!ResetRead, S!Found
  <2> QED
    BY <2>2, <2>3, RequestReceived
<1>12. ASSUME NEW w \in Workers, NEW t \in 1..MaxSignIns, S!RegisterRead(w, t)
       PROVE  Goal
  <2>1. PICK self \in SignIn : self = [S!Idle EXCEPT !.pc = "signup", !.value = t]
    <3>0. t \in Nat
      BY SessionBounds
    <3>1. [S!Idle EXCEPT !.pc = "signup", !.value = t] \in SignIn
      BY <3>0 DEF S!Idle, SignIn
    <3> QED
      BY <3>1
  <2>2. self.pc = "signup" /\ self.session = None /\ self.challenge = None
    BY <2>1 DEF S!Idle
  <2>3. S!Receive(w) /\ S!Become(w, self)
    BY <1>12, <2>1 DEF S!RegisterRead
  <2> QED
    BY <2>2, <2>3, RequestReceived
<1>13. ASSUME NEW w \in Workers, S!RefreshOwner(w) \/ S!PasswordWrite(w) \/ S!ConsumeSignup(w)
       PROVE  Goal
  <2>1. \/ S!Done(w)
        \/ op[w].pc = "owner" /\ S!Goto(w, "rotate")
        \/ op[w].pc = "password" /\ op[w].session = None /\ S!Goto(w, "used")
        \/ op[w].pc = "signup" /\ S!Goto(w, "create")
    BY <1>13 DEF S!RefreshOwner, S!PasswordWrite, S!ConsumeSignup, S!At
  <2>2. S!Done(w) => Goal
    BY <1>2
  <2> HIDE DEF Goal
  <2>3. op[w].pc = "owner" /\ S!Goto(w, "rotate") => Goal
    BY RequestGoesOn DEF Goal
  <2>4. op[w].pc = "password" /\ op[w].session = None /\ S!Goto(w, "used") => Goal
    BY RequestGoesOn DEF Goal
  <2>5. op[w].pc = "signup" /\ S!Goto(w, "create") => Goal
    BY RequestGoesOn DEF Goal
  <2> QED
    BY <2>1, <2>2, <2>3, <2>4, <2>5
<1>14. ASSUME NEW w \in Workers,
              \/ S!FailChallenge(w) \/ S!ConsumeReset(w) \/ S!Rotate(w) \/ S!RevokeWrite(w)
              \/ S!StatusWrite(w) \/ (\E c \in Challenges : S!Challenge(w, c))
              \/ \E s \in Sessions : S!Issue(w, s)
       PROVE  Goal
  BY <1>14, <1>2 DEF S!FailChallenge, S!ConsumeReset, S!Rotate, S!RevokeWrite, S!StatusWrite,
     S!Challenge, S!Issue
<1>15. ASSUME NEW w \in Workers,
              \/ S!RequestReset(w) \/ S!VerifyReset(w) \/ S!VerifySignup(w)
              \/ (\E on \in BOOLEAN : S!SetMfa(w, on)) \/ (\E s \in Sessions : S!Logout(w, s))
              \/ \E s \in Sessions \cup {None} : S!RevokeAll(w, s)
       PROVE  op' = op
  BY <1>15 DEF S!RequestReset, S!VerifyReset, S!VerifySignup, S!SetMfa, S!Logout, S!RevokeAll
<1>16. (\E s \in Sessions : S!Age(s)) \/ (\E c \in Challenges : S!Lapse(c)) => op' = op
  BY DEF S!Age, S!Lapse
<1> HIDE DEF Goal
<1>17. op' = op \/ Goal
  <2>1. ASSUME NEW w \in Workers, SessionsRest(w)
        PROVE  op' = op \/ Goal
    BY <2>1, <1>3, <1>4, <1>5, <1>6, <1>7, <1>8, <1>9, <1>10, <1>11, <1>12, <1>13, <1>14, <1>15
       DEF SessionsRest
  <2>2. ASSUME NEW w \in Workers, SessionsEnd(w)
        PROVE  op' = op \/ Goal
    BY <2>2, <1>13, <1>14, <1>15 DEF SessionsEnd
  <2> QED
    BY <2>1, <2>2, <1>14, <1>16, SessionCases
<1> QED
  BY <1>17 DEF Goal

\* The request that issues a session is the one that moves.
LEMMA TheIssuer ==
  ASSUME SessionInv, NEW w \in Workers, NEW s \in Sessions, S!Issue(w, s)
  PROVE  S!Issuer = w
BY DEF S!Issue, S!Done, S!Become, S!At, S!Idle, SessionInv, S!Issuer

LEMMA Issuing ==
  ASSUME SessionInv, S!MCNext, NEW s \in Sessions, sessions[s] = None, sessions'[s] # None
  PROVE  \E w \in Workers :
           /\ S!Issue(w, s) /\ S!Issuer = w /\ op[w].pc = "issue" /\ op[w] \in SignIn
           /\ op[w].seen \in S!Accounts /\ op[w].seen.status = "ACTIVE"
           /\ sessions'[s] = Opened /\ account' = account /\ challenges' = challenges
           /\ basis'[s] = [password |-> op[w].seen.password, challenge |-> op[w].challenge]
           /\ [op[w].seen EXCEPT !.mfa = account.mfa] # account => s \in overtaken'
<1>1. s \in S!Issued /\ S!Next
  BY DEF S!Issued, S!MCNext
<1>2. PICK w \in Workers : S!Issue(w, s) /\ sessions'[s] = Opened
  BY RotationMade, PlatformConstants, <1>1, SessionMoves DEF Stays, SessionInv, S!TypeOK,
     SessionMove
<1>3. S!Issuer = w
  BY <1>2, TheIssuer
<1>4. op[w].pc = "issue" /\ op[w] \in SignIn /\ op[w].seen \in S!Accounts
  BY <1>2 DEF SessionInv, SignIn, Grounded, S!Issue, S!At
<1>5. op[w].seen.status = "ACTIVE" /\ account' = account /\ challenges' = challenges
  BY <1>2 DEF S!Issue, S!Admitted
<1>6. basis'[s] = [password |-> op[w].seen.password, challenge |-> op[w].challenge]
  BY <1>1, <1>3 DEF S!MCNext
<1>7. [op[w].seen EXCEPT !.mfa = account.mfa] # account => s \in overtaken'
  BY <1>1, <1>3 DEF S!MCNext
<1> QED
  BY <1>2, <1>3, <1>4, <1>5, <1>6, <1>7

\* What a session was issued on only changes with the password of the one retained.
LEMMA BasisMoves ==
  ASSUME SessionInv, S!MCNext, NEW s \in Sessions, sessions[s] # None \/ sessions'[s] = None
  PROVE  \/ basis'[s] = basis[s] /\ ~S!Retained(s)
         \/ /\ basis'[s] = [basis[s] EXCEPT !.password = account'.password]
            /\ \E w \in Workers : S!PasswordWrite(w) /\ op[w].session = s
<1>1. s \notin S!Issued /\ S!Next
  BY DEF S!Issued, S!MCNext
<1>2. CASE ~S!Retained(s)
  BY <1>1, <1>2 DEF S!MCNext
<1>3. CASE S!Retained(s)
  <2>1. basis'[s] = [basis[s] EXCEPT !.password = account'.password]
    BY <1>1, <1>3 DEF S!MCNext
  <2>2. PICK w \in Workers : S!At(w, "password") /\ op[w].session = s /\ op'[w] # op[w] /\ account' # account
    BY <1>3 DEF S!Retained
  <2>3. ASSUME NEW v \in Workers,
               S!CreateAccount(v) \/ S!StatusWrite(v) \/ S!PasswordWrite(v)
                 \/ \E on \in BOOLEAN : S!SetMfa(v, on)
        PROVE  S!PasswordWrite(v) /\ v = w
    BY <2>2, <2>3 DEF S!SetMfa, S!Become, SessionInv, S!CreateAccount, S!Done, S!At,
       S!StatusWrite, S!PasswordWrite, S!Goto
  <2>4. S!PasswordWrite(w)
    BY <1>1, <2>2, <2>3, AccountMoves
  <2> QED
    BY <2>1, <2>2, <2>4
<1> QED
  BY <1>2, <1>3

LEMMA BasisTypes ==
  ASSUME SessionInv, S!MCNext
  PROVE  /\ basis' \in [Sessions -> Basis \cup {None}]
         /\ overtaken \subseteq overtaken' /\ overtaken' \subseteq Sessions
         /\ \A s \in Sessions : sessions'[s] = None <=> basis'[s] = None
<1>0. None \notin Basis
  BY PlatformConstants DEF Basis
<1>1. ASSUME NEW s \in Sessions
      PROVE  basis'[s] \in Basis \cup {None} /\ (sessions'[s] = None <=> basis'[s] = None)
  <2>1. /\ basis[s] \in Basis \cup {None} /\ (sessions[s] = None <=> basis[s] = None)
        /\ account' \in S!Accounts \cup {None}
    BY AccountMoves DEF SessionInv, S!MCNext
  <2>2. CASE sessions[s] = None /\ sessions'[s] # None
    <3>1. PICK w \in Workers :
            /\ op[w] \in SignIn /\ op[w].seen \in S!Accounts
            /\ basis'[s] = [password |-> op[w].seen.password, challenge |-> op[w].challenge]
      BY <2>2, Issuing
    <3>2. basis'[s] \in Basis
      BY <3>1 DEF SignIn, S!Accounts, Basis
    <3> QED
      BY <1>0, <2>2, <3>2
  <2>3. CASE sessions[s] # None \/ sessions'[s] = None
    <3>1. sessions'[s] = None <=> sessions[s] = None
      BY <2>3, SessionsLast DEF Lasting, S!MCNext
    <3>2. CASE basis'[s] = basis[s]
      BY <2>1, <3>1, <3>2
    <3>3. CASE /\ basis'[s] = [basis[s] EXCEPT !.password = account'.password]
               /\ \E w \in Workers : S!PasswordWrite(w) /\ op[w].session = s
      <4>1. PICK w \in Workers : S!PasswordWrite(w) /\ op[w].session = s
        BY <3>3
      <4>2. Grounded(op[w]) /\ op[w].pc = "password" /\ s # None
        BY <4>1, PlatformConstants DEF SessionInv, S!PasswordWrite, S!At
      <4>3. sessions[s] # None /\ account # None
        BY <4>1, <4>2 DEF Grounded
      <4>4. account' \in S!Accounts /\ basis[s] \in Basis
        BY <2>1, <4>3, AccountMoves DEF S!MCNext
      <4>5. basis'[s] \in Basis
        BY <3>3, <4>4 DEF S!Accounts, Basis
      <4> QED
        BY <1>0, <3>1, <4>3, <4>5
    <3> QED
      BY <2>3, <3>2, <3>3, BasisMoves
  <2> QED
    BY <2>2, <2>3
<1>2. DOMAIN basis' = Sessions /\ basis' = [s \in Sessions |-> basis'[s]]
  BY DEF S!MCNext
<1>3. overtaken \subseteq overtaken' /\ overtaken' \subseteq Sessions
  BY DEF SessionInv, S!MCNext, S!Issued
<1> QED
  BY <1>1, <1>2, <1>3

\* How many requests refresh a session, when one of them moves on.
LEMMA RefreshersMove ==
  ASSUME SessionInv, NEW w \in Workers, NEW self \in SignIn, op' = [op EXCEPT ![w] = self],
         NEW s \in Sessions
  PROVE  /\ \A v \in Workers \ {w} : op'[v] = op[v]
         /\ op'[w] = self
         /\ Refreshers(s)' = IF Refreshing(self, s) THEN Refreshers(s) \cup {w} ELSE Refreshers(s) \ {w}
         /\ w \in Refreshers(s) <=> Refreshing(op[w], s)
         /\ IsFiniteSet(Refreshers(s)')
         /\ Cardinality(Refreshers(s)) \in Nat /\ Cardinality(Refreshers(s)') \in Nat
         /\ Cardinality(Refreshers(s)') = Cardinality(Refreshers(s))
              + (IF Refreshing(self, s) THEN 1 ELSE 0) - (IF Refreshing(op[w], s) THEN 1 ELSE 0)
<1> DEFINE before == Refreshers(s)
           now == Refreshers(s)'
<1>1. IsFiniteSet(before) /\ Cardinality(before) \in Nat
  BY FS_CardinalityType DEF SessionInv, Rotations
<1>2. (\A v \in Workers \ {w} : op'[v] = op[v]) /\ op'[w] = self
  BY DEF SessionInv
<1>3. /\ now = IF Refreshing(self, s) THEN before \cup {w} ELSE before \ {w}
      /\ w \in before <=> Refreshing(op[w], s)
  BY <1>2 DEF Refreshers, Refreshing
<1> HIDE DEF before, now
<1>4. /\ IsFiniteSet(before \cup {w})
      /\ Cardinality(before \cup {w}) = IF w \in before THEN Cardinality(before) ELSE Cardinality(before) + 1
  BY <1>1, FS_AddElement
<1>5. /\ IsFiniteSet(before \ {w})
      /\ Cardinality(before \ {w}) = IF w \in before THEN Cardinality(before) - 1 ELSE Cardinality(before)
  BY <1>1, FS_RemoveElement
<1>6. /\ IsFiniteSet(now)
      /\ Cardinality(now) = Cardinality(before)
           + (IF Refreshing(self, s) THEN 1 ELSE 0) - (IF Refreshing(op[w], s) THEN 1 ELSE 0)
  BY <1>1, <1>3, <1>4, <1>5
<1>7. Cardinality(now) \in Nat
  BY <1>6, FS_CardinalityType
<1> QED
  BY <1>1, <1>2, <1>3, <1>6, <1>7 DEF before, now

\* Two requests that refresh one session at a time race.
LEMMA Alone ==
  ASSUME SessionInv, NEW s \in Sessions, s \notin raced, NEW v \in Refreshers(s), NEW w \in Refreshers(s)
  PROVE  v = w
<1>1. IsFiniteSet(Refreshers(s)) /\ Cardinality(Refreshers(s)) <= 1
  BY DEF SessionInv, Rotations, InTurn
<1>2. Cardinality(Refreshers(s)) \in Nat /\ Cardinality(Refreshers(s)) # 0
  BY <1>1, FS_CardinalityType, FS_EmptySet
<1>3. Cardinality(Refreshers(s)) = 1
  BY <1>1, <1>2
<1>4. \E x : Refreshers(s) = {x}
  BY <1>1, <1>3, FS_Singleton
<1> QED
  BY <1>4

LEMMA Races ==
  ASSUME S!MCNext, NEW s \in Sessions, s \notin raced'
  PROVE  s \notin raced /\ ~(Cardinality(Refreshers(s)') > 1)
BY SessionCount DEF Refreshers, S!MCNext

\* The refreshers of a session that no request begins to refresh.
LEMMA NoNewRefresher ==
  ASSUME SessionInv, NEW s \in Sessions,
         \/ op' = op
         \/ \E w \in Workers : \E self \in SignIn :
              op' = [op EXCEPT ![w] = self] /\ (Refreshing(self, s) => Refreshing(op[w], s) /\ self.value = op[w].value)
  PROVE  /\ Refreshers(s)' \subseteq Refreshers(s) /\ IsFiniteSet(Refreshers(s)')
         /\ Cardinality(Refreshers(s)) \in Nat /\ Cardinality(Refreshers(s)') \in Nat
         /\ Cardinality(Refreshers(s)') <= Cardinality(Refreshers(s))
         /\ \A v \in Refreshers(s)' : op'[v].value = op[v].value
<1>1. Refreshers(s)' \subseteq Refreshers(s) /\ \A v \in Refreshers(s)' : op'[v].value = op[v].value
  BY DEF Refreshers, SessionInv, Refreshing
<1>2. IsFiniteSet(Refreshers(s))
  BY DEF SessionInv, Rotations
<1> DEFINE now == Refreshers(s)'
<1>3. now \in SUBSET Refreshers(s)
  BY <1>1
<1> HIDE DEF now
<1>4. IsFiniteSet(now) /\ Cardinality(now) <= Cardinality(Refreshers(s))
  BY <1>2, <1>3, FS_Subset
<1>5. Cardinality(now) \in Nat /\ Cardinality(Refreshers(s)) \in Nat
  BY <1>2, <1>4, FS_CardinalityType
<1> QED
  BY <1>1, <1>4, <1>5 DEF now

RotationsKept(s) == Rotations(s) /\ (s \notin raced => InTurn(s))

\* A rotation.
LEMMA RotateKeeps ==
  ASSUME SessionInv, S!MCNext, NEW w \in Workers, S!Rotate(w), NEW s \in Sessions, op[w].session = s
  PROVE  RotationsKept(s)'
<1> DEFINE it == sessions[s]
           now == S!Rotated(it, op[w].value)
           n == Cardinality(Refreshers(s))
<1>1. /\ it \in S!SessionRows /\ sessions'[s] = now /\ it # None
      /\ now.made = it.made + 1 /\ now.current = it.made + 1 /\ now.previous = op[w].value
  <2>1. /\ it \in S!SessionRows
        /\ now.made = it.made + 1 /\ now.current = it.made + 1 /\ now.previous = op[w].value
    BY RotationMade
  <2>2. sessions'[s] = now
    BY DEF S!Rotate, SessionInv, S!TypeOK
  <2>3. it # None
    BY <2>1, PlatformConstants
  <2> QED
    BY <2>1, <2>2, <2>3
<1>2. PICK self \in SignIn : self = S!Idle /\ op' = [op EXCEPT ![w] = self] /\ ~Refreshing(self, s)
  BY IdleRequest DEF S!Idle, S!Rotate, S!Done, S!Become, Refreshing
<1>3. Refreshing(op[w], s) /\ w \in Refreshers(s) /\ left' = left /\ op[w].value \in 1..it.made
  BY <1>1, PlatformConstants DEF S!Rotate, S!Step, S!At, Refreshing, Refreshers, SessionInv, Grounded
<1>4. /\ IsFiniteSet(Refreshers(s)') /\ n \in Nat /\ Cardinality(Refreshers(s)') = n - 1
      /\ Refreshers(s)' = Refreshers(s) \ {w}
  <2>1. /\ \A v \in Workers \ {w} : op'[v] = op[v]
        /\ op'[w] = self
        /\ Refreshers(s)' = IF Refreshing(self, s) THEN Refreshers(s) \cup {w} ELSE Refreshers(s) \ {w}
        /\ IsFiniteSet(Refreshers(s)') /\ n \in Nat
        /\ Cardinality(Refreshers(s)') = n
             + (IF Refreshing(self, s) THEN 1 ELSE 0) - (IF Refreshing(op[w], s) THEN 1 ELSE 0)
    BY <1>2, RefreshersMove
  <2> HIDE DEF n
  <2> QED
    BY <2>1, <1>2, <1>3
<1> HIDE DEF n
<1>5. it.made \in Nat /\ it.made + n + left <= MaxSignIns
  BY <1>1 DEF SessionInv, Rotations, S!SessionRows, n
<1> HIDE DEF it, now
<1>6. Rotations(s)'
  BY <1>1, <1>3, <1>4, <1>5, SessionBounds DEF Rotations
<1>7. ASSUME s \notin raced'
      PROVE  InTurn(s)'
  BY <1>7, Races, <1>3, <1>4, Alone, FS_EmptySet, <1>1, <1>5 DEF SessionInv, InTurn, it
<1> QED
  BY <1>6, <1>7 DEF RotationsKept

\* A request that begins to refresh a session.
LEMMA RefreshKeeps ==
  ASSUME SessionInv, S!MCNext, NEW w \in Workers, NEW s \in Sessions,
         S!RefreshRead(w, s, sessions[s].current),
         NEW self \in SignIn, op' = [op EXCEPT ![w] = self], Refreshing(self, s),
         self.value = sessions[s].current
  PROVE  RotationsKept(s)'
<1> DEFINE n == Cardinality(Refreshers(s))
<1>1. /\ sessions' = sessions /\ left' = left - 1 /\ left > 0 /\ op[w].pc = "idle" /\ sessions[s] # None
  BY DEF S!RefreshRead, S!Receive, S!At
<1>2. ~Refreshing(op[w], s)
  BY <1>1 DEF Refreshing
<1>3. /\ IsFiniteSet(Refreshers(s)') /\ n \in Nat /\ Cardinality(Refreshers(s)') = n + 1
      /\ Refreshers(s)' = Refreshers(s) \cup {w} /\ op'[w] = self
      /\ \A v \in Workers \ {w} : op'[v] = op[v]
  <2>1. /\ \A v \in Workers \ {w} : op'[v] = op[v]
        /\ op'[w] = self
        /\ Refreshers(s)' = IF Refreshing(self, s) THEN Refreshers(s) \cup {w} ELSE Refreshers(s) \ {w}
        /\ IsFiniteSet(Refreshers(s)') /\ n \in Nat
        /\ Cardinality(Refreshers(s)') = n
             + (IF Refreshing(self, s) THEN 1 ELSE 0) - (IF Refreshing(op[w], s) THEN 1 ELSE 0)
    BY RefreshersMove
  <2> HIDE DEF n
  <2> QED
    BY <2>1, <1>2
<1> HIDE DEF n
<1>4. /\ sessions[s].made \in Nat /\ sessions[s].made + n + left <= MaxSignIns
      /\ sessions[s].current <= sessions[s].made /\ sessions[s].previous <= sessions[s].made
  BY <1>1 DEF SessionInv, Rotations, S!TypeOK, S!SessionRows, n
<1>5. Rotations(s)'
  BY <1>1, <1>3, <1>4, SessionBounds DEF Rotations
<1>6. ASSUME s \notin raced'
      PROVE  InTurn(s)'
  <2>1. s \notin raced /\ Cardinality(Refreshers(s)') <= 1
    BY <1>6, Races, <1>3
  <2>2. InTurn(s)
    BY <2>1 DEF SessionInv
  <2>3. \A v \in Refreshers(s)' : op'[v].value = sessions[s].current
    BY <1>1, <1>3, <2>2 DEF InTurn, Refreshers
  <2> QED
    BY <1>1, <2>1, <2>2, <2>3 DEF InTurn
<1> QED
  BY <1>5, <1>6 DEF RotationsKept

\* Any other step.
LEMMA OthersKeep ==
  ASSUME SessionInv, S!MCNext, NEW s \in Sessions,
         Stays(sessions[s], sessions'[s]) \/ (sessions[s] = None /\ sessions'[s] = Opened
                                             /\ \E w \in Workers : op[w].pc # "idle"),
         \/ op' = op
         \/ \E w \in Workers : \E self \in SignIn :
              op' = [op EXCEPT ![w] = self] /\ (Refreshing(self, s) => Refreshing(op[w], s) /\ self.value = op[w].value)
  PROVE  RotationsKept(s)'
<1> DEFINE n == Cardinality(Refreshers(s))
           m == Cardinality(Refreshers(s)')
<1>1. /\ Refreshers(s)' \subseteq Refreshers(s) /\ IsFiniteSet(Refreshers(s)')
      /\ n \in Nat /\ m \in Nat /\ m <= n
      /\ \A v \in Refreshers(s)' : op'[v].value = op[v].value
  BY NoNewRefresher
<1>2. left' \in Nat /\ left' <= left /\ left \in Nat /\ MaxSignIns \in Nat
  BY BudgetMoves, SessionBounds DEF S!MCNext
<1>3. ASSUME s \notin raced'
      PROVE  s \notin raced /\ m <= 1
  BY <1>1, <1>3, Races
<1>4. CASE sessions[s] # None /\ Stays(sessions[s], sessions'[s])
  <2>1. /\ sessions[s].made \in Nat /\ sessions[s].made + n + left <= MaxSignIns
        /\ sessions[s].current <= sessions[s].made /\ sessions[s].previous <= sessions[s].made
    BY <1>4 DEF SessionInv, Rotations, S!TypeOK, S!SessionRows
  <2>2. /\ sessions'[s].made = sessions[s].made /\ sessions'[s].current = sessions[s].current
        /\ sessions'[s].previous = sessions[s].previous
    BY <1>4 DEF Stays
  <2> HIDE DEF n
  <2>3. sessions'[s].made + m + left' <= MaxSignIns
    BY <1>1, <1>2, <2>1, <2>2
  <2>4. Rotations(s)'
    BY <1>1, <2>1, <2>2, <2>3 DEF Rotations
  <2>5. ASSUME s \notin raced'
        PROVE  InTurn(s)'
    BY <1>3, <2>5, <1>1, <1>4, <2>2 DEF SessionInv, InTurn
  <2> QED
    BY <2>4, <2>5 DEF RotationsKept
<1>5. CASE sessions[s] = None
  BY <1>5, PlatformConstants, <1>1, FS_EmptySet, <1>2 DEF SessionInv, Grounded, Refreshers,
     RotationsKept, Rotations, InTurn, Opened, Stays
<1> QED
  BY <1>4, <1>5

LEMMA RotationsStep ==
  ASSUME SessionInv, S!MCNext, NEW s \in Sessions
  PROVE  RotationsKept(s)'
BY RotateKeeps, SessionMoves, OthersKeep, RefreshKeeps, RequestMoves DEF S!MCNext, S!Issue, S!At,
   SessionMove, Request, GoesOn, Begins, Refreshing

\* A challenge is not used twice.
LEMMA UsesStep ==
  ASSUME SessionInv, S!MCNext, NEW c \in Challenges
  PROVE  OneUse(c)'
<1> DEFINE Users == {w \in Workers : LetIn(op[w], c)}
           Made == {s \in Sessions : basis[s] # None /\ basis[s].challenge = c}
<1>0. S!Next
  BY DEF S!MCNext
<1>1. /\ Users # {} \/ Made # {} => challenges[c] # None /\ challenges[c].consumed
      /\ \A v, w \in Users : v = w
      /\ \A s, t \in Made : s = t
      /\ Users = {} \/ Made = {}
  BY DEF SessionInv, OneUse
<1>2. ChallengeMove(c)
  BY <1>0, ChallengeMoves
<1>3. ASSUME NEW s \in Made'
      PROVE  s \in Made \/ \E w \in Workers :
                             S!Issue(w, s) /\ w \in Users /\ sessions[s] = None /\ sessions'[s] # None
  <2>1. s \in Sessions /\ basis'[s] # None /\ basis'[s].challenge = c
    OBVIOUS
  <2>2. sessions'[s] # None
    BY <2>1, BasisTypes
  <2>3. CASE sessions[s] = None
    <3>1. PICK w \in Workers :
            /\ S!Issue(w, s) /\ op[w].pc = "issue"
            /\ basis'[s] = [password |-> op[w].seen.password, challenge |-> op[w].challenge]
      BY <2>1, <2>2, <2>3, Issuing
    <3>2. w \in Users
      BY <2>1, <3>1 DEF LetIn
    <3> QED
      BY <2>2, <2>3, <3>1, <3>2
  <2>4. CASE sessions[s] # None
    <3>1. basis[s] \in Basis
      BY <2>1, <2>4 DEF SessionInv
    <3>2. basis'[s].challenge = basis[s].challenge
      BY <2>1, <2>4, <3>1, BasisMoves DEF Basis
    <3>3. basis[s] # None
      BY <3>1, PlatformConstants DEF Basis
    <3> QED
      BY <2>1, <3>2, <3>3
  <2> QED
    BY <2>3, <2>4
<1>4. ASSUME NEW s \in Made', s \notin Made
      PROVE  \E w \in Users : Users' \subseteq Users \ {w} /\ Made' \subseteq {s}
  <2>1. PICK w \in Workers : S!Issue(w, s) /\ w \in Users /\ sessions[s] = None /\ sessions'[s] # None
    BY <1>3, <1>4
  <2>2. op' = [op EXCEPT ![w] = S!Idle] /\ S!Idle.pc = "idle"
    BY <2>1 DEF S!Issue, S!Done, S!Become, S!Idle
  <2>3. Users' \subseteq Users \ {w}
    BY <2>2 DEF SessionInv, LetIn
  <2>4. Made = {}
    BY <1>1, <2>1
  <2>5. ASSUME NEW t \in Made'
        PROVE  t = s
    <3>1. PICK v \in Workers : S!Issue(v, t) /\ sessions'[t] # None /\ sessions[t] = None
      BY <1>3, <2>4, <2>5
    <3>2. sessions' = sessions \/ \E x : sessions' = [sessions EXCEPT ![s] = x]
      BY <2>1 DEF S!Issue
    <3> QED
      BY <3>1, <3>2 DEF SessionInv, S!TypeOK
  <2> QED
    BY <2>1, <2>3, <2>5
<1>5. CASE ~(Made' \subseteq Made)
  <2>1. PICK s \in Made' : s \notin Made
    BY <1>5
  <2>2. PICK w \in Users : Users' \subseteq Users \ {w} /\ Made' \subseteq {s}
    BY <1>4, <2>1
  <2>3. Users' = {} /\ challenges[c] # None /\ challenges[c].consumed
    BY <1>1, <2>2
  <2>4. challenges'[c] # None /\ challenges'[c].consumed
    BY <1>2, <2>3 DEF ChallengeMove
  <2> HIDE DEF Users, Made
  <2>5. \A t, u \in Made' : t = u
    BY <2>2
  <2> USE DEF Users, Made
  <2> QED
    BY <2>3, <2>4, <2>5 DEF OneUse
<1>6. CASE Made' \subseteq Made /\ Users' \subseteq Users
  <2>1. Users' # {} \/ Made' # {} => challenges'[c] # None /\ challenges'[c].consumed
    BY <1>1, <1>2, <1>6 DEF ChallengeMove
  <2> HIDE DEF Users, Made
  <2>2. /\ \A v, w \in Users' : v = w
        /\ \A s, t \in Made' : s = t
        /\ Users' = {} \/ Made' = {}
    BY <1>1, <1>6
  <2> USE DEF Users, Made
  <2> QED
    BY <2>1, <2>2 DEF OneUse
<1>7. CASE Made' \subseteq Made /\ ~(Users' \subseteq Users)
  <2>1. PICK w \in Workers : \E self \in SignIn : Request(w, self)
    BY <1>0, <1>7, RequestMoves
  <2>2. PICK self \in SignIn : Request(w, self)
    BY <2>1
  <2>3. op'[w] = self /\ \A v \in Workers \ {w} : op'[v] = op[v]
    BY <2>2 DEF Request, SessionInv
  <2>4. LetIn(self, c) /\ ~LetIn(op[w], c) /\ Users' \subseteq Users \cup {w}
    BY <1>7, <2>3
  <2>5. Begins(w, self)
    BY <2>2, <2>4 DEF Request, GoesOn
  <2>6. ~challenges[c].consumed /\ challenges'[c].consumed /\ S!ConsumeChallenge(w) /\ op[w].challenge = c
    BY <2>4, <2>5 DEF Begins, LetIn
  <2>7. challenges[c] # None /\ challenges'[c] # None
    BY <1>2, <2>6 DEF S!ConsumeChallenge, S!At, SessionInv, Grounded, ChallengeMove
  <2>8. Users = {} /\ Made = {}
    BY <1>1, <2>6
  <2> HIDE DEF Users, Made
  <2>9. /\ \A v, u \in Users' : v = u
        /\ \A s, t \in Made' : s = t
        /\ Made' = {}
    BY <1>7, <2>4, <2>8
  <2> USE DEF Users, Made
  <2> QED
    BY <2>6, <2>7, <2>9 DEF OneUse
<1> QED
  BY <1>5, <1>6, <1>7

\* A session that goes on in spite of a change was the one to be retained.
LEMMA SignedOutStep ==
  ASSUME SessionInv, S!MCNext
  PROVE  S!SignedOutUnlessOvertaken'
<1> SUFFICES ASSUME NEW s \in Sessions, sessions'[s] # None, ~sessions'[s].revoked, s \notin overtaken'
             PROVE  account'.status = "ACTIVE" /\ basis'[s].password = account'.password
  BY DEF S!SignedOutUnlessOvertaken, S!LiveSessions
<1>0. S!Next /\ s \notin overtaken /\ account \in S!Accounts \cup {None}
      /\ sessions \in [Sessions -> S!SessionRows \cup {None}]
  BY BasisTypes DEF S!MCNext, SessionInv, S!TypeOK
<1>1. CASE sessions[s] = None
  <2>1. PICK w \in Workers :
          /\ op[w].pc = "issue" /\ op[w].seen \in S!Accounts /\ op[w].seen.status = "ACTIVE"
          /\ account' = account
          /\ basis'[s] = [password |-> op[w].seen.password, challenge |-> op[w].challenge]
          /\ [op[w].seen EXCEPT !.mfa = account.mfa] = account
    BY <1>1, Issuing
  <2> QED
    BY <2>1 DEF S!Accounts
<1>2. CASE sessions[s] # None
  <2>1. ~sessions[s].revoked
    BY <1>0, <1>2, RotationMade, SessionMoves DEF Stays, S!SessionRows, SessionMove
  <2>2. /\ account.status = "ACTIVE" /\ basis[s].password = account.password
        /\ account \in S!Accounts /\ basis[s] \in Basis
    BY <1>0, <1>2, <2>1 DEF SessionInv, S!SignedOutUnlessOvertaken, S!LiveSessions
  <2>3. S!Revoked(sessions[s]).revoked
    BY <1>0, <1>2, RevokedRow
  <2>4. CASE account' = account
    BY <2>4, <1>2, <2>2 DEF S!Retained, S!Issued, S!MCNext
  <2>5. ASSUME NEW w \in Workers, S!StatusWrite(w)
        PROVE  account'.status = "ACTIVE" /\ basis'[s].password = account'.password
    BY <2>2, <2>5, <2>4, PlatformConstants, <2>3 DEF S!StatusWrite, S!Accounts, S!AllRevoked
  <2>6. ASSUME NEW w \in Workers, S!PasswordWrite(w)
        PROVE  account'.status = "ACTIVE" /\ basis'[s].password = account'.password
    <3>1. s = op[w].session
      BY <2>3, <2>6 DEF S!PasswordWrite, S!AllRevoked
    <3>2. account' = [account EXCEPT !.password = account.password + 1] /\ account'.status = "ACTIVE"
          /\ account' # account
      BY <2>2, <2>6 DEF S!PasswordWrite, S!Accounts
    <3>3. S!Retained(s)
      BY <2>6, <3>1, <3>2 DEF S!PasswordWrite, S!At, S!Done, S!Goto, S!Become, S!Idle, SessionInv,
         SignIn, S!Retained
    <3>4. basis'[s] = [basis[s] EXCEPT !.password = account'.password]
      BY <1>2, <3>3 DEF S!Issued, S!MCNext
    <3> QED
      BY <2>2, <3>2, <3>4 DEF Basis
  <2>7. ASSUME NEW w \in Workers, NEW on \in BOOLEAN, S!SetMfa(w, on)
        PROVE  account'.status = "ACTIVE" /\ basis'[s].password = account'.password
    <3>1. account'.status = account.status /\ account'.password = account.password
      BY <2>2, <2>7 DEF S!SetMfa, S!Accounts
    <3>2. basis'[s] = basis[s]
      <4>1. ~\E v \in Workers : S!PasswordWrite(v) /\ op[v].session = s
        BY <2>2, <3>1 DEF S!PasswordWrite, S!Accounts
      <4> QED
        BY <1>2, <4>1, BasisMoves
    <3> QED
      BY <2>2, <3>1, <3>2
  <2> QED
    BY <1>0, <2>2, <2>4, <2>5, <2>6, <2>7, AccountMoves, PlatformConstants
<1> QED
  BY <1>1, <1>2

LEMMA SessionTypes ==
  ASSUME SessionInv, S!MCNext
  PROVE  S!TypeOK' /\ op' \in [Workers -> SignIn] /\ signup'.token + left' <= MaxSignIns
<1>0. S!Next /\ MaxSignIns \in Nat /\ left \in Nat /\ left' \in Nat /\ left' <= left
  BY SessionBounds, BudgetMoves DEF S!MCNext
<1>1. sessions' \in [Sessions -> S!SessionRows \cup {None}]
  <2>1. ASSUME NEW s \in Sessions
        PROVE  sessions'[s] \in S!SessionRows \cup {None}
    <3>1. ASSUME sessions'[s] = Opened, \E w \in Workers : S!Issue(w, s)
          PROVE  Opened \in S!SessionRows
      BY <3>1, <1>0 DEF S!Issue, S!At, SessionInv, Grounded, Opened, S!SessionRows
    <3>2. ASSUME NEW w \in Workers, S!Rotate(w), op[w].session = s,
                 sessions'[s] = S!Rotated(sessions[s], op[w].value)
          PROVE  sessions'[s] \in S!SessionRows
      BY <3>2, RotationMade
    <3> QED
      BY <1>0, <3>1, <3>2, SessionMoves DEF SessionMove, Stays
  <2>2. DOMAIN sessions' = Sessions /\ sessions' = [s \in Sessions |-> sessions'[s]]
    <3>1. sessions = [s \in Sessions |-> sessions[s]] /\ DOMAIN sessions = Sessions
      BY DEF SessionInv, S!TypeOK
    <3>2. \/ sessions' = sessions
          \/ \E r : sessions' = S!AllRevoked(r)
          \/ \E r, x : sessions' = [sessions EXCEPT ![r] = x]
          \/ \E r \in Sessions : \E age \in {"stale", "over"} : sessions' = [sessions EXCEPT ![r].age = age]
      BY <1>0, SessionsRested, SessionCases DEF SessionsEnd, S!RevokeWrite, S!StatusWrite,
         S!PasswordWrite, S!Logout, S!RevokeAll, S!Rotate, S!Issue, S!Age, S!Lapse
    <3> QED
      BY <3>1, <3>2 DEF S!AllRevoked
  <2> QED
    BY <2>1, <2>2
<1>2. challenges' \in [Challenges -> S!LoginChallenges \cup {None}]
  <2>1. \A c \in Challenges : challenges'[c] \in S!LoginChallenges \cup {None}
    BY <1>0, ChallengeMoves DEF ChallengeMove
  <2>2. challenges' = [c \in Challenges |-> challenges'[c]]
    <3>1. challenges = [c \in Challenges |-> challenges[c]]
      BY DEF SessionInv, S!TypeOK
    <3>2. \/ challenges' = challenges
          \/ \E d, x : challenges' = [challenges EXCEPT ![d] = x]
      <4>1. ASSUME NEW w \in Workers, SessionsRest(w)
            PROVE  challenges' = challenges \/ \E d, x : challenges' = [challenges EXCEPT ![d] = x]
        BY <4>1 DEF SessionsRest, S!LoginRead, S!FailChallenge, S!ConsumeChallenge, S!ReadUser, S!RefreshOwner,
           S!ResetRead, S!ConsumeReset, S!RequestReset, S!VerifyReset, S!VerifySignup, S!ConsumeSignup,
           S!CreateAccount, S!Challenge, S!VerifyRead, S!ChangeRead, S!RefreshRead, S!StatusRead,
           S!RegisterRead, S!SetMfa
      <4>2. ASSUME NEW w \in Workers, SessionsEnd(w)
            PROVE  challenges' = challenges
        BY <4>2 DEF SessionsEnd, S!RevokeWrite, S!StatusWrite, S!PasswordWrite, S!Logout, S!RevokeAll
      <4> QED
        BY <1>0, <4>1, <4>2, SessionCases DEF S!Rotate, S!Issue, S!Age, S!Lapse
    <3> QED
      BY <3>1, <3>2
  <2> QED
    BY <2>1, <2>2
<1>3. op' \in [Workers -> SignIn]
  BY <1>0, RequestMoves DEF SessionInv, Request
<1>4. /\ signup' \in [token : 0..MaxSignIns, consumed : BOOLEAN]
      /\ signup'.token + left' <= MaxSignIns
  <2>0. /\ signup \in [token : 0..MaxSignIns, consumed : BOOLEAN] /\ signup.token + left <= MaxSignIns
    BY DEF SessionInv, S!TypeOK
  <2>1. CASE signup' = signup
    BY <1>0, <2>0, <2>1
  <2>2. CASE /\ signup' = [signup EXCEPT !.token = signup.token + 1] /\ left' = left - 1
    BY <1>0, <2>0, <2>2
  <2>3. CASE signup' = [signup EXCEPT !.consumed = TRUE]
    <3>1. /\ [signup EXCEPT !.consumed = TRUE] \in [token : 0..MaxSignIns, consumed : BOOLEAN]
          /\ [signup EXCEPT !.consumed = TRUE].token = signup.token
      BY <2>0
    <3>2. signup.token \in Nat
      BY <2>0, <1>0
    <3> QED
      BY <1>0, <2>0, <2>3, <3>1, <3>2
  <2>4. ASSUME NEW w \in Workers, SessionsRest(w)
        PROVE  \/ signup' = signup
               \/ signup' = [signup EXCEPT !.token = signup.token + 1] /\ left' = left - 1
               \/ signup' = [signup EXCEPT !.consumed = TRUE]
    BY <2>4 DEF SessionsRest, S!LoginRead, S!FailChallenge, S!ConsumeChallenge, S!ReadUser, S!RefreshOwner,
       S!ResetRead, S!ConsumeReset, S!RequestReset, S!VerifyReset, S!VerifySignup, S!ConsumeSignup,
       S!CreateAccount, S!Challenge, S!VerifyRead, S!ChangeRead, S!RefreshRead, S!StatusRead,
       S!RegisterRead, S!SetMfa, S!Receive
  <2>5. ASSUME NEW w \in Workers, SessionsEnd(w)
        PROVE  signup' = signup
    BY <2>5 DEF SessionsEnd, S!RevokeWrite, S!StatusWrite, S!PasswordWrite, S!Logout, S!RevokeAll
  <2>6. (\E w \in Workers : S!Rotate(w)) \/ (\E w \in Workers, s \in Sessions : S!Issue(w, s))
        \/ (\E s \in Sessions : S!Age(s)) \/ (\E c \in Challenges : S!Lapse(c)) => signup' = signup
    BY DEF S!Rotate, S!Issue, S!Age, S!Lapse
  <2> QED
    BY <1>0, <2>1, <2>2, <2>3, <2>4, <2>5, <2>6, SessionCases
<1>5. reset' \in [verified : BOOLEAN, consumed : BOOLEAN]
  <2>0. reset \in [verified : BOOLEAN, consumed : BOOLEAN]
    BY DEF SessionInv, S!TypeOK
  <2>1. \/ reset' = reset \/ reset' = [reset EXCEPT !.consumed = TRUE]
        \/ reset' = [reset EXCEPT !.verified = TRUE]
        \/ reset' = [verified |-> FALSE, consumed |-> FALSE]
    <3>1. ASSUME NEW w \in Workers, SessionsRest(w)
          PROVE  \/ reset' = reset \/ reset' = [reset EXCEPT !.consumed = TRUE]
                 \/ reset' = [reset EXCEPT !.verified = TRUE]
                 \/ reset' = [verified |-> FALSE, consumed |-> FALSE]
      BY <3>1 DEF SessionsRest, S!LoginRead, S!FailChallenge, S!ConsumeChallenge, S!ReadUser, S!RefreshOwner,
         S!ResetRead, S!ConsumeReset, S!RequestReset, S!VerifyReset, S!VerifySignup, S!ConsumeSignup,
         S!CreateAccount, S!Challenge, S!VerifyRead, S!ChangeRead, S!RefreshRead, S!StatusRead,
         S!RegisterRead, S!SetMfa
    <3>2. ASSUME NEW w \in Workers, SessionsEnd(w)
          PROVE  reset' = reset
      BY <3>2 DEF SessionsEnd, S!RevokeWrite, S!StatusWrite, S!PasswordWrite, S!Logout, S!RevokeAll
    <3>3. (\E w \in Workers : S!Rotate(w)) \/ (\E w \in Workers, s \in Sessions : S!Issue(w, s))
          \/ (\E s \in Sessions : S!Age(s)) \/ (\E c \in Challenges : S!Lapse(c)) => reset' = reset
      BY DEF S!Rotate, S!Issue, S!Age, S!Lapse
    <3> QED
      BY <1>0, <3>1, <3>2, <3>3, SessionCases
  <2>2. [verified |-> FALSE, consumed |-> FALSE] \in [verified : BOOLEAN, consumed : BOOLEAN]
    OBVIOUS
  <2>3. /\ [reset EXCEPT !.consumed = TRUE] \in [verified : BOOLEAN, consumed : BOOLEAN]
        /\ [reset EXCEPT !.verified = TRUE] \in [verified : BOOLEAN, consumed : BOOLEAN]
    BY <2>0
  <2> QED
    BY <2>0, <2>1, <2>2, <2>3
<1>6. S!TypeOK'
  BY <1>3, <1>0, <1>1, <1>2, <1>4, <1>5, AccountMoves, BudgetMoves DEF SignIn, S!TypeOK
<1> QED
  BY <1>3, <1>4, <1>6

LEMMA SessionsNext == SessionInv /\ S!MCNext => SessionInv'
<1> SUFFICES ASSUME SessionInv, S!MCNext
             PROVE  SessionInv'
  OBVIOUS
<1>0. S!Next
  BY DEF S!MCNext
<1>1. S!TypeOK' /\ op' \in [Workers -> SignIn] /\ signup'.token + left' <= MaxSignIns
  BY SessionTypes
<1>2. account' = None => \A c \in Challenges : challenges'[c] = None
  <2> SUFFICES ASSUME account' = None, NEW c \in Challenges
               PROVE  challenges'[c] = None
    OBVIOUS
  <2>1. account = None /\ challenges[c] = None
    BY <1>0, AccountMoves DEF SessionInv
  <2>2. \A w \in Workers : ~S!Challenge(w, c)
    BY <2>1 DEF SessionInv, Grounded, S!Challenge, S!At
  <2> QED
    BY <1>0, <2>1, <2>2, ChallengeMoves DEF ChallengeMove
<1>3. ASSUME NEW w \in Workers
      PROVE  Grounded(op[w])'
  <2>1. \A x \in SignIn : Grounded(x) => Grounded(x)'
    BY <1>0, GroundKept, SessionsLast
  <2>2. \E x \in SignIn : x = op'[w] /\ Grounded(x)'
    <3>1. CASE op'[w] = op[w]
      BY <2>1, <3>1 DEF SessionInv
    <3>2. CASE op'[w] # op[w]
      <4>1. PICK v \in Workers : \E self \in SignIn : Request(v, self)
        BY <1>0, <3>2, RequestMoves
      <4>2. PICK self \in SignIn : Request(v, self)
        BY <4>1
      <4>3. op'[w] = self
        BY <3>2, <4>2 DEF Request, SessionInv
      <4> QED
        BY <4>2, <4>3 DEF Request
    <3> QED
      BY <3>1, <3>2
  <2>3. PICK x \in SignIn : x = op'[w] /\ Grounded(x)'
    BY <2>2
  <2> QED
    BY <2>3 DEF Grounded
<1>4. ASSUME NEW s \in Sessions
      PROVE  sessions'[s] # None => account' # None
  <2>1. CASE sessions[s] # None
    BY <1>0, <2>1, AccountMoves DEF SessionInv
  <2>2. CASE sessions[s] = None /\ sessions'[s] # None
    <3>1. PICK w \in Workers : op[w].pc = "issue" /\ account' = account
      BY <2>2, Issuing
    <3> QED
      BY <3>1 DEF SessionInv, Grounded
  <2> QED
    BY <2>1, <2>2
<1>5. \A s \in Sessions : RotationsKept(s)'
  BY RotationsStep
<1>6. \A c \in Challenges : OneUse(c)'
  BY UsesStep
<1> QED
  BY <1>1, <1>2, <1>3, <1>4, <1>5, <1>6, BasisTypes, SignedOutStep DEF SessionInv, RotationsKept

LEMMA SessionsStutter ==
  ASSUME SessionInv, UNCHANGED vars
  PROVE  SessionInv'
<1>1. UNCHANGED <<account, sessions, challenges, signup, reset, basis, overtaken, raced, op, left, faults>>
  BY DEF vars, OfSessions
<1>2. S!TypeOK' /\ S!SignedOutUnlessOvertaken'
  BY <1>1 DEF SessionInv, S!TypeOK, S!SignedOutUnlessOvertaken, S!LiveSessions
<1>3. \A w \in Workers : Grounded(op[w])'
  BY <1>1 DEF SessionInv, Grounded
<1>4. \A s \in Sessions : Refreshers(s)' = Refreshers(s)
  BY <1>1 DEF Refreshers
<1>5. \A s \in Sessions : Rotations(s)' /\ (s \notin raced => InTurn(s)')
  BY <1>1, <1>4 DEF SessionInv, Rotations, InTurn
<1>6. \A c \in Challenges : OneUse(c)'
  BY <1>1 DEF SessionInv, OneUse, LetIn
<1> QED
  BY <1>1, <1>2, <1>3, <1>5, <1>6 DEF SessionInv

LEMMA SessionsInit == S!MCInit => SessionInv
<1> SUFFICES ASSUME S!MCInit
             PROVE  SessionInv
  OBVIOUS
<1>1. /\ op = [w \in Workers |-> S!Idle] /\ S!Idle \in SignIn
      /\ S!Idle = [pc |-> "idle", seen |-> None, session |-> None, challenge |-> None, value |-> 0,
                   status |-> None]
      /\ sessions = [s \in Sessions |-> None] /\ basis = [s \in Sessions |-> None]
      /\ challenges = [c \in Challenges |-> None] /\ overtaken = {} /\ raced = {}
      /\ left = MaxSignIns /\ faults = MaxFaults /\ MaxSignIns \in Nat /\ MaxFaults \in Nat
  BY IdleRequest, PlatformConstants DEF S!MCInit, S!Init, S!Idle
<1>2. account \in S!Accounts \cup {None}
  <2>1. S!Fresh \in S!Accounts /\ [S!Fresh EXCEPT !.mfa = TRUE] \in S!Accounts
    BY DEF S!Fresh, S!Accounts, S!Statuses
  <2> QED
    BY <2>1 DEF S!MCInit, S!Init
<1>3. S!TypeOK
  BY <1>1, <1>2 DEF S!TypeOK, S!MCInit, S!Init
<1>4. signup.token + left <= MaxSignIns
  BY <1>1 DEF S!MCInit, S!Init
<1>5. \A w \in Workers : Grounded(op[w])
  BY <1>1 DEF Grounded
<1>6. ASSUME NEW s \in Sessions
      PROVE  Rotations(s) /\ InTurn(s)
  BY <1>1, FS_EmptySet DEF Refreshers, Rotations, InTurn
<1>7. \A c \in Challenges : OneUse(c)
  BY <1>1 DEF OneUse, LetIn
<1>8. S!SignedOutUnlessOvertaken
  BY <1>1 DEF S!SignedOutUnlessOvertaken, S!LiveSessions
<1> QED
  BY <1>1, <1>3, <1>4, <1>5, <1>6, <1>7, <1>8 DEF SessionInv

-----------------------------------------------------------------------------
\* Support tickets.

TicketStatuses == C!Statuses \cup {"NEW"}

TicketRow == [status : TicketStatuses, closed : BOOLEAN, merged : BOOLEAN]

TicketRequest ==
  [pc : {"idle", "message", "write", "outbox", "audit", "emit"},
   kind : {"none", "create", "move", "reply", "note", "assign", "escalate", "merge"},
   ticket : Tickets \cup {None}, seen : TicketRow, to : C!Statuses]

\* A row, the last status of its trail and the last one announced agree.
Agreed(row, trail, said) ==
  /\ trail = row.status
  /\ row.status \in C!Ending => row.closed
  /\ row.status = "OPEN" => ~row.closed
  /\ row.status \in C!Ending \cup {"OPEN", "ESCALATED"} => said = row.status

\* What a request has made of the row it read.
Rewritten(self) ==
  IF self.kind = "create" THEN [C!Absent EXCEPT !.status = "OPEN"]
  ELSE C!Written(self.seen, self)

\* What a request of each kind is about to write.
Meant(self) ==
  /\ self.pc = "idle" => self = C!Idle
  /\ self.pc # "idle" => self.ticket \in Tickets /\ self.kind # "none"
  /\ self.kind = "create" => self.pc \notin {"message", "write"} /\ self.to = "OPEN"
                             /\ self.seen = C!Absent
  /\ self.kind = "reply" => \/ self.pc = "message" /\ self.to = self.seen.status
                            \/ self.to \in {"WAITING_CUSTOMER", "IN_PROGRESS"}
  /\ self.kind = "reply" => self.pc # "emit"
  /\ self.kind = "note" => self.pc = "message" /\ self.to = self.seen.status
  /\ self.kind = "assign" => \/ self.to = self.seen.status /\ self.to # "OPEN"
                             \/ self.to = "ASSIGNED"
  /\ self.kind = "escalate" => self.to = "ESCALATED"
  /\ self.kind = "merge" => self.to = "CLOSED"

\* Where a request that has a ticket to itself has got to with it.
Halfway(self, row, trail, said) ==
  /\ Agreed(self.seen, self.seen.status, said)
  /\ self.pc \in {"message", "write"} => row = self.seen
  /\ self.pc \in {"outbox", "audit", "emit"} => row = Rewritten(self)
  /\ trail = IF self.pc = "emit" THEN self.to ELSE self.seen.status

TicketKept(t) ==
  /\ (\A w \in Workers : ~C!On(t, w)) => Agreed(tickets[t], audit[t], told[t])
  /\ \A w \in Workers : C!On(t, w) => Halfway(op[w], tickets[t], audit[t], told[t])

TicketInv ==
  /\ C!TypeOK
  /\ op \in [Workers -> TicketRequest]
  /\ \A w \in Workers : Meant(op[w])
  /\ \A v, w \in Workers :
       v # w /\ op[v].ticket = op[w].ticket /\ op[v].ticket \in Tickets => op[v].ticket \in mixed
  /\ \A t \in Tickets \ (mixed \cup broken) : TicketKept(t)


LEMMA TicketsImplied ==
  ASSUME TicketInv
  PROVE  C!TypeOK /\ C!TrailUnlessMixed
  BY DEF TicketInv, TicketKept, Agreed, C!TrailUnlessMixed, C!Settled

LEMMA TicketsStutter ==
  ASSUME TicketInv, UNCHANGED vars
  PROVE  TicketInv'
BY DEF vars, OfTickets, TicketInv, C!TypeOK, TicketKept, C!On

\* A request that goes on with ticket t, takes it or lets go of it, while the other
\* tickets stay as they are.
LEMMA TicketStep ==
  ASSUME TicketInv, C!MCNext, NEW w \in Workers, NEW t \in Tickets,
         NEW self \in TicketRequest, Meant(self), op' = [op EXCEPT ![w] = self],
         op[w].ticket \in {t, None}, self.ticket \in {t, None},
         t \in {op[w].ticket, self.ticket}, C!TypeOK',
         \A u \in Tickets \ {t} :
           tickets'[u] = tickets[u] /\ audit'[u] = audit[u] /\ told'[u] = told[u],
         t \notin mixed' \cup broken' =>
           IF self.ticket = t THEN Halfway(self, tickets'[t], audit'[t], told'[t])
           ELSE Agreed(tickets'[t], audit'[t], told'[t])
  PROVE  TicketInv'
<1>1. mixed' = mixed \cup {u \in Tickets :
                 \E v, x \in Workers : v # x /\ op'[v].ticket = u /\ op'[x].ticket = u}
  BY DEF C!MCNext
<1>2. broken \subseteq broken'
  BY DEF C!MCNext
<1>3. op \in [Workers -> TicketRequest]
  BY DEF TicketInv
<1>4. op'[w] = self /\ \A v \in Workers \ {w} : op'[v] = op[v]
  BY <1>3
<1>5. op' \in [Workers -> TicketRequest]
  BY <1>3
<1>6. \A v \in Workers : Meant(op'[v])
  BY <1>4 DEF TicketInv
<1>7. \A v, x \in Workers :
        v # x /\ op'[v].ticket = op'[x].ticket /\ op'[v].ticket \in Tickets
          => op'[v].ticket \in mixed'
  BY <1>1
<1>8. ASSUME NEW u \in Tickets, u \notin mixed' \cup broken'
      PROVE  TicketKept(u)'
  BY <1>1, <1>2, <1>8, PlatformConstants, <1>4 DEF TicketInv, C!On, TicketKept
<1> QED
  BY <1>5, <1>6, <1>7, <1>8 DEF TicketInv

\* A ticket that a request takes for itself was at rest.
LEMMA TicketTaken ==
  ASSUME TicketInv, C!MCNext, NEW w \in Workers, C!At(w, "idle"), NEW t \in Tickets,
         NEW self \in TicketRequest, op' = [op EXCEPT ![w] = self], self.ticket = t,
         t \notin mixed' \cup broken'
  PROVE  Agreed(tickets[t], audit[t], told[t])
<1>1. t \notin mixed \cup broken
  BY DEF C!MCNext
<1>2. op[w].ticket = None /\ t # None
  BY PlatformConstants DEF TicketInv, Meant, C!At, C!Idle
<1>3. op'[w] = self /\ \A v \in Workers \ {w} : op'[v] = op[v]
  BY DEF TicketInv
<1>4. \A v \in Workers : ~C!On(t, v)
  BY <1>2, <1>3 DEF C!MCNext, C!On
<1> QED
  BY <1>1, <1>4 DEF TicketInv, TicketKept

\* What is known of a request that has a ticket, and of the ticket.
LEMMA TicketHeld ==
  ASSUME TicketInv, C!MCNext, NEW w \in Workers, ~C!At(w, "idle")
  PROVE  /\ op[w] \in TicketRequest /\ Meant(op[w]) /\ op[w].ticket \in Tickets
         /\ op[w].ticket \notin mixed' \cup broken' =>
              Halfway(op[w], tickets[op[w].ticket], audit[op[w].ticket], told[op[w].ticket])
BY DEF TicketInv, Meant, C!At, C!MCNext, TicketKept, C!On

LEMMA IdleTicket == C!Idle \in TicketRequest /\ Meant(C!Idle) /\ C!Absent \in TicketRow
  BY DEF C!Idle, C!Absent, TicketRequest, TicketRow, TicketStatuses, Meant, C!Statuses

\* What a request writes has the status and the closing time that go with it.
LEMMA TicketWritten ==
  ASSUME NEW self \in TicketRequest, Meant(self), self.pc # "idle",
         self.seen.status \in C!Ending => self.seen.closed,
         self.seen.status = "OPEN" => ~self.seen.closed,
         self.pc \notin {"message"}
  PROVE  /\ Rewritten(self) \in TicketRow /\ Rewritten(self).status = self.to
         /\ self.to \in C!Ending => Rewritten(self).closed
         /\ self.to = "OPEN" => ~Rewritten(self).closed
<1>1. self.seen \in TicketRow /\ self.to \in C!Statuses
  BY DEF TicketRequest
<1>2. CASE self.kind = "create"
  BY <1>1, <1>2 DEF Rewritten, Meant, C!Absent, TicketRow, TicketStatuses, C!Statuses, C!Ending
<1>3. CASE self.kind \in {"move", "reply"}
  BY <1>1, <1>3 DEF Rewritten, C!Written, C!ClosedAt, TicketRow, TicketStatuses, C!Statuses, C!Ending
<1>4. CASE self.kind \in {"assign", "escalate"}
  BY <1>1, <1>4 DEF Rewritten, C!Written, Meant, TicketRow, TicketStatuses, C!Ending
<1>5. CASE self.kind = "merge"
  BY <1>1, <1>5 DEF Rewritten, C!Written, Meant, TicketRow, TicketStatuses, C!Statuses, C!Ending
<1> QED
  BY <1>2, <1>3, <1>4, <1>5 DEF TicketRequest, Meant

LEMMA WrittenRow ==
  ASSUME NEW self \in TicketRequest, NEW row \in TicketRow
  PROVE  C!Written(row, self) \in TicketRow
BY DEF TicketRequest, TicketStatuses, C!Statuses, C!Ending, C!ClosedAt, TicketRow, C!Written

\* Every request that loads a ticket means what its kind says.
LEMMA TicketStarts ==
  ASSUME TicketInv, C!MCNext, NEW w \in Workers, NEW t \in Tickets,
         NEW what \in {"move", "reply", "note", "assign", "escalate", "merge"},
         NEW pc \in {"message", "write"}, NEW to \in C!Statuses, C!Load(w, t, what, pc, to),
         what = "reply" => \/ pc = "message" /\ to = tickets[t].status
                           \/ to \in {"WAITING_CUSTOMER", "IN_PROGRESS"},
         what = "note" => pc = "message" /\ to = tickets[t].status,
         what = "assign" => \/ to = tickets[t].status /\ to # "OPEN"
                            \/ to = "ASSIGNED",
         what = "escalate" => to = "ESCALATED",
         what = "merge" => to = "CLOSED"
  PROVE  TicketInv'
<1> DEFINE self == [pc |-> pc, kind |-> what, ticket |-> t, seen |-> tickets[t], to |-> to]
<1>1. tickets[t] \in TicketRow
  BY DEF TicketInv, C!TypeOK, TicketRow, TicketStatuses
<1>2. self \in TicketRequest /\ Meant(self)
  BY <1>1 DEF TicketRequest, Meant
<1>3. /\ op' = [op EXCEPT ![w] = self] /\ C!At(w, "idle") /\ UNCHANGED <<tickets, audit, told>>
      /\ left > 0 /\ left' = left - 1 /\ faults' = faults
  BY DEF C!Load, C!Become
<1>4. self.ticket = t /\ self.pc = pc /\ self.seen = tickets[t]
  OBVIOUS
<1> HIDE DEF self
<1>5. op[w].ticket = None
  BY <1>3 DEF TicketInv, Meant, C!At, C!Idle
<1>6. C!TypeOK'
  BY <1>2, <1>3, PlatformConstants DEF TicketInv, TicketRequest, C!TypeOK
<1>7. t \notin mixed' \cup broken' => Halfway(self, tickets'[t], audit'[t], told'[t])
  BY <1>2, <1>3, <1>4, TicketTaken DEF Halfway, Agreed
<1> QED
  BY <1>2, <1>3, <1>4, <1>5, <1>6, <1>7, TicketStep

\* A request goes on with its ticket, or lets go of it.
LEMMA TicketGoes ==
  ASSUME TicketInv, C!MCNext, NEW w \in Workers, ~C!At(w, "idle"), NEW self \in TicketRequest,
         Meant(self), op' = [op EXCEPT ![w] = self], self.ticket \in {op[w].ticket, None},
         left' = left, faults' \in 0..MaxFaults,
         NEW row \in TicketRow, tickets' = [tickets EXCEPT ![op[w].ticket] = row],
         NEW trail \in TicketStatuses, audit' = [audit EXCEPT ![op[w].ticket] = trail],
         NEW said \in TicketStatuses, told' = [told EXCEPT ![op[w].ticket] = said],
         op[w].ticket \notin broken' /\ Halfway(op[w], tickets[op[w].ticket], audit[op[w].ticket],
                                                told[op[w].ticket])
           => IF self.ticket # None THEN Halfway(self, row, trail, said)
              ELSE Agreed(row, trail, said)
  PROVE  TicketInv'
<1> DEFINE t == op[w].ticket
<1>1. t \in Tickets /\ t # None
  BY TicketHeld, PlatformConstants
<1>2. /\ tickets \in [Tickets -> TicketRow] /\ audit \in [Tickets -> TicketStatuses]
      /\ told \in [Tickets -> TicketStatuses]
  BY DEF TicketInv, C!TypeOK, TicketRow, TicketStatuses
<1>3. /\ tickets' \in [Tickets -> TicketRow] /\ audit' \in [Tickets -> TicketStatuses]
      /\ told' \in [Tickets -> TicketStatuses]
  BY <1>2
<1>4. C!TypeOK'
  BY <1>3 DEF TicketInv, TicketRequest, C!TypeOK, TicketRow, TicketStatuses
<1>5. /\ tickets'[t] = row /\ audit'[t] = trail /\ told'[t] = said
      /\ \A u \in Tickets \ {t} : tickets'[u] = tickets[u] /\ audit'[u] = audit[u] /\ told'[u] = told[u]
  BY <1>1, <1>2
<1>6. t \notin mixed' \cup broken' =>
        IF self.ticket = t THEN Halfway(self, tickets'[t], audit'[t], told'[t])
        ELSE Agreed(tickets'[t], audit'[t], told'[t])
  BY <1>1, <1>5, TicketHeld
<1> HIDE DEF t
<1>7. t = op[w].ticket
  BY DEF t
<1> QED
  BY <1>1, <1>4, <1>5, <1>6, <1>7, TicketStep

LEMMA TicketsNext == TicketInv /\ C!MCNext => TicketInv'
<1> SUFFICES ASSUME TicketInv, C!MCNext PROVE TicketInv'
  OBVIOUS
<1> PICK w \in Workers :
      \/ \E t \in Tickets :
           \/ C!Create(w, t)
           \/ \E to \in C!Statuses : C!MoveStart(w, t, to)
           \/ \E byAgent \in BOOLEAN : C!ReplyStart(w, t, byAgent)
           \/ C!NoteStart(w, t)
           \/ C!AssignStart(w, t) \/ C!EscalateStart(w, t)
           \/ \E target \in Tickets : C!MergeStart(w, t, target)
      \/ C!WriteMessage(w) \/ C!Write(w) \/ C!AppendOutbox(w) \/ C!Record(w) \/ C!Announce(w)
      \/ C!Die(w)
  BY DEF C!MCNext, C!Next
<1>1. /\ tickets \in [Tickets -> TicketRow] /\ audit \in [Tickets -> TicketStatuses]
      /\ told \in [Tickets -> TicketStatuses] /\ left \in 0..MaxReplies /\ faults \in 0..MaxFaults
      /\ op \in [Workers -> TicketRequest]
  BY DEF TicketInv, C!TypeOK, TicketRow, TicketStatuses
<1>2. \A t \in Tickets : C!Exists(t) => tickets[t].status \in C!Statuses
  BY <1>1 DEF C!Exists, TicketRow, TicketStatuses
<1>3. ASSUME NEW t \in Tickets, C!Create(w, t)
      PROVE  TicketInv'
  <2> DEFINE self == [C!Idle EXCEPT !.pc = "outbox", !.kind = "create", !.ticket = t]
             row == [C!Absent EXCEPT !.status = "OPEN"]
  <2>1. self \in TicketRequest /\ Meant(self) /\ row \in TicketRow
    BY IdleTicket DEF TicketRequest, Meant, C!Idle, C!Absent, TicketRow, TicketStatuses, C!Statuses
  <2>2. /\ self.ticket = t /\ self.pc = "outbox" /\ self.seen = C!Absent /\ Rewritten(self) = row
        /\ self.to = "OPEN"
    BY DEF C!Idle, Rewritten
  <2>3. /\ op' = [op EXCEPT ![w] = self] /\ tickets' = [tickets EXCEPT ![t] = row]
        /\ UNCHANGED <<audit, told, faults>> /\ C!At(w, "idle") /\ tickets[t].status = "NEW"
        /\ left > 0 /\ left' = left - 1
    BY <1>3 DEF C!Create, C!Become, C!Exists
  <2> HIDE DEF self, row
  <2>4. op[w].ticket = None
    BY <2>3 DEF TicketInv, Meant, C!At, C!Idle
  <2>5. C!TypeOK'
    BY <1>1, <2>1, <2>3, PlatformConstants DEF TicketRequest, C!TypeOK, TicketRow, TicketStatuses
  <2>6. t \notin mixed' \cup broken' => Halfway(self, tickets'[t], audit'[t], told'[t])
    <3>1. t \notin mixed' \cup broken' => Agreed(tickets[t], audit[t], told[t])
      BY <2>1, <2>2, <2>3, TicketTaken
    <3>2. tickets'[t] = row
      BY <1>1, <2>3
    <3> QED
      BY <2>2, <2>3, <3>1, <3>2 DEF Halfway, Agreed, C!Absent, C!Ending
  <2>7. \A u \in Tickets \ {t} : tickets'[u] = tickets[u] /\ audit'[u] = audit[u] /\ told'[u] = told[u]
    BY <1>1, <2>3
  <2> QED
    BY <2>1, <2>2, <2>3, <2>4, <2>5, <2>6, <2>7, TicketStep
<1>4. ASSUME NEW t \in Tickets, NEW to \in C!Statuses, C!MoveStart(w, t, to)
      PROVE  TicketInv'
  BY <1>4, TicketStarts DEF C!MoveStart
<1>5. ASSUME NEW t \in Tickets, NEW byAgent \in BOOLEAN, C!ReplyStart(w, t, byAgent)
      PROVE  TicketInv'
  <2> DEFINE to == C!AfterReply(tickets[t].status, byAgent)
  <2>1. C!Load(w, t, "reply", "message", to)
    BY <1>5 DEF C!ReplyStart
  <2>2. to = tickets[t].status \/ to \in {"WAITING_CUSTOMER", "IN_PROGRESS"}
    BY DEF C!AfterReply
  <2>3. to \in C!Statuses
    BY <1>2, <2>1, <2>2 DEF C!Load, C!Statuses, C!Busy, C!Queued
  <2> QED
    BY <2>1, <2>2, <2>3, TicketStarts
<1>6. ASSUME NEW t \in Tickets, C!NoteStart(w, t)
      PROVE  TicketInv'
  BY <1>6, <1>2, TicketStarts DEF C!NoteStart, C!Load
<1>7. ASSUME NEW t \in Tickets, C!AssignStart(w, t)
      PROVE  TicketInv'
  <2> DEFINE to == IF tickets[t].status \in {"OPEN", "PENDING"} THEN "ASSIGNED" ELSE tickets[t].status
  <2>1. C!Load(w, t, "assign", "write", to)
    BY <1>7 DEF C!AssignStart
  <2>2. to \in C!Statuses
    BY <1>2, <2>1 DEF C!Load, C!Statuses
  <2>3. (to = tickets[t].status /\ to # "OPEN") \/ to = "ASSIGNED"
    OBVIOUS
  <2> HIDE DEF to
  <2> QED
    BY <2>1, <2>2, <2>3, TicketStarts
<1>8. ASSUME NEW t \in Tickets, C!EscalateStart(w, t)
      PROVE  TicketInv'
  BY <1>8, TicketStarts DEF C!EscalateStart, C!Statuses, C!Busy
<1>9. ASSUME NEW t \in Tickets, NEW target \in Tickets, C!MergeStart(w, t, target)
      PROVE  TicketInv'
  BY <1>9, TicketStarts DEF C!MergeStart, C!Statuses, C!Ending
<1> DEFINE t == op[w].ticket
<1>10. ASSUME ~C!At(w, "idle")
       PROVE  /\ t \in Tickets /\ t # None /\ op[w] \in TicketRequest /\ Meant(op[w])
              /\ op[w].to \in C!Statuses
              /\ tickets[t] \in TicketRow /\ tickets = [tickets EXCEPT ![t] = tickets[t]]
              /\ audit[t] \in TicketStatuses /\ audit = [audit EXCEPT ![t] = audit[t]]
              /\ told[t] \in TicketStatuses /\ told = [told EXCEPT ![t] = told[t]]
  BY <1>10, TicketHeld, <1>1, PlatformConstants DEF TicketRequest
<1>11. ASSUME NEW pc \in {"write", "outbox", "audit", "emit"}, ~C!At(w, "idle"),
              op[w].kind = "create" => pc # "write",
              op[w].kind = "reply" => pc # "emit" /\ op[w].to \in {"WAITING_CUSTOMER", "IN_PROGRESS"},
              op[w].kind # "note"
       PROVE  /\ [op[w] EXCEPT !.pc = pc] \in TicketRequest /\ Meant([op[w] EXCEPT !.pc = pc])
              /\ [op[w] EXCEPT !.pc = pc].pc = pc /\ [op[w] EXCEPT !.pc = pc].ticket = t
              /\ [op[w] EXCEPT !.pc = pc].seen = op[w].seen
              /\ [op[w] EXCEPT !.pc = pc].kind = op[w].kind
              /\ [op[w] EXCEPT !.pc = pc].to = op[w].to
              /\ Rewritten([op[w] EXCEPT !.pc = pc]) = Rewritten(op[w])
  <2>1. op[w] \in TicketRequest /\ Meant(op[w])
    BY <1>10, <1>11
  <2> DEFINE self == [op[w] EXCEPT !.pc = pc]
  <2>2. /\ self.pc = pc /\ self.ticket = t /\ self.seen = op[w].seen /\ self.kind = op[w].kind
        /\ self.to = op[w].to /\ self \in TicketRequest
    BY <2>1 DEF TicketRequest
  <2> HIDE DEF self
  <2>3. Meant(self)
    BY <1>11, <2>1, <2>2 DEF Meant, C!At
  <2>4. Rewritten(self) = Rewritten(op[w])
    BY <2>2 DEF Rewritten, C!Written
  <2> QED
    BY <2>2, <2>3, <2>4 DEF self
<1>12. ASSUME C!Done(w), ~C!At(w, "idle"), UNCHANGED <<tickets, left>>, faults' \in 0..MaxFaults,
              NEW trail \in TicketStatuses, audit' = [audit EXCEPT ![t] = trail],
              NEW said \in TicketStatuses, told' = [told EXCEPT ![t] = said],
              t \notin broken' /\ Halfway(op[w], tickets[t], audit[t], told[t])
                => Agreed(tickets[t], trail, said)
       PROVE  TicketInv'
  <2>1. op' = [op EXCEPT ![w] = C!Idle] /\ C!Idle.ticket = None
    BY <1>12 DEF C!Done, C!Become, C!Idle
  <2>2. /\ tickets[t] \in TicketRow /\ tickets' = [tickets EXCEPT ![t] = tickets[t]] /\ left' = left
    BY <1>10, <1>12
  <2> HIDE DEF t
  <2>3. t = op[w].ticket
    BY DEF t
  <2> QED
    BY <1>12, <2>1, <2>2, <2>3, IdleTicket, TicketGoes
<1>a. ASSUME ~C!At(w, "idle"), NEW self \in TicketRequest, Meant(self),
             op' = [op EXCEPT ![w] = self], self.ticket = t, UNCHANGED <<told, left, faults>>,
             NEW row \in TicketRow, tickets' = [tickets EXCEPT ![t] = row],
             NEW trail \in TicketStatuses, audit' = [audit EXCEPT ![t] = trail],
             Halfway(op[w], tickets[t], audit[t], told[t]) => Halfway(self, row, trail, told[t])
      PROVE  TicketInv'
  <2>1. told' = [told EXCEPT ![t] = told[t]] /\ told[t] \in TicketStatuses /\ self.ticket # None
    BY <1>10, <1>a
  <2>2. left' = left /\ faults' \in 0..MaxFaults
    BY <1>1, <1>a
  <2> HIDE DEF t
  <2>3. t = op[w].ticket
    BY DEF t
  <2> QED
    BY <1>a, <2>1, <2>2, <2>3, TicketGoes
<1>13. ASSUME C!WriteMessage(w)
       PROVE  TicketInv'
  <2>1. op[w].pc = "message" /\ ~C!At(w, "idle") /\ UNCHANGED <<tickets, audit, told, left, faults>>
    BY <1>13 DEF C!WriteMessage, C!At
  <2>2. op[w].kind # "create" /\ Meant(op[w]) /\ faults' \in 0..MaxFaults
    BY <1>1, <1>10, <2>1 DEF Meant
  <2>3. CASE op[w].to = op[w].seen.status
    BY <1>13, <2>3, <2>1, <1>10, <1>12, <2>2 DEF C!WriteMessage, Halfway, Agreed
  <2>4. CASE op[w].to # op[w].seen.status
    <3> DEFINE self == [op[w] EXCEPT !.pc = "write"]
    <3>1. op[w].kind # "note" /\ (op[w].kind = "reply" => op[w].to \in {"WAITING_CUSTOMER", "IN_PROGRESS"})
      BY <2>2, <2>4 DEF Meant
    <3>2. /\ self \in TicketRequest /\ Meant(self) /\ self.pc = "write" /\ self.ticket = t
          /\ self.seen = op[w].seen /\ self.to = op[w].to
      BY <1>11, <2>1, <2>2, <3>1
    <3>3. op' = [op EXCEPT ![w] = self]
      BY <1>13, <2>4 DEF C!WriteMessage, C!Goto, C!Become
    <3> HIDE DEF self
    <3>4. Halfway(op[w], tickets[t], audit[t], told[t]) => Halfway(self, tickets[t], audit[t], told[t])
      BY <2>1, <3>2 DEF Halfway
    <3>5. /\ tickets[t] \in TicketRow /\ tickets' = [tickets EXCEPT ![t] = tickets[t]]
          /\ audit[t] \in TicketStatuses /\ audit' = [audit EXCEPT ![t] = audit[t]]
      BY <1>10, <2>1
    <3> HIDE DEF t
    <3> QED
      BY <1>a, <2>1, <3>2, <3>3, <3>4, <3>5
  <2> QED
    BY <2>3, <2>4
<1>14. ASSUME C!Write(w)
       PROVE  TicketInv'
  <2>1. op[w].pc = "write" /\ ~C!At(w, "idle") /\ UNCHANGED <<audit, told, left, faults>>
    BY <1>14 DEF C!Write, C!At
  <2>2. /\ op[w].kind \notin {"create", "note"} /\ Meant(op[w]) /\ faults' \in 0..MaxFaults
        /\ op[w].kind = "reply" => op[w].to \in {"WAITING_CUSTOMER", "IN_PROGRESS"}
    BY <1>1, <1>10, <2>1 DEF Meant
  <2> DEFINE row == C!Written(tickets[t], op[w])
             pc == IF op[w].kind = "assign" THEN "outbox" ELSE "audit"
             self == [op[w] EXCEPT !.pc = pc]
  <2>3. row \in TicketRow
    BY <1>10, <2>1, WrittenRow
  <2>4. /\ self \in TicketRequest /\ Meant(self) /\ self.pc = pc /\ self.ticket = t
        /\ self.seen = op[w].seen /\ self.to = op[w].to /\ Rewritten(self) = Rewritten(op[w])
    BY <1>11, <2>1, <2>2
  <2>5. op' = [op EXCEPT ![w] = self] /\ tickets' = [tickets EXCEPT ![t] = row]
    BY <1>14 DEF C!Write, C!Goto, C!Become
  <2>6. tickets[t] = op[w].seen => row = Rewritten(op[w])
    BY <2>2 DEF Rewritten
  <2>7. self.pc \in {"outbox", "audit"}
    BY <2>4
  <2> HIDE DEF row, self, pc
  <2>8. Halfway(op[w], tickets[t], audit[t], told[t]) => Halfway(self, row, audit[t], told[t])
    BY <2>1, <2>4, <2>6, <2>7 DEF Halfway
  <2>9. audit[t] \in TicketStatuses /\ audit' = [audit EXCEPT ![t] = audit[t]]
    BY <1>10, <2>1
  <2> HIDE DEF t
  <2> QED
    BY <1>a, <2>1, <2>3, <2>4, <2>5, <2>8, <2>9
<1>15. ASSUME C!AppendOutbox(w)
       PROVE  TicketInv'
  <2>1. op[w].pc = "outbox" /\ ~C!At(w, "idle") /\ UNCHANGED <<tickets, audit, told, left, faults>>
    BY <1>15 DEF C!AppendOutbox, C!At
  <2>2. /\ op[w].kind # "note" /\ Meant(op[w]) /\ faults' \in 0..MaxFaults
        /\ op[w].kind = "reply" => op[w].to \in {"WAITING_CUSTOMER", "IN_PROGRESS"}
    BY <1>1, <1>10, <2>1 DEF Meant
  <2> DEFINE self == [op[w] EXCEPT !.pc = "audit"]
  <2>3. /\ self \in TicketRequest /\ Meant(self) /\ self.pc = "audit" /\ self.ticket = t
        /\ self.seen = op[w].seen /\ self.to = op[w].to /\ Rewritten(self) = Rewritten(op[w])
    BY <1>11, <2>1, <2>2
  <2>4. op' = [op EXCEPT ![w] = self]
    BY <1>15 DEF C!AppendOutbox, C!Goto, C!Become
  <2> HIDE DEF self
  <2>5. Halfway(op[w], tickets[t], audit[t], told[t]) => Halfway(self, tickets[t], audit[t], told[t])
    BY <2>1, <2>3 DEF Halfway
  <2>6. /\ tickets[t] \in TicketRow /\ tickets' = [tickets EXCEPT ![t] = tickets[t]]
        /\ audit[t] \in TicketStatuses /\ audit' = [audit EXCEPT ![t] = audit[t]]
    BY <1>10, <2>1
  <2> HIDE DEF t
  <2> QED
    BY <1>a, <2>1, <2>3, <2>4, <2>5, <2>6
<1>16. ASSUME C!Record(w)
       PROVE  TicketInv'
  <2>1. op[w].pc = "audit" /\ ~C!At(w, "idle") /\ UNCHANGED <<tickets, told, left, faults>>
    BY <1>16 DEF C!Record, C!At
  <2>2. /\ op[w].kind # "note" /\ Meant(op[w]) /\ faults' \in 0..MaxFaults
        /\ op[w].kind = "reply" => op[w].to \in {"WAITING_CUSTOMER", "IN_PROGRESS"}
    BY <1>1, <1>10, <2>1 DEF Meant
  <2>3. audit' = [audit EXCEPT ![t] = op[w].to] /\ op[w].to \in TicketStatuses
    BY <1>10, <1>16, <2>1 DEF C!Record, TicketStatuses
  <2>4. CASE op[w].kind = "reply"
    <3>1. op' = [op EXCEPT ![w] = C!Idle] /\ C!Idle.ticket = None
      BY <1>16, <2>4 DEF C!Record, C!Done, C!Become, C!Idle
    <3>2. Halfway(op[w], tickets[t], audit[t], told[t]) => Agreed(tickets[t], op[w].to, told[t])
      BY <2>1, <1>10, TicketWritten, <2>2, <2>4 DEF Halfway, Agreed, C!Ending
    <3>3. C!Done(w) /\ told[t] \in TicketStatuses /\ told' = [told EXCEPT ![t] = told[t]]
      BY <1>10, <1>16, <2>1, <2>4 DEF C!Record
    <3> HIDE DEF t
    <3> QED
      BY <1>12, <2>1, <2>2, <2>3, <3>2, <3>3
  <2>5. CASE op[w].kind # "reply"
    <3> DEFINE self == [op[w] EXCEPT !.pc = "emit"]
    <3>1. /\ self \in TicketRequest /\ Meant(self) /\ self.pc = "emit" /\ self.ticket = t
          /\ self.seen = op[w].seen /\ self.to = op[w].to /\ Rewritten(self) = Rewritten(op[w])
      BY <1>11, <2>1, <2>2, <2>5
    <3>2. op' = [op EXCEPT ![w] = self]
      BY <1>16, <2>5 DEF C!Record, C!Goto, C!Become
    <3> HIDE DEF self
    <3>3. Halfway(op[w], tickets[t], audit[t], told[t]) => Halfway(self, tickets[t], op[w].to, told[t])
      BY <2>1, <3>1 DEF Halfway
    <3>4. tickets[t] \in TicketRow /\ tickets' = [tickets EXCEPT ![t] = tickets[t]]
      BY <1>10, <2>1
    <3> HIDE DEF t
    <3> QED
      BY <1>a, <2>1, <2>3, <3>1, <3>2, <3>3, <3>4
  <2> QED
    BY <2>4, <2>5
<1>17. ASSUME C!Announce(w)
       PROVE  TicketInv'
  <2> DEFINE said == IF op[w].kind \in {"escalate", "merge"} \/ op[w].to # op[w].seen.status
                     THEN op[w].to ELSE told[t]
  <2>1. op[w].pc = "emit" /\ ~C!At(w, "idle") /\ UNCHANGED <<tickets, audit, left, faults>>
    BY <1>17 DEF C!Announce, C!At
  <2>2. Meant(op[w]) /\ faults' \in 0..MaxFaults /\ C!Done(w) /\ said \in TicketStatuses
    BY <1>1, <1>10, <1>17, <2>1 DEF C!Announce, TicketStatuses
  <2>3. told' = [told EXCEPT ![t] = said]
    BY <1>10, <1>17, <2>1 DEF C!Announce
  <2>4. ASSUME Halfway(op[w], tickets[t], audit[t], told[t])
        PROVE  Agreed(tickets[t], audit[t], said)
    BY <2>1, <2>4, <1>10, TicketWritten DEF Halfway, Agreed
  <2>5. audit[t] \in TicketStatuses /\ audit' = [audit EXCEPT ![t] = audit[t]]
    BY <1>10, <2>1
  <2> HIDE DEF said, t
  <2> QED
    BY <1>12, <2>1, <2>2, <2>3, <2>4, <2>5
<1>18. ASSUME C!Die(w)
       PROVE  TicketInv'
  BY <1>18, <1>1, PlatformConstants, <1>10, <1>12 DEF C!Die, C!Done, C!Become, C!MCNext, C!On
<1> HIDE DEF t
<1> QED
  BY <1>3, <1>4, <1>5, <1>6, <1>7, <1>8, <1>9, <1>13, <1>14, <1>15, <1>16, <1>17, <1>18

LEMMA TicketsInit == C!MCInit => TicketInv
<1> SUFFICES ASSUME C!MCInit PROVE TicketInv
  OBVIOUS
<1>1. /\ tickets = [t \in Tickets |-> C!Absent] /\ audit = [t \in Tickets |-> "NEW"]
      /\ told = [t \in Tickets |-> "NEW"] /\ op = [w \in Workers |-> C!Idle]
      /\ left = MaxReplies /\ faults = MaxFaults /\ mixed = {} /\ broken = {}
  BY DEF C!MCInit, C!Init
<1>2. /\ C!Absent \in TicketRow /\ C!Absent.status = "NEW" /\ C!Idle \in TicketRequest /\ Meant(C!Idle)
      /\ C!Idle.ticket = None
  BY IdleTicket DEF C!Absent, C!Idle
<1>3. C!TypeOK
  BY <1>1, <1>2, PlatformConstants DEF TicketRequest, C!TypeOK, TicketRow, TicketStatuses
<1>4. \A t \in Tickets : TicketKept(t)
  BY <1>1, <1>2, PlatformConstants DEF Agreed, C!Ending, C!On, TicketKept
<1> QED
  BY <1>1, <1>2, <1>3, <1>4, PlatformConstants DEF TicketInv

-----------------------------------------------------------------------------
\* Notifications.

Walks ==
  {<<"customer">>, <<"customer", "rider">>, <<"customer", "merchant">>, <<"rider">>, <<"merchant">>}

Walker ==
  [event : Occurrences, n : 1..4, users : Walks, again : BOOLEAN,
   pc : {"inapp", "make", "store", "push", "send", "drop"}]

Visits(users, u) == \E k \in DOMAIN users : users[k] = u

\* What a listener under way still owes: a notice in the app, one push, one push more.
OwesNotice(t, u) ==
  Visits(t.users, u) /\ (Head(t.users) # u \/ t.pc \in {"inapp", "make", "store"})

OwesPush(t) == Head(t.users) = "customer"

\* The listeners of an event that do.
One(b) == IF b THEN 1 ELSE 0

Of(e, n) == {t \in listening : t.event = e /\ t.n = n}

Noticers(ts, u) == One(\E t \in ts : OwesNotice(t, u))

Pushers(ts) == One(\E t \in ts : OwesPush(t))

Repeaters(ts) == One(\E t \in ts : t.again)

Noticing(e, u) == [n \in 1..4 |-> Noticers(Of(e, n), u)]

Pushing(e) == [n \in 1..4 |-> Pushers(Of(e, n))]

Repeating(e) == [n \in 1..4 |-> Repeaters(Of(e, n))]

Tally(f) == f[1] + f[2] + f[3] + f[4]

Heeded(e) == N!Effective(prefs["customer"]) = asked[e].row /\ device = asked[e].device

Reaches(e) == asked[e].row.push /\ asked[e].device = "live"

\* An event nothing came between, while its listeners run and after.
Answered(e) ==
  LET ls == N!Listeners[kinds[e]] IN
  /\ \A u \in N!Users :
       IF u = "customer" /\ ~asked[e].row.inApp THEN inbox[e][u] = 0
       ELSE inbox[e][u] + Tally(Noticing(e, u)) = N!Heard(ls, u)
  /\ IF Reaches(e) THEN pushed[e] + Tally(Pushing(e)) + Tally(Repeating(e)) = N!Pushes(ls)
     ELSE pushed[e] = 0
  /\ \A t \in listening : t.event = e =>
       /\ Heeded(e)
       /\ t.pc \in {"make", "store"} /\ Head(t.users) = "customer" => asked[e].row.inApp
       /\ t.pc = "send" => Head(t.users) = "customer" /\ Reaches(e)
       /\ t.pc # "drop"

NoticeInv ==
  /\ kinds \in [Occurrences -> Kinds \cup {"none"}]
  /\ prefs \in [N!Users -> N!Row \cup {None}]
  /\ prefs["rider"] \in {None, N!Defaults} /\ prefs["merchant"] \in {None, N!Defaults}
  /\ device \in {"none", "live"}
  /\ inbox \in [Occurrences -> [N!Users -> Nat]]
  /\ pushed \in [Occurrences -> Nat]
  /\ left \in 0..MaxNotices /\ faults \in 0..MaxFaults
  /\ listening \subseteq Walker
  /\ \A t \in listening : kinds[t.event] # "none" /\ (t.again => Head(t.users) = "customer")
  /\ \A s, t \in listening : s.event = t.event /\ s.n = t.n => s = t
  /\ \A e \in Occurrences :
       /\ kinds[e] = "none" => pushed[e] = 0 /\ \A u \in N!Users : inbox[e][u] = 0
       /\ kinds[e] # "none" /\ e \notin shaken \cup collided => Answered(e)

Listening ==
  [users : {<<"customer">>, <<"customer", "rider">>, <<"customer", "merchant">>}, again : BOOLEAN]

InOrder(ls, k) == DOMAIN ls = 1..k /\ \A n \in 1..k : ls[n] \in Listening

LEMMA Fits ==
  ASSUME NEW a \in Listening, NEW b \in Listening
  PROVE  /\ InOrder(<<a>>, 1) /\ InOrder(<<a, b>>, 2) /\ InOrder(<<a, b>> \o <<a, b>>, 4)
         /\ InOrder(<< >>, 0)
<1>1. InOrder(<<a>>, 1)
  BY DEF InOrder
<1>2. InOrder(<<a, b>>, 2)
  BY DEF InOrder
<1>3. InOrder(<<a, b>> \o <<a, b>>, 4)
  BY ConcatProperties DEF InOrder
<1>4. InOrder(<< >>, 0)
  BY DEF InOrder
<1> QED
  BY <1>1, <1>2, <1>3, <1>4

LEMMA ListenerShapes ==
  ASSUME NEW what \in Kinds
  PROVE  \E k \in 0..4 : InOrder(N!Listeners[what], k)
<1>1. N!Listener \in Listening /\ N!OrderWorkflow(<<"customer">>) \in Listening
  BY DEF N!Listener, N!OrderWorkflow, Listening
<1>2. N!OrderWorkflow(<<"customer", "merchant">>) \in Listening
  BY DEF N!OrderWorkflow, Listening
<1>3. N!RideWorkflow(<<"customer">>) \in Listening
  BY DEF N!RideWorkflow, Listening
<1>4. N!RideWorkflow(<<"customer", "rider">>) \in Listening
  BY DEF N!RideWorkflow, Listening
<1>5. InOrder(N!RideMoved, 2) /\ InOrder(N!RideMoved \o N!RideMoved, 4)
  BY <1>1, <1>4, Fits DEF N!RideMoved
<1>6. what \in {"order_placed", "order_paid", "order_moved", "order_cancelled", "ride_created",
                "ride_paid", "ride_refunded", "rider_assigned", "ride_moved_by_customer",
                "ride_moved", "ride_rejected", "booking_paid"}
  BY PlatformConstants DEF N!Listeners
<1>7. CASE what \in {"order_placed", "ride_created", "ride_refunded", "rider_assigned", "booking_paid"}
  <2>1. \E a \in Listening : N!Listeners[what] = <<a>>
    BY <1>1, <1>3, <1>4, <1>7 DEF N!Listeners
  <2>2. InOrder(N!Listeners[what], 1)
    BY <2>1, Fits
  <2> QED
    BY <2>2
<1>8. CASE what \in {"order_paid", "order_moved", "ride_paid", "ride_rejected"}
  <2>1. \E a, b \in Listening : N!Listeners[what] = <<a, b>>
    BY <1>1, <1>2, <1>3, <1>8 DEF N!Listeners
  <2>2. InOrder(N!Listeners[what], 2)
    BY <2>1, Fits
  <2> QED
    BY <2>2
<1>9. CASE what = "order_cancelled"
  <2>1. N!Listeners[what] = << >>
    BY <1>9 DEF N!Listeners
  <2>2. InOrder(N!Listeners[what], 0)
    BY <1>1, <2>1, Fits
  <2> QED
    BY <2>2
<1>10. CASE what = "ride_moved_by_customer"
  BY <1>5, <1>10 DEF N!Listeners
<1>11. CASE what = "ride_moved"
  BY <1>5, <1>11 DEF N!Listeners
<1> QED
  BY <1>6, <1>7, <1>8, <1>9, <1>10, <1>11

LEMMA TallyStep ==
  ASSUME NEW f \in [1..4 -> {0, 1}], NEW g \in [1..4 -> {0, 1}], NEW i \in 1..4,
         \A n \in 1..4 \ {i} : f[n] = g[n]
  PROVE  Tally(f) - f[i] = Tally(g) - g[i] /\ Tally(f) \in Nat /\ Tally(g) \in Nat
<1>1. /\ f[1] \in Nat /\ f[2] \in Nat /\ f[3] \in Nat /\ f[4] \in Nat
      /\ g[1] \in Nat /\ g[2] \in Nat /\ g[3] \in Nat /\ g[4] \in Nat
  OBVIOUS
<1>3. CASE i = 1
  BY <1>1, <1>3 DEF Tally
<1>4. CASE i = 2
  BY <1>1, <1>4 DEF Tally
<1>5. CASE i = 3
  BY <1>1, <1>5 DEF Tally
<1>6. CASE i = 4
  BY <1>1, <1>6 DEF Tally
<1> QED
  BY <1>3, <1>4, <1>5, <1>6

LEMMA TallyCount ==
  ASSUME NEW f \in [1..4 -> {0, 1}]
  PROVE  N!Cardinality({n \in 1..4 : f[n] = 1}) = Tally(f)
<1> DEFINE Up(k) == {n \in 1..k : f[n] = 1}
<1>0. \A X : N!Cardinality(X) = Cardinality(X)
  BY Zenon DEF Cardinality, N!Cardinality
<1>1. ASSUME NEW k \in 0..3, IsFiniteSet(Up(k)), Cardinality(Up(k)) \in Nat
      PROVE  IsFiniteSet(Up(k + 1)) /\ Cardinality(Up(k + 1)) = Cardinality(Up(k)) + f[k + 1]
  <2>0. f[k + 1] \in {0, 1}
    OBVIOUS
  <2>1. CASE f[k + 1] = 1
    <3>1. Up(k + 1) = Up(k) \cup {k + 1} /\ k + 1 \notin Up(k)
      BY <2>1
    <3> HIDE DEF Up
    <3>2. IsFiniteSet(Up(k) \cup {k + 1}) /\ Cardinality(Up(k) \cup {k + 1}) = Cardinality(Up(k)) + 1
      BY <1>1, <3>1, FS_AddElement
    <3> QED
      BY <2>1, <3>1, <3>2
  <2>2. CASE f[k + 1] = 0
    BY <2>2, <1>1
  <2> QED
    BY <2>0, <2>1, <2>2
<1>2. IsFiniteSet(Up(0)) /\ Cardinality(Up(0)) = 0
  BY FS_EmptySet
<1>3. Up(4) = {n \in 1..4 : f[n] = 1}
  OBVIOUS
<1>4. f[1] \in Nat /\ f[2] \in Nat /\ f[3] \in Nat /\ f[4] \in Nat
  OBVIOUS
<1> HIDE DEF Up
<1>5. IsFiniteSet(Up(1)) /\ Cardinality(Up(1)) = f[1]
  BY <1>1, <1>2, <1>4
<1>6. IsFiniteSet(Up(2)) /\ Cardinality(Up(2)) = f[1] + f[2]
  BY <1>1, <1>4, <1>5
<1>7. IsFiniteSet(Up(3)) /\ Cardinality(Up(3)) = f[1] + f[2] + f[3]
  BY <1>1, <1>4, <1>6
<1>8. Cardinality(Up(4)) = f[1] + f[2] + f[3] + f[4]
  BY <1>1, <1>4, <1>7
<1> QED
  BY <1>0, <1>3, <1>8 DEF Tally

LEMMA WalkFacts ==
  ASSUME NEW users \in Walks
  PROVE  /\ Head(users) \in N!Users /\ Visits(users, Head(users)) /\ Len(users) \in 1..2
         /\ users # << >>
         /\ Len(users) = 1 => \A u \in N!Users : Visits(users, u) => u = Head(users)
         /\ Len(users) # 1 => /\ Tail(users) \in Walks /\ Head(Tail(users)) # "customer"
                              /\ Head(users) = "customer"
                              /\ \A u \in N!Users : Visits(Tail(users), u) <=> Visits(users, u) /\ u # Head(users)
         /\ Visits(users, "customer") => Head(users) = "customer"
<1>1. Head(users) \in N!Users /\ Len(users) \in 1..2 /\ users # << >>
  BY DEF Walks, N!Users
<1>2. Visits(users, Head(users))
  BY <1>1 DEF Walks, Visits
<1>3. CASE Len(users) = 1
  BY <1>3, <1>1, <1>2 DEF Walks, Visits, N!Users
<1>4. CASE Len(users) # 1
  <2>1. users \in {<<"customer", "rider">>, <<"customer", "merchant">>}
    BY <1>4 DEF Walks
  <2>2. Head(users) = "customer" /\ Tail(users) \in {<<"rider">>, <<"merchant">>}
    <3>1. /\ Head(<<"customer", "rider">>) = "customer" /\ Tail(<<"customer", "rider">>) = <<"rider">>
          /\ Head(<<"customer", "merchant">>) = "customer"
          /\ Tail(<<"customer", "merchant">>) = <<"merchant">>
      OBVIOUS
    <3> QED
      BY <2>1, <3>1
  <2>3. Tail(users) \in Walks /\ Head(Tail(users)) # "customer"
    BY <2>2 DEF Walks
  <2>4. \A u \in N!Users : Visits(Tail(users), u) <=> Visits(users, u) /\ u # Head(users)
    <3>1. CASE users = <<"customer", "rider">>
      BY <3>1 DEF Visits
    <3>2. CASE users = <<"customer", "merchant">>
      BY <3>2 DEF Visits
    <3> QED
      BY <2>1, <3>1, <3>2
  <2> QED
    BY <1>1, <1>2, <1>4, <2>2, <2>3, <2>4
<1> QED
  BY <1>3, <1>4

LEMMA WalkStep ==
  ASSUME NoticeInv, NEW t \in listening, NEW after \in SUBSET Walker,
         listening' = (listening \ {t}) \cup after,
         \A r \in after : r.event = t.event /\ r.n = t.n,
         \A r, s \in after : r = s
  PROVE  /\ listening' \subseteq Walker
         /\ \A r, s \in listening' : r.event = s.event /\ r.n = s.n => r = s
         /\ \A e \in Occurrences \ {t.event} :
              /\ \A u \in N!Users : Noticing(e, u)' = Noticing(e, u)
              /\ Pushing(e)' = Pushing(e) /\ Repeating(e)' = Repeating(e)
         /\ \A u \in N!Users :
              /\ Tally(Noticing(t.event, u)) \in Nat /\ Tally(Noticing(t.event, u)') \in Nat
              /\ Tally(Noticing(t.event, u)') - Noticers(after, u)
                   = Tally(Noticing(t.event, u)) - Noticers({t}, u)
         /\ Tally(Pushing(t.event)) \in Nat /\ Tally(Pushing(t.event)') \in Nat
         /\ Tally(Pushing(t.event)') - Pushers(after) = Tally(Pushing(t.event)) - Pushers({t})
         /\ Tally(Repeating(t.event)) \in Nat /\ Tally(Repeating(t.event)') \in Nat
         /\ Tally(Repeating(t.event)') - Repeaters(after) = Tally(Repeating(t.event)) - Repeaters({t})
<1>0. /\ listening \subseteq Walker /\ t \in Walker
      /\ \A r, s \in listening : r.event = s.event /\ r.n = s.n => r = s
  BY DEF NoticeInv
<1>1. listening' \subseteq Walker
  BY <1>0
<1>2. \A r, s \in listening' : r.event = s.event /\ r.n = s.n => r = s
  BY <1>0
<1>3. PICK i \in 1..4 : i = t.n
  BY <1>0 DEF Walker
<1>4. \A e \in Occurrences \ {t.event}, n \in 1..4 : Of(e, n)' = Of(e, n)
  BY DEF Of
<1>5. /\ Of(t.event, i) = {t} /\ Of(t.event, i)' = after
      /\ \A n \in 1..4 \ {i} : Of(t.event, n)' = Of(t.event, n)
  BY <1>0, <1>3 DEF Of
<1>6. ASSUME NEW e \in Occurrences \ {t.event}
      PROVE  /\ \A u \in N!Users : Noticing(e, u)' = Noticing(e, u)
             /\ Pushing(e)' = Pushing(e) /\ Repeating(e)' = Repeating(e)
  BY <1>4 DEF Noticing, Pushing, Repeating
<1>7. \A ts, u : Noticers(ts, u) \in {0, 1} /\ Pushers(ts) \in {0, 1} /\ Repeaters(ts) \in {0, 1}
  BY DEF Noticers, Pushers, Repeaters, One
<1>8. ASSUME NEW u \in N!Users
      PROVE  /\ Tally(Noticing(t.event, u)) \in Nat /\ Tally(Noticing(t.event, u)') \in Nat
             /\ Tally(Noticing(t.event, u)') - Noticers(after, u)
                  = Tally(Noticing(t.event, u)) - Noticers({t}, u)
  <2>1. PICK f \in [1..4 -> {0, 1}] : f = Noticing(t.event, u)
    BY <1>7 DEF Noticing
  <2>2. PICK g \in [1..4 -> {0, 1}] : g = Noticing(t.event, u)'
    BY <1>7 DEF Noticing
  <2>3. f[i] = Noticers({t}, u) /\ g[i] = Noticers(after, u)
    BY <1>5, <2>1, <2>2 DEF Noticing
  <2>4. \A n \in 1..4 \ {i} : f[n] = g[n]
    BY <1>5, <2>1, <2>2 DEF Noticing
  <2>5. Tally(g) - g[i] = Tally(f) - f[i] /\ Tally(f) \in Nat /\ Tally(g) \in Nat
    BY <2>4, TallyStep
  <2> QED
    BY <2>1, <2>2, <2>3, <2>5
<1>9. /\ Tally(Pushing(t.event)) \in Nat /\ Tally(Pushing(t.event)') \in Nat
      /\ Tally(Pushing(t.event)') - Pushers(after) = Tally(Pushing(t.event)) - Pushers({t})
  <2>1. PICK f \in [1..4 -> {0, 1}] : f = Pushing(t.event)
    BY <1>7 DEF Pushing
  <2>2. PICK g \in [1..4 -> {0, 1}] : g = Pushing(t.event)'
    BY <1>7 DEF Pushing
  <2>3. f[i] = Pushers({t}) /\ g[i] = Pushers(after)
    BY <1>5, <2>1, <2>2 DEF Pushing
  <2>4. \A n \in 1..4 \ {i} : f[n] = g[n]
    BY <1>5, <2>1, <2>2 DEF Pushing
  <2>5. Tally(g) - g[i] = Tally(f) - f[i] /\ Tally(f) \in Nat /\ Tally(g) \in Nat
    BY <2>4, TallyStep
  <2> QED
    BY <2>1, <2>2, <2>3, <2>5
<1>10. /\ Tally(Repeating(t.event)) \in Nat /\ Tally(Repeating(t.event)') \in Nat
       /\ Tally(Repeating(t.event)') - Repeaters(after) = Tally(Repeating(t.event)) - Repeaters({t})
  <2>1. PICK f \in [1..4 -> {0, 1}] : f = Repeating(t.event)
    BY <1>7 DEF Repeating
  <2>2. PICK g \in [1..4 -> {0, 1}] : g = Repeating(t.event)'
    BY <1>7 DEF Repeating
  <2>3. f[i] = Repeaters({t}) /\ g[i] = Repeaters(after)
    BY <1>5, <2>1, <2>2 DEF Repeating
  <2>4. \A n \in 1..4 \ {i} : f[n] = g[n]
    BY <1>5, <2>1, <2>2 DEF Repeating
  <2>5. Tally(g) - g[i] = Tally(f) - f[i] /\ Tally(f) \in Nat /\ Tally(g) \in Nat
    BY <2>4, TallyStep
  <2> QED
    BY <2>1, <2>2, <2>3, <2>5
<1> QED
  BY <1>1, <1>2, <1>6, <1>8, <1>9, <1>10

\* The next recipient, one push more, or the end.
LEMMA AfterFacts ==
  ASSUME NEW t \in Walker, t.again => Head(t.users) = "customer"
  PROVE  /\ N!AfterInApp(t) \in SUBSET Walker
         /\ \A r \in N!AfterInApp(t) :
              /\ r.event = t.event /\ r.n = t.n /\ r.again = FALSE /\ r.pc \in {"inapp", "push"}
              /\ r # t
         /\ \A r, s \in N!AfterInApp(t) : r = s
         /\ \A u \in N!Users :
              Noticers(N!AfterInApp(t), u) = One(Visits(t.users, u) /\ Head(t.users) # u)
         /\ Pushers(N!AfterInApp(t)) + Repeaters(N!AfterInApp(t)) + One(OwesPush(t))
              = Pushers({t}) + Repeaters({t})
<1> DEFINE Goal(ts) ==
      /\ ts \in SUBSET Walker
      /\ \A r \in ts :
           /\ r.event = t.event /\ r.n = t.n /\ r.again = FALSE /\ r.pc \in {"inapp", "push"}
           /\ r # t
      /\ \A r, s \in ts : r = s
      /\ \A u \in N!Users : Noticers(ts, u) = One(Visits(t.users, u) /\ Head(t.users) # u)
      /\ Pushers(ts) + Repeaters(ts) + One(OwesPush(t)) = Pushers({t}) + Repeaters({t})
<1>0. t.users \in Walks /\ t.again \in BOOLEAN
  BY DEF Walker
<1>1. CASE t.again = TRUE
  <2>1. PICK r : r = [t EXCEPT !.again = FALSE, !.pc = "push"]
    OBVIOUS
  <2>2. /\ r \in Walker /\ r.event = t.event /\ r.n = t.n /\ r.again = FALSE /\ r.pc = "push"
        /\ r.users = t.users
    BY <2>1 DEF Walker
  <2>3. N!AfterInApp(t) = {r}
    BY <1>1, <2>1 DEF N!AfterInApp
  <2>4. \A u \in N!Users : Noticers({r}, u) = One(Visits(t.users, u) /\ Head(t.users) # u)
    BY <2>2 DEF OwesNotice, Noticers, One
  <2>5. OwesPush(r) /\ OwesPush(t)
    BY <1>1, <2>2 DEF OwesPush
  <2>6. Pushers({r}) = 1 /\ Pushers({t}) = 1 /\ Repeaters({r}) = 0 /\ Repeaters({t}) = 1
        /\ One(OwesPush(t)) = 1
    BY <1>1, <2>2, <2>5 DEF One, Pushers, Repeaters
  <2>7. Goal({r})
    BY <1>1, <2>2, <2>4, <2>6
  <2> QED
    BY <2>3, <2>7
<1>2. CASE t.again = FALSE /\ Len(t.users) = 1
  BY <1>2, <1>0, WalkFacts DEF N!AfterInApp, N!Rest, One, Pushers, Repeaters, Noticers
<1>3. CASE t.again = FALSE /\ Len(t.users) # 1
  <2>1. PICK r : r = [t EXCEPT !.users = Tail(t.users), !.pc = "inapp"]
    OBVIOUS
  <2>0. /\ Tail(t.users) \in Walks /\ Head(Tail(t.users)) # "customer" /\ Head(t.users) = "customer"
        /\ \A u \in N!Users : Visits(Tail(t.users), u) <=> Visits(t.users, u) /\ u # Head(t.users)
    BY <1>0, <1>3, WalkFacts
  <2>2. /\ r \in Walker /\ r.event = t.event /\ r.n = t.n /\ r.again = t.again /\ r.pc = "inapp"
        /\ r.users = Tail(t.users)
    BY <2>0, <2>1 DEF Walker
  <2>3. N!AfterInApp(t) = {r}
    BY <1>3, <2>1 DEF N!AfterInApp, N!Rest
  <2>4. \A u \in N!Users : Noticers({r}, u) = One(Visits(t.users, u) /\ Head(t.users) # u)
    BY <2>0, <2>2 DEF OwesNotice, Noticers, One
  <2>5. ~OwesPush(r) /\ OwesPush(t)
    BY <2>0, <2>2 DEF OwesPush
  <2>6. Pushers({r}) = 0 /\ Pushers({t}) = 1 /\ Repeaters({r}) = 0 /\ Repeaters({t}) = 0
        /\ One(OwesPush(t)) = 1
    BY <1>3, <2>2, <2>5 DEF One, Pushers, Repeaters
  <2>7. r # t
    BY <2>0, <2>2
  <2>8. Goal({r})
    BY <1>3, <2>2, <2>4, <2>6, <2>7
  <2> QED
    BY <2>3, <2>8
<1> QED
  BY <1>0, <1>1, <1>2, <1>3

\* What a step means for the events it leaves alone.
Histories ==
  /\ asked' = [e \in Occurrences |-> IF kinds[e] = "none" /\ kinds'[e] # "none"
                                     THEN [row |-> N!Effective(prefs["customer"]), device |-> device]
                                     ELSE asked[e]]
  /\ shaken \subseteq shaken' /\ collided \subseteq collided'
  /\ \A t \in listening : t.event \notin shaken' =>
       /\ ~(faults' < faults) /\ device' = device
       /\ N!Effective(prefs'["customer"]) = N!Effective(prefs["customer"])
  /\ \A t \in listening \ listening' :
       t.pc = "make" /\ prefs[Head(t.users)] # None => t.event \in collided'

LEMMA HistoriesKept ==
  ASSUME N!MCNext
  PROVE  Histories
<1>1. /\ asked' = [e \in Occurrences |-> IF kinds[e] = "none" /\ kinds'[e] # "none"
                                         THEN [row |-> N!Effective(prefs["customer"]), device |-> device]
                                         ELSE asked[e]]
      /\ shaken' = IF faults' < faults \/ N!ChangedMind THEN shaken \cup N!UnderWay ELSE shaken
      /\ collided' = collided \cup
           {t.event : t \in {u \in listening \ listening' : u.pc = "make" /\ prefs[N!To(u)] # None}}
  BY DEF N!MCNext
<1>2. shaken \subseteq shaken' /\ collided \subseteq collided'
  BY <1>1
<1>3. \A t \in listening : t.event \notin shaken' => ~(faults' < faults) /\ ~N!ChangedMind
  BY <1>1 DEF N!UnderWay
<1>4. \A t \in listening \ listening' :
        t.pc = "make" /\ prefs[Head(t.users)] # None => t.event \in collided'
  BY <1>1 DEF N!To
<1> QED
  BY <1>1, <1>2, <1>3, <1>4 DEF Histories, N!ChangedMind

\* What a listener may do with an event nothing came between.
Fair(t, after) ==
  LET wish == asked[t.event].row IN
  /\ \A u \in N!Users :
       IF u = "customer" /\ ~wish.inApp THEN inbox'[t.event][u] = inbox[t.event][u]
       ELSE inbox'[t.event][u] + Noticers(after, u) = inbox[t.event][u] + Noticers({t}, u)
  /\ IF Reaches(t.event)
     THEN pushed'[t.event] + Pushers(after) + Repeaters(after)
            = pushed[t.event] + Pushers({t}) + Repeaters({t})
     ELSE pushed'[t.event] = pushed[t.event]
  /\ \A r \in after :
       /\ r.pc \in {"make", "store"} /\ Head(r.users) = "customer" => wish.inApp
       /\ r.pc = "send" => Head(r.users) = "customer" /\ Reaches(t.event)
       /\ r.pc # "drop"

Unshaken(e) == e \notin shaken' /\ e \notin collided'

Walked(t, after) ==
  /\ after \in SUBSET Walker /\ listening' = (listening \ {t}) \cup after
  /\ \A r \in after :
       r.event = t.event /\ r.n = t.n /\ (r.again => Head(r.users) = "customer")
  /\ \A r, s \in after : r = s
  /\ kinds' = kinds /\ left' = left /\ faults' \in 0..MaxFaults
  /\ prefs' = prefs \/ \E u \in N!Users : prefs[u] = None /\ prefs' = [prefs EXCEPT ![u] = N!Defaults]
  /\ device' \in {"none", "live"}
  /\ inbox' \in [Occurrences -> [N!Users -> Nat]] /\ pushed' \in [Occurrences -> Nat]
  /\ \A e \in Occurrences \ {t.event} : inbox'[e] = inbox[e] /\ pushed'[e] = pushed[e]
  /\ Unshaken(t.event) => Fair(t, after)

LEMMA FairAnswers ==
  ASSUME NoticeInv, Histories, NEW t \in listening, NEW after, Walked(t, after),
         Unshaken(t.event)
  PROVE  Answered(t.event)'
<1> DEFINE e == t.event
<1>0. /\ e \in Occurrences /\ kinds[e] # "none" /\ e \notin shaken /\ e \notin collided
      /\ inbox \in [Occurrences -> [N!Users -> Nat]] /\ pushed \in [Occurrences -> Nat]
      /\ inbox' \in [Occurrences -> [N!Users -> Nat]] /\ pushed' \in [Occurrences -> Nat]
  BY DEF NoticeInv, Walker, Histories, Unshaken, Walked
<1>1. Answered(e)
  BY <1>0 DEF NoticeInv
<1>2. /\ after \in SUBSET Walker /\ listening' = (listening \ {t}) \cup after /\ kinds' = kinds
      /\ \A r \in after : r.event = e /\ r.n = t.n
      /\ \A r, s \in after : r = s
      /\ Fair(t, after)
  BY DEF Walked
<1>3. asked'[e] = asked[e]
  BY <1>0, <1>2 DEF Histories
<1>4. Heeded(e)'
  BY <1>1, <1>3 DEF Answered, Histories, Unshaken, Heeded
<1>5. /\ \A u \in N!Users :
           /\ Tally(Noticing(e, u)) \in Nat /\ Tally(Noticing(e, u)') \in Nat
           /\ Tally(Noticing(e, u)') - Noticers(after, u) = Tally(Noticing(e, u)) - Noticers({t}, u)
      /\ Tally(Pushing(e)) \in Nat /\ Tally(Pushing(e)') \in Nat
      /\ Tally(Pushing(e)') - Pushers(after) = Tally(Pushing(e)) - Pushers({t})
      /\ Tally(Repeating(e)) \in Nat /\ Tally(Repeating(e)') \in Nat
      /\ Tally(Repeating(e)') - Repeaters(after) = Tally(Repeating(e)) - Repeaters({t})
  BY <1>2, WalkStep
<1>6. \A ts, u : Noticers(ts, u) \in Nat /\ Pushers(ts) \in Nat /\ Repeaters(ts) \in Nat
  BY DEF Noticers, Pushers, Repeaters, One
<1> HIDE DEF e
<1>7. ASSUME NEW u \in N!Users
      PROVE  IF u = "customer" /\ ~asked[e].row.inApp THEN inbox'[e][u] = 0
             ELSE inbox'[e][u] + Tally(Noticing(e, u)') = N!Heard(N!Listeners[kinds[e]], u)
  <2>1. inbox[e][u] \in Nat /\ inbox'[e][u] \in Nat
    BY <1>0
  <2>2. CASE u = "customer" /\ ~asked[e].row.inApp
    BY <1>1, <1>2, <2>2 DEF Answered, Fair, e
  <2>3. CASE ~(u = "customer" /\ ~asked[e].row.inApp)
    <3>1. inbox[e][u] + Tally(Noticing(e, u)) = N!Heard(N!Listeners[kinds[e]], u)
      BY <1>1, <2>3 DEF Answered
    <3>2. inbox'[e][u] + Noticers(after, u) = inbox[e][u] + Noticers({t}, u)
      BY <1>2, <2>3 DEF Fair, e
    <3>3. /\ Tally(Noticing(e, u)) \in Nat /\ Tally(Noticing(e, u)') \in Nat
          /\ Tally(Noticing(e, u)') - Noticers(after, u) = Tally(Noticing(e, u)) - Noticers({t}, u)
      BY <1>5
    <3>4. Noticers(after, u) \in Nat /\ Noticers({t}, u) \in Nat
      BY <1>6
    <3>5. inbox'[e][u] + Tally(Noticing(e, u)') = inbox[e][u] + Tally(Noticing(e, u))
      BY <2>1, <3>2, <3>3, <3>4
    <3> QED
      BY <2>3, <3>1, <3>5
  <2> QED
    BY <2>2, <2>3
<1>8. IF Reaches(e) THEN pushed'[e] + Tally(Pushing(e)') + Tally(Repeating(e)') = N!Pushes(N!Listeners[kinds[e]])
      ELSE pushed'[e] = 0
  <2>1. pushed[e] \in Nat /\ pushed'[e] \in Nat
    BY <1>0
  <2>2. CASE ~Reaches(e)
    BY <1>1, <1>2, <2>2 DEF Answered, Fair, e
  <2>3. CASE Reaches(e)
    <3>1. pushed[e] + Tally(Pushing(e)) + Tally(Repeating(e)) = N!Pushes(N!Listeners[kinds[e]])
      BY <1>1, <2>3 DEF Answered
    <3>2. pushed'[e] + Pushers(after) + Repeaters(after) = pushed[e] + Pushers({t}) + Repeaters({t})
      BY <1>2, <2>3 DEF Fair, e
    <3>3. /\ Pushers(after) \in Nat /\ Pushers({t}) \in Nat /\ Repeaters(after) \in Nat
          /\ Repeaters({t}) \in Nat
      BY <1>6
    <3>4. pushed'[e] + Tally(Pushing(e)') + Tally(Repeating(e)')
            = pushed[e] + Tally(Pushing(e)) + Tally(Repeating(e))
      BY <1>5, <2>1, <3>2, <3>3
    <3> QED
      BY <2>3, <3>1, <3>4
  <2> QED
    BY <2>2, <2>3
<1>9. ASSUME NEW r \in listening', r.event = e
      PROVE  /\ r.pc \in {"make", "store"} /\ Head(r.users) = "customer" => asked[e].row.inApp
             /\ r.pc = "send" => Head(r.users) = "customer" /\ Reaches(e)
             /\ r.pc # "drop"
  BY <1>1, <1>9, <1>2 DEF Answered, Fair, e
<1>10. Reaches(e)' <=> Reaches(e)
  BY <1>3 DEF Reaches
<1>11. Answered(e)'
  BY <1>2, <1>3, <1>4, <1>7, <1>8, <1>9, <1>10 DEF Answered
<1> QED
  BY <1>11 DEF e

LEMMA OthersAnswer ==
  ASSUME NoticeInv, Histories, NEW e \in Occurrences, kinds[e] # "none", kinds'[e] = kinds[e], Unshaken(e),
         inbox'[e] = inbox[e], pushed'[e] = pushed[e],
         \A r : r \in listening' /\ r.event = e <=> r \in listening /\ r.event = e
  PROVE  Answered(e)'
<1>1. e \notin shaken /\ e \notin collided /\ Answered(e) /\ asked'[e] = asked[e]
  BY DEF Histories, NoticeInv, Unshaken
<1>2. \A n \in 1..4 : Of(e, n)' = Of(e, n)
  BY DEF Of
<1>3. /\ \A u \in N!Users : Noticing(e, u)' = Noticing(e, u)
      /\ Pushing(e)' = Pushing(e) /\ Repeating(e)' = Repeating(e)
  BY <1>2 DEF Noticing, Pushing, Repeating
<1>4. \A r \in listening : r.event = e =>
        device' = device /\ N!Effective(prefs'["customer"]) = N!Effective(prefs["customer"])
  BY DEF Histories, Unshaken
<1>5. \A r \in listening : r.event = e => (Heeded(e)' <=> Heeded(e))
  BY <1>1, <1>4 DEF Heeded
<1>6. Reaches(e)' <=> Reaches(e)
  BY <1>1 DEF Reaches
<1> QED
  BY <1>1, <1>3, <1>5, <1>6 DEF Answered

LEMMA WalkedKeeps ==
  ASSUME NoticeInv, Histories, NEW t \in listening, NEW after, Walked(t, after)
  PROVE  NoticeInv'
<1>0. /\ listening' \subseteq Walker
      /\ \A r, s \in listening' : r.event = s.event /\ r.n = s.n => r = s
  BY WalkStep DEF Walked
<1>1. /\ kinds \in [Occurrences -> Kinds \cup {"none"}] /\ t \in Walker /\ kinds' = kinds
      /\ t.event \in Occurrences /\ kinds[t.event] # "none"
      /\ listening' = (listening \ {t}) \cup after
  BY DEF NoticeInv, Walker, Walked
<1>2. /\ prefs' \in [N!Users -> N!Row \cup {None}]
      /\ prefs'["rider"] \in {None, N!Defaults} /\ prefs'["merchant"] \in {None, N!Defaults}
  <2>1. /\ prefs \in [N!Users -> N!Row \cup {None}]
        /\ prefs["rider"] \in {None, N!Defaults} /\ prefs["merchant"] \in {None, N!Defaults}
    BY DEF NoticeInv
  <2>2. N!Defaults \in N!Row /\ "rider" \in N!Users /\ "merchant" \in N!Users
    BY DEF N!Defaults, N!Row, N!Users
  <2> QED
    BY <2>1, <2>2 DEF Walked
<1>3. \A r \in listening' : kinds'[r.event] # "none" /\ (r.again => Head(r.users) = "customer")
  BY <1>1 DEF NoticeInv, Walked
<1>4. ASSUME NEW e \in Occurrences
      PROVE  /\ kinds'[e] = "none" => pushed'[e] = 0 /\ \A u \in N!Users : inbox'[e][u] = 0
             /\ kinds'[e] # "none" /\ e \notin shaken' \cup collided' => Answered(e)'
  <2>1. CASE e = t.event
    BY <1>1, <2>1, FairAnswers DEF Unshaken
  <2>2. CASE e # t.event
    <3>1. inbox'[e] = inbox[e] /\ pushed'[e] = pushed[e]
      BY <2>2 DEF Walked
    <3>2. \A r : r \in listening' /\ r.event = e <=> r \in listening /\ r.event = e
      BY <2>2 DEF Walked
    <3> QED
      BY <1>1, <3>1, <3>2, OthersAnswer DEF NoticeInv, Unshaken
  <2> QED
    BY <2>1, <2>2
<1>5. left' \in 0..MaxNotices /\ faults' \in 0..MaxFaults /\ device' \in {"none", "live"}
      /\ inbox' \in [Occurrences -> [N!Users -> Nat]] /\ pushed' \in [Occurrences -> Nat]
  BY DEF NoticeInv, Walked
<1> QED
  BY <1>0, <1>1, <1>2, <1>3, <1>4, <1>5 DEF NoticeInv

\* What is known of a listener about to act.
LEMMA WalkerFacts ==
  ASSUME NoticeInv, NEW t \in listening
  PROVE  /\ t \in Walker /\ t.event \in Occurrences /\ Head(t.users) \in N!Users
         /\ Visits(t.users, Head(t.users)) /\ t.again \in BOOLEAN
         /\ (t.again => Head(t.users) = "customer")
         /\ prefs \in [N!Users -> N!Row \cup {None}]
         /\ (Head(t.users) # "customer" => prefs[Head(t.users)] \in {None, N!Defaults})
         /\ inbox \in [Occurrences -> [N!Users -> Nat]] /\ pushed \in [Occurrences -> Nat]
         /\ device \in {"none", "live"} /\ faults \in 0..MaxFaults
BY WalkFacts DEF NoticeInv, Walker, N!Users

LEMMA UnshakenFacts ==
  ASSUME NoticeInv, Histories, NEW t \in listening, Unshaken(t.event)
  PROVE  /\ asked[t.event].row = N!Effective(prefs["customer"]) /\ asked[t.event].device = device
         /\ t.pc \in {"make", "store"} /\ Head(t.users) = "customer" => asked[t.event].row.inApp
         /\ t.pc = "send" => Head(t.users) = "customer" /\ Reaches(t.event)
         /\ t.pc # "drop" /\ ~(faults' < faults)
         /\ t \notin listening' => ~(t.pc = "make" /\ prefs[Head(t.users)] # None)
<1>1. t.event \in Occurrences /\ kinds[t.event] # "none"
  BY WalkerFacts DEF NoticeInv
<1>2. t.event \notin shaken \cup collided
  BY DEF Histories, Unshaken
<1>3. Answered(t.event)
  BY <1>1, <1>2 DEF NoticeInv
<1>4. Heeded(t.event)
  BY <1>3 DEF Answered
<1> QED
  BY <1>3, <1>4 DEF Answered, Heeded, Histories, Unshaken

\* A listener that goes on with the same recipient.
Onward(t, pc, r) ==
  /\ r \in Walker /\ {r} \in SUBSET Walker /\ listening' = (listening \ {t}) \cup {r}
  /\ r.event = t.event /\ r.n = t.n /\ r.users = t.users /\ r.again = t.again /\ r.pc = pc
  /\ Pushers({r}) = Pushers({t}) /\ Repeaters({r}) = Repeaters({t})
  /\ \A u \in N!Users :
       /\ u # Head(t.users) => Noticers({r}, u) = Noticers({t}, u)
       /\ (t.pc \in {"inapp", "make", "store"} <=> pc \in {"make", "store"}) =>
            Noticers({r}, u) = Noticers({t}, u)
  /\ pc = "push" => Noticers({r}, Head(t.users)) = 0

LEMMA GoneTo ==
  ASSUME NoticeInv, NEW t \in listening, NEW pc \in {"make", "store", "push", "send", "drop"},
         N!Goto(t, pc)
  PROVE  \E r : Onward(t, pc, r)
<1>1. PICK r : r = [t EXCEPT !.pc = pc]
  OBVIOUS
<1>2. t \in Walker
  BY WalkerFacts
<1>3. /\ r \in Walker /\ r.event = t.event /\ r.n = t.n /\ r.users = t.users
      /\ r.again = t.again /\ r.pc = pc
  BY <1>1, <1>2 DEF Walker
<1>4. listening' = (listening \ {t}) \cup {r}
  BY <1>1 DEF N!Goto, N!Become
<1>5. Pushers({r}) = Pushers({t}) /\ Repeaters({r}) = Repeaters({t})
  BY <1>3 DEF Pushers, Repeaters, OwesPush
<1>6. ASSUME NEW u \in N!Users
      PROVE  /\ u # Head(t.users) => Noticers({r}, u) = Noticers({t}, u)
             /\ (t.pc \in {"inapp", "make", "store"} <=> pc \in {"make", "store"}) =>
                  Noticers({r}, u) = Noticers({t}, u)
  BY <1>3 DEF Noticers, One, OwesNotice
<1>7. pc = "push" => Noticers({r}, Head(t.users)) = 0
  BY <1>3 DEF Noticers, OwesNotice, One
<1> QED
  BY <1>3, <1>4, <1>5, <1>6, <1>7 DEF Onward

LEMMA FindInAppWalks ==
  ASSUME NoticeInv, Histories, NEW t \in listening, N!FindInApp(t)
  PROVE  \E after : Walked(t, after)
<1> DEFINE row == prefs[Head(t.users)]
           pc == IF row = None THEN "make" ELSE IF row.inApp THEN "store" ELSE "push"
<1>1. /\ t.pc = "inapp" /\ N!Goto(t, pc) /\ kinds' = kinds /\ prefs' = prefs /\ device' = device
      /\ inbox' = inbox /\ pushed' = pushed /\ left' = left /\ faults' = faults
  BY DEF N!FindInApp, N!To
<1>2. pc \in {"make", "store", "push"}
  OBVIOUS
<1>30. PICK r : Onward(t, pc, r)
  BY <1>1, <1>2, GoneTo
<1>3. /\ r \in Walker
      /\ listening' = (listening \ {t}) \cup {r}
      /\ r.event = t.event /\ r.n = t.n /\ r.users = t.users /\ r.again = t.again /\ r.pc = pc
      /\ {r} \in SUBSET Walker
      /\ Pushers({r}) = Pushers({t}) /\ Repeaters({r}) = Repeaters({t})
      /\ \A u \in N!Users :
           /\ u # Head(t.users) => Noticers({r}, u) = Noticers({t}, u)
           /\ (t.pc \in {"inapp", "make", "store"} <=> pc \in {"make", "store"}) =>
                Noticers({r}, u) = Noticers({t}, u)
  BY <1>1, <1>30 DEF Onward
<1>4. ASSUME Unshaken(t.event)
      PROVE  Fair(t, {r})
  <2>1. asked[t.event].row = N!Effective(prefs["customer"])
    BY <1>4, UnshakenFacts
  <2>2. pc = "push" => Head(t.users) = "customer" /\ ~asked[t.event].row.inApp
    BY <2>1, WalkerFacts DEF N!Effective, N!Defaults
  <2>3. pc \in {"make", "store"} /\ Head(t.users) = "customer" => asked[t.event].row.inApp
    BY <2>1 DEF N!Effective, N!Defaults
  <2>4. ASSUME NEW u \in N!Users, ~(u = "customer" /\ ~asked[t.event].row.inApp)
        PROVE  Noticers({r}, u) = Noticers({t}, u)
    BY <1>1, <1>2, <1>3, <2>2, <2>4
  <2> HIDE DEF pc
  <2> QED
    BY <1>1, <1>2, <1>3, <2>3, <2>4 DEF Fair
<1> HIDE DEF pc
<1>5. Walked(t, {r})
  BY <1>1, <1>3, <1>4, WalkerFacts DEF Walked
<1> QED
  BY <1>5

LEMMA MakePrefsWalks ==
  ASSUME NoticeInv, Histories, NEW t \in listening, N!MakePrefs(t)
  PROVE  \E after : Walked(t, after)
<1>1. /\ t.pc = "make" /\ kinds' = kinds /\ device' = device
      /\ inbox' = inbox /\ pushed' = pushed /\ left' = left /\ faults' = faults
  BY DEF N!MakePrefs
<1>2. CASE prefs[Head(t.users)] = None
  <2>1. prefs' = [prefs EXCEPT ![Head(t.users)] = N!Defaults] /\ N!Goto(t, "store")
    BY <1>2 DEF N!MakePrefs, N!To
  <2>20. PICK r : Onward(t, "store", r)
    BY <1>1, <2>1, GoneTo
  <2>2. /\ r \in Walker
        /\ listening' = (listening \ {t}) \cup {r}
        /\ r.event = t.event /\ r.n = t.n /\ r.users = t.users /\ r.again = t.again /\ r.pc = "store"
        /\ {r} \in SUBSET Walker
        /\ Pushers({r}) = Pushers({t}) /\ Repeaters({r}) = Repeaters({t})
        /\ \A u \in N!Users : Noticers({r}, u) = Noticers({t}, u)
    BY <1>1, <2>20 DEF Onward
  <2>3. Unshaken(t.event) => Fair(t, {r})
    BY <1>1, <2>2, UnshakenFacts DEF Fair
  <2>4. \E u \in N!Users : prefs[u] = None /\ prefs' = [prefs EXCEPT ![u] = N!Defaults]
    BY <1>2, <2>1, WalkerFacts
  <2>5. Walked(t, {r})
    BY <1>1, <2>2, <2>3, <2>4, WalkerFacts DEF Walked
  <2> QED
    BY <2>5
<1>3. CASE prefs[Head(t.users)] # None
  <2>1. prefs' = prefs /\ listening' = (listening \ {t}) \cup N!AfterInApp(t)
    BY <1>3 DEF N!MakePrefs, N!Become, N!To
  <2>2. t \notin listening'
    BY <2>1, AfterFacts, WalkerFacts
  <2>3. ~Unshaken(t.event)
    BY <1>1, <1>3, <2>2, UnshakenFacts
  <2>4. Walked(t, N!AfterInApp(t))
    BY <1>1, <2>1, <2>3, AfterFacts, WalkerFacts DEF Walked
  <2> QED
    BY <2>4
<1> QED
  BY <1>2, <1>3

LEMMA StoreWalks ==
  ASSUME NoticeInv, Histories, NEW t \in listening, N!Store(t)
  PROVE  \E after : Walked(t, after)
<1>1. /\ t.pc = "store" /\ N!Goto(t, "push") /\ kinds' = kinds /\ prefs' = prefs /\ device' = device
      /\ pushed' = pushed /\ left' = left /\ faults' = faults
      /\ inbox' = [inbox EXCEPT ![t.event][Head(t.users)] = inbox[t.event][Head(t.users)] + 1]
  BY DEF N!Store, N!To
<1>20. PICK r : Onward(t, "push", r)
  BY <1>1, GoneTo
<1>2. /\ r \in Walker
      /\ listening' = (listening \ {t}) \cup {r}
      /\ r.event = t.event /\ r.n = t.n /\ r.users = t.users /\ r.again = t.again /\ r.pc = "push"
      /\ {r} \in SUBSET Walker
      /\ Pushers({r}) = Pushers({t}) /\ Repeaters({r}) = Repeaters({t})
      /\ \A u \in N!Users : u # Head(t.users) => Noticers({r}, u) = Noticers({t}, u)
      /\ Noticers({r}, Head(t.users)) = 0
  BY <1>1, <1>20 DEF Onward
<1>3. Noticers({t}, Head(t.users)) = 1
  BY <1>1, WalkerFacts DEF Noticers, OwesNotice, One
<1>4. /\ inbox' \in [Occurrences -> [N!Users -> Nat]]
      /\ inbox'[t.event][Head(t.users)] = inbox[t.event][Head(t.users)] + 1
      /\ \A u \in N!Users : u # Head(t.users) => inbox'[t.event][u] = inbox[t.event][u]
      /\ \A e \in Occurrences \ {t.event} : inbox'[e] = inbox[e]
      /\ inbox[t.event][Head(t.users)] \in Nat
  BY <1>1, WalkerFacts
<1>5. ASSUME Unshaken(t.event)
      PROVE  Fair(t, {r})
  <2>1. Head(t.users) = "customer" => asked[t.event].row.inApp
    BY <1>1, <1>5, UnshakenFacts
  <2>2. ASSUME NEW u \in N!Users
        PROVE  IF u = "customer" /\ ~asked[t.event].row.inApp
               THEN inbox'[t.event][u] = inbox[t.event][u]
               ELSE inbox'[t.event][u] + Noticers({r}, u) = inbox[t.event][u] + Noticers({t}, u)
    <3>1. CASE u = Head(t.users)
      BY <1>2, <1>3, <1>4, <2>1, <3>1
    <3>2. CASE u # Head(t.users)
      BY <1>2, <1>4, <3>2
    <3> QED
      BY <3>1, <3>2
  <2> QED
    BY <1>1, <1>2, <2>2 DEF Fair
<1>6. Walked(t, {r})
  BY <1>1, <1>2, <1>4, <1>5, WalkerFacts DEF Walked
<1> QED
  BY <1>6

LEMMA ReadTokensWalks ==
  ASSUME NoticeInv, Histories, NEW t \in listening, N!ReadTokens(t)
  PROVE  \E after : Walked(t, after)
<1> DEFINE asks == N!PushAllowed(prefs[Head(t.users)]) /\ Head(t.users) = "customer" /\ device = "live"
<1>1. /\ t.pc = "push" /\ kinds' = kinds /\ device' = device
      /\ inbox' = inbox /\ pushed' = pushed /\ left' = left /\ faults' = faults
      /\ prefs' = IF prefs[Head(t.users)] = None THEN [prefs EXCEPT ![Head(t.users)] = N!Defaults]
                  ELSE prefs
      /\ IF asks THEN N!Goto(t, "send") ELSE listening' = (listening \ {t}) \cup N!AfterInApp(t)
  BY DEF N!ReadTokens, N!To, N!Become
<1>2. prefs' = prefs \/ \E u \in N!Users : prefs[u] = None /\ prefs' = [prefs EXCEPT ![u] = N!Defaults]
  BY <1>1, WalkerFacts
<1>3. Unshaken(t.event) /\ Head(t.users) = "customer" => (asks <=> Reaches(t.event))
  BY UnshakenFacts DEF Reaches, N!Effective, N!Defaults, N!PushAllowed
<1>4. CASE asks
  <2>10. PICK r : Onward(t, "send", r)
    BY <1>1, <1>4, GoneTo
  <2>1. /\ r \in Walker
        /\ listening' = (listening \ {t}) \cup {r}
        /\ r.event = t.event /\ r.n = t.n /\ r.users = t.users /\ r.again = t.again /\ r.pc = "send"
        /\ {r} \in SUBSET Walker
        /\ Pushers({r}) = Pushers({t}) /\ Repeaters({r}) = Repeaters({t})
        /\ \A u \in N!Users : Noticers({r}, u) = Noticers({t}, u)
    BY <1>1, <2>10 DEF Onward
  <2>2. Unshaken(t.event) => Fair(t, {r})
    BY <1>1, <1>3, <1>4, <2>1 DEF Fair
  <2>3. Walked(t, {r})
    BY <1>1, <1>2, <2>1, <2>2, WalkerFacts DEF Walked
  <2> QED
    BY <2>3
<1>5. CASE ~asks
  <2> HIDE DEF asks
  <2>0. listening' = (listening \ {t}) \cup N!AfterInApp(t)
    BY <1>1, <1>5
  <2>1. PICK after : after = N!AfterInApp(t)
    OBVIOUS
  <2>2. /\ after \in SUBSET Walker
        /\ \A r \in after : r.event = t.event /\ r.n = t.n /\ r.again = FALSE /\ r.pc \in {"inapp", "push"}
        /\ \A r, s \in after : r = s
        /\ \A u \in N!Users : Noticers(after, u) = One(Visits(t.users, u) /\ Head(t.users) # u)
        /\ Pushers(after) + Repeaters(after) + One(OwesPush(t)) = Pushers({t}) + Repeaters({t})
    BY <2>1, AfterFacts, WalkerFacts
  <2>3. \A u \in N!Users : Noticers(after, u) = Noticers({t}, u)
    BY <1>1, <2>2 DEF Noticers, OwesNotice, One
  <2>4. ASSUME Unshaken(t.event)
        PROVE  Fair(t, after)
    <3>1. Reaches(t.event) => One(OwesPush(t)) = 0
      BY <1>3, <1>5, <2>4 DEF One, OwesPush
    <3>2. Pushers(after) \in Nat /\ Repeaters(after) \in Nat
      BY DEF Pushers, Repeaters, One
    <3>3. Reaches(t.event) => Pushers(after) + Repeaters(after) = Pushers({t}) + Repeaters({t})
      BY <2>2, <3>1, <3>2
    <3>4. Reaches(t.event) => pushed[t.event] + Pushers(after) + Repeaters(after)
                                = pushed[t.event] + Pushers({t}) + Repeaters({t})
      BY WalkerFacts, <3>2, <3>3 DEF Pushers, Repeaters, One
    <3> QED
      BY <1>1, <2>2, <2>3, <3>4 DEF Fair
  <2>5. Walked(t, after)
    BY <1>1, <1>2, <2>0, <2>1, <2>2, <2>4, WalkerFacts DEF Walked
  <2> QED
    BY <2>5
<1> QED
  BY <1>4, <1>5

LEMMA SendWalks ==
  ASSUME NoticeInv, Histories, NEW t \in listening, N!Send(t)
  PROVE  \E after : Walked(t, after)
<1>1. /\ t.pc = "send" /\ kinds' = kinds /\ prefs' = prefs /\ device' = device
      /\ inbox' = inbox /\ left' = left /\ faults' = faults
      /\ pushed' = [pushed EXCEPT ![t.event] = pushed[t.event] + 1]
      /\ listening' = (listening \ {t}) \cup N!AfterInApp(t)
  BY DEF N!Send, N!Become
<1>2. PICK after : after = N!AfterInApp(t)
  OBVIOUS
<1>3. /\ after \in SUBSET Walker
      /\ \A r \in after : r.event = t.event /\ r.n = t.n /\ r.again = FALSE /\ r.pc \in {"inapp", "push"}
      /\ \A r, s \in after : r = s
      /\ \A u \in N!Users : Noticers(after, u) = One(Visits(t.users, u) /\ Head(t.users) # u)
      /\ Pushers(after) + Repeaters(after) + One(OwesPush(t)) = Pushers({t}) + Repeaters({t})
  BY <1>2, AfterFacts, WalkerFacts
<1>4. \A u \in N!Users : Noticers(after, u) = Noticers({t}, u)
  BY <1>1, <1>3 DEF Noticers, OwesNotice, One
<1>5. /\ pushed' \in [Occurrences -> Nat] /\ pushed'[t.event] = pushed[t.event] + 1
      /\ pushed[t.event] \in Nat
      /\ \A e \in Occurrences \ {t.event} : pushed'[e] = pushed[e]
  BY <1>1, WalkerFacts
<1>6. ASSUME Unshaken(t.event)
      PROVE  Fair(t, after)
  <2>1. Head(t.users) = "customer" /\ Reaches(t.event)
    BY <1>1, <1>6, UnshakenFacts
  <2>2. One(OwesPush(t)) = 1
    BY <2>1 DEF One, OwesPush
  <2>3. /\ Pushers(after) \in Nat /\ Repeaters(after) \in Nat
        /\ Pushers({t}) \in Nat /\ Repeaters({t}) \in Nat
    BY DEF Pushers, Repeaters, One
  <2>4. pushed'[t.event] + Pushers(after) + Repeaters(after)
          = pushed[t.event] + Pushers({t}) + Repeaters({t})
    BY <1>3, <1>5, <2>2, <2>3
  <2> QED
    BY <1>1, <1>3, <1>4, <2>1, <2>4 DEF Fair
<1>7. Walked(t, after)
  BY <1>1, <1>2, <1>3, <1>5, <1>6, WalkerFacts DEF Walked
<1> QED
  BY <1>7

LEMMA UnregisteredWalks ==
  ASSUME NoticeInv, Histories, NEW t \in listening, N!Unregistered(t)
  PROVE  \E after : Walked(t, after)
<1>1. /\ faults > 0 /\ faults' = faults - 1 /\ N!Goto(t, "drop") /\ kinds' = kinds /\ prefs' = prefs
      /\ device' = device /\ inbox' = inbox /\ pushed' = pushed /\ left' = left
  BY DEF N!Unregistered
<1>20. PICK r : Onward(t, "drop", r)
  BY <1>1, GoneTo
<1>2. /\ r \in Walker
      /\ listening' = (listening \ {t}) \cup {r} /\ {r} \in SUBSET Walker
      /\ r.event = t.event /\ r.n = t.n /\ r.users = t.users /\ r.again = t.again
  BY <1>1, <1>20 DEF Onward
<1>3. faults' < faults /\ faults' \in 0..MaxFaults
  BY <1>1, WalkerFacts, PlatformConstants
<1>4. ~Unshaken(t.event)
  BY <1>3, UnshakenFacts
<1>5. Walked(t, {r})
  BY <1>1, <1>2, <1>3, <1>4, WalkerFacts DEF Walked
<1> QED
  BY <1>5

LEMMA DropTokenWalks ==
  ASSUME NoticeInv, Histories, NEW t \in listening, N!DropToken(t)
  PROVE  \E after : Walked(t, after)
<1>1. /\ t.pc = "drop" /\ kinds' = kinds /\ prefs' = prefs /\ device' = "none"
      /\ inbox' = inbox /\ pushed' = pushed /\ left' = left /\ faults' = faults
      /\ listening' = (listening \ {t}) \cup N!AfterInApp(t)
  BY DEF N!DropToken, N!Become
<1>2. ~Unshaken(t.event)
  BY <1>1, UnshakenFacts
<1>3. Walked(t, N!AfterInApp(t))
  BY <1>1, <1>2, AfterFacts, WalkerFacts DEF Walked
<1> QED
  BY <1>3

LEMMA CallFailsWalks ==
  ASSUME NoticeInv, Histories, NEW t \in listening, N!CallFails(t)
  PROVE  \E after : Walked(t, after)
<1>1. /\ faults > 0 /\ faults' = faults - 1 /\ kinds' = kinds /\ prefs' = prefs /\ device' = device
      /\ inbox' = inbox /\ pushed' = pushed /\ left' = left
      /\ listening' = (listening \ {t}) \cup N!AfterInApp(t)
  BY DEF N!CallFails, N!Become
<1>2. faults' < faults /\ faults' \in 0..MaxFaults
  BY <1>1, WalkerFacts, PlatformConstants
<1>3. ~Unshaken(t.event)
  BY <1>2, UnshakenFacts
<1>4. Walked(t, N!AfterInApp(t))
  BY <1>1, <1>2, <1>3, AfterFacts, WalkerFacts DEF Walked
<1> QED
  BY <1>4

LEMMA ListenersKeep ==
  ASSUME NoticeInv, Histories, NEW t \in listening,
         \/ N!FindInApp(t) \/ N!MakePrefs(t) \/ N!Store(t) \/ N!ReadTokens(t) \/ N!Send(t)
         \/ N!Unregistered(t) \/ N!DropToken(t) \/ N!CallFails(t)
  PROVE  NoticeInv'
BY FindInAppWalks, MakePrefsWalks, StoreWalks, ReadTokensWalks, SendWalks, UnregisteredWalks,
   DropTokenWalks, CallFailsWalks, WalkedKeeps

\* What the events in progress make of a change of mind.
LEMMA AsideKeeps ==
  ASSUME NoticeInv, Histories, UNCHANGED <<kinds, inbox, pushed, listening>>,
         prefs' \in [N!Users -> N!Row \cup {None}],
         prefs'["rider"] = prefs["rider"], prefs'["merchant"] = prefs["merchant"],
         device' \in {"none", "live"}, left' \in 0..MaxNotices, faults' \in 0..MaxFaults
  PROVE  NoticeInv'
BY OthersAnswer DEF Unshaken, NoticeInv

\* The listeners of an event that has just been emitted.
LEMMA EmitStarts ==
  ASSUME NoticeInv, NEW e \in Occurrences, NEW what \in Kinds, N!Emit(e, what)
  PROVE  \E k \in 0..4 :
           /\ InOrder(N!Listeners[what], k)
           /\ \A n \in 1..k : N!Task(e, n, N!Listeners[what][n]) \in Walker
           /\ listening' = listening \cup {N!Task(e, n, N!Listeners[what][n]) : n \in 1..k}
           /\ \A n \in 1..4 :
                Of(e, n)' = IF n \in 1..k THEN {N!Task(e, n, N!Listeners[what][n])} ELSE {}
<1>1. PICK k \in 0..4 : InOrder(N!Listeners[what], k)
  BY ListenerShapes
<1>2. PICK ls : ls = N!Listeners[what]
  OBVIOUS
<1>3. DOMAIN ls = 1..k /\ \A n \in 1..k : ls[n] \in Listening
  BY <1>1, <1>2 DEF InOrder
<1>4. listening' = listening \cup {N!Task(e, n, ls[n]) : n \in 1..k} /\ kinds[e] = "none"
  BY <1>2, <1>3 DEF N!Emit
<1>5. ASSUME NEW n \in 1..k
      PROVE  /\ N!Task(e, n, ls[n]) \in Walker
             /\ N!Task(e, n, ls[n]).event = e /\ N!Task(e, n, ls[n]).n = n
  BY <1>3 DEF Listening, Walks, N!Task, Walker
<1>6. \A t \in listening : t.event # e
  BY <1>4 DEF NoticeInv
<1>7. ASSUME NEW n \in 1..4
      PROVE  Of(e, n)' = IF n \in 1..k THEN {N!Task(e, n, ls[n])} ELSE {}
  BY <1>4, <1>5, <1>6 DEF Of
<1> QED
  BY <1>1, <1>2, <1>4, <1>5, <1>7

\* What they owe is what the event's listeners send.
LEMMA EmitOwes ==
  ASSUME NoticeInv, NEW e \in Occurrences, NEW what \in Kinds, N!Emit(e, what)
  PROVE  /\ \A u \in N!Users : Tally(Noticing(e, u)') = N!Heard(N!Listeners[what], u)
         /\ Tally(Pushing(e)') + Tally(Repeating(e)') = N!Pushes(N!Listeners[what])
<1>1. PICK ls : ls = N!Listeners[what]
  OBVIOUS
<1>2. PICK k \in 0..4 :
           /\ InOrder(N!Listeners[what], k)
           /\ \A n \in 1..k : N!Task(e, n, N!Listeners[what][n]) \in Walker
           /\ listening' = listening \cup {N!Task(e, n, N!Listeners[what][n]) : n \in 1..k}
           /\ \A n \in 1..4 :
                Of(e, n)' = IF n \in 1..k THEN {N!Task(e, n, N!Listeners[what][n])} ELSE {}
  BY EmitStarts
<1>3. /\ DOMAIN ls = 1..k /\ \A n \in 1..k : ls[n] \in Listening
      /\ \A n \in 1..4 : Of(e, n)' = IF n \in 1..k THEN {N!Task(e, n, ls[n])} ELSE {}
  BY <1>1, <1>2 DEF InOrder
<1>4. ASSUME NEW n \in 1..k
      PROVE  /\ \A u \in N!Users : OwesNotice(N!Task(e, n, ls[n]), u) <=> Visits(ls[n].users, u)
             /\ OwesPush(N!Task(e, n, ls[n])) /\ Visits(ls[n].users, "customer")
             /\ N!Task(e, n, ls[n]).again = ls[n].again /\ ls[n].again \in BOOLEAN
  BY <1>3, WalkFacts DEF Listening, Walks, N!Task, OwesNotice, OwesPush
<1>5. ASSUME NEW u \in N!Users
      PROVE  Tally(Noticing(e, u)') = N!Heard(ls, u)
  <2>1. PICK f : f = [n \in 1..4 |-> IF n \in 1..k /\ Visits(ls[n].users, u) THEN 1 ELSE 0]
    OBVIOUS
  <2>2. f \in [1..4 -> {0, 1}]
    BY <2>1
  <2>3. ASSUME NEW n \in 1..4
        PROVE  Noticers(Of(e, n)', u) = f[n]
    BY <1>3, <2>1, <1>4 DEF Noticers, One
  <2>4. Noticing(e, u)' = f
    BY <2>1, <2>3 DEF Noticing
  <2>5. {n \in DOMAIN ls : \E i \in DOMAIN ls[n].users : ls[n].users[i] = u} = {n \in 1..4 : f[n] = 1}
    BY <1>3, <2>1 DEF Visits
  <2>6. N!Heard(ls, u) = N!Cardinality({n \in 1..4 : f[n] = 1})
    BY <2>5 DEF N!Heard
  <2> QED
    BY <2>2, <2>4, <2>6, TallyCount
<1>6. Tally(Pushing(e)') = N!Heard(ls, "customer")
  BY <1>3, <1>4, <1>5 DEF N!Users, Pushers, Noticers, One, Pushing, Noticing
<1>7. Tally(Repeating(e)') = N!Cardinality({n \in DOMAIN ls : ls[n].again})
  <2>1. PICK f : f = [n \in 1..4 |-> IF n \in 1..k /\ ls[n].again THEN 1 ELSE 0]
    OBVIOUS
  <2>2. f \in [1..4 -> {0, 1}]
    BY <2>1
  <2>3. ASSUME NEW n \in 1..4
        PROVE  Repeaters(Of(e, n)') = f[n]
    BY <1>3, <1>4, <2>1 DEF Repeaters, One
  <2>4. Repeating(e)' = f
    BY <2>1, <2>3 DEF Repeating
  <2>5. {n \in DOMAIN ls : ls[n].again} = {n \in 1..4 : f[n] = 1}
    BY <1>3, <2>1
  <2> QED
    BY <2>2, <2>4, <2>5, TallyCount
<1> QED
  BY <1>1, <1>5, <1>6, <1>7 DEF N!Pushes

LEMMA EmitKeeps ==
  ASSUME NoticeInv, Histories, NEW e \in Occurrences, NEW what \in Kinds, N!Emit(e, what)
  PROVE  NoticeInv'
<1>1. /\ left > 0 /\ left' = left - 1 /\ kinds[e] = "none" /\ kinds' = [kinds EXCEPT ![e] = what]
      /\ prefs' = prefs /\ device' = device /\ inbox' = inbox /\ pushed' = pushed /\ faults' = faults
  BY DEF N!Emit
<1>2. PICK k \in 0..4 :
           /\ InOrder(N!Listeners[what], k)
           /\ \A n \in 1..k : N!Task(e, n, N!Listeners[what][n]) \in Walker
           /\ listening' = listening \cup {N!Task(e, n, N!Listeners[what][n]) : n \in 1..k}
           /\ \A n \in 1..4 :
                Of(e, n)' = IF n \in 1..k THEN {N!Task(e, n, N!Listeners[what][n])} ELSE {}
  BY EmitStarts
<1>3. ASSUME NEW t, t \in listening', t \notin listening
      PROVE  /\ t \in Walker /\ t.event = e /\ t.n \in 1..k /\ t = N!Task(e, t.n, N!Listeners[what][t.n])
             /\ Head(t.users) = "customer" /\ t.pc = "inapp"
  <2>1. PICK n \in 1..k : t = N!Task(e, n, N!Listeners[what][n])
    BY <1>2, <1>3
  <2>2. t.event = e /\ t.n = n /\ t.pc = "inapp" /\ t.users = N!Listeners[what][n].users
    BY <2>1 DEF N!Task
  <2>3. N!Listeners[what][n] \in Listening
    BY <1>2 DEF InOrder
  <2>4. Head(t.users) = "customer"
    BY <2>2, <2>3 DEF Listening
  <2> QED
    BY <1>2, <2>1, <2>2, <2>4
<1>4. \A t \in listening : t.event # e
  BY <1>1 DEF NoticeInv
<1>5. what # "none"
  BY PlatformConstants DEF N!Listeners
<1>6. kinds \in [Occurrences -> Kinds \cup {"none"}]
  BY DEF NoticeInv
<1>7. kinds' \in [Occurrences -> Kinds \cup {"none"}] /\ kinds'[e] = what
      /\ \A f \in Occurrences \ {e} : kinds'[f] = kinds[f]
  BY <1>1, <1>6
<1>8. listening' \subseteq Walker
  BY <1>3 DEF NoticeInv
<1>9. \A t \in listening' : kinds'[t.event] # "none" /\ (t.again => Head(t.users) = "customer")
  BY <1>3, <1>4, <1>5, <1>7, <1>8 DEF NoticeInv, Walker
<1>10. \A s, t \in listening' : s.event = t.event /\ s.n = t.n => s = t
  BY <1>3, <1>4 DEF NoticeInv
<1>11. left' \in 0..MaxNotices
  BY <1>1, PlatformConstants DEF NoticeInv
<1>12. Answered(e)'
  <2>1. asked'[e] = [row |-> N!Effective(prefs["customer"]), device |-> device]
    BY <1>1, <1>5, <1>7 DEF Histories
  <2>2. pushed'[e] = 0 /\ \A u \in N!Users : inbox'[e][u] = 0
    BY <1>1 DEF NoticeInv
  <2>3. Heeded(e)'
    BY <1>1, <2>1 DEF Heeded
  <2>4. /\ \A u \in N!Users : Tally(Noticing(e, u)') = N!Heard(N!Listeners[what], u)
        /\ Tally(Pushing(e)') + Tally(Repeating(e)') = N!Pushes(N!Listeners[what])
    BY EmitOwes
  <2>5. /\ \A u \in N!Users : Tally(Noticing(e, u)') \in Nat
        /\ Tally(Pushing(e)') \in Nat /\ Tally(Repeating(e)') \in Nat
    BY DEF Noticers, Pushers, Repeaters, One, Tally, Noticing, Pushing, Repeating
  <2>6. \A t \in listening' : t.event = e => t.pc = "inapp"
    BY <1>3, <1>4
  <2>7. \A u \in N!Users : inbox'[e][u] + Tally(Noticing(e, u)') = N!Heard(N!Listeners[what], u)
    BY <2>2, <2>4, <2>5
  <2>8. pushed'[e] + Tally(Pushing(e)') + Tally(Repeating(e)') = N!Pushes(N!Listeners[what])
    BY <2>2, <2>4, <2>5
  <2> QED
    BY <1>7, <2>2, <2>3, <2>6, <2>7, <2>8 DEF Answered
<1>13. ASSUME NEW f \in Occurrences, kinds'[f] # "none", f \notin shaken' \cup collided'
       PROVE  Answered(f)'
  BY <1>12, <1>2, <1>3, <1>1, <1>7, <1>13, OthersAnswer DEF Unshaken
<1>14. \A f \in Occurrences : kinds'[f] = "none" => pushed'[f] = 0 /\ \A u \in N!Users : inbox'[f][u] = 0
  BY <1>1, <1>5, <1>7 DEF NoticeInv
<1>15. /\ prefs' \in [N!Users -> N!Row \cup {None}]
       /\ prefs'["rider"] \in {None, N!Defaults} /\ prefs'["merchant"] \in {None, N!Defaults}
       /\ device' \in {"none", "live"} /\ faults' \in 0..MaxFaults
       /\ inbox' \in [Occurrences -> [N!Users -> Nat]] /\ pushed' \in [Occurrences -> Nat]
  BY <1>1 DEF NoticeInv
<1> QED
  BY <1>7, <1>8, <1>9, <1>10, <1>11, <1>13, <1>14, <1>15 DEF NoticeInv

LEMMA NoticesNext ==
  ASSUME NoticeInv, N!MCNext
  PROVE  NoticeInv'
<1>0. Histories
  BY HistoriesKept
<1>1. /\ prefs \in [N!Users -> N!Row \cup {None}] /\ device \in {"none", "live"}
      /\ left \in 0..MaxNotices /\ faults \in 0..MaxFaults /\ MaxNotices \in Nat
  BY PlatformConstants DEF NoticeInv
<1>2. ASSUME NEW row \in N!Row, N!Update(row)
      PROVE  NoticeInv'
  BY <1>2, <1>1, <1>0, AsideKeeps DEF N!Update, N!Users
<1>3. CASE N!Register \/ N!Unregister
  BY <1>3, <1>0, <1>1, AsideKeeps DEF N!Register, N!Unregister
<1>4. ASSUME NEW e \in Occurrences, NEW what \in Kinds, N!Emit(e, what)
      PROVE  NoticeInv'
  BY <1>0, <1>4, EmitKeeps
<1>5. ASSUME NEW t \in listening,
             \/ N!FindInApp(t) \/ N!MakePrefs(t) \/ N!Store(t) \/ N!ReadTokens(t) \/ N!Send(t)
             \/ N!Unregistered(t) \/ N!DropToken(t) \/ N!CallFails(t)
      PROVE  NoticeInv'
  BY <1>0, <1>5, ListenersKeep
<1>6. \A push, inApp \in BOOLEAN : [push |-> push, inApp |-> inApp] \in N!Row
  BY DEF N!Row
<1> QED
  BY <1>2, <1>3, <1>4, <1>5, <1>6 DEF N!MCNext, N!Next

LEMMA NoticesStutter ==
  ASSUME NoticeInv, UNCHANGED <<left, faults, OfNotices>>
  PROVE  NoticeInv'
<1>1. UNCHANGED <<kinds, prefs, device, inbox, pushed, listening, asked, shaken, collided, left, faults>>
  BY DEF OfNotices
<1>2. \A e, n : Of(e, n)' = Of(e, n)
  BY <1>1 DEF Of
<1>3. \A e, u : /\ Noticing(e, u)' = Noticing(e, u) /\ Pushing(e)' = Pushing(e)
                /\ Repeating(e)' = Repeating(e)
                /\ (Heeded(e)' <=> Heeded(e)) /\ (Reaches(e)' <=> Reaches(e))
  BY <1>1, <1>2 DEF Noticing, Pushing, Repeating, Heeded, Reaches
<1>4. \A e : Answered(e)' <=> Answered(e)
  BY <1>1, <1>3 DEF Answered
<1> QED
  BY <1>1, <1>4 DEF NoticeInv

LEMMA NoticesInit ==
  ASSUME N!MCInit
  PROVE  NoticeInv
<1>1. /\ kinds = [e \in Occurrences |-> "none"]
      /\ prefs \in {[u \in N!Users |-> None], [u \in N!Users |-> N!Defaults]}
      /\ device \in {"none", "live"}
      /\ inbox = [e \in Occurrences |-> [u \in N!Users |-> 0]]
      /\ pushed = [e \in Occurrences |-> 0]
      /\ listening = {} /\ left = MaxNotices /\ faults = MaxFaults
  BY DEF N!MCInit, N!Init
<1>2. prefs \in [N!Users -> N!Row \cup {None}]
      /\ prefs["rider"] \in {None, N!Defaults} /\ prefs["merchant"] \in {None, N!Defaults}
  <2>1. N!Defaults \in N!Row /\ "rider" \in N!Users /\ "merchant" \in N!Users
    BY DEF N!Users, N!Defaults, N!Row
  <2> QED
    BY <1>1, <2>1
<1>3. left \in 0..MaxNotices /\ faults \in 0..MaxFaults
  BY <1>1, PlatformConstants
<1> QED
  BY <1>1, <1>2, <1>3 DEF NoticeInv

LEMMA NoticesImplied ==
  ASSUME NoticeInv
  PROVE  N!TypeOK /\ N!AsAskedUnlessShaken
<1>1. \A t \in listening : t.users # << >> /\ N!To(t) \in N!Users /\ kinds[t.event] # "none"
  BY WalkFacts DEF NoticeInv, Walker, N!To
<1>2. N!TypeOK
  BY <1>1 DEF NoticeInv, N!TypeOK
<1>3. ASSUME NEW e \in Occurrences \ (shaken \cup collided), kinds[e] # "none", e \notin N!UnderWay
      PROVE  /\ \A u \in N!Users :
                  inbox[e][u] = IF u = "customer" /\ ~asked[e].row.inApp THEN 0
                                ELSE N!Heard(N!Listeners[kinds[e]], u)
             /\ pushed[e] = IF asked[e].row.push /\ asked[e].device = "live"
                            THEN N!Pushes(N!Listeners[kinds[e]]) ELSE 0
  <2>1. Answered(e)
    BY <1>3 DEF NoticeInv
  <2>2. \A n : Of(e, n) = {}
    BY <1>3 DEF Of, N!UnderWay
  <2>3. \A u : Noticers({}, u) = 0 /\ Pushers({}) = 0 /\ Repeaters({}) = 0
    BY DEF Noticers, Pushers, Repeaters, One
  <2>4. \A u : Tally(Noticing(e, u)) = 0 /\ Tally(Pushing(e)) = 0 /\ Tally(Repeating(e)) = 0
    BY <2>2, <2>3 DEF Tally, Noticing, Pushing, Repeating
  <2>5. pushed[e] \in Nat /\ \A u \in N!Users : inbox[e][u] \in Nat
    BY DEF NoticeInv
  <2>6. ASSUME NEW u \in N!Users
        PROVE  inbox[e][u] = IF u = "customer" /\ ~asked[e].row.inApp THEN 0
                             ELSE N!Heard(N!Listeners[kinds[e]], u)
    BY <2>1, <2>4, <2>5 DEF Answered
  <2>7. pushed[e] = IF asked[e].row.push /\ asked[e].device = "live"
                    THEN N!Pushes(N!Listeners[kinds[e]]) ELSE 0
    BY <2>1, <2>4, <2>5 DEF Answered, Reaches
  <2> QED
    BY <2>6, <2>7
<1>4. N!AsAskedUnlessShaken
  BY <1>3 DEF N!AsAskedUnlessShaken
<1> QED
  BY <1>2, <1>4

-----------------------------------------------------------------------------
\* Brokers.

\* Where an entry can be that a handler may still be given: in the topic (None), in the
\* hands of a loop (0), further down its batch.
Spots == (Loops \cup {None}) \X Nat

Here(p) ==
  IF p[1] = None THEN p[2] \in 1..Len(topic)
  ELSE IF p[2] = 0 THEN hand[p[1]].pc \in {"handle", "nack", "republish"}
  ELSE p[2] \in 1..Len(batch[p[1]])

What(p) ==
  IF p[1] = None THEN topic[p[2]]
  ELSE IF p[2] = 0 THEN hand[p[1]].entry ELSE batch[p[1]][p[2]]

\* The handlers that have failed with the entry.
Failed(p) ==
  IF p[1] # None /\ p[2] = 0 /\ hand[p[1]].pc # "handle" THEN What(p).n + 1 ELSE What(p).n

Finds(m) == \E p \in Spots : Here(p) /\ What(p).m = m

SpotsInv ==
  /\ \A p \in Spots : Here(p) =>
       What(p) \in B!Entry /\ What(p).m \in published /\ tries[What(p).m] >= Failed(p)
  /\ \A p, q \in Spots :
       Here(p) /\ Here(q) /\ What(p).m = What(q).m /\ What(p).m \notin again => p = q
  /\ \A m \in Messages :
       /\ m \notin again => handled[m] <= 1 /\ loose[m] = 0
       /\ handled[m] > 0 \/ loose[m] > 0 => m \in published
       /\ m \notin again /\ Finds(m) => handled[m] = 0
       /\ m \in published \ cut => Finds(m) \/ handled[m] > 0 \/ dead[m] > 0
       /\ ~ownDead /\ dead[m] > 0 => tries[m] > MaxRetries

Hands == [pc : {"off", "poll", "handle", "ack", "nack", "republish"}, entry : B!Entry \cup {B!Nothing}]

LoopsInv ==
  \A l \in Loops :
    /\ IF hand[l].pc \in {"off", "poll"} THEN hand[l].entry = B!Nothing /\ batch[l] = << >>
       ELSE hand[l].entry \in B!Entry
    /\ hand[l].pc = "ack" =>
         handled[hand[l].entry.m] > 0 /\ tries[hand[l].entry.m] >= hand[l].entry.n
    /\ driver # "redis" => batch[l] = << >> /\ hand[l].pc # "poll"
    /\ driver = "rabbitmq" /\ ~consuming =>
         /\ hand[l].pc \in {"off", "republish"}
         /\ hand[l].pc = "republish" => hand[l].entry.m \in cut

CutsInv ==
  /\ driver = "redis" /\ connected => \E l \in Loops : active = {l} /\ hand[l].pc # "off"
  /\ driver # "redis" /\ consuming => connected
  /\ driver = "nats" /\ ~consuming => published \subseteq cut

BrokerTypes ==
  /\ driver \in {"redis", "rabbitmq", "nats"} /\ ownDead \in BOOLEAN
  /\ topic \in Seq(B!Entry) /\ batch \in [Loops -> Seq(B!Entry)] /\ pending \subseteq B!Entry
  /\ hand \in [Loops -> Hands] /\ active \subseteq Loops
  /\ dead \in [Messages -> Nat] /\ handled \in [Messages -> Nat] /\ loose \in [Messages -> Nat]
  /\ tries \in [Messages -> Nat]
  /\ connected \in BOOLEAN /\ consuming \in BOOLEAN /\ listeners \in Nat /\ recovering \in Nat
  /\ published \subseteq Messages /\ faults \in 0..MaxCuts

BrokerInv == BrokerTypes /\ LoopsInv /\ CutsInv /\ SpotsInv

\* What a step notes of the messages.
Noted ==
  /\ cut \subseteq cut' /\ again \subseteq again'
  /\ \A m \in Messages : loose'[m] > loose[m] => m \in again'
  /\ faults' < faults /\ (\A l \in Loops : ~B!Failing(l)) => B!AtRisk \subseteq cut'
  /\ driver = "nats" /\ ~consuming' => published' \subseteq cut'
  /\ faults' < faults /\ driver = "rabbitmq" =>
       \A l \in Loops : hand[l].pc \in {"handle", "ack", "nack"} => hand[l].entry.m \in again'
  /\ tries' = [m \in Messages |->
       tries[m] + B!Cardinality({l \in Loops : B!Failing(l) /\ hand[l].entry.m = m})]

LEMMA NotedAll ==
  ASSUME B!MCNext
  PROVE  Noted
  BY DEF B!MCNext, B!InHand, Noted

\* Only the handlers that fail are counted.
LEMMA TriesFacts ==
  ASSUME BrokerTypes, Noted
  PROVE  /\ tries' \in [Messages -> Nat] /\ \A m \in Messages : tries'[m] >= tries[m]
         /\ (\A l \in Loops : ~B!Failing(l)) => tries' = tries
         /\ \A l \in Loops : B!Failing(l) /\ hand[l].entry.m \in Messages =>
              tries'[hand[l].entry.m] > tries[hand[l].entry.m]
<1> DEFINE F(m) == {l \in Loops : B!Failing(l) /\ hand[l].entry.m = m}
<1>0. \A X : B!Cardinality(X) = Cardinality(X)
  BY Zenon DEF Cardinality, B!Cardinality
<1>1. tries' = [m \in Messages |-> tries[m] + Cardinality(F(m))] /\ tries \in [Messages -> Nat]
  BY <1>0 DEF Noted, BrokerTypes
<1>2. \A m : IsFiniteSet(F(m)) /\ Cardinality(F(m)) \in Nat /\ (Cardinality(F(m)) = 0 <=> F(m) = {})
  BY PlatformConstants, FS_Subset, FS_CardinalityType, FS_EmptySet
<1>3. tries' \in [Messages -> Nat] /\ \A m \in Messages : tries'[m] >= tries[m]
  <2> HIDE DEF F
  <2> QED
    BY <1>1, <1>2
<1>4. (\A l \in Loops : ~B!Failing(l)) => tries' = tries
  <2>1. (\A l \in Loops : ~B!Failing(l)) => \A m : F(m) = {}
    OBVIOUS
  <2> HIDE DEF F
  <2> QED
    BY <1>1, <1>2, <2>1
<1>5. ASSUME NEW l \in Loops, B!Failing(l), hand[l].entry.m \in Messages
      PROVE  tries'[hand[l].entry.m] > tries[hand[l].entry.m]
  <2>1. PICK m \in Messages : m = hand[l].entry.m
    BY <1>5
  <2>2. F(m) # {}
    BY <1>5, <2>1
  <2> HIDE DEF F
  <2> QED
    BY <1>1, <1>2, <2>1, <2>2
<1> QED
  BY <1>3, <1>4, <1>5

\* Entries that are where they are because they were somewhere before.
LEMMA SpotsStep ==
  ASSUME BrokerInv, Noted, NEW back \in [Spots -> Spots],
         \A p \in Spots : Here(p)' =>
           /\ What(p)' \in B!Entry /\ What(p)'.m \in published' /\ tries'[What(p)'.m] >= Failed(p)'
           /\ What(p)'.m \notin again' =>
                \/ Here(back[p]) /\ What(back[p]).m = What(p)'.m
                \/ What(p)'.m \notin published /\ p = <<None, Len(topic')>>,
         \A p, q \in Spots : Here(p)' /\ Here(q)' /\ What(p)'.m \notin again'
                               /\ back[p] = back[q] => p = q,
         \A p \in Spots : Here(p) =>
           \/ \E q \in Spots : Here(q)' /\ What(q)'.m = What(p).m
           \/ handled'[What(p).m] > 0 \/ dead'[What(p).m] > 0 \/ What(p).m \in cut',
         published \subseteq published', ownDead' = ownDead,
         handled' \in [Messages -> Nat], loose' \in [Messages -> Nat], dead' \in [Messages -> Nat],
         \A m \in Messages :
           /\ handled'[m] >= handled[m] /\ dead'[m] >= dead[m]
           /\ m \in published' /\ m \notin published => Finds(m)' \/ m \in cut'
           /\ handled'[m] > 0 \/ loose'[m] > 0 => m \in published'
           /\ m \notin again' => \/ handled'[m] = handled[m]
                                 \/ handled[m] = 0 /\ handled'[m] = 1 /\ ~Finds(m)'
           /\ ~ownDead /\ dead'[m] > 0 => dead[m] > 0 \/ tries[m] > MaxRetries
  PROVE  SpotsInv'
<1>0. /\ handled \in [Messages -> Nat] /\ loose \in [Messages -> Nat] /\ dead \in [Messages -> Nat]
      /\ tries \in [Messages -> Nat] /\ tries' \in [Messages -> Nat] /\ MaxRetries \in Nat
      /\ \A m \in Messages : tries'[m] >= tries[m]
  BY PlatformConstants, TriesFacts DEF BrokerInv, BrokerTypes
<1>1. \A p \in Spots : Here(p)' =>
        What(p)' \in B!Entry /\ What(p)'.m \in published' /\ tries'[What(p)'.m] >= Failed(p)'
  OBVIOUS
<1>2. ASSUME NEW p \in Spots, NEW q \in Spots, Here(p)', Here(q)', What(p)'.m = What(q)'.m,
             What(p)'.m \notin again'
      PROVE  p = q
  <2>1. CASE What(p)'.m \notin published
    <3>1. \A r \in Spots : Here(r) => What(r).m \in published
      BY DEF BrokerInv, SpotsInv
    <3> QED
      BY <1>2, <2>1, <3>1
  <2>2. CASE What(p)'.m \in published
    BY <1>2, <2>2 DEF Noted, BrokerInv, SpotsInv
  <2> QED
    BY <2>1, <2>2
<1>3. ASSUME NEW m \in Messages, m \notin again', Finds(m)'
      PROVE  Finds(m) \/ m \notin published
  <2>1. PICK p \in Spots : Here(p)' /\ What(p)'.m = m
    BY <1>3 DEF Finds
  <2> QED
    BY <1>3, <2>1 DEF Finds
<1>4. ASSUME NEW m \in Messages, Finds(m)
      PROVE  Finds(m)' \/ handled'[m] > 0 \/ dead'[m] > 0 \/ m \in cut'
  BY <1>4 DEF Finds
<1>5. ASSUME NEW m \in Messages
      PROVE  /\ m \notin again' => handled'[m] <= 1 /\ loose'[m] = 0
             /\ handled'[m] > 0 \/ loose'[m] > 0 => m \in published'
             /\ m \notin again' /\ Finds(m)' => handled'[m] = 0
             /\ m \in published' \ cut' => Finds(m)' \/ handled'[m] > 0 \/ dead'[m] > 0
             /\ ~ownDead' /\ dead'[m] > 0 => tries'[m] > MaxRetries
  <2>1. /\ m \notin again => handled[m] <= 1 /\ loose[m] = 0
        /\ handled[m] > 0 \/ loose[m] > 0 => m \in published
        /\ m \notin again /\ Finds(m) => handled[m] = 0
        /\ m \in published \ cut => Finds(m) \/ handled[m] > 0 \/ dead[m] > 0
        /\ ~ownDead /\ dead[m] > 0 => tries[m] > MaxRetries
    BY DEF BrokerInv, SpotsInv
  <2>2. m \notin again' => m \notin again /\ loose'[m] <= loose[m]
    BY <1>0 DEF Noted
  <2>3. m \notin cut' => m \notin cut
    BY DEF Noted
  <2>4. /\ handled'[m] >= handled[m] /\ dead'[m] >= dead[m]
        /\ handled[m] \in Nat /\ handled'[m] \in Nat /\ dead[m] \in Nat /\ dead'[m] \in Nat
        /\ loose[m] \in Nat /\ loose'[m] \in Nat /\ tries[m] \in Nat /\ tries'[m] \in Nat
        /\ tries'[m] >= tries[m]
    BY <1>0
  <2>5. m \notin again' /\ Finds(m)' => handled'[m] = 0
    BY <1>3, <2>1, <2>2, <2>4
  <2>6. m \in published' \ cut' => Finds(m)' \/ handled'[m] > 0 \/ dead'[m] > 0
    BY <1>4, <2>1, <2>3, <2>4
  <2> QED
    BY <1>0, <2>1, <2>2, <2>4, <2>5, <2>6
<1> QED
  BY <1>1, <1>2, <1>5 DEF SpotsInv

\* Entries that stay where they are.
LEMMA SpotsStay ==
  ASSUME BrokerInv, Noted,
         \A p \in Spots : Here(p)' =>
           Here(p) /\ What(p)' = What(p) /\ tries'[What(p).m] >= Failed(p)',
         \A p \in Spots : Here(p) =>
           Here(p)' \/ handled'[What(p).m] > 0 \/ dead'[What(p).m] > 0 \/ What(p).m \in cut',
         published' = published, ownDead' = ownDead,
         handled' \in [Messages -> Nat], loose' \in [Messages -> Nat], dead' \in [Messages -> Nat],
         \A m \in Messages :
           /\ handled'[m] >= handled[m] /\ dead'[m] >= dead[m]
           /\ handled'[m] > 0 \/ loose'[m] > 0 => m \in published
           /\ m \notin again' => \/ handled'[m] = handled[m]
                                 \/ handled[m] = 0 /\ handled'[m] = 1 /\ ~Finds(m)'
           /\ ~ownDead /\ dead'[m] > 0 => dead[m] > 0 \/ tries[m] > MaxRetries
  PROVE  SpotsInv'
<1>1. PICK back \in [Spots -> Spots] : back = [p \in Spots |-> p]
  OBVIOUS
<1>2. \A p \in Spots : back[p] = p
  BY <1>1
<1>3. \A p \in Spots : Here(p) => What(p) \in B!Entry /\ What(p).m \in published
  BY DEF BrokerInv, SpotsInv
<1>4. \A p \in Spots : Here(p)' =>
        /\ What(p)' \in B!Entry /\ What(p)'.m \in published' /\ tries'[What(p)'.m] >= Failed(p)'
        /\ What(p)'.m \notin again' => Here(back[p]) /\ What(back[p]).m = What(p)'.m
  BY <1>2, <1>3
<1>5. \A p \in Spots : Here(p) =>
        \/ \E q \in Spots : Here(q)' /\ What(q)'.m = What(p).m
        \/ handled'[What(p).m] > 0 \/ dead'[What(p).m] > 0 \/ What(p).m \in cut'
  OBVIOUS
<1> QED
  BY <1>2, <1>4, <1>5, SpotsStep

\* A loop on its way with an entry.
LEMMA Goes ==
  ASSUME BrokerTypes, NEW l \in Loops,
         NEW pc \in {"off", "poll", "handle", "ack", "nack", "republish"}, B!Goto(l, pc)
  PROVE  /\ hand' \in [Loops -> Hands] /\ hand'[l].pc = pc /\ hand'[l].entry = hand[l].entry
         /\ \A k \in Loops : k # l => hand'[k] = hand[k]
         /\ \A k \in Loops : hand'[k].entry = hand[k].entry
         /\ B!Failing(l) <=> hand[l].pc = "handle" /\ pc = "nack"
         /\ \A k \in Loops : k # l => ~B!Failing(k)
<1>1. hand' = [hand EXCEPT ![l].pc = pc] /\ hand \in [Loops -> Hands]
  BY DEF BrokerTypes, B!Goto
<1>2. hand[l] \in Hands /\ hand'[l] = [hand[l] EXCEPT !.pc = pc]
      /\ \A k \in Loops : k # l => hand'[k] = hand[k]
  BY <1>1
<1>3. hand'[l] \in Hands /\ hand'[l].pc = pc /\ hand'[l].entry = hand[l].entry
  BY <1>2 DEF Hands
<1>4. hand' \in [Loops -> Hands]
  BY <1>1, <1>3
<1> QED
  BY <1>2, <1>3, <1>4 DEF B!Failing, B!At

\* A handler ends or fails, or its delivery is refused.
Handles(l, pc, m) ==
  /\ B!Goto(l, pc) /\ hand[l].pc = IF pc = "republish" THEN "nack" ELSE "handle"
  /\ handled' = IF pc = "ack" THEN [handled EXCEPT ![m] = handled[m] + 1] ELSE handled
  /\ dead' = dead \/ (pc = "republish" /\ ownDead /\ dead' = [dead EXCEPT ![m] = dead[m] + 1])
  /\ loose' = loose \/ (pc = "nack" /\ loose' = [loose EXCEPT ![m] = loose[m] + 1])
  /\ faults' = faults \/ (faults > 0 /\ faults' = faults - 1)
  /\ UNCHANGED <<driver, ownDead, published, topic, batch, active, pending,
                 connected, consuming, listeners, recovering>>

LEMMA HandlerKeeps ==
  ASSUME BrokerInv, Noted, NEW l \in Loops,
         B!HandlerEnds(l) \/ B!HandlerThrows(l) \/ B!HandlerTimesOut(l) \/ B!Nack(l)
  PROVE  BrokerInv'
<1>0. BrokerTypes /\ LoopsInv /\ CutsInv /\ SpotsInv
  BY DEF BrokerInv
<1>1a. PICK m : m = hand[l].entry.m
  OBVIOUS
<1>1b. \E pc \in {"ack", "nack", "republish"} : Handles(l, pc, m)
  BY <1>1a DEF B!HandlerEnds, B!At, B!Config, B!Connection, Handles, B!HandlerThrows,
     B!HandlerTimesOut, B!Fault, B!Nack
<1>1c. PICK pc \in {"ack", "nack", "republish"} : Handles(l, pc, m)
  BY <1>1b
<1>1. /\ B!Goto(l, pc) /\ hand[l].pc = IF pc = "republish" THEN "nack" ELSE "handle"
      /\ handled' = IF pc = "ack" THEN [handled EXCEPT ![m] = handled[m] + 1] ELSE handled
      /\ dead' = dead \/ (pc = "republish" /\ ownDead /\ dead' = [dead EXCEPT ![m] = dead[m] + 1])
      /\ loose' = loose \/ (pc = "nack" /\ loose' = [loose EXCEPT ![m] = loose[m] + 1])
      /\ faults' = faults \/ (faults > 0 /\ faults' = faults - 1)
      /\ UNCHANGED <<driver, ownDead, published, topic, batch, active, pending,
                     connected, consuming, listeners, recovering>>
  BY <1>1c DEF Handles
<1>2. /\ hand' \in [Loops -> Hands] /\ hand'[l].pc = pc /\ hand'[l].entry = hand[l].entry
      /\ \A k \in Loops : k # l => hand'[k] = hand[k]
      /\ (B!Failing(l) <=> hand[l].pc = "handle" /\ pc = "nack")
      /\ \A k \in Loops : k # l => ~B!Failing(k)
  BY <1>0, <1>1, Goes
<1>3. hand[l].entry \in B!Entry /\ m \in Messages /\ m \in published
  <2>1. hand[l].entry \in B!Entry
    BY <1>0, <1>1 DEF LoopsInv
  <2>2. <<l, 0>> \in Spots /\ Here(<<l, 0>>) /\ What(<<l, 0>>) = hand[l].entry
    BY <1>1, PlatformConstants DEF Spots, Here, What
  <2> QED
    BY <1>0, <1>1a, <2>1, <2>2 DEF SpotsInv, B!Entry
<1>4. /\ dead \in [Messages -> Nat] /\ handled \in [Messages -> Nat] /\ loose \in [Messages -> Nat]
      /\ faults \in 0..MaxCuts /\ MaxCuts \in Nat
  BY <1>0, PlatformConstants DEF BrokerTypes
<1>5. /\ dead' \in [Messages -> Nat] /\ handled' \in [Messages -> Nat] /\ loose' \in [Messages -> Nat]
      /\ faults' \in 0..MaxCuts
      /\ \A n \in Messages : /\ handled'[n] >= handled[n] /\ dead'[n] >= dead[n]
                             /\ n # m => handled'[n] = handled[n] /\ loose'[n] = loose[n]
      /\ pc = "ack" => handled'[m] = handled[m] + 1
      /\ pc # "ack" => handled' = handled
      /\ ~ownDead => dead' = dead
  BY <1>1, <1>3, <1>4
<1>6. BrokerTypes'
  BY <1>0, <1>1, <1>2, <1>5, TriesFacts DEF BrokerTypes
<1>6a. /\ tries' \in [Messages -> Nat] /\ tries \in [Messages -> Nat]
       /\ \A n \in Messages : tries'[n] >= tries[n]
  BY <1>0, TriesFacts DEF BrokerTypes
<1>7. LoopsInv'
  <2>1. ASSUME NEW k \in Loops
        PROVE  /\ hand'[k].pc \in {"off", "poll"} <=> hand[k].pc \in {"off", "poll"}
               /\ hand'[k].pc \in {"off", "poll"} => hand'[k].pc = hand[k].pc
               /\ hand'[k].entry = hand[k].entry
               /\ hand'[k].pc = "ack" =>
                    handled'[hand[k].entry.m] > 0 /\ tries'[hand[k].entry.m] >= hand[k].entry.n
               /\ hand[k].pc \in {"off", "republish"} => hand'[k].pc = hand[k].pc
    <3>1. CASE k = l
      <4>1. handled'[m] >= handled[m] /\ handled[m] \in Nat
        BY <1>3, <1>4, <1>5
      <4>2. pc = "ack" => tries'[m] >= hand[l].entry.n
        <5>1. <<l, 0>> \in Spots /\ pc = "ack" =>
                Here(<<l, 0>>) /\ What(<<l, 0>>) = hand[l].entry /\ Failed(<<l, 0>>) = hand[l].entry.n
          BY <1>1, PlatformConstants DEF Spots, Here, What, Failed
        <5>2. pc = "ack" => tries[m] >= hand[l].entry.n
          BY <1>0, <1>1a, <5>1 DEF SpotsInv, Spots
        <5>3. tries[m] \in Nat /\ tries'[m] \in Nat /\ tries'[m] >= tries[m] /\ hand[l].entry.n \in Nat
          BY <1>3, <1>6a, PlatformConstants DEF B!Entry
        <5> QED
          BY <5>2, <5>3
      <4> QED
        BY <1>1, <1>2, <1>5, <3>1, <4>1, <4>2, <1>1a
    <3>2. CASE k # l
      <4>1. hand'[k] = hand[k]
        BY <1>2, <3>2
      <4>2. hand[k].pc = "ack" => /\ hand[k].entry.m \in Messages /\ handled[hand[k].entry.m] > 0
                                  /\ tries[hand[k].entry.m] >= hand[k].entry.n /\ hand[k].entry.n \in Nat
        BY <1>0, PlatformConstants DEF LoopsInv, B!Entry
      <4>3. hand[k].pc = "ack" => tries'[hand[k].entry.m] >= hand[k].entry.n
        BY <1>6a, <4>2
      <4> QED
        BY <1>4, <1>5, <4>1, <4>2, <4>3
    <3> QED
      BY <3>1, <3>2
  <2> QED
    BY <1>0, <1>1, <2>1 DEF LoopsInv, Noted
<1>8. CutsInv'
  BY <1>1, <1>2, <1>0 DEF CutsInv, Noted
<1>9. /\ tries' \in [Messages -> Nat] /\ tries \in [Messages -> Nat]
      /\ \A n \in Messages : tries'[n] >= tries[n]
      /\ pc = "nack" => tries'[m] > tries[m]
  BY <1>0, <1>1, <1>2, <1>3, <1>1a, TriesFacts DEF BrokerTypes
<1>10. ASSUME NEW p \in Spots, Here(p)'
       PROVE  Here(p) /\ What(p)' = What(p) /\ tries'[What(p).m] >= Failed(p)'
  <2>1. Here(p) /\ What(p)' = What(p)
    BY <1>1, <1>2, <1>10 DEF Spots, Here, What
  <2>2. tries[What(p).m] >= Failed(p) /\ What(p) \in B!Entry
    BY <1>0, <2>1 DEF SpotsInv
  <2>3. What(p).m \in Messages /\ What(p).n \in Nat
    BY <2>2, PlatformConstants DEF B!Entry
  <2>4. CASE p[1] = l /\ p[2] = 0
    BY <2>4, PlatformConstants, <1>1, <1>2, <1>10, <2>1, <1>9, <2>2, <2>3, <1>1a DEF What, Failed,
       Here
  <2>5. CASE ~(p[1] = l /\ p[2] = 0)
    BY <1>2, <2>1, <2>3, <2>5, <1>9, <2>2 DEF Spots, Failed
  <2> QED
    BY <2>4, <2>5
<1>11. ASSUME NEW p \in Spots, Here(p)
       PROVE  Here(p)' \/ handled'[What(p).m] > 0
  <2>1. CASE p[1] = l /\ p[2] = 0 /\ pc = "ack"
    BY <2>1, PlatformConstants, <1>1a, <1>3, <1>4, <1>5 DEF What
  <2>2. CASE ~(p[1] = l /\ p[2] = 0 /\ pc = "ack")
    BY <1>1, <1>2, <1>11, <2>2 DEF Spots, Here
  <2> QED
    BY <2>1, <2>2
<1>12. ASSUME pc = "ack", m \notin again'
       PROVE  handled[m] = 0 /\ ~Finds(m)'
  <2>1. <<l, 0>> \in Spots /\ Here(<<l, 0>>) /\ What(<<l, 0>>).m = m /\ ~Here(<<l, 0>>)'
    BY <1>1, <1>2, <1>12, <1>1a, PlatformConstants DEF Spots, Here, What
  <2>2. m \notin again
    BY <1>12 DEF Noted
  <2>3. handled[m] = 0
    BY <1>0, <1>3, <2>1, <2>2 DEF SpotsInv, Finds
  <2>4. ASSUME NEW p \in Spots, Here(p)', What(p)'.m = m
        PROVE  FALSE
    BY <1>10, <2>4, <1>0, <2>1, <2>2 DEF SpotsInv
  <2> QED
    BY <2>3, <2>4 DEF Finds
<1>13. ASSUME NEW n \in Messages
       PROVE  /\ handled'[n] >= handled[n] /\ dead'[n] >= dead[n]
              /\ handled'[n] > 0 \/ loose'[n] > 0 => n \in published
              /\ n \notin again' => \/ handled'[n] = handled[n]
                                    \/ handled[n] = 0 /\ handled'[n] = 1 /\ ~Finds(n)'
              /\ ~ownDead /\ dead'[n] > 0 => dead[n] > 0 \/ tries[n] > MaxRetries
  BY <1>0, <1>3, <1>5, <1>12 DEF SpotsInv
<1>14. SpotsInv'
  BY <1>1, <1>5, <1>10, <1>11, <1>13, SpotsStay
<1> QED
  BY <1>6, <1>7, <1>8, <1>14 DEF BrokerInv

\* What a fault lays hold of is noted.
LEMMA Risked ==
  ASSUME BrokerInv, Noted, faults' < faults, \A l \in Loops : ~B!Failing(l),
         NEW p \in Spots, Here(p),
         \/ driver = "nats"
         \/ driver = "redis" /\ p[1] \in Loops /\ hand'[p[1]] # hand[p[1]]
         \/ driver = "rabbitmq" /\ p[1] \in Loops /\ p[2] = 0 /\ hand[p[1]].pc = "republish"
  PROVE  What(p).m \in cut'
<1>1. B!AtRisk \subseteq cut'
  BY DEF Noted
<1>2. CASE driver = "nats"
  BY <1>2, <1>1 DEF B!AtRisk, B!Redis, BrokerInv, SpotsInv
<1>3. CASE driver = "redis" /\ p[1] \in Loops /\ hand'[p[1]] # hand[p[1]]
  <2>1. B!AtRisk = B!Touched
    BY <1>3 DEF B!AtRisk, B!Redis
  <2>2. PICK l \in Loops : l = p[1] /\ l # None /\ hand'[l] # hand[l]
    BY <1>3, PlatformConstants
  <2>3. What(p).m \in B!Batched(l) \cup (IF B!Working(l) THEN {hand[l].entry.m} ELSE {})
    BY <2>2 DEF Here, What, B!Working, BrokerInv, BrokerTypes, B!ToSet, B!Batched
  <2>4. What(p).m \in B!Touched
    BY <2>2, <2>3 DEF B!Touched
  <2> QED
    BY <1>1, <2>1, <2>4
<1>4. CASE driver = "rabbitmq" /\ p[1] \in Loops /\ p[2] = 0 /\ hand[p[1]].pc = "republish"
  BY <1>4, PlatformConstants, <1>1 DEF B!AtRisk, B!Redis, What, B!InHand
<1> QED
  BY <1>2, <1>3, <1>4

\* Entries that are dropped, or left where they are.
LEMMA SpotsDropped ==
  ASSUME BrokerInv, Noted,
         \A l \in Loops : hand'[l] = hand[l] \/ hand'[l].pc \in {"off", "poll"},
         \A l \in Loops : batch'[l] = batch[l] \/ batch'[l] = << >>,
         topic' = topic \/ topic' = << >>,
         UNCHANGED <<driver, ownDead, published, dead, handled>>,
         loose' \in [Messages -> Nat], \A m \in Messages : loose'[m] <= loose[m],
         \A p \in Spots : Here(p) /\ ~Here(p)' => What(p).m \in cut'
  PROVE  SpotsInv'
<1>0. BrokerTypes /\ SpotsInv
  BY DEF BrokerInv
<1>1. tries' = tries
  BY <1>0, TriesFacts DEF B!Failing, B!At
<1>2. ASSUME NEW p \in Spots, Here(p)'
      PROVE  Here(p) /\ What(p)' = What(p) /\ tries'[What(p).m] >= Failed(p)'
  BY <1>2, <1>0, <1>1 DEF Here, What, Failed, Spots, SpotsInv
<1>3. \A m \in Messages :
        /\ handled'[m] >= handled[m] /\ dead'[m] >= dead[m] /\ handled'[m] = handled[m]
        /\ handled'[m] > 0 \/ loose'[m] > 0 => m \in published
        /\ ~ownDead /\ dead'[m] > 0 => dead[m] > 0
  BY <1>0 DEF BrokerTypes, SpotsInv
<1>4. handled' \in [Messages -> Nat] /\ dead' \in [Messages -> Nat]
  BY <1>0 DEF BrokerTypes
<1> QED
  BY <1>2, <1>3, <1>4, SpotsStay

LEMMA LateHandlerEndsKeeps ==
  ASSUME BrokerInv, Noted, NEW m \in Messages, B!LateHandlerEnds(m)
  PROVE  BrokerInv'
<1>0. BrokerTypes /\ LoopsInv /\ CutsInv /\ SpotsInv
  BY DEF BrokerInv
<1>1. /\ loose[m] > 0 /\ loose' = [loose EXCEPT ![m] = loose[m] - 1]
      /\ handled' = [handled EXCEPT ![m] = handled[m] + 1]
      /\ UNCHANGED <<driver, ownDead, published, topic, batch, hand, active, pending, dead,
                     connected, consuming, listeners, recovering, faults>>
  BY DEF B!LateHandlerEnds, B!Config, B!Connection
<1>2. /\ handled \in [Messages -> Nat] /\ loose \in [Messages -> Nat] /\ dead \in [Messages -> Nat]
      /\ m \in again /\ m \in again' /\ m \in published
  BY <1>0, <1>1 DEF BrokerTypes, SpotsInv, Noted
<1>3. /\ loose' \in [Messages -> Nat] /\ handled' \in [Messages -> Nat]
      /\ \A n \in Messages : handled'[n] >= handled[n] /\ loose'[n] <= loose[n]
      /\ \A n \in Messages : n # m => handled'[n] = handled[n]
  BY <1>1, <1>2
<1>4. tries' = tries
  BY <1>0, <1>1, TriesFacts DEF B!Failing, B!At
<1>5. BrokerTypes'
  BY <1>0, <1>1, <1>3, <1>4 DEF BrokerTypes
<1>6. LoopsInv'
  <2>1. \A l \in Loops : hand[l].pc = "ack" => handled'[hand[l].entry.m] > 0
    <3>1. \A l \in Loops : hand[l].pc = "ack" =>
            hand[l].entry.m \in Messages /\ handled[hand[l].entry.m] > 0
      BY <1>0 DEF LoopsInv, B!Entry
    <3> QED
      BY <1>2, <1>3, <3>1
  <2> QED
    BY <1>0, <1>1, <1>4, <2>1 DEF LoopsInv, Noted
<1>7. CutsInv'
  BY <1>0, <1>1 DEF CutsInv, Noted
<1>8. \A p \in Spots : (Here(p)' <=> Here(p)) /\ What(p)' = What(p) /\ Failed(p)' = Failed(p)
  BY <1>1 DEF Here, What, Failed
<1>9. \A n \in Messages : handled'[n] > 0 \/ loose'[n] > 0 => n \in published
  BY <1>0, <1>2, <1>3 DEF SpotsInv
<1>10. \A p \in Spots : Here(p)' =>
         Here(p) /\ What(p)' = What(p) /\ tries'[What(p).m] >= Failed(p)'
  BY <1>0, <1>4, <1>8 DEF SpotsInv
<1>11. SpotsInv'
  BY <1>1, <1>2, <1>3, <1>8, <1>9, <1>10, SpotsStay
<1> QED
  BY <1>5, <1>6, <1>7, <1>11 DEF BrokerInv

\* A recovery, and a loop that leaves.
LEMMA RecoverKeeps ==
  ASSUME BrokerInv, Noted, NEW l \in Loops, B!Retire(l) \/ B!Recover(l) \/ B!RecoveryFails
  PROVE  BrokerInv'
<1>0. BrokerTypes /\ LoopsInv /\ CutsInv /\ SpotsInv
  BY DEF BrokerInv
<1>1. /\ \/ hand' = hand
         \/ hand[l].pc \in {"off", "poll"} /\ driver = "redis" /\ hand' = [hand EXCEPT ![l] = B!Off]
         \/ hand[l].pc \in {"off", "poll"} /\ driver = "redis" /\ hand' = [hand EXCEPT ![l] = B!Polling]
      /\ faults' = faults \/ (faults > 0 /\ faults' = faults - 1)
      /\ recovering' = recovering \/ (recovering > 0 /\ recovering' = recovering - 1)
      /\ listeners' = listeners \/ listeners' = listeners + 1
      /\ active' = active \/ active' = {l}
      /\ UNCHANGED <<driver, ownDead, published, topic, batch, pending, dead, handled, loose, consuming>>
      /\ connected' = connected \/ connected' = TRUE
  BY DEF B!Retire, B!Recover, B!RecoveryFails, B!Redis, B!At, B!Config, B!Connection, B!Fault
<1>2. B!Off \in Hands /\ B!Polling \in Hands /\ B!Off.pc = "off" /\ B!Polling.pc = "poll"
      /\ B!Off.entry = B!Nothing /\ B!Polling.entry = B!Nothing
  BY DEF B!Off, B!Polling, Hands
<1>3. /\ hand' \in [Loops -> Hands]
      /\ \A k \in Loops : \/ hand'[k] = hand[k]
                          \/ /\ hand[k].pc \in {"off", "poll"} /\ hand'[k].pc \in {"off", "poll"}
                             /\ hand'[k].entry = B!Nothing /\ driver = "redis"
  BY <1>0, <1>1, <1>2 DEF BrokerTypes
<1>4. tries' = tries
  BY <1>0, <1>3, TriesFacts DEF B!Failing, B!At
<1>5. BrokerTypes'
  <2>0. /\ MaxCuts \in Nat /\ faults \in 0..MaxCuts /\ recovering \in Nat /\ listeners \in Nat
        /\ connected \in BOOLEAN /\ active \subseteq Loops
    BY <1>0, PlatformConstants DEF BrokerTypes
  <2>1. faults' \in 0..MaxCuts
    BY <1>1, <2>0
  <2>2. recovering' \in Nat
    BY <1>1, <2>0
  <2>3. listeners' \in Nat
    BY <1>1, <2>0
  <2>4. connected' \in BOOLEAN /\ active' \subseteq Loops
    BY <1>1, <2>0
  <2> QED
    BY <1>0, <1>1, <1>3, <1>4, <2>1, <2>2, <2>3, <2>4 DEF BrokerTypes
<1>6. LoopsInv'
  BY <1>0, <1>1, <1>3, <1>4 DEF LoopsInv, Noted
<1>7. CutsInv'
  <2>1. CASE B!Retire(l)
    BY <2>1, <1>0, <1>1 DEF B!Retire, B!Connection, CutsInv, Noted
  <2>2. CASE B!Recover(l)
    BY <1>0, <1>2, <2>2, <1>1 DEF B!Recover, B!Redis, BrokerTypes, CutsInv, Noted
  <2>3. CASE B!RecoveryFails
    BY <2>3, <1>0, <1>1 DEF B!RecoveryFails, CutsInv, Noted
  <2> QED
    BY <2>1, <2>2, <2>3
<1>8. \A p \in Spots : Here(p) => Here(p)'
  BY <1>1, <1>3 DEF Spots, Here
<1>9. SpotsInv'
  BY <1>0, <1>1, <1>3, <1>8, SpotsDropped DEF BrokerTypes
<1> QED
  BY <1>5, <1>6, <1>7, <1>9 DEF BrokerInv

LEMMA LoopShapes ==
  /\ B!Off \in Hands /\ B!Polling \in Hands /\ B!Off.pc = "off" /\ B!Polling.pc = "poll"
  /\ B!Off.entry = B!Nothing /\ B!Polling.entry = B!Nothing
  /\ B!First \in Loops
BY PlatformConstants DEF B!First, B!Off, B!Polling, Hands

\* A fault of Redis or NATS.
Struck ==
  /\ driver # "rabbitmq" /\ faults > 0 /\ faults' = faults - 1
  /\ hand' \in [Loops -> Hands] /\ batch' \in [Loops -> Seq(B!Entry)]
  /\ \A l \in Loops :
       /\ hand'[l] = hand[l] \/ hand'[l] = B!Off \/ (driver = "redis" /\ hand'[l] = B!Polling)
       /\ batch'[l] = batch[l] \/ batch'[l] = << >>
       /\ hand'[l] # hand[l] => batch'[l] = << >>
       /\ driver = "redis" /\ hand'[l] = hand[l] => batch'[l] = batch[l]
  /\ topic' = topic \/ (driver = "nats" /\ topic' = << >>)
  /\ UNCHANGED <<driver, ownDead, published, dead, handled>> /\ pending' \subseteq B!Entry
  /\ loose' = loose \/ loose' = [m \in Messages |-> 0]
  /\ active' \subseteq Loops /\ connected' \in BOOLEAN /\ consuming' \in BOOLEAN
  /\ listeners' \in Nat /\ recovering' \in Nat
  /\ driver = "redis" /\ connected' => \E l \in Loops : active' = {l} /\ hand'[l].pc # "off"
  /\ driver # "redis" /\ consuming' => connected'

LEMMA FaultKeeps ==
  ASSUME BrokerInv, Noted, Struck
  PROVE  BrokerInv'
<1>0. BrokerTypes /\ LoopsInv /\ CutsInv /\ SpotsInv
  BY DEF BrokerInv
<1>1. \A l \in Loops : hand'[l] = hand[l] \/ (hand'[l].pc \in {"off", "poll"} /\ hand'[l].entry = B!Nothing)
  BY DEF Struck, B!Off, B!Polling
<1>2. \A l \in Loops : ~B!Failing(l)
  BY <1>1 DEF B!Failing, B!At
<1>3. tries' = tries
  BY <1>0, <1>2, TriesFacts
<1>4. faults' < faults /\ faults' \in 0..MaxCuts
  BY <1>0, PlatformConstants DEF BrokerTypes, Struck
<1>5. loose' \in [Messages -> Nat] /\ \A m \in Messages : loose'[m] <= loose[m]
  BY <1>0 DEF BrokerTypes, Struck
<1>6. topic' \in Seq(B!Entry)
  BY <1>0, EmptySeq DEF Struck, BrokerTypes
<1>7. BrokerTypes'
  <2>1. /\ driver' = driver /\ ownDead' = ownDead /\ published' = published /\ dead' = dead
        /\ handled' = handled /\ pending' \subseteq B!Entry /\ hand' \in [Loops -> Hands]
        /\ batch' \in [Loops -> Seq(B!Entry)] /\ active' \subseteq Loops
        /\ connected' \in BOOLEAN /\ consuming' \in BOOLEAN /\ listeners' \in Nat /\ recovering' \in Nat
    BY Zenon DEF Struck
  <2>2. /\ driver \in {"redis", "rabbitmq", "nats"} /\ ownDead \in BOOLEAN /\ published \subseteq Messages
        /\ dead \in [Messages -> Nat] /\ handled \in [Messages -> Nat] /\ tries \in [Messages -> Nat]
    BY <1>0 DEF BrokerTypes
  <2>3. faults' \in 0..MaxCuts /\ tries' = tries /\ loose' \in [Messages -> Nat] /\ topic' \in Seq(B!Entry)
    BY <1>3, <1>4, <1>5, <1>6
  <2> HIDE DEF Hands
  <2> QED
    BY <2>1, <2>2, <2>3 DEF BrokerTypes
<1>8. LoopsInv'
  BY <1>0, LoopShapes, <1>1, <1>3 DEF LoopsInv, Struck
<1>9. CutsInv'
  BY <1>0 DEF CutsInv, Noted, Struck
<1>10. ASSUME NEW p \in Spots, Here(p), ~Here(p)'
       PROVE  What(p).m \in cut'
  BY <1>0, <1>10, <1>2, <1>4, Risked DEF Spots, BrokerTypes, Struck, Here
<1>11. SpotsInv'
  BY <1>1, <1>5, <1>10, SpotsDropped DEF Struck
<1> QED
  BY <1>7, <1>8, <1>9, <1>11 DEF BrokerInv

LEMMA ToSetFacts ==
  ASSUME NEW s \in Seq(B!Entry)
  PROVE  B!ToSet(s) \subseteq B!Entry
  BY DEF B!ToSet

\* A settlement fails under Redis, or the connection or the process under Redis or NATS.
LEMMA SettlementFailsKeeps ==
  ASSUME BrokerInv, Noted, NEW l \in Loops, B!SettlementFails(l), driver = "redis"
  PROVE  BrokerInv'
<1>0. BrokerTypes /\ LoopsInv
  BY DEF BrokerInv
<1>1. /\ hand[l].pc \in {"nack", "republish"} /\ faults > 0 /\ faults' = faults - 1
      /\ batch' = [batch EXCEPT ![l] = << >>] /\ hand' = [hand EXCEPT ![l] = B!Off]
      /\ recovering' = recovering + listeners /\ connected' = FALSE
      /\ UNCHANGED <<driver, ownDead, published, topic, active, dead, handled, loose, consuming, listeners>>
      /\ pending' \subseteq pending \cup B!ToSet(batch[l]) \cup {hand[l].entry}
  BY DEF B!SettlementFails, B!Redis, B!Fault, B!Config
<1>2. /\ hand \in [Loops -> Hands] /\ batch \in [Loops -> Seq(B!Entry)] /\ batch[l] \in Seq(B!Entry)
      /\ listeners \in Nat /\ recovering \in Nat /\ consuming \in BOOLEAN /\ active \subseteq Loops
      /\ pending \subseteq B!Entry
  BY <1>0 DEF BrokerTypes
<1>3. hand' \in [Loops -> Hands] /\ batch' \in [Loops -> Seq(B!Entry)]
      /\ hand'[l].pc = "off" /\ hand'[l] = B!Off /\ batch'[l] = << >>
      /\ \A k \in Loops : k # l => hand'[k] = hand[k] /\ batch'[k] = batch[k]
  BY <1>1, <1>2, LoopShapes
<1>4. \A k \in Loops :
        /\ hand'[k] = hand[k] \/ hand'[k] = B!Off
        /\ batch'[k] = batch[k] \/ batch'[k] = << >>
        /\ hand'[k] # hand[k] => batch'[k] = << >>
        /\ hand'[k] = hand[k] => batch'[k] = batch[k]
  BY <1>1, <1>3
<1>5. pending' \subseteq B!Entry
  BY <1>0, <1>1, <1>2, ToSetFacts DEF LoopsInv
<1>6. ~connected' /\ connected' \in BOOLEAN /\ listeners' \in Nat /\ recovering' \in Nat
      /\ active' \subseteq Loops /\ consuming' \in BOOLEAN
  <2>1. recovering' = recovering + listeners /\ connected' = FALSE /\ UNCHANGED <<active, consuming, listeners>>
    BY <1>1
  <2>2. ~connected' /\ connected' \in BOOLEAN /\ active' \subseteq Loops /\ consuming' \in BOOLEAN
    BY <1>2, <2>1, Zenon
  <2>3. listeners' \in Nat /\ recovering' \in Nat
    BY <1>2, <2>1
  <2> QED
    BY <2>2, <2>3
<1>7. Struck
  BY <1>1, <1>3, <1>4, <1>5, <1>6 DEF Struck
<1> QED
  BY <1>7, FaultKeeps

LEMMA DisconnectKeeps ==
  ASSUME BrokerInv, Noted, NEW l \in Loops, B!Disconnect(l), driver # "rabbitmq"
  PROVE  BrokerInv'
<1>0. BrokerTypes /\ LoopsInv
  BY DEF BrokerInv
<1>1. /\ \/ driver = "redis" /\ hand[l].pc = "poll" /\ hand' = [hand EXCEPT ![l] = B!Off]
            /\ UNCHANGED <<topic, consuming, loose>>
         \/ driver = "nats" /\ consuming' = FALSE /\ topic' = << >> /\ UNCHANGED <<hand, loose>>
      /\ faults > 0 /\ faults' = faults - 1
      /\ connected' = FALSE /\ recovering' = recovering + listeners
      /\ UNCHANGED <<driver, ownDead, published, batch, active, pending, dead, handled, listeners>>
  BY <1>0 DEF B!Disconnect, B!Redis, B!Fault, B!Config, B!At, BrokerTypes
<1>2. /\ hand \in [Loops -> Hands] /\ batch \in [Loops -> Seq(B!Entry)] /\ consuming' \in BOOLEAN
      /\ listeners \in Nat /\ recovering \in Nat /\ active \subseteq Loops /\ pending \subseteq B!Entry
      /\ \A k \in Loops : hand[k].pc = "poll" => batch[k] = << >>
  BY <1>0, <1>1 DEF BrokerTypes, LoopsInv
<1>3. /\ hand' \in [Loops -> Hands]
      /\ \A k \in Loops : hand'[k] = hand[k] \/ (hand'[k] = B!Off /\ batch[k] = << >>)
  BY <1>1, <1>2, LoopShapes
<1>4. /\ ~connected' /\ connected' \in BOOLEAN /\ listeners' \in Nat /\ recovering' \in Nat
      /\ active' \subseteq Loops /\ pending' \subseteq B!Entry /\ consuming' \in BOOLEAN
      /\ driver # "redis" => ~consuming'
  <2>1. /\ recovering' = recovering + listeners /\ connected' = FALSE /\ UNCHANGED <<active, pending, listeners>>
        /\ driver # "redis" => consuming' = FALSE
    BY <1>1
  <2>2. /\ ~connected' /\ connected' \in BOOLEAN /\ active' \subseteq Loops /\ pending' \subseteq B!Entry
        /\ driver # "redis" => ~consuming'
    BY <1>2, <2>1, Zenon
  <2>3. listeners' \in Nat /\ recovering' \in Nat
    BY <1>2, <2>1
  <2> QED
    BY <1>2, <2>2, <2>3
<1>5. /\ driver # "rabbitmq" /\ (topic' = topic \/ (driver = "nats" /\ topic' = << >>))
      /\ batch' = batch /\ loose' = loose
  BY <1>1
<1>6. batch' \in [Loops -> Seq(B!Entry)]
  BY <1>2, <1>5
<1>7. \A k \in Loops :
        /\ hand'[k] = hand[k] \/ hand'[k] = B!Off
        /\ batch'[k] = batch[k] /\ hand'[k] # hand[k] => batch'[k] = << >>
  BY <1>3, <1>5
<1>8. Struck
  BY <1>1, <1>3, <1>4, <1>5, <1>6, <1>7 DEF Struck
<1> QED
  BY <1>8, FaultKeeps

LEMMA CrashKeeps ==
  ASSUME BrokerInv, Noted, B!Crash, driver # "rabbitmq"
  PROVE  BrokerInv'
<1>0. BrokerTypes /\ LoopsInv
  BY DEF BrokerInv
<1>1. /\ hand' = [l \in Loops |-> IF driver = "redis" /\ l = B!First THEN B!Polling ELSE B!Off]
      /\ active' = IF driver = "redis" THEN {B!First} ELSE {}
      /\ batch' = [l \in Loops |-> << >>] /\ loose' = [m \in Messages |-> 0]
      /\ connected' = TRUE /\ consuming' = TRUE /\ listeners' = 1 /\ recovering' = 0
      /\ faults > 0 /\ faults' = faults - 1 /\ topic' = topic
      /\ pending' = IF driver = "redis"
                    THEN pending \cup B!Held \cup UNION {B!ToSet(batch[l]) : l \in Loops}
                    ELSE pending
      /\ UNCHANGED <<driver, ownDead, published, dead, handled>>
  BY DEF B!Crash, B!Subscribed, B!Redis, B!Fault, B!Config
<1>2. hand' \in [Loops -> Hands] /\ batch' \in [Loops -> Seq(B!Entry)]
  BY <1>1, LoopShapes
<1>3. \A l \in Loops :
        /\ hand'[l] = B!Off \/ (driver = "redis" /\ hand'[l] = B!Polling)
        /\ batch'[l] = << >>
        /\ driver = "redis" /\ hand'[l] = hand[l] => batch[l] = << >>
  BY <1>0, <1>1, LoopShapes DEF LoopsInv
<1>4. pending' \subseteq B!Entry
  BY <1>0, ToSetFacts, <1>1 DEF B!Held, B!Unsettled, LoopsInv, BrokerTypes
<1>5. /\ active' \subseteq Loops
      /\ driver = "redis" => \E l \in Loops : active' = {l} /\ hand'[l].pc # "off"
  BY <1>1, LoopShapes
<1>6. connected' \in BOOLEAN /\ consuming' \in BOOLEAN /\ listeners' \in Nat /\ recovering' \in Nat
  BY <1>1
<1>7. Struck
  BY <1>1, <1>2, <1>3, <1>4, <1>5, <1>6 DEF Struck
<1> QED
  BY <1>7, FaultKeeps

\* Loop l takes the first k entries of the topic.
TakenBy(l, k) ==
  /\ k \in 1..Len(topic) /\ hand[l].pc \in {"off", "poll"}
  /\ hand' = [hand EXCEPT ![l] = [pc |-> "handle", entry |-> topic[1]]]
  /\ batch' = [batch EXCEPT ![l] = SubSeq(topic, 2, k)]
  /\ topic' = SubSeq(topic, k + 1, Len(topic))
  /\ driver # "redis" => k = 1 /\ consuming
  /\ UNCHANGED <<driver, ownDead, published, active, pending, dead, handled, loose,
                 connected, consuming, listeners, recovering, faults>>

LEMMA TakenSteps ==
  ASSUME BrokerInv, NEW l \in Loops, B!Poll(l) \/ B!Deliver(l)
  PROVE  \E k \in Nat : TakenBy(l, k)
<1>0. /\ topic \in Seq(B!Entry) /\ batch \in [Loops -> Seq(B!Entry)]
      /\ hand[l].pc \in {"off", "poll"} => batch[l] = << >>
      /\ MaxBatch \in Nat \ {0}
  BY PlatformConstants DEF BrokerInv, BrokerTypes, LoopsInv
<1>1. CASE B!Poll(l)
  <2>1. PICK k \in Nat : k = IF Len(topic) < MaxBatch THEN Len(topic) ELSE MaxBatch
    BY <1>0
  <2>2. topic # << >> /\ k \in 1..Len(topic) /\ Head(topic) = topic[1]
    BY <1>0, <1>1, <2>1 DEF B!Poll
  <2>3. TakenBy(l, k)
    BY <1>1, <2>1, <2>2 DEF B!Poll, B!Redis, B!At, B!Config, B!Connection, TakenBy
  <2> QED
    BY <2>3
<1>2. CASE B!Deliver(l)
  BY <1>0, <1>2 DEF B!Deliver, B!At, B!Redis, B!Config, B!Connection, TakenBy
<1> QED
  BY <1>1, <1>2

LEMMA TakenKeeps ==
  ASSUME BrokerInv, Noted, NEW l \in Loops, NEW k \in Nat, TakenBy(l, k)
  PROVE  BrokerInv'
<1>0. BrokerTypes /\ LoopsInv /\ CutsInv /\ SpotsInv
  BY DEF BrokerInv
<1>1. /\ topic \in Seq(B!Entry) /\ batch \in [Loops -> Seq(B!Entry)] /\ hand \in [Loops -> Hands]
      /\ k \in 1..Len(topic) /\ hand[l].pc \in {"off", "poll"} /\ batch[l] = << >>
      /\ Len(topic) \in Nat /\ \A i \in 1..Len(topic) : topic[i] \in B!Entry
  BY <1>0 DEF BrokerTypes, LoopsInv, TakenBy
<1>2. PICK b : b = SubSeq(topic, 2, k)
  OBVIOUS
<1>3. b \in Seq(B!Entry) /\ Len(b) = k - 1 /\ \A i \in 1..(k - 1) : b[i] = topic[i + 1]
  BY <1>1, <1>2
<1>4. /\ topic' \in Seq(B!Entry) /\ Len(topic') = Len(topic) - k
      /\ \A i \in 1..Len(topic') : topic'[i] = topic[i + k]
  BY <1>1 DEF TakenBy
<1>5. PICK h : h = [pc |-> "handle", entry |-> topic[1]]
  OBVIOUS
<1>6. h \in Hands /\ h.pc = "handle" /\ h.entry = topic[1] /\ topic[1] \in B!Entry
  BY <1>1, <1>5 DEF Hands
<1>7. /\ hand' \in [Loops -> Hands] /\ hand'[l] = h /\ \A j \in Loops : j # l => hand'[j] = hand[j]
      /\ batch' \in [Loops -> Seq(B!Entry)] /\ batch'[l] = b
      /\ \A j \in Loops : j # l => batch'[j] = batch[j]
  BY <1>2, <1>5, <1>1, <1>3, <1>6 DEF TakenBy
<1>8. tries' = tries
  BY <1>6, <1>7, <1>0, TriesFacts DEF B!Failing, B!At, LoopsInv
<1>9. /\ UNCHANGED <<driver, ownDead, published, active, pending, dead, handled, loose,
                     connected, consuming, listeners, recovering, faults>>
      /\ driver # "redis" => k = 1 /\ consuming
  BY DEF TakenBy
<1>10. BrokerTypes'
  <2> HIDE DEF Hands
  <2> QED
    BY <1>0, <1>4, <1>7, <1>8, <1>9 DEF BrokerTypes
<1>11. LoopsInv'
  <2>1. k = 1 => b = << >>
    BY <1>3
  <2> QED
    BY <1>0, <1>6, <1>7, <1>8, <1>9, <2>1 DEF LoopsInv, Noted
<1>12. CutsInv'
  BY <1>0, <1>6, <1>7, <1>9 DEF CutsInv, Noted
<1>13. PICK back \in [Spots -> Spots] :
         back = [p \in Spots |-> IF p[1] = None THEN <<None, p[2] + k>>
                                 ELSE IF p[1] = l THEN <<None, p[2] + 1>> ELSE p]
  <2>1. \A p \in Spots : <<None, p[2] + k>> \in Spots /\ <<None, p[2] + 1>> \in Spots
    BY DEF Spots
  <2> QED
    BY <2>1
<1>14. None \notin Loops /\ \A p \in Spots : p = <<p[1], p[2]>> /\ p[2] \in Nat /\ (p[1] # None => p[1] \in Loops)
  BY PlatformConstants DEF Spots
<1>15. ASSUME NEW p \in Spots, Here(p)'
       PROVE  /\ Here(back[p]) /\ What(back[p]) = What(p)' /\ Failed(p)' = Failed(back[p])
              /\ p[1] = l => p[2] < k
  <2>1. CASE p[1] = None
    BY <1>13, <1>15, <2>1, <1>1, <1>4, <1>14 DEF Here, What, Failed
  <2>2. CASE p[1] = l /\ p[2] = 0
    BY <1>13, <1>14, <2>2, <1>1, <1>6, <1>7 DEF Here, What, Failed
  <2>3. CASE p[1] = l /\ p[2] # 0
    BY <1>3, <1>7, <1>13, <1>14, <1>15, <2>3, <1>1 DEF Here, What, Failed
  <2>4. CASE p[1] # None /\ p[1] # l
    BY <1>13, <2>4, <1>7, <1>14, <1>15 DEF Here, What, Failed
  <2> QED
    BY <2>1, <2>2, <2>3, <2>4
<1>16. ASSUME NEW p \in Spots, NEW q \in Spots, Here(p)', Here(q)', back[p] = back[q]
       PROVE  p = q
  <2>1. p[1] = None => p[2] >= 1 /\ back[p] = <<None, p[2] + k>>
    BY <1>13, <1>16 DEF Here
  <2>2. q[1] = None => q[2] >= 1 /\ back[q] = <<None, q[2] + k>>
    BY <1>13, <1>16 DEF Here
  <2>3. /\ p[1] = l => p[2] < k /\ back[p] = <<None, p[2] + 1>>
        /\ q[1] = l => q[2] < k /\ back[q] = <<None, q[2] + 1>>
    BY <1>13, <1>14, <1>15, <1>16
  <2>4. /\ p[1] \notin {None, l} => back[p] = p
        /\ q[1] \notin {None, l} => back[q] = q
    BY <1>13
  <2> QED
    BY <1>14, <1>16, <2>1, <2>2, <2>3, <2>4
<1>17. ASSUME NEW p \in Spots, Here(p)
       PROVE  \E q \in Spots : Here(q)' /\ What(q)'.m = What(p).m
  <2>1. CASE p[1] = None /\ p[2] = 1
    <3>1. <<l, 0>> \in Spots /\ Here(<<l, 0>>)' /\ What(<<l, 0>>)' = What(p)
      BY <1>6, <1>7, <1>14, <2>1 DEF Spots, Here, What
    <3> QED
      BY <3>1
  <2>2. CASE p[1] = None /\ p[2] # 1 /\ p[2] <= k
    <3>1. <<l, p[2] - 1>> \in Spots /\ p[2] - 1 \in 1..(k - 1) /\ p[2] - 1 # 0
      BY <1>14, <1>17, <2>2 DEF Spots, Here
    <3>2. Here(<<l, p[2] - 1>>)' /\ What(<<l, p[2] - 1>>)' = What(p)
      BY <1>1, <1>3, <1>7, <1>14, <2>2, <3>1 DEF Here, What
    <3> QED
      BY <3>1, <3>2
  <2>3. CASE p[1] = None /\ p[2] > k
    <3>1. <<None, p[2] - k>> \in Spots /\ p[2] - k \in 1..(Len(topic) - k)
      BY <1>1, <1>14, <1>17, <2>3 DEF Spots, Here
    <3>2. Here(<<None, p[2] - k>>)' /\ What(<<None, p[2] - k>>)' = What(p)
      BY <1>1, <1>4, <1>14, <2>3, <3>1 DEF Here, What
    <3> QED
      BY <3>1, <3>2
  <2>4. CASE p[1] = l
    BY <1>1, <1>14, <2>4, <1>17 DEF Here
  <2>5. CASE p[1] # None /\ p[1] # l
    BY <1>7, <1>14, <1>17, <2>5 DEF Here, What
  <2> QED
    BY <1>14, <2>1, <2>2, <2>3, <2>4, <2>5
<1>18. \A p \in Spots : Here(p)' =>
         /\ What(p)' \in B!Entry /\ What(p)'.m \in published' /\ tries'[What(p)'.m] >= Failed(p)'
         /\ Here(back[p]) /\ What(back[p]).m = What(p)'.m
  BY <1>0, <1>8, <1>9, <1>15 DEF SpotsInv
<1>19. \A m \in Messages :
         /\ handled'[m] >= handled[m] /\ dead'[m] >= dead[m] /\ handled'[m] = handled[m]
         /\ handled'[m] > 0 \/ loose'[m] > 0 => m \in published'
         /\ dead'[m] > 0 => dead[m] > 0
  BY <1>0, <1>9 DEF BrokerTypes, SpotsInv
<1>20. SpotsInv'
  BY <1>0, <1>9, <1>16, <1>17, <1>18, <1>19, SpotsStep DEF BrokerTypes
<1> QED
  BY <1>10, <1>11, <1>12, <1>20 DEF BrokerInv

\* Loop l is done with its entry: it sends it out again, dead-letters it, or neither.
Passed(l, what) ==
  /\ hand[l].pc \in {"ack", "republish"} /\ B!Proceed(l)
  /\ IF what = "sent"
     THEN /\ hand[l].pc = "republish" /\ hand[l].entry.n + 1 <= MaxRetries
          /\ topic' = Append(topic, [m |-> hand[l].entry.m, n |-> hand[l].entry.n + 1])
     ELSE topic' = topic
  /\ IF what = "dead"
     THEN /\ hand[l].pc = "republish" /\ ~(hand[l].entry.n + 1 <= MaxRetries)
          /\ dead' = [dead EXCEPT ![hand[l].entry.m] = @ + 1]
     ELSE dead' = dead
  /\ what = "none" /\ hand[l].pc = "republish" => hand[l].entry.m \in cut'
  /\ pending' \subseteq B!Entry
  /\ faults' = faults \/ (faults > 0 /\ faults' = faults - 1)
  /\ UNCHANGED <<driver, ownDead, published, active, handled, loose,
                 connected, consuming, listeners, recovering>>

LEMMA PassedSteps ==
  ASSUME BrokerInv, Noted, NEW l \in Loops,
         B!Ack(l) \/ B!Republish(l) \/ (B!SettlementFails(l) /\ driver # "redis")
  PROVE  \E what \in {"none", "sent", "dead"} : Passed(l, what)
<1>0. BrokerTypes /\ LoopsInv /\ CutsInv /\ SpotsInv
  BY DEF BrokerInv
<1>1. pending \subseteq B!Entry /\ (hand[l].pc = "ack" => hand[l].entry \in B!Entry)
  BY <1>0 DEF BrokerTypes, LoopsInv
<1>2. hand[l].pc = "republish" => hand[l].entry.m \in published
  <2>1. <<l, 0>> \in Spots /\ l # None
    BY PlatformConstants DEF Spots
  <2>2. hand[l].pc = "republish" => Here(<<l, 0>>) /\ What(<<l, 0>>) = hand[l].entry
    BY <2>1 DEF Here, What
  <2> QED
    BY <1>0, <2>1, <2>2 DEF SpotsInv
<1>3. CASE B!Ack(l)
  BY <1>1, <1>3 DEF B!Ack, B!Fault, B!At, B!Config, B!Connection, Passed
<1>4. CASE B!Republish(l)
  <2>1. /\ hand[l].pc = "republish" /\ B!Proceed(l) /\ pending' \subseteq B!Entry
        /\ UNCHANGED <<driver, ownDead, published, active, handled, loose, faults,
                       connected, consuming, listeners, recovering>>
    BY <1>1, <1>4 DEF B!Republish, B!At, B!Config, B!Connection
  <2>2. driver # "redis" /\ ~connected => hand[l].entry.m \in cut'
    BY <1>0, <2>1, <1>2 DEF CutsInv, LoopsInv, BrokerTypes, Noted
  <2>3. driver = "nats" /\ ~consuming => hand[l].entry.m \in cut'
    BY <1>0, <1>2, <2>1 DEF CutsInv, Noted
  <2>4. CASE driver # "redis" /\ ~connected
    BY <1>4, <2>4, <2>1, <2>2 DEF B!Republish, B!Redis, Passed
  <2>5. CASE ~(driver # "redis" /\ ~connected) /\ hand[l].entry.n + 1 <= MaxRetries
    BY <1>4, <2>5, <2>1, <2>3 DEF B!Republish, B!Redis, B!Retried, B!Sent, Passed
  <2>6. CASE ~(driver # "redis" /\ ~connected) /\ ~(hand[l].entry.n + 1 <= MaxRetries)
    BY <1>4, <2>6, <2>1 DEF B!Republish, B!Redis, B!Retried, Passed
  <2> QED
    BY <2>4, <2>5, <2>6
<1>5. CASE B!SettlementFails(l) /\ driver # "redis"
  <2>1. /\ hand[l].pc = "republish" /\ B!Proceed(l) /\ faults > 0 /\ faults' = faults - 1
        /\ UNCHANGED <<driver, ownDead, published, topic, active, pending, dead, handled, loose,
                       connected, consuming, listeners, recovering>>
    BY <1>5 DEF B!SettlementFails, B!Redis, B!Fault, B!At, B!Config
  <2>2. \A j \in Loops : ~B!Failing(j)
    BY <2>1, <1>0 DEF B!Failing, B!At, B!Proceed, BrokerTypes
  <2>3. hand[l].entry.m \in cut'
    <3>1. <<l, 0>> \in Spots /\ l # None /\ <<l, 0>>[1] = l /\ <<l, 0>>[2] = 0
      BY PlatformConstants DEF Spots
    <3>2. Here(<<l, 0>>) /\ What(<<l, 0>>) = hand[l].entry
      BY <2>1, <3>1 DEF Here, What
    <3>3. faults' < faults
      BY <1>0, <2>1 DEF BrokerTypes
    <3>4. driver = "nats" \/ driver = "rabbitmq"
      BY <1>0, <1>5 DEF BrokerTypes
    <3>5. What(<<l, 0>>).m \in cut'
      BY <2>1, <2>2, <3>1, <3>2, <3>3, <3>4, Risked
    <3> QED
      BY <3>2, <3>5
  <2>4. Passed(l, "none")
    BY <1>1, <2>1, <2>3 DEF Passed
  <2> QED
    BY <2>4
<1> QED
  BY <1>3, <1>4, <1>5

LEMMA PassedKeeps ==
  ASSUME BrokerInv, Noted, NEW l \in Loops, NEW what \in {"none", "sent", "dead"}, Passed(l, what)
  PROVE  BrokerInv'
<1>0. BrokerTypes /\ LoopsInv /\ CutsInv /\ SpotsInv
  BY DEF BrokerInv
<1>1. /\ hand \in [Loops -> Hands] /\ batch \in [Loops -> Seq(B!Entry)] /\ topic \in Seq(B!Entry)
      /\ hand[l].entry \in B!Entry /\ hand[l].pc \in {"ack", "republish"}
      /\ dead \in [Messages -> Nat] /\ MaxRetries \in Nat
  BY <1>0, PlatformConstants DEF BrokerTypes, LoopsInv, Passed
<1>2. PICK m, n : m = hand[l].entry.m /\ n = hand[l].entry.n /\ m \in Messages /\ n \in 0..MaxRetries
  BY <1>1 DEF B!Entry
<1>3. None \notin Loops /\ \A p \in Spots : p = <<p[1], p[2]>> /\ p[2] \in Nat /\ (p[1] # None => p[1] \in Loops)
  BY PlatformConstants DEF Spots
<1>4. /\ hand' \in [Loops -> Hands] /\ batch' \in [Loops -> Seq(B!Entry)]
      /\ \A j \in Loops : j # l => hand'[j] = hand[j] /\ batch'[j] = batch[j]
      /\ hand'[l].pc \in {"off", "poll", "handle"}
      /\ hand'[l].pc \in {"off", "poll"} <=> batch[l] = << >>
      /\ batch[l] = << >> => batch'[l] = << >> /\ hand'[l].entry = B!Nothing
                             /\ hand'[l].pc = IF driver = "redis" /\ l \in active THEN "poll" ELSE "off"
      /\ batch[l] # << >> => /\ hand'[l].entry = batch[l][1] /\ Len(batch[l]) >= 1
                             /\ Len(batch'[l]) = Len(batch[l]) - 1
                             /\ \A i \in 1..Len(batch'[l]) : batch'[l][i] = batch[l][i + 1]
  <2>1. CASE batch[l] = << >>
    BY <2>1, <1>1, LoopShapes DEF Passed, B!Proceed, B!Redis
  <2>2. CASE batch[l] # << >>
    <3>1. PICK h : h = [pc |-> "handle", entry |-> batch[l][1]]
      OBVIOUS
    <3>2. /\ Head(batch[l]) = batch[l][1] /\ Len(batch[l]) >= 1 /\ batch[l][1] \in B!Entry
          /\ Tail(batch[l]) \in Seq(B!Entry) /\ Len(Tail(batch[l])) = Len(batch[l]) - 1
          /\ \A i \in 1..Len(Tail(batch[l])) : Tail(batch[l])[i] = batch[l][i + 1]
      BY <1>1, <2>2
    <3>3. hand' = [hand EXCEPT ![l] = h] /\ batch' = [batch EXCEPT ![l] = Tail(batch[l])]
      BY <1>1, <2>2, <3>1, <3>2 DEF Passed, B!Proceed
    <3>4. h \in Hands /\ h.pc = "handle" /\ h.entry = batch[l][1]
      BY <3>1, <3>2 DEF Hands
    <3>5. hand'[l] = h /\ batch'[l] = Tail(batch[l]) /\ hand' \in [Loops -> Hands]
          /\ batch' \in [Loops -> Seq(B!Entry)]
          /\ \A j \in Loops : j # l => hand'[j] = hand[j] /\ batch'[j] = batch[j]
      BY <1>1, <3>2, <3>3, <3>4
    <3> QED
      BY <2>2, <3>2, <3>4, <3>5
  <2> QED
    BY <2>1, <2>2
<1>5. /\ IF what = "sent"
         THEN /\ hand[l].pc = "republish" /\ n + 1 <= MaxRetries
              /\ topic' = Append(topic, [m |-> m, n |-> n + 1])
         ELSE topic' = topic
      /\ IF what = "dead"
         THEN hand[l].pc = "republish" /\ ~(n + 1 <= MaxRetries) /\ dead' = [dead EXCEPT ![m] = dead[m] + 1]
         ELSE dead' = dead
      /\ what = "none" /\ hand[l].pc = "republish" => m \in cut'
      /\ pending' \subseteq B!Entry
      /\ faults' = faults \/ (faults > 0 /\ faults' = faults - 1)
      /\ UNCHANGED <<driver, ownDead, published, active, handled, loose,
                     connected, consuming, listeners, recovering>>
  BY <1>2 DEF Passed
<1>6. tries' = tries
  BY <1>1, <1>4, <1>0, TriesFacts DEF B!Failing, B!At
<1>7. /\ topic' \in Seq(B!Entry) /\ Len(topic) \in Nat
      /\ what # "sent" => topic' = topic
      /\ what = "sent" => /\ Len(topic') = Len(topic) + 1 /\ topic'[Len(topic) + 1].m = m
                          /\ topic'[Len(topic) + 1].n = n + 1 /\ topic'[Len(topic) + 1] \in B!Entry
                          /\ \A i \in 1..Len(topic) : topic'[i] = topic[i]
  <2>1. CASE what = "sent"
    <3>1. PICK e : e = [m |-> m, n |-> n + 1]
      OBVIOUS
    <3>2. e \in B!Entry /\ e.m = m /\ e.n = n + 1
      BY <1>1, <1>2, <1>5, <2>1, <3>1 DEF B!Entry
    <3>3. topic' = Append(topic, e)
      BY <1>5, <2>1, <3>1
    <3>4. /\ topic' \in Seq(B!Entry) /\ Len(topic) \in Nat /\ Len(topic') = Len(topic) + 1
          /\ topic'[Len(topic) + 1] = e /\ \A i \in 1..Len(topic) : topic'[i] = topic[i]
      BY <1>1, <3>2, <3>3
    <3> QED
      BY <2>1, <3>2, <3>4
  <2>2. CASE what # "sent"
    BY <1>1, <1>5, <2>2
  <2> QED
    BY <2>1, <2>2
<1>8. /\ dead' \in [Messages -> Nat] /\ \A x \in Messages : dead'[x] >= dead[x]
      /\ \A x \in Messages : x # m => dead'[x] = dead[x]
      /\ what = "dead" => dead'[m] > 0
  <2>1. CASE what = "dead"
    <3>1. m \in Messages /\ dead \in [Messages -> Nat] /\ dead' = [dead EXCEPT ![m] = dead[m] + 1]
      BY <1>1, <1>2, <1>5, <2>1
    <3> QED
      BY <2>1, <3>1
  <2>2. CASE what # "dead"
    BY <1>1, <1>5, <2>2
  <2> QED
    BY <2>1, <2>2
<1>9. faults' \in 0..MaxCuts
  BY <1>0, <1>5, PlatformConstants DEF BrokerTypes
<1>10. BrokerTypes'
  <2> HIDE DEF Hands
  <2> QED
    BY <1>0, <1>4, <1>5, <1>6, <1>7, <1>8, <1>9 DEF BrokerTypes
<1>11. LoopsInv'
  <2>1. ASSUME NEW j \in Loops, j = l
        PROVE  /\ hand'[j].pc # "ack"
               /\ IF hand'[j].pc \in {"off", "poll"} THEN hand'[j].entry = B!Nothing /\ batch'[j] = << >>
                  ELSE hand'[j].entry \in B!Entry
               /\ driver # "redis" => batch'[j] = << >> /\ hand'[j].pc = "off"
    BY <1>0, <1>1, <1>4, <2>1 DEF LoopsInv
  <2>2. ASSUME NEW j \in Loops, j # l
        PROVE  hand'[j] = hand[j] /\ batch'[j] = batch[j]
    BY <1>4, <2>2
  <2> QED
    BY <1>0, <1>5, <1>6, <2>1, <2>2 DEF LoopsInv, Noted
<1>12. CutsInv'
  BY <1>4, <1>0, <1>5 DEF CutsInv, Noted
<1>13. PICK back \in [Spots -> Spots] :
         back = [p \in Spots |-> IF p[1] = l THEN <<l, p[2] + 1>>
                                 ELSE IF p = <<None, Len(topic) + 1>> THEN <<l, 0>> ELSE p]
  <2>1. \A p \in Spots : <<l, p[2] + 1>> \in Spots /\ <<l, 0>> \in Spots
    BY DEF Spots
  <2> QED
    BY <2>1
<1>14. ASSUME NEW p \in Spots, Here(p)'
       PROVE  /\ Here(back[p]) /\ What(back[p]).m = What(p)'.m /\ Failed(p)' = Failed(back[p])
              /\ What(p)' \in B!Entry
  <2>1. CASE p[1] = l /\ p[2] = 0
    <3>1. back[p] = <<l, 1>> /\ batch[l] # << >> /\ hand'[l].pc = "handle"
      BY <1>3, <1>4, <1>13, <1>14, <2>1 DEF Here
    <3>2. What(p)' = batch[l][1] /\ What(back[p]) = batch[l][1] /\ batch[l][1] \in B!Entry
      BY <1>1, <1>3, <1>4, <2>1, <3>1 DEF What
    <3> QED
      BY <1>1, <1>3, <1>4, <2>1, <3>1, <3>2 DEF Here, Failed
  <2>2. CASE p[1] = l /\ p[2] # 0
    <3>1. back[p] = <<l, p[2] + 1>> /\ p[2] \in 1..Len(batch'[l]) /\ batch[l] # << >>
      BY <1>3, <1>4, <1>13, <1>14, <2>2 DEF Here
    <3>2. p[2] + 1 \in 1..Len(batch[l]) /\ p[2] + 1 # 0 /\ batch'[l][p[2]] = batch[l][p[2] + 1]
      BY <1>1, <1>4, <3>1
    <3>3. What(p)' = batch[l][p[2] + 1] /\ What(back[p]) = batch[l][p[2] + 1]
      BY <1>3, <2>2, <3>1, <3>2 DEF What
    <3> QED
      BY <1>1, <1>3, <2>2, <3>1, <3>2, <3>3 DEF Here, Failed
  <2>3. CASE p = <<None, Len(topic) + 1>>
    BY <1>3, <1>5, <1>7, <1>13, <1>14, <2>3, <1>2 DEF Here, What, Failed
  <2>4. CASE p[1] # l /\ p # <<None, Len(topic) + 1>>
    BY <1>13, <2>4, <1>3, <1>7, <1>14, <1>4, <1>0 DEF Here, What, Failed, SpotsInv
  <2> QED
    BY <2>1, <2>2, <2>3, <2>4
<1>15. \A p, q \in Spots : back[p] = back[q] => p = q
  <2>1. \A p \in Spots : /\ p[1] = l => back[p] = <<l, p[2] + 1>> /\ p = <<l, p[2]>>
                         /\ p = <<None, Len(topic) + 1>> => back[p] = <<l, 0>>
                         /\ p[1] # l /\ p # <<None, Len(topic) + 1>> => back[p] = p
    BY <1>3, <1>13
  <2>2. ASSUME NEW p \in Spots, NEW q \in Spots, back[p] = back[q]
        PROVE  p = q
    <3>1. CASE p[1] = l /\ q[1] = l
      <4>1. <<l, p[2] + 1>> = <<l, q[2] + 1>> /\ p[2] \in Nat /\ q[2] \in Nat
        BY <1>3, <2>1, <2>2, <3>1
      <4>2. p[2] = q[2]
        BY <4>1
      <4> QED
        BY <2>1, <3>1, <4>2
    <3>2. CASE p[1] = l /\ q[1] # l
      BY <1>3, <2>1, <2>2, <3>2
    <3>3. CASE p[1] # l /\ q[1] = l
      <4>1. back[p] = <<l, q[2] + 1>> /\ q[2] \in Nat
        BY <1>3, <2>1, <2>2, <3>3
      <4>2. back[p] = <<l, 0>> \/ back[p] = p
        BY <2>1, <3>3
      <4> QED
        BY <3>3, <4>1, <4>2
    <3>4. CASE p[1] # l /\ q[1] # l
      BY <1>3, <2>1, <2>2, <3>4
    <3> QED
      BY <3>1, <3>2, <3>3, <3>4
  <2> QED
    BY <2>2
<1>16. ASSUME NEW p \in Spots, Here(p)
       PROVE  \/ \E q \in Spots : Here(q)' /\ What(q)'.m = What(p).m
              \/ handled'[What(p).m] > 0 \/ dead'[What(p).m] > 0 \/ What(p).m \in cut'
  <2>1. CASE p[1] = l /\ p[2] = 0
    <3>1. hand[l].pc = "republish" /\ What(p).m = m
      BY <1>1, <1>2, <1>3, <1>16, <2>1 DEF Here, What
    <3>2. CASE what = "sent"
      <4>0. PICK x \in Nat : x = Len(topic) + 1
        BY <1>7
      <4>1. <<None, x>> \in Spots
        BY DEF Spots
      <4>2. Here(<<None, x>>)' /\ What(<<None, x>>)'.m = m
        BY <1>7, <3>2, <4>0 DEF Here, What
      <4> QED
        BY <3>1, <4>1, <4>2
    <3> QED
      BY <1>5, <1>8, <3>1, <3>2
  <2>2. CASE p[1] = l /\ p[2] # 0
    <3>1. p[2] \in 1..Len(batch[l]) /\ batch[l] # << >> /\ What(p) = batch[l][p[2]]
      BY <1>1, <1>3, <1>16, <2>2 DEF Here, What
    <3>2. CASE p[2] = 1
      <4>1. <<l, 0>> \in Spots /\ Here(<<l, 0>>)' /\ What(<<l, 0>>)' = What(p)
        BY <1>3, <1>4, <3>1, <3>2 DEF Spots, Here, What
      <4> QED
        BY <4>1
    <3>3. CASE p[2] # 1
      <4>1. <<l, p[2] - 1>> \in Spots /\ p[2] - 1 \in 1..Len(batch'[l]) /\ p[2] - 1 # 0
        BY <1>1, <1>3, <1>4, <3>1, <3>3 DEF Spots
      <4>2. batch'[l][p[2] - 1] = batch[l][p[2]]
        BY <1>4, <3>1, <4>1
      <4>3. Here(<<l, p[2] - 1>>)' /\ What(<<l, p[2] - 1>>)' = What(p)
        BY <1>3, <3>1, <4>1, <4>2 DEF Here, What
      <4> QED
        BY <4>1, <4>3
    <3> QED
      BY <3>2, <3>3
  <2>3. CASE p[1] = None
    BY <1>3, <1>7, <1>16, <2>3 DEF Here, What
  <2>4. CASE p[1] # None /\ p[1] # l
    BY <1>3, <1>4, <1>16, <2>4 DEF Here, What
  <2> QED
    BY <2>1, <2>2, <2>3, <2>4
<1>17. \A p \in Spots : Here(p)' =>
         /\ What(p)' \in B!Entry /\ What(p)'.m \in published' /\ tries'[What(p)'.m] >= Failed(p)'
         /\ Here(back[p]) /\ What(back[p]).m = What(p)'.m
  BY <1>0, <1>5, <1>6, <1>14 DEF SpotsInv
<1>18. what = "dead" => tries[m] > MaxRetries
  <2>1. what = "dead" => <<l, 0>> \in Spots /\ Here(<<l, 0>>) /\ What(<<l, 0>>).m = m
                         /\ Failed(<<l, 0>>) = n + 1 /\ n + 1 > MaxRetries
    BY <1>1, <1>2, <1>3, <1>5 DEF Spots, Here, What, Failed
  <2>2. what = "dead" => tries[m] >= n + 1
    BY <1>0, <2>1 DEF SpotsInv
  <2>3. tries[m] \in Nat
    BY <1>0, <1>2 DEF BrokerTypes
  <2> QED
    BY <1>1, <1>2, <2>1, <2>2, <2>3
<1>19. \A x \in Messages :
         /\ handled'[x] >= handled[x] /\ dead'[x] >= dead[x] /\ handled'[x] = handled[x]
         /\ handled'[x] > 0 \/ loose'[x] > 0 => x \in published'
         /\ ~ownDead /\ dead'[x] > 0 => dead[x] > 0 \/ tries[x] > MaxRetries
  BY <1>0, <1>5, <1>8, <1>18 DEF BrokerTypes, SpotsInv
<1>20. SpotsInv'
  <2>1. /\ published \subseteq published' /\ ownDead' = ownDead
        /\ handled' \in [Messages -> Nat] /\ loose' \in [Messages -> Nat]
        /\ \A x \in Messages : x \in published' => x \in published
    BY <1>0, <1>5 DEF BrokerTypes
  <2> QED
    BY <1>8, <1>15, <1>16, <1>17, <1>19, <2>1, SpotsStep
<1> QED
  BY <1>10, <1>11, <1>12, <1>20 DEF BrokerInv

\* RabbitMQ takes back what was not settled, ahead of the rest.
Requeue(front) ==
  /\ driver = "rabbitmq" /\ front \in Seq(B!Entry) /\ topic' = front \o topic
  /\ \A i \in 1..Len(front) : \E u \in B!Unsettled : front[i] = hand[u].entry
  /\ \A u \in B!Unsettled : \E i \in 1..Len(front) : front[i] = hand[u].entry
  /\ \A l \in Loops : /\ hand'[l] = B!Off \/ (hand'[l] = hand[l] /\ hand[l].pc = "republish")
                      /\ batch'[l] = << >>
  /\ hand' \in [Loops -> Hands] /\ batch' \in [Loops -> Seq(B!Entry)] /\ pending' = pending
  /\ UNCHANGED <<driver, ownDead, published, dead, handled>>
  /\ active' \subseteq Loops /\ connected' \in BOOLEAN /\ consuming' \in BOOLEAN
  /\ listeners' \in Nat /\ recovering' \in Nat /\ (consuming' => connected')
  /\ loose' \in [Messages -> Nat] /\ (\A m \in Messages : loose'[m] > 0 => m \in published)
  /\ faults > 0 /\ faults' = faults - 1

\* Every order of the unsettled deliveries holds each of them.
LEMMA RequeuedFacts ==
  ASSUME BrokerInv, topic' \in B!Requeued
  PROVE  \E front \in Seq(B!Entry) :
           /\ topic' = front \o topic
           /\ \A i \in 1..Len(front) : \E u \in B!Unsettled : front[i] = hand[u].entry
           /\ \A u \in B!Unsettled : \E i \in 1..Len(front) : front[i] = hand[u].entry
<1>0. LoopsInv
  BY DEF BrokerInv
<1>1. PICK order \in B!SetToSeqs(B!Unsettled) :
        topic' = [k \in DOMAIN order |-> hand[order[k]].entry] \o topic
  BY DEF B!Requeued
<1>2. \A X : B!Cardinality(X) = Cardinality(X)
  BY Zenon DEF Cardinality, B!Cardinality
<1>3. IsFiniteSet(B!Unsettled) /\ \A u \in B!Unsettled : hand[u].entry \in B!Entry
  BY <1>0, PlatformConstants, FS_Subset DEF B!Unsettled, LoopsInv
<1>4. PICK c \in Nat : c = Cardinality(B!Unsettled)
  BY <1>3, FS_CardinalityType
<1>5. order \in [1..c -> B!Unsettled] /\ \A i, j \in 1..c : i # j => order[i] # order[j]
  BY <1>1, <1>2, <1>4 DEF B!SetToSeqs
<1>6. \A u \in B!Unsettled : \E i \in 1..c : order[i] = u
  <2>1. IsFiniteSet(1..c) /\ Cardinality(1..c) = c
    BY <1>4, FS_Interval
  <2>2. order \in Injection(1..c, B!Unsettled)
    BY <1>5 DEF Injection, IsInjective
  <2> QED
    BY <1>3, <1>4, <2>1, <2>2, FS_Injection DEF Surjection
<1>7. PICK front : front = [k \in 1..c |-> hand[order[k]].entry]
  OBVIOUS
<1>8. front \in Seq(B!Entry) /\ Len(front) = c /\ \A i \in 1..c : front[i] = hand[order[i]].entry
  BY <1>3, <1>5, <1>7
<1>9. topic' = front \o topic
  BY <1>1, <1>5, <1>7
<1>10. /\ \A i \in 1..Len(front) : \E u \in B!Unsettled : front[i] = hand[u].entry
       /\ \A u \in B!Unsettled : \E i \in 1..Len(front) : front[i] = hand[u].entry
  BY <1>5, <1>6, <1>8
<1> QED
  BY <1>8, <1>9, <1>10

LEMMA RequeueKeeps ==
  ASSUME BrokerInv, Noted, NEW front \in Seq(B!Entry), Requeue(front)
  PROVE  BrokerInv'
<1>0. BrokerTypes /\ LoopsInv /\ CutsInv /\ SpotsInv
  BY DEF BrokerInv
<1>1. PICK k \in Nat : k = Len(front)
  OBVIOUS
<1>2. /\ topic \in Seq(B!Entry) /\ topic' \in Seq(B!Entry) /\ Len(topic) \in Nat
      /\ Len(topic') = k + Len(topic) /\ \A i \in 1..k : topic'[i] = front[i] /\ front[i] \in B!Entry
      /\ \A i \in (k + 1)..(k + Len(topic)) : topic'[i] = topic[i - k]
  BY <1>0, <1>1 DEF BrokerTypes, Requeue
<1>3. None \notin Loops /\ \A p \in Spots : p = <<p[1], p[2]>> /\ p[2] \in Nat /\ (p[1] # None => p[1] \in Loops)
  BY PlatformConstants DEF Spots
<1>4. \A l \in Loops : /\ (hand'[l] = hand[l] /\ hand[l].pc = "republish") \/ hand'[l] = B!Off
                       /\ batch[l] = << >> /\ batch'[l] = << >>
  BY <1>0 DEF LoopsInv, Requeue
<1>5. \A l \in Loops : ~B!Failing(l)
  BY <1>4, LoopShapes DEF B!Failing, B!At
<1>6. tries' = tries
  BY <1>0, <1>5, TriesFacts
<1>7. faults' < faults /\ faults' \in 0..MaxCuts
  BY <1>0, PlatformConstants DEF BrokerTypes, Requeue
<1>8. BrokerTypes'
  <2>1. /\ UNCHANGED <<driver, ownDead, published, dead, handled, pending>> /\ hand' \in [Loops -> Hands]
        /\ batch' \in [Loops -> Seq(B!Entry)] /\ active' \subseteq Loops
        /\ connected' \in BOOLEAN /\ consuming' \in BOOLEAN /\ listeners' \in Nat /\ recovering' \in Nat
        /\ loose' \in [Messages -> Nat]
    BY Zenon DEF Requeue
  <2> HIDE DEF Hands
  <2> QED
    BY <1>0, <1>2, <1>6, <1>7, <2>1 DEF BrokerTypes
<1>9. ASSUME NEW l \in Loops, hand[l].pc = "republish"
      PROVE  hand[l].entry.m \in cut'
  <2>1. <<l, 0>> \in Spots /\ <<l, 0>>[1] = l /\ <<l, 0>>[2] = 0 /\ l # None
    BY <1>3 DEF Spots
  <2>2. Here(<<l, 0>>) /\ What(<<l, 0>>) = hand[l].entry
    BY <1>9, <2>1 DEF Here, What
  <2>3. driver = "rabbitmq"
    BY DEF Requeue
  <2>4. What(<<l, 0>>).m \in cut'
    BY <1>5, <1>7, <1>9, <2>1, <2>2, <2>3, Risked
  <2> QED
    BY <2>2, <2>4
<1>10. LoopsInv'
  BY <1>0, <1>4, <1>9, LoopShapes DEF LoopsInv
<1>11. CutsInv'
  BY DEF Requeue, CutsInv
<1>12. ASSUME NEW u \in B!Unsettled
       PROVE  /\ hand[u].entry.m \in again' /\ hand[u].entry.m \in published
              /\ tries[hand[u].entry.m] >= hand[u].entry.n
  <2>1. u \in Loops /\ hand[u].pc \in {"handle", "ack", "nack"} /\ u # None
    BY <1>3 DEF B!Unsettled
  <2>2. hand[u].entry.m \in again'
    BY <1>7, <2>1 DEF Noted, Requeue
  <2>3. CASE hand[u].pc = "ack"
    BY <1>0, <2>1, <2>3, <2>2 DEF LoopsInv, SpotsInv, B!Entry
  <2>4. CASE hand[u].pc # "ack"
    <3>1. <<u, 0>> \in Spots /\ Here(<<u, 0>>) /\ What(<<u, 0>>) = hand[u].entry
      BY <2>1, <2>4 DEF Spots, Here, What
    <3>2. /\ Failed(<<u, 0>>) = hand[u].entry.n \/ Failed(<<u, 0>>) = hand[u].entry.n + 1
          /\ tries[hand[u].entry.m] >= Failed(<<u, 0>>) /\ hand[u].entry.m \in published
          /\ hand[u].entry \in B!Entry
      BY <1>0, <3>1 DEF SpotsInv, Failed
    <3>3. hand[u].entry.n \in Nat /\ tries[hand[u].entry.m] \in Nat
      BY <1>0, <3>2, PlatformConstants DEF BrokerTypes, B!Entry
    <3> QED
      BY <2>2, <3>2, <3>3
  <2> QED
    BY <2>3, <2>4
<1>13. PICK back \in [Spots -> Spots] :
         back = [p \in Spots |-> IF p[1] # None THEN p
                                 ELSE IF p[2] > k THEN <<None, p[2] - k>> ELSE <<None, 0>>]
  <2>1. \A p \in Spots : (p[2] > k => <<None, p[2] - k>> \in Spots) /\ <<None, 0>> \in Spots
    BY DEF Spots
  <2> QED
    BY <2>1
<1>14. ASSUME NEW p \in Spots, Here(p)'
       PROVE  /\ What(p)' \in B!Entry /\ What(p)'.m \in published /\ tries[What(p)'.m] >= Failed(p)'
              /\ What(p)'.m \notin again' => /\ Here(back[p]) /\ What(back[p]).m = What(p)'.m
                                             /\ p[1] = None => p[2] > k
  <2>1. CASE p[1] = None /\ p[2] <= k
    <3>1. p[2] \in 1..k /\ What(p)' = front[p[2]] /\ Failed(p)' = What(p)'.n
      BY <1>2, <1>14, <2>1 DEF Here, What, Failed
    <3>2. PICK u \in B!Unsettled : front[p[2]] = hand[u].entry
      BY <1>1, <3>1 DEF Requeue
    <3> QED
      BY <1>2, <1>12, <3>1, <3>2
  <2>2. CASE p[1] = None /\ p[2] > k
    <3>1. back[p] = <<None, p[2] - k>> /\ p[2] - k \in 1..Len(topic) /\ p[2] \in (k + 1)..(k + Len(topic))
      BY <1>2, <1>3, <1>13, <1>14, <2>2 DEF Here
    <3>2. /\ Here(back[p]) /\ What(back[p]) = What(p)' /\ Failed(p)' = Failed(back[p])
      BY <1>2, <1>3, <2>2, <3>1 DEF Here, What, Failed
    <3> QED
      BY <1>0, <2>2, <3>2 DEF SpotsInv
  <2>3. CASE p[1] # None
    BY <1>3, <1>13, <2>3, <1>4, <1>14, LoopShapes, <1>0 DEF Here, What, Failed, SpotsInv
  <2> QED
    BY <1>3, <2>1, <2>2, <2>3
<1>15. ASSUME NEW p \in Spots, NEW q \in Spots, Here(p)', Here(q)', What(p)'.m \notin again',
              back[p] = back[q]
       PROVE  p = q
  BY <1>13, <1>14, <1>15, <1>3
<1>16. ASSUME NEW p \in Spots, Here(p)
       PROVE  \/ \E q \in Spots : Here(q)' /\ What(q)'.m = What(p).m
              \/ What(p).m \in cut'
  <2>1. CASE p[1] = None
    <3>1. PICK x \in Nat : x = p[2] + k
      BY <1>3
    <3>2. <<None, x>> \in Spots /\ Here(<<None, x>>)' /\ What(<<None, x>>)' = What(p)
      BY <1>2, <1>3, <1>16, <2>1, <3>1 DEF Spots, Here, What
    <3> QED
      BY <3>2
  <2>2. CASE p[1] # None
    <3>1. p[1] \in Loops /\ p[2] = 0 /\ What(p) = hand[p[1]].entry
      BY <1>3, <1>4, <1>16, <2>2 DEF Here, What
    <3>2. CASE hand[p[1]].pc = "republish"
      BY <1>9, <3>1, <3>2
    <3>3. CASE hand[p[1]].pc # "republish"
      <4>1. p[1] \in B!Unsettled
        BY <1>16, <2>2, <3>1, <3>3 DEF Here, B!Unsettled
      <4>2. PICK i \in 1..k : front[i] = hand[p[1]].entry
        BY <1>1, <4>1 DEF Requeue
      <4>3. <<None, i>> \in Spots /\ Here(<<None, i>>)' /\ What(<<None, i>>)' = What(p)
        BY <1>2, <3>1, <4>2 DEF Spots, Here, What
      <4> QED
        BY <4>3
    <3> QED
      BY <3>2, <3>3
  <2> QED
    BY <2>1, <2>2
<1>17. /\ UNCHANGED <<published, ownDead, handled, dead>> /\ loose' \in [Messages -> Nat]
       /\ \A m \in Messages : loose'[m] > 0 => m \in published
  BY DEF Requeue
<1>18. \A m \in Messages :
         /\ handled'[m] >= handled[m] /\ dead'[m] >= dead[m] /\ handled'[m] = handled[m]
         /\ handled'[m] > 0 \/ loose'[m] > 0 => m \in published'
         /\ dead'[m] > 0 => dead[m] > 0
  BY <1>0, <1>17 DEF BrokerTypes, SpotsInv
<1>19. \A p \in Spots : Here(p)' =>
         /\ What(p)' \in B!Entry /\ What(p)'.m \in published' /\ tries'[What(p)'.m] >= Failed(p)'
         /\ What(p)'.m \notin again' => Here(back[p]) /\ What(back[p]).m = What(p)'.m
  BY <1>6, <1>14, <1>17
<1>20. SpotsInv'
  BY <1>0, <1>17, <1>15, <1>16, <1>18, <1>19, SpotsStep DEF BrokerTypes
<1> QED
  BY <1>8, <1>10, <1>11, <1>20 DEF BrokerInv

LEMMA TakenBackKeeps ==
  ASSUME BrokerInv, Noted, driver = "rabbitmq", (\E l \in Loops : B!Disconnect(l)) \/ B!Crash
  PROVE  BrokerInv'
<1>0. BrokerTypes /\ LoopsInv /\ CutsInv /\ SpotsInv
  BY DEF BrokerInv
<1>1. topic' \in B!Requeued
  BY DEF B!Disconnect, B!Crash, B!Redis
<1>2. PICK front \in Seq(B!Entry) :
        /\ topic' = front \o topic
        /\ \A i \in 1..Len(front) : \E u \in B!Unsettled : front[i] = hand[u].entry
        /\ \A u \in B!Unsettled : \E i \in 1..Len(front) : front[i] = hand[u].entry
  BY <1>1, RequeuedFacts
<1>3. /\ batch \in [Loops -> Seq(B!Entry)] /\ hand \in [Loops -> Hands] /\ \A l \in Loops : batch[l] = << >>
      /\ active \subseteq Loops /\ listeners \in Nat /\ recovering \in Nat
      /\ loose \in [Messages -> Nat] /\ \A m \in Messages : loose[m] > 0 => m \in published
  BY <1>0 DEF BrokerTypes, LoopsInv, SpotsInv
<1>4. CASE \E l \in Loops : B!Disconnect(l)
  <2>1. /\ consuming' = FALSE /\ connected' = FALSE /\ loose' = [m \in Messages |-> B!StillRunning(m)]
        /\ hand' = [k \in Loops |-> IF hand[k].pc = "republish" THEN hand[k] ELSE B!Off]
        /\ faults > 0 /\ faults' = faults - 1 /\ recovering' = recovering + listeners
        /\ UNCHANGED <<driver, ownDead, published, batch, active, pending, dead, handled, listeners>>
    BY <1>4 DEF B!Disconnect, B!Redis, B!Fault, B!Config, B!At
  <2>2. ASSUME NEW m \in Messages
        PROVE  B!StillRunning(m) \in Nat /\ (B!StillRunning(m) > 0 => m \in published)
    <3>1. PICK F : F = {l \in Loops : B!At(l, "handle") /\ hand[l].entry.m = m}
      OBVIOUS
    <3>2. \A X : B!Cardinality(X) = Cardinality(X)
      BY Zenon DEF Cardinality, B!Cardinality
    <3>3. B!StillRunning(m) = loose[m] + Cardinality(F)
      BY <3>1, <3>2 DEF B!StillRunning
    <3>4. IsFiniteSet(F) /\ Cardinality(F) \in Nat /\ (Cardinality(F) = 0 <=> F = {})
      BY <3>1, PlatformConstants, FS_Subset, FS_CardinalityType, FS_EmptySet
    <3>5. F # {} => m \in published
      <4>1. ASSUME NEW u \in F
            PROVE  m \in published
        <5>1. <<u, 0>> \in Spots /\ Here(<<u, 0>>) /\ What(<<u, 0>>).m = m
          BY <3>1, PlatformConstants DEF Spots, Here, What, B!At
        <5> QED
          BY <1>0, <5>1 DEF SpotsInv
      <4> QED
        BY <4>1
    <3>6. loose[m] \in Nat /\ (loose[m] > 0 => m \in published)
      BY <1>3
    <3> QED
      BY <3>3, <3>4, <3>5, <3>6
  <2>3. loose' \in [Messages -> Nat] /\ \A m \in Messages : loose'[m] > 0 => m \in published
    BY <2>1, <2>2
  <2>4. /\ hand' \in [Loops -> Hands] /\ batch' \in [Loops -> Seq(B!Entry)]
        /\ \A l \in Loops : /\ hand'[l] = B!Off \/ (hand'[l] = hand[l] /\ hand[l].pc = "republish")
                            /\ batch'[l] = << >>
    BY <1>3, <2>1, LoopShapes
  <2>5. recovering' \in Nat /\ listeners' \in Nat /\ active' \subseteq Loops
    BY <1>3, <2>1
  <2>6. connected' \in BOOLEAN /\ consuming' \in BOOLEAN /\ ~consuming'
    BY <2>1, Zenon
  <2>7. /\ faults > 0 /\ faults' = faults - 1 /\ pending' = pending
        /\ UNCHANGED <<driver, ownDead, published, dead, handled>>
    BY <2>1
  <2>8. Requeue(front)
    BY <1>2, <2>3, <2>4, <2>5, <2>6, <2>7 DEF Requeue
  <2> QED
    BY <2>8, RequeueKeeps
<1>5. CASE B!Crash
  <2>1. /\ hand' = [l \in Loops |-> B!Off] /\ active' = {} /\ loose' = [m \in Messages |-> 0]
        /\ batch' = [l \in Loops |-> << >>]
        /\ connected' = TRUE /\ consuming' = TRUE /\ listeners' = 1 /\ recovering' = 0
        /\ faults > 0 /\ faults' = faults - 1 /\ pending' = pending
        /\ UNCHANGED <<driver, ownDead, published, dead, handled>>
    BY <1>5 DEF B!Crash, B!Subscribed, B!Redis, B!Fault, B!Config
  <2>2. /\ hand' \in [Loops -> Hands] /\ batch' \in [Loops -> Seq(B!Entry)] /\ loose' \in [Messages -> Nat]
        /\ \A m \in Messages : loose'[m] > 0 => m \in published
        /\ \A l \in Loops : hand'[l] = B!Off /\ batch'[l] = << >>
    BY <2>1, EmptySeq, LoopShapes
  <2>3. /\ connected' \in BOOLEAN /\ consuming' \in BOOLEAN /\ connected' /\ active' \subseteq Loops
    BY <2>1, Zenon
  <2>4. listeners' \in Nat /\ recovering' \in Nat
    BY <2>1
  <2>5. /\ faults > 0 /\ faults' = faults - 1 /\ pending' = pending
        /\ UNCHANGED <<driver, ownDead, published, dead, handled>>
    BY <2>1
  <2>6. Requeue(front)
    BY <1>2, <2>2, <2>3, <2>4, <2>5 DEF Requeue
  <2> QED
    BY <2>6, RequeueKeeps
<1> QED
  BY <1>4, <1>5

LEMMA PublishKeeps ==
  ASSUME BrokerInv, Noted, NEW m \in Messages, B!Publish(m)
  PROVE  BrokerInv'
<1>0. BrokerTypes /\ LoopsInv /\ CutsInv /\ SpotsInv
  BY DEF BrokerInv
<1>1. /\ m \notin published /\ published' = published \cup {m}
      /\ topic' = IF driver = "nats" /\ ~consuming THEN topic ELSE Append(topic, [m |-> m, n |-> 0])
      /\ UNCHANGED <<driver, ownDead, batch, hand, active, pending, dead, handled, loose,
                     connected, consuming, listeners, recovering, faults>>
  BY DEF B!Publish, B!Sent, B!Connection
<1>2. PICK e : e = [m |-> m, n |-> 0]
  OBVIOUS
<1>3. e \in B!Entry /\ e.m = m /\ e.n = 0
  BY <1>2, PlatformConstants DEF B!Entry
<1>4. topic \in Seq(B!Entry) /\ Len(topic) \in Nat
  BY <1>0 DEF BrokerTypes
<1>5. \/ topic' = topic /\ m \in cut'
      \/ topic' = Append(topic, e)
  BY <1>1, <1>2 DEF Noted
<1>6. /\ topic' \in Seq(B!Entry) /\ \A i \in 1..Len(topic) : i \in 1..Len(topic') /\ topic'[i] = topic[i]
      /\ topic' = topic \/ (Len(topic') = Len(topic) + 1 /\ topic'[Len(topic) + 1] = e)
  BY <1>4, <1>3, <1>5
<1>7. tries' = tries /\ tries \in [Messages -> Nat]
  BY <1>0, <1>1, TriesFacts DEF B!Failing, B!At, BrokerTypes
<1>8. BrokerTypes'
  BY <1>0, <1>1, <1>6, <1>7 DEF BrokerTypes
<1>9. LoopsInv'
  BY <1>0, <1>1, <1>7 DEF LoopsInv, Noted
<1>10. CutsInv'
  BY <1>0, <1>1 DEF CutsInv, Noted
<1>11. PICK back \in [Spots -> Spots] : back = [p \in Spots |-> p]
  OBVIOUS
<1>12. ASSUME NEW p \in Spots, Here(p)'
       PROVE  /\ What(p)' \in B!Entry /\ What(p)'.m \in published' /\ tries'[What(p)'.m] >= Failed(p)'
              /\ \/ Here(back[p]) /\ What(back[p]).m = What(p)'.m
                 \/ What(p)'.m \notin published /\ p = <<None, Len(topic')>>
  BY <1>3, <1>6, <1>7, <1>1, <1>4, <1>12, <1>11, <1>0 DEF What, Failed, Spots, Here, SpotsInv
<1>13. ASSUME NEW p \in Spots, Here(p)
       PROVE  Here(p)' /\ What(p)' = What(p)
  BY <1>6, <1>13, <1>1 DEF Here, What
<1>14. Finds(m)' \/ m \in cut'
  <2>1. CASE topic' # topic
    <3>1. PICK x \in Nat : x = Len(topic) + 1
      BY <1>4
    <3>2. <<None, x>> \in Spots /\ Here(<<None, x>>)' /\ What(<<None, x>>)'.m = m
      BY <1>3, <1>4, <1>6, <2>1, <3>1 DEF Spots, Here, What
    <3> QED
      BY <3>2 DEF Finds
  <2>2. CASE topic' = topic
    BY <1>3, <1>4, <2>2, <1>5
  <2> QED
    BY <2>1, <2>2
<1>15. \A x \in Messages :
         /\ handled'[x] >= handled[x] /\ dead'[x] >= dead[x] /\ handled'[x] = handled[x]
         /\ handled'[x] > 0 \/ loose'[x] > 0 => x \in published'
         /\ dead'[x] > 0 => dead[x] > 0
         /\ x \in published' /\ x \notin published => Finds(x)' \/ x \in cut'
  BY <1>0, <1>1, <1>14 DEF BrokerTypes, SpotsInv
<1>16. SpotsInv'
  BY <1>11, <1>0, <1>1, <1>12, <1>13, <1>15, SpotsStep DEF BrokerTypes
<1> QED
  BY <1>8, <1>9, <1>10, <1>16 DEF BrokerInv

LEMMA BrokersNext ==
  ASSUME BrokerInv, B!MCNext
  PROVE  BrokerInv'
<1>1. Noted /\ B!Next /\ driver \in {"redis", "rabbitmq", "nats"}
  BY NotedAll DEF B!MCNext, BrokerInv, BrokerTypes
<1>2. ASSUME NEW m \in Messages, B!Publish(m) \/ B!LateHandlerEnds(m)
      PROVE  BrokerInv'
  BY <1>1, <1>2, PublishKeeps, LateHandlerEndsKeeps
<1>3. ASSUME NEW l \in Loops, B!Poll(l) \/ B!Deliver(l)
      PROVE  BrokerInv'
  <2>1. PICK k \in Nat : TakenBy(l, k)
    BY <1>3, TakenSteps
  <2> QED
    BY <1>1, <2>1, TakenKeeps
<1>4. ASSUME NEW l \in Loops,
             B!HandlerEnds(l) \/ B!HandlerThrows(l) \/ B!HandlerTimesOut(l) \/ B!Nack(l)
      PROVE  BrokerInv'
  BY <1>1, <1>4, HandlerKeeps
<1>5. ASSUME NEW l \in Loops, B!Ack(l) \/ B!Republish(l) \/ B!SettlementFails(l)
      PROVE  BrokerInv'
  <2>1. CASE B!SettlementFails(l) /\ driver = "redis"
    BY <1>1, <2>1, SettlementFailsKeeps
  <2>2. CASE B!Ack(l) \/ B!Republish(l) \/ (B!SettlementFails(l) /\ driver # "redis")
    <3>1. PICK what \in {"none", "sent", "dead"} : Passed(l, what)
      BY <1>1, <2>2, PassedSteps
    <3> QED
      BY <1>1, <3>1, PassedKeeps
  <2> QED
    BY <1>5, <2>1, <2>2
<1>6. ASSUME NEW l \in Loops, B!Retire(l) \/ B!Recover(l)
      PROVE  BrokerInv'
  BY <1>1, <1>6, RecoverKeeps
<1>7. ASSUME B!RecoveryFails
      PROVE  BrokerInv'
  <2>1. PICK l \in Loops : TRUE
    BY PlatformConstants
  <2> QED
    BY <1>1, <1>7, <2>1, RecoverKeeps
<1>8. ASSUME NEW l \in Loops, B!Disconnect(l)
      PROVE  BrokerInv'
  BY <1>1, <1>8, DisconnectKeeps, TakenBackKeeps
<1>9. ASSUME B!Crash
      PROVE  BrokerInv'
  BY <1>1, <1>9, CrashKeeps, TakenBackKeeps
<1> QED
  BY <1>1, <1>2, <1>3, <1>4, <1>5, <1>6, <1>7, <1>8, <1>9 DEF B!Next

LEMMA BrokersStutter ==
  ASSUME BrokerInv, UNCHANGED <<faults, OfBrokers>>
  PROVE  BrokerInv'
<1>1. UNCHANGED <<faults, driver, ownDead, topic, batch, hand, active, pending, dead, handled, loose,
                  connected, consuming, listeners, recovering, published, tries, cut, again>>
  BY DEF OfBrokers
<1>2. BrokerTypes' /\ LoopsInv' /\ CutsInv'
  BY <1>1 DEF BrokerInv, BrokerTypes, LoopsInv, CutsInv
<1>3. \A p : (Here(p)' <=> Here(p)) /\ What(p)' = What(p) /\ Failed(p)' = Failed(p)
  BY <1>1 DEF Here, What, Failed
<1>4. \A m : Finds(m)' <=> Finds(m)
  BY <1>3 DEF Finds
<1>5. SpotsInv'
  BY <1>1, <1>3, <1>4 DEF BrokerInv, SpotsInv
<1> QED
  BY <1>2, <1>5 DEF BrokerInv

LEMMA BrokersInit ==
  ASSUME B!MCInit
  PROVE  BrokerInv
<1>1. /\ driver \in {"redis", "rabbitmq", "nats"} /\ ownDead \in BOOLEAN
      /\ topic = << >> /\ pending = {} /\ published = {} /\ faults = MaxCuts
      /\ hand = [l \in Loops |-> IF driver = "redis" /\ l = B!First THEN B!Polling ELSE B!Off]
      /\ active = IF driver = "redis" THEN {B!First} ELSE {}
      /\ batch = [l \in Loops |-> << >>] /\ loose = [m \in Messages |-> 0]
      /\ dead = [m \in Messages |-> 0] /\ handled = [m \in Messages |-> 0]
      /\ connected = TRUE /\ consuming = TRUE /\ listeners = 1 /\ recovering = 0
      /\ tries = [m \in Messages |-> 0] /\ cut = {} /\ again = {}
  BY DEF B!MCInit, B!Init
<1>2. /\ \A l \in Loops : hand[l] = (IF driver = "redis" /\ l = B!First THEN B!Polling ELSE B!Off)
                          /\ batch[l] = << >>
      /\ hand \in [Loops -> Hands] /\ batch \in [Loops -> Seq(B!Entry)] /\ topic \in Seq(B!Entry)
  BY <1>1, EmptySeq, LoopShapes
<1>3. BrokerTypes
  <2>1. /\ faults \in 0..MaxCuts /\ listeners \in Nat /\ recovering \in Nat /\ pending \subseteq B!Entry
        /\ published \subseteq Messages
        /\ dead \in [Messages -> Nat] /\ handled \in [Messages -> Nat] /\ loose \in [Messages -> Nat]
        /\ tries \in [Messages -> Nat]
    BY <1>1, PlatformConstants
  <2>2. connected \in BOOLEAN /\ consuming \in BOOLEAN
    BY <1>1, Zenon
  <2>3. active \subseteq Loops
    BY <1>1, LoopShapes
  <2> HIDE DEF Hands
  <2> QED
    BY <1>1, <1>2, <2>1, <2>2, <2>3 DEF BrokerTypes
<1>4. LoopsInv
  BY <1>1, <1>2, LoopShapes DEF LoopsInv
<1>5. CutsInv
  BY <1>1, LoopShapes DEF CutsInv
<1>6. ASSUME NEW p \in Spots
      PROVE  ~Here(p)
  BY <1>1, <1>2, LoopShapes DEF Here, Spots
<1>7. SpotsInv
  BY <1>1, <1>6 DEF SpotsInv, Finds
<1> QED
  BY <1>3, <1>4, <1>5, <1>7 DEF BrokerInv

LEMMA BrokersImplied ==
  ASSUME BrokerInv
  PROVE  B!TypeOK /\ B!DeliveredUnlessCut /\ B!OneLoop
<1>0. BrokerTypes /\ LoopsInv /\ CutsInv /\ SpotsInv
  BY DEF BrokerInv
<1>1. \A l \in Loops : hand[l] \in {B!Off, B!Polling} \/ hand[l].entry \in B!Entry
  BY <1>0 DEF BrokerTypes, Hands, LoopsInv, B!Off, B!Polling
<1>2. B!TypeOK
  BY <1>0, <1>1 DEF B!TypeOK, BrokerTypes
<1>3. ASSUME NEW m, Finds(m)
      PROVE  B!Waits(m)
  <2>1. PICK p \in Spots : Here(p) /\ What(p).m = m
    BY <1>3 DEF Finds
  <2>2. CASE p[1] = None
    BY <1>0, <2>1, <2>2 DEF Here, What, BrokerTypes, B!Waits
  <2>3. CASE p[1] # None /\ p[2] = 0
    BY <2>1, <2>3 DEF Spots, Here, What, B!Working, B!Waits
  <2>4. CASE p[1] # None /\ p[2] # 0
    <3>1. PICK l \in Loops : l = p[1]
      BY <2>4 DEF Spots
    <3>2. p[2] \in DOMAIN batch[l] /\ batch[l][p[2]].m = m
      BY <1>0, <2>1, <2>4, <3>1 DEF Here, What, BrokerTypes
    <3>3. batch[l][p[2]] \in B!ToSet(batch[l])
      BY <3>2 DEF B!ToSet
    <3>4. m \in B!Batched(l)
      BY <3>2, <3>3 DEF B!Batched
    <3> QED
      BY <3>4 DEF B!Waits
  <2> QED
    BY <2>2, <2>3, <2>4
<1>4. B!DeliveredUnlessCut
  BY <1>0, <1>3 DEF SpotsInv, BrokerTypes, B!DeliveredUnlessCut
<1>5. B!OneLoop
  BY <1>0 DEF CutsInv, B!OneLoop, B!Redis, B!At
<1> QED
  BY <1>2, <1>4, <1>5

-----------------------------------------------------------------------------
\* The search index.

Task ==
  [pc : {"idle", "announce", "load", "put", "collect"}, in : Processes \cup {None},
   job : I!Jobs \cup {None}, docs : I!Documents, todo : SUBSET Entities]

\* The jobs of one entity, and the kinds a reindex rebuilds.
JobsOf(e) == {I!Job("index", e), I!Job("remove", e)}

KindsOf(self) == IF self.job = None THEN Entities ELSE self.job.target

\* What a request or a run is about in each of its states.
Placed(self) ==
  /\ self.pc = "idle" => self = I!Idle
  /\ self.pc = "announce" => self.in = None /\ \E e \in Entities : self.job \in JobsOf(e)
  /\ self.pc = "load" => self.in \in Processes /\ \E e \in Entities : self.job = I!Job("index", e)
  /\ self.pc = "put" => self.in \in Processes /\ \E e \in Entities : self.job \in JobsOf(e)
  /\ self.pc = "collect" =>
       /\ self.in \in Processes /\ KindsOf(self) \in SUBSET Entities /\ self.todo \subseteq KindsOf(self)
       /\ self.job = None \/ \E some \in {Entities, {Entity1}} : self.job = I!Job("reindex-all", some)

\* Only a deleted row is removed.
Removal(e) ==
  /\ jobs[I!Job("remove", e)].status # "none" => catalog[e] = "deleted"
  /\ \A w \in Workers : op[w].job = I!Job("remove", e) =>
       catalog[e] = "deleted" /\ (op[w].pc = "put" => op[w].docs = I!Empty)

\* A job counts its runs, one for each time its process failed it or restarted.
Tried(j) ==
  LET used == MaxFaults - faults IN
  /\ jobs[j].status = "none" => jobs[j].tries = 0
  /\ jobs[j].status = "waiting" => jobs[j].tries < Attempts + used
  /\ jobs[j].tries <= Attempts + used

\* A job is active exactly while one run works on it.
RunsIt(w, j) == op[w].in # None /\ op[w].job = j

Worked(j) ==
  /\ jobs[j].status = "active" <=> \E w \in Workers : RunsIt(w, j)
  /\ \A v, w \in Workers : RunsIt(v, j) /\ RunsIt(w, j) => v = w

\* Something that will load the row as it is, or has loaded it.
Coming(e) ==
  \/ \E w \in Workers : op[w].pc = "announce" /\ op[w].job \in JobsOf(e)
  \/ \E j \in JobsOf(e) : jobs[j].status = "waiting"
  \/ \E w \in Workers : op[w].pc = "load" /\ op[w].job \in JobsOf(e)
  \/ \E w \in Workers : /\ op[w].pc = "put" /\ op[w].job \in JobsOf(e)
                        /\ op[w].docs[e] = I!Document(catalog[e])

Fresh(doc, e) == doc = I!Document(catalog[e])

Collecting(p) == \E w \in Workers : op[w].pc = "collect" /\ op[w].in = p

\* What holds of an entity in a process that has not fallen behind on it.
Followed(p, e) ==
  /\ p \in warm => Fresh(engine[p][e], e) \/ Coming(e) \/ Collecting(p)
  /\ \A w \in Workers :
       /\ op[w].in = p /\ op[w].pc = "put" /\ op[w].job \in JobsOf(e) =>
            Fresh(op[w].docs[e], e) \/ Coming(e)
       /\ op[w].in = p /\ op[w].pc = "collect" /\ e \in KindsOf(op[w]) =>
            \/ /\ engine[p][e] = None
               /\ IF e \in op[w].todo THEN op[w].docs[e] = None ELSE Fresh(op[w].docs[e], e)
            \/ Coming(e)

Watched(p, e) == <<p, e>> \notin behind /\ ~I!RanBeside(p, e)

\* A reindex that nothing got into.
Uncrossed(w) ==
  /\ \A v \in Workers \ {w} : op[v].in # op[w].in
  /\ op[w].pc = "collect" =>
       /\ engine[op[w].in] = I!Empty
       /\ \A e \in Entities :
            op[w].docs[e] = IF e \in KindsOf(op[w]) \ op[w].todo THEN I!Document(catalog[e]) ELSE None

JobRecord == [status : {"none", "waiting", "active", "completed", "failed"}, tries : Nat]

SearchInv ==
  /\ catalog \in [Entities -> I!Rows]
  /\ jobs \in [I!Jobs -> JobRecord]
  /\ engine \in [Processes -> I!Documents] /\ warm \subseteq Processes
  /\ op \in [Workers -> Task]
  /\ left \in Nat /\ faults \in 0..MaxFaults
  /\ \A w \in Workers : Placed(op[w]) /\ (op[w].in # None /\ w \notin crossed => Uncrossed(w))
  /\ \A w \in crossed : op[w].in # None
  /\ \A e \in Entities : Removal(e)
  /\ \A j \in I!Jobs : Tried(j) /\ Worked(j)
  /\ \A p \in Processes, e \in Entities : Watched(p, e) => Followed(p, e)

LEMMA JobShapes ==
  /\ \A e \in Entities : JobsOf(e) \subseteq I!Jobs
  /\ \A some \in {Entities, {Entity1}} :
       I!Job("reindex-all", some) \in I!Jobs /\ some \in SUBSET Entities
  /\ \A e \in Entities : \A j \in JobsOf(e) :
       j.target = e /\ j.name \in {"index", "remove"}
  /\ \A name, target : I!Job(name, target).name = name /\ I!Job(name, target).target = target
  /\ \A j \in I!Jobs :
       \/ \E e \in Entities : j \in JobsOf(e)
       \/ \E some \in {Entities, {Entity1}} : j = I!Job("reindex-all", some)
  /\ None \notin I!Jobs
<1>1. Entity1 \in Entities /\ None \notin I!Jobs
  BY PlatformConstants
<1>2. \A name, target : I!Job(name, target).name = name /\ I!Job(name, target).target = target
  BY DEF I!Job
<1>3. I!Jobs = {I!Job(name, e) : name \in {"index", "remove"}, e \in Entities}
                 \cup {I!Job("reindex-all", some) : some \in {Entities, {Entity1}}}
  BY DEF I!Jobs
<1>4. \A e \in Entities : JobsOf(e) \subseteq I!Jobs
  BY <1>3 DEF JobsOf
<1>5. \A some \in {Entities, {Entity1}} :
        I!Job("reindex-all", some) \in I!Jobs /\ some \in SUBSET Entities
  BY <1>1, <1>3
<1>6. \A e \in Entities : \A j \in JobsOf(e) :
        j.target = e /\ j.name \in {"index", "remove"}
  BY <1>2 DEF JobsOf
<1>7. \A j \in I!Jobs :
        \/ \E e \in Entities : j \in JobsOf(e)
        \/ \E some \in {Entities, {Entity1}} : j = I!Job("reindex-all", some)
  BY <1>3 DEF JobsOf
<1> QED
  BY <1>1, <1>2, <1>4, <1>5, <1>6, <1>7

\* The steps one at a time.
SearchStep(w) ==
  \/ \E e \in Entities, row \in I!Rows \ {"absent"} : I!Change(w, e, row)
  \/ I!Announce(w) \/ I!AnnounceFails(w) \/ I!Load(w) \/ I!Put(w) \/ I!PutAll(w) \/ I!QueryFails(w)
  \/ \E some \in {Entities, {Entity1}} : I!AskReindex(w, some)
  \/ \E p \in Processes : I!ColdSearch(w, p) \/ \E j \in I!Jobs : I!Take(w, p, j)
  \/ \E e \in Entities : I!LoadKind(w, e)

LEMMA SearchCases ==
  ASSUME I!Next
  PROVE  \/ \E w \in Workers : SearchStep(w)
         \/ \E p \in Processes : I!Restart(p)
         \/ \E j \in I!Jobs : I!Forget(j)
  BY DEF I!Next, SearchStep

Taken(self, p, j) ==
  /\ self.job = j /\ self.in = p /\ self.docs = I!Empty
  /\ IF j.name = "reindex-all" THEN self.pc = "collect" /\ self.todo = j.target
     ELSE self.pc = I!Start(j)

\* What a request or run becomes, by the step that moves it.
Onto(w, self) ==
  /\ op' = [op EXCEPT ![w] = self]
  /\ \/ self = I!Idle
     \/ \E e \in Entities : self.pc = "announce" /\ self.job \in JobsOf(e) /\ self.in = None
                          /\ \E row \in I!Rows \ {"absent"} : I!Change(w, e, row)
     \/ \E j \in I!Jobs, p \in Processes :
          I!Take(w, p, j) /\ Taken(self, p, j)
     \/ \E p \in Processes :
          I!ColdSearch(w, p) /\ self.job = None /\ self.in = p /\ self.docs = I!Empty
            /\ self.pc = "collect" /\ self.todo = Entities
     \/ \E e \in Entities :
          /\ I!Load(w) /\ op[w].job.target = e /\ self.pc = "put" /\ self.in = op[w].in
          /\ self.job = op[w].job /\ self.docs = [op[w].docs EXCEPT ![e] = I!Document(catalog[e])]
     \/ \E e \in Entities :
          /\ I!LoadKind(w, e) /\ self.pc = "collect" /\ self.in = op[w].in /\ self.job = op[w].job
          /\ e \in op[w].todo /\ self.todo = op[w].todo \ {e}
          /\ self.docs = [op[w].docs EXCEPT ![e] = I!Document(catalog[e])]

LEMMA DocumentTypes ==
  ASSUME SearchInv
  PROVE  /\ I!Empty \in I!Documents /\ I!Idle \in Task /\ Placed(I!Idle)
         /\ I!Idle.pc = "idle" /\ I!Idle.in = None /\ I!Idle.job = None
         /\ \A e \in Entities : I!Document(catalog[e]) \in Texts \cup {None}
BY DEF I!Empty, I!Documents, I!Idle, Task, Placed, I!Document

LEMMA Moves ==
  ASSUME SearchInv, NEW w \in Workers, SearchStep(w)
  PROVE  op' = op \/ \E self \in Task : Onto(w, self) /\ Placed(self)
<1> DEFINE Goal == \E self \in Task : Onto(w, self) /\ Placed(self)
<1>0. op[w] \in Task /\ Placed(op[w])
  BY DEF SearchInv
<1>1. ASSUME I!Done(w)
      PROVE  Goal
  BY <1>1, DocumentTypes DEF I!Done, I!Become, Onto
<1>2. ASSUME NEW e \in Entities, NEW row \in I!Rows \ {"absent"}, I!Change(w, e, row)
      PROVE  Goal
  <2>1. PICK self : self = [I!Idle EXCEPT !.pc = "announce",
                                          !.job = I!Job(IF row = "deleted" THEN "remove" ELSE "index", e)]
    OBVIOUS
  <2>2. /\ self.pc = "announce" /\ self.in = None /\ self.job \in JobsOf(e) /\ self.job \in I!Jobs
        /\ self \in Task
    BY <2>1, JobShapes, DocumentTypes DEF I!Idle, JobsOf, Task
  <2>3. Placed(self)
    BY <2>2 DEF Placed
  <2> QED
    BY <1>2, <2>1, <2>2, <2>3 DEF Onto, I!Change, I!Become
<1>3. ASSUME NEW p \in Processes, NEW j \in I!Jobs, I!Take(w, p, j)
      PROVE  Goal
  <2>1. CASE j.name = "reindex-all"
    <3>1. PICK self : self = [I!Idle EXCEPT !.pc = "collect", !.in = p, !.job = j, !.todo = j.target]
      OBVIOUS
    <3>2. PICK some \in {Entities, {Entity1}} : j = I!Job("reindex-all", some) /\ some \in SUBSET Entities
      BY <2>1, JobShapes
    <3>3. j.target = some /\ j # None
      BY <3>2, JobShapes
    <3>4. /\ self.pc = "collect" /\ self.in = p /\ self.job = j /\ self.todo = j.target
          /\ self.docs = I!Empty /\ self \in Task
      BY <3>1, <3>2, <3>3, DocumentTypes DEF I!Idle, Task
    <3>5. Placed(self)
      BY <3>2, <3>3, <3>4 DEF Placed, KindsOf
    <3>6. op' = [op EXCEPT ![w] = self]
      BY <1>3, <2>1, <3>1 DEF I!Take, I!Become
    <3>7. Taken(self, p, j)
      BY <2>1, <3>4 DEF Taken
    <3>8. Onto(w, self)
      BY <1>3, <3>6, <3>7 DEF Onto
    <3> QED
      BY <3>4, <3>5, <3>8
  <2>2. CASE j.name # "reindex-all"
    <3>1. PICK self : self = [I!Idle EXCEPT !.pc = I!Start(j), !.in = p, !.job = j]
      OBVIOUS
    <3>2. PICK e \in Entities : j \in JobsOf(e)
      BY <2>2, JobShapes
    <3>3. /\ self.pc = I!Start(j) /\ self.pc \in {"load", "put"} /\ self.in = p /\ self.job = j
          /\ self.docs = I!Empty /\ self \in Task
      BY <3>1, DocumentTypes DEF I!Idle, Task, I!Start
    <3>4. Placed(self)
      BY <3>2, <3>3, JobShapes DEF I!Start, JobsOf, Placed
    <3>5. op' = [op EXCEPT ![w] = self]
      BY <1>3, <2>2, <3>1 DEF I!Take, I!Become
    <3>6. Onto(w, self)
      BY <2>2, <3>3, <1>3, <3>5 DEF Taken, Onto
    <3> QED
      BY <3>3, <3>4, <3>6
  <2> QED
    BY <2>1, <2>2
<1>4. ASSUME NEW p \in Processes, I!ColdSearch(w, p)
      PROVE  Goal
  <2>1. PICK self : self = [I!Idle EXCEPT !.pc = "collect", !.in = p, !.todo = Entities]
    OBVIOUS
  <2>2. /\ self.pc = "collect" /\ self.in = p /\ self.job = None /\ self.todo = Entities
        /\ self.docs = I!Empty /\ self \in Task
    BY <2>1, DocumentTypes DEF I!Idle, Task
  <2>3. Placed(self)
    BY <2>2 DEF Placed, KindsOf
  <2> QED
    BY <1>4, <2>1, <2>2, <2>3 DEF Onto, I!ColdSearch, I!Become
<1>5. ASSUME I!Load(w)
      PROVE  Goal
  <2>0. op[w].pc = "load"
    BY <1>5 DEF I!Load, I!At
  <2>1. PICK e \in Entities : op[w].job \in JobsOf(e) /\ op[w].job.target = e /\ op[w].in \in Processes
    BY <1>0, <2>0, JobShapes DEF Placed, JobsOf
  <2>2. PICK it \in Task : it = op[w]
    BY <1>0
  <2>3. PICK doc \in Texts \cup {None} : doc = I!Document(catalog[e])
    BY DocumentTypes
  <2>4. PICK self : self = [it EXCEPT !.pc = "put", !.docs = [it.docs EXCEPT ![e] = doc]]
    OBVIOUS
  <2>5. /\ self.pc = "put" /\ self.in = it.in /\ self.job = it.job
        /\ self.docs = [it.docs EXCEPT ![e] = doc] /\ self \in Task
    BY <2>4 DEF Task, I!Documents
  <2>6. Placed(self)
    BY <2>1, <2>2, <2>5 DEF Placed
  <2>7. op' = [op EXCEPT ![w] = self]
    BY <1>5, <2>1, <2>2, <2>3, <2>4 DEF I!Load, I!Become
  <2> QED
    BY <1>5, <2>1, <2>2, <2>3, <2>5, <2>6, <2>7 DEF Onto
<1>6. ASSUME NEW e \in Entities, I!LoadKind(w, e)
      PROVE  Goal
  <2>1. PICK it \in Task : it = op[w]
    BY <1>0
  <2>2. PICK doc \in Texts \cup {None} : doc = I!Document(catalog[e])
    BY DocumentTypes
  <2>3. PICK self : self = [it EXCEPT !.todo = it.todo \ {e}, !.docs = [it.docs EXCEPT ![e] = doc]]
    OBVIOUS
  <2>4. /\ self.pc = it.pc /\ self.in = it.in /\ self.job = it.job /\ self.todo = it.todo \ {e}
        /\ self.docs = [it.docs EXCEPT ![e] = doc] /\ self \in Task
    BY <2>3 DEF Task, I!Documents
  <2>5. it.pc = "collect" /\ e \in it.todo
    BY <1>6, <2>1 DEF I!LoadKind, I!At
  <2>6. Placed(self)
    BY <1>0, <2>1, <2>4, <2>5 DEF Placed, KindsOf
  <2>7. [x \in Entities |-> IF [y \in Entities |-> y][x] = e THEN I!Document(catalog[x]) ELSE it.docs[x]]
        = [it.docs EXCEPT ![e] = doc]
    BY <2>2 DEF Task, I!Documents
  <2>8. op' = [op EXCEPT ![w] = self]
    BY <1>6, <2>1, <2>3, <2>7 DEF I!LoadKind, I!Become
  <2> QED
    BY <1>6, <2>1, <2>2, <2>4, <2>5, <2>6, <2>8 DEF Onto
<1>7. ASSUME I!Announce(w) \/ I!AnnounceFails(w) \/ I!Put(w) \/ I!PutAll(w) \/ I!QueryFails(w)
      PROVE  Goal
  BY <1>1, <1>7 DEF I!Announce, I!AnnounceFails, I!Put, I!PutAll, I!QueryFails
<1>8. ASSUME NEW some \in {Entities, {Entity1}}, I!AskReindex(w, some)
      PROVE  op' = op
  BY <1>8 DEF I!AskReindex
<1> HIDE DEF Goal
<1>9. (\E p \in Processes : I!ColdSearch(w, p) \/ \E j \in I!Jobs : I!Take(w, p, j)) => Goal
  BY <1>3, <1>4
<1>10. (\E e \in Entities, row \in I!Rows \ {"absent"} : I!Change(w, e, row)) => Goal
  BY <1>2
<1>11. (\E e \in Entities : I!LoadKind(w, e)) => Goal
  BY <1>6
<1>12. I!Load(w) => Goal
  BY <1>5
<1>13. I!Announce(w) \/ I!AnnounceFails(w) \/ I!Put(w) \/ I!PutAll(w) \/ I!QueryFails(w) => Goal
  BY <1>7
<1>14. (\E some \in {Entities, {Entity1}} : I!AskReindex(w, some)) => op' = op
  BY <1>8
<1>15. op' = op \/ Goal
  BY Zenon, <1>9, <1>10, <1>11, <1>12, <1>13, <1>14 DEF SearchStep
<1> QED
  BY <1>15 DEF Goal

LEMMA Unmoved ==
  ASSUME SearchInv, NEW w \in Workers, SearchStep(w)
  PROVE  /\ \A v \in Workers \ {w} : op'[v] = op[v]
         /\ op' = op \/ \E self \in Task : Onto(w, self) /\ op'[w] = self
         /\ op' \in [Workers -> Task] /\ \A v \in Workers : Placed(op'[v])
<1>1. op \in [Workers -> Task] /\ \A v \in Workers : Placed(op[v])
  BY DEF SearchInv
<1>2. CASE op' = op
  BY <1>1, <1>2
<1>3. CASE \E self \in Task : Onto(w, self) /\ Placed(self)
  <2>1. PICK self \in Task : Onto(w, self) /\ Placed(self)
    BY <1>3
  <2>2. op' = [op EXCEPT ![w] = self]
    BY <2>1 DEF Onto
  <2> QED
    BY <1>1, <2>1, <2>2
<1> QED
  BY <1>2, <1>3, Moves

LEMMA Finishes ==
  ASSUME SearchInv, NEW j \in I!Jobs, NEW st \in {"completed", "failed", "waiting"}
  PROVE  /\ I!Finished(j, st) \in [I!Jobs -> JobRecord]
         /\ \A i \in I!Jobs \ {j} : I!Finished(j, st)[i] = jobs[i]
         /\ \/ I!Finished(j, st)[j] = I!NoJob /\ st # "waiting" /\ j.name = "reindex-all"
            \/ /\ I!Finished(j, st)[j].status = st /\ I!Finished(j, st)[j].tries = jobs[j].tries
               /\ st = "waiting" \/ j.name # "reindex-all"
<1>1. jobs \in [I!Jobs -> JobRecord] /\ I!NoJob \in JobRecord
  BY DEF SearchInv, JobRecord, I!NoJob
<1>2. [jobs[j] EXCEPT !.status = st] \in JobRecord
  BY <1>1 DEF JobRecord
<1>3. CASE j.name = "reindex-all" /\ st # "waiting"
  BY <1>3, <1>1 DEF I!Finished
<1>4. CASE ~(j.name = "reindex-all" /\ st # "waiting")
  BY <1>4, <1>1, <1>2 DEF I!Finished, JobRecord
<1> QED
  BY <1>3, <1>4

\* What becomes of a job.
RunsKept(j) == \A v \in Workers : RunsIt(v, j)' <=> RunsIt(v, j)

Kept(j) == jobs'[j] = jobs[j] /\ RunsKept(j)

Queued(j) ==
  /\ jobs[j].status = "none" /\ jobs'[j].status = "waiting" /\ jobs'[j].tries = jobs[j].tries
  /\ (\E v \in Workers : op[v].job = j) \/ j.name = "reindex-all"
  /\ RunsKept(j)

TakenUp(j) ==
  /\ jobs[j].status = "waiting" /\ jobs'[j].status = "active"
  /\ jobs'[j].tries = jobs[j].tries + 1
  /\ \E w \in Workers : RunsIt(w, j)' /\ \A v \in Workers \ {w} : RunsIt(v, j)' <=> RunsIt(v, j)

Ended(j) ==
  /\ jobs[j].status = "active"
  /\ \/ jobs'[j] = I!NoJob
     \/ jobs'[j].status \in {"completed", "failed"} /\ jobs'[j].tries = jobs[j].tries
     \/ /\ jobs'[j].status = "waiting" /\ jobs'[j].tries = jobs[j].tries
        /\ jobs[j].tries < Attempts \/ faults' = faults - 1
  /\ \A v \in Workers : ~RunsIt(v, j)'

Dropped(j) ==
  jobs[j].status \in {"completed", "failed"} /\ jobs'[j] = I!NoJob /\ RunsKept(j)

JobGoes(j) == Kept(j) \/ Queued(j) \/ TakenUp(j) \/ Ended(j) \/ Dropped(j)

LEMMA JobEnding ==
  ASSUME SearchInv, NEW w \in Workers, op[w].in # None, I!Done(w),
         NEW st \in {"completed", "failed", "waiting"},
         jobs' = IF op[w].job = None THEN jobs ELSE I!Finished(op[w].job, st),
         st = "waiting" => jobs[op[w].job].tries < Attempts \/ faults' = faults - 1
  PROVE  jobs' \in [I!Jobs -> JobRecord] /\ \A j \in I!Jobs : JobGoes(j)
<1>1. op' = [op EXCEPT ![w] = I!Idle] /\ I!Idle.in = None /\ op \in [Workers -> Task]
  BY DocumentTypes DEF I!Done, I!Become, SearchInv
<1>2. /\ op'[w] = I!Idle /\ \A v \in Workers \ {w} : op'[v] = op[v]
  BY <1>1
<1>3. op[w].job \in I!Jobs \cup {None}
  BY <1>1 DEF Task
<1>4. ASSUME NEW j \in I!Jobs, j # op[w].job
      PROVE  RunsKept(j)
  BY <1>1, <1>2, <1>4 DEF RunsKept, RunsIt
<1>5. CASE op[w].job = None
  BY <1>5, PlatformConstants, <1>4 DEF JobGoes, Kept, SearchInv
<1>6. CASE op[w].job # None
  <2>1. PICK i \in I!Jobs : i = op[w].job
    BY <1>3, <1>6
  <2>2. jobs' = I!Finished(i, st)
    BY <1>6, <2>1
  <2>3. jobs[i].status = "active" /\ \A v \in Workers : RunsIt(v, i) => v = w
    BY <2>1 DEF RunsIt, SearchInv, Worked
  <2>4. \A v \in Workers : ~RunsIt(v, i)'
    BY <2>3, <1>1, <1>2 DEF RunsIt
  <2>5. Ended(i)
    BY <2>1, <2>2, <2>3, <2>4, Finishes DEF Ended
  <2>6. \A j \in I!Jobs \ {i} : Kept(j)
    BY <2>2, Finishes, <1>4, <2>1 DEF Kept
  <2>7. jobs' \in [I!Jobs -> JobRecord]
    BY <2>2, Finishes
  <2> QED
    BY <2>5, <2>6, <2>7 DEF JobGoes
<1> QED
  BY <1>5, <1>6

LEMMA JobsStep ==
  ASSUME SearchInv, NEW w \in Workers, SearchStep(w)
  PROVE  jobs' \in [I!Jobs -> JobRecord] /\ \A j \in I!Jobs : JobGoes(j)
<1> DEFINE Goal == jobs' \in [I!Jobs -> JobRecord] /\ \A j \in I!Jobs : JobGoes(j)
<1>0. /\ op \in [Workers -> Task] /\ Placed(op[w]) /\ jobs \in [I!Jobs -> JobRecord]
      /\ I!Idle.in = None /\ I!Idle.job = None
  BY DocumentTypes DEF SearchInv
<1>1. /\ \A v \in Workers \ {w} : op'[v] = op[v]
      /\ op' = op \/ \E self \in Task : Onto(w, self) /\ op'[w] = self
  BY Unmoved
<1>2. ASSUME jobs' = jobs, \/ op' = op
                           \/ op'[w].in = None /\ op[w].in = None
                           \/ op'[w].in = op[w].in /\ op'[w].job = op[w].job
                           \/ op[w].in = None /\ op'[w].job = None
      PROVE  Goal
  BY PlatformConstants, <1>1, <1>2, <1>0 DEF RunsKept, RunsIt, JobGoes, Kept
<1>3. ASSUME NEW e \in Entities, NEW row \in I!Rows \ {"absent"}, I!Change(w, e, row)
      PROVE  Goal
  BY <1>0, <1>3, DocumentTypes, <1>2 DEF I!Change, I!Asked, I!At, I!Become, Placed, I!Idle
<1>4. ASSUME NEW p \in Processes, I!ColdSearch(w, p)
      PROVE  Goal
  BY <1>0, <1>4, DocumentTypes, <1>2 DEF I!ColdSearch, I!Asked, I!At, I!Become, Placed, I!Idle
<1>5. ASSUME I!Load(w)
      PROVE  Goal
  <2>1. PICK it \in Task : it = op[w]
    BY <1>0
  <2>2. op'[w] = [it EXCEPT !.pc = "put", !.docs[it.job.target] = I!Document(catalog[it.job.target])]
    BY <1>0, <1>5, <2>1 DEF I!Load, I!Become
  <2>3. op'[w].in = op[w].in /\ op'[w].job = op[w].job
    BY <2>1, <2>2 DEF Task
  <2> QED
    BY <1>2, <1>5, <2>3 DEF I!Load
<1>6. ASSUME NEW e \in Entities, I!LoadKind(w, e)
      PROVE  Goal
  <2>1. PICK it \in Task : it = op[w]
    BY <1>0
  <2>2. op'[w] = [it EXCEPT !.todo = @ \ {e}, !.docs =
           [x \in Entities |-> IF [y \in Entities |-> y][x] = e THEN I!Document(catalog[x]) ELSE @[x]]]
    BY <1>0, <1>6, <2>1 DEF I!LoadKind, I!Become
  <2>3. op'[w].in = op[w].in /\ op'[w].job = op[w].job
    BY <2>1, <2>2 DEF Task
  <2> QED
    BY <1>2, <1>6, <2>3 DEF I!LoadKind
<1>7. ASSUME I!Announce(w) \/ I!AnnounceFails(w)
      PROVE  Goal
  <2>1. op[w].pc = "announce" /\ op[w].in = None /\ op[w].job \in I!Jobs /\ op'[w] = I!Idle
    BY <1>0, <1>7, JobShapes DEF Placed, I!Announce, I!AnnounceFails, I!At, I!Done, I!Become
  <2>2. CASE jobs' = jobs
    BY <1>0, <1>2, <2>1, <2>2
  <2>3. CASE I!Announce(w) /\ jobs[op[w].job].status = "none"
    <3>1. PICK i \in I!Jobs : i = op[w].job
      BY <2>1
    <3>2. jobs' = [jobs EXCEPT ![i].status = "waiting"]
      BY <2>3, <3>1 DEF I!Announce
    <3>3. [jobs[i] EXCEPT !.status = "waiting"] \in JobRecord
      BY <1>0 DEF JobRecord
    <3>4. /\ jobs' \in [I!Jobs -> JobRecord] /\ \A j \in I!Jobs \ {i} : jobs'[j] = jobs[j]
          /\ jobs'[i].status = "waiting" /\ jobs'[i].tries = jobs[i].tries
      BY <1>0, <3>2, <3>3 DEF JobRecord
    <3>5. \A j \in I!Jobs : RunsKept(j)
      BY <1>0, <1>1, <2>1 DEF RunsKept, RunsIt
    <3>6. Queued(i)
      BY <2>3, <3>1, <3>4, <3>5 DEF Queued
    <3> QED
      BY <3>4, <3>5, <3>6 DEF JobGoes, Kept
  <2> QED
    BY <1>7, <2>2, <2>3 DEF I!Announce, I!AnnounceFails
<1>8. ASSUME NEW some \in {Entities, {Entity1}}, I!AskReindex(w, some)
      PROVE  Goal
  <2>1. PICK i \in I!Jobs : i = I!Job("reindex-all", some) /\ i.name = "reindex-all"
    BY JobShapes
  <2>2. jobs' = [jobs EXCEPT ![i].status = "waiting"] /\ jobs[i].status = "none" /\ op' = op
    BY <1>8, <2>1 DEF I!AskReindex
  <2>3. [jobs[i] EXCEPT !.status = "waiting"] \in JobRecord
    BY <1>0 DEF JobRecord
  <2>4. /\ jobs' \in [I!Jobs -> JobRecord] /\ \A j \in I!Jobs \ {i} : jobs'[j] = jobs[j]
        /\ jobs'[i].status = "waiting" /\ jobs'[i].tries = jobs[i].tries
    BY <1>0, <2>2, <2>3 DEF JobRecord
  <2>5. \A j \in I!Jobs : RunsKept(j)
    BY <2>2 DEF RunsKept, RunsIt
  <2> QED
    BY <2>1, <2>2, <2>4, <2>5 DEF JobGoes, Kept, Queued
<1>9. ASSUME NEW p \in Processes, NEW i \in I!Jobs, I!Take(w, p, i)
      PROVE  Goal
  <2>1. /\ op[w].in = None /\ jobs[i].status = "waiting"
        /\ jobs' = [jobs EXCEPT ![i] = [status |-> "active", tries |-> jobs[i].tries + 1]]
    BY <1>0, <1>9 DEF I!Take, I!At, Placed
  <2>2. [status |-> "active", tries |-> jobs[i].tries + 1] \in JobRecord
    BY <1>0 DEF JobRecord
  <2>3. /\ jobs' \in [I!Jobs -> JobRecord] /\ \A j \in I!Jobs \ {i} : jobs'[j] = jobs[j]
        /\ jobs'[i].status = "active" /\ jobs'[i].tries = jobs[i].tries + 1
    BY <1>0, <2>1, <2>2
  <2>4. op'[w].in = p /\ op'[w].job = i
    BY <1>0, <1>9 DEF I!Take, I!Become, I!Idle
  <2>5. p # None
    BY PlatformConstants
  <2>6. TakenUp(i)
    BY <1>1, <2>4, <2>5, <2>1, <2>3 DEF RunsIt, TakenUp
  <2>7. \A j \in I!Jobs \ {i} : Kept(j)
    BY <1>1, <2>1, <2>3, <2>4 DEF Kept, RunsKept, RunsIt
  <2> QED
    BY <2>3, <2>6, <2>7 DEF JobGoes
<1>10. ASSUME I!Put(w) \/ I!PutAll(w)
       PROVE  Goal
  BY <1>0, <1>10, PlatformConstants, JobShapes, JobEnding DEF Placed, I!Put, I!PutAll, I!At
<1>11. ASSUME I!QueryFails(w)
       PROVE  Goal
  <2>1. op[w].in # None /\ I!Done(w) /\ faults' = faults - 1
    BY <1>0, <1>11, PlatformConstants DEF Placed, I!QueryFails, I!At
  <2>2. PICK st \in {"failed", "waiting"} :
          st = IF jobs[op[w].job].tries < Attempts THEN "waiting" ELSE "failed"
    OBVIOUS
  <2>3. jobs' = IF op[w].job = None THEN jobs ELSE I!Finished(op[w].job, st)
    BY <1>11, <2>2 DEF I!QueryFails, I!AfterFailure
  <2> QED
    BY <2>1, <2>2, <2>3, JobEnding
<1> HIDE DEF Goal
<1>12. (\E p \in Processes : I!ColdSearch(w, p) \/ \E j \in I!Jobs : I!Take(w, p, j)) => Goal
  BY <1>4, <1>9
<1>13. (\E e \in Entities, row \in I!Rows \ {"absent"} : I!Change(w, e, row)) => Goal
  BY <1>3
<1>14. (\E e \in Entities : I!LoadKind(w, e)) => Goal
  BY <1>6
<1>15. (\E some \in {Entities, {Entity1}} : I!AskReindex(w, some)) => Goal
  BY <1>8
<1>16. Goal
  BY <1>5, <1>7, <1>10, <1>11, <1>12, <1>13, <1>14, <1>15 DEF SearchStep
<1> QED
  BY <1>16 DEF Goal

LEMMA JobsElse ==
  ASSUME SearchInv, (\E p \in Processes : I!Restart(p)) \/ (\E j \in I!Jobs : I!Forget(j))
  PROVE  /\ jobs' \in [I!Jobs -> JobRecord] /\ \A j \in I!Jobs : JobGoes(j)
         /\ op' \in [Workers -> Task] /\ \A w \in Workers : Placed(op'[w])
         /\ catalog' = catalog /\ left' = left
         /\ \A w \in Workers : op'[w] = op[w] \/ (op'[w] = I!Idle /\ op[w].in # None)
<1>0. /\ op \in [Workers -> Task] /\ jobs \in [I!Jobs -> JobRecord]
      /\ I!Idle.in = None /\ I!Idle.job = None /\ I!Idle \in Task /\ Placed(I!Idle)
      /\ \A w \in Workers : Placed(op[w])
  BY DocumentTypes DEF SearchInv
<1>1. CASE \E p \in Processes : I!Restart(p)
  <2>1. PICK p \in Processes : I!Restart(p)
    BY <1>1
  <2>2. p # None
    BY PlatformConstants
  <2>3. op' = [w \in Workers |-> IF op[w].in = p THEN I!Idle ELSE op[w]]
    BY <2>1 DEF I!Restart
  <2>4. jobs' = [j \in I!Jobs |-> IF \E w \in I!Running(p) : op[w].job = j
                                  THEN [jobs[j] EXCEPT !.status = "waiting"] ELSE jobs[j]]
    BY <2>1 DEF I!Restart
  <2>5. \A j \in I!Jobs : [jobs[j] EXCEPT !.status = "waiting"] \in JobRecord
          /\ [jobs[j] EXCEPT !.status = "waiting"].status = "waiting"
          /\ [jobs[j] EXCEPT !.status = "waiting"].tries = jobs[j].tries
    BY <1>0 DEF JobRecord
  <2>6. jobs' \in [I!Jobs -> JobRecord]
    BY <1>0, <2>4, <2>5
  <2>7. ASSUME NEW j \in I!Jobs
        PROVE  JobGoes(j)
    <3>0. j # None
      BY PlatformConstants
    <3>1. CASE \E w \in I!Running(p) : op[w].job = j
      <4>1. PICK w \in Workers : op[w].in = p /\ op[w].job = j
        BY <3>1 DEF I!Running
      <4>2. jobs[j].status = "active" /\ \A v \in Workers : RunsIt(v, j) => v = w
        BY <2>2, <4>1 DEF RunsIt, SearchInv, Worked
      <4>3. \A v \in Workers : ~RunsIt(v, j)'
        BY <1>0, <2>3, <4>1, <4>2 DEF RunsIt
      <4>4. jobs'[j].status = "waiting" /\ jobs'[j].tries = jobs[j].tries
        BY <2>4, <2>5, <3>1
      <4>5. faults' = faults - 1
        BY <2>1 DEF I!Restart
      <4> QED
        BY <4>2, <4>3, <4>4, <4>5 DEF JobGoes, Ended
    <3>2. CASE ~\E w \in I!Running(p) : op[w].job = j
      BY <3>0, <3>2, <2>4, <1>0, <2>3 DEF I!Running, RunsKept, RunsIt, JobGoes, Kept
    <3> QED
      BY <3>1, <3>2
  <2>8. op' \in [Workers -> Task] /\ \A w \in Workers : Placed(op'[w])
    BY <1>0, <2>3
  <2> QED
    BY <2>1, <2>2, <2>3, <2>6, <2>7, <2>8 DEF I!Restart
<1>2. CASE \E j \in I!Jobs : I!Forget(j)
  <2>1. PICK i \in I!Jobs : I!Forget(i)
    BY <1>2
  <2>2. /\ jobs' = [jobs EXCEPT ![i] = I!NoJob] /\ op' = op /\ catalog' = catalog /\ left' = left
        /\ jobs[i].status \in {"completed", "failed"}
    BY <2>1 DEF I!Forget
  <2>3. \A j \in I!Jobs : RunsKept(j)
    BY <2>2 DEF RunsKept, RunsIt
  <2>4. I!NoJob \in JobRecord
    BY DEF I!NoJob, JobRecord
  <2>5. /\ jobs' \in [I!Jobs -> JobRecord]
        /\ \A j \in I!Jobs : jobs'[j] = IF j = i THEN I!NoJob ELSE jobs[j]
    BY <1>0, <2>2, <2>4
  <2>6. \A j \in I!Jobs : JobGoes(j)
    BY <2>2, <2>3, <2>5 DEF JobGoes, Kept, Dropped
  <2> QED
    BY <1>0, <2>2, <2>5, <2>6
<1> QED
  BY <1>1, <1>2

Engines == engine' \in [Processes -> I!Documents] /\ warm' \subseteq Processes

LEMMA PutFacts ==
  ASSUME SearchInv, NEW w \in Workers, I!Put(w)
  PROVE  /\ Engines /\ catalog' = catalog /\ faults' = faults /\ left' = left
         /\ op[w].pc = "put" /\ op'[w] = I!Idle /\ op[w].in # None /\ op[w].job # None
         /\ \E q \in Processes, x \in Entities :
              /\ op[w].in = q /\ op[w].job \in JobsOf(x) /\ op[w].job.target = x
              /\ engine'[q][x] = op[w].docs[x]
              /\ \A y \in Entities \ {x} : engine'[q][y] = engine[q][y]
              /\ \A p \in Processes \ {q} : engine'[p] = engine[p] /\ (p \in warm' <=> p \in warm)
<1>1. /\ op \in [Workers -> Task] /\ Placed(op[w]) /\ op[w].pc = "put"
      /\ engine \in [Processes -> I!Documents] /\ warm \subseteq Processes
  BY DEF SearchInv, I!Put, I!At
<1>2. PICK x \in Entities : op[w].job \in JobsOf(x)
  BY <1>1 DEF Placed
<1>3. PICK q \in Processes : q = op[w].in
  BY <1>1 DEF Placed
<1>4. op[w].job.target = x /\ op[w].job # None /\ op[w].in # None
  BY <1>2, <1>3, JobShapes, PlatformConstants
<1>5. PICK docs \in I!Documents : docs = op[w].docs
  BY <1>1 DEF Task
<1>6. engine' = [engine EXCEPT ![q] = [engine[q] EXCEPT ![x] = docs[x]]]
  BY <1>1, <1>3, <1>4, <1>5 DEF I!Put, I!Replaced
<1>7. [engine[q] EXCEPT ![x] = docs[x]] \in I!Documents
  BY <1>1 DEF I!Documents
<1>8. /\ engine' \in [Processes -> I!Documents] /\ engine'[q] = [engine[q] EXCEPT ![x] = docs[x]]
      /\ \A p \in Processes \ {q} : engine'[p] = engine[p]
  BY <1>1, <1>6, <1>7
<1>9. engine'[q][x] = docs[x] /\ \A y \in Entities \ {x} : engine'[q][y] = engine[q][y]
  BY <1>1, <1>8 DEF I!Documents
<1>10. warm' = warm \/ warm' = warm \cup {q}
  BY <1>3 DEF I!Put
<1>11. op'[w] = I!Idle
  BY <1>1 DEF I!Put, I!Done, I!Become
<1>12. catalog' = catalog /\ faults' = faults /\ left' = left
  BY DEF I!Put
<1> QED
  BY <1>1, <1>2, <1>3, <1>4, <1>5, <1>8, <1>9, <1>10, <1>11, <1>12 DEF Engines

LEMMA PutAllFacts ==
  ASSUME SearchInv, NEW w \in Workers, I!PutAll(w)
  PROVE  /\ Engines /\ catalog' = catalog /\ faults' = faults /\ left' = left
         /\ op[w].pc = "collect" /\ op'[w] = I!Idle /\ op[w].in # None /\ op[w].todo = {}
         /\ \E q \in Processes :
              /\ op[w].in = q
              /\ \A y \in Entities :
                   engine'[q][y] = IF op[w].docs[y] = None THEN engine[q][y] ELSE op[w].docs[y]
              /\ \A p \in Processes \ {q} : engine'[p] = engine[p] /\ (p \in warm' <=> p \in warm)
<1>1. /\ op \in [Workers -> Task] /\ Placed(op[w]) /\ op[w].pc = "collect" /\ op[w].todo = {}
      /\ engine \in [Processes -> I!Documents] /\ warm \subseteq Processes
  BY DEF SearchInv, I!PutAll, I!At
<1>2. PICK q \in Processes : q = op[w].in
  BY <1>1 DEF Placed
<1>3. PICK docs \in I!Documents : docs = op[w].docs
  BY <1>1 DEF Task
<1>4. engine' = [engine EXCEPT ![q] = [y \in Entities |-> IF docs[y] = None THEN engine[q][y] ELSE docs[y]]]
  BY <1>1, <1>2, <1>3 DEF I!PutAll
<1>5. [y \in Entities |-> IF docs[y] = None THEN engine[q][y] ELSE docs[y]] \in I!Documents
  BY <1>1 DEF I!Documents
<1>6. /\ engine' \in [Processes -> I!Documents]
      /\ engine'[q] = [y \in Entities |-> IF docs[y] = None THEN engine[q][y] ELSE docs[y]]
      /\ \A p \in Processes \ {q} : engine'[p] = engine[p]
  BY <1>1, <1>4, <1>5
<1>7. \A y \in Entities : engine'[q][y] = IF docs[y] = None THEN engine[q][y] ELSE docs[y]
  BY <1>6
<1>8. warm' = warm \cup {q}
  BY <1>2 DEF I!PutAll
<1>9. op'[w] = I!Idle /\ catalog' = catalog /\ faults' = faults /\ left' = left
  BY <1>1 DEF I!PutAll, I!Done, I!Become
<1>10. op[w].in # None
  BY <1>2, PlatformConstants
<1> QED
  BY <1>1, <1>2, <1>3, <1>6, <1>7, <1>8, <1>9, <1>10 DEF Engines

LEMMA ClearFacts ==
  ASSUME SearchInv, NEW q \in Processes, engine' = [engine EXCEPT ![q] = I!Empty]
  PROVE  /\ engine' \in [Processes -> I!Documents] /\ engine'[q] = I!Empty
         /\ \A p \in Processes \ {q} : engine'[p] = engine[p]
  BY DocumentTypes DEF SearchInv

LEMMA TakeFacts ==
  ASSUME SearchInv, NEW w \in Workers, NEW p \in Processes, NEW j \in I!Jobs, I!Take(w, p, j)
  PROVE  /\ Engines /\ catalog' = catalog /\ faults' = faults /\ left' = left /\ warm' = warm
         /\ jobs[j].status = "waiting" /\ op[w].pc = "idle" /\ op[w].in = None
         /\ op'[w].in = p /\ op'[w].job = j /\ op'[w].docs = I!Empty
         /\ IF j.name = "reindex-all"
            THEN /\ engine'[p] = I!Empty /\ op'[w].pc = "collect" /\ op'[w].todo = j.target
                 /\ \A q \in Processes \ {p} : engine'[q] = engine[q]
            ELSE engine' = engine /\ op'[w].pc = I!Start(j)
<1>1. /\ op \in [Workers -> Task] /\ engine \in [Processes -> I!Documents] /\ warm \subseteq Processes
      /\ Placed(op[w])
  BY DEF SearchInv
<1>2. op[w].pc = "idle" /\ op[w].in = None /\ jobs[j].status = "waiting"
  BY <1>1, DocumentTypes DEF I!Take, I!At, Placed
<1>3. CASE j.name = "reindex-all"
  BY <1>1, <1>3, <1>2, ClearFacts DEF I!Take, I!Become, I!Idle, Engines
<1>4. CASE j.name # "reindex-all"
  BY <1>1, <1>4, <1>2 DEF I!Take, I!Become, I!Idle, Engines
<1> QED
  BY <1>3, <1>4

LEMMA ColdFacts ==
  ASSUME SearchInv, NEW w \in Workers, NEW p \in Processes, I!ColdSearch(w, p)
  PROVE  /\ Engines /\ catalog' = catalog /\ faults' = faults /\ left' \in Nat /\ warm' = warm
         /\ op[w].pc = "idle" /\ op[w].in = None /\ p \notin warm
         /\ op'[w].in = p /\ op'[w].job = None /\ op'[w].docs = I!Empty
         /\ engine'[p] = I!Empty /\ op'[w].pc = "collect" /\ op'[w].todo = Entities
         /\ \A q \in Processes \ {p} : engine'[q] = engine[q]
<1>1. /\ op \in [Workers -> Task] /\ engine \in [Processes -> I!Documents] /\ warm \subseteq Processes
      /\ Placed(op[w]) /\ left \in Nat
  BY DEF SearchInv
<1>2. op[w].pc = "idle" /\ op[w].in = None /\ left' \in Nat
  BY <1>1, DocumentTypes DEF I!ColdSearch, I!Asked, I!At, Placed
<1>3. op'[w] = [I!Idle EXCEPT !.pc = "collect", !.in = p, !.todo = Entities]
  BY <1>1 DEF I!ColdSearch, I!Become
<1>4. /\ op'[w].in = p /\ op'[w].job = None /\ op'[w].docs = I!Empty /\ op'[w].pc = "collect"
      /\ op'[w].todo = Entities
  BY <1>3 DEF I!Idle
<1>5. engine' = [engine EXCEPT ![p] = I!Empty]
  BY DEF I!ColdSearch
<1> QED
  BY <1>1, <1>2, <1>4, <1>5, ClearFacts DEF I!ColdSearch, Engines

LEMMA LoadFacts ==
  ASSUME SearchInv, NEW w \in Workers, I!Load(w)
  PROVE  /\ UNCHANGED <<catalog, jobs, engine, warm, left, faults>>
         /\ op[w].pc = "load" /\ op'[w].pc = "put" /\ op[w].in \in Processes
         /\ op'[w].in = op[w].in /\ op'[w].job = op[w].job /\ op[w].job # None
         /\ \E x \in Entities :
              /\ op[w].job = I!Job("index", x) /\ op'[w].docs[x] = I!Document(catalog[x])
<1>1. op \in [Workers -> Task] /\ Placed(op[w]) /\ op[w].pc = "load"
  BY DEF SearchInv, I!Load, I!At
<1>2. PICK x \in Entities : op[w].job = I!Job("index", x)
  BY <1>1 DEF Placed
<1>3. op[w].job.target = x /\ op[w].job # None /\ op[w].in \in Processes
  BY <1>1, <1>2, JobShapes DEF Placed, JobsOf
<1>4. PICK it \in Task : it = op[w]
  BY <1>1
<1>5. op'[w] = [it EXCEPT !.pc = "put", !.docs[x] = I!Document(catalog[x])]
  BY <1>1, <1>3, <1>4 DEF I!Load, I!Become
<1>6. /\ op'[w].pc = "put" /\ op'[w].in = it.in /\ op'[w].job = it.job
      /\ op'[w].docs = [it.docs EXCEPT ![x] = I!Document(catalog[x])]
  BY <1>5 DEF Task
<1>7. op'[w].docs[x] = I!Document(catalog[x])
  BY <1>6 DEF Task, I!Documents
<1> QED
  BY <1>1, <1>2, <1>3, <1>4, <1>6, <1>7 DEF I!Load

LEMMA LoadKindFacts ==
  ASSUME SearchInv, NEW w \in Workers, NEW x \in Entities, I!LoadKind(w, x)
  PROVE  /\ UNCHANGED <<catalog, jobs, engine, warm, left, faults>>
         /\ op[w].pc = "collect" /\ op'[w].pc = "collect" /\ op[w].in \in Processes
         /\ x \in op[w].todo
         /\ op'[w].in = op[w].in /\ op'[w].job = op[w].job /\ op'[w].todo = op[w].todo \ {x}
         /\ \A y \in Entities :
              op'[w].docs[y] = IF y = x THEN I!Document(catalog[x]) ELSE op[w].docs[y]
<1>1. op \in [Workers -> Task] /\ Placed(op[w]) /\ op[w].pc = "collect" /\ x \in op[w].todo
  BY DEF SearchInv, I!LoadKind, I!At
<1>2. PICK it \in Task : it = op[w]
  BY <1>1
<1>3. op'[w] = [it EXCEPT !.todo = @ \ {x}, !.docs =
         [e \in Entities |-> IF [y \in Entities |-> y][e] = x THEN I!Document(catalog[e]) ELSE @[e]]]
  BY <1>1, <1>2 DEF I!LoadKind, I!Become
<1>4. /\ op'[w].pc = it.pc /\ op'[w].in = it.in /\ op'[w].job = it.job /\ op'[w].todo = it.todo \ {x}
      /\ op'[w].docs =
           [e \in Entities |-> IF [y \in Entities |-> y][e] = x THEN I!Document(catalog[e]) ELSE it.docs[e]]
  BY <1>3 DEF Task
<1>5. \A y \in Entities : op'[w].docs[y] = IF y = x THEN I!Document(catalog[x]) ELSE it.docs[y]
  BY <1>4
<1>6. op[w].in \in Processes
  BY <1>1 DEF Placed
<1> QED
  BY <1>1, <1>2, <1>4, <1>5, <1>6 DEF I!LoadKind

LEMMA QueryFacts ==
  ASSUME SearchInv, NEW w \in Workers, I!QueryFails(w)
  PROVE  /\ Engines /\ catalog' = catalog /\ left' = left /\ engine' = engine
         /\ faults > 0 /\ faults' = faults - 1
         /\ op'[w] = I!Idle /\ op[w].in \in Processes
         /\ \/ op[w].pc = "load" /\ warm' = warm
            \/ op[w].pc = "collect" /\ warm' = warm \ {op[w].in}
BY DEF SearchInv, Placed, I!QueryFails, I!At, I!Done, I!Become, Engines

LEMMA RestartFacts ==
  ASSUME SearchInv, NEW p \in Processes, I!Restart(p)
  PROVE  /\ Engines /\ catalog' = catalog /\ left' = left /\ engine'[p] = I!Empty
         /\ faults > 0 /\ faults' = faults - 1 /\ warm' = warm \ {p}
         /\ \A q \in Processes \ {p} : engine'[q] = engine[q]
         /\ \A w \in Workers : op'[w] = IF op[w].in = p THEN I!Idle ELSE op[w]
BY ClearFacts DEF SearchInv, I!Restart, Engines

LEMMA ChangeFacts ==
  ASSUME SearchInv, NEW w \in Workers, NEW e \in Entities, NEW row \in I!Rows \ {"absent"},
         I!Change(w, e, row)
  PROVE  /\ UNCHANGED <<jobs, engine, warm, faults>> /\ left' \in Nat
         /\ op[w].pc = "idle" /\ op'[w].pc = "announce" /\ op'[w].in = None
         /\ op'[w].job \in JobsOf(e)
         /\ op'[w].job = I!Job("remove", e) => row = "deleted"
         /\ op'[w].docs = I!Empty
         /\ catalog[e] # "deleted" /\ catalog' = [catalog EXCEPT ![e] = row]
<1>1. op \in [Workers -> Task] /\ left \in Nat
  BY DEF SearchInv
<1>2. op'[w] = [I!Idle EXCEPT !.pc = "announce",
                              !.job = I!Job(IF row = "deleted" THEN "remove" ELSE "index", e)]
  BY <1>1 DEF I!Change, I!Become
<1>3. /\ op'[w].pc = "announce" /\ op'[w].in = None /\ op'[w].docs = I!Empty
      /\ op'[w].job = I!Job(IF row = "deleted" THEN "remove" ELSE "index", e)
  BY <1>2 DEF I!Idle
<1>4. op'[w].job \in JobsOf(e) /\ (op'[w].job = I!Job("remove", e) => row = "deleted")
  BY <1>3 DEF JobsOf, I!Job
<1> QED
  BY <1>1, <1>3, <1>4 DEF I!Change, I!Asked, I!At

LEMMA AnnounceFacts ==
  ASSUME SearchInv, NEW w \in Workers, I!Announce(w) \/ I!AnnounceFails(w)
  PROVE  /\ UNCHANGED <<catalog, engine, warm, left>>
         /\ op[w].pc = "announce" /\ op[w].in = None /\ op'[w] = I!Idle
         /\ op[w].job \in I!Jobs
         /\ \/ I!Announce(w) /\ faults' = faults
            \/ I!AnnounceFails(w) /\ faults > 0 /\ faults' = faults - 1
BY JobShapes DEF SearchInv, I!Announce, I!AnnounceFails, I!At, Placed, I!Done, I!Become

LEMMA SearchBounds ==
  ASSUME SearchInv, I!Next
  PROVE  /\ Engines /\ left' \in Nat /\ faults' \in 0..MaxFaults
         /\ faults' = faults \/ faults' = faults - 1
         /\ catalog' \in [Entities -> I!Rows]
         /\ \A e \in Entities : catalog[e] = "deleted" => catalog'[e] = "deleted"
         /\ op' \in [Workers -> Task] /\ \A w \in Workers : Placed(op'[w])
         /\ jobs' \in [I!Jobs -> JobRecord] /\ \A j \in I!Jobs : JobGoes(j)
<1> DEFINE Rest == /\ Engines /\ left' \in Nat /\ faults' \in 0..MaxFaults
                   /\ faults' = faults \/ faults' = faults - 1
                   /\ catalog' \in [Entities -> I!Rows]
                   /\ \A e \in Entities : catalog[e] = "deleted" => catalog'[e] = "deleted"
<1>0. /\ engine \in [Processes -> I!Documents] /\ warm \subseteq Processes /\ left \in Nat
      /\ faults \in 0..MaxFaults /\ MaxFaults \in Nat /\ catalog \in [Entities -> I!Rows]
  BY PlatformConstants DEF SearchInv
<1>1. ASSUME catalog' = catalog, left' \in Nat, Engines,
             faults' = faults \/ (faults > 0 /\ faults' = faults - 1)
      PROVE  Rest
  BY <1>0, <1>1
<1>2. ASSUME NEW w \in Workers, SearchStep(w)
      PROVE  Rest
  <2>1. ASSUME NEW e \in Entities, NEW row \in I!Rows \ {"absent"}, I!Change(w, e, row)
        PROVE  Rest
    BY <1>0, <2>1, ChangeFacts DEF Engines
  <2>2. CASE I!Announce(w) \/ I!AnnounceFails(w)
    BY <1>0, <1>1, <2>2, AnnounceFacts DEF Engines
  <2>3. CASE I!Load(w)
    BY <1>0, <1>1, <2>3, LoadFacts DEF Engines
  <2>4. CASE I!Put(w)
    BY <1>0, <1>1, <2>4, PutFacts
  <2>5. CASE I!PutAll(w)
    BY <1>0, <1>1, <2>5, PutAllFacts
  <2>6. CASE I!QueryFails(w)
    BY <1>0, <1>1, <2>6, QueryFacts
  <2>7. ASSUME NEW some \in {Entities, {Entity1}}, I!AskReindex(w, some)
        PROVE  Rest
    BY <1>0, <1>1, <2>7 DEF Engines, I!AskReindex, I!Asked
  <2>8. ASSUME NEW p \in Processes, I!ColdSearch(w, p)
        PROVE  Rest
    BY <1>0, <1>1, <2>8, ColdFacts
  <2>9. ASSUME NEW p \in Processes, NEW j \in I!Jobs, I!Take(w, p, j)
        PROVE  Rest
    BY <1>0, <1>1, <2>9, TakeFacts
  <2>10. ASSUME NEW e \in Entities, I!LoadKind(w, e)
         PROVE  Rest
    BY <1>0, <1>1, <2>10, LoadKindFacts DEF Engines
  <2> HIDE DEF Rest
  <2>11. (\E p \in Processes : I!ColdSearch(w, p) \/ \E j \in I!Jobs : I!Take(w, p, j)) => Rest
    BY <2>8, <2>9
  <2> QED
    BY <1>2, <2>1, <2>2, <2>3, <2>4, <2>5, <2>6, <2>7, <2>10, <2>11 DEF SearchStep
<1>3. ASSUME NEW p \in Processes, I!Restart(p)
      PROVE  Rest
  BY <1>0, <1>1, <1>3, RestartFacts
<1>4. ASSUME NEW j \in I!Jobs, I!Forget(j)
      PROVE  Rest
  BY <1>0, <1>1, <1>4 DEF I!Forget, Engines
<1> HIDE DEF Rest
<1>5. Rest
  BY <1>2, <1>3, <1>4, SearchCases
<1>6. /\ op' \in [Workers -> Task] /\ \A w \in Workers : Placed(op'[w])
      /\ jobs' \in [I!Jobs -> JobRecord] /\ \A j \in I!Jobs : JobGoes(j)
  BY JobsStep, JobsElse, Unmoved, SearchCases
<1> QED
  BY <1>5, <1>6 DEF Rest

LEMMA JobsCounted ==
  ASSUME SearchInv, NEW j \in I!Jobs, JobGoes(j), jobs' \in [I!Jobs -> JobRecord],
         faults' \in 0..MaxFaults, faults' = faults \/ faults' = faults - 1
  PROVE  Tried(j)' /\ Worked(j)'
<1>0. /\ Tried(j) /\ Worked(j) /\ jobs[j] \in JobRecord /\ jobs'[j] \in JobRecord
      /\ faults \in 0..MaxFaults /\ MaxFaults \in Nat /\ Attempts \in Nat \ {0}
  BY PlatformConstants DEF SearchInv
<1>1. CASE Kept(j) \/ Dropped(j) \/ Queued(j)
  BY <1>1, <1>0 DEF Kept, Dropped, Queued, I!NoJob, Worked, RunsKept, Tried, JobRecord
<1>2. CASE TakenUp(j)
  BY <1>0, <1>2 DEF Worked, TakenUp, Tried, JobRecord
<1>3. CASE Ended(j)
  BY <1>3, <1>0 DEF Ended, I!NoJob, Worked, Tried, JobRecord
<1> QED
  BY <1>1, <1>2, <1>3 DEF JobGoes

LEMMA Removals ==
  ASSUME SearchInv, I!Next, NEW e \in Entities
  PROVE  Removal(e)'
<1> DEFINE j == I!Job("remove", e)
<1>0. /\ Removal(e) /\ j \in I!Jobs /\ j.name = "remove" /\ j.target = e
      /\ j # None
      /\ \A w \in Workers : Placed(op[w])
  BY JobShapes, PlatformConstants DEF SearchInv, JobsOf
<1>1. catalog[e] = "deleted" => catalog'[e] = "deleted"
  BY SearchBounds
<1>2. JobGoes(j)
  BY <1>0, SearchBounds
<1> HIDE DEF j
<1>3. jobs'[j].status # "none" => catalog'[e] = "deleted"
  BY <1>0, <1>1, <1>2 DEF Removal, j, JobGoes, TakenUp, Ended, Dropped, Queued, Kept
<1> DEFINE Fit(w) == op'[w].job = j => catalog'[e] = "deleted" /\ (op'[w].pc = "put" => op'[w].docs = I!Empty)
<1>4. \A v \in Workers : op'[v] = op[v] \/ op'[v] = I!Idle => Fit(v)
  BY <1>0, <1>1, DocumentTypes DEF Removal, j
<1>5. ASSUME NEW w \in Workers, SearchStep(w)
      PROVE  Fit(w)
  <2>0. op' = op \/ \E self \in Task : Onto(w, self) /\ op'[w] = self
    BY <1>5, Unmoved
  <2>1. ASSUME NEW x \in Entities, NEW row \in I!Rows \ {"absent"}, I!Change(w, x, row)
        PROVE  Fit(w)
    BY <2>1, ChangeFacts, JobShapes, <1>0 DEF j, SearchInv
  <2>2. ASSUME NEW p \in Processes, NEW i \in I!Jobs, I!Take(w, p, i)
        PROVE  Fit(w)
    BY <2>2, TakeFacts, <1>0, <1>1 DEF Removal, j
  <2>3. ASSUME NEW p \in Processes, I!ColdSearch(w, p)
        PROVE  Fit(w)
    BY <1>0, <2>3, ColdFacts
  <2>4. CASE I!Load(w)
    <3>1. PICK x \in Entities : op'[w].job = I!Job("index", x)
      BY <2>4, LoadFacts
    <3> QED
      BY <1>0, <3>1, JobShapes
  <2>5. ASSUME NEW x \in Entities, I!LoadKind(w, x)
        PROVE  Fit(w)
    BY <1>0, <1>1, <2>5, LoadKindFacts DEF Removal, j
  <2>6. CASE op'[w] = op[w] \/ op'[w] = I!Idle
    BY <1>4, <2>6
  <2>7. CASE I!Announce(w) \/ I!AnnounceFails(w) \/ I!Put(w) \/ I!PutAll(w) \/ I!QueryFails(w)
    BY <2>6, <2>7, AnnounceFacts, PutFacts, PutAllFacts, QueryFacts
  <2>8. ASSUME NEW some \in {Entities, {Entity1}}, I!AskReindex(w, some)
        PROVE  Fit(w)
    BY <2>6, <2>8 DEF I!AskReindex
  <2> HIDE DEF Fit
  <2>9. (\E p \in Processes : I!ColdSearch(w, p) \/ \E i \in I!Jobs : I!Take(w, p, i)) => Fit(w)
    BY <2>2, <2>3
  <2> QED
    BY <1>5, <2>1, <2>4, <2>5, <2>7, <2>8, <2>9 DEF SearchStep
<1> HIDE DEF Fit
<1>6. \A v \in Workers : Fit(v)
  <2>1. CASE \E w \in Workers : SearchStep(w)
    <3>1. PICK w \in Workers : SearchStep(w)
      BY <2>1
    <3>2. \A v \in Workers \ {w} : op'[v] = op[v]
      BY <3>1, Unmoved
    <3> QED
      BY <1>4, <1>5, <3>1, <3>2
  <2>2. CASE ~\E w \in Workers : SearchStep(w)
    BY <1>4, <2>2, JobsElse, SearchCases
  <2> QED
    BY <2>1, <2>2
<1> QED
  BY <1>3, <1>6 DEF Removal, Fit, j

CrossedStep ==
  crossed' = {w \in Workers :
    /\ op'[w].in # None
    /\ \/ w \in crossed \/ catalog' # catalog
       \/ \E v \in Workers \ {w} : op'[v].in = op'[w].in}

LEMMA StillUncrossed ==
  ASSUME SearchInv, I!Next, CrossedStep, NEW w \in Workers, op'[w].in # None, w \notin crossed'
  PROVE  Uncrossed(w)'
<1> DEFINE Collected ==
      op'[w].pc = "collect" =>
        /\ engine'[op'[w].in] = I!Empty
        /\ \A e \in Entities :
             op'[w].docs[e] = IF e \in KindsOf(op'[w]) \ op'[w].todo THEN I!Document(catalog'[e]) ELSE None
<1>0. /\ op \in [Workers -> Task] /\ Placed(op[w]) /\ \A v \in Workers : Placed(op[v])
      /\ op'[w] \in Task /\ engine \in [Processes -> I!Documents]
      /\ \A e \in Entities : I!Empty[e] = None
  BY SearchBounds DEF SearchInv, I!Empty
<1>1. /\ w \notin crossed /\ catalog' = catalog
      /\ \A v \in Workers \ {w} : op'[v].in # op'[w].in
  BY DEF CrossedStep
<1>2. op[w].in # None => Uncrossed(w)
  BY <1>1 DEF SearchInv
<1>3. ASSUME op'[w] = op[w], op[w].in \in Processes => engine'[op[w].in] = engine[op[w].in]
      PROVE  Collected
  BY <1>0, <1>1, <1>2, <1>3 DEF Placed, Uncrossed
<1>4. ASSUME SearchStep(w)
      PROVE  Collected
  <2>1. ASSUME NEW x \in Entities, NEW row \in I!Rows \ {"absent"}, I!Change(w, x, row)
        PROVE  Collected
    BY <2>1, ChangeFacts
  <2>2. ASSUME NEW p \in Processes, NEW i \in I!Jobs, I!Take(w, p, i)
        PROVE  Collected
    BY <2>2, TakeFacts, PlatformConstants, <1>0 DEF KindsOf, I!Start
  <2>3. ASSUME NEW p \in Processes, I!ColdSearch(w, p)
        PROVE  Collected
    BY <2>3, ColdFacts, <1>0 DEF KindsOf
  <2>4. CASE I!Load(w)
    BY <2>4, LoadFacts
  <2>5. ASSUME NEW x \in Entities, I!LoadKind(w, x)
        PROVE  Collected
    BY <2>5, LoadKindFacts, <1>2, PlatformConstants, <1>0, <1>1 DEF KindsOf, Placed, Uncrossed
  <2>6. CASE op'[w] = I!Idle
    BY <2>6, DocumentTypes
  <2>7. CASE I!Announce(w) \/ I!AnnounceFails(w) \/ I!Put(w) \/ I!PutAll(w) \/ I!QueryFails(w)
    BY <2>6, <2>7, AnnounceFacts, PutFacts, PutAllFacts, QueryFacts
  <2>8. ASSUME NEW some \in {Entities, {Entity1}}, I!AskReindex(w, some)
        PROVE  Collected
    BY <1>3, <2>8 DEF I!AskReindex
  <2> HIDE DEF Collected
  <2>9. (\E p \in Processes : I!ColdSearch(w, p) \/ \E i \in I!Jobs : I!Take(w, p, i)) => Collected
    BY <2>2, <2>3
  <2> QED
    BY <1>4, <2>1, <2>4, <2>5, <2>7, <2>8, <2>9 DEF SearchStep
<1>5. ASSUME NEW v \in Workers \ {w}, SearchStep(v)
      PROVE  Collected
  <2>0. op'[w] = op[w]
    BY <1>5, Unmoved
  <2>1. op'[v].in # op[w].in /\ Uncrossed(w) /\ op[v].in # op[w].in
    BY <1>1, <1>2, <2>0 DEF Uncrossed
  <2> DEFINE Same == engine'[op[w].in] = engine[op[w].in]
  <2> SUFFICES ASSUME op[w].in \in Processes
               PROVE  Same
    BY <1>3, <2>0
  <2>2. CASE engine' = engine
    BY <2>2
  <2>3. ASSUME NEW x \in Entities, NEW row \in I!Rows \ {"absent"}, I!Change(v, x, row)
        PROVE  Same
    BY <2>3, ChangeFacts
  <2>4. ASSUME NEW p \in Processes, NEW i \in I!Jobs, I!Take(v, p, i)
        PROVE  Same
    BY <2>1, <2>4, TakeFacts
  <2>5. ASSUME NEW p \in Processes, I!ColdSearch(v, p)
        PROVE  Same
    BY <2>1, <2>5, ColdFacts
  <2>6. CASE I!Put(v)
    BY <2>1, <2>6, PutFacts
  <2>7. CASE I!PutAll(v)
    BY <2>1, <2>7, PutAllFacts
  <2>8. CASE I!Announce(v) \/ I!AnnounceFails(v) \/ I!Load(v) \/ I!QueryFails(v)
    BY <2>8, AnnounceFacts, LoadFacts, QueryFacts
  <2>9. ASSUME NEW some \in {Entities, {Entity1}}, I!AskReindex(v, some)
        PROVE  Same
    BY <2>9 DEF I!AskReindex
  <2>10. ASSUME NEW x \in Entities, I!LoadKind(v, x)
         PROVE  Same
    BY <2>10, LoadKindFacts
  <2>11. (\E p \in Processes : I!ColdSearch(v, p) \/ \E i \in I!Jobs : I!Take(v, p, i)) => Same
    BY <2>4, <2>5
  <2> HIDE DEF Same
  <2> QED
    BY <1>5, <2>3, <2>6, <2>7, <2>8, <2>9, <2>10, <2>11 DEF SearchStep
<1>6. ASSUME NEW p \in Processes, I!Restart(p)
      PROVE  Collected
  BY <1>6, RestartFacts, DocumentTypes, <1>3
<1>7. ASSUME NEW j \in I!Jobs, I!Forget(j)
      PROVE  Collected
  BY <1>3, <1>7 DEF I!Forget
<1> HIDE DEF Collected
<1>8. Collected
  BY <1>4, <1>5, <1>6, <1>7, SearchCases
<1> QED
  BY <1>1, <1>8 DEF Collected, Uncrossed

\* What put no process behind on an entity.
BehindStep ==
  behind' =
    (behind \ {pe \in Processes \X Entities : I!Repaired(pe[1])})
      \cup {pe \in Processes \X Entities :
              \/ I!Unheard(pe[2]) \/ I!GivenUp(pe[2])
              \/ I!RanElsewhere(pe[1], pe[2]) \/ I!RanBeside(pe[1], pe[2])
              \/ I!LeftOut(pe[1], pe[2])}

LEMMA NotBehind ==
  ASSUME BehindStep, NEW p \in Processes, NEW e \in Entities, <<p, e>> \notin behind'
  PROVE  /\ ~I!Unheard(e) /\ ~I!GivenUp(e)
         /\ ~I!RanElsewhere(p, e) /\ ~I!RanBeside(p, e) /\ ~I!LeftOut(p, e)
         /\ <<p, e>> \notin behind \/ I!Repaired(p)
<1> DEFINE Out(pe) == \/ I!Unheard(pe[2]) \/ I!GivenUp(pe[2])
                      \/ I!RanElsewhere(pe[1], pe[2]) \/ I!RanBeside(pe[1], pe[2])
                      \/ I!LeftOut(pe[1], pe[2])
           Back(pe) == I!Repaired(pe[1])
<1>1. behind' = (behind \ {pe \in Processes \X Entities : Back(pe)})
                  \cup {pe \in Processes \X Entities : Out(pe)}
  BY DEF BehindStep
<1> HIDE DEF Out, Back
<1>2. <<p, e>> \in Processes \X Entities
  OBVIOUS
<1>3. ~Out(<<p, e>>) /\ (<<p, e>> \notin behind \/ Back(<<p, e>>))
  BY <1>1, <1>2
<1>4. <<p, e>>[1] = p /\ <<p, e>>[2] = e
  OBVIOUS
<1> QED
  BY <1>3, <1>4 DEF Out, Back

LEMMA Announced ==
  ASSUME SearchInv, I!Next, NEW e \in Entities
  PROVE  catalog'[e] = catalog[e] \/ Coming(e)'
<1>1. ASSUME NEW w \in Workers, NEW x \in Entities, NEW row \in I!Rows \ {"absent"},
             I!Change(w, x, row)
      PROVE  catalog'[e] = catalog[e] \/ Coming(e)'
  BY <1>1, ChangeFacts DEF Coming, SearchInv
<1>2. ASSUME NEW w \in Workers, SearchStep(w)
      PROVE  catalog'[e] = catalog[e] \/ Coming(e)'
  BY <1>1, <1>2, AnnounceFacts
     DEF SearchStep, I!Load, I!Put, I!PutAll, I!QueryFails, I!AskReindex, I!ColdSearch, I!Take, I!LoadKind
<1> QED
  BY <1>2, JobsElse, SearchCases

\* A run of one of the entity's jobs that is about to end, with the document of its row.
PutsFresh(w, e) == I!Put(w) /\ op[w].job \in JobsOf(e) /\ Fresh(op[w].docs[e], e)

LEMMA WaitingStays ==
  ASSUME SearchInv, I!Next, NEW e \in Entities, catalog'[e] = catalog[e],
         NEW j \in JobsOf(e), jobs[j].status = "waiting"
  PROVE  Coming(e)'
<1>0. j \in I!Jobs /\ j.target = e /\ j.name \in {"index", "remove"} /\ Removal(e)
  BY JobShapes DEF SearchInv
<1>1. Kept(j) \/ TakenUp(j)
  BY <1>0, SearchBounds DEF JobGoes, Queued, Ended, Dropped
<1>2. CASE Kept(j)
  BY <1>2 DEF Kept, Coming
<1>3. CASE TakenUp(j)
  <2>1. PICK w \in Workers : RunsIt(w, j)' /\ ~RunsIt(w, j)
    BY <1>0, <1>3 DEF SearchInv, TakenUp, Worked
  <2>2. SearchStep(w)
    BY <2>1, DocumentTypes, SearchCases, Unmoved, JobsElse DEF RunsIt
  <2>3. ASSUME NEW p \in Processes, NEW i \in I!Jobs, I!Take(w, p, i)
        PROVE  Coming(e)'
    BY <1>0, <2>1, <2>3, TakeFacts, JobShapes, PlatformConstants DEF RunsIt, Coming, I!Start,
       JobsOf, Removal, SearchInv, I!Document, I!Empty
  <2>4. \A p \in Processes : ~I!ColdSearch(w, p)
    BY <1>0, <2>1, ColdFacts, PlatformConstants DEF RunsIt
  <2>5. ~I!Load(w) /\ \A x \in Entities : ~I!LoadKind(w, x)
    BY <2>1, LoadFacts, LoadKindFacts DEF RunsIt
  <2>6. ~(I!Announce(w) \/ I!AnnounceFails(w) \/ I!Put(w) \/ I!PutAll(w) \/ I!QueryFails(w))
    BY <2>1, AnnounceFacts, PutFacts, PutAllFacts, QueryFacts, DocumentTypes DEF RunsIt
  <2>7. \A x \in Entities, row \in I!Rows \ {"absent"} : ~I!Change(w, x, row)
    BY <2>1, ChangeFacts DEF RunsIt
  <2>8. \A some \in {Entities, {Entity1}} : ~I!AskReindex(w, some)
    BY <2>1 DEF RunsIt, I!AskReindex
  <2> QED
    BY <2>2, <2>3, <2>4, <2>5, <2>6, <2>7, <2>8 DEF SearchStep
<1> QED
  BY <1>1, <1>2, <1>3

\* A run or an announcement that the step does not move.
LEMMA Moved ==
  ASSUME SearchInv, I!Next, NEW v \in Workers, op'[v] # op[v]
  PROVE  SearchStep(v) \/ \E p \in Processes : I!Restart(p) /\ op[v].in = p
BY Unmoved, RestartFacts, SearchCases DEF I!Forget

LEMMA RestartedJobs ==
  ASSUME SearchInv, NEW p \in Processes, I!Restart(p), NEW v \in Workers, op[v].in = p,
         NEW j \in I!Jobs, op[v].job = j
  PROVE  jobs'[j].status = "waiting"
BY PlatformConstants DEF I!Running, I!Restart, SearchInv, JobRecord

LEMMA LoadStays ==
  ASSUME SearchInv, I!Next, NEW e \in Entities, catalog'[e] = catalog[e], ~I!GivenUp(e),
         NEW v \in Workers, op[v].pc = "load", op[v].job \in JobsOf(e)
  PROVE  Coming(e)'
<1>0. PICK j \in I!Jobs : j = op[v].job
  BY JobShapes
<1>1. j \in JobsOf(e) /\ j.target = e /\ j # None /\ j.name \in {"index", "remove"}
  BY <1>0, JobShapes
<1>2. CASE op'[v] = op[v]
  BY <1>2 DEF Coming
<1>3. CASE SearchStep(v) /\ op'[v] # op[v]
  <2>1. ASSUME I!Load(v)
        PROVE  Coming(e)'
    <3>1. op'[v].pc = "put" /\ op'[v].job \in JobsOf(e)
      BY <2>1, LoadFacts
    <3>2. PICK x \in Entities : op[v].job = I!Job("index", x) /\ op'[v].docs[x] = I!Document(catalog[x])
      BY <2>1, LoadFacts
    <3>3. x = e
      BY <1>0, <1>1, <3>2, JobShapes
    <3> QED
      BY <3>1, <3>2, <3>3 DEF Coming
  <2>2. ASSUME I!QueryFails(v)
        PROVE  Coming(e)'
    <3>1. jobs' = I!Finished(j, IF jobs[j].tries < Attempts THEN "waiting" ELSE "failed")
      BY <1>0, <1>1, <2>2 DEF I!QueryFails, I!AfterFailure
    <3>2. CASE jobs[j].tries < Attempts
      BY <1>1, <3>1, <3>2, Finishes DEF Coming
    <3>3. CASE ~(jobs[j].tries < Attempts)
      BY <1>1, <3>1, <3>3, Finishes, <1>0, <2>2, QueryFacts, PlatformConstants DEF RunsIt,
         SearchInv, Worked, I!GivenUp
    <3> QED
      BY <3>2, <3>3
  <2>3. \A x \in Entities, row \in I!Rows \ {"absent"} : ~I!Change(v, x, row)
    BY ChangeFacts
  <2>4. ~(I!Announce(v) \/ I!AnnounceFails(v) \/ I!Put(v) \/ I!PutAll(v))
    BY AnnounceFacts, PutFacts, PutAllFacts
  <2>5. \A p \in Processes : ~I!ColdSearch(v, p) /\ \A i \in I!Jobs : ~I!Take(v, p, i)
    BY ColdFacts, TakeFacts
  <2>6. \A x \in Entities : ~I!LoadKind(v, x)
    BY LoadKindFacts
  <2>7. \A some \in {Entities, {Entity1}} : ~I!AskReindex(v, some)
    BY <1>3 DEF I!AskReindex
  <2> QED
    BY <1>3, <2>1, <2>2, <2>3, <2>4, <2>5, <2>6, <2>7 DEF SearchStep
<1>4. ASSUME NEW p \in Processes, I!Restart(p), op[v].in = p
      PROVE  Coming(e)'
  BY <1>0, <1>1, <1>4, RestartedJobs DEF Coming
<1> QED
  BY <1>2, <1>3, <1>4, Moved

LEMMA PutStays ==
  ASSUME SearchInv, I!Next, NEW e \in Entities, catalog'[e] = catalog[e],
         NEW v \in Workers, op[v].pc = "put", op[v].job \in JobsOf(e), Fresh(op[v].docs[e], e)
  PROVE  Coming(e)' \/ PutsFresh(v, e)
<1>0. PICK j \in I!Jobs : j = op[v].job
  BY JobShapes
<1>1. CASE op'[v] = op[v]
  BY <1>1 DEF Coming, Fresh
<1>2. CASE SearchStep(v) /\ op'[v] # op[v]
  BY ChangeFacts, AnnounceFacts, LoadFacts, PutAllFacts, QueryFacts, ColdFacts, TakeFacts,
     LoadKindFacts, <1>2 DEF PutsFresh, I!AskReindex, SearchStep
<1>3. ASSUME NEW p \in Processes, I!Restart(p), op[v].in = p
      PROVE  Coming(e)'
  BY <1>0, <1>3, RestartedJobs DEF Coming
<1> QED
  BY <1>1, <1>2, <1>3, Moved

LEMMA AnnounceStays ==
  ASSUME SearchInv, I!Next, NEW e \in Entities, catalog'[e] = catalog[e], ~I!Unheard(e),
         NEW v \in Workers, op[v].pc = "announce", op[v].job \in JobsOf(e)
  PROVE  Coming(e)'
<1>0. PICK j \in I!Jobs : j = op[v].job
  BY JobShapes
<1>1. /\ j \in JobsOf(e) /\ j.target = e /\ j # None /\ j.name \in {"index", "remove"} /\ op[v].in = None
      /\ jobs \in [I!Jobs -> JobRecord] /\ Worked(j)
  BY <1>0, JobShapes DEF SearchInv, Placed
<1>2. CASE op'[v] = op[v]
  BY <1>2 DEF Coming
<1>3. CASE SearchStep(v) /\ op'[v] # op[v]
  <2>1. \A x \in Entities, row \in I!Rows \ {"absent"} : ~I!Change(v, x, row)
    BY ChangeFacts
  <2>2. ~(I!Load(v) \/ I!Put(v) \/ I!PutAll(v) \/ I!QueryFails(v))
    BY LoadFacts, PutFacts, PutAllFacts, QueryFacts
  <2>3. \A p \in Processes : ~I!ColdSearch(v, p) /\ \A i \in I!Jobs : ~I!Take(v, p, i)
    BY ColdFacts, TakeFacts
  <2>4. \A x \in Entities : ~I!LoadKind(v, x)
    BY LoadKindFacts
  <2>5. \A some \in {Entities, {Entity1}} : ~I!AskReindex(v, some)
    BY <1>3 DEF I!AskReindex
  <2>6. I!Announce(v) \/ I!AnnounceFails(v)
    BY <1>3, <2>1, <2>2, <2>3, <2>4, <2>5 DEF SearchStep
  <2>7. op'[v] = I!Idle /\ I!At(v, "announce") /\ op[v].job.target = e
    BY <1>0, <1>1, <2>6, AnnounceFacts DEF I!At
  <2>8. ~I!AnnounceFails(v)
    BY PlatformConstants, <2>7 DEF SearchInv, I!Unheard, I!AnnounceFails
  <2>9. I!Announce(v)
    BY <2>6, <2>8
  <2>10. jobs[j].status \notin {"completed", "failed"}
    BY <1>0, <2>7 DEF I!Unheard
  <2>11. CASE jobs[j].status = "none"
    BY <1>0, <2>9, <2>11, <1>1 DEF I!Announce, JobRecord, Coming
  <2>12. CASE jobs[j].status = "waiting"
    BY <1>0, <2>9, <2>12, <1>1 DEF I!Announce, Coming
  <2>13. CASE jobs[j].status = "active"
    <3>1. PICK u \in Workers : op[u].in # None /\ op[u].job = j
      BY <1>1, <2>13 DEF Worked, RunsIt
    <3>2. u # v /\ op'[u] = op[u] /\ Placed(op[u]) /\ op[u].pc \in {"idle", "announce", "load", "put", "collect"}
      BY <1>1, <1>3, <3>1, Unmoved DEF SearchInv, Task
    <3>3. op[u].pc # "put"
      BY <1>0, <2>7, <3>1 DEF I!Unheard, I!Busy, I!At
    <3>4. op[u].pc \notin {"idle", "announce"}
      BY <3>1, <3>2, DocumentTypes DEF Placed
    <3>5. op[u].pc # "collect"
      BY <1>1, <3>1, <3>2, JobShapes DEF Placed
    <3> QED
      BY <1>1, <3>1, <3>2, <3>3, <3>4, <3>5 DEF Coming
  <2> QED
    BY <1>1, <2>10, <2>11, <2>12, <2>13 DEF JobRecord
<1>4. ASSUME NEW p \in Processes, I!Restart(p), op[v].in = p
      PROVE  FALSE
  BY <1>1, <1>4, PlatformConstants
<1> QED
  BY <1>2, <1>3, <1>4, Moved

LEMMA ComingStays ==
  ASSUME SearchInv, I!Next, NEW e \in Entities, ~I!Unheard(e), ~I!GivenUp(e), Coming(e)
  PROVE  Coming(e)' \/ \E w \in Workers : PutsFresh(w, e)
BY Announced, AnnounceStays, WaitingStays, LoadStays, PutStays DEF Fresh, Coming

LEMMA RepairedFollows ==
  ASSUME SearchInv, I!Next, NEW p \in Processes, NEW e \in Entities, I!Repaired(p)
  PROVE  Followed(p, e)'
<1>1. PICK w \in Workers \ crossed : I!Puts(w) /\ op[w].in = p /\ I!Whole(w)
  BY DEF I!Repaired
<1>2. /\ op[w].in # None /\ op'[w] = I!Idle /\ faults' = faults /\ op[w].pc = "collect"
      /\ op[w].job # None => op[w].job.target = Entities
  BY <1>1 DEF I!Puts, I!Ends, I!Busy, I!Whole, I!At
<1>3. op'[w] # op[w] /\ faults \in 0..MaxFaults /\ MaxFaults \in Nat
  BY <1>2, DocumentTypes, PlatformConstants DEF SearchInv
<1>4. ~\E q \in Processes : I!Restart(q)
  BY <1>2, <1>3, RestartFacts
<1>5. SearchStep(w)
  BY <1>3, <1>4, Moved
<1>6. ~I!QueryFails(w)
  BY <1>2, <1>3, QueryFacts
<1>7. I!PutAll(w)
  <2>1. \A x \in Entities, row \in I!Rows \ {"absent"} : ~I!Change(w, x, row)
    BY <1>2, ChangeFacts
  <2>2. ~(I!Announce(w) \/ I!AnnounceFails(w) \/ I!Load(w) \/ I!Put(w))
    BY <1>2, AnnounceFacts, LoadFacts, PutFacts
  <2>3. \A q \in Processes : ~I!ColdSearch(w, q) /\ \A i \in I!Jobs : ~I!Take(w, q, i)
    BY <1>2, ColdFacts, TakeFacts
  <2>4. \A x \in Entities : ~I!LoadKind(w, x)
    BY <1>2, LoadKindFacts, DocumentTypes
  <2>5. \A some \in {Entities, {Entity1}} : ~I!AskReindex(w, some)
    BY <1>3 DEF I!AskReindex
  <2> QED
    BY <1>5, <1>6, <2>1, <2>2, <2>3, <2>4, <2>5 DEF SearchStep
<1>8. Uncrossed(w) /\ Placed(op[w])
  BY <1>1, <1>2 DEF SearchInv
<1>9. KindsOf(op[w]) = Entities /\ op[w].todo = {}
  BY <1>2, <1>7, PutAllFacts DEF KindsOf
<1>10. op[w].docs[e] = I!Document(catalog[e]) /\ engine[p][e] = None
  BY <1>1, <1>2, <1>8, <1>9 DEF Uncrossed, I!Empty
<1>11. engine'[p][e] = I!Document(catalog'[e])
  BY <1>1, <1>7, <1>10, PutAllFacts
<1>12. \A v \in Workers : op'[v].in # p
  BY <1>1, <1>5, <1>8, Unmoved, <1>2, DocumentTypes, PlatformConstants DEF Uncrossed
<1> QED
  BY <1>11, <1>12 DEF Followed, Fresh

LEMMA PutFollows ==
  ASSUME SearchInv, I!Next, NEW p \in Processes, NEW e \in Entities, NEW w \in Workers,
         PutsFresh(w, e), ~I!RanElsewhere(p, e), ~I!RanBeside(p, e)
  PROVE  Followed(p, e)'
<1>1. I!Put(w) /\ op[w].job \in JobsOf(e) /\ op[w].docs[e] = I!Document(catalog[e])
  BY DEF PutsFresh, Fresh
<1>2. /\ op'[w] = I!Idle /\ op[w].in # None /\ op[w].job # None /\ op[w].pc = "put"
      /\ op[w].job.target = e /\ faults' = faults /\ catalog' = catalog
  BY <1>1, PutFacts, JobShapes
<1>3. I!Puts(w) /\ I!Targets(w) = {e}
  BY <1>2 DEF I!Puts, I!Ends, I!Busy, I!Targets, I!At
<1>4. op[w].in = p
  BY <1>2, <1>3 DEF I!RanElsewhere
<1>5. engine'[p][e] = I!Document(catalog'[e])
  BY <1>1, <1>2, <1>4, PutFacts
<1>6. \A v \in Workers \ {w} : op'[v] = op[v]
  BY <1>1, Unmoved DEF SearchStep
<1>7. \A v \in Workers \ {w} : op[v].in = p => e \notin I!Targets(v)
  BY <1>3, <1>4 DEF I!RanBeside
<1>8. ASSUME NEW v \in Workers, op'[v].in = p
      PROVE  op'[v].pc # "collect" /\ (op'[v].pc = "put" => op'[v].job \notin JobsOf(e))
  BY <1>2, <1>8, DocumentTypes, PlatformConstants, <1>6, <1>7, JobShapes DEF I!Targets, I!Busy,
     I!At
<1> QED
  BY <1>5, <1>8 DEF Followed, Fresh

\* What the runs of a process hold of an entity, when nothing is coming.
LEMMA RunsFollow ==
  ASSUME SearchInv, I!Next, NEW p \in Processes, NEW e \in Entities, Followed(p, e),
         ~Coming(e), ~Coming(e)', ~I!RanBeside(p, e), ~I!RanBeside(p, e)', NEW v \in Workers, op'[v].in = p
  PROVE  /\ op'[v].pc = "put" /\ op'[v].job \in JobsOf(e) => op'[v].docs[e] = I!Document(catalog'[e])
         /\ op'[v].pc = "collect" /\ e \in KindsOf(op'[v]) =>
              /\ engine'[p][e] = None
              /\ IF e \in op'[v].todo THEN op'[v].docs[e] = None ELSE op'[v].docs[e] = I!Document(catalog'[e])
<1> DEFINE Puts == op'[v].pc = "put" /\ op'[v].job \in JobsOf(e) => op'[v].docs[e] = I!Document(catalog'[e])
           Gets == op'[v].pc = "collect" /\ e \in KindsOf(op'[v]) =>
                     /\ engine'[p][e] = None
                     /\ IF e \in op'[v].todo THEN op'[v].docs[e] = None ELSE op'[v].docs[e] = I!Document(catalog'[e])
<1>0. /\ catalog'[e] = catalog[e] /\ p # None /\ I!Empty[e] = None /\ I!Idle.in = None
      /\ Placed(op[v])
  BY Announced, PlatformConstants, DocumentTypes DEF I!Empty, SearchInv
<1>1. CASE op'[v] = op[v]
  <2>1. Puts
    BY <1>0, <1>1 DEF Followed, Fresh
  <2>2. ASSUME op[v].pc = "collect", e \in KindsOf(op[v])
        PROVE  engine'[p][e] = engine[p][e]
    <3>0. op[v].in = p /\ e \in I!Targets(v) /\ e \in I!Targets(v)'
      BY <1>0, <1>1, <2>2 DEF I!Targets, I!Busy, I!At
    <3>1. ASSUME NEW q \in Processes, I!Restart(q)
          PROVE  engine'[p][e] = engine[p][e]
      BY <1>0, <1>1, <3>1, RestartFacts
    <3>2. ASSUME NEW w \in Workers, SearchStep(w), w = v
          PROVE  op' = op
      BY <3>2, Unmoved, <1>1 DEF Onto, SearchInv
    <3>3. ASSUME NEW w \in Workers \ {v}, SearchStep(w)
          PROVE  engine'[p][e] = engine[p][e]
      <4>0. /\ op[w].in = p => e \notin I!Targets(w)
            /\ op'[w].in = p => e \notin I!Targets(w)'
        BY <1>1, <3>0 DEF I!RanBeside
      <4>1. ASSUME NEW q \in Processes, NEW i \in I!Jobs, I!Take(w, q, i)
            PROVE  engine'[p][e] = engine[p][e]
        BY <1>0, <4>0, <4>1, TakeFacts DEF I!Targets, I!Busy, I!At
      <4>2. ASSUME NEW q \in Processes, I!ColdSearch(w, q)
            PROVE  engine'[p][e] = engine[p][e]
        BY <1>0, <4>0, <4>2, ColdFacts DEF I!Targets, I!Busy, I!At
      <4>3. ASSUME I!Put(w)
            PROVE  engine'[p][e] = engine[p][e]
        <5>1. PICK q \in Processes, x \in Entities :
                /\ op[w].in = q /\ op[w].job.target = x
                /\ \A y \in Entities \ {x} : engine'[q][y] = engine[q][y]
                /\ \A r \in Processes \ {q} : engine'[r] = engine[r]
          BY <4>3, PutFacts
        <5>2. q = p => x # e
          BY <4>3, PutFacts, <4>0, <5>1 DEF I!Targets, I!Busy, I!At
        <5> QED
          BY <5>1, <5>2
      <4>4. ASSUME I!PutAll(w)
            PROVE  engine'[p][e] = engine[p][e]
        <5>1. PICK q \in Processes : op[w].in = q /\ \A r \in Processes \ {q} : engine'[r] = engine[r]
          BY <4>4, PutAllFacts
        <5>2. q # p
          BY <4>0, <4>4, <5>1, PutAllFacts DEF I!Targets, I!Busy, I!At
        <5> QED
          BY <5>1, <5>2
      <4>5. CASE I!Announce(w) \/ I!AnnounceFails(w) \/ I!Load(w) \/ I!QueryFails(w)
        BY <4>5, AnnounceFacts, LoadFacts, QueryFacts
      <4>6. \A x \in Entities, row \in I!Rows \ {"absent"} : I!Change(w, x, row) => engine' = engine
        BY ChangeFacts
      <4>7. \A x \in Entities : I!LoadKind(w, x) => engine' = engine
        BY LoadKindFacts
      <4>8. \A some \in {Entities, {Entity1}} : I!AskReindex(w, some) => engine' = engine
        BY DEF I!AskReindex
      <4> QED
        BY <3>3, <4>1, <4>2, <4>3, <4>4, <4>5, <4>6, <4>7, <4>8 DEF SearchStep
    <3>4. ASSUME SearchStep(v)
          PROVE  engine'[p][e] = engine[p][e]
      <4>1. op' = op
        BY <3>2, <3>4
      <4>2. \A x \in Entities : ~I!LoadKind(v, x)
        BY <2>2, <4>1, LoadKindFacts, DocumentTypes
      <4>3. ~I!PutAll(v) /\ ~I!Put(v) /\ ~I!QueryFails(v)
        BY <1>0, <1>1, <3>0, PutAllFacts, PutFacts, QueryFacts
      <4>4. \A q \in Processes : ~I!ColdSearch(v, q) /\ \A i \in I!Jobs : ~I!Take(v, q, i)
        BY <2>2, ColdFacts, TakeFacts
      <4>5. \A some \in {Entities, {Entity1}} : I!AskReindex(v, some) => engine' = engine
        BY DEF I!AskReindex
      <4>6. \A x \in Entities, row \in I!Rows \ {"absent"} : ~I!Change(v, x, row)
        BY <2>2, ChangeFacts
      <4>7. ~(I!Announce(v) \/ I!AnnounceFails(v) \/ I!Load(v))
        BY <2>2, AnnounceFacts, LoadFacts
      <4> QED
        BY <3>4, <4>2, <4>3, <4>4, <4>5, <4>6, <4>7 DEF SearchStep
    <3>5. \A j \in I!Jobs : I!Forget(j) => engine' = engine
      BY DEF I!Forget
    <3> QED
      BY <3>1, <3>3, <3>4, <3>5, SearchCases
  <2>3. Gets
    BY <1>0, <1>1, <2>2 DEF Followed, Fresh
  <2> QED
    BY <2>1, <2>3
<1>2. CASE op'[v] # op[v]
  <2>1. SearchStep(v)
    BY <1>0, <1>2, Moved, RestartFacts
  <2>2. ASSUME NEW q \in Processes, NEW i \in I!Jobs, I!Take(v, q, i)
        PROVE  Puts /\ Gets
    BY <2>2, TakeFacts, PlatformConstants, <1>0 DEF Coming, I!Start, KindsOf
  <2>3. ASSUME NEW q \in Processes, I!ColdSearch(v, q)
        PROVE  Puts /\ Gets
    BY <1>0, <2>3, ColdFacts
  <2>4. ~I!Load(v) \/ op[v].job \notin JobsOf(e)
    BY LoadFacts DEF Coming
  <2>5. ASSUME I!Load(v)
        PROVE  Puts /\ Gets
    BY <2>4, <2>5, LoadFacts
  <2>6. ASSUME NEW x \in Entities, I!LoadKind(v, x)
        PROVE  Puts /\ Gets
    BY <2>6, LoadKindFacts, <1>0 DEF KindsOf, Followed, Fresh
  <2>7. \A x \in Entities, row \in I!Rows \ {"absent"} : ~I!Change(v, x, row)
    BY <1>0, ChangeFacts
  <2>8. ~(I!Announce(v) \/ I!AnnounceFails(v) \/ I!Put(v) \/ I!PutAll(v) \/ I!QueryFails(v))
    BY <1>0, AnnounceFacts, PutFacts, PutAllFacts, QueryFacts
  <2>9. \A some \in {Entities, {Entity1}} : ~I!AskReindex(v, some)
    BY <1>2 DEF I!AskReindex
  <2> HIDE DEF Puts, Gets
  <2>10. Puts /\ Gets
    BY <2>1, <2>2, <2>3, <2>5, <2>6, <2>7, <2>8, <2>9 DEF SearchStep
  <2> QED
    BY <2>10 DEF Puts, Gets
<1> QED
  BY <1>1, <1>2

\* What the index of a warm process holds of an entity, when nothing is coming.
LEMMA IndexFollows ==
  ASSUME SearchInv, I!Next, NEW p \in Processes, NEW e \in Entities, Followed(p, e),
         ~Coming(e), ~Coming(e)', ~I!LeftOut(p, e), p \in warm'
  PROVE  engine'[p][e] = I!Document(catalog'[e]) \/ Collecting(p)'
<1> DEFINE Goal == engine'[p][e] = I!Document(catalog'[e]) \/ Collecting(p)'
<1>0. catalog'[e] = catalog[e]
  BY Announced
<1>1. ASSUME NEW v \in Workers, op'[v].pc = "collect", op'[v].in = p
      PROVE  Goal
  BY <1>1 DEF Collecting
<1>2. ASSUME p \in warm, engine'[p][e] = engine[p][e],
             \A v \in Workers : op[v].pc = "collect" /\ op[v].in = p =>
                                  op'[v].pc = "collect" /\ op'[v].in = p
      PROVE  Goal
  BY <1>0, <1>2 DEF Followed, Fresh, Collecting
<1>3. ASSUME NEW w \in Workers, SearchStep(w)
      PROVE  Goal
  <2>0. \A v \in Workers \ {w} : op'[v] = op[v]
    BY <1>3, Unmoved
  <2>1. ASSUME p \in warm, engine'[p][e] = engine[p][e],
               op[w].pc # "collect" \/ op[w].in # p \/ op'[w] = op[w]
        PROVE  Goal
    BY <1>2, <2>0, <2>1
  <2>2. ASSUME NEW x \in Entities, NEW row \in I!Rows \ {"absent"}, I!Change(w, x, row)
        PROVE  Goal
    BY <2>1, <2>2, ChangeFacts
  <2>3. ASSUME NEW some \in {Entities, {Entity1}}, I!AskReindex(w, some)
        PROVE  Goal
    BY <2>1, <2>3 DEF I!AskReindex
  <2>4. CASE I!Announce(w) \/ I!AnnounceFails(w) \/ I!Load(w)
    BY <2>1, <2>4, AnnounceFacts, LoadFacts
  <2>5. ASSUME NEW x \in Entities, I!LoadKind(w, x)
        PROVE  Goal
    BY <1>1, <2>1, <2>5, LoadKindFacts
  <2>6. ASSUME NEW q \in Processes, NEW i \in I!Jobs, I!Take(w, q, i)
        PROVE  Goal
    BY <1>1, <2>6, TakeFacts, <2>1
  <2>7. ASSUME NEW q \in Processes, I!ColdSearch(w, q)
        PROVE  Goal
    BY <1>1, <2>7, ColdFacts, <2>1
  <2>8. ASSUME I!Put(w)
        PROVE  Goal
    <3>1. PICK q \in Processes, x \in Entities :
            /\ op[w].in = q /\ op[w].job \in JobsOf(x) /\ op[w].job.target = x
            /\ engine'[q][x] = op[w].docs[x]
            /\ \A y \in Entities \ {x} : engine'[q][y] = engine[q][y]
            /\ \A r \in Processes \ {q} : engine'[r] = engine[r] /\ (r \in warm' <=> r \in warm)
      BY <2>8, PutFacts
    <3>2. /\ op[w].pc = "put" /\ op'[w] = I!Idle /\ op[w].in # None /\ faults' = faults
      BY <2>8, PutFacts
    <3>3. CASE q # p
      BY <2>1, <3>1, <3>2, <3>3
    <3>4. CASE q = p /\ x = e
      BY <1>0, <3>1, <3>2, <3>4 DEF Followed, Fresh
    <3>5. CASE q = p /\ x # e
      BY <3>1, <3>2, <3>5, <2>1 DEF I!Puts, I!Ends, I!Busy, I!Targets, I!At, I!LeftOut
    <3> QED
      BY <3>3, <3>4, <3>5
  <2>9. ASSUME I!PutAll(w)
        PROVE  Goal
    <3>1. PICK q \in Processes :
            /\ op[w].in = q
            /\ \A y \in Entities :
                 engine'[q][y] = IF op[w].docs[y] = None THEN engine[q][y] ELSE op[w].docs[y]
            /\ \A r \in Processes \ {q} : engine'[r] = engine[r] /\ (r \in warm' <=> r \in warm)
      BY <2>9, PutAllFacts
    <3>2. /\ op[w].pc = "collect" /\ op'[w] = I!Idle /\ op[w].in # None /\ faults' = faults
          /\ op[w].todo = {}
      BY <2>9, PutAllFacts
    <3>3. CASE q # p
      BY <2>1, <3>1, <3>2, <3>3
    <3>4. CASE q = p /\ e \in KindsOf(op[w])
      BY <1>0, <3>1, <3>2, <3>4 DEF Followed, Fresh
    <3>5. CASE q = p /\ e \notin KindsOf(op[w])
      BY <3>1, <3>2, <3>5 DEF I!Puts, I!Ends, I!Busy, I!At, KindsOf, I!Whole, I!LeftOut
    <3> QED
      BY <3>3, <3>4, <3>5
  <2>10. ASSUME I!QueryFails(w)
         PROVE  Goal
    BY <2>1, <2>10, QueryFacts
  <2> HIDE DEF Goal
  <2>11. (\E q \in Processes : I!ColdSearch(w, q) \/ \E i \in I!Jobs : I!Take(w, q, i)) => Goal
    BY <2>6, <2>7
  <2>12. I!Announce(w) \/ I!AnnounceFails(w) \/ I!Load(w) => Goal
    BY <2>4
  <2> QED
    BY <1>3, <2>2, <2>3, <2>5, <2>8, <2>9, <2>10, <2>11, <2>12 DEF SearchStep
<1>4. ASSUME NEW q \in Processes, I!Restart(q)
      PROVE  Goal
  BY <1>2, <1>4, RestartFacts
<1>5. ASSUME NEW j \in I!Jobs, I!Forget(j)
      PROVE  Goal
  BY <1>2, <1>5 DEF I!Forget
<1> HIDE DEF Goal
<1>6. Goal
  BY <1>3, <1>4, <1>5, SearchCases
<1> QED
  BY <1>6 DEF Goal

LEMMA StillFollowed ==
  ASSUME SearchInv, I!Next, BehindStep, NEW p \in Processes, NEW e \in Entities,
         <<p, e>> \notin behind', ~I!RanBeside(p, e)'
  PROVE  Followed(p, e)'
<1>0. /\ ~I!Unheard(e) /\ ~I!GivenUp(e)
      /\ ~I!RanElsewhere(p, e) /\ ~I!RanBeside(p, e) /\ ~I!LeftOut(p, e)
      /\ <<p, e>> \notin behind \/ I!Repaired(p)
  BY NotBehind
<1>1. CASE I!Repaired(p)
  BY <1>1, RepairedFollows
<1>2. CASE <<p, e>> \notin behind
  <2>1. Followed(p, e)
    BY <1>0, <1>2 DEF SearchInv, Watched
  <2>2. CASE Coming(e)'
    BY <2>2 DEF Followed
  <2>3. CASE Coming(e) /\ ~Coming(e)'
    <3>1. PICK w \in Workers : PutsFresh(w, e)
      BY <1>0, <2>3, ComingStays
    <3> QED
      BY <1>0, <3>1, PutFollows
  <2>4. CASE ~Coming(e) /\ ~Coming(e)'
    BY <1>0, <2>1, <2>4, IndexFollows, RunsFollow DEF Followed, Fresh
  <2> QED
    BY <2>2, <2>3, <2>4
<1> QED
  BY <1>0, <1>1, <1>2

LEMMA SearchNext ==
  ASSUME SearchInv, I!MCNext
  PROVE  SearchInv'
<1>1. I!Next /\ BehindStep /\ CrossedStep
  BY DEF I!MCNext, BehindStep, CrossedStep
<1>2. /\ Engines /\ left' \in Nat /\ faults' \in 0..MaxFaults
      /\ faults' = faults \/ faults' = faults - 1
      /\ catalog' \in [Entities -> I!Rows]
      /\ op' \in [Workers -> Task] /\ \A w \in Workers : Placed(op'[w])
      /\ jobs' \in [I!Jobs -> JobRecord] /\ \A j \in I!Jobs : JobGoes(j)
  BY <1>1, SearchBounds
<1>3. \A w \in Workers : op'[w].in # None /\ w \notin crossed' => Uncrossed(w)'
  BY <1>1, StillUncrossed
<1>4. \A w \in crossed' : op'[w].in # None
  BY <1>1 DEF CrossedStep
<1>5. \A e \in Entities : Removal(e)'
  BY <1>1, Removals
<1>6. \A j \in I!Jobs : Tried(j)' /\ Worked(j)'
  BY <1>2, JobsCounted
<1>7. \A p \in Processes, e \in Entities : Watched(p, e)' => Followed(p, e)'
  BY <1>1, StillFollowed DEF Watched
<1>8. \A w \in Workers : Placed(op[w])'
  BY <1>2
<1> QED
  BY <1>2, <1>3, <1>4, <1>5, <1>6, <1>7, <1>8 DEF SearchInv, Engines

LEMMA SearchStutter ==
  ASSUME SearchInv, UNCHANGED <<op, left, faults, OfSearch>>
  PROVE  SearchInv'
<1>1. UNCHANGED <<op, left, faults, catalog, jobs, engine, warm, behind, crossed>>
  BY DEF OfSearch
<1>2. \A w \in Workers : Uncrossed(w)' <=> Uncrossed(w)
  BY <1>1 DEF Uncrossed
<1>3. \A e \in Entities : Removal(e)' <=> Removal(e)
  BY <1>1 DEF Removal
<1>4. \A j \in I!Jobs : (Tried(j)' <=> Tried(j)) /\ (Worked(j)' <=> Worked(j))
  BY <1>1 DEF Tried, Worked, RunsIt
<1>5. \A e \in Entities : Coming(e)' <=> Coming(e)
  BY <1>1 DEF Coming
<1>6. \A p \in Processes, e \in Entities : Watched(p, e)' <=> Watched(p, e)
  BY <1>1 DEF Watched, I!RanBeside, I!Targets, I!Busy, I!At
<1>7. \A p \in Processes, e \in Entities : Followed(p, e)' <=> Followed(p, e)
  BY <1>1, <1>5 DEF Followed, Fresh, Collecting
<1> QED
  BY <1>1, <1>2, <1>3, <1>4, <1>6, <1>7 DEF SearchInv

LEMMA SearchInit ==
  ASSUME I!MCInit
  PROVE  SearchInv
<1>1. /\ catalog = [e \in Entities |-> IF e = Entity1 THEN "text" ELSE "absent"]
      /\ jobs = [j \in I!Jobs |-> I!NoJob]
      /\ engine = [p \in Processes |-> I!Empty] /\ warm = {}
      /\ op = [w \in Workers |-> I!Idle]
      /\ left = MaxChanges /\ faults = MaxFaults /\ behind = {} /\ crossed = {}
  BY DEF I!MCInit, I!Init
<1>2. /\ MaxChanges \in Nat /\ MaxFaults \in Nat /\ Attempts \in Nat \ {0} /\ "text" \in Texts
  BY PlatformConstants
<1>3. I!Idle.pc = "idle" /\ I!Idle.in = None /\ I!Idle.job = None /\ I!Idle \in Task /\ Placed(I!Idle)
      /\ I!Empty \in I!Documents
  BY DEF I!Empty, I!Documents, I!Idle, Task, Placed
<1>4. \A j \in I!Jobs : j # None
  BY PlatformConstants
<1>5. catalog \in [Entities -> I!Rows]
  BY <1>1, <1>2 DEF I!Rows
<1>6. \A j \in I!Jobs : jobs[j].status = "none" /\ jobs[j].tries = 0 /\ jobs[j] \in JobRecord
  BY <1>1 DEF I!NoJob, JobRecord
<1>7. \A j \in I!Jobs : Tried(j) /\ Worked(j)
  BY <1>1, <1>2, <1>3, <1>6 DEF Tried, Worked, RunsIt
<1>8. \A e \in Entities : Removal(e)
  BY JobShapes, <1>1, <1>3, <1>4, <1>6 DEF JobsOf, Removal
<1>9. \A p \in Processes, e \in Entities : Followed(p, e)
  BY <1>1, <1>3 DEF Followed
<1>10. jobs \in [I!Jobs -> JobRecord]
  BY <1>1, <1>6
<1> QED
  BY <1>1, <1>2, <1>3, <1>5, <1>7, <1>8, <1>9, <1>10 DEF SearchInv

LEMMA SearchCount ==
  /\ I!Cardinality({}) = 0
  /\ \A x : I!Cardinality({x}) = 1
<1>1. \A X : I!Cardinality(X) = Cardinality(X)
  BY Zenon DEF Cardinality, I!Cardinality
<1> QED
  BY <1>1, FS_EmptySet, FS_Singleton

LEMMA SearchImplied ==
  ASSUME SearchInv
  PROVE  I!TypeOK /\ I!IndexFollowsUnlessBehind
<1>1. I!TypeOK
  <2>1. \A j \in I!Jobs : jobs[j].tries \in 0..Attempts + MaxFaults
    BY PlatformConstants DEF SearchInv, JobRecord, Tried
  <2>2. jobs \in [I!Jobs -> [status : {"none", "waiting", "active", "completed", "failed"},
                             tries : 0..Attempts + MaxFaults]]
    BY <2>1 DEF SearchInv, JobRecord
  <2>3. ASSUME NEW j \in I!Jobs
        PROVE  I!Cardinality({w \in Workers : op[w].in # None /\ op[w].job = j})
                 = IF jobs[j].status = "active" THEN 1 ELSE 0
    <3>0. Worked(j)
      BY DEF SearchInv
    <3>1. CASE jobs[j].status = "active"
      <4>1. PICK w \in Workers : RunsIt(w, j)
        BY <3>0, <3>1 DEF Worked
      <4>2. {v \in Workers : op[v].in # None /\ op[v].job = j} = {w}
        BY <3>0, <4>1 DEF Worked, RunsIt
      <4> QED
        BY <3>1, <4>2, SearchCount
    <3>2. CASE jobs[j].status # "active"
      BY <3>0, <3>2, SearchCount DEF Worked, RunsIt
    <3> QED
      BY <3>1, <3>2
  <2>4. op \in [Workers -> [pc : {"idle", "announce", "load", "put", "collect"},
                            in : Processes \cup {None}, job : I!Jobs \cup {None},
                            docs : I!Documents, todo : SUBSET Entities]]
    BY DEF SearchInv, Task
  <2>5. faults \in Nat
    BY PlatformConstants DEF SearchInv
  <2> QED
    BY <2>2, <2>3, <2>4, <2>5 DEF I!TypeOK, SearchInv
<1>2. I!IndexFollowsUnlessBehind
  <2> SUFFICES ASSUME I!AtRest, NEW p \in warm, NEW e \in Entities, <<p, e>> \notin behind
               PROVE  engine[p][e] = I!Document(catalog[e])
    BY DEF I!IndexFollowsUnlessBehind
  <2>1. p \in Processes /\ p # None
    BY PlatformConstants DEF SearchInv
  <2>2. \A w \in Workers : op[w].in = None /\ op[w].pc = "idle"
    BY DocumentTypes DEF I!AtRest
  <2>3. ~Coming(e) /\ ~Collecting(p) /\ ~I!RanBeside(p, e)
    BY JobShapes, <2>1, <2>2 DEF Coming, Collecting, I!RanBeside, I!AtRest
  <2>4. Followed(p, e)
    BY <2>1, <2>3 DEF SearchInv, Watched
  <2> QED
    BY <2>3, <2>4 DEF Followed, Fresh
<1> QED
  BY <1>1, <1>2

-----------------------------------------------------------------------------
\* One of them at a time.

\* Of the queue nothing is said.
PlatformInv ==
  /\ part \in {"keys", "tasks", "queue", "sessions", "tickets", "notices", "brokers", "search"}
  /\ part = "keys" => KeyInv
  /\ part = "tasks" => TaskInv
  /\ part = "sessions" => SessionInv
  /\ part = "tickets" => TicketInv
  /\ part = "notices" => NoticeInv
  /\ part = "brokers" => BrokerInv
  /\ part = "search" => SearchInv

LEMMA PlatformStarts == Init => PlatformInv
<1>1. Init => \/ part = "keys" /\ KeyInv
              \/ part = "tasks" /\ TaskInv
              \/ part = "queue"
              \/ part = "sessions" /\ SessionInv
              \/ part = "tickets" /\ TicketInv
              \/ part = "notices" /\ NoticeInv
              \/ part = "brokers" /\ BrokerInv
              \/ part = "search" /\ SearchInv
  BY KeysInit, TasksInit, SessionsInit, TicketsInit, NoticesInit, BrokersInit, SearchInit DEF Init
<1> QED
  BY <1>1 DEF PlatformInv

LEMMA PlatformStutters ==
  ASSUME PlatformInv, UNCHANGED vars
  PROVE  PlatformInv'
<1>1. /\ part' = part /\ UNCHANGED <<op, left, faults, OfKeys, OfTasks, OfSessions, OfTickets>>
      /\ UNCHANGED <<OfNotices, OfBrokers, OfSearch>>
  BY DEF vars
<1>2. /\ KeyInv => KeyInv'
      /\ TaskInv => TaskInv'
      /\ SessionInv => SessionInv'
      /\ TicketInv => TicketInv'
      /\ NoticeInv => NoticeInv'
      /\ BrokerInv => BrokerInv'
      /\ SearchInv => SearchInv'
  BY <1>1, KeysStutter, TasksStutter, SessionsStutter, TicketsStutter, NoticesStutter,
     BrokersStutter, SearchStutter
<1> QED
  BY <1>1, <1>2 DEF PlatformInv

LEMMA PlatformSteps ==
  ASSUME PlatformInv, [Next]_vars
  PROVE  PlatformInv'
<1>1. CASE UNCHANGED vars
  BY <1>1, PlatformStutters
<1>2. CASE Next
  <2>1. /\ part' = part
        /\ \/ part = "keys" /\ K!MCNext
           \/ part = "tasks" /\ T!MCNext
           \/ part = "queue"
           \/ part = "sessions" /\ S!MCNext
           \/ part = "tickets" /\ C!MCNext
           \/ part = "notices" /\ N!MCNext
           \/ part = "brokers" /\ B!MCNext
           \/ part = "search" /\ I!MCNext
    BY <1>2 DEF Next
  <2>2. /\ part = "keys" /\ K!MCNext => KeyInv'
        /\ part = "tasks" /\ T!MCNext => TaskInv'
        /\ part = "sessions" /\ S!MCNext => SessionInv'
        /\ part = "tickets" /\ C!MCNext => TicketInv'
        /\ part = "notices" /\ N!MCNext => NoticeInv'
        /\ part = "brokers" /\ B!MCNext => BrokerInv'
        /\ part = "search" /\ I!MCNext => SearchInv'
    BY KeysNext, TasksNext, SessionsNext, TicketsNext, NoticesNext, BrokersNext, SearchNext
       DEF PlatformInv
  <2> QED
    BY <2>1, <2>2 DEF PlatformInv
<1> QED
  BY <1>1, <1>2

LEMMA PlatformHolds == Spec => []PlatformInv
  BY PlatformStarts, PlatformSteps, PTL DEF Spec

\* For every set of services, requests, records and messages, the state of each service
\* but the queue keeps its shape.
THEOREM PlatformIsTyped == Spec => [](part # "queue" => TypeOK)
<1>1. PlatformInv => (part # "queue" => TypeOK)
  <2>1. /\ KeyInv => K!TypeOK
        /\ TaskInv => T!TypeOK
        /\ SessionInv => S!TypeOK
        /\ TicketInv => C!TypeOK
        /\ NoticeInv => N!TypeOK
        /\ BrokerInv => B!TypeOK
        /\ SearchInv => I!TypeOK
    BY KeysImplied, TasksImplied, SessionsImplied, TicketsImplied, NoticesImplied,
       BrokersImplied, SearchImplied
  <2> QED
    BY <2>1 DEF PlatformInv, TypeOK
<1> QED
  BY <1>1, PlatformHolds, PTL

\* However requests with the same keys overlap, fail and are repeated, with either store:
\* a key's operation takes effect once and its answer goes to its own request, unless the
\* record of the key was forgotten.
THEOREM KeysAreIdempotent == Spec => []IdempotentUnlessForgotten
<1>1. PlatformInv => IdempotentUnlessForgotten
  BY KeysImplied DEF PlatformInv, IdempotentUnlessForgotten
<1> QED
  BY <1>1, PlatformHolds, PTL

\* For any number of instances, starts, stops and timers: a task runs alone as long as no
\* renewal of its lock is late, and a running scheduler keeps one chain of runs.
THEOREM TasksRunAlone == Spec => []OneRunUnlessDisturbed
<1>1. PlatformInv => OneRunUnlessDisturbed
  BY TasksImplied DEF PlatformInv, OneRunUnlessDisturbed
<1> QED
  BY <1>1, PlatformHolds, PTL

\* However sign-ins, refreshes, password resets, suspensions and sign-ups of an account
\* overlap and break off: no session outlives what should have ended it, a challenge
\* yields one session, and refresh tokens follow one another, unless requests overtook
\* each other.
THEOREM SessionsAreEnded == Spec => []SessionsUnlessOvertaken
<1>1. PlatformInv => SessionsUnlessOvertaken
  BY SessionsImplied DEF PlatformInv, SessionsUnlessOvertaken
<1> QED
  BY <1>1, PlatformHolds, PTL

\* For any number of requests about any number of tickets: a ticket's row, its audit trail
\* and what was announced agree, unless requests overlapped on it or died.
THEOREM TicketsLeaveATrail == Spec => []TrailUnlessMixed
<1>1. PlatformInv => TrailUnlessMixed
  BY TicketsImplied DEF PlatformInv, TrailUnlessMixed
<1> QED
  BY <1>1, PlatformHolds, PTL

\* For any number of events of any kinds: once its listeners are done every recipient has
\* what the event calls for and the preferences allow, unless something came between.
THEOREM NoticesAreAsAsked == Spec => []AsAskedUnlessShaken
<1>1. PlatformInv => AsAskedUnlessShaken
  BY NoticesImplied DEF PlatformInv, AsAskedUnlessShaken
<1> QED
  BY <1>1, PlatformHolds, PTL

\* Under any of three drivers, with any number of messages, loops, retries and faults: no
\* message is lost but by a fault that may have taken it, given up before its retries are
\* used up, or handled twice unless it was taken back; and a connected Redis subscription
\* has its one loop.
THEOREM MessagesAreDelivered == Spec => []DeliveredUnlessCut
<1>1. PlatformInv => DeliveredUnlessCut
  BY BrokersImplied DEF PlatformInv, DeliveredUnlessCut
<1> QED
  BY <1>1, PlatformHolds, PTL

\* For any number of processes, entities, changes and reindexes: a warm process finds
\* what the catalogue shows, unless its index is known to have fallen behind.
THEOREM SearchFollows == Spec => []IndexFollowsUnlessBehind
<1>1. PlatformInv => IndexFollowsUnlessBehind
  BY SearchImplied DEF PlatformInv, IndexFollowsUnlessBehind
<1> QED
  BY <1>1, PlatformHolds, PTL
=============================================================================
