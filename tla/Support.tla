------------------------------- MODULE Support -------------------------------
(***************************************************************************)
(* SupportTicketsService: customers, merchants and agents reply to a       *)
(* ticket, assign, escalate, merge and close it.  Each request loads the   *)
(* row, decides by what it read, writes the row by id in a later step,     *)
(* then audits the change and announces it.  Texts, attachments,           *)
(* categories, priorities, the assignee and who may see which ticket are   *)
(* left out.                                                               *)
(***************************************************************************)
EXTENDS Naturals

CONSTANTS
  Workers,     \* requests in flight
  Tickets,     \* ids of tickets that may be created
  None,
  MaxOps,      \* bound: requests received
  MaxFaults    \* bound: requests that die between two awaits

VARIABLES
  tickets,   \* the rows: [Tickets -> [status, closed, merged]]
  audit,     \* [Tickets -> the status its last audit record gives]
  told,      \* [Tickets -> the status its last TicketStatusChanged event gives]
  op, left, faults

vars == <<tickets, audit, told, op, left, faults>>

Busy == {"WAITING_CUSTOMER", "WAITING_MERCHANT", "ESCALATED"}

Ending == {"RESOLVED", "CLOSED", "CANCELLED"}

Queued == {"IN_PROGRESS", "PENDING"}

Statuses == {"OPEN", "ASSIGNED"} \cup Queued \cup Busy \cup Ending

\* SUPPORT_TICKET_TRANSITIONS.
Transitions(from) ==
  CASE from = "OPEN"      -> {"ASSIGNED"} \cup Queued \cup Busy \cup Ending
    [] from = "PENDING"   -> {"OPEN", "ASSIGNED", "IN_PROGRESS"} \cup Busy \cup Ending
    [] from = "ASSIGNED"  -> Queued \cup Busy \cup Ending
    [] from = "IN_PROGRESS" -> {"PENDING"} \cup Busy \cup Ending
    [] from = "WAITING_CUSTOMER" -> Queued \cup {"ESCALATED"} \cup Ending
    [] from = "WAITING_MERCHANT" -> Queued \cup {"ESCALATED"} \cup Ending
    [] from = "ESCALATED" -> {"IN_PROGRESS", "ASSIGNED"} \cup Ending
    [] from = "RESOLVED"  -> {"CLOSED", "OPEN", "IN_PROGRESS"}
    [] OTHER              -> {"OPEN"}

Allowed(from, to) == from = to \/ to \in Transitions(from)

Absent == [status |-> "NEW", closed |-> FALSE, merged |-> FALSE]

\* seen is the row the request has loaded.
Idle == [pc |-> "idle", kind |-> "none", ticket |-> None, seen |-> Absent, to |-> "OPEN"]

Init ==
  /\ tickets = [t \in Tickets |-> Absent]
  /\ audit = [t \in Tickets |-> "NEW"] /\ told = [t \in Tickets |-> "NEW"]
  /\ op = [w \in Workers |-> Idle]
  /\ left = MaxOps /\ faults = MaxFaults

Exists(t) == tickets[t].status # "NEW"

At(w, pc) == op[w].pc = pc

Become(w, self) == op' = [op EXCEPT ![w] = self]

Goto(w, pc) == Become(w, [op[w] EXCEPT !.pc = pc])

Done(w) == Become(w, Idle)

\* A request loads its ticket and passes its checks.
Load(w, t, kind, pc, to) ==
  /\ At(w, "idle") /\ Exists(t) /\ left > 0 /\ left' = left - 1
  /\ Become(w, [pc |-> pc, kind |-> kind, ticket |-> t, seen |-> tickets[t], to |-> to])
  /\ UNCHANGED <<tickets, audit, told, faults>>

-----------------------------------------------------------------------------
Create(w, t) ==
  /\ At(w, "idle") /\ ~Exists(t) /\ left > 0 /\ left' = left - 1
  /\ tickets' = [tickets EXCEPT ![t] = [Absent EXCEPT !.status = "OPEN"]]
  /\ Become(w, [Idle EXCEPT !.pc = "outbox", !.kind = "create", !.ticket = t])
  /\ UNCHANGED <<audit, told, faults>>

\* close, reopen, cancel, resolve and adminUpdate, through transitionStatus.
MoveStart(w, t, to) ==
  /\ Allowed(tickets[t].status, to)
  /\ Load(w, t, "move", "write", to)

\* The status a public reply gives the ticket; its own where it changes nothing.
AfterReply(from, byAgent) ==
  IF byAgent
  THEN IF from = "IN_PROGRESS" THEN "WAITING_CUSTOMER" ELSE from
  ELSE IF from \in {"WAITING_CUSTOMER", "WAITING_MERCHANT", "OPEN", "PENDING"}
       THEN "IN_PROGRESS" ELSE from

ReplyStart(w, t, byAgent) ==
  /\ tickets[t].status \notin {"CLOSED", "CANCELLED"}
  /\ Load(w, t, "reply", "message", AfterReply(tickets[t].status, byAgent))

\* An internal note is a message like any other, and changes no status.
NoteStart(w, t) ==
  /\ tickets[t].status \notin {"CLOSED", "CANCELLED"}
  /\ Load(w, t, "note", "message", tickets[t].status)

WriteMessage(w) ==
  /\ At(w, "message")
  /\ IF op[w].to = op[w].seen.status THEN Done(w) ELSE Goto(w, "write")
  /\ UNCHANGED <<tickets, audit, told, left, faults>>

AssignStart(w, t) ==
  LET from == tickets[t].status IN
  Load(w, t, "assign", "write", IF from \in {"OPEN", "PENDING"} THEN "ASSIGNED" ELSE from)

EscalateStart(w, t) ==
  /\ Allowed(tickets[t].status, "ESCALATED")
  /\ Load(w, t, "escalate", "write", "ESCALATED")

MergeStart(w, t, target) ==
  /\ t # target /\ Exists(target) /\ ~tickets[t].merged
  /\ Load(w, t, "merge", "write", "CLOSED")

-----------------------------------------------------------------------------
\* Mutation: closed_at is set on every ending, and never cleared.
NeverCleared(row, seen, to) == (to \in Ending /\ ~seen.closed) \/ row.closed

\* transitionStatus: set where it was read unset, cleared on OPEN, else left alone.
ClosedAt(row, seen, to) ==
  IF to \in Ending /\ ~seen.closed THEN TRUE
  ELSE IF to = "OPEN" THEN FALSE ELSE row.closed

Written(row, self) ==
  CASE self.kind \in {"move", "reply"} ->
         [row EXCEPT !.status = self.to, !.closed = ClosedAt(row, self.seen, self.to)]
    [] self.kind \in {"assign", "escalate"} -> [row EXCEPT !.status = self.to]
    [] OTHER -> [row EXCEPT !.status = "CLOSED", !.closed = TRUE, !.merged = TRUE]

Write(w) ==
  /\ At(w, "write")
  /\ tickets' = [tickets EXCEPT ![op[w].ticket] = Written(@, op[w])]
  /\ Goto(w, IF op[w].kind = "assign" THEN "outbox" ELSE "audit")
  /\ UNCHANGED <<audit, told, left, faults>>

AppendOutbox(w) ==
  /\ At(w, "outbox") /\ Goto(w, "audit")
  /\ UNCHANGED <<tickets, audit, told, left, faults>>

\* A reply's change of status is not announced as one.
Record(w) ==
  /\ At(w, "audit")
  /\ audit' = [audit EXCEPT ![op[w].ticket] = op[w].to]
  /\ IF op[w].kind = "reply" THEN Done(w) ELSE Goto(w, "emit")
  /\ UNCHANGED <<tickets, told, left, faults>>

Announce(w) ==
  LET o == op[w] IN
  /\ At(w, "emit") /\ Done(w)
  /\ told' = IF o.kind \in {"escalate", "merge"} \/ o.to # o.seen.status
             THEN [told EXCEPT ![o.ticket] = o.to] ELSE told
  /\ UNCHANGED <<tickets, audit, left, faults>>

\* A call of a request fails, or its process dies.
Die(w) ==
  /\ ~At(w, "idle") /\ faults > 0 /\ faults' = faults - 1
  /\ Done(w)
  /\ UNCHANGED <<tickets, audit, told, left>>

Next ==
  \E w \in Workers :
    \/ \E t \in Tickets :
         \/ Create(w, t)
         \/ \E to \in Statuses : MoveStart(w, t, to)
         \/ \E byAgent \in BOOLEAN : ReplyStart(w, t, byAgent)
         \/ NoteStart(w, t)
         \/ AssignStart(w, t) \/ EscalateStart(w, t)
         \/ \E target \in Tickets : MergeStart(w, t, target)
    \/ WriteMessage(w) \/ Write(w) \/ AppendOutbox(w) \/ Record(w) \/ Announce(w) \/ Die(w)

Spec == Init /\ [][Next]_vars

-----------------------------------------------------------------------------
\* The rows, the trail and the requests have their shapes.
TypeOK ==
  /\ tickets \in [Tickets -> [status : Statuses \cup {"NEW"}, closed : BOOLEAN, merged : BOOLEAN]]
  /\ audit \in [Tickets -> Statuses \cup {"NEW"}]
  /\ told \in [Tickets -> Statuses \cup {"NEW"}]
  /\ \A w \in Workers : op[w].ticket \in Tickets \cup {None} /\ op[w].to \in Statuses
  /\ left \in 0..MaxOps /\ faults \in 0..MaxFaults
-----------------------------------------------------------------------------
\* History variables for the requests that got into each other's way.
VARIABLES
  mixed,   \* tickets two requests were at work on at once
  broken   \* tickets a request died on

MCVars == <<vars, mixed, broken>>

MCInit == Init /\ mixed = {} /\ broken = {}

On(t, v) == op[v].ticket = t

MCNext ==
  /\ Next
  /\ mixed' = mixed \cup {t \in Tickets :
       \E v, w \in Workers : v # w /\ op'[v].ticket = t /\ op'[w].ticket = t}
  /\ broken' = IF faults' < faults
               THEN broken \cup {t \in Tickets : \E w \in Workers : On(t, w) /\ op'[w] = Idle}
               ELSE broken

MCSpec == MCInit /\ [][MCNext]_MCVars

\* A ticket at rest, which no two requests got hold of at once: its row says what the
\* trail says last, it has a closing time exactly when it ended and, open, has none, and
\* its requester was told of every end, reopening and escalation.
Settled(t) ==
  LET row == tickets[t] IN
  /\ audit[t] = row.status
  /\ row.status \in Ending => row.closed
  /\ row.status = "OPEN" => ~row.closed
  /\ row.status \in Ending \cup {"OPEN", "ESCALATED"} => told[t] = row.status

\* However tickets are replied to, assigned, escalated, merged, closed and reopened, row,
\* audit trail and announcements agree, unless requests overlap or die.
TrailUnlessMixed ==
  \A t \in Tickets \ (mixed \cup broken) :
    (\A w \in Workers : ~On(t, w)) => Settled(t)
=============================================================================
