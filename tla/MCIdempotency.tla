---------------------------- MODULE MCIdempotency ----------------------------
(***************************************************************************)
(* Idempotency with a history variable for the ways a key is forgotten.    *)
(***************************************************************************)
EXTENDS Idempotency

VARIABLES
  forgotten   \* keys whose record expired, was evicted in use, died with its process,
              \* was released after its operation had taken effect, or was taken over by
              \* a later request

MCVars == <<vars, forgotten>>

MCInit == Init /\ forgotten = {}

Dropped(k) ==
  \/ Active(k) /\ records'[k] # None /\ ~records'[k].live
  \/ /\ records[k] # None /\ records'[k] = None
     /\ ~\E w \in Workers : /\ op[w].key = k /\ op[w].pc \in {"release", "delete"}
                            /\ op'[w] # op[w] /\ faults' = faults
  \/ \E w \in Workers :
       /\ op[w].key = k /\ op[w].pc \in {"complete", "complete_write"}
       /\ op'[w].pc \in {"release", "idle"}
       /\ records'[k] = None \/ records'[k].state = "in_progress"
  \/ Active(k) /\ records'[k] # None
     /\ records'[k].row = records[k].row /\ records'[k].owner # records[k].owner

MCNext ==
  /\ Next
  /\ forgotten' = forgotten \cup {k \in Keys : Dropped(k)}

MCSpec == MCInit /\ [][MCNext]_MCVars

\* However requests with one key overlap, its operation takes effect at most once, in
\* both stores, unless the record was forgotten: it expired, the full in-memory store
\* evicted it or died with its process, the completion failed after the operation and
\* released the key, or a request that found no record at first then took the row of a
\* rival for an expired one.
OnceUnlessForgotten == \A k \in Keys \ forgotten : effects[k] <= 1

\* A response is only ever replayed to a request with the fingerprint of the one that
\* earned it, through conflicts, waits, releases and crashes: reuse of a key for
\* another request is refused.  An expired record may be taken over while its first
\* owner completes, which completes it with the wrong response.
ReplayedUnlessForgotten == \A a \in answers : a[1] \in forgotten \/ a[2] = a[3]

=============================================================================
