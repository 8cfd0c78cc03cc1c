----------------------------- MODULE MCJournal -----------------------------
\* Journal for TLC: a payment and its refund on one day, a second payment on
\* another, and a record of the overlaps nothing in the code excludes.
EXTENDS Journal, TLC

CONSTANTS p1, p2, r1 \* the payments and the refund of the first

VARIABLES
  mixed,  \* two requests on one refund or one journal have overlapped
  raced   \* a period was closed under a request that had found it OPEN

SecondLater == [s \in {p1, p2, r1} |-> IF s = p2 THEN 2 ELSE 1]
WorkerSymmetry == Permutations(Workers)

Overlap ==
  \E v, w \in Workers :
    /\ v # w
    /\ \/ op[v].source \in Refunds /\ op[v].source = op[w].source
       \/ op[v].entry # 0 /\ op[v].entry = op[w].entry

ClosedUnder ==
  \E w \in Workers :
    /\ op[w].period \in DOMAIN periods
    /\ op[w].pc \in {"number", "read", "write", "insert"}
    /\ periods[op[w].period] = "OPEN" /\ periods'[op[w].period] = "CLOSED"

MCInit == Init /\ mixed = FALSE /\ raced = FALSE
MCNext == Next /\ mixed' = (mixed \/ Overlap') /\ raced' = (raced \/ ClosedUnder)
MCSpec == MCInit /\ [][MCNext]_<<vars, mixed, raced>>

\* The balances agree with the entries, when all postings are of one day (see
\* Journal), and, unless two requests overlapped on it, a refund is journaled
\* once and a journal is reversed at most once: repeated events, repeated keys,
\* aborts and a second reversal under another key change nothing.
BooksUnlessMixed == OneDayBooksAgree /\ (~mixed => OncePerRefundAndReversal)

\* Under the same condition "Immutable once POSTED" holds of every journal; and
\* the balances of a CLOSED period stay as they were closed, unless the close
\* overtook a posting that had already found the period OPEN.
FixedUnlessMixed ==
  [][/\ ~mixed' => \A e \in Ids : PostedIsImmutable(e)
     /\ ~raced' => \A p \in DOMAIN periods :
                      periods[p] = "CLOSED" => books'[p] = books[p]]_vars
=============================================================================
