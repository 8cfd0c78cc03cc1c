---------------------------- MODULE MCSettlement ----------------------------
\* Settlement for TLC: two wallets with unequal balances, and a record of
\* whether two requests ever worked on one batch at once.
EXTENDS Settlement, TLC

CONSTANTS m1, m2 \* the two wallets

VARIABLE mixed \* two requests on one batch have overlapped

OneAndTwo == [v \in {m1, m2} |-> IF v = m1 THEN 1 ELSE 2]
OnlyTwo == [v \in {m2} |-> 2]
WorkerSymmetry == Permutations(Workers)

Overlap == \E v, w \in Workers : v # w /\ op[v].batch # 0 /\ op[v].batch = op[w].batch

MCInit == Init /\ mixed = FALSE
MCNext == Next /\ mixed' = (mixed \/ Overlap')
MCSpec == MCInit /\ [][MCNext]_<<vars, mixed>>

\* A settlement's payout is posted to the journal once, through every failure
\* and retry, and a cancelled batch has paid nobody, as long as no two requests
\* overlapped on one batch.
PayoutsUnlessMixed == ~mixed => JournaledOnce /\ CancelledIsUnpaid
=============================================================================
