------------------------------ MODULE MCEscrow ------------------------------
\* Escrow for TLC: two payments on one wallet, refunds of the first, and a
\* record of whether two requests ever worked on one hold at once.
EXTENDS Escrow, TLC

CONSTANTS p1, p2 \* the two payments

VARIABLE mixed \* two different requests on one hold have overlapped

TwoThenOne == [p \in {p1, p2} |-> IF p = p1 THEN 2 ELSE 1]
PartialAndRest == {[id |-> n, payment |-> p1, amount |-> 1] : n \in {1, 2}}
WorkerSymmetry == Permutations(Workers)

\* Requests that carry the same reference (two keyless releases of one hold,
\* say) are not different: the unique index decides between them.
Overlap ==
  \E v, w \in Workers :
    op[v].id # 0 /\ op[v].id = op[w].id /\ op[v].ref # op[w].ref

MCInit == Init /\ mixed = FALSE
MCNext == Next /\ mixed' = (mixed \/ Overlap')
MCSpec == MCInit /\ [][MCNext]_<<vars, mixed>>

\* The wallet holds what its HELD escrows say, and (unless a posting failed) the
\* escrow-release journals add up to what the releases made available, as long
\* as no two different requests overlapped on one hold: closes of several holds,
\* duplicates of one close and listeners of several payments may interleave freely.
HeldUnlessMixed ==
  ~mixed => HeldMatchesEscrows /\ (faults = MaxFaults => ReleasesMatchJournals)

\* Under the same condition a closed hold is never touched again.
FinalUnlessMixed ==
  [][~mixed' => \A e \in Ids : escrows[e].status # "HELD" => escrows'[e] = escrows[e]]_vars
=============================================================================
