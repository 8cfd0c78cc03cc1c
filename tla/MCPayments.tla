----------------------------- MODULE MCPayments -----------------------------
\* Payments for TLC: the workers are interchangeable.
EXTENDS Payments, TLC

WorkerSymmetry == Permutations(Workers)
=============================================================================
