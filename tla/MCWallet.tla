------------------------------ MODULE MCWallet ------------------------------
\* Wallet for TLC: the workers are interchangeable, in the runs without a
\* liveness property.
EXTENDS Wallet, TLC

AllKinds == Kind
TransfersAndTopUps == {"credit"}
Symmetry == Permutations(Workers)
=============================================================================
