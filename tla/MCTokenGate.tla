----------------------------- MODULE MCTokenGate -----------------------------
EXTENDS TokenGate, TLC

Symmetry == Permutations(Requests)
=============================================================================
