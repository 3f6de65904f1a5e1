----------------------------- MODULE MCWorkpool -----------------------------
EXTENDS Workpool, TLC

Symmetry == Permutations(Worker)
=============================================================================
