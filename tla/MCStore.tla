------------------------------ MODULE MCStore ------------------------------
EXTENDS Store, TLC
Names == Permutations(Serials)
=============================================================================
