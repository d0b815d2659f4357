------------------------------ MODULE MCCamelFolder ------------------------------
EXTENDS CamelFolder, TLC

Symmetry == Permutations(Threads) \cup Permutations(Uids)
================================================================================
