--------------------------- MODULE MCCamelObjectBag ---------------------------
(* Small instances of CamelObjectBag for TLC.                              *)
EXTENDS CamelObjectBag, TLC

CONSTANTS k1, k2

\* k2 plays the trash folder, asked for while a reservation on k1 is held.
MCKeys == {k1, k2}
MCRank == [k \in MCKeys |-> IF k = k1 THEN 0 ELSE 1]

Symmetry == Permutations(Threads) \cup Permutations(Objects)
=============================================================================
