--------------------------- MODULE MCLegacyQueue ----------------------------
(* LegacyQueue on small instances. *)
EXTENDS LegacyQueue, TLC

CONSTANTS c1, c2

OneCall == {c1}
TwoCalls == {c1, c2}

\* The calls are interchangeable.
CallSymmetry == Permutations(TwoCalls)
=============================================================================
