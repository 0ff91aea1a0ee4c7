------------------------------- MODULE MCAuth -------------------------------
(* Auth on small instances. *)
EXTENDS Auth, TLC

CONSTANTS r1, r2, u1

TwoRequests == {r1, r2}
OneUser == {u1}

\* The requests are interchangeable.
RequestSymmetry == Permutations(TwoRequests)
=============================================================================
