------------------------- MODULE MC_AccessRecovery -------------------------
(* Requests and libraries are interchangeable.                             *)
EXTENDS AccessRecovery, TLC

MCSymmetry == Permutations(Ids) \cup Permutations(Libraries)
=============================================================================
