---------------------------- MODULE MC_ClientSync ----------------------------
(* Two commands at once on one target, one command while the targets change *)
(* and Hosts come to serve another library, and one while a Host does so    *)
(* and goes back.                                                           *)
EXTENDS ClientSync, TLC

Symmetry == Permutations(Threads) \cup Permutations(Hosts) \cup Permutations(Libraries)

Wave == {[threads |-> 2, targets |-> {t}, libs |-> {t.lib}, gen |-> 2, moves |-> 0] : t \in Targets}
Change == [threads |-> 1, targets |-> Targets, libs |-> Libraries, gen |-> 3, moves |-> 1]
Return == {[threads |-> 1, targets |-> {t}, libs |-> Libraries, gen |-> 1, moves |-> 2] : t \in Targets}
MCLimits == Wave \cup {Change} \cup Return
=============================================================================
