---------------------------- MODULE MC_Inventory ----------------------------
(* One printer with its external slot and one AMS slot. *)
EXTENDS Inventory, TLC

CONSTANTS ext, ams

MCExternal == {ext}
MCPrinters == {"printer"}
MCPrinterOf == [x \in {ext, ams} |-> "printer"]

\* What a file says of status and owner, with all of the other columns or none.
Column(st, own, p, h, g) == [status |-> st, owner |-> own, place |-> p, home |-> h, grams |-> g]
MCFileRows ==
  {Column(st, own, other[1], other[2], other[3]) :
     st \in {"IN_STOCK", "ASSIGNED", "EMPTY", "absent"}, own \in {"OWNED", "BORROWED_IN", "absent"},
     other \in {<<"absent", "absent", NotWeighed>>, <<"shelf", "none", 1>>}}

\* One roll is followed through every status and column and through two loans, of
\* which one is over; two rolls through what slots and open loans react to.
Two == \A s \in Spools : row[s] # "absent"
Simple(s) == /\ status[s] \notin Historical \ {"DELETED"}
             /\ place[s] # "shelf" /\ home[s] = "none" /\ grams[s] < 2
             /\ row[s] = "deleted" => status[s] = "DELETED" /\ owner[s] = "OWNED"
             /\ ~Dangling(s) /\ ~Unledgered(s)
LoansIn(st) == {l \in LoanIds : loans[l] # NoLoan /\ loans[l].status \in st}
MCBound ==
  /\ Cardinality(LoansIn({"RETURNED"})) < 2
  /\ Two => /\ \A s \in Spools : Simple(s)
            /\ Cardinality(LoansIn({"ACTIVE", "RETURNED"})) < 2
MCSymmetry == Permutations(Spools) \cup Permutations(LoanIds)

=============================================================================
