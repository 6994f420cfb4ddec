---------------------------- MODULE SpoolCustody ----------------------------
(***************************************************************************)
(* What the inventory promises about the rolls themselves, without rows,   *)
(* statuses or a loan ledger: a roll is in exactly one hand, a slot holds  *)
(* at most one roll, only the library's own rolls go out on loan, a roll   *)
(* on loan comes back before anything else happens to it, and a roll that  *)
(* is on loan from somebody else leaves only by going back to them.        *)
(***************************************************************************)
EXTENDS FiniteSets

CONSTANTS Spools, Slots

VARIABLES custody,  \* where each roll is
          owed      \* the rolls on hand that are to be given back to somebody

vars == <<custody, owed>>

InHand(s) == custody[s] \in {"shelf"} \cup Slots

Init == /\ custody = [s \in Spools |-> "unknown"]
        /\ owed = {}

Move(s, to) == custody' = [custody EXCEPT ![s] = to]

Arrive(s) == /\ custody[s] = "unknown"
             /\ Move(s, "shelf")
             /\ owed' \in {owed, owed \cup {s}}

\* The roll that was in the slot goes to the shelf.
Load(s, x) ==
  /\ InHand(s)
  /\ custody' = [t \in Spools |-> IF t = s THEN x
                                  ELSE IF custody[t] = x THEN "shelf" ELSE custody[t]]
  /\ UNCHANGED owed

Unload(slots) ==
  /\ custody' = [s \in Spools |-> IF custody[s] \in slots THEN "shelf" ELSE custody[s]]
  /\ UNCHANGED owed

\* The library takes over a roll it borrowed, or marks one as borrowed.
ChangeHands(s) ==
  /\ InHand(s)
  /\ owed' \in {owed \cup {s}, owed \ {s}}
  /\ UNCHANGED custody

Lend(s) == InHand(s) /\ s \notin owed /\ Move(s, "out") /\ UNCHANGED owed

ComeBack(s) == custody[s] = "out" /\ Move(s, "shelf") /\ UNCHANGED owed

Discard(s) == InHand(s) /\ s \notin owed /\ Move(s, "gone") /\ UNCHANGED owed

GiveBack(s) == s \in owed /\ InHand(s) /\ Move(s, "gone") /\ owed' = owed \ {s}

Forget(s) == /\ InHand(s) \/ custody[s] = "gone"
             /\ s \notin owed
             /\ Move(s, "unknown")
             /\ UNCHANGED owed

Next == \/ \E s \in Spools : \/ Arrive(s) \/ ChangeHands(s) \/ Lend(s) \/ ComeBack(s)
                             \/ Discard(s) \/ GiveBack(s) \/ Forget(s)
        \/ \E s \in Spools, x \in Slots : Load(s, x)
        \/ \E slots \in SUBSET Slots : Unload(slots)

Spec == Init /\ [][Next]_vars

=============================================================================
