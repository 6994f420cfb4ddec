-------------------------- MODULE Inventory_proofs --------------------------
(***************************************************************************)
(* The inductive invariant of Inventory and the theorems that follow, the  *)
(* last of them that Inventory implements SpoolCustody.                    *)
(*                                                                         *)
(* The loan ledger enters the argument only through Active: four lemmas    *)
(* say what opening, closing and purging do to it.  Operations that keep   *)
(* the ledger fall into edits, which keep the slots, and slot changes.     *)
(***************************************************************************)
EXTENDS Inventory, TLAPS

USE PlacesAssumption, SlotsAssumption, PrinterAssumption, GramsAssumption,
    ReadingAssumption, EditAssumption, FileAssumption

\* An entry of the ledger is a loan with all its fields, or no loan.
LEMMA LedgerType ==
  ASSUME TypeOK, NEW l \in LoanIds, loans[l] # NoLoan
  PROVE  /\ loans[l] \in Loan
         /\ loans[l].spool \in Spools
         /\ loans[l].status \in {"ACTIVE", "RETURNED"}
  BY DEF TypeOK, Loan

LEMMA NoLoanIsNotALoan == NoLoan \notin Loan
  BY DEF NoLoan, Loan

\* Opening a loan adds one active loan.
LEMMA OpenedActive ==
  ASSUME TypeOK, NEW l \in LoanIds, NEW s \in Spools, NEW d \in Directions,
         loans[l] = NoLoan, loans' = Opened(l, s, d)
  PROVE  /\ loans' \in [LoanIds -> Loan \cup {NoLoan}]
         /\ \A k \in LoanIds : k # l => loans'[k] = loans[k]
         /\ loans'[l] # NoLoan /\ loans'[l].spool = s
         /\ \A k \in LoanIds, t \in Spools, e \in Directions :
              Active(k, t, e)' <=> Active(k, t, e) \/ (k = l /\ t = s /\ e = d)
<1> DEFINE new == [spool |-> s, direction |-> d, status |-> "ACTIVE", returned |-> 0]
<1>1. new \in Loan /\ new.spool = s /\ new.direction = d /\ new.status = "ACTIVE"
  BY DEF Loan, Grams
<1>2. new # NoLoan
  BY <1>1, NoLoanIsNotALoan
<1>3. loans' = [loans EXCEPT ![l] = new]
  BY DEF Opened
<1>4. loans \in [LoanIds -> Loan \cup {NoLoan}]
  BY DEF TypeOK
<1> HIDE DEF new
<1> QED BY <1>1, <1>2, <1>3, <1>4 DEF Active

\* A loan that is closed is no longer active; nothing else changes.
LEMMA ClosedLoan ==
  ASSUME TypeOK, NEW l \in LoanIds, loans[l] # NoLoan, NEW g \in Grams
  PROVE  /\ ClosedAs(loans[l], g) \in Loan
         /\ ClosedAs(loans[l], g) # NoLoan
         /\ ClosedAs(loans[l], g).spool = loans[l].spool
         /\ ClosedAs(loans[l], g).status = "RETURNED"
<1>1. loans[l] \in Loan
  BY LedgerType
<1>2. ClosedAs(loans[l], g) \in Loan
  BY <1>1 DEF Loan, ClosedAs
<1> QED BY <1>2, NoLoanIsNotALoan DEF ClosedAs

LEMMA ClosedActive ==
  ASSUME TypeOK, NEW l \in LoanIds, loans[l] # NoLoan, NEW g \in Grams,
         loans' = [loans EXCEPT ![l] = ClosedAs(loans[l], g)]
  PROVE  /\ loans' \in [LoanIds -> Loan \cup {NoLoan}]
         /\ \A k \in LoanIds : loans'[k] # NoLoan =>
              loans[k] # NoLoan /\ loans'[k].spool = loans[k].spool
         /\ \A k \in LoanIds, t \in Spools, e \in Directions :
              Active(k, t, e)' <=> Active(k, t, e) /\ k # l
<1> DEFINE closed == ClosedAs(loans[l], g)
<1>1. closed \in Loan /\ closed # NoLoan /\ closed.spool = loans[l].spool
      /\ closed.status = "RETURNED"
  BY ClosedLoan
<1>2. loans' = [loans EXCEPT ![l] = closed]
  OBVIOUS
<1>3. loans \in [LoanIds -> Loan \cup {NoLoan}]
  BY DEF TypeOK
<1> HIDE DEF closed
<1> QED BY <1>1, <1>2, <1>3 DEF Active

LEMMA InboundClosedActive ==
  ASSUME TypeOK, NEW s \in Spools, loans' = InboundClosed(s)
  PROVE  /\ loans' \in [LoanIds -> Loan \cup {NoLoan}]
         /\ \A k \in LoanIds : loans'[k] # NoLoan =>
              loans[k] # NoLoan /\ loans'[k].spool = loans[k].spool
         /\ \A k \in LoanIds, t \in Spools, e \in Directions :
              Active(k, t, e)' <=> Active(k, t, e) /\ ~Active(k, s, "INBOUND")
<1>1. grams[s] \in Grams
  BY DEF TypeOK
<1>2. ASSUME NEW k \in LoanIds, Active(k, s, "INBOUND")
      PROVE  /\ loans[k] # NoLoan
             /\ loans'[k] \in Loan /\ loans'[k] # NoLoan
             /\ loans'[k].spool = loans[k].spool
             /\ loans'[k].status = "RETURNED"
  <2>1. loans'[k] = ClosedAs(loans[k], grams[s]) /\ loans[k] # NoLoan
    BY <1>2 DEF InboundClosed, Active
  <2> QED BY <2>1, <1>1, ClosedLoan
<1>3. ASSUME NEW k \in LoanIds, ~Active(k, s, "INBOUND")
      PROVE  loans'[k] = loans[k]
  BY <1>3 DEF InboundClosed
<1>4. \A k \in LoanIds : loans[k] \in Loan \cup {NoLoan}
  BY DEF TypeOK
<1>5. loans' = [k \in LoanIds |-> loans'[k]]
  BY DEF InboundClosed
<1>6. loans' \in [LoanIds -> Loan \cup {NoLoan}]
  BY <1>2, <1>3, <1>4, <1>5
<1>7. ASSUME NEW k \in LoanIds, NEW t \in Spools, NEW e \in Directions
      PROVE  Active(k, t, e)' <=> Active(k, t, e) /\ ~Active(k, s, "INBOUND")
  <2>1. CASE Active(k, s, "INBOUND")
    BY <2>1, <1>2 DEF Active
  <2>2. CASE ~Active(k, s, "INBOUND")
    BY <2>2, <1>3 DEF Active
  <2> QED BY <2>1, <2>2
<1> QED BY <1>2, <1>3, <1>6, <1>7

LEMMA KeptActive ==
  ASSUME UNCHANGED loans
  PROVE  \A k \in LoanIds, t \in Spools, e \in Directions :
           Active(k, t, e)' <=> Active(k, t, e)
  BY DEF Active

-----------------------------------------------------------------------------
(* Operations that leave rows, owners and the ledger alone. *)

\* The step leaves the roll no status "in use" without a slot, and no owner
\* other than the library without a loan, where these were right before.
HeldFor(s) == (Dangling(s)' => Dangling(s)) /\ (Unledgered(s)' => Unledgered(s))

Held == \A s \in Spools : HeldFor(s)

\* Slot changes: what they must show for the invariant to be preserved.
LEMMA SlotChange ==
  ASSUME IInv, TypeOK', UNCHANGED <<row, owner, loans>>,
         OneSlotPerRoll',
         \A x \in Slots : slot'[x] \in Spools =>
            Live(slot'[x]) /\ ~OnLoan(slot'[x], "OUTBOUND"),
         \A s \in Spools : ~Live(s) \/ OnLoan(s, "OUTBOUND") =>
            status'[s] = status[s] /\ place'[s] = place[s],
         \A s \in Spools : place'[s] \in Slots => slot'[place'[s]] = s,
         \A s \in Spools : place'[s] = "loan" => place[s] = "loan",
         \A s \in Spools : Live(s) /\ status'[s] = "ASSIGNED" =>
            (\E x \in Slots : slot'[x] = s) \/ Dangling(s)
  PROVE  IInv' /\ Held
<1>1. \A s \in Spools : Live(s)' <=> Live(s)
  BY DEF Live
<1>2. \A k \in LoanIds, t \in Spools, e \in Directions : Active(k, t, e)' <=> Active(k, t, e)
  BY KeptActive
<1>3. \A s \in Spools, d \in Directions : OnLoan(s, d)' <=> OnLoan(s, d)
  BY <1>2 DEF OnLoan
<1> USE DEF Directions
<1>4. RemovedRowsAreTidy'
  BY <1>1 DEF IInv, RemovedRowsAreTidy
<1>5. LoadedRollIsHere'
  BY <1>1, <1>3 DEF LoadedRollIsHere
<1>6. \A s \in Spools : Dangling(s)' => Dangling(s)
  BY <1>1 DEF Dangling, Loaded
<1>7. PlaceIsTrue'
  BY <1>3 DEF IInv, PlaceIsTrue
<1>8. OneOpenLoan'
  BY <1>2 DEF IInv, OneOpenLoan
<1>9. LentRollIsAway'
  BY <1>1, <1>3 DEF IInv, LentRollIsAway
<1>10. InboundRollIsHere'
  BY <1>1, <1>3 DEF IInv, InboundRollIsHere
<1>11. \A s \in Spools : Unledgered(s)' => Unledgered(s)
  BY <1>1, <1>3 DEF Unledgered
<1>12. IInv'
  BY <1>4, <1>5, <1>7, <1>8, <1>9, <1>10 DEF IInv
<1> QED BY <1>6, <1>11, <1>12 DEF Held, HeldFor

\* Edits keep the slots too: no roll that is away or removed is touched, no
\* place becomes a slot and no unloaded roll becomes ASSIGNED.
LEMMA Edit ==
  ASSUME IInv, TypeOK', UNCHANGED <<row, owner, slot, loans>>,
         \A s \in Spools : ~Live(s) \/ OnLoan(s, "OUTBOUND") =>
            status'[s] = status[s] /\ place'[s] = place[s],
         \A s \in Spools : place'[s] = place[s] \/ place'[s] \in Shelves,
         \A s \in Spools : status'[s] = "ASSIGNED" => status[s] = "ASSIGNED" \/ Loaded(s)
  PROVE  IInv' /\ Held
<1>1. OneSlotPerRoll'
  BY DEF IInv, OneSlotPerRoll
<1>2. \A x \in Slots : slot'[x] \in Spools => Live(slot'[x]) /\ ~OnLoan(slot'[x], "OUTBOUND")
  BY DEF IInv, LoadedRollIsHere
<1>3. \A s \in Spools : place'[s] \in Slots => slot'[place'[s]] = s
  BY DEF IInv, PlaceIsTrue, Shelves
<1>4. \A s \in Spools : place'[s] = "loan" => place[s] = "loan"
  BY DEF Shelves
<1>5. \A s \in Spools : Live(s) /\ status'[s] = "ASSIGNED" =>
         (\E x \in Slots : slot'[x] = s) \/ Dangling(s)
  BY DEF Dangling, Loaded
<1> QED BY <1>1, <1>2, <1>3, <1>4, <1>5, SlotChange

\* A loaded roll is a roll on hand.
LEMMA LoadedFacts ==
  ASSUME IInv, NEW s \in Spools, Loaded(s)
  PROVE  Live(s) /\ ~OnLoan(s, "OUTBOUND")
  BY DEF IInv, LoadedRollIsHere, Loaded

LEMMA UnlockedFacts ==
  ASSUME IInv, NEW s \in Spools, ~Locked(s)
  PROVE  ~OnLoan(s, "OUTBOUND") /\ status[s] # "BORROWED"
  BY DEF IInv, LentRollIsAway, Locked

LEMMA UpdateWeightStep ==
  ASSUME IInv, NEW s \in Spools, NEW g \in Grams, UpdateWeight(s, g)
  PROVE  IInv' /\ Held
<1>1. TypeOK'
  BY DEF IInv, TypeOK, UpdateWeight
<1> QED BY <1>1, Edit DEF UpdateWeight

LEMMA UpdateStatusStep ==
  ASSUME IInv, NEW s \in Spools, NEW st \in Statuses, UpdateStatus(s, st)
  PROVE  IInv' /\ Held
<1>1. TypeOK'
  BY DEF IInv, TypeOK, UpdateStatus
<1>2. status[s] # st => ~OnLoan(s, "OUTBOUND")
  BY UnlockedFacts DEF UpdateStatus
<1>3. status' = [status EXCEPT ![s] = st] /\ status \in [Spools -> Statuses]
  BY DEF IInv, TypeOK, UpdateStatus
<1> QED BY <1>1, <1>2, <1>3, Edit DEF UpdateStatus

LEMMA AssignLocationStep ==
  ASSUME IInv, NEW s \in Spools, NEW p \in Shelves, AssignLocation(s, p)
  PROVE  IInv' /\ Held
<1>1. TypeOK'
  BY DEF IInv, TypeOK, AssignLocation, Places
<1>2. ~OnLoan(s, "OUTBOUND")
  BY UnlockedFacts DEF AssignLocation
<1>3. place' = [place EXCEPT ![s] = p] /\ place \in [Spools -> Places]
  BY DEF IInv, TypeOK, AssignLocation
<1> QED BY <1>1, <1>2, <1>3, Edit DEF AssignLocation

LEMMA MeasureLoadedStep ==
  ASSUME IInv, NEW x \in Slots, NEW m \in Grams, MeasureLoadedSpool(x, m)
  PROVE  IInv' /\ Held
<1> DEFINE s == slot[x]
<1>1. s \in Spools /\ Loaded(s)
  BY DEF MeasureLoadedSpool, Loaded
<1>2. MeasuredStatus(s, m) \in Statuses
  BY <1>1 DEF IInv, TypeOK, MeasuredStatus, UsedStatus, Statuses
<1>3. TypeOK'
  BY <1>1, <1>2 DEF IInv, TypeOK, MeasureLoadedSpool
<1>4. Live(s) /\ ~OnLoan(s, "OUTBOUND")
  BY <1>1, LoadedFacts
<1>5. status' = [status EXCEPT ![s] = MeasuredStatus(s, m)] /\ status \in [Spools -> Statuses]
  BY DEF IInv, TypeOK, MeasureLoadedSpool
<1> HIDE DEF s
<1> QED BY <1>1, <1>3, <1>4, <1>5, Edit DEF MeasureLoadedSpool

LEMMA AcceptEstimateStep ==
  ASSUME IInv, NEW x \in Slots, NEW g \in Grams, AcceptWeightEstimate(x, g)
  PROVE  IInv' /\ Held
<1> DEFINE s == slot[x]
<1>1. s \in Spools /\ Loaded(s)
  BY DEF AcceptWeightEstimate, Loaded
<1>2. TypeOK'
  BY <1>1 DEF IInv, TypeOK, AcceptWeightEstimate, Statuses
<1>3. Live(s) /\ ~OnLoan(s, "OUTBOUND")
  BY <1>1, LoadedFacts
<1>4. status' = [status EXCEPT ![s] = "ASSIGNED"] /\ status \in [Spools -> Statuses]
  BY DEF IInv, TypeOK, AcceptWeightEstimate
<1> HIDE DEF s
<1> QED BY <1>1, <1>2, <1>3, <1>4, Edit DEF AcceptWeightEstimate

LEMMA RecordUsageStep ==
  ASSUME IInv, NEW s \in Spools, NEW used \in 1..MaxGrams, RecordPrintUsage(s, used)
  PROVE  IInv' /\ Held
<1>1. grams[s] \in Grams /\ NextGrams(s, used) \in Grams
  BY DEF IInv, TypeOK, NextGrams, Grams
<1>2. UsedStatus(NextGrams(s, used)) \in Statuses
  BY DEF UsedStatus, Statuses
<1>3. TypeOK'
  BY <1>1, <1>2 DEF IInv, TypeOK, RecordPrintUsage
<1>4. Loaded(s) /\ Live(s) /\ ~OnLoan(s, "OUTBOUND")
  BY LoadedFacts DEF RecordPrintUsage
<1>5. /\ status' = [status EXCEPT ![s] = UsedStatus(NextGrams(s, used))]
      /\ status \in [Spools -> Statuses]
  BY DEF IInv, TypeOK, RecordPrintUsage
<1> QED BY <1>3, <1>4, <1>5, Edit DEF RecordPrintUsage

\* A roll that a batch may change is on hand.
LEMMA ChangeableFacts ==
  ASSUME NEW s \in Spools, BulkChangeable(s)
  PROVE  Live(s) /\ ~OnLoan(s, "OUTBOUND")
  BY DEF BulkChangeable, Removed, HasActiveLoan, Directions

LEMMA BulkMoveStep ==
  ASSUME IInv, NEW rolls \in SUBSET Spools, BulkMove(rolls)
  PROVE  IInv' /\ Held
<1> DEFINE affected == {s \in rolls : place[s] # "shelf" \/ home[s] # "shelf"}
<1>1. /\ place' = [s \in Spools |-> IF s \in affected THEN "shelf" ELSE place[s]]
      /\ home' = [s \in Spools |-> IF s \in affected THEN "shelf" ELSE home[s]]
      /\ \A s \in affected : BulkChangeable(s)
      /\ UNCHANGED <<row, status, owner, grams, slot, loans>>
  BY DEF BulkMove
<1> HIDE DEF affected
<1>2. TypeOK'
  BY <1>1 DEF IInv, TypeOK, Places, Shelves
<1>3. \A s \in Spools : ~Live(s) \/ OnLoan(s, "OUTBOUND") => place'[s] = place[s]
  BY <1>1, ChangeableFacts
<1>4. \A s \in Spools : place'[s] = place[s] \/ place'[s] \in Shelves
  BY <1>1 DEF Shelves
<1> QED BY <1>1, <1>2, <1>3, <1>4, Edit

LEMMA BulkStatusStep ==
  ASSUME IInv, NEW rolls \in SUBSET Spools, NEW st \in {"IN_STOCK", "EMPTY", "LOST"},
         BulkStatus(rolls, st)
  PROVE  IInv' /\ Held
<1> DEFINE affected == {s \in rolls : status[s] # st}
<1>1. /\ status' = [s \in Spools |-> IF s \in affected THEN st ELSE status[s]]
      /\ \A s \in affected : BulkChangeable(s)
      /\ UNCHANGED <<row, owner, place, home, grams, slot, loans>>
  BY DEF BulkStatus
<1> HIDE DEF affected
<1>2. TypeOK'
  BY <1>1 DEF IInv, TypeOK, Statuses
<1>3. \A s \in Spools : ~Live(s) \/ OnLoan(s, "OUTBOUND") => status'[s] = status[s]
  BY <1>1, ChangeableFacts
<1>4. \A s \in Spools : status'[s] = "ASSIGNED" => status[s] = "ASSIGNED"
  BY <1>1
<1> QED BY <1>1, <1>2, <1>3, <1>4, Edit

LEMMA RollWeightStep ==
  ASSUME IInv, NEW s \in Spools, NEW m \in Grams, RollWeight(s, m)
  PROVE  IInv' /\ Held
<1> DEFINE st == IF status[s] = "EMPTY" /\ m > 0
                 THEN IF Loaded(s) THEN "ASSIGNED" ELSE "IN_STOCK"
                 ELSE IF Loaded(s) THEN MeasuredStatus(s, m) ELSE status[s]
<1>0. st \in Statuses /\ (st = "ASSIGNED" => Loaded(s) \/ status[s] = "ASSIGNED")
  BY DEF MeasuredStatus, UsedStatus, IInv, TypeOK, Statuses
<1>1. status' = [status EXCEPT ![s] = st]
  BY DEF RollWeight
<1> HIDE DEF st
<1>2. TypeOK'
  BY <1>0, <1>1 DEF IInv, TypeOK, RollWeight
<1>3. Live(s) /\ ~OnLoan(s, "OUTBOUND")
  BY UnlockedFacts DEF RollWeight, RollReviewed, Removed
<1>4. status \in [Spools -> Statuses]
  BY DEF IInv, TypeOK
<1> QED BY <1>0, <1>1, <1>2, <1>3, <1>4, Edit DEF RollWeight

-----------------------------------------------------------------------------
(* Operations that change slots. *)

\* assign_spool_to_ams_slot_in_transaction, for whichever status column the
\* transaction hands over: the roll in the slot and the new one are on hand.
LEMMA AssignStep ==
  ASSUME IInv, NEW x \in Slots, NEW n \in Spools \cup {"empty"},
         NEW st \in [Spools -> Statuses],
         \A s \in Spools : s # slot[x] => st[s] = status[s],
         Assign(x, n, st), UNCHANGED <<row, owner, home, loans>>,
         grams' \in [Spools -> Grams]
  PROVE  IInv' /\ Held
<1> DEFINE released == {slot[x]} \ {n}
           assigned == {n} \ {slot[x]}
           st1 == ReleasedStatus(released, st)
           pl1 == ReleasedPlace(released)
<1>1. /\ status' = [s \in Spools |-> IF s \in assigned THEN "ASSIGNED" ELSE st1[s]]
      /\ place' = [s \in Spools |-> IF s \in assigned THEN x ELSE pl1[s]]
      /\ slot' = SlotsAssigned(x, n)
      /\ slot[x] # "absent"
      /\ n \in Spools => Live(n) /\ ~Locked(n)
  BY DEF Assign
<1>2. \A s \in Spools : st1[s] = IF s \in released /\ st[s] = "ASSIGNED" THEN "IN_STOCK" ELSE st[s]
  BY DEF ReleasedStatus
<1>3. \A s \in Spools : pl1[s] = IF s \in released /\ place[s] \in Slots THEN home[s] ELSE place[s]
  BY DEF ReleasedPlace
<1> HIDE DEF st1, pl1
<1>4. TypeOK
  BY DEF IInv
<1>5. TypeOK'
  <2>1. status' \in [Spools -> Statuses]
    BY <1>1, <1>2 DEF Statuses
  <2>2. place' \in [Spools -> Places]
    BY <1>1, <1>3, <1>4 DEF TypeOK, Places
  <2>3. slot' \in [Slots -> Spools \cup {"empty", "absent"}]
    BY <1>1, <1>4 DEF TypeOK, SlotsAssigned
  <2> QED BY <1>4, <2>1, <2>2, <2>3 DEF TypeOK
<1>6. slot' = [y \in Slots |-> IF y = x THEN n ELSE IF slot[y] = n THEN "empty" ELSE slot[y]]
  BY <1>1 DEF SlotsAssigned
<1>7. OneSlotPerRoll'
  BY <1>6, <1>4 DEF IInv, OneSlotPerRoll, TypeOK
<1>8. \A s \in Spools : s = n => Live(s) /\ ~OnLoan(s, "OUTBOUND")
  BY <1>1, UnlockedFacts
<1>9. \A s \in Spools : s = slot[x] => Live(s) /\ ~OnLoan(s, "OUTBOUND")
  BY DEF IInv, LoadedRollIsHere
<1>10. \A y \in Slots : slot'[y] \in Spools =>
          Live(slot'[y]) /\ ~OnLoan(slot'[y], "OUTBOUND")
  BY <1>6, <1>8 DEF IInv, LoadedRollIsHere
<1>11. ASSUME NEW s \in Spools, ~Live(s) \/ OnLoan(s, "OUTBOUND")
       PROVE  status'[s] = status[s] /\ place'[s] = place[s]
  <2>1. s # n /\ s # slot[x]
    BY <1>8, <1>9, <1>11
  <2> QED BY <2>1, <1>1, <1>2, <1>3
<1>12. ASSUME NEW s \in Spools, place'[s] \in Slots
       PROVE  slot'[place'[s]] = s
  <2>1. CASE s \in assigned
    BY <2>1, <1>1, <1>6
  <2>2. CASE s \notin assigned
    <3>1. place'[s] = pl1[s]
      BY <2>2, <1>1
    <3>2. home[s] \notin Slots
      BY <1>4 DEF TypeOK, Shelves
    <3>3. s \notin released /\ place'[s] = place[s]
      BY <3>1, <3>2, <1>3, <1>12
    <3>4. slot[place[s]] = s
      BY <3>3, <1>12 DEF IInv, PlaceIsTrue
    <3>5. CASE s = n
      <4>1. s = slot[x]
        BY <2>2, <3>5
      <4>2. place[s] = x
        BY <3>3, <3>4, <4>1, <1>12 DEF IInv, OneSlotPerRoll
      <4> QED BY <4>2, <3>3, <3>5, <1>6
    <3>6. CASE s # n
      <4>1. s # slot[x]
        BY <3>3, <3>6
      <4> QED BY <4>1, <3>3, <3>4, <3>6, <1>6, <1>12
    <3> QED BY <3>5, <3>6
  <2> QED BY <2>1, <2>2
<1>13. \A s \in Spools : place'[s] = "loan" => place[s] = "loan"
  BY <1>1, <1>3, <1>4 DEF TypeOK, Shelves
<1>14. ASSUME NEW s \in Spools, Live(s), status'[s] = "ASSIGNED"
       PROVE  (\E y \in Slots : slot'[y] = s) \/ Dangling(s)
  <2>1. CASE s = n
    BY <2>1, <1>6
  <2>2. CASE s # n
    <3>1. s \notin released /\ st[s] = "ASSIGNED"
      BY <2>2, <1>1, <1>2, <1>14
    <3>2. s # slot[x] /\ status[s] = "ASSIGNED"
      BY <2>2, <3>1
    <3>3. CASE \E y \in Slots : slot[y] = s
      BY <3>2, <3>3, <2>2, <1>6
    <3>4. CASE ~\E y \in Slots : slot[y] = s
      BY <3>2, <3>4, <1>14 DEF Dangling, Loaded
    <3> QED BY <3>3, <3>4
  <2> QED BY <2>1, <2>2
<1> HIDE DEF released, assigned
<1> QED BY <1>5, <1>7, <1>10, <1>11, <1>12, <1>13, <1>14, SlotChange

LEMMA AssignPrinterSlotStep ==
  ASSUME IInv, NEW x \in Slots, NEW n \in Spools \cup {"empty"}, AssignPrinterSlot(x, n)
  PROVE  IInv' /\ Held
<1>1. status \in [Spools -> Statuses] /\ grams \in [Spools -> Grams]
  BY DEF IInv, TypeOK
<1> QED BY <1>1, AssignStep DEF AssignPrinterSlot

LEMMA OperateStep ==
  ASSUME IInv, NEW x \in Slots, NEW old \in Spools \cup {"empty"},
         NEW n \in Spools \cup {"empty"}, NEW mo \in Grams \cup {NotWeighed},
         NEW mi \in Grams \cup {NotWeighed}, OperatePrinterSlot(x, old, n, mo, mi)
  PROVE  IInv' /\ Held
<1> DEFINE measured == IF old \in Spools /\ mo # NotWeighed THEN {old} ELSE {}
           st0 == [s \in Spools |-> IF s \in measured THEN MeasuredStatus(s, mo) ELSE status[s]]
<1>1. /\ slot[x] = old
      /\ Assign(x, n, st0)
      /\ grams' = [s \in Spools |-> IF s \in measured THEN mo
                                    ELSE IF s = n /\ mi # NotWeighed THEN mi
                                    ELSE grams[s]]
      /\ UNCHANGED <<row, owner, home, loans>>
  BY DEF OperatePrinterSlot
<1>2. TypeOK
  BY DEF IInv
<1>3. st0 \in [Spools -> Statuses]
  BY <1>2 DEF TypeOK, MeasuredStatus, UsedStatus, Statuses
<1>4. \A s \in Spools : s # slot[x] => st0[s] = status[s]
  BY <1>1
<1>5. grams' \in [Spools -> Grams]
  BY <1>1, <1>2 DEF TypeOK
<1> HIDE DEF st0, measured
<1> QED BY <1>1, <1>3, <1>4, <1>5, AssignStep

\* Slot rows that disappear release their rolls.
LEMMA RemoveSlotsStep ==
  ASSUME IInv, NEW gone \in SUBSET Slots, NEW kept \in SUBSET Slots, RemoveSlots(gone, kept)
  PROVE  IInv' /\ Held
<1> DEFINE rolls == {slot[x] : x \in gone} \cap Spools
<1>1. /\ \A s \in rolls : ~Locked(s)
      /\ slot' = [x \in Slots |->
                   IF x \in gone THEN "absent"
                   ELSE IF x \in kept /\ slot[x] = "absent" THEN "empty" ELSE slot[x]]
      /\ status' = ReleasedStatus(rolls, status)
      /\ place' = ReleasedPlace(rolls)
      /\ UNCHANGED <<row, owner, home, grams, loans>>
  BY DEF RemoveSlots
<1>2. status' = [s \in Spools |-> IF s \in rolls /\ status[s] = "ASSIGNED"
                                   THEN "IN_STOCK" ELSE status[s]]
  BY <1>1 DEF ReleasedStatus
<1>3. place' = [s \in Spools |-> IF s \in rolls /\ place[s] \in Slots
                                  THEN home[s] ELSE place[s]]
  BY <1>1 DEF ReleasedPlace
<1>4. \A x \in Slots : slot[x] \in Spools /\ slot[x] \notin rolls =>
         x \notin gone /\ slot'[x] = slot[x]
  BY <1>1
<1>5. \A s \in rolls : s \in Spools /\ Live(s) /\ ~OnLoan(s, "OUTBOUND")
  BY DEF IInv, LoadedRollIsHere
<1>6. \A x \in Slots : slot'[x] \in Spools => slot'[x] = slot[x]
  BY <1>1
<1> HIDE DEF rolls
<1>7. TypeOK
  BY DEF IInv
<1>8. TypeOK'
  <2>1. status' \in [Spools -> Statuses]
    BY <1>2, <1>7 DEF TypeOK, Statuses
  <2>2. place' \in [Spools -> Places]
    BY <1>3, <1>7 DEF TypeOK, Places
  <2>3. slot' \in [Slots -> Spools \cup {"empty", "absent"}]
    BY <1>1, <1>7 DEF TypeOK
  <2> QED BY <1>1, <1>7, <2>1, <2>2, <2>3 DEF TypeOK
<1>9. OneSlotPerRoll'
  BY <1>6 DEF IInv, OneSlotPerRoll
<1>10. \A x \in Slots : slot'[x] \in Spools =>
          Live(slot'[x]) /\ ~OnLoan(slot'[x], "OUTBOUND")
  BY <1>6 DEF IInv, LoadedRollIsHere
<1>11. \A s \in Spools : ~Live(s) \/ OnLoan(s, "OUTBOUND") =>
          status'[s] = status[s] /\ place'[s] = place[s]
  BY <1>2, <1>3, <1>5
<1>12. \A s \in Spools : place'[s] \in Slots => s \notin rolls /\ place'[s] = place[s]
  BY <1>3, <1>7 DEF TypeOK, Shelves
<1>13. \A s \in Spools : place'[s] \in Slots => slot'[place'[s]] = s
  BY <1>12, <1>4 DEF IInv, PlaceIsTrue
<1>14. \A s \in Spools : place'[s] = "loan" => place[s] = "loan"
  BY <1>3, <1>7 DEF TypeOK, Shelves
<1>15. \A s \in Spools : Live(s) /\ status'[s] = "ASSIGNED" =>
          (\E x \in Slots : slot'[x] = s) \/ Dangling(s)
  <2>1. ASSUME NEW s \in Spools, NEW x \in Slots, slot[x] = s, status'[s] = "ASSIGNED"
        PROVE  slot'[x] = s
    BY <2>1, <1>2, <1>4
  <2>2. \A s \in Spools : status'[s] = "ASSIGNED" => status[s] = "ASSIGNED"
    BY <1>2
  <2> QED BY <2>1, <2>2 DEF Dangling, Loaded
<1> QED BY <1>1, <1>8, <1>9, <1>10, <1>11, <1>13, <1>14, <1>15, SlotChange

LEMMA UpsertPrinterStep ==
  ASSUME IInv, NEW p \in Printers, NEW kept \in SUBSET Slots, UpsertPrinter(p, kept)
  PROVE  IInv' /\ Held
  BY RemoveSlotsStep DEF UpsertPrinter, SlotsOf

LEMMA DeletePrinterStep ==
  ASSUME IInv, NEW p \in Printers, DeletePrinter(p)
  PROVE  IInv' /\ Held
  BY RemoveSlotsStep DEF DeletePrinter, SlotsOf

\* A reviewed roll that leaves its slot under a status other than ASSIGNED.
LEMMA UnloadStep ==
  ASSUME IInv, NEW s \in Spools, NEW st \in Statuses, st # "ASSIGNED",
         RollReviewed(s), UnloadAs(s, st),
         UNCHANGED <<row, owner, home, loans>>, grams' \in [Spools -> Grams]
  PROVE  IInv' /\ Held
<1>1. Live(s) /\ ~OnLoan(s, "OUTBOUND")
  BY UnlockedFacts DEF RollReviewed, Removed
<1>2. TypeOK
  BY DEF IInv
<1>3. status' = [status EXCEPT ![s] = st]
  BY DEF UnloadAs
<1>4. CASE ~Loaded(s)
  <2>1. UNCHANGED <<slot, place>>
    BY <1>4 DEF UnloadAs
  <2>2. TypeOK'
    BY <1>2, <1>3, <2>1 DEF TypeOK
  <2> QED BY <1>1, <1>2, <1>3, <2>1, <2>2, Edit DEF TypeOK
<1>5. CASE Loaded(s)
  <2>1. slot' = [x \in Slots |-> IF slot[x] = s THEN "empty" ELSE slot[x]]
    BY <1>5 DEF UnloadAs, TakenOut
  <2>2. place' = [t \in Spools |-> IF t \in {s} /\ place[t] \in Slots THEN home[t] ELSE place[t]]
    BY <1>5 DEF UnloadAs, ReleasedPlace
  <2>3. TypeOK'
    BY <1>2, <1>3, <2>1, <2>2 DEF TypeOK, Places
  <2>4. OneSlotPerRoll'
    BY <2>1 DEF IInv, OneSlotPerRoll
  <2>5. \A x \in Slots : slot'[x] \in Spools =>
          Live(slot'[x]) /\ ~OnLoan(slot'[x], "OUTBOUND")
    BY <2>1 DEF IInv, LoadedRollIsHere
  <2>6. \A t \in Spools : ~Live(t) \/ OnLoan(t, "OUTBOUND") =>
          status'[t] = status[t] /\ place'[t] = place[t]
    BY <1>1, <1>2, <1>3, <2>2 DEF TypeOK
  <2>7. \A t \in Spools : place'[t] \in Slots => slot'[place'[t]] = t
    BY <1>2, <2>1, <2>2 DEF IInv, PlaceIsTrue, TypeOK, Shelves
  <2>8. \A t \in Spools : place'[t] = "loan" => place[t] = "loan"
    BY <1>2, <2>2 DEF TypeOK, Shelves
  <2>9. \A t \in Spools : Live(t) /\ status'[t] = "ASSIGNED" =>
          (\E x \in Slots : slot'[x] = t) \/ Dangling(t)
    <3>1. \A t \in Spools : status'[t] = "ASSIGNED" => t # s /\ status[t] = "ASSIGNED"
      BY <1>2, <1>3 DEF TypeOK
    <3>2. \A t \in Spools, x \in Slots : t # s /\ slot[x] = t => slot'[x] = t
      BY <2>1
    <3> QED BY <3>1, <3>2 DEF Dangling, Loaded
  <2> QED BY <2>3, <2>4, <2>5, <2>6, <2>7, <2>8, <2>9, SlotChange
<1> QED BY <1>4, <1>5

LEMMA RollStatusStep ==
  ASSUME IInv, NEW s \in Spools, NEW st \in {"LOST", "IN_STOCK"}, RollStatus(s, st)
  PROVE  IInv' /\ Held
<1>1. grams' \in [Spools -> Grams]
  BY DEF IInv, TypeOK, RollStatus
<1> QED BY <1>1, UnloadStep DEF RollStatus, Statuses

LEMMA MarkEmptyStep ==
  ASSUME IInv, NEW s \in Spools, MarkEmpty(s)
  PROVE  IInv' /\ Held
<1>1. grams' \in [Spools -> Grams]
  BY DEF IInv, TypeOK, MarkEmpty, Grams
<1> QED BY <1>1, UnloadStep DEF MarkEmpty, Statuses

-----------------------------------------------------------------------------
(* Operations on one roll that change its row, its owner or its loans. *)

LEMMA OneRoll ==
  ASSUME IInv, TypeOK', NEW s \in Spools,
         \A t \in Spools : t # s => /\ row'[t] = row[t] /\ status'[t] = status[t]
                                    /\ owner'[t] = owner[t] /\ place'[t] = place[t],
         slot' = slot \/ slot' = TakenOut(s),
         \A k \in LoanIds, t \in Spools, e \in Directions :
            t # s => (Active(k, t, e)' <=> Active(k, t, e)),
         \A k, j \in LoanIds, d, e \in Directions :
            Active(k, s, d)' /\ Active(j, s, e)' => k = j,
         \A k \in LoanIds : loans'[k] # NoLoan => row'[loans'[k].spool] # "absent",
         row'[s] # "live" => /\ status'[s] \notin {"ASSIGNED", "BORROWED"}
                             /\ place'[s] \in {"none", "shelf"},
         row'[s] = "absent" => owner'[s] = "OWNED",
         row'[s] # "live" \/ OnLoan(s, "OUTBOUND")' => \A x \in Slots : slot'[x] # s,
         OnLoan(s, "OUTBOUND")' => /\ row'[s] = "live" /\ status'[s] = "BORROWED"
                                   /\ owner'[s] = "OWNED" /\ place'[s] = "loan",
         OnLoan(s, "INBOUND")' => row'[s] = "live" /\ owner'[s] = "BORROWED_IN",
         place'[s] \in Slots => slot'[place'[s]] = s,
         place'[s] = "loan" => OnLoan(s, "OUTBOUND")'
  PROVE  IInv' /\ \A t \in Spools : t # s => HeldFor(t)
<1> USE DEF Directions
<1>1. \A x \in Slots : slot'[x] = slot[x] \/ (slot[x] = s /\ slot'[x] = "empty")
  BY DEF TakenOut
<1>2. \A x \in Slots : slot'[x] \in Spools => slot'[x] = slot[x]
  BY <1>1
<1>3. \A x \in Slots, t \in Spools : t # s => (slot'[x] = t <=> slot[x] = t)
  BY <1>1
<1>4. \A t \in Spools, e \in Directions : t # s => (OnLoan(t, e)' <=> OnLoan(t, e))
  BY DEF OnLoan
<1>5. \A t \in Spools : (Live(t)' <=> row'[t] = "live") /\ (t # s => (Live(t)' <=> Live(t)))
  BY DEF Live
<1>6. RemovedRowsAreTidy'
  BY <1>5 DEF IInv, RemovedRowsAreTidy, Shelves
<1>7. OneSlotPerRoll'
  BY <1>2 DEF IInv, OneSlotPerRoll
<1>8. LoadedRollIsHere'
  BY <1>2, <1>4, <1>5 DEF IInv, LoadedRollIsHere
<1>9. \A t \in Spools : t # s => HeldFor(t)
  BY <1>3, <1>4, <1>5 DEF HeldFor, Dangling, Unledgered, Loaded
<1>10. PlaceIsTrue'
  BY <1>3, <1>4 DEF IInv, PlaceIsTrue
<1>11. OneOpenLoan'
  BY DEF IInv, OneOpenLoan
<1>12. LentRollIsAway'
  BY <1>4, <1>5 DEF IInv, LentRollIsAway
<1>13. InboundRollIsHere'
  BY <1>4, <1>5 DEF IInv, InboundRollIsHere
<1> QED BY <1>6, <1>7, <1>8, <1>9, <1>10, <1>11, <1>12, <1>13 DEF IInv

\* What the invariant says of a roll without active loans.
LEMMA NoLoanFacts ==
  ASSUME IInv, NEW s \in Spools, ~HasActiveLoan(s)
  PROVE  /\ ~OnLoan(s, "OUTBOUND") /\ ~OnLoan(s, "INBOUND")
         /\ \A k \in LoanIds, d \in Directions : ~Active(k, s, d)
         /\ place[s] # "loan"
<1>1. ~OnLoan(s, "OUTBOUND") /\ ~OnLoan(s, "INBOUND")
  BY DEF HasActiveLoan, Directions
<1> QED BY <1>1 DEF HasActiveLoan, OnLoan, IInv, PlaceIsTrue, Directions

\* A roll that is not there has no active loan and is in no slot.
LEMMA AbsentFacts ==
  ASSUME IInv, NEW s \in Spools, ~Live(s)
  PROVE  /\ \A d \in Directions : ~OnLoan(s, d)
         /\ \A k \in LoanIds, d \in Directions : ~Active(k, s, d)
         /\ \A x \in Slots : slot[x] # s
  BY DEF IInv, LentRollIsAway, InboundRollIsHere, LoadedRollIsHere, OnLoan, Directions

\* A loan names a roll, and an active one makes that roll be on loan.
LEMMA ReturnableFacts ==
  ASSUME IInv, NEW l \in LoanIds, NEW d \in Directions, Returnable(l, d)
  PROVE  /\ loans[l] # NoLoan /\ loans[l].spool \in Spools
         /\ Active(l, loans[l].spool, d)
         /\ OnLoan(loans[l].spool, d)
         /\ Live(loans[l].spool)
         /\ \A k \in LoanIds, e \in Directions : Active(k, loans[l].spool, e) => k = l
<1>1. loans[l] # NoLoan /\ loans[l].spool \in Spools
  BY LedgerType DEF Returnable, IInv
<1>2. Active(l, loans[l].spool, d)
  BY DEF Returnable, Active
<1>3. OnLoan(loans[l].spool, d)
  BY <1>2 DEF OnLoan
<1>4. Live(loans[l].spool)
  BY <1>1, <1>3 DEF IInv, LentRollIsAway, InboundRollIsHere, Directions
<1>5. \A k \in LoanIds, e \in Directions : Active(k, loans[l].spool, e) => k = l
  BY <1>1, <1>2 DEF IInv, OneOpenLoan
<1> QED BY <1>1, <1>2, <1>3, <1>4, <1>5

LEMMA LendStep ==
  ASSUME IInv, NEW s \in Spools, NEW l \in LoanIds, NEW g \in Grams, LendSpool(s, l, g)
  PROVE  IInv' /\ Held
<1> USE DEF Directions
<1>1. TypeOK
  BY DEF IInv
<1>2. /\ Live(s) /\ owner[s] = "OWNED" /\ ~HasActiveLoan(s)
      /\ loans[l] = NoLoan /\ loans' = Opened(l, s, "OUTBOUND")
      /\ status' = [status EXCEPT ![s] = "BORROWED"]
      /\ place' = [place EXCEPT ![s] = "loan"]
      /\ grams' = [grams EXCEPT ![s] = g]
      /\ slot' = TakenOut(s)
      /\ UNCHANGED <<row, owner, home>>
  BY DEF LendSpool
<1>3. /\ loans' \in [LoanIds -> Loan \cup {NoLoan}]
      /\ \A k \in LoanIds : k # l => loans'[k] = loans[k]
      /\ loans'[l] # NoLoan /\ loans'[l].spool = s
      /\ \A k \in LoanIds, t \in Spools, e \in Directions :
           Active(k, t, e)' <=> Active(k, t, e) \/ (k = l /\ t = s /\ e = "OUTBOUND")
  BY <1>1, <1>2, OpenedActive
<1>4. \A k \in LoanIds, d \in Directions : ~Active(k, s, d)
  BY <1>2, NoLoanFacts
<1>5. TypeOK'
  BY <1>1, <1>2, <1>3 DEF TypeOK, Statuses, Places, TakenOut
<1>6. OnLoan(s, "OUTBOUND")' /\ ~OnLoan(s, "INBOUND")'
  BY <1>3, <1>4 DEF OnLoan
<1>7. \A k \in LoanIds : loans'[k] # NoLoan => row'[loans'[k].spool] # "absent"
  BY <1>2, <1>3 DEF IInv, RemovedRowsAreTidy, Live
<1>8. \A x \in Slots : slot'[x] # s
  BY <1>2 DEF TakenOut
<1>9. HeldFor(s)
  BY <1>1, <1>2 DEF HeldFor, Dangling, Unledgered, TypeOK
<1>10. IInv' /\ \A t \in Spools : t # s => HeldFor(t)
  BY <1>1, <1>2, <1>3, <1>4, <1>5, <1>6, <1>7, <1>8, OneRoll DEF TypeOK, Live
<1> QED BY <1>9, <1>10 DEF Held

LEMMA ReturnStep ==
  ASSUME IInv, NEW l \in LoanIds, NEW g \in Grams, ReturnSpoolLoan(l, g)
  PROVE  IInv' /\ Held
<1> USE DEF Directions
<1> DEFINE st == IF g = 0 THEN "EMPTY" ELSE "IN_STOCK"
<1>1. TypeOK
  BY DEF IInv
<1>s. PICK s \in Spools : s = loans[l].spool
  BY ReturnableFacts DEF ReturnSpoolLoan
<1>2. /\ Returnable(l, "OUTBOUND")
      /\ loans' = [loans EXCEPT ![l] = ClosedAs(loans[l], g)]
      /\ UNCHANGED <<row, owner, home, slot>>
  BY DEF ReturnSpoolLoan
<1>3. /\ loans[l] # NoLoan /\ s \in Spools /\ Live(s)
      /\ OnLoan(s, "OUTBOUND")
      /\ \A k \in LoanIds, e \in Directions : Active(k, s, e) => k = l
  BY <1>s, <1>2, ReturnableFacts
<1>4. /\ status' = [status EXCEPT ![s] = st]
      /\ place' = [place EXCEPT ![s] = "none"]
      /\ grams' = [grams EXCEPT ![s] = g]
  BY <1>s, <1>3 DEF ReturnSpoolLoan
<1>5. /\ loans' \in [LoanIds -> Loan \cup {NoLoan}]
      /\ \A k \in LoanIds : loans'[k] # NoLoan =>
           loans[k] # NoLoan /\ loans'[k].spool = loans[k].spool
      /\ \A k \in LoanIds, t \in Spools, e \in Directions :
           Active(k, t, e)' <=> Active(k, t, e) /\ k # l
  BY <1>1, <1>2, <1>3, ClosedActive
<1>6. \A k \in LoanIds, t \in Spools, e \in Directions :
        t # s => (Active(k, t, e)' <=> Active(k, t, e))
  BY <1>s, <1>5 DEF Active
<1>7. owner[s] = "OWNED"
  BY <1>3 DEF IInv, LentRollIsAway
<1>8. TypeOK'
  BY <1>1, <1>2, <1>3, <1>4, <1>5 DEF TypeOK, Statuses, Places, Shelves
<1>9. ~OnLoan(s, "OUTBOUND")' /\ ~OnLoan(s, "INBOUND")'
  BY <1>3, <1>5 DEF OnLoan
<1>10. \A k \in LoanIds : loans'[k] # NoLoan => row'[loans'[k].spool] # "absent"
  BY <1>2, <1>5 DEF IInv, RemovedRowsAreTidy
<1>11. /\ status'[s] = st /\ place'[s] = "none"
       /\ \A t \in Spools : t # s => status'[t] = status[t] /\ place'[t] = place[t]
  BY <1>1, <1>3, <1>4 DEF TypeOK
<1>12. HeldFor(s)
  BY <1>2, <1>7, <1>11 DEF HeldFor, Dangling, Unledgered
<1>13. IInv' /\ \A t \in Spools : t # s => HeldFor(t)
  BY <1>2, <1>3, <1>5, <1>6, <1>7, <1>8, <1>9, <1>10, <1>11, OneRoll DEF Live
<1> QED BY <1>12, <1>13 DEF Held

LEMMA ReturnInboundStep ==
  ASSUME IInv, NEW l \in LoanIds, NEW g \in Grams, ReturnInboundSpoolLoan(l, g)
  PROVE  IInv' /\ Held
<1> USE DEF Directions
<1>1. TypeOK
  BY DEF IInv
<1>s. PICK s \in Spools : s = loans[l].spool
  BY ReturnableFacts DEF ReturnInboundSpoolLoan
<1>2. /\ Returnable(l, "INBOUND")
      /\ loans' = [loans EXCEPT ![l] = ClosedAs(loans[l], g)]
      /\ row' = [row EXCEPT ![s] = "deleted"]
      /\ status' = [status EXCEPT ![s] = "DELETED"]
      /\ place' = [place EXCEPT ![s] = "none"]
      /\ grams' = [grams EXCEPT ![s] = g]
      /\ slot' = TakenOut(s)
      /\ UNCHANGED <<owner, home>>
  BY <1>s DEF ReturnInboundSpoolLoan
<1>3. /\ loans[l] # NoLoan /\ s \in Spools
      /\ \A k \in LoanIds, e \in Directions : Active(k, s, e) => k = l
  BY <1>s, <1>2, ReturnableFacts
<1>4. /\ loans' \in [LoanIds -> Loan \cup {NoLoan}]
      /\ \A k \in LoanIds : loans'[k] # NoLoan =>
           loans[k] # NoLoan /\ loans'[k].spool = loans[k].spool
      /\ \A k \in LoanIds, t \in Spools, e \in Directions :
           Active(k, t, e)' <=> Active(k, t, e) /\ k # l
  BY <1>1, <1>2, <1>3, ClosedActive
<1>5. \A k \in LoanIds, t \in Spools, e \in Directions :
        t # s => (Active(k, t, e)' <=> Active(k, t, e))
  BY <1>s, <1>4 DEF Active
<1>6. TypeOK'
  BY <1>1, <1>2, <1>3, <1>4 DEF TypeOK, Statuses, Places, Shelves, TakenOut
<1>7. ~OnLoan(s, "OUTBOUND")' /\ ~OnLoan(s, "INBOUND")'
  BY <1>3, <1>4 DEF OnLoan
<1>8. /\ row'[s] = "deleted" /\ status'[s] = "DELETED" /\ place'[s] = "none"
      /\ \A t \in Spools : t # s => /\ row'[t] = row[t] /\ status'[t] = status[t]
                                    /\ owner'[t] = owner[t] /\ place'[t] = place[t]
  BY <1>1, <1>2, <1>3 DEF TypeOK
<1>9. \A k \in LoanIds : loans'[k] # NoLoan => row'[loans'[k].spool] # "absent"
  <2>1. \A k \in LoanIds : loans'[k] # NoLoan =>
           loans'[k].spool \in Spools /\ row[loans'[k].spool] # "absent"
    BY <1>1, <1>4, LedgerType DEF IInv, RemovedRowsAreTidy
  <2> QED BY <2>1, <1>8
<1>10. \A x \in Slots : slot'[x] # s
  BY <1>2, <1>3 DEF TakenOut
<1>11. HeldFor(s)
  BY <1>8 DEF HeldFor, Dangling, Unledgered, Live
<1>12. IInv' /\ \A t \in Spools : t # s => HeldFor(t)
  BY <1>2, <1>3, <1>4, <1>5, <1>6, <1>7, <1>8, <1>9, <1>10, OneRoll
<1> QED BY <1>11, <1>12 DEF Held

LEMMA DeleteStep ==
  ASSUME IInv, NEW s \in Spools, DeleteSpool(s)
  PROVE  IInv' /\ Held
<1> USE DEF Directions
<1>1. TypeOK
  BY DEF IInv
<1>2. /\ row' = [row EXCEPT ![s] = "deleted"]
      /\ status' = [status EXCEPT ![s] = "DELETED"]
      /\ place' = [place EXCEPT ![s] = "none"]
      /\ home' = [home EXCEPT ![s] = "none"]
      /\ slot' = TakenOut(s)
      /\ UNCHANGED <<owner, grams, loans>>
      /\ ~HasActiveLoan(s)
  BY DEF DeleteSpool, Removable
<1>3. TypeOK'
  BY <1>1, <1>2 DEF TypeOK, Statuses, Places, Shelves, TakenOut
<1>4. \A k \in LoanIds, t \in Spools, e \in Directions : Active(k, t, e)' <=> Active(k, t, e)
  BY <1>2, KeptActive
<1>5. \A k \in LoanIds, d \in Directions : ~Active(k, s, d)
  BY <1>2, NoLoanFacts
<1>6. \A d \in Directions : ~OnLoan(s, d)'
  BY <1>4, <1>5 DEF OnLoan
<1>7. /\ row'[s] = "deleted" /\ status'[s] = "DELETED" /\ place'[s] = "none"
      /\ \A t \in Spools : t # s => /\ row'[t] = row[t] /\ status'[t] = status[t]
                                    /\ owner'[t] = owner[t] /\ place'[t] = place[t]
  BY <1>1, <1>2 DEF TypeOK
<1>8. \A k \in LoanIds : loans'[k] # NoLoan => row'[loans'[k].spool] # "absent"
  <2>1. \A k \in LoanIds : loans'[k] # NoLoan =>
           loans'[k].spool \in Spools /\ row[loans'[k].spool] # "absent"
    BY <1>1, <1>2, LedgerType DEF IInv, RemovedRowsAreTidy
  <2> QED BY <2>1, <1>7
<1>9. \A x \in Slots : slot'[x] # s
  BY <1>2 DEF TakenOut
<1>10. HeldFor(s)
  BY <1>7 DEF HeldFor, Dangling, Unledgered, Live
<1>11. IInv' /\ \A t \in Spools : t # s => HeldFor(t)
  BY <1>2, <1>3, <1>4, <1>5, <1>6, <1>7, <1>8, <1>9, OneRoll
<1> QED BY <1>10, <1>11 DEF Held

LEMMA PurgeStep ==
  ASSUME IInv, NEW s \in Spools, PurgeSpool(s)
  PROVE  IInv' /\ Held
<1> USE DEF Directions
<1>1. TypeOK
  BY DEF IInv
<1>2. /\ row' = [row EXCEPT ![s] = "absent"]
      /\ status' = [status EXCEPT ![s] = "DELETED"]
      /\ owner' = [owner EXCEPT ![s] = "OWNED"]
      /\ place' = [place EXCEPT ![s] = "none"]
      /\ home' = [home EXCEPT ![s] = "none"]
      /\ grams' = [grams EXCEPT ![s] = 0]
      /\ slot' = TakenOut(s)
      /\ loans' = [l \in LoanIds |->
                 IF loans[l] # NoLoan /\ loans[l].spool = s THEN NoLoan ELSE loans[l]]
      /\ ~HasActiveLoan(s)
  BY DEF PurgeSpool, Removable
<1>3. TypeOK'
  <2>1. loans' \in [LoanIds -> Loan \cup {NoLoan}]
    BY <1>1, <1>2 DEF TypeOK
  <2> QED BY <1>1, <1>2, <2>1 DEF TypeOK, Statuses, Places, Shelves, TakenOut, Owners, Grams
<1>4. \A k \in LoanIds, d \in Directions : ~Active(k, s, d)
  BY <1>2, NoLoanFacts
<1>5. \A k \in LoanIds, t \in Spools, e \in Directions :
        t # s => (Active(k, t, e)' <=> Active(k, t, e))
  BY <1>2 DEF Active
<1>6. \A k \in LoanIds, d \in Directions : ~Active(k, s, d)'
  BY <1>2 DEF Active
<1>7. \A d \in Directions : ~OnLoan(s, d)'
  BY <1>6 DEF OnLoan
<1>8. /\ row'[s] = "absent" /\ status'[s] = "DELETED" /\ place'[s] = "none"
      /\ owner'[s] = "OWNED"
      /\ \A t \in Spools : t # s => /\ row'[t] = row[t] /\ status'[t] = status[t]
                                    /\ owner'[t] = owner[t] /\ place'[t] = place[t]
  BY <1>1, <1>2 DEF TypeOK
<1>9. \A k \in LoanIds : loans'[k] # NoLoan => row'[loans'[k].spool] # "absent"
  <2>1. \A k \in LoanIds : loans'[k] # NoLoan =>
           /\ loans'[k] = loans[k] /\ loans[k].spool # s
           /\ loans[k].spool \in Spools /\ row[loans[k].spool] # "absent"
    BY <1>1, <1>2, LedgerType DEF IInv, RemovedRowsAreTidy
  <2> QED BY <2>1, <1>8
<1>10. \A x \in Slots : slot'[x] # s
  BY <1>2 DEF TakenOut
<1>11. HeldFor(s)
  BY <1>8 DEF HeldFor, Dangling, Unledgered, Live
<1>12. IInv' /\ \A t \in Spools : t # s => HeldFor(t)
  BY <1>2, <1>3, <1>5, <1>6, <1>7, <1>8, <1>9, <1>10, OneRoll
<1> QED BY <1>11, <1>12 DEF Held

\* Opening an inbound loan for a roll that is (or becomes) there.
LEMMA BorrowInFacts ==
  ASSUME IInv, NEW s \in Spools, NEW l \in LoanIds, BorrowIn(s, l)
  PROVE  /\ loans' \in [LoanIds -> Loan \cup {NoLoan}]
         /\ \A k \in LoanIds, t \in Spools, e \in Directions :
              t # s => (Active(k, t, e)' <=> Active(k, t, e))
         /\ \A k, j \in LoanIds, d, e \in Directions :
              Active(k, s, d)' /\ Active(j, s, e)' => k = j
         /\ OnLoan(s, "INBOUND")' /\ ~OnLoan(s, "OUTBOUND")'
         /\ \A k \in LoanIds : loans'[k] # NoLoan =>
              \/ loans'[k].spool = s
              \/ loans'[k].spool \in Spools /\ row[loans'[k].spool] # "absent"
<1> USE DEF Directions
<1>1. ~HasActiveLoan(s) /\ loans[l] = NoLoan /\ loans' = Opened(l, s, "INBOUND") /\ TypeOK
  BY DEF BorrowIn, IInv
<1>2. /\ loans' \in [LoanIds -> Loan \cup {NoLoan}]
      /\ \A k \in LoanIds : k # l => loans'[k] = loans[k]
      /\ loans'[l] # NoLoan /\ loans'[l].spool = s
      /\ \A k \in LoanIds, t \in Spools, e \in Directions :
           Active(k, t, e)' <=> Active(k, t, e) \/ (k = l /\ t = s /\ e = "INBOUND")
  BY <1>1, OpenedActive
<1>3. \A k \in LoanIds, d \in Directions : ~Active(k, s, d)
  BY <1>1, NoLoanFacts
<1>4. OnLoan(s, "INBOUND")' /\ ~OnLoan(s, "OUTBOUND")'
  BY <1>2, <1>3 DEF OnLoan
<1>5. \A k \in LoanIds : loans[k] # NoLoan =>
         loans[k].spool \in Spools /\ row[loans[k].spool] # "absent"
  BY <1>1, LedgerType DEF IInv, RemovedRowsAreTidy
<1> QED BY <1>2, <1>3, <1>4, <1>5

\* The ownership part of an edit keeps owner and ledger in step.
LEMMA SetOwnerFacts ==
  ASSUME IInv, NEW s \in Spools, Live(s), NEW own \in Owners, NEW l \in LoanIds, NEW st,
         SetOwner(s, own, l, st)
  PROVE  /\ loans' \in [LoanIds -> Loan \cup {NoLoan}]
         /\ owner' \in [Spools -> Owners]
         /\ owner'[s] = own /\ \A t \in Spools : t # s => owner'[t] = owner[t]
         /\ \A k \in LoanIds, t \in Spools, e \in Directions :
              t # s => (Active(k, t, e)' <=> Active(k, t, e))
         /\ \A k, j \in LoanIds, d, e \in Directions :
              Active(k, s, d)' /\ Active(j, s, e)' => k = j
         /\ OnLoan(s, "INBOUND")' => own = "BORROWED_IN"
         /\ own = "BORROWED_IN" => OnLoan(s, "INBOUND")' \/ Unledgered(s)
         /\ OnLoan(s, "OUTBOUND")' <=> OnLoan(s, "OUTBOUND")
         /\ OnLoan(s, "OUTBOUND") => own = "OWNED"
         /\ \A k \in LoanIds : loans'[k] # NoLoan =>
              loans'[k].spool \in Spools /\ row[loans'[k].spool] # "absent"
<1> USE DEF Directions
<1>1. TypeOK /\ owner \in [Spools -> Owners] /\ row[s] # "absent"
  BY DEF IInv, TypeOK, Live
<1>2. \A k \in LoanIds : loans[k] # NoLoan =>
         loans[k].spool \in Spools /\ row[loans[k].spool] # "absent"
  BY <1>1, LedgerType DEF IInv, RemovedRowsAreTidy
<1>3. /\ OnLoan(s, "INBOUND") => owner[s] = "BORROWED_IN"
      /\ owner[s] = "BORROWED_IN" => OnLoan(s, "INBOUND") \/ Unledgered(s)
  BY DEF IInv, InboundRollIsHere, Unledgered
<1>4. CASE own = owner[s]
  <2>1. UNCHANGED <<owner, loans>>
    BY <1>4 DEF SetOwner
  <2>2. \A k \in LoanIds, t \in Spools, e \in Directions : Active(k, t, e)' <=> Active(k, t, e)
    BY <2>1, KeptActive
  <2>3. \A d \in Directions : OnLoan(s, d)' <=> OnLoan(s, d)
    BY <2>2 DEF OnLoan
  <2>4. OnLoan(s, "OUTBOUND") => owner[s] = "OWNED"
    BY DEF IInv, LentRollIsAway
  <2>5. \A k, j \in LoanIds, d, e \in Directions : Active(k, s, d)' /\ Active(j, s, e)' => k = j
    BY <2>2 DEF IInv, OneOpenLoan
  <2>6. loans' \in [LoanIds -> Loan \cup {NoLoan}]
    BY <2>1, <1>1 DEF TypeOK
  <2> QED BY <2>1, <2>2, <2>3, <2>4, <2>5, <2>6, <1>1, <1>2, <1>3, <1>4
<1>5. CASE own # owner[s]
  <2>1. ~OnLoan(s, "OUTBOUND") /\ owner' = [owner EXCEPT ![s] = own]
    BY <1>5 DEF SetOwner
  <2>2. CASE own = "BORROWED_IN"
    <3>1. BorrowIn(s, l)
      BY <1>5, <2>2 DEF SetOwner
    <3> QED BY <2>1, <2>2, <3>1, <1>1, <1>2, BorrowInFacts
  <2>3. CASE own = "OWNED"
    <3>1. loans' = InboundClosed(s)
      BY <1>5, <2>3 DEF SetOwner
    <3>2. /\ loans' \in [LoanIds -> Loan \cup {NoLoan}]
          /\ \A k \in LoanIds : loans'[k] # NoLoan =>
               loans[k] # NoLoan /\ loans'[k].spool = loans[k].spool
          /\ \A k \in LoanIds, t \in Spools, e \in Directions :
               Active(k, t, e)' <=> Active(k, t, e) /\ ~Active(k, s, "INBOUND")
      BY <3>1, <1>1, InboundClosedActive
    <3>3. \A k \in LoanIds, e \in Directions : ~Active(k, s, e)'
      BY <3>2, <2>1 DEF OnLoan
    <3>4. ~OnLoan(s, "INBOUND")' /\ ~OnLoan(s, "OUTBOUND")'
      BY <3>3 DEF OnLoan
    <3>5. \A k \in LoanIds, t \in Spools, e \in Directions :
            t # s => (Active(k, t, e)' <=> Active(k, t, e))
      BY <3>2 DEF Active
    <3> QED BY <2>1, <2>3, <3>2, <3>3, <3>4, <3>5, <1>1, <1>2
  <2> QED BY <2>2, <2>3 DEF Owners
<1> QED BY <1>4, <1>5

LEMMA CreateStep ==
  ASSUME IInv, NEW s \in Spools, NEW st \in Statuses, NEW own \in Owners, NEW l \in LoanIds,
         NEW p \in Shelves, NEW h \in Shelves, NEW g \in Grams,
         CreateSpool(s, st, own, l, p, h, g)
  PROVE  /\ IInv' /\ row[s] = "absent" /\ ~Unledgered(s)'
         /\ \A t \in Spools : t # s => HeldFor(t)
<1> USE DEF Directions
<1>1. TypeOK
  BY DEF IInv
<1>2. /\ row[s] = "absent"
      /\ row' = [row EXCEPT ![s] = "live"]
      /\ status' = [status EXCEPT ![s] = st]
      /\ owner' = [owner EXCEPT ![s] = own]
      /\ place' = [place EXCEPT ![s] = p]
      /\ home' = [home EXCEPT ![s] = IF h = "none" THEN p ELSE h]
      /\ grams' = [grams EXCEPT ![s] = g]
      /\ own = "BORROWED_IN" => BorrowIn(s, l)
      /\ own # "BORROWED_IN" => UNCHANGED loans
      /\ UNCHANGED slot
  BY DEF CreateSpool
<1>3. ~Live(s)
  BY <1>2 DEF Live
<1>4. /\ \A d \in Directions : ~OnLoan(s, d)
      /\ \A k \in LoanIds, d \in Directions : ~Active(k, s, d)
      /\ \A x \in Slots : slot[x] # s
  BY <1>3, AbsentFacts
<1>5. \A k \in LoanIds : loans[k] # NoLoan =>
         loans[k].spool \in Spools /\ row[loans[k].spool] # "absent"
  BY <1>1, LedgerType DEF IInv, RemovedRowsAreTidy
<1>6. /\ loans' \in [LoanIds -> Loan \cup {NoLoan}]
      /\ \A k \in LoanIds, t \in Spools, e \in Directions :
           t # s => (Active(k, t, e)' <=> Active(k, t, e))
      /\ \A k, j \in LoanIds, d, e \in Directions :
           Active(k, s, d)' /\ Active(j, s, e)' => k = j
      /\ OnLoan(s, "INBOUND")' <=> own = "BORROWED_IN"
      /\ ~OnLoan(s, "OUTBOUND")'
      /\ \A k \in LoanIds : loans'[k] # NoLoan =>
           \/ loans'[k].spool = s
           \/ loans'[k].spool \in Spools /\ row[loans'[k].spool] # "absent"
  <2>1. CASE own = "BORROWED_IN"
    BY <2>1, <1>2, BorrowInFacts
  <2>2. CASE own # "BORROWED_IN"
    <3>1. \A k \in LoanIds, t \in Spools, e \in Directions : Active(k, t, e)' <=> Active(k, t, e)
      BY <2>2, <1>2, KeptActive
    <3>2. \A d \in Directions : ~OnLoan(s, d)'
      BY <3>1, <1>4 DEF OnLoan
    <3> QED BY <2>2, <3>1, <3>2, <1>1, <1>2, <1>4, <1>5 DEF TypeOK
  <2> QED BY <2>1, <2>2
<1>7. TypeOK'
  BY <1>1, <1>2, <1>6 DEF TypeOK, Places
<1>8. /\ row'[s] = "live" /\ status'[s] = st /\ place'[s] = p /\ owner'[s] = own
      /\ \A t \in Spools : t # s => /\ row'[t] = row[t] /\ status'[t] = status[t]
                                    /\ owner'[t] = owner[t] /\ place'[t] = place[t]
  BY <1>1, <1>2 DEF TypeOK
<1>9. \A k \in LoanIds : loans'[k] # NoLoan => row'[loans'[k].spool] # "absent"
  BY <1>6, <1>8
<1>10. p \notin Slots /\ p # "loan"
  BY DEF Shelves
<1>11. ~Unledgered(s)'
  BY <1>6, <1>8 DEF Unledgered
<1>12. IInv' /\ \A t \in Spools : t # s => HeldFor(t)
  BY <1>2, <1>6, <1>7, <1>8, <1>9, <1>10, OneRoll
<1> QED BY <1>2, <1>11, <1>12

LEMMA UpdateOwnershipStep ==
  ASSUME IInv, NEW s \in Spools, NEW own \in Owners, NEW l \in LoanIds,
         UpdateOwnership(s, own, l)
  PROVE  IInv' /\ Held
<1> USE DEF Directions
<1>1. TypeOK /\ Live(s) /\ row[s] = "live" /\ UNCHANGED <<row, status, place, home, grams, slot>>
      /\ SetOwner(s, own, l, status[s])
  BY DEF IInv, UpdateOwnership, Live
<1>2. /\ loans' \in [LoanIds -> Loan \cup {NoLoan}]
      /\ owner' \in [Spools -> Owners]
      /\ owner'[s] = own /\ \A t \in Spools : t # s => owner'[t] = owner[t]
      /\ \A k \in LoanIds, t \in Spools, e \in Directions :
           t # s => (Active(k, t, e)' <=> Active(k, t, e))
      /\ \A k, j \in LoanIds, d, e \in Directions :
           Active(k, s, d)' /\ Active(j, s, e)' => k = j
      /\ OnLoan(s, "INBOUND")' => own = "BORROWED_IN"
      /\ own = "BORROWED_IN" => OnLoan(s, "INBOUND")' \/ Unledgered(s)
      /\ OnLoan(s, "OUTBOUND")' <=> OnLoan(s, "OUTBOUND")
      /\ OnLoan(s, "OUTBOUND") => own = "OWNED"
      /\ \A k \in LoanIds : loans'[k] # NoLoan =>
           loans'[k].spool \in Spools /\ row[loans'[k].spool] # "absent"
  BY <1>1, SetOwnerFacts
<1>3. TypeOK'
  BY <1>1, <1>2 DEF TypeOK
<1>4. /\ OnLoan(s, "OUTBOUND") => status[s] = "BORROWED" /\ place[s] = "loan"
      /\ place[s] \in Slots => slot[place[s]] = s
      /\ place[s] = "loan" => OnLoan(s, "OUTBOUND")
      /\ OnLoan(s, "OUTBOUND") => \A x \in Slots : slot[x] # s
  BY <1>1 DEF IInv, LentRollIsAway, PlaceIsTrue, LoadedRollIsHere
<1>5. HeldFor(s)
  BY <1>1, <1>2 DEF HeldFor, Dangling, Unledgered, Live, Loaded
<1>6. IInv' /\ \A t \in Spools : t # s => HeldFor(t)
  BY <1>1, <1>2, <1>3, <1>4, OneRoll
<1> QED BY <1>5, <1>6 DEF Held

LEMMA UpdateDetailsStep ==
  ASSUME IInv, NEW s \in Spools, NEW st \in Statuses, NEW p \in Shelves \cup {place[s]},
         NEW h \in Shelves \cup {"absent"}, NEW own \in Owners, NEW l \in LoanIds,
         UpdateDetails(s, st, p, h, own, l)
  PROVE  IInv' /\ Held
<1> USE DEF Directions
<1> DEFINE newHome == IF h = "absent" THEN home[s] ELSE h
           preserve == Loaded(s) \/ HasActiveLoan(s) \/ status[s] = "BORROWED"
           newPlace == IF h # "absent" /\ preserve THEN place[s]
                       ELSE IF h # "absent" /\ p = place[s] THEN newHome
                       ELSE p
<1>1. /\ TypeOK /\ Live(s) /\ row[s] = "live"
      /\ GuardedEdit(s, st, p, newHome, own) => ~Locked(s)
      /\ st = "ASSIGNED" => Loaded(s)
      /\ status' = [status EXCEPT ![s] = st]
      /\ place' = [place EXCEPT ![s] = newPlace]
      /\ home' = [home EXCEPT ![s] = newHome]
      /\ SetOwner(s, own, l, st)
      /\ UNCHANGED <<row, grams, slot>>
  BY DEF IInv, UpdateDetails, Live
<1>2. newHome \in Shelves
  BY <1>1 DEF TypeOK
<1>3. newPlace = place[s] \/ newPlace \in Shelves
  BY <1>2
<1>4. OnLoan(s, "OUTBOUND") => st = status[s] /\ newPlace = place[s]
  <2>1. SUFFICES ASSUME OnLoan(s, "OUTBOUND")
                 PROVE  st = status[s] /\ newPlace = place[s]
    OBVIOUS
  <2>2. Locked(s) /\ preserve
    BY <1>1, <2>1 DEF Locked, HasActiveLoan
  <2> QED BY <1>1, <2>2 DEF GuardedEdit
<1> HIDE DEF newHome, newPlace, preserve
<1>5. /\ loans' \in [LoanIds -> Loan \cup {NoLoan}]
      /\ owner' \in [Spools -> Owners]
      /\ owner'[s] = own /\ \A t \in Spools : t # s => owner'[t] = owner[t]
      /\ \A k \in LoanIds, t \in Spools, e \in Directions :
           t # s => (Active(k, t, e)' <=> Active(k, t, e))
      /\ \A k, j \in LoanIds, d, e \in Directions :
           Active(k, s, d)' /\ Active(j, s, e)' => k = j
      /\ OnLoan(s, "INBOUND")' => own = "BORROWED_IN"
      /\ own = "BORROWED_IN" => OnLoan(s, "INBOUND")' \/ Unledgered(s)
      /\ OnLoan(s, "OUTBOUND")' <=> OnLoan(s, "OUTBOUND")
      /\ OnLoan(s, "OUTBOUND") => own = "OWNED"
      /\ \A k \in LoanIds : loans'[k] # NoLoan =>
           loans'[k].spool \in Spools /\ row[loans'[k].spool] # "absent"
  BY <1>1, SetOwnerFacts
<1>6. TypeOK'
  BY <1>1, <1>2, <1>3, <1>5 DEF TypeOK, Places
<1>7. /\ status'[s] = st /\ place'[s] = newPlace
      /\ \A t \in Spools : t # s => status'[t] = status[t] /\ place'[t] = place[t]
  BY <1>1 DEF TypeOK
<1>8. /\ OnLoan(s, "OUTBOUND") => status[s] = "BORROWED" /\ place[s] = "loan"
      /\ place[s] \in Slots => slot[place[s]] = s
      /\ place[s] = "loan" => OnLoan(s, "OUTBOUND")
      /\ OnLoan(s, "OUTBOUND") => \A x \in Slots : slot[x] # s
  BY DEF IInv, LentRollIsAway, PlaceIsTrue, LoadedRollIsHere
<1>9. newPlace \in Slots \/ newPlace = "loan" => newPlace = place[s]
  BY <1>3 DEF Shelves
<1>10. HeldFor(s)
  BY <1>1, <1>5, <1>7 DEF HeldFor, Dangling, Unledgered, Loaded
<1>11. IInv' /\ \A t \in Spools : t # s => HeldFor(t)
  BY <1>1, <1>4, <1>5, <1>6, <1>7, <1>8, <1>9, OneRoll
<1> QED BY <1>10, <1>11 DEF Held

-----------------------------------------------------------------------------
(* The import of a row of a file. *)

\* What an import writes to the row of a roll.
LEMMA ImportFacts ==
  ASSUME IInv, NEW s \in Spools, NEW f \in FileRow, NEW l \in LoanIds, ImportRow(s, f, l)
  PROVE  /\ row'[s] = (IF row[s] = "deleted" THEN "deleted" ELSE "live")
         /\ status'[s] = "ASSIGNED" => Loaded(s)
         /\ status'[s] = "BORROWED" => status[s] = "BORROWED"
         /\ OnLoan(s, "OUTBOUND") => /\ status'[s] = status[s] /\ owner'[s] = owner[s]
                                     /\ place'[s] = place[s]
         /\ OnLoan(s, "INBOUND") => owner'[s] = owner[s]
         /\ place'[s] = place[s] \/ place'[s] \in Shelves
         /\ \A t \in Spools : t # s => /\ row'[t] = row[t] /\ status'[t] = status[t]
                                       /\ owner'[t] = owner[t] /\ place'[t] = place[t]
         /\ row' \in [Spools -> {"absent", "live", "deleted"}]
         /\ status' \in [Spools -> Statuses] /\ owner' \in [Spools -> Owners]
         /\ place' \in [Spools -> Places] /\ home' \in [Spools -> Shelves]
         /\ grams' \in [Spools -> Grams]
<1> DEFINE asked == Given(f.status, IF row[s] = "absent" THEN "IN_STOCK" ELSE status[s])
           newStatus == ImportedStatus(s, asked)
           newOwner == ImportedOwner(s, f.owner)
           newPlace == IF Locked(s) \/ Loaded(s) THEN place[s] ELSE Given(f.place, place[s])
           newHome == IF Locked(s) THEN home[s] ELSE Given(f.home, home[s])
           newRow == IF row[s] = "deleted" THEN "deleted" ELSE "live"
<1>1. TypeOK
  BY DEF IInv
<1>2. /\ row' = [row EXCEPT ![s] = newRow]
      /\ status' = [status EXCEPT ![s] = newStatus]
      /\ owner' = [owner EXCEPT ![s] = newOwner]
      /\ place' = [place EXCEPT ![s] = newPlace]
      /\ home' = [home EXCEPT ![s] = newHome]
      /\ grams' = [grams EXCEPT ![s] = ImportedGrams(s, f.grams)]
  BY DEF ImportRow
<1>3. asked \in Statuses
  BY <1>1 DEF TypeOK, FileRow, Given, Statuses
<1>4. newOwner \in Owners
  BY <1>1 DEF TypeOK, FileRow, Given, ImportedOwner, Owners
<1>5. newPlace = place[s] \/ newPlace \in Shelves
  BY DEF FileRow, Given, Shelves
<1>6. newHome \in Shelves
  BY <1>1 DEF TypeOK, FileRow, Given, Shelves
<1>7. ImportedGrams(s, f.grams) \in Grams
  BY <1>1 DEF TypeOK, FileRow, ImportedGrams, Grams
<1>8. Locked(s) => status[s] = "BORROWED"
  BY DEF Locked, IInv, LentRollIsAway
<1>9. /\ newStatus \in Statuses
      /\ newStatus = "ASSIGNED" => Loaded(s)
      /\ newStatus = "BORROWED" => status[s] = "BORROWED"
  BY <1>1, <1>3, <1>8 DEF ImportedStatus, TypeOK, Statuses
<1>10. OnLoan(s, "OUTBOUND") =>
         newStatus = status[s] /\ newOwner = owner[s] /\ newPlace = place[s]
  <2>1. OnLoan(s, "OUTBOUND") => Locked(s)
    BY DEF Locked, IInv, LentRollIsAway
  <2> QED BY <2>1 DEF ImportedStatus, ImportedOwner
<1>11. OnLoan(s, "INBOUND") => newOwner = owner[s]
  BY DEF ImportedOwner, HasActiveLoan, Directions
<1> HIDE DEF asked, newStatus, newOwner, newPlace, newHome, newRow
<1>12. /\ row' [s] = newRow /\ status'[s] = newStatus /\ owner'[s] = newOwner
       /\ place'[s] = newPlace
       /\ \A t \in Spools : t # s => /\ row'[t] = row[t] /\ status'[t] = status[t]
                                     /\ owner'[t] = owner[t] /\ place'[t] = place[t]
  BY <1>1, <1>2 DEF TypeOK
<1>13. newRow \in {"live", "deleted"} /\ newPlace \in Places
  BY <1>1, <1>5 DEF newRow, TypeOK, Places
<1>14. /\ row' \in [Spools -> {"absent", "live", "deleted"}]
       /\ status' \in [Spools -> Statuses] /\ owner' \in [Spools -> Owners]
       /\ place' \in [Spools -> Places] /\ home' \in [Spools -> Shelves]
       /\ grams' \in [Spools -> Grams]
  BY <1>1, <1>2, <1>4, <1>6, <1>7, <1>9, <1>13 DEF TypeOK
<1> QED BY <1>5, <1>9, <1>10, <1>11, <1>12, <1>14 DEF newRow

\* What an import does to the ledger: nothing, or it opens the inbound loan of
\* a roll that becomes borrowed in.
LEMMA ImportLedger ==
  ASSUME IInv, NEW s \in Spools, NEW f \in FileRow, NEW l \in LoanIds, ImportRow(s, f, l)
  PROVE  /\ UNCHANGED loans \/ (BorrowIn(s, l) /\ row[s] # "deleted" /\ owner'[s] = "BORROWED_IN")
         /\ loans' \in [LoanIds -> Loan \cup {NoLoan}]
         /\ \A k \in LoanIds, t \in Spools, e \in Directions :
              t # s => (Active(k, t, e)' <=> Active(k, t, e))
         /\ \A k, j \in LoanIds, d, e \in Directions :
              Active(k, s, d)' /\ Active(j, s, e)' => k = j
         /\ OnLoan(s, "OUTBOUND")' <=> OnLoan(s, "OUTBOUND")
         /\ OnLoan(s, "INBOUND")' =>
              (OnLoan(s, "INBOUND") /\ UNCHANGED loans)
                \/ (row[s] # "deleted" /\ owner'[s] = "BORROWED_IN")
         /\ Unledgered(s)' => \/ Unledgered(s)
                              \/ status'[s] \in Historical /\ ~OnLoan(s, "INBOUND")
         /\ \A k \in LoanIds : loans'[k] # NoLoan =>
              \/ loans'[k].spool = s
              \/ loans'[k].spool \in Spools /\ row[loans'[k].spool] # "absent"
<1> USE DEF Directions
<1>1. /\ TypeOK
      /\ row'[s] = (IF row[s] = "deleted" THEN "deleted" ELSE "live")
      /\ IF OpensLoan(s, owner'[s], status'[s])
         THEN row[s] # "deleted" /\ BorrowIn(s, l)
         ELSE UNCHANGED loans
  <2>1. TypeOK
    BY DEF IInv
  <2>2. /\ row'[s] = (IF row[s] = "deleted" THEN "deleted" ELSE "live")
        /\ owner'[s] = ImportedOwner(s, f.owner)
        /\ status'[s] = ImportedStatus(s,
              Given(f.status, IF row[s] = "absent" THEN "IN_STOCK" ELSE status[s]))
    BY <2>1 DEF ImportRow, TypeOK
  <2> QED BY <2>1, <2>2 DEF ImportRow
<1>2. CASE OpensLoan(s, owner'[s], status'[s])
  <2>1. BorrowIn(s, l) /\ row[s] # "deleted" /\ owner'[s] = "BORROWED_IN"
    BY <1>1, <1>2 DEF OpensLoan
  <2>2. ~OnLoan(s, "OUTBOUND")
    BY <2>1, NoLoanFacts DEF BorrowIn
  <2> QED BY <2>1, <2>2, BorrowInFacts DEF Unledgered
<1>3. CASE ~OpensLoan(s, owner'[s], status'[s])
  <2>1. UNCHANGED loans
    BY <1>1, <1>3
  <2>2. \A k \in LoanIds, t \in Spools, e \in Directions : Active(k, t, e)' <=> Active(k, t, e)
    BY <2>1, KeptActive
  <2>3. \A d \in Directions : OnLoan(s, d)' <=> OnLoan(s, d)
    BY <2>2 DEF OnLoan
  <2>4. \A k, j \in LoanIds, d, e \in Directions : Active(k, s, d)' /\ Active(j, s, e)' => k = j
    BY <2>2 DEF IInv, OneOpenLoan
  <2>5. \A k \in LoanIds : loans'[k] # NoLoan =>
           loans'[k].spool \in Spools /\ row[loans'[k].spool] # "absent"
    BY <1>1, <2>1, LedgerType DEF IInv, RemovedRowsAreTidy
  <2>6. loans' \in [LoanIds -> Loan \cup {NoLoan}]
    BY <1>1, <2>1 DEF TypeOK
  <2>7. Unledgered(s)' => \/ Unledgered(s)
                          \/ status'[s] \in Historical /\ ~OnLoan(s, "INBOUND")
    <3>1. SUFFICES ASSUME Unledgered(s)', ~(status'[s] \in Historical)
                   PROVE  Unledgered(s)
      BY <2>3 DEF Unledgered
    <3>2. owner[s] = "BORROWED_IN"
      BY <1>3, <3>1 DEF OpensLoan, Unledgered
    <3>3. row[s] # "absent" /\ row[s] # "deleted"
      BY <1>1, <3>1, <3>2 DEF IInv, RemovedRowsAreTidy, Unledgered, Live
    <3>4. Live(s)
      BY <1>1, <3>3 DEF TypeOK, Live
    <3> QED BY <3>1, <3>2, <3>4, <2>3 DEF Unledgered
  <2> QED BY <2>1, <2>2, <2>3, <2>4, <2>5, <2>6, <2>7
<1> QED BY <1>2, <1>3

\* A file puts no roll in use that is in no slot, and ends no loan.
LEMMA ImportRowStep ==
  ASSUME IInv, NEW s \in Spools, NEW f \in FileRow, NEW l \in LoanIds, ImportRow(s, f, l)
  PROVE  /\ IInv'
         /\ \A t \in Spools : t # s => HeldFor(t)
         /\ ~Dangling(s)'
         /\ Unledgered(s)' => \/ Unledgered(s)
                              \/ status'[s] \in Historical /\ ~OnLoan(s, "INBOUND")
<1> USE DEF Directions
<1>1. TypeOK /\ UNCHANGED slot
  BY DEF IInv, ImportRow
<1>2. /\ row'[s] = (IF row[s] = "deleted" THEN "deleted" ELSE "live")
      /\ status'[s] = "ASSIGNED" => Loaded(s)
      /\ status'[s] = "BORROWED" => status[s] = "BORROWED"
      /\ OnLoan(s, "OUTBOUND") => /\ status'[s] = status[s] /\ owner'[s] = owner[s]
                                  /\ place'[s] = place[s]
      /\ OnLoan(s, "INBOUND") => owner'[s] = owner[s]
      /\ place'[s] = place[s] \/ place'[s] \in Shelves
      /\ \A t \in Spools : t # s => /\ row'[t] = row[t] /\ status'[t] = status[t]
                                    /\ owner'[t] = owner[t] /\ place'[t] = place[t]
      /\ row' \in [Spools -> {"absent", "live", "deleted"}]
      /\ status' \in [Spools -> Statuses] /\ owner' \in [Spools -> Owners]
      /\ place' \in [Spools -> Places] /\ home' \in [Spools -> Shelves]
      /\ grams' \in [Spools -> Grams]
  BY ImportFacts
<1>3. /\ loans' \in [LoanIds -> Loan \cup {NoLoan}]
      /\ \A k \in LoanIds, t \in Spools, e \in Directions :
           t # s => (Active(k, t, e)' <=> Active(k, t, e))
      /\ \A k, j \in LoanIds, d, e \in Directions :
           Active(k, s, d)' /\ Active(j, s, e)' => k = j
      /\ OnLoan(s, "OUTBOUND")' <=> OnLoan(s, "OUTBOUND")
      /\ OnLoan(s, "INBOUND")' =>
           (OnLoan(s, "INBOUND") /\ UNCHANGED loans)
             \/ (row[s] # "deleted" /\ owner'[s] = "BORROWED_IN")
      /\ Unledgered(s)' => \/ Unledgered(s)
                           \/ status'[s] \in Historical /\ ~OnLoan(s, "INBOUND")
      /\ \A k \in LoanIds : loans'[k] # NoLoan =>
           \/ loans'[k].spool = s
           \/ loans'[k].spool \in Spools /\ row[loans'[k].spool] # "absent"
  BY ImportLedger
<1>4. TypeOK'
  BY <1>1, <1>2, <1>3 DEF TypeOK
<1>5. \A k \in LoanIds : loans'[k] # NoLoan => row'[loans'[k].spool] # "absent"
  BY <1>2, <1>3
<1>6. row[s] = "deleted" => /\ \A x \in Slots : slot[x] # s
                            /\ ~Loaded(s)
                            /\ status[s] # "BORROWED" /\ place[s] \in Shelves
  <2>1. row[s] = "deleted" => ~Live(s)
    BY DEF Live
  <2> QED BY <2>1, AbsentFacts DEF Loaded, IInv, RemovedRowsAreTidy
<1>7. row'[s] # "live" => /\ status'[s] \notin {"ASSIGNED", "BORROWED"}
                          /\ place'[s] \in {"none", "shelf"}
  BY <1>2, <1>6 DEF Shelves
<1>8. row'[s] # "absent"
  BY <1>2
<1>9. OnLoan(s, "OUTBOUND") => /\ row'[s] = "live" /\ \A x \in Slots : slot[x] # s
                               /\ status[s] = "BORROWED" /\ owner[s] = "OWNED"
                               /\ place[s] = "loan"
  BY <1>2 DEF IInv, LentRollIsAway, LoadedRollIsHere, Live
<1>10. OnLoan(s, "INBOUND")' => row'[s] = "live" /\ owner'[s] = "BORROWED_IN"
  <2>1. OnLoan(s, "INBOUND") => row'[s] = "live" /\ owner[s] = "BORROWED_IN"
    BY <1>2 DEF IInv, InboundRollIsHere, Live
  <2> QED BY <2>1, <1>2, <1>3
<1>11. place'[s] \in Slots \/ place'[s] = "loan" => place'[s] = place[s]
  BY <1>2 DEF Shelves
<1>12. /\ place[s] \in Slots => slot[place[s]] = s
       /\ place[s] = "loan" => OnLoan(s, "OUTBOUND")
  BY DEF IInv, PlaceIsTrue
<1>13. ~Dangling(s)'
  BY <1>1, <1>2 DEF Dangling, Loaded
<1>14. IInv' /\ \A t \in Spools : t # s => HeldFor(t)
  BY <1>1, <1>2, <1>3, <1>4, <1>5, <1>6, <1>7, <1>8, <1>9, <1>10, <1>11, <1>12, OneRoll
<1> QED BY <1>3, <1>13, <1>14

LEMMA ImportHolds ==
  ASSUME IInv, NEW s \in Spools, ImportStep(s)
  PROVE  /\ IInv'
         /\ \A t \in Spools : Dangling(t)' => Dangling(t)
         /\ \A t \in Spools : Unledgered(t)' =>
              \/ Unledgered(t)
              \/ status'[t] \in Historical /\ ~OnLoan(t, "INBOUND")
<1>1. PICK f \in FileRow, l \in LoanIds : ImportRow(s, f, l)
  BY DEF ImportStep
<1>2. /\ IInv'
      /\ \A t \in Spools : t # s => HeldFor(t)
      /\ ~Dangling(s)'
      /\ Unledgered(s)' => \/ Unledgered(s)
                           \/ status'[s] \in Historical /\ ~OnLoan(s, "INBOUND")
  BY <1>1, ImportRowStep
<1> QED BY <1>2 DEF HeldFor

-----------------------------------------------------------------------------
(* What may never change: the record of a removed roll and of a return. *)

Untouched(s) ==
  \/ row'[s] = "absent"
  \/ /\ row'[s] = "deleted" /\ status'[s] = status[s] /\ owner'[s] = owner[s]
     /\ grams'[s] = grams[s] /\ place'[s] = place[s] /\ home'[s] = home[s]

\* A request about one roll: it is refused for a removed one, save a purge.
LEMMA RemovedSpoolStep ==
  ASSUME IInv, NEW s \in Spools, row[s] = "deleted", NEW t \in Spools, SpoolStep(t)
  PROVE  Untouched(s)
<1>1. TypeOK /\ ~Live(s) /\ row[s] # "absent"
  BY DEF IInv, Live
<1>2. \A st \in AskedStatuses, own \in Owners, l \in LoanIds, p, h \in Shelves, g \in Grams :
        CreateSpool(t, st, own, l, p, h, g) => Untouched(s)
  BY <1>1 DEF CreateSpool, Untouched, TypeOK
<1>3. \A g \in Grams : UpdateWeight(t, g) => Untouched(s)
  BY <1>1 DEF UpdateWeight, Untouched, TypeOK
<1>4. \A st \in EditStatuses : UpdateStatus(t, st) => Untouched(s)
  BY <1>1 DEF UpdateStatus, Untouched, TypeOK
<1>5. \A p \in Shelves : AssignLocation(t, p) => Untouched(s)
  BY <1>1 DEF AssignLocation, Untouched, TypeOK
<1>6. \A own \in Owners, l \in LoanIds : UpdateOwnership(t, own, l) => Untouched(s)
  BY <1>1 DEF UpdateOwnership, SetOwner, Untouched, TypeOK
<1>7. \A st \in EditStatuses \cup {status[t]}, p \in Shelves \cup {place[t]},
         h \in Shelves \cup {"absent"}, own \in Owners, l \in LoanIds :
        UpdateDetails(t, st, p, h, own, l) => Untouched(s)
  BY <1>1 DEF UpdateDetails, SetOwner, Untouched, TypeOK
<1>8. DeleteSpool(t) => Untouched(s)
  BY <1>1 DEF DeleteSpool, Untouched, TypeOK
<1>9. PurgeSpool(t) => Untouched(s)
  BY <1>1 DEF PurgeSpool, Untouched, TypeOK
<1>10. \A used \in 1..MaxGrams : RecordPrintUsage(t, used) => Untouched(s)
  BY <1>1 DEF RecordPrintUsage, Untouched, TypeOK
<1>11. \A l \in LoanIds, g \in Grams : LendSpool(t, l, g) => Untouched(s)
  BY <1>1 DEF LendSpool, Untouched, TypeOK
<1>12. \A st \in {"LOST", "IN_STOCK"} : RollStatus(t, st) => Untouched(s)
  BY <1>1 DEF RollStatus, RollReviewed, Removed, UnloadAs, ReleasedPlace, Untouched, TypeOK
<1>13. MarkEmpty(t) => Untouched(s)
  BY <1>1 DEF MarkEmpty, RollReviewed, Removed, UnloadAs, ReleasedPlace, Untouched, TypeOK
<1>14. \A m \in Grams : RollWeight(t, m) => Untouched(s)
  BY <1>1 DEF RollWeight, RollReviewed, Removed, Untouched, TypeOK
<1> QED BY <1>2, <1>3, <1>4, <1>5, <1>6, <1>7, <1>8, <1>9, <1>10, <1>11, <1>12, <1>13, <1>14
        DEF SpoolStep

\* A return finds its roll on hand: an open loan keeps a roll from removal.
LEMMA RemovedLoanStep ==
  ASSUME IInv, NEW s \in Spools, row[s] = "deleted", NEW l \in LoanIds, LoanStep(l)
  PROVE  Untouched(s)
<1>1. TypeOK /\ ~Live(s)
  BY DEF IInv, Live
<1>2. \A g \in Grams : ReturnSpoolLoan(l, g) => Untouched(s)
  BY <1>1 DEF ReturnSpoolLoan, Untouched, TypeOK
<1>3. \A g \in Grams : ReturnInboundSpoolLoan(l, g) => Untouched(s)
  BY <1>1 DEF ReturnInboundSpoolLoan, Untouched, TypeOK
<1> QED BY <1>2, <1>3 DEF LoanStep

\* Slots and printers only touch rolls that are in a slot or are being loaded.
LEMMA RemovedSlotStep ==
  ASSUME IInv, NEW s \in Spools, row[s] = "deleted", NEW x \in Slots, SlotStep(x)
  PROVE  Untouched(s)
<1>1. TypeOK /\ ~Live(s) /\ \A y \in Slots : slot[y] # s
  BY AbsentFacts DEF IInv, Live
<1>2. ASSUME NEW n \in Spools \cup {"empty"}, NEW st \in [Spools -> Statuses],
             st[s] = status[s], Assign(x, n, st)
      PROVE  status'[s] = status[s] /\ place'[s] = place[s] /\ s # n
  BY <1>1, <1>2 DEF Assign, ReleasedStatus, ReleasedPlace
<1>3. \A n \in Spools \cup {"empty"} : AssignPrinterSlot(x, n) => Untouched(s)
  BY <1>1, <1>2 DEF AssignPrinterSlot, Untouched, TypeOK
<1>4. \A m \in Grams : MeasureLoadedSpool(x, m) => Untouched(s)
  BY <1>1 DEF MeasureLoadedSpool, Untouched, TypeOK
<1>5. \A g \in Grams : AcceptWeightEstimate(x, g) => Untouched(s)
  BY <1>1 DEF AcceptWeightEstimate, Untouched, TypeOK
<1>6. ASSUME NEW old \in Spools \cup {"empty"}, NEW n \in Spools \cup {"empty"},
             NEW mo \in Grams \cup {NotWeighed}, NEW mi \in Grams \cup {NotWeighed},
             OperatePrinterSlot(x, old, n, mo, mi)
      PROVE  Untouched(s)
  <2> DEFINE measured == IF old \in Spools /\ mo # NotWeighed THEN {old} ELSE {}
             st0 == [r \in Spools |-> IF r \in measured THEN MeasuredStatus(r, mo) ELSE status[r]]
  <2>1. /\ slot[x] = old /\ Assign(x, n, st0)
        /\ grams' = [r \in Spools |-> IF r \in measured THEN mo
                                      ELSE IF r = n /\ mi # NotWeighed THEN mi
                                      ELSE grams[r]]
        /\ UNCHANGED <<row, owner, home, loans>>
    BY <1>6 DEF OperatePrinterSlot
  <2>2. s \notin measured
    BY <1>1, <2>1
  <2>3. st0 \in [Spools -> Statuses] /\ st0[s] = status[s]
    BY <1>1, <2>2 DEF TypeOK, MeasuredStatus, UsedStatus, Statuses
  <2> HIDE DEF st0, measured
  <2>4. status'[s] = status[s] /\ place'[s] = place[s] /\ s # n
    BY <1>2, <2>1, <2>3
  <2> QED BY <2>1, <2>2, <2>4 DEF Untouched
<1> QED BY <1>3, <1>4, <1>5, <1>6 DEF SlotStep

LEMMA RemovedPrinterStep ==
  ASSUME IInv, NEW s \in Spools, row[s] = "deleted", NEW p \in Printers, PrinterStep(p)
  PROVE  Untouched(s)
<1>1. PICK gone \in SUBSET Slots, kept \in SUBSET Slots : RemoveSlots(gone, kept)
  BY DEF PrinterStep, UpsertPrinter, DeletePrinter, SlotsOf
<1>2. \A y \in Slots : slot[y] # s
  BY AbsentFacts DEF Live
<1> QED BY <1>1, <1>2 DEF RemoveSlots, ReleasedStatus, ReleasedPlace, Untouched

LEMMA RemovedBulkStep ==
  ASSUME IInv, NEW s \in Spools, row[s] = "deleted", NEW rolls \in SUBSET Spools, BulkStep(rolls)
  PROVE  Untouched(s)
<1>1. ~BulkChangeable(s)
  BY ChangeableFacts DEF Live
<1>2. BulkMove(rolls) => Untouched(s)
  BY <1>1 DEF BulkMove, Untouched
<1>3. \A st \in {"IN_STOCK", "EMPTY", "LOST"} : BulkStatus(rolls, st) => Untouched(s)
  BY <1>1 DEF BulkStatus, Untouched
<1> QED BY <1>2, <1>3 DEF BulkStep

Kept(l) == loans'[l] = loans[l] \/ row'[loans[l].spool] = "absent"

Returned(l) == loans[l] # NoLoan /\ loans[l].status = "RETURNED"

\* What an operation may do to the ledger: open a loan where none was, close
\* an active one, or purge the loans of a roll.
LEMMA OpeningKeeps ==
  ASSUME IInv, NEW l \in LoanIds, Returned(l),
         NEW k \in LoanIds, loans[k] = NoLoan, NEW t, NEW d, loans' = Opened(k, t, d)
  PROVE  Kept(l)
  BY DEF Opened, Kept, Returned, IInv, TypeOK

LEMMA OwnerKeeps ==
  ASSUME IInv, NEW l \in LoanIds, Returned(l),
         NEW s, NEW own \in Owners, NEW k \in LoanIds, NEW st, SetOwner(s, own, k, st)
  PROVE  Kept(l)
<1>1. CASE own = owner[s]
  BY <1>1 DEF SetOwner, Kept
<1>2. CASE own # owner[s] /\ own = "BORROWED_IN"
  BY <1>2, OpeningKeeps DEF SetOwner, BorrowIn
<1>3. CASE own # owner[s] /\ own # "BORROWED_IN"
  BY <1>3 DEF SetOwner, InboundClosed, Active, Returned, Kept
<1> QED BY <1>1, <1>2, <1>3

LEMMA ReturnedSpoolStep ==
  ASSUME IInv, NEW l \in LoanIds, Returned(l), NEW t \in Spools, SpoolStep(t)
  PROVE  Kept(l)
<1>1. \A st \in AskedStatuses, own \in Owners, k \in LoanIds, p, h \in Shelves, g \in Grams :
        CreateSpool(t, st, own, k, p, h, g) => Kept(l)
  BY OpeningKeeps DEF CreateSpool, BorrowIn, Kept
<1>2. \A own \in Owners, k \in LoanIds : UpdateOwnership(t, own, k) => Kept(l)
  BY OwnerKeeps DEF UpdateOwnership
<1>3. \A st \in EditStatuses \cup {status[t]}, p \in Shelves \cup {place[t]},
         h \in Shelves \cup {"absent"}, own \in Owners, k \in LoanIds :
        UpdateDetails(t, st, p, h, own, k) => Kept(l)
  BY OwnerKeeps DEF UpdateDetails
<1>4. PurgeSpool(t) => Kept(l)
  <2>1. SUFFICES ASSUME PurgeSpool(t) PROVE Kept(l)
    OBVIOUS
  <2>2. row'[t] = "absent"
    BY <2>1 DEF PurgeSpool, IInv, TypeOK
  <2> QED BY <2>1, <2>2 DEF PurgeSpool, Kept
<1>5. \A k \in LoanIds, g \in Grams : LendSpool(t, k, g) => Kept(l)
  BY OpeningKeeps DEF LendSpool
<1>6. \/ \E g \in Grams : UpdateWeight(t, g)
      \/ \E st \in EditStatuses : UpdateStatus(t, st)
      \/ \E p \in Shelves : AssignLocation(t, p)
      \/ DeleteSpool(t)
      \/ \E used \in 1..MaxGrams : RecordPrintUsage(t, used)
      \/ \E st \in {"LOST", "IN_STOCK"} : RollStatus(t, st)
      \/ MarkEmpty(t)
      \/ \E m \in Grams : RollWeight(t, m)
      => Kept(l)
  BY DEF UpdateWeight, UpdateStatus, AssignLocation, DeleteSpool, RecordPrintUsage,
         RollStatus, MarkEmpty, RollWeight, Kept
<1> QED BY <1>1, <1>2, <1>3, <1>4, <1>5, <1>6 DEF SpoolStep

LEMMA ReturnedLoanStep ==
  ASSUME IInv, NEW l \in LoanIds, Returned(l), NEW k \in LoanIds, LoanStep(k)
  PROVE  Kept(l)
<1>1. k # l
  BY DEF LoanStep, ReturnSpoolLoan, ReturnInboundSpoolLoan, Returnable, Returned
<1>2. \E g \in Grams : loans' = [loans EXCEPT ![k] = ClosedAs(loans[k], g)]
  BY DEF LoanStep, ReturnSpoolLoan, ReturnInboundSpoolLoan
<1> QED BY <1>1, <1>2 DEF Kept, IInv, TypeOK

LEMMA ReturnedOtherStep ==
  ASSUME NEW l \in LoanIds,
         \/ \E x \in Slots : SlotStep(x)
         \/ \E p \in Printers : PrinterStep(p)
         \/ \E rolls \in SUBSET Spools : BulkStep(rolls)
  PROVE  Kept(l)
<1>1. UNCHANGED loans
  BY DEF SlotStep, AssignPrinterSlot, MeasureLoadedSpool, AcceptWeightEstimate,
         OperatePrinterSlot, PrinterStep, DeletePrinter, UpsertPrinter, RemoveSlots,
         BulkStep, BulkMove, BulkStatus
<1> QED BY <1>1 DEF Kept

LEMMA ReturnedImport ==
  ASSUME IInv, NEW l \in LoanIds, Returned(l), NEW s \in Spools, ImportStep(s)
  PROVE  Kept(l)
<1>1. PICK f \in FileRow, k \in LoanIds : ImportRow(s, f, k)
  BY DEF ImportStep
<1>2. UNCHANGED loans \/ BorrowIn(s, k)
  BY <1>1, ImportLedger
<1>3. BorrowIn(s, k) => Kept(l)
  BY OpeningKeeps DEF BorrowIn
<1> QED BY <1>2, <1>3 DEF Kept

-----------------------------------------------------------------------------
(* The theorems. *)

LEMMA Initially == Init => IInv
<1> SUFFICES ASSUME Init PROVE IInv
  OBVIOUS
<1>1. TypeOK
  BY DEF Init, TypeOK, Statuses, Owners, Places, Shelves, Grams
<1>2. \A l \in LoanIds, s \in Spools, d \in Directions : ~Active(l, s, d)
  BY DEF Init, Active
<1>3. \A s \in Spools, d \in Directions : ~OnLoan(s, d)
  BY <1>2 DEF OnLoan
<1>4. \A s \in Spools : ~Live(s)
  BY DEF Init, Live
<1>5. \A x \in Slots : slot[x] \notin Spools
  BY DEF Init
<1>6. RemovedRowsAreTidy
  BY DEF Init, RemovedRowsAreTidy, Shelves
<1>7. OneSlotPerRoll /\ LoadedRollIsHere
  BY <1>5 DEF OneSlotPerRoll, LoadedRollIsHere
<1>8. PlaceIsTrue
  BY DEF Init, PlaceIsTrue
<1>9. OneOpenLoan /\ LentRollIsAway /\ InboundRollIsHere
  BY <1>2, <1>3, <1>4 DEF OneOpenLoan, LentRollIsAway, InboundRollIsHere, Directions
<1> QED BY <1>1, <1>6, <1>7, <1>8, <1>9 DEF IInv

LEMMA Stutter ==
  ASSUME IInv, UNCHANGED vars
  PROVE  IInv'
<1>1. TypeOK'
  BY DEF vars, IInv, TypeOK
<1> QED BY <1>1, Edit DEF vars

\* Only the registration of a roll may leave one in use that is in no slot, and
\* no request leaves a borrowed roll without its loan.
LEMMA RequestHolds ==
  ASSUME IInv, RequestStep
  PROVE  /\ IInv'
         /\ \A s \in Spools : Dangling(s)' => Dangling(s) \/ row[s] = "absent"
         /\ \A s \in Spools : Unledgered(s)' => Unledgered(s)
<1> DEFINE Goal == /\ IInv'
                   /\ \A s \in Spools : Dangling(s)' => Dangling(s) \/ row[s] = "absent"
                   /\ \A s \in Spools : Unledgered(s)' => Unledgered(s)
<1> SUFFICES Goal
  OBVIOUS
<1>0. IInv' /\ Held => Goal
  BY DEF Held, HeldFor
<1>1. CASE \E s \in Spools : SpoolStep(s)
  <2>1. PICK s \in Spools : SpoolStep(s)
    BY <1>1
  <2>2. status[s] \in Statuses /\ AskedStatuses \subseteq Statuses
    BY DEF IInv, TypeOK, AskedStatuses, Statuses
  <2>3. ASSUME NEW st \in AskedStatuses, NEW own \in Owners, NEW l \in LoanIds,
               NEW p \in Shelves, NEW h \in Shelves, NEW g \in Grams,
               CreateSpool(s, st, own, l, p, h, g)
        PROVE  Goal
    <3>1. /\ IInv' /\ row[s] = "absent" /\ ~Unledgered(s)'
          /\ \A t \in Spools : t # s => HeldFor(t)
      BY <2>2, <2>3, CreateStep
    <3> QED BY <3>1 DEF HeldFor
  <2>4. (IInv' /\ Held) \/ Goal
    <3> HIDE DEF Goal
    <3> QED BY <2>1, <2>2, <2>3, UpdateWeightStep, UpdateStatusStep, AssignLocationStep,
               UpdateOwnershipStep, UpdateDetailsStep, DeleteStep, PurgeStep, RecordUsageStep,
               LendStep, RollStatusStep, MarkEmptyStep, RollWeightStep
            DEF SpoolStep
  <2> QED BY <2>4, <1>0
<1> HIDE DEF Goal
<1>2. CASE \E l \in LoanIds : LoanStep(l)
  BY <1>0, <1>2, ReturnStep, ReturnInboundStep DEF LoanStep
<1>3. CASE \E x \in Slots : SlotStep(x)
  BY <1>0, <1>3, AssignPrinterSlotStep, MeasureLoadedStep, AcceptEstimateStep, OperateStep
     DEF SlotStep
<1>4. CASE \E p \in Printers : PrinterStep(p)
  BY <1>0, <1>4, UpsertPrinterStep, DeletePrinterStep DEF PrinterStep
<1>5. CASE \E rolls \in SUBSET Spools : BulkStep(rolls)
  BY <1>0, <1>5, BulkMoveStep, BulkStatusStep DEF BulkStep
<1> QED BY <1>1, <1>2, <1>3, <1>4, <1>5 DEF RequestStep

LEMMA Step ==
  ASSUME IInv, Next
  PROVE  IInv'
  BY RequestHolds, ImportHolds DEF Next

\* The inductive invariant.
THEOREM Invariance == Spec => []IInv
<1>1. Init => IInv
  BY Initially
<1>2. IInv /\ [Next]_vars => IInv'
  BY Step, Stutter
<1> QED BY <1>1, <1>2, PTL DEF Spec

\* The columns of filament_spools, ams_slots and spool_loans keep their types,
\* whatever is registered, edited or imported: a weight stays in 0..MaxGrams, a
\* loan names a roll whose row is still there (a purge takes its loans along),
\* and a row that is not in the library says neither "in use" nor "lent".
THEOREM TypeCorrect == Spec => [](TypeOK /\ RemovedRowsAreTidy)
  BY Invariance, PTL DEF IInv

\* assign_spool_to_ams_slot_in_transaction and every other writer of slot rows
\* keep a roll out of two slots.
THEOREM SlotsExclusive == Spec => []OneSlotPerRoll
  BY Invariance, PTL DEF IInv

\* No slot names a roll that was removed or lent.
THEOREM SlotsTrue == Spec => []LoadedRollIsHere
  BY Invariance, PTL DEF IInv

\* The place column never names a slot or a borrower that does not have the roll.
THEOREM PlacesTrue == Spec => []PlaceIsTrue
  BY Invariance, PTL DEF IInv

\* ensure_spool_can_be_loaned keeps a roll from a second open loan.
THEOREM LoansExclusive == Spec => []OneOpenLoan
  BY Invariance, PTL DEF IInv

\* The loan lock holds: row and ledger agree on every lent roll.
THEOREM LentIsAway == Spec => []LentRollIsAway
  BY Invariance, PTL DEF IInv

\* ensure_spool_has_no_active_loan and the ownership changes: an open inbound
\* loan is of a roll on hand that is marked as somebody else's.
THEOREM InboundIsHere == Spec => []InboundRollIsHere
  BY Invariance, PTL DEF IInv

\* The rolls and the loan ledger agree, for any number of rolls and loans and
\* any files: at most one open loan per roll, a lent roll is away and locked, a
\* roll with an open inbound loan is on hand and somebody else's.
THEOREM LoansSound == Spec => []LoansAgree
  BY TypeCorrect, LoansExclusive, LentIsAway, InboundIsHere, PTL DEF LoansAgree

\* The rolls and the slots agree, for any number of printers and slots: at most
\* one slot per roll, no slot with a roll that is gone or lent, and no row that
\* names a slot the roll is not in.
THEOREM SlotsSound == Spec => []SlotsAgree
  BY SlotsExclusive, SlotsTrue, PlacesTrue, PTL DEF SlotsAgree

\* No late request, return or printer change alters a removed roll, whatever
\* its order with the removal: only a purge ends its record, and only the
\* import of a file rewrites it, which leaves it removed.
THEOREM RemovedFinal == Spec => RemovedStaysRemoved
<1>1. ASSUME IInv, RequestStep, NEW s \in Spools, row[s] = "deleted"
      PROVE  Untouched(s)
  BY <1>1, RemovedSpoolStep, RemovedLoanStep, RemovedSlotStep, RemovedPrinterStep,
     RemovedBulkStep DEF RequestStep
<1>2. ASSUME IInv, NEW t \in Spools, ImportStep(t), NEW s \in Spools, row[s] = "deleted"
      PROVE  row'[s] = "deleted"
  <2>1. PICK f \in FileRow, l \in LoanIds : ImportRow(t, f, l)
    BY <1>2 DEF ImportStep
  <2> QED BY <2>1, <1>2, ImportFacts
<1>3. IInv /\ [Next]_vars =>
        [\A s \in Spools : row[s] = "deleted" =>
           \/ row'[s] = "absent"
           \/ row'[s] = "deleted" /\ (RowKept(s) \/ ~RequestStep)]_vars
  <2>1. ASSUME IInv, Next, NEW s \in Spools, row[s] = "deleted"
        PROVE  \/ row'[s] = "absent"
               \/ row'[s] = "deleted" /\ (RowKept(s) \/ ~RequestStep)
    <3>1. CASE RequestStep
      BY <2>1, <3>1, <1>1 DEF Untouched, RowKept
    <3>2. CASE ~RequestStep
      BY <2>1, <3>2, <1>2 DEF Next
    <3> QED BY <3>1, <3>2
  <2> QED BY <2>1
<1> QED BY <1>3, Invariance, PTL DEF Spec, RemovedStaysRemoved

\* return_spool_loan_in_transaction takes an active loan only, and no other
\* operation rewrites the receipt of a return.
THEOREM ReturnsFinal == Spec => ReturnsAreFinal
<1>1. ASSUME IInv, Next, NEW l \in LoanIds, Returned(l)
      PROVE  Kept(l)
  BY <1>1, ReturnedSpoolStep, ReturnedLoanStep, ReturnedOtherStep, ReturnedImport
     DEF Next, RequestStep
<1>2. IInv /\ [Next]_vars =>
        [\A l \in LoanIds :
           loans[l] # NoLoan /\ loans[l].status = "RETURNED" =>
             loans'[l] = loans[l] \/ row'[loans[l].spool] = "absent"]_vars
  BY <1>1 DEF Kept, Returned
<1> QED BY <1>2, Invariance, PTL DEF Spec, ReturnsAreFinal

\* release_printer_spool and the other paths out of a slot take the roll out of
\* use, and no edit, slot operation or file puts a roll in use that is in no
\* slot; the registration of a roll may.
THEOREM AssignmentsKept == Spec => AssignmentsHold
<1>1. ASSUME IInv, Next, NEW s \in Spools, Dangling(s)', ~Dangling(s)
      PROVE  row[s] = "absent" /\ ~ImportStep(s)
  <2>1. \A t \in Spools : ~ImportStep(t)
    BY <1>1, ImportHolds
  <2>2. RequestStep
    BY <1>1, <2>1 DEF Next
  <2> QED BY <1>1, <2>1, <2>2, RequestHolds
<1>2. IInv /\ [Next]_vars =>
        [\A s \in Spools : Dangling(s)' /\ ~Dangling(s) =>
           row[s] = "absent" /\ ~ImportStep(s)]_vars
  BY <1>1
<1> QED BY <1>2, Invariance, PTL DEF Spec, AssignmentsHold

\* create_inbound_spool_loan_in_transaction and the operations around it: no
\* request leaves a borrowed roll on hand without its open loan; an imported
\* row with a historical status may, but ends no loan.
THEOREM BorrowingsKept == Spec => BorrowingsHold
<1>1. ASSUME IInv, Next, NEW s \in Spools, Unledgered(s)', ~Unledgered(s)
      PROVE  status'[s] \in Historical /\ ~OnLoan(s, "INBOUND") /\ ~RequestStep
  <2>1. ~RequestStep
    BY <1>1, RequestHolds
  <2>2. PICK t \in Spools : ImportStep(t)
    BY <1>1, <2>1 DEF Next
  <2> QED BY <1>1, <2>1, <2>2, ImportHolds
<1>2. IInv /\ [Next]_vars =>
        [\A s \in Spools : Unledgered(s)' /\ ~Unledgered(s) =>
           status'[s] \in Historical /\ ~OnLoan(s, "INBOUND") /\ ~RequestStep]_vars
  BY <1>1
<1> QED BY <1>2, Invariance, PTL DEF Spec, BorrowingsHold

\* Rolls, loans and slots agree after every operation, the import of a file
\* included, in any order of them.
THEOREM BooksSound == Spec => []BooksAgree
  BY LoansSound, SlotsSound, PTL DEF BooksAgree

\* No request undoes a return or a removal or leaves a roll in use without a
\* slot or a borrowed one without its loan, but for what a registration or an
\* imported file says outright.
THEOREM NothingIsUndone == Spec => NothingUndone
  BY ReturnsFinal, RemovedFinal, AssignmentsKept, BorrowingsKept DEF NothingUndone

-----------------------------------------------------------------------------
(***************************************************************************)
(* Inventory implements SpoolCustody, for every set of rolls, slots and    *)
(* loans.                                                                  *)
(*                                                                         *)
(* The invariant makes the hand a roll is in a function of its row, its    *)
(* slot and its outbound loan (HandFacts), so that a roll none of these    *)
(* change for stays where it is (SameHand).  Each operation then moves the *)
(* rolls it names, and one move of SpoolCustody does it.                   *)
(***************************************************************************)

\* Where a roll is, in the words of the columns.
HandsAreTrue ==
  \A s \in Spools :
    /\ row[s] = "absent" => Hands[s] = "unknown"
    /\ row[s] = "deleted" => Hands[s] = "gone"
    /\ Live(s) /\ OnLoan(s, "OUTBOUND") => Hands[s] = "out"
    /\ \A x \in Slots : slot[x] = s => Hands[s] = x
    /\ Live(s) /\ ~OnLoan(s, "OUTBOUND") /\ (\A x \in Slots : slot[x] # s) => Hands[s] = "shelf"
    /\ row[s] \in {"absent", "live", "deleted"}
    /\ \A x \in Slots : slot[x] = s => Live(s) /\ ~OnLoan(s, "OUTBOUND")

LEMMA HandFacts == IInv => HandsAreTrue
<1> SUFFICES ASSUME IInv, NEW s \in Spools
             PROVE  /\ row[s] = "absent" => Hands[s] = "unknown"
                    /\ row[s] = "deleted" => Hands[s] = "gone"
                    /\ Live(s) /\ OnLoan(s, "OUTBOUND") => Hands[s] = "out"
                    /\ \A x \in Slots : slot[x] = s => Hands[s] = x
                    /\ Live(s) /\ ~OnLoan(s, "OUTBOUND") /\ (\A x \in Slots : slot[x] # s)
                         => Hands[s] = "shelf"
                    /\ row[s] \in {"absent", "live", "deleted"}
                    /\ \A x \in Slots : slot[x] = s => Live(s) /\ ~OnLoan(s, "OUTBOUND")
  BY DEF HandsAreTrue
<1>1. Hands[s] = CustodyOf(s)
  BY DEF Hands
<1>2. \A x \in Slots : slot[x] = s => Live(s) /\ ~OnLoan(s, "OUTBOUND")
  BY DEF IInv, LoadedRollIsHere
<1>3. ASSUME NEW x \in Slots, slot[x] = s
      PROVE  (CHOOSE y \in Slots : slot[y] = s) = x
  BY <1>3 DEF IInv, OneSlotPerRoll
<1>4. ASSUME NEW x \in Slots, slot[x] = s
      PROVE  CustodyOf(s) = x
  <2>1. Loaded(s) /\ Live(s) /\ ~OnLoan(s, "OUTBOUND")
    BY <1>2, <1>4 DEF Loaded
  <2> QED BY <2>1, <1>3, <1>4 DEF CustodyOf, Live
<1>5. row[s] \in {"absent", "live", "deleted"}
  BY DEF IInv, TypeOK
<1> QED BY <1>1, <1>2, <1>4, <1>5 DEF CustodyOf, Live, Loaded

LEMMA HandFactsAfter == IInv' => HandsAreTrue'
  BY HandFacts, PTL

\* A roll on hand is on a shelf or in a slot; the others are in neither.
LEMMA InHandFacts ==
  ASSUME IInv, NEW s \in Spools
  PROVE  /\ Custody!InHand(s) <=> Live(s) /\ ~OnLoan(s, "OUTBOUND")
         /\ \A x \in Slots : Hands[s] = x <=> slot[x] = s
<1>1. HandsAreTrue
  BY HandFacts
<1>2. CASE \E x \in Slots : slot[x] = s
  BY <1>1, <1>2 DEF HandsAreTrue, Custody!InHand
<1>3. CASE \A x \in Slots : slot[x] # s
  BY <1>1, <1>3 DEF HandsAreTrue, Custody!InHand, Live
<1> QED BY <1>2, <1>3

\* A roll stays in its hand when row, outbound loan and slots keep it.
LEMMA SameHand ==
  ASSUME IInv, IInv', NEW s \in Spools, row'[s] = row[s],
         OnLoan(s, "OUTBOUND")' <=> OnLoan(s, "OUTBOUND"),
         \A x \in Slots : slot'[x] = s <=> slot[x] = s
  PROVE  Hands'[s] = Hands[s]
<1>1. HandsAreTrue /\ HandsAreTrue'
  BY HandFacts, HandFactsAfter
<1>2. Live(s)' <=> Live(s)
  BY DEF Live
<1>3. CASE \E x \in Slots : slot[x] = s
  BY <1>1, <1>3 DEF HandsAreTrue
<1>4. CASE \A x \in Slots : slot[x] # s
  BY <1>1, <1>2, <1>4 DEF HandsAreTrue, Live
<1> QED BY <1>3, <1>4

\* Only one roll moves.
LEMMA OneMoves ==
  ASSUME NEW s \in Spools, NEW to, Hands'[s] = to,
         \A t \in Spools : t # s => Hands'[t] = Hands[t]
  PROVE  Custody!Move(s, to)
  BY DEF Custody!Move, Hands

\* Nobody moves.
LEMMA NobodyMoves ==
  ASSUME \A t \in Spools : Hands'[t] = Hands[t]
  PROVE  Hands' = Hands
  BY DEF Hands

LEMMA OwedKept ==
  ASSUME UNCHANGED loans
  PROVE  Owed' = Owed
<1>1. \A s \in Spools : OnLoan(s, "INBOUND")' <=> OnLoan(s, "INBOUND")
  BY KeptActive DEF OnLoan, Directions
<1> QED BY <1>1 DEF Owed

\* Operations that keep rows, owners, slots and loans move no roll.
LEMMA StillStep ==
  ASSUME IInv, IInv', UNCHANGED <<row, owner, slot, loans>>
  PROVE  UNCHANGED <<Hands, Owed>>
<1>1. \A s \in Spools : OnLoan(s, "OUTBOUND")' <=> OnLoan(s, "OUTBOUND")
  BY KeptActive DEF OnLoan, Directions
<1> QED BY <1>1, SameHand, NobodyMoves, OwedKept

-----------------------------------------------------------------------------
(* Slots. *)

\* Emptied slots put their rolls on the shelf.
LEMMA UnloadMoves ==
  ASSUME IInv, IInv', UNCHANGED <<row, owner, loans>>, NEW gone \in SUBSET Slots,
         \A x \in gone : slot'[x] \notin Spools,
         \A x \in Slots \ gone : slot'[x] \in Spools \/ slot[x] \in Spools => slot'[x] = slot[x]
  PROVE  Custody!Unload(gone)
<1>1. HandsAreTrue /\ HandsAreTrue'
  BY HandFacts, HandFactsAfter
<1>2. \A s \in Spools : OnLoan(s, "OUTBOUND")' <=> OnLoan(s, "OUTBOUND")
  BY KeptActive DEF OnLoan, Directions
<1>3. ASSUME NEW s \in Spools
      PROVE  Hands'[s] = IF Hands[s] \in gone THEN "shelf" ELSE Hands[s]
  <2>1. CASE \E x \in gone : slot[x] = s
    <3>1. PICK x \in gone : slot[x] = s
      BY <2>1
    <3>2. Hands[s] = x /\ Live(s) /\ ~OnLoan(s, "OUTBOUND")
      BY <3>1, <1>1 DEF HandsAreTrue
    <3>3. \A y \in Slots : slot'[y] # s
      BY <3>1 DEF IInv, OneSlotPerRoll
    <3>4. Live(s)' /\ ~OnLoan(s, "OUTBOUND")'
      BY <3>2, <1>2 DEF Live
    <3> QED BY <3>1, <3>2, <3>3, <3>4, <1>1 DEF HandsAreTrue
  <2>2. CASE \A x \in gone : slot[x] # s
    <3>1. Hands[s] \notin gone
      BY <2>2, InHandFacts
    <3>2. \A x \in Slots : slot'[x] = s <=> slot[x] = s
      BY <2>2
    <3> QED BY <3>1, <3>2, <1>2, SameHand
  <2> QED BY <2>1, <2>2
<1> QED BY <1>3, OwedKept DEF Custody!Unload, Hands

\* A loaded roll takes the slot; the one that was there goes to the shelf.
LEMMA LoadMoves ==
  ASSUME IInv, IInv', UNCHANGED <<row, owner, loans>>, NEW x \in Slots, NEW n \in Spools,
         Live(n), ~OnLoan(n, "OUTBOUND"), slot' = SlotsAssigned(x, n)
  PROVE  Custody!Load(n, x)
<1>1. HandsAreTrue /\ HandsAreTrue'
  BY HandFacts, HandFactsAfter
<1>2. \A s \in Spools : OnLoan(s, "OUTBOUND")' <=> OnLoan(s, "OUTBOUND")
  BY KeptActive DEF OnLoan, Directions
<1>3. \A y \in Slots : slot'[y] = IF y = x THEN n ELSE IF slot[y] = n THEN "empty" ELSE slot[y]
  BY DEF SlotsAssigned
<1>4. Hands'[n] = x
  BY <1>1, <1>3 DEF HandsAreTrue
<1>5. ASSUME NEW t \in Spools, t # n
      PROVE  Hands'[t] = IF Hands[t] = x THEN "shelf" ELSE Hands[t]
  <2>1. CASE slot[x] = t
    <3>1. Hands[t] = x /\ Live(t) /\ ~OnLoan(t, "OUTBOUND")
      BY <2>1, <1>1 DEF HandsAreTrue
    <3>2. \A y \in Slots : slot'[y] # t
      BY <2>1, <1>3, <1>5 DEF IInv, OneSlotPerRoll
    <3>3. Live(t)' /\ ~OnLoan(t, "OUTBOUND")'
      BY <3>1, <1>2 DEF Live
    <3> QED BY <3>1, <3>2, <3>3, <1>1 DEF HandsAreTrue
  <2>2. CASE slot[x] # t
    <3>1. Hands[t] # x
      BY <2>2, InHandFacts
    <3>2. \A y \in Slots : slot'[y] = t <=> slot[y] = t
      BY <2>2, <1>3, <1>5
    <3> QED BY <3>1, <3>2, <1>2, SameHand
  <2> QED BY <2>1, <2>2
<1>6. Custody!InHand(n)
  BY InHandFacts
<1>7. Hands' = [t \in Spools |-> IF t = n THEN x ELSE IF Hands[t] = x THEN "shelf" ELSE Hands[t]]
  BY <1>4, <1>5 DEF Hands
<1> QED BY <1>6, <1>7, OwedKept DEF Custody!Load

LEMMA AssignMoves ==
  ASSUME IInv, IInv', UNCHANGED <<row, owner, loans>>, NEW x \in Slots,
         NEW n \in Spools \cup {"empty"}, NEW st, Assign(x, n, st)
  PROVE  Custody!Next
<1>1. slot' = SlotsAssigned(x, n) /\ (n \in Spools => Live(n) /\ ~Locked(n))
  BY DEF Assign
<1>2. CASE n \in Spools
  BY <1>1, <1>2, LoadMoves, UnlockedFacts DEF Custody!Next
<1>3. CASE n = "empty"
  <2>1. n \notin Spools
    BY <1>3
  <2>2. \A y \in Slots : slot'[y] = IF y = x THEN "empty" ELSE slot[y]
    BY <1>1, <1>3 DEF SlotsAssigned
  <2>3. Custody!Unload({x})
    BY <2>1, <2>2, <1>3, UnloadMoves
  <2> QED BY <2>3 DEF Custody!Next
<1> QED BY <1>2, <1>3

LEMMA RemoveMoves ==
  ASSUME IInv, IInv', NEW gone \in SUBSET Slots, NEW kept, RemoveSlots(gone, kept)
  PROVE  Custody!Next
<1>1. Custody!Unload(gone)
  BY UnloadMoves DEF RemoveSlots
<1> QED BY <1>1 DEF Custody!Next

LEMMA UnloadedMoves ==
  ASSUME IInv, IInv', UNCHANGED <<row, owner, loans>>, NEW s \in Spools, NEW st, UnloadAs(s, st)
  PROVE  [Custody!Next]_<<Hands, Owed>>
<1>1. CASE ~Loaded(s)
  BY <1>1, StillStep DEF UnloadAs
<1>2. CASE Loaded(s)
  <2>1. PICK x \in Slots : slot[x] = s
    BY <1>2 DEF Loaded
  <2>2. slot' = TakenOut(s)
    BY <1>2 DEF UnloadAs
  <2>3. \A y \in Slots : slot'[y] = IF y = x THEN "empty" ELSE slot[y]
    BY <2>1, <2>2 DEF TakenOut, IInv, OneSlotPerRoll
  <2>4. Custody!Unload({x})
    BY <2>3, UnloadMoves
  <2> QED BY <2>4 DEF Custody!Next
<1> QED BY <1>1, <1>2

-----------------------------------------------------------------------------
(* One roll. *)

\* The other rolls of a one-roll operation stay where they are.
LEMMA OthersStay ==
  ASSUME IInv, IInv', NEW s \in Spools,
         \A t \in Spools : t # s => row'[t] = row[t],
         \A k \in LoanIds, t \in Spools, e \in Directions :
            t # s => (Active(k, t, e)' <=> Active(k, t, e)),
         slot' = slot \/ slot' = TakenOut(s)
  PROVE  /\ \A t \in Spools : t # s => Hands'[t] = Hands[t]
         /\ \A t \in Spools : t # s => (t \in Owed' <=> t \in Owed)
<1>1. \A t \in Spools, e \in Directions : t # s => (OnLoan(t, e)' <=> OnLoan(t, e))
  BY DEF OnLoan
<1> USE DEF Directions
<1>2. \A x \in Slots, t \in Spools : t # s => (slot'[x] = t <=> slot[x] = t)
  BY DEF TakenOut
<1>3. \A t \in Spools : t # s => Hands'[t] = Hands[t]
  BY <1>1, <1>2, SameHand
<1> QED BY <1>1, <1>3 DEF Owed

LEMMA OwedSets ==
  ASSUME NEW s \in Spools, \A t \in Spools : t # s => (t \in Owed' <=> t \in Owed)
  PROVE  /\ s \in Owed' => Owed' = Owed \cup {s}
         /\ s \notin Owed' => Owed' = Owed \ {s}
         /\ (s \in Owed' <=> s \in Owed) => Owed' = Owed
<1>1. Owed \subseteq Spools /\ Owed' \subseteq Spools
  BY DEF Owed
<1> QED BY <1>1

LEMMA CreateMoves ==
  ASSUME IInv, IInv', NEW s \in Spools, NEW st, NEW own \in Owners, NEW l \in LoanIds,
         NEW p \in Shelves, NEW h \in Shelves, NEW g \in Grams,
         CreateSpool(s, st, own, l, p, h, g)
  PROVE  Custody!Next
<1> USE DEF Directions
<1>1. /\ row[s] = "absent" /\ row' = [row EXCEPT ![s] = "live"]
      /\ owner' = [owner EXCEPT ![s] = own] /\ slot' = slot
      /\ own = "BORROWED_IN" => BorrowIn(s, l)
      /\ own # "BORROWED_IN" => UNCHANGED loans
      /\ row \in [Spools -> {"absent", "live", "deleted"}] /\ owner \in [Spools -> Owners]
  BY DEF CreateSpool, IInv, TypeOK
<1>2. ~Live(s) /\ Live(s)'
  BY <1>1 DEF Live
<1>3. /\ \A d \in Directions : ~OnLoan(s, d)
      /\ \A x \in Slots : slot[x] # s
  BY <1>2, AbsentFacts
<1>4. /\ \A k \in LoanIds, t \in Spools, e \in Directions :
           t # s => (Active(k, t, e)' <=> Active(k, t, e))
      /\ ~OnLoan(s, "OUTBOUND")'
  <2>1. CASE own = "BORROWED_IN"
    BY <2>1, <1>1, BorrowInFacts
  <2>2. CASE own # "BORROWED_IN"
    BY <2>2, <1>1, <1>3, KeptActive DEF OnLoan
  <2> QED BY <2>1, <2>2
<1>5. /\ \A t \in Spools : t # s => Hands'[t] = Hands[t]
      /\ \A t \in Spools : t # s => (t \in Owed' <=> t \in Owed)
  BY <1>1, <1>4, OthersStay
<1>6. Hands[s] = "unknown" /\ Hands'[s] = "shelf"
  BY <1>1, <1>2, <1>3, <1>4, HandFacts, HandFactsAfter DEF HandsAreTrue
<1>7. s \notin Owed
  BY <1>3 DEF Owed
<1>8. Owed' \in {Owed, Owed \cup {s}}
  BY <1>5, <1>7, OwedSets
<1>9. Custody!Move(s, "shelf")
  BY <1>5, <1>6, OneMoves
<1> QED BY <1>6, <1>8, <1>9 DEF Custody!Next, Custody!Arrive

\* A roll on hand changes owner, or nothing happens.
LEMMA OwnerMoves ==
  ASSUME IInv, IInv', NEW s \in Spools, Live(s), NEW own \in Owners, NEW l \in LoanIds, NEW st,
         SetOwner(s, own, l, st), UNCHANGED <<row, slot>>
  PROVE  [Custody!Next]_<<Hands, Owed>>
<1>1. CASE own = owner[s]
  BY <1>1, StillStep DEF SetOwner
<1>2. CASE own # owner[s]
  <2>1. /\ \A t \in Spools : t # s => owner'[t] = owner[t]
        /\ \A k \in LoanIds, t \in Spools, e \in Directions :
             t # s => (Active(k, t, e)' <=> Active(k, t, e))
        /\ OnLoan(s, "OUTBOUND")' <=> OnLoan(s, "OUTBOUND")
    BY SetOwnerFacts
  <2>2. ~OnLoan(s, "OUTBOUND")
    BY <1>2 DEF SetOwner
  <2>3. /\ \A t \in Spools : t # s => Hands'[t] = Hands[t]
        /\ \A t \in Spools : t # s => (t \in Owed' <=> t \in Owed)
    BY <2>1, OthersStay
  <2>4. Hands'[s] = Hands[s]
    BY <2>1, SameHand
  <2>5. Hands' = Hands
    BY <2>3, <2>4, NobodyMoves
  <2>6. Owed' \in {Owed \cup {s}, Owed \ {s}}
    BY <2>3, OwedSets
  <2>7. Custody!InHand(s)
    BY <2>2, InHandFacts
  <2> QED BY <2>5, <2>6, <2>7 DEF Custody!Next, Custody!ChangeHands
<1> QED BY <1>1, <1>2

LEMMA DeleteMoves ==
  ASSUME IInv, IInv', NEW s \in Spools, DeleteSpool(s)
  PROVE  Custody!Next
<1> USE DEF Directions
<1>1. /\ Live(s) /\ row' = [row EXCEPT ![s] = "deleted"] /\ slot' = TakenOut(s)
      /\ UNCHANGED <<owner, loans>> /\ ~HasActiveLoan(s)
      /\ row \in [Spools -> {"absent", "live", "deleted"}]
  BY DEF DeleteSpool, Removable, IInv, TypeOK
<1>2. ~OnLoan(s, "OUTBOUND") /\ ~OnLoan(s, "INBOUND")
  BY <1>1, NoLoanFacts
<1>3. /\ \A t \in Spools : t # s => Hands'[t] = Hands[t]
      /\ \A t \in Spools : t # s => (t \in Owed' <=> t \in Owed)
  BY <1>1, KeptActive, OthersStay
<1>4. Hands'[s] = "gone"
  BY <1>1, HandFactsAfter DEF HandsAreTrue
<1>5. s \notin Owed /\ Custody!InHand(s)
  BY <1>1, <1>2, InHandFacts DEF Owed
<1>6. Owed' = Owed
  BY <1>1, OwedKept
<1>7. Custody!Move(s, "gone")
  BY <1>3, <1>4, OneMoves
<1> QED BY <1>5, <1>6, <1>7 DEF Custody!Next, Custody!Discard

LEMMA PurgeMoves ==
  ASSUME IInv, IInv', NEW s \in Spools, PurgeSpool(s)
  PROVE  Custody!Next
<1> USE DEF Directions
<1>1. /\ row[s] # "absent" /\ row' = [row EXCEPT ![s] = "absent"] /\ slot' = TakenOut(s)
      /\ owner' = [owner EXCEPT ![s] = "OWNED"] /\ ~HasActiveLoan(s)
      /\ loans' = [l \in LoanIds |->
                 IF loans[l] # NoLoan /\ loans[l].spool = s THEN NoLoan ELSE loans[l]]
      /\ row \in [Spools -> {"absent", "live", "deleted"}]
  BY DEF PurgeSpool, Removable, IInv, TypeOK
<1>2. ~OnLoan(s, "OUTBOUND") /\ ~OnLoan(s, "INBOUND")
  BY <1>1, NoLoanFacts
<1>3. \A k \in LoanIds, t \in Spools, e \in Directions :
        t # s => (Active(k, t, e)' <=> Active(k, t, e))
  BY <1>1 DEF Active
<1>4. /\ \A t \in Spools : t # s => Hands'[t] = Hands[t]
      /\ \A t \in Spools : t # s => (t \in Owed' <=> t \in Owed)
  BY <1>1, <1>3, OthersStay DEF IInv, TypeOK
<1>5. Hands'[s] = "unknown"
  BY <1>1, HandFactsAfter DEF HandsAreTrue
<1>6. s \notin Owed /\ s \notin Owed'
  <2>1. \A k \in LoanIds : ~Active(k, s, "INBOUND")'
    BY <1>1 DEF Active
  <2>2. ~OnLoan(s, "INBOUND")'
    BY <2>1 DEF OnLoan
  <2> QED BY <1>2, <2>2 DEF Owed
<1>7. Custody!InHand(s) \/ Hands[s] = "gone"
  BY <1>1, <1>2, InHandFacts, HandFacts DEF HandsAreTrue, Live
<1>8. Owed' = Owed
  BY <1>4, <1>6, OwedSets
<1>9. Custody!Move(s, "unknown")
  BY <1>4, <1>5, OneMoves
<1> QED BY <1>6, <1>7, <1>8, <1>9 DEF Custody!Next, Custody!Forget

LEMMA LendMoves ==
  ASSUME IInv, IInv', NEW s \in Spools, NEW l \in LoanIds, NEW g \in Grams, LendSpool(s, l, g)
  PROVE  Custody!Next
<1> USE DEF Directions
<1>1. /\ Live(s) /\ ~HasActiveLoan(s) /\ loans[l] = NoLoan /\ loans' = Opened(l, s, "OUTBOUND")
      /\ slot' = TakenOut(s) /\ UNCHANGED <<row, owner>>
  BY DEF LendSpool
<1>2. \A k \in LoanIds, t \in Spools, e \in Directions :
        Active(k, t, e)' <=> Active(k, t, e) \/ (k = l /\ t = s /\ e = "OUTBOUND")
  BY <1>1, OpenedActive DEF IInv
<1>3. /\ \A t \in Spools : t # s => Hands'[t] = Hands[t]
      /\ \A t \in Spools : t # s => (t \in Owed' <=> t \in Owed)
  BY <1>1, <1>2, OthersStay
<1>4. ~OnLoan(s, "OUTBOUND") /\ ~OnLoan(s, "INBOUND")
  BY <1>1, NoLoanFacts
<1>5. Live(s)' /\ OnLoan(s, "OUTBOUND")'
  BY <1>1, <1>2 DEF Live, OnLoan
<1>6. Hands'[s] = "out"
  BY <1>5, HandFactsAfter DEF HandsAreTrue
<1>7. ~OnLoan(s, "INBOUND")'
  BY <1>2, <1>4 DEF OnLoan
<1>9. s \notin Owed /\ s \notin Owed'
  BY <1>4, <1>7 DEF Owed
<1>10. Custody!InHand(s) /\ Owed' = Owed
  BY <1>1, <1>3, <1>4, <1>9, InHandFacts, OwedSets
<1>8. Custody!Move(s, "out")
  BY <1>3, <1>6, OneMoves
<1> QED BY <1>8, <1>9, <1>10 DEF Custody!Next, Custody!Lend

\* What a return does to the ledger.
LEMMA ReturnLedger ==
  ASSUME IInv, NEW l \in LoanIds, NEW d \in Directions, NEW g \in Grams, NEW s \in Spools,
         Returnable(l, d), s = loans[l].spool, loans' = [loans EXCEPT ![l] = ClosedAs(loans[l], g)]
  PROVE  /\ Live(s) /\ OnLoan(s, d)
         /\ \A e \in Directions : e # d => ~OnLoan(s, e)
         /\ \A e \in Directions : ~OnLoan(s, e)'
         /\ \A k \in LoanIds, t \in Spools, e \in Directions :
              t # s => (Active(k, t, e)' <=> Active(k, t, e))
<1>1. /\ loans[l] # NoLoan /\ Live(s) /\ OnLoan(s, d)
      /\ \A k \in LoanIds, e \in Directions : Active(k, s, e) => k = l
  BY ReturnableFacts
<1>2. \A k \in LoanIds, t \in Spools, e \in Directions :
        Active(k, t, e)' <=> Active(k, t, e) /\ k # l
  BY <1>1, ClosedActive DEF IInv
<1>3. \A e \in Directions : ~OnLoan(s, e)'
  BY <1>1, <1>2 DEF OnLoan
<1>4. \A k \in LoanIds, t \in Spools, e \in Directions :
        t # s => (Active(k, t, e)' <=> Active(k, t, e))
  BY <1>2 DEF Active
<1>5. \A e \in Directions : e # d => ~OnLoan(s, e)
  BY <1>1 DEF OnLoan, Active, Returnable
<1> QED BY <1>1, <1>3, <1>4, <1>5

LEMMA ReturnMoves ==
  ASSUME IInv, IInv', NEW l \in LoanIds, NEW g \in Grams, ReturnSpoolLoan(l, g)
  PROVE  Custody!Next
<1> USE DEF Directions
<1>s. PICK s \in Spools : s = loans[l].spool
  BY ReturnableFacts DEF ReturnSpoolLoan
<1>1. /\ Returnable(l, "OUTBOUND") /\ loans' = [loans EXCEPT ![l] = ClosedAs(loans[l], g)]
      /\ UNCHANGED <<row, owner, slot>>
  BY DEF ReturnSpoolLoan
<1>2. /\ Live(s) /\ OnLoan(s, "OUTBOUND") /\ ~OnLoan(s, "OUTBOUND")'
      /\ ~OnLoan(s, "INBOUND") /\ ~OnLoan(s, "INBOUND")'
      /\ \A k \in LoanIds, t \in Spools, e \in Directions :
           t # s => (Active(k, t, e)' <=> Active(k, t, e))
  BY <1>s, <1>1, ReturnLedger
<1>3. /\ \A t \in Spools : t # s => Hands'[t] = Hands[t]
      /\ \A t \in Spools : t # s => (t \in Owed' <=> t \in Owed)
  BY <1>1, <1>2, OthersStay
<1>4. Live(s)' /\ \A x \in Slots : slot'[x] # s
  BY <1>1, <1>2 DEF Live, IInv, LoadedRollIsHere
<1>5. Hands[s] = "out" /\ Hands'[s] = "shelf"
  BY <1>2, <1>4, HandFacts, HandFactsAfter DEF HandsAreTrue
<1>6. Custody!Move(s, "shelf")
  BY <1>3, <1>5, OneMoves
<1>7. s \notin Owed /\ s \notin Owed'
  BY <1>2 DEF Owed
<1>8. Owed' = Owed
  BY <1>3, <1>7, OwedSets
<1> QED BY <1>5, <1>6, <1>8 DEF Custody!Next, Custody!ComeBack

LEMMA ReturnInboundMoves ==
  ASSUME IInv, IInv', NEW l \in LoanIds, NEW g \in Grams, ReturnInboundSpoolLoan(l, g)
  PROVE  Custody!Next
<1> USE DEF Directions
<1>s. PICK s \in Spools : s = loans[l].spool
  BY ReturnableFacts DEF ReturnInboundSpoolLoan
<1>1. /\ Returnable(l, "INBOUND") /\ loans' = [loans EXCEPT ![l] = ClosedAs(loans[l], g)]
      /\ row' = [row EXCEPT ![s] = "deleted"] /\ slot' = TakenOut(s) /\ UNCHANGED owner
      /\ row \in [Spools -> {"absent", "live", "deleted"}]
  BY <1>s DEF ReturnInboundSpoolLoan, IInv, TypeOK
<1>2. /\ Live(s) /\ OnLoan(s, "INBOUND") /\ ~OnLoan(s, "INBOUND")'
      /\ ~OnLoan(s, "OUTBOUND")
      /\ \A k \in LoanIds, t \in Spools, e \in Directions :
           t # s => (Active(k, t, e)' <=> Active(k, t, e))
  BY <1>s, <1>1, ReturnLedger
<1>3. /\ \A t \in Spools : t # s => Hands'[t] = Hands[t]
      /\ \A t \in Spools : t # s => (t \in Owed' <=> t \in Owed)
  BY <1>1, <1>2, OthersStay
<1>4. Hands'[s] = "gone" /\ s \notin Owed'
  BY <1>1, <1>2, HandFactsAfter DEF HandsAreTrue, Owed
<1>5. s \in Owed /\ Custody!InHand(s) /\ Owed' = Owed \ {s}
  BY <1>2, <1>3, <1>4, InHandFacts, OwedSets DEF Owed
<1>6. Custody!Move(s, "gone")
  BY <1>3, <1>4, OneMoves
<1> QED BY <1>5, <1>6 DEF Custody!Next, Custody!GiveBack

\* An import registers a roll, or leaves it where it is and at most opens the
\* loan of one that is on hand.
LEMMA ImportMoves ==
  ASSUME IInv, IInv', NEW s \in Spools, NEW f \in FileRow, NEW l \in LoanIds,
         ImportRow(s, f, l)
  PROVE  [Custody!Next]_<<Hands, Owed>>
<1> USE DEF Directions
<1>1. /\ row'[s] = (IF row[s] = "deleted" THEN "deleted" ELSE "live")
      /\ \A t \in Spools : t # s => row'[t] = row[t]
      /\ UNCHANGED slot /\ row[s] \in {"absent", "live", "deleted"}
  BY ImportFacts DEF ImportRow, IInv, TypeOK
<1>2. /\ UNCHANGED loans \/ (BorrowIn(s, l) /\ row[s] # "deleted")
      /\ \A k \in LoanIds, t \in Spools, e \in Directions :
           t # s => (Active(k, t, e)' <=> Active(k, t, e))
      /\ OnLoan(s, "OUTBOUND")' <=> OnLoan(s, "OUTBOUND")
  BY ImportLedger
<1>3. /\ \A t \in Spools : t # s => Hands'[t] = Hands[t]
      /\ \A t \in Spools : t # s => (t \in Owed' <=> t \in Owed)
  BY <1>1, <1>2, OthersStay
<1>4. Owed' \in {Owed \cup {s}, Owed \ {s}}
  BY <1>3, OwedSets
<1>5. CASE row[s] = "absent"
  <2>1. ~Live(s) /\ Live(s)'
    BY <1>1, <1>5 DEF Live
  <2>2. (\A d \in Directions : ~OnLoan(s, d)) /\ \A x \in Slots : slot[x] # s
    BY <2>1, AbsentFacts
  <2>3. Hands[s] = "unknown" /\ Hands'[s] = "shelf"
    BY <1>1, <1>2, <1>5, <2>1, <2>2, HandFacts, HandFactsAfter DEF HandsAreTrue
  <2>4. s \notin Owed
    BY <2>2 DEF Owed
  <2>5. Owed' \in {Owed, Owed \cup {s}}
    BY <1>4, <2>4
  <2>6. Custody!Move(s, "shelf")
    BY <1>3, <2>3, OneMoves
  <2> QED BY <2>3, <2>5, <2>6 DEF Custody!Next, Custody!Arrive
<1>6. CASE row[s] # "absent"
  <2>1. row'[s] = row[s]
    BY <1>1, <1>6
  <2>2. Hands'[s] = Hands[s]
    BY <1>1, <1>2, <2>1, SameHand
  <2>3. Hands' = Hands
    BY <1>3, <2>2, NobodyMoves
  <2>4. CASE UNCHANGED loans
    BY <2>3, <2>4, OwedKept
  <2>5. CASE BorrowIn(s, l) /\ row[s] # "deleted"
    <3>1. Live(s) /\ ~OnLoan(s, "OUTBOUND")
      BY <1>1, <1>6, <2>5, NoLoanFacts DEF BorrowIn, Live
    <3>2. Custody!InHand(s)
      BY <3>1, InHandFacts
    <3> QED BY <1>4, <2>3, <3>2 DEF Custody!Next, Custody!ChangeHands
  <2> QED BY <1>2, <2>4, <2>5
<1> QED BY <1>5, <1>6

-----------------------------------------------------------------------------
(* The refinement. *)

LEMMA CustodyStep ==
  ASSUME IInv, IInv', Next
  PROVE  [Custody!Next]_<<Hands, Owed>>
<1> DEFINE Goal == [Custody!Next]_<<Hands, Owed>>
<1>0. Custody!Next => Goal
  OBVIOUS
<1>1. ASSUME NEW s \in Spools, SpoolStep(s) PROVE Goal
  <2>1. \A st \in AskedStatuses, own \in Owners, l \in LoanIds, p, h \in Shelves, g \in Grams :
          CreateSpool(s, st, own, l, p, h, g) => Goal
    BY CreateMoves
  <2>2. \A own \in Owners, l \in LoanIds : UpdateOwnership(s, own, l) => Goal
    BY OwnerMoves DEF UpdateOwnership
  <2>3. \A st \in EditStatuses \cup {status[s]}, p \in Shelves \cup {place[s]},
           h \in Shelves \cup {"absent"}, own \in Owners, l \in LoanIds :
          UpdateDetails(s, st, p, h, own, l) => Goal
    BY OwnerMoves DEF UpdateDetails
  <2>4. DeleteSpool(s) \/ PurgeSpool(s) => Goal
    BY DeleteMoves, PurgeMoves
  <2>5. \A l \in LoanIds, g \in Grams : LendSpool(s, l, g) => Goal
    BY LendMoves
  <2>6. (\E st \in {"LOST", "IN_STOCK"} : RollStatus(s, st)) \/ MarkEmpty(s) => Goal
    BY UnloadedMoves DEF RollStatus, MarkEmpty
  <2>7. \/ \E g \in Grams : UpdateWeight(s, g)
        \/ \E st \in EditStatuses : UpdateStatus(s, st)
        \/ \E p \in Shelves : AssignLocation(s, p)
        \/ \E used \in 1..MaxGrams : RecordPrintUsage(s, used)
        \/ \E m \in Grams : RollWeight(s, m)
        => UNCHANGED <<row, owner, slot, loans>>
    BY DEF UpdateWeight, UpdateStatus, AssignLocation, RecordPrintUsage, RollWeight
  <2> HIDE DEF Goal
  <2>8. UNCHANGED <<row, owner, slot, loans>> => Goal
    BY StillStep DEF Goal
  <2> QED BY <1>1, <2>1, <2>2, <2>3, <2>4, <2>5, <2>6, <2>7, <2>8 DEF SpoolStep
<1>2. ASSUME NEW l \in LoanIds, LoanStep(l) PROVE Goal
  BY <1>2, ReturnMoves, ReturnInboundMoves DEF LoanStep
<1>3. ASSUME NEW x \in Slots, SlotStep(x) PROVE Goal
  <2>1. \A n \in Spools \cup {"empty"} : AssignPrinterSlot(x, n) => Goal
    BY AssignMoves DEF AssignPrinterSlot
  <2>2. \A m \in Grams : MeasureLoadedSpool(x, m) \/ AcceptWeightEstimate(x, m) => Goal
    BY StillStep DEF MeasureLoadedSpool, AcceptWeightEstimate
  <2>3. \A old, n \in Spools \cup {"empty"}, mo, mi \in Grams \cup {NotWeighed} :
          OperatePrinterSlot(x, old, n, mo, mi) => Goal
    BY AssignMoves DEF OperatePrinterSlot
  <2> HIDE DEF Goal
  <2> QED BY <1>3, <2>1, <2>2, <2>3 DEF SlotStep
<1>4. ASSUME NEW p \in Printers, PrinterStep(p) PROVE Goal
  <2>1. PICK gone \in SUBSET Slots, kept \in SUBSET Slots : RemoveSlots(gone, kept)
    BY <1>4 DEF PrinterStep, UpsertPrinter, DeletePrinter, SlotsOf
  <2> QED BY <2>1, RemoveMoves
<1>5. ASSUME NEW rolls \in SUBSET Spools, BulkStep(rolls) PROVE Goal
  BY <1>5, StillStep DEF BulkStep, BulkMove, BulkStatus
<1>6. ASSUME NEW s \in Spools, ImportStep(s) PROVE Goal
  <2>1. PICK f \in FileRow, l \in LoanIds : ImportRow(s, f, l)
    BY <1>6 DEF ImportStep
  <2> QED BY <2>1, ImportMoves
<1> HIDE DEF Goal
<1>7. Goal
  BY <1>1, <1>2, <1>3, <1>4, <1>5, <1>6 DEF Next, RequestStep
<1> QED BY <1>7 DEF Goal

\* Every order of registering, importing, loading, lending, returning, taking
\* over and removing is a legal history of the rolls: one hand at a time, one roll per
\* slot, and nobody else's roll lent or thrown away.
THEOREM CustodyKept == Spec => KeepsCustody
<1>1. Init => Custody!Init
  <2> SUFFICES ASSUME Init PROVE Custody!Init
    OBVIOUS
  <2>1. IInv
    BY Initially
  <2>2. \A s \in Spools : Hands[s] = "unknown"
    BY <2>1, HandFacts DEF HandsAreTrue, Init
  <2>3. Hands = [s \in Spools |-> "unknown"]
    BY <2>2 DEF Hands
  <2>4. \A l \in LoanIds, s \in Spools : ~Active(l, s, "INBOUND")
    BY DEF Init, Active
  <2>5. Owed = {}
    BY <2>4 DEF Owed, OnLoan
  <2> QED BY <2>3, <2>5 DEF Custody!Init
<1>2. IInv /\ IInv' /\ [Next]_vars => [Custody!Next]_<<Hands, Owed>>
  <2>1. ASSUME IInv, IInv', UNCHANGED vars
        PROVE  UNCHANGED <<Hands, Owed>>
    BY <2>1, StillStep DEF vars
  <2> QED BY <2>1, CustodyStep
<1> QED BY <1>1, <1>2, Invariance, PTL DEF Spec, KeepsCustody, Custody!Spec, Custody!vars
=============================================================================
