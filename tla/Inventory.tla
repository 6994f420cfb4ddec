----------------------------- MODULE Inventory -----------------------------
(***************************************************************************)
(* The roll inventory of one local library: where each roll is, who owns   *)
(* it, what it weighs, which printer slot holds it, and the loans.         *)
(*                                                                         *)
(* Source: src/src/backend/inventory_engine.rs and the database modules it *)
(* calls.  Each operation runs in one IMMEDIATE transaction under the      *)
(* secure-credential gate, so one operation is one step; operations of     *)
(* different clients (desktop, companion phones, Client desktops) come in  *)
(* any order.  A request that the code refuses changes nothing and is the  *)
(* absence of a step.                                                      *)
(*                                                                         *)
(* The columns of filament_spools are functions on Spools.  Weights are    *)
(* net grams 0..MaxGrams (a total weight less the tare); a named shelf is  *)
(* "shelf"; a printer slot is itself a place; all loan counterparties are  *)
(* one.  A loan id freed by a purge stands for a fresh one (new_id).       *)
(***************************************************************************)
EXTENDS Naturals, FiniteSets

CONSTANTS Spools,        \* roll ids
          Slots,         \* ams_slots ids, the external slots included
          ExternalSlots, \* the <printer>_ext slots, which an upsert never removes
          Printers,
          PrinterOf,     \* Slots -> Printers
          LoanIds,
          NotWeighed,    \* the reading a slot operation does without
          MaxGrams,      \* bound: net weights explored
          EditStatuses,  \* bound: statuses an edit or a registration asks for
          FileRows       \* bound: what the rows of imported files say

Statuses  == {"IN_STOCK", "ASSIGNED", "BORROWED", "EMPTY", "LOST", "MISSING", "DELETED"}

ASSUME PlacesAssumption ==
  {"none", "shelf", "loan", "unknown", "out", "gone"} \cap Slots = {}
ASSUME SlotsAssumption  == {"empty", "absent"} \cap Spools = {}
ASSUME PrinterAssumption == PrinterOf \in [Slots -> Printers]
ASSUME GramsAssumption == MaxGrams \in Nat
ASSUME ReadingAssumption == NotWeighed \notin 0..MaxGrams
ASSUME EditAssumption == EditStatuses \subseteq Statuses

\* A row of a file gives some of the columns of a roll; the others are "absent".
FileRow == [status : Statuses \cup {"absent"}, owner : {"OWNED", "BORROWED_IN", "absent"},
            place : {"none", "shelf", "absent"}, home : {"none", "shelf", "absent"},
            grams : 0..MaxGrams \cup {NotWeighed}]

ASSUME FileAssumption == FileRows \subseteq FileRow

VARIABLES
  row,     \* "absent", "live" or "deleted" (deleted_at is set)
  status,
  owner,   \* ownership_type
  place,   \* location_id
  home,    \* home_location_id
  grams,   \* remaining_g = current_weight_g
  slot,    \* ams_slots.spool_id: a roll, "empty", or "absent" when there is no such row
  loans    \* spool_loans

vars == <<row, status, owner, place, home, grams, slot, loans>>
spoolVars == <<row, status, owner, place, home, grams>>

Owners     == {"OWNED", "BORROWED_IN"}
Shelves    == {"none", "shelf"}
Places     == Shelves \cup {"loan"} \cup Slots
Grams      == 0..MaxGrams
Directions == {"OUTBOUND", "INBOUND"}

NoLoan == [status |-> "none"]
Loan   == [spool : Spools, direction : Directions,
           status : {"ACTIVE", "RETURNED"}, returned : Grams]

Init == /\ row    = [s \in Spools |-> "absent"]
        /\ status = [s \in Spools |-> "DELETED"]
        /\ owner  = [s \in Spools |-> "OWNED"]
        /\ place  = [s \in Spools |-> "none"]
        /\ home   = [s \in Spools |-> "none"]
        /\ grams  = [s \in Spools |-> 0]
        /\ slot   = [x \in Slots |-> "absent"]
        /\ loans  = [l \in LoanIds |-> NoLoan]

-----------------------------------------------------------------------------
(* What the transactions read. *)

Live(s) == row[s] = "live"

Loaded(s) == \E x \in Slots : slot[x] = s

Active(l, s, d) == loans[l] # NoLoan /\ loans[l].spool = s
                   /\ loans[l].direction = d /\ loans[l].status = "ACTIVE"

OnLoan(s, d) == \E l \in LoanIds : Active(l, s, d)

\* spool_has_active_loan: either direction.

HasActiveLoan(s) == \E d \in Directions : OnLoan(s, d)

\* spool_is_outbound_loan_locked: by status or by ledger.
Locked(s) == status[s] = "BORROWED" \/ (Live(s) /\ OnLoan(s, "OUTBOUND"))

-----------------------------------------------------------------------------
(* What the transactions write. *)

ClosedAs(loan, g) == [spool |-> loan.spool, direction |-> loan.direction,
                      status |-> "RETURNED", returned |-> g]

Opened(l, s, d) ==
  [loans EXCEPT ![l] = [spool |-> s, direction |-> d, status |-> "ACTIVE", returned |-> 0]]

\* create_inbound_spool_loan_in_transaction: the slot keeps the roll.
BorrowIn(s, l) == /\ ~HasActiveLoan(s)
                  /\ loans[l] = NoLoan
                  /\ loans' = Opened(l, s, "INBOUND")

\* close_inbound_spool_loan_without_returning_spool, for the loan of s.
InboundClosed(s) ==
  [l \in LoanIds |-> IF Active(l, s, "INBOUND") THEN ClosedAs(loans[l], grams[s]) ELSE loans[l]]

\* UPDATE ams_slots SET spool_id = NULL WHERE spool_id = s
TakenOut(s) == [x \in Slots |-> IF slot[x] = s THEN "empty" ELSE slot[x]]

ReleasedInUse(rolls, st) == st  \* mutant: the roll leaves its slot and stays in use

\* release_printer_spool: a roll that leaves its slot is back in stock, at home.
ReleasedStatus(rolls, st) ==
  [s \in Spools |-> IF s \in rolls /\ st[s] = "ASSIGNED" THEN "IN_STOCK" ELSE st[s]]

ReleasedPlace(rolls) ==
  [s \in Spools |-> IF s \in rolls /\ place[s] \in Slots THEN home[s] ELSE place[s]]

SlotsAssignedNaively(x, n) == [slot EXCEPT ![x] = n]  \* mutant

\* The slot row and clear_spool_from_other_slots.
SlotsAssigned(x, n) ==
  [y \in Slots |-> IF y = x THEN n ELSE IF slot[y] = n THEN "empty" ELSE slot[y]]

\* assign_spool_to_ams_slot_in_transaction: n is a roll or "empty", st the
\* status column as the transaction left it so far.
Assign(x, n, st) ==
  LET released == {slot[x]} \ {n}
      assigned == {n} \ {slot[x]}
      st1 == ReleasedStatus(released, st)
      pl1 == ReleasedPlace(released)
  IN /\ slot[x] # "absent"
     /\ n \in Spools => Live(n) /\ ~Locked(n)
     /\ \A s \in released \cap Spools : ~Locked(s)
     /\ slot' = SlotsAssigned(x, n)
     /\ status' = [s \in Spools |-> IF s \in assigned THEN "ASSIGNED" ELSE st1[s]]
     /\ place' = [s \in Spools |-> IF s \in assigned THEN x ELSE pl1[s]]

\* A weight at which the program itself declares the roll used up.
UsedStatus(g) == IF g = 0 THEN "EMPTY" ELSE "ASSIGNED"

\* apply_outgoing_measured_total_in_transaction: usage sets the status, a
\* reading that is not lower only corrects the weight.
MeasuredStatus(s, m) == IF m < grams[s] THEN UsedStatus(m) ELSE status[s]

-----------------------------------------------------------------------------
(* Rolls. *)

\* create_spool, create_manual_spool, receive_wishlist_item, catalog batches:
\* any status may be asked for, and no slot or loan is looked up for it.
CreateSpool(s, st, own, l, p, h, g) ==
  /\ row[s] = "absent"
  /\ row' = [row EXCEPT ![s] = "live"]
  /\ status' = [status EXCEPT ![s] = st]
  /\ owner' = [owner EXCEPT ![s] = own]
  /\ place' = [place EXCEPT ![s] = p]
  /\ home' = [home EXCEPT ![s] = IF h = "none" THEN p ELSE h]
  /\ grams' = [grams EXCEPT ![s] = g]
  /\ IF own = "BORROWED_IN" THEN BorrowIn(s, l) ELSE UNCHANGED loans
  /\ UNCHANGED slot

\* update_spool_weight: no lock, a roll on loan may be weighed.
UpdateWeight(s, g) ==
  /\ Live(s)
  /\ grams' = [grams EXCEPT ![s] = g]
  /\ UNCHANGED <<row, status, owner, place, home, slot, loans>>

UpdateStatus(s, st) ==
  /\ Live(s)
  /\ st # status[s] => ~Locked(s)
  /\ st = "ASSIGNED" => Loaded(s)
  /\ status' = [status EXCEPT ![s] = st]
  /\ UNCHANGED <<row, owner, place, home, grams, slot, loans>>

AssignLocation(s, p) ==
  /\ Live(s)
  /\ ~Locked(s)
  /\ place' = [place EXCEPT ![s] = p]
  /\ home' = [home EXCEPT ![s] = p]
  /\ UNCHANGED <<row, status, owner, grams, slot, loans>>

\* The ownership part of a transaction; st is the status it left so far.
SetOwner(s, own, l, st) ==
  IF own = owner[s] THEN UNCHANGED <<owner, loans>>
  ELSE /\ st # "BORROWED" /\ ~OnLoan(s, "OUTBOUND")
       /\ owner' = [owner EXCEPT ![s] = own]
       /\ IF own = "BORROWED_IN" THEN BorrowIn(s, l) ELSE loans' = InboundClosed(s)

UpdateOwnership(s, own, l) ==
  /\ Live(s)
  /\ SetOwner(s, own, l, status[s])
  /\ UNCHANGED <<row, status, place, home, grams, slot>>

PlacementEdit(s, st, p, h, own) ==  \* mutant: a status edit needs no unlocked roll
  p # place[s] \/ h # home[s] \/ own # owner[s]

\* placement_or_status_changed || ownership_changed
GuardedEdit(s, st, p, h, own) ==
  st # status[s] \/ p # place[s] \/ h # home[s] \/ own # owner[s]

\* update_spool_details: p is the resolved location, h the requested home or
\* "absent".  A loaded or lent roll keeps its place when the request knows
\* homes; otherwise an unchanged place follows the new home.
UpdateDetails(s, st, p, h, own, l) ==
  LET newHome == IF h = "absent" THEN home[s] ELSE h
      preserve == Loaded(s) \/ HasActiveLoan(s) \/ status[s] = "BORROWED"
      newPlace == IF h # "absent" /\ preserve THEN place[s]
                  ELSE IF h # "absent" /\ p = place[s] THEN newHome
                  ELSE p
  IN /\ Live(s)
     /\ GuardedEdit(s, st, p, newHome, own) => ~Locked(s)
     /\ st = "ASSIGNED" => Loaded(s)
     /\ status' = [status EXCEPT ![s] = st]
     /\ place' = [place EXCEPT ![s] = newPlace]
     /\ home' = [home EXCEPT ![s] = newHome]
     /\ SetOwner(s, own, l, st)
     /\ UNCHANGED <<row, grams, slot>>

RemovableUnlocked(s) == ~Locked(s)  \* mutant: an inbound loan does not count

\* ensure_spool_has_no_active_loan
Removable(s) == ~Locked(s) /\ ~HasActiveLoan(s)

DeleteSpool(s) ==
  /\ Live(s)
  /\ Removable(s)
  /\ row' = [row EXCEPT ![s] = "deleted"]
  /\ status' = [status EXCEPT ![s] = "DELETED"]
  /\ place' = [place EXCEPT ![s] = "none"]
  /\ home' = [home EXCEPT ![s] = "none"]
  /\ slot' = TakenOut(s)
  /\ UNCHANGED <<owner, grams, loans>>

\* purge_spool: the row and its loan history go; the columns of an absent
\* roll take their initial values.
PurgeSpool(s) ==
  /\ row[s] # "absent"
  /\ Removable(s)
  /\ row' = [row EXCEPT ![s] = "absent"]
  /\ status' = [status EXCEPT ![s] = "DELETED"]
  /\ owner' = [owner EXCEPT ![s] = "OWNED"]
  /\ place' = [place EXCEPT ![s] = "none"]
  /\ home' = [home EXCEPT ![s] = "none"]
  /\ grams' = [grams EXCEPT ![s] = 0]
  /\ slot' = TakenOut(s)
  /\ loans' = [l \in LoanIds |->
                 IF loans[l] # NoLoan /\ loans[l].spool = s THEN NoLoan ELSE loans[l]]

-----------------------------------------------------------------------------
(* Printers and slots. *)

\* The slot rows in gone are deleted and their rolls released; one locked roll
\* fails the whole transaction.
RemoveSlots(gone, kept) ==
  LET rolls == {slot[x] : x \in gone} \cap Spools
  IN /\ \A s \in rolls : ~Locked(s)
     /\ slot' = [x \in Slots |->
                   IF x \in gone THEN "absent"
                   ELSE IF x \in kept /\ slot[x] = "absent" THEN "empty" ELSE slot[x]]
     /\ status' = ReleasedStatus(rolls, status)
     /\ place' = ReleasedPlace(rolls)
     /\ UNCHANGED <<row, owner, home, grams, loans>>

SlotsOf(p) == {x \in Slots : PrinterOf[x] = p}

\* upsert_printer_with_ams, asked for the slots in kept.
UpsertPrinter(p, kept) ==
  /\ kept \subseteq SlotsOf(p)
  /\ ExternalSlots \cap SlotsOf(p) \subseteq kept
  /\ RemoveSlots(SlotsOf(p) \ kept, kept)

DeletePrinter(p) ==
  /\ \E x \in SlotsOf(p) : slot[x] # "absent"
  /\ RemoveSlots(SlotsOf(p), {})

\* assign_printer_slot, and the live matcher's assignment to an empty slot.
AssignPrinterSlot(x, n) ==
  /\ Assign(x, n, status)
  /\ UNCHANGED <<row, owner, home, grams, loans>>

\* operate_printer_slot with the roll already loaded: weigh it in place.
MeasureLoadedSpool(x, m) ==
  /\ slot[x] \in Spools
  /\ ~Locked(slot[x])
  /\ status' = [status EXCEPT ![slot[x]] = MeasuredStatus(slot[x], m)]
  /\ grams' = [grams EXCEPT ![slot[x]] = m]
  /\ UNCHANGED <<row, owner, place, home, slot, loans>>

Loadable(n, unweighed) ==
  /\ status[n] \notin {"BORROWED", "EMPTY", "LOST"}
  /\ unweighed => status[n] # "ASSIGNED" /\ ~Loaded(n)

\* operate_printer_slot: old is the roll the request expects in the slot, n
\* the roll to load or "empty"; mo and mi are the two readings, NotWeighed where
\* live data makes the first needless or the second is not given.
OperatePrinterSlot(x, old, n, mo, mi) ==
  LET measured == IF old \in Spools /\ mo # NotWeighed THEN {old} ELSE {}
      st0 == [s \in Spools |-> IF s \in measured THEN MeasuredStatus(s, mo) ELSE status[s]]
  IN /\ slot[x] = old
     /\ n # old
     /\ n \in Spools => Loadable(n, mi = NotWeighed)
     /\ Assign(x, n, st0)
     /\ grams' = [s \in Spools |-> IF s \in measured THEN mo
                                   ELSE IF s = n /\ mi # NotWeighed THEN mi
                                   ELSE grams[s]]
     /\ UNCHANGED <<row, owner, home, loans>>

NextGramsUnclamped(s, used) == grams[s] - used  \* mutant: the rest may fall below zero

NextGrams(s, used) == IF grams[s] > used THEN grams[s] - used ELSE 0

RecordPrintUsage(s, used) ==
  /\ Live(s)
  /\ Loaded(s)
  /\ ~Locked(s)
  /\ grams' = [grams EXCEPT ![s] = NextGrams(s, used)]
  /\ status' = [status EXCEPT ![s] = UsedStatus(NextGrams(s, used))]
  /\ UNCHANGED <<row, owner, place, home, slot, loans>>

\* accept_bambu_live_weight_estimate: the estimate comes from the printer.
AcceptWeightEstimate(x, g) ==
  /\ slot[x] \in Spools
  /\ ~Locked(slot[x])
  /\ g # grams[slot[x]]
  /\ grams' = [grams EXCEPT ![slot[x]] = g]
  /\ status' = [status EXCEPT ![slot[x]] = "ASSIGNED"]
  /\ UNCHANGED <<row, owner, place, home, slot, loans>>

-----------------------------------------------------------------------------
(* Loans. *)

LendSpool(s, l, g) ==
  /\ Live(s)
  /\ owner[s] = "OWNED"
  /\ ~HasActiveLoan(s)
  /\ loans[l] = NoLoan
  /\ loans' = Opened(l, s, "OUTBOUND")
  /\ status' = [status EXCEPT ![s] = "BORROWED"]
  /\ place' = [place EXCEPT ![s] = "loan"]
  /\ grams' = [grams EXCEPT ![s] = g]
  /\ slot' = TakenOut(s)
  /\ UNCHANGED <<row, owner, home>>

ReturnableAgain(l, d) ==  \* mutant: a second return overwrites the receipt
  loans[l] # NoLoan /\ loans[l].direction = d

Returnable(l, d) == loans[l] # NoLoan /\ loans[l].direction = d /\ loans[l].status = "ACTIVE"

\* return_spool_loan: the shelf it came from is forgotten, its home is not.
ReturnSpoolLoan(l, g) ==
  LET s == loans[l].spool
  IN /\ Returnable(l, "OUTBOUND")
     /\ loans' = [loans EXCEPT ![l] = ClosedAs(loans[l], g)]
     /\ IF Live(s)
        THEN /\ status' = [status EXCEPT ![s] = IF g = 0 THEN "EMPTY" ELSE "IN_STOCK"]
             /\ place' = [place EXCEPT ![s] = "none"]
             /\ grams' = [grams EXCEPT ![s] = g]
        ELSE UNCHANGED <<status, place, grams>>
     /\ UNCHANGED <<row, owner, home, slot>>

\* return_inbound_spool_loan: the roll leaves the library, from its slot too.
ReturnInboundSpoolLoan(l, g) ==
  LET s == loans[l].spool
  IN /\ Returnable(l, "INBOUND")
     /\ Live(s)
     /\ loans' = [loans EXCEPT ![l] = ClosedAs(loans[l], g)]
     /\ row' = [row EXCEPT ![s] = "deleted"]
     /\ status' = [status EXCEPT ![s] = "DELETED"]
     /\ place' = [place EXCEPT ![s] = "none"]
     /\ grams' = [grams EXCEPT ![s] = g]
     /\ slot' = TakenOut(s)
     /\ UNCHANGED <<owner, home>>

-----------------------------------------------------------------------------
(* Reviewed batch and single-roll actions of database_inventory_bulk.rs.   *)
(* All preconditions of all rolls are checked before the first write.      *)

RemovedByStatus(s) == status[s] = "MISSING"  \* mutant: deleted_at not looked at

Removed(s) == ~Live(s) \/ status[s] \in {"MISSING", "DELETED"}

\* validate_affected_spool
BulkChangeable(s) ==
  /\ ~Removed(s)
  /\ ~Loaded(s) /\ status[s] # "ASSIGNED"
  /\ ~HasActiveLoan(s) /\ status[s] # "BORROWED"

BulkMove(rolls) ==
  LET affected == {s \in rolls : place[s] # "shelf" \/ home[s] # "shelf"}
  IN /\ \A s \in rolls : row[s] # "absent"
     /\ \A s \in affected : BulkChangeable(s)
     /\ place' = [s \in Spools |-> IF s \in affected THEN "shelf" ELSE place[s]]
     /\ home' = [s \in Spools |-> IF s \in affected THEN "shelf" ELSE home[s]]
     /\ UNCHANGED <<row, status, owner, grams, slot, loans>>

BulkStatus(rolls, st) ==
  LET affected == {s \in rolls : status[s] # st}
  IN /\ \A s \in rolls : row[s] # "absent"
     /\ \A s \in affected : BulkChangeable(s)
     /\ \A s \in affected : st = "IN_STOCK" /\ status[s] = "EMPTY" => grams[s] > 0
     /\ status' = [s \in Spools |-> IF s \in affected THEN st ELSE status[s]]
     /\ UNCHANGED <<row, owner, place, home, grams, slot, loans>>

\* review_roll
RollReviewed(s) == ~Removed(s) /\ ~Locked(s)

\* The roll leaves its slot and then takes the status st.
UnloadAs(s, st) ==
  /\ status' = [status EXCEPT ![s] = st]
  /\ IF Loaded(s)
     THEN /\ slot' = TakenOut(s)
          /\ place' = ReleasedPlace({s})
     ELSE UNCHANGED <<slot, place>>

RollStatus(s, st) ==
  /\ RollReviewed(s)
  /\ st = "IN_STOCK" => /\ ~Loaded(s)
                        /\ status[s] \in {"LOST", "EMPTY", "IN_STOCK"}
                        /\ status[s] = "EMPTY" => grams[s] > 0
  /\ UnloadAs(s, st)
  /\ UNCHANGED <<row, owner, home, grams, loans>>

MarkEmpty(s) ==
  /\ RollReviewed(s)
  /\ UnloadAs(s, "EMPTY")
  /\ grams' = [grams EXCEPT ![s] = 0]
  /\ UNCHANGED <<row, owner, home, loans>>

\* measure_roll: a used-up roll with weight again is reactivated.
RollWeight(s, m) ==
  LET measured == IF Loaded(s) THEN MeasuredStatus(s, m) ELSE status[s]
      reactivated == IF Loaded(s) THEN "ASSIGNED" ELSE "IN_STOCK"
  IN /\ RollReviewed(s)
     /\ status' = [status EXCEPT ![s] =
                     IF status[s] = "EMPTY" /\ m > 0 THEN reactivated ELSE measured]
     /\ grams' = [grams EXCEPT ![s] = m]
     /\ UNCHANGED <<row, owner, place, home, slot, loans>>

-----------------------------------------------------------------------------
(* The lightweight inventory file of database_inventory_import_apply.rs.   *)
(* Its rows are applied one after another in one transaction; here each    *)
(* row is a file of its own.  Rows are looked up and written by id alone,  *)
(* so a file reaches rolls that were removed.                              *)

Historical == {"EMPTY", "LOST", "MISSING", "DELETED"}

\* What the file says of a column, or what the column holds.
Given(value, column) == IF value = "absent" THEN column ELSE value

ImportedAsAsked(s, asked) ==  \* mutant: a file may put a roll in use
  IF Locked(s) THEN status[s] ELSE IF Loaded(s) THEN "ASSIGNED" ELSE asked

\* A lent roll keeps its status, a loaded one is in use, and no other roll is
\* lent or in use because a file says so.
ImportedStatus(s, asked) ==
  IF Locked(s) THEN status[s]
  ELSE IF Loaded(s) THEN "ASSIGNED"
  ELSE IF asked \in {"ASSIGNED", "BORROWED"} THEN "IN_STOCK"
  ELSE asked

ImportedOwnerAsGiven(s, own) ==  \* mutant: a loan from somebody else does not count
  IF Locked(s) THEN owner[s] ELSE Given(own, owner[s])

\* resolve_imported_ownership
ImportedOwner(s, own) ==
  IF Locked(s) \/ HasActiveLoan(s) THEN owner[s] ELSE Given(own, owner[s])

\* A new roll is a full one where the file does not say what it weighs.
ImportedGrams(s, g) ==
  IF g # NotWeighed THEN g ELSE IF row[s] = "absent" THEN MaxGrams ELSE grams[s]

OpensLoanForNew(s, own, st) ==  \* mutant: only a new roll opens its loan
  row[s] = "absent" /\ own = "BORROWED_IN" /\ st \notin Historical

\* A roll that becomes borrowed in opens its loan, unless its status says that
\* it is not here any more.
OpensLoan(s, own, st) ==
  own = "BORROWED_IN" /\ owner[s] # "BORROWED_IN" /\ st \notin Historical

\* f is what the row says, l the loan it may open; a removed roll cannot open
\* one, which refuses the whole file.
ImportRow(s, f, l) ==
  LET asked == Given(f.status, IF row[s] = "absent" THEN "IN_STOCK" ELSE status[s])
      newStatus == ImportedStatus(s, asked)
      newOwner == ImportedOwner(s, f.owner)
  IN /\ IF OpensLoan(s, newOwner, newStatus)
        THEN row[s] # "deleted" /\ BorrowIn(s, l)
        ELSE UNCHANGED loans
     /\ row' = [row EXCEPT ![s] = IF row[s] = "deleted" THEN "deleted" ELSE "live"]
     /\ status' = [status EXCEPT ![s] = newStatus]
     /\ owner' = [owner EXCEPT ![s] = newOwner]
     /\ place' = [place EXCEPT ![s] = IF Locked(s) \/ Loaded(s) THEN place[s]
                                      ELSE Given(f.place, place[s])]
     /\ home' = [home EXCEPT ![s] = IF Locked(s) THEN home[s] ELSE Given(f.home, home[s])]
     /\ grams' = [grams EXCEPT ![s] = ImportedGrams(s, f.grams)]
     /\ UNCHANGED slot

-----------------------------------------------------------------------------

AskedStatuses == EditStatuses \cup {"IN_STOCK"}

SpoolStep(s) ==
  \/ \E st \in AskedStatuses, own \in Owners, l \in LoanIds, p, h \in Shelves, g \in Grams :
        CreateSpool(s, st, own, l, p, h, g)
  \/ \E g \in Grams : UpdateWeight(s, g)
  \/ \E st \in EditStatuses : UpdateStatus(s, st)
  \/ \E p \in Shelves : AssignLocation(s, p)
  \/ \E own \in Owners, l \in LoanIds : UpdateOwnership(s, own, l)
  \/ \E st \in EditStatuses \cup {status[s]}, p \in Shelves \cup {place[s]},
        h \in Shelves \cup {"absent"}, own \in Owners, l \in LoanIds :
        UpdateDetails(s, st, p, h, own, l)
  \/ DeleteSpool(s)
  \/ PurgeSpool(s)
  \/ \E used \in 1..MaxGrams : RecordPrintUsage(s, used)
  \/ \E l \in LoanIds, g \in Grams : LendSpool(s, l, g)
  \/ \E st \in {"LOST", "IN_STOCK"} : RollStatus(s, st)
  \/ MarkEmpty(s)
  \/ \E m \in Grams : RollWeight(s, m)

LoanStep(l) == \E g \in Grams : ReturnSpoolLoan(l, g) \/ ReturnInboundSpoolLoan(l, g)

SlotStep(x) ==
  \/ \E n \in Spools \cup {"empty"} : AssignPrinterSlot(x, n)
  \/ \E m \in Grams : MeasureLoadedSpool(x, m) \/ AcceptWeightEstimate(x, m)
  \/ \E old, n \in Spools \cup {"empty"}, mo, mi \in Grams \cup {NotWeighed} :
        OperatePrinterSlot(x, old, n, mo, mi)

PrinterStep(p) == DeletePrinter(p) \/ \E kept \in SUBSET Slots : UpsertPrinter(p, kept)

BulkStep(rolls) == BulkMove(rolls) \/ \E st \in {"IN_STOCK", "EMPTY", "LOST"} : BulkStatus(rolls, st)

\* Every operation but the import of a file.
RequestStep == \/ \E s \in Spools : SpoolStep(s)
               \/ \E l \in LoanIds : LoanStep(l)
               \/ \E x \in Slots : SlotStep(x)
               \/ \E p \in Printers : PrinterStep(p)
               \/ \E rolls \in SUBSET Spools : BulkStep(rolls)

ImportStep(s) == \E f \in FileRows, l \in LoanIds : ImportRow(s, f, l)

Next == RequestStep \/ \E s \in Spools : ImportStep(s)

Spec == Init /\ [][Next]_vars

-----------------------------------------------------------------------------
(* Properties. *)

TypeOK ==
  /\ row    \in [Spools -> {"absent", "live", "deleted"}]
  /\ status \in [Spools -> Statuses]
  /\ owner  \in [Spools -> Owners]
  /\ place  \in [Spools -> Places]
  /\ home   \in [Spools -> Shelves]
  /\ grams  \in [Spools -> Grams]
  /\ slot   \in [Slots -> Spools \cup {"empty", "absent"}]
  /\ loans  \in [LoanIds -> Loan \cup {NoLoan}]

\* The row of a removed roll says neither "in a slot" nor "lent", whatever a file
\* wrote to it, and a loan in the ledger names a roll whose row is there.
RemovedRowsAreTidy ==
  /\ \A s \in Spools : ~Live(s) => /\ place[s] \in Shelves
                                   /\ status[s] \notin {"ASSIGNED", "BORROWED"}
  /\ \A s \in Spools : row[s] = "absent" => owner[s] = "OWNED"
  /\ \A l \in LoanIds : loans[l] # NoLoan => row[loans[l].spool] # "absent"

\* A roll is in one slot at most, although a slot row names its roll and no
\* constraint of the schema keeps a roll out of a second row.
OneSlotPerRoll ==
  \A x, y \in Slots : slot[x] = slot[y] /\ slot[x] \in Spools => x = y

\* A slot never names a roll that was removed, went back to its owner or is
\* lent out: each of these paths clears the slots by itself.
LoadedRollIsHere ==
  \A x \in Slots : slot[x] \in Spools => Live(slot[x]) /\ ~OnLoan(slot[x], "OUTBOUND")

\* A roll has one open loan at most, of whichever direction.
OneOpenLoan ==
  \A l, k \in LoanIds, s \in Spools, d, e \in Directions :
     Active(l, s, d) /\ Active(k, s, e) => l = k

\* The ledger and the row agree on a lent roll until it is returned, whatever
\* edits, weighings and slot operations came in between.
LentRollIsAway ==
  \A s \in Spools : OnLoan(s, "OUTBOUND") =>
     Live(s) /\ status[s] = "BORROWED" /\ owner[s] = "OWNED" /\ place[s] = "loan"

\* An open inbound loan is of a roll that is on hand and marked as somebody
\* else's: giving back, taking over and removing close it.
InboundRollIsHere ==
  \A s \in Spools : OnLoan(s, "INBOUND") => Live(s) /\ owner[s] = "BORROWED_IN"

\* A row that says "in slot x" or "lent" is right.  (The converse is not: a
\* loaded roll may be given a shelf by hand.)
PlaceIsTrue ==
  \A s \in Spools : /\ place[s] \in Slots => slot[place[s]] = s
                    /\ place[s] = "loan" => OnLoan(s, "OUTBOUND")

IInv == /\ TypeOK /\ RemovedRowsAreTidy
        /\ OneSlotPerRoll /\ LoadedRollIsHere /\ PlaceIsTrue
        /\ OneOpenLoan /\ LentRollIsAway /\ InboundRollIsHere

\* The rows of the rolls and the loan ledger agree, under every order of
\* lending, borrowing, returning, editing, importing, taking over and removing.
LoansAgree == TypeOK /\ RemovedRowsAreTidy /\ OneOpenLoan /\ LentRollIsAway /\ InboundRollIsHere

\* The rows of the rolls and the slots agree, whichever way a roll is loaded,
\* moved, replaced, used up, lent, imported or removed.
SlotsAgree == OneSlotPerRoll /\ LoadedRollIsHere /\ PlaceIsTrue

\* The books agree, whatever the order of operations: the rolls with the loan
\* ledger and with the slots.
BooksAgree == LoansAgree /\ SlotsAgree

\* The receipt of a return is never rewritten, by a retry with other details
\* or by anything else; it goes only when its roll is purged.
ReturnsAreFinal ==
  [][\A l \in LoanIds :
       loans[l] # NoLoan /\ loans[l].status = "RETURNED" =>
         loans'[l] = loans[l] \/ row'[loans[l].spool] = "absent"]_vars

RowKept(s) == /\ status'[s] = status[s] /\ owner'[s] = owner[s] /\ grams'[s] = grams[s]
              /\ place'[s] = place[s] /\ home'[s] = home[s]

\* A removed roll never comes back, and no late request, return or printer
\* change alters its row; only an imported file rewrites it.
RemovedStaysRemoved ==
  [][\A s \in Spools : row[s] = "deleted" =>
       \/ row'[s] = "absent"
       \/ row'[s] = "deleted" /\ (RowKept(s) \/ ~RequestStep)]_vars

Dangling(s) == status[s] = "ASSIGNED" /\ Live(s) /\ ~Loaded(s)

\* No path that unloads a roll forgets to take it out of use, and no edit or
\* file puts a roll in use that is in no slot.  Only the registration of a
\* roll, which stores the status it is asked for, can.
AssignmentsHold ==
  [][\A s \in Spools : Dangling(s)' /\ ~Dangling(s) => row[s] = "absent" /\ ~ImportStep(s)]_vars

Unledgered(s) == owner[s] = "BORROWED_IN" /\ Live(s) /\ ~OnLoan(s, "INBOUND")

\* No sequence of registering, editing, taking over, giving back and removing
\* leaves a borrowed roll on hand without the open loan from its owner.  Only
\* a file can, for a roll it says is used up, lost, missing or deleted, and
\* then not by ending a loan.
BorrowingsHold ==
  [][\A s \in Spools : Unledgered(s)' /\ ~Unledgered(s) =>
       status'[s] \in Historical /\ ~OnLoan(s, "INBOUND") /\ ~RequestStep]_vars

\* What was done stays done: a return that is signed, a roll that is removed, a
\* roll that is out of use, a loan from somebody else.
NothingUndone == ReturnsAreFinal /\ RemovedStaysRemoved /\ AssignmentsHold /\ BorrowingsHold

CustodyOf(s) == IF row[s] = "absent" THEN "unknown"
                ELSE IF row[s] = "deleted" THEN "gone"
                ELSE IF OnLoan(s, "OUTBOUND") THEN "out"
                ELSE IF Loaded(s) THEN CHOOSE x \in Slots : slot[x] = s
                ELSE "shelf"

Hands == [s \in Spools |-> CustodyOf(s)]
Owed  == {s \in Spools : OnLoan(s, "INBOUND")}

Custody == INSTANCE SpoolCustody WITH custody <- Hands, owed <- Owed

\* The inventory implements the custody of its rolls: every operation is a
\* legal move of rolls between shelf, slots, borrowers and owners, or none.
KeepsCustody == Custody!Spec

=============================================================================
