---------------------------- MODULE Printers_proofs ----------------------------
(***************************************************************************)
(* The proofs about what the program keeps of a printer: the access code   *)
(* in the credential vault (CredentialVault), and what live polling makes  *)
(* of its trays (LiveSlots).  They share no variable and no operator.      *)
(***************************************************************************)
EXTENDS CredentialVault, LiveSlots, FiniteSetTheorems, TLAPS

-----------------------------------------------------------------------------
(***************************************************************************)
(* LiveSlots.                                                              *)
(*                                                                         *)
(* While a printer's report is applied (Passing), a slot whose turn is to  *)
(* come is as the overview had it, or has lost its roll to the slot whose  *)
(* tray names it; afterwards it is as its own tray says.  The authority a  *)
(* batch captured is told from a later one by profile and generation       *)
(* (Meant).  A reading keeps the time it was made (AllDated), and none     *)
(* that is older than the hand that cleared a slot is left once the slot   *)
(* has forgotten when that was (NoneOlder).                                *)
(***************************************************************************)
USE LiveAssumption

-----------------------------------------------------------------------------
\* The inductive invariant.

PollPhases == {"idle", "captured", "answered", "failed", "applying"}
PollStates == [phase : PollPhases, cfg : PollBindings \cup {Off}, trays : [Slots -> Readings],
               reading : BOOLEAN, todo : SUBSET Slots]
Overviews == [slot : [Slots -> Rolls \cup {Empty}], cleared : [Slots -> 0..MaxTime],
              override : [Slots -> BOOLEAN]]

LiveTyped ==
  /\ now \in 1..MaxTime /\ tray \in [Slots -> Identified \cup {Bare, Empty}]
  /\ slot \in [Slots -> Rolls \cup {Empty}] /\ cleared \in [Slots -> 0..MaxTime]
  /\ override \in [Slots -> BOOLEAN] /\ config \in [Printers -> PollBindings \cup {Off}]
  /\ seen \in [Slots -> Readings] /\ reading \in [Printers -> BOOLEAN]
  /\ from \in [Printers -> Hosts \cup {Off.host}] /\ mode \in {"own", "client"}
  /\ {gen, profile, epoch} \subseteq Nat
  /\ asof \in [gen : Nat, profile : Nat, epoch : Nat]
  /\ poll \in [Printers -> PollStates] /\ over \in Overviews
  /\ gate \in Printers \cup {"free"} /\ manual \in [Slots -> 0..MaxTime]
  /\ limit \in Limits /\ {edits, errors} \subseteq Nat

\* The poll that is applied holds the gate, and every poll is of a printer switched on.
PollsGated == \A p \in Printers :
  /\ gate = p <=> poll[p].phase = "applying"
  /\ poll[p].todo \subseteq Mine(p)
  /\ poll[p].phase # "idle" => poll[p].cfg # Off

\* An authority is told by its profile and generation, and the gate keeps it.
Meant ==
  /\ asof.profile <= profile
  /\ asof.profile = profile =>
       asof.gen <= gen /\ (asof.gen = gen => asof.epoch = epoch)
  /\ gate # "free" => asof.epoch = epoch

\* No other tray of the printer says the same.
Alone(p, s) == \A x \in Mine(p) \ {s} : poll[p].trays[x].look # poll[p].trays[s].look

\* Until its turn a slot is as it was when the overview was read, or its roll has gone to
\* another slot; and after it as its tray says.
Passing == \A p \in Printers, s \in Slots :
  LET t == poll[p].trays[s] IN
  gate = p /\ s \in Mine(p) =>
    /\ s \in poll[p].todo =>
         /\ ~poll[p].reading /\ cleared[s] = over.cleared[s]
         /\ slot[s] \in {over.slot[s], Empty}
         /\ t.look \in Tagged /\ Alone(p, s) /\ over.slot[s] = t.look => slot[s] = t.look
    /\ s \notin poll[p].todo /\ ~poll[p].reading /\ over.slot[s] \notin Plain =>
         /\ t.look = Empty => slot[s] = Empty
         /\ t.look \in Tagged /\ Alone(p, s) /\ t.id > over.cleared[s] => slot[s] = t.look

\* A reading is dated by when it was made, and a slot by the hand that cleared it.
Dated(r) == r.id = r.read
AllDated ==
  /\ \A p \in Printers, s \in Slots : Dated(poll[p].trays[s])
  /\ \A s \in Slots : Dated(seen[s])
  /\ \A s \in Slots : manual[s] <= now /\ (cleared[s] # 0 => cleared[s] = manual[s])

\* Once nothing says when a slot was cleared, no older reading of a known roll is left,
\* but for a report that is about to be replaced.
Newer(r, s) == r.look \in Tagged /\ cleared[s] = 0 => r.read >= manual[s]
NoneOlder ==
  edits = 0 /\ errors = 0 => \A s \in Slots :
    LET p == PrinterOf[s] IN
    /\ poll[p].phase # "idle" => poll[p].cfg = config[p] /\ Newer(poll[p].trays[s], s)
    /\ poll[p].phase # "applying" => Newer(seen[s], s)

LiveInv == LiveTyped /\ PollsGated /\ ObservedIsOwn /\ Meant /\ Passing /\ AllDated /\ NoneOlder

-----------------------------------------------------------------------------
\* What a poll, a reading and a report are made of.

LEMMA PollIs ==
  ASSUME LiveTyped, NEW p \in Printers
  PROVE  /\ poll[p] \in PollStates
         /\ poll[p].phase \in PollPhases /\ poll[p].cfg \in PollBindings \cup {Off}
         /\ poll[p].trays \in [Slots -> Readings] /\ poll[p].reading \in BOOLEAN
         /\ poll[p].todo \in SUBSET Slots
<1>1. poll[p] \in PollStates
  BY DEF LiveTyped
<1> QED BY <1>1 DEF PollStates

LEMMA ReadingIs ==
  ASSUME NEW r \in Readings
  PROVE  r.look \in Looks /\ r.id \in 0..MaxTime /\ r.read \in 0..MaxTime
  BY DEF Readings

LEMMA SaysIs ==
  ASSUME NEW look \in Looks, NEW time \in 0..MaxTime
  PROVE  /\ Says(look, time) \in Readings /\ Dated(Says(look, time))
         /\ Says(look, time).look = look /\ Says(look, time).id = time
         /\ Says(look, time).read = time
  BY DEF Says, Readings, Dated

LEMMA UnseenIs ==
  /\ Unseen \in Readings /\ Dated(Unseen) /\ Unseen.look = "unseen" /\ "unseen" \notin Tagged
  /\ "unread" \notin Tagged /\ Empty \notin Tagged
<1>1. "unseen" \in Looks /\ 0 \in 0..MaxTime
  BY DEF Looks
<1>2. "unseen" \notin Tagged /\ "unread" \notin Tagged /\ Empty \notin Tagged
  BY DEF Empty
<1> QED BY <1>1, <1>2, SaysIs DEF Unseen

LEMMA FullIs ==
  ASSUME LiveTyped, NEW s \in Slots
  PROVE  /\ Full(s) \in Readings /\ Dated(Full(s)) /\ Full(s).look = tray[s]
         /\ Full(s).look \in Tagged => Full(s).read = now
<1>1. tray[s] \in Looks /\ now \in 0..MaxTime /\ 0 \in 0..MaxTime
  BY DEF LiveTyped, Looks
<1>2. CASE tray[s] \in Identified
  BY <1>1, <1>2, SaysIs DEF Full
<1>3. CASE tray[s] \notin Identified
  BY <1>1, <1>3, SaysIs DEF Full, Identified
<1> QED BY <1>2, <1>3

\* What a report may say of a tray: what was known, or what is read now.
Reported(s, old, new) == new \in {old, Full(s), Says("unread", 0)}

LEMMA ReportedIs ==
  ASSUME LiveTyped, NEW s \in Slots, NEW old \in Readings, NEW new, Reported(s, old, new)
  PROVE  /\ new \in Readings
         /\ Dated(old) => Dated(new)
         /\ new.look \in Tagged => new = old \/ new.read = now
<1>1. "unread" \in Looks /\ 0 \in 0..MaxTime
  BY DEF Looks
<1>2. Says("unread", 0) \in Readings /\ Dated(Says("unread", 0))
      /\ Says("unread", 0).look \notin Tagged
  BY <1>1, SaysIs, UnseenIs
<1> QED BY <1>2, FullIs DEF Reported

\* What becomes of one printer's poll; of the others nothing does.
Becomes(p, phase, cfg, trays, busy, todo) ==
  /\ poll' \in [Printers -> PollStates] /\ \A q \in Printers : q # p => poll'[q] = poll[q]
  /\ poll'[p].phase = phase /\ poll'[p].cfg = cfg /\ poll'[p].trays = trays
  /\ poll'[p].reading = busy /\ poll'[p].todo = todo

LEMMA IdleIs ==
  /\ Idle \in PollStates /\ Idle.phase = "idle" /\ Idle.cfg = Off /\ Idle.todo = {}
  /\ Idle.trays = [s \in Slots |-> Unseen] /\ Idle.reading = FALSE
  BY UnseenIs DEF Idle, PollStates, PollPhases

LEMMA IdleBecomes ==
  ASSUME LiveTyped, NEW p \in Printers, poll' = [poll EXCEPT ![p] = Idle]
  PROVE  Becomes(p, "idle", Off, [s \in Slots |-> Unseen], FALSE, {})
  BY IdleIs DEF Becomes, LiveTyped

LEMMA ObserveEffect ==
  ASSUME LiveTyped, NEW p \in Printers, NEW fresh \in SUBSET Mine(p),
         NEW heartbeat \in BOOLEAN, NEW busy \in BOOLEAN, Observe(p, fresh, heartbeat, busy)
  PROVE  \E trays \in [Slots -> Readings] :
           /\ Becomes(p, "answered", poll[p].cfg, trays, busy, poll[p].todo)
           /\ \A s \in Slots : Reported(s, poll[p].trays[s], trays[s])
<1> DEFINE old == poll[p].trays
           new == [s \in Slots |->
                     IF s \notin Mine(p) THEN old[s]
                     ELSE IF heartbeat THEN Carried(old[s])
                     ELSE IF s \in fresh THEN Full(s) ELSE Delta(s, old[s])]
           state == [poll[p] EXCEPT !.phase = "answered", !.reading = busy, !.trays = new]
<1>1. old \in [Slots -> Readings] /\ poll[p] \in PollStates
  BY PollIs
<1>2. ASSUME NEW s \in Slots PROVE Reported(s, old[s], new[s])
  <2>1. new[s] \in {old[s], Carried(old[s]), Full(s), Delta(s, old[s])}
    OBVIOUS
  <2>2. Carried(old[s]) = old[s] /\ Reported(s, old[s], Delta(s, old[s]))
    BY DEF Carried, Delta, Reported
  <2> HIDE DEF new
  <2> QED BY <2>1, <2>2 DEF Reported
<1>3. ASSUME NEW s \in Slots PROVE new[s] \in Readings
  <2>1. old[s] \in Readings /\ Reported(s, old[s], new[s])
    BY <1>1, <1>2
  <2> HIDE DEF old, new
  <2> QED BY <2>1, ReportedIs
<1>4. new \in [Slots -> Readings]
  BY <1>3
<1>5. poll' = [poll EXCEPT ![p] = state]
  BY DEF Observe, LiveTyped
<1> HIDE DEF new
<1>6. /\ state \in PollStates /\ state.phase = "answered" /\ state.cfg = poll[p].cfg
      /\ state.trays = new /\ state.reading = busy /\ state.todo = poll[p].todo
  BY <1>1, <1>4 DEF PollStates, PollPhases
<1> HIDE DEF state
<1>7. Becomes(p, "answered", poll[p].cfg, new, busy, poll[p].todo)
  BY <1>5, <1>6 DEF Becomes, LiveTyped
<1> QED BY <1>2, <1>4, <1>7

LEMMA NoAnswerEffect ==
  ASSUME LiveTyped, NEW p \in Printers, NoAnswer(p)
  PROVE  Becomes(p, "failed", poll[p].cfg, poll[p].trays, poll[p].reading, poll[p].todo)
<1> DEFINE state == [poll[p] EXCEPT !.phase = "failed"]
<1>1. poll[p] \in PollStates /\ poll' = [poll EXCEPT ![p] = state]
  BY PollIs DEF NoAnswer
<1>2. /\ state \in PollStates /\ state.phase = "failed" /\ state.cfg = poll[p].cfg
      /\ state.trays = poll[p].trays /\ state.reading = poll[p].reading
      /\ state.todo = poll[p].todo
  BY <1>1 DEF PollStates, PollPhases
<1> HIDE DEF state
<1> QED BY <1>1, <1>2 DEF Becomes, LiveTyped

\* The trays that a pass applies.
Trays(p) == IF poll[p].reading THEN {}
            ELSE {s \in Mine(p) : poll[p].trays[s].look # "unseen"}

LEMMA EnterEffect ==
  ASSUME LiveTyped, NEW p \in Printers, Enter(p), Current
  PROVE  Becomes(p, "applying", poll[p].cfg, poll[p].trays, poll[p].reading, Trays(p))
<1> DEFINE state == [poll[p] EXCEPT !.phase = "applying", !.todo = Trays(p)]
<1>1. poll[p] \in PollStates /\ poll' = [poll EXCEPT ![p] = state]
  BY PollIs DEF Enter, Trays
<1>2. Trays(p) \subseteq Slots
  BY DEF Trays, Mine
<1>3. /\ state \in PollStates /\ state.phase = "applying" /\ state.cfg = poll[p].cfg
      /\ state.trays = poll[p].trays /\ state.reading = poll[p].reading
      /\ state.todo = Trays(p)
  BY <1>1, <1>2 DEF PollStates, PollPhases
<1> HIDE DEF state
<1> QED BY <1>1, <1>3 DEF Becomes, LiveTyped

LEMMA ApplyEffect ==
  ASSUME LiveTyped, NEW p \in Printers, NEW s \in Slots, ApplyTray(p, s)
  PROVE  Becomes(p, poll[p].phase, poll[p].cfg, poll[p].trays, poll[p].reading,
                 poll[p].todo \ {s})
<1> DEFINE state == [poll[p] EXCEPT !.todo = poll[p].todo \ {s}]
<1>1. poll[p] \in PollStates /\ poll' = [poll EXCEPT ![p] = state]
  BY PollIs DEF ApplyTray
<1>2. /\ state \in PollStates /\ state.phase = poll[p].phase /\ state.cfg = poll[p].cfg
      /\ state.trays = poll[p].trays /\ state.reading = poll[p].reading
      /\ state.todo = poll[p].todo \ {s}
  BY <1>1 DEF PollStates
<1> HIDE DEF state
<1> QED BY <1>1, <1>2 DEF Becomes, LiveTyped

LEMMA CaptureEffect ==
  ASSUME LiveTyped, CaptureBatch
  PROVE  /\ poll' \in [Printers -> PollStates]
         /\ \A p \in Printers :
              \/ poll'[p] = Idle
              \/ /\ config[p] # Off /\ poll'[p].phase = "captured" /\ poll'[p].cfg = config[p]
                 /\ poll'[p].trays = seen /\ poll'[p].reading = reading[p]
                 /\ poll'[p].todo = {}
<1> DEFINE state(p) == [Idle EXCEPT !.phase = "captured", !.cfg = config[p], !.trays = seen,
                                    !.reading = reading[p]]
<1>1. poll' = [p \in Printers |-> IF config[p] = Off THEN Idle ELSE state(p)]
  BY DEF CaptureBatch
<1>2. ASSUME NEW p \in Printers
      PROVE  /\ state(p) \in PollStates /\ state(p).phase = "captured"
             /\ state(p).cfg = config[p] /\ state(p).trays = seen
             /\ state(p).reading = reading[p] /\ state(p).todo = {}
  <2>1. config[p] \in PollBindings \cup {Off} /\ seen \in [Slots -> Readings]
        /\ reading[p] \in BOOLEAN
    BY DEF LiveTyped
  <2>2. Idle \in PollStates /\ Idle.todo = {}
    BY IdleIs
  <2> QED BY <2>1, <2>2 DEF PollStates, PollPhases
<1> HIDE DEF state
<1> QED BY <1>1, <1>2, IdleIs

-----------------------------------------------------------------------------
LEMMA LimitIs ==
  ASSUME LiveTyped
  PROVE  /\ limit.time \in 1..MaxTime /\ limit.slots \subseteq Slots
         /\ limit.about \subseteq Tagged \cup Plain \cup Strangers
<1>1. limit \in [time : 1..MaxTime, hands : BOOLEAN, changes : Nat, faults : Nat,
                 slots : SUBSET Slots, about : SUBSET (Tagged \cup Plain \cup Strangers)]
  BY DEF LiveTyped
<1> QED BY <1>1

LEMMA OverviewIs ==
  /\ over \in Overviews =>
       /\ over.slot \in [Slots -> Rolls \cup {Empty}] /\ over.cleared \in [Slots -> 0..MaxTime]
       /\ over.override \in [Slots -> BOOLEAN]
  /\ \A a \in [Slots -> Rolls \cup {Empty}], b \in [Slots -> 0..MaxTime],
        c \in [Slots -> BOOLEAN] :
       [slot |-> a, cleared |-> b, override |-> c] \in Overviews
  /\ Unread \in Overviews
  BY DEF Overviews, Unread

LEMMA AsofIs ==
  ASSUME LiveTyped
  PROVE  asof.gen \in Nat /\ asof.profile \in Nat /\ asof.epoch \in Nat
  BY DEF LiveTyped

LEMMA InitLiveInv == LiveInit => LiveInv
<1> SUFFICES ASSUME LiveInit PROVE LiveInv
  OBVIOUS
<1>1. config \in [Printers -> PollBindings \cup {Off}]
  <2>1. PollBindings # {}
    <3>1. PICK h \in Hosts, c \in AccessCodes : TRUE
      OBVIOUS
    <3>2. [host |-> h, code |-> c] \in PollBindings
      BY DEF PollBindings
    <3> QED BY <3>2
  <2> QED BY <2>1 DEF LiveInit
<1>2. asof \in [gen : Nat, profile : Nat, epoch : Nat]
      /\ asof.gen = 0 /\ asof.profile = 0 /\ asof.epoch = 0
  BY DEF LiveInit
<1>3. /\ poll \in [Printers -> PollStates] /\ over \in Overviews
      /\ seen \in [Slots -> Readings]
  BY IdleIs, UnseenIs, OverviewIs DEF LiveInit
<1>4. LiveTyped
  BY <1>1, <1>2, <1>3 DEF LiveInit, LiveTyped
<1>5. PollsGated
  BY IdleIs DEF LiveInit, PollsGated
<1>6. ObservedIsOwn
  BY DEF LiveInit, ObservedIsOwn
<1>7. Meant /\ Passing
  BY <1>2 DEF LiveInit, Meant, Passing
<1>8. AllDated
  BY IdleIs, UnseenIs DEF LiveInit, AllDated
<1>9. NoneOlder
  BY IdleIs, UnseenIs DEF LiveInit, NoneOlder, Newer
<1> QED BY <1>4, <1>5, <1>6, <1>7, <1>8, <1>9 DEF LiveInv

-----------------------------------------------------------------------------
\* What the steps do to the slots.

LEMMA AssignEffect ==
  ASSUME LiveTyped, NEW s \in Slots, NEW roll \in Rolls \cup {Empty},
         NEW flagged \in BOOLEAN, NEW overridden \in BOOLEAN,
         Assign(s, roll, flagged, overridden)
  PROVE  /\ slot' \in [Slots -> Rolls \cup {Empty}] /\ cleared' \in [Slots -> 0..MaxTime]
         /\ override' \in [Slots -> BOOLEAN] /\ slot'[s] = roll
         /\ cleared'[s] = IF flagged THEN now ELSE 0
         /\ \A x \in Slots \ {s} :
              /\ cleared'[x] = cleared[x]
              /\ slot'[x] = IF roll # Empty /\ slot[x] = roll THEN Empty ELSE slot[x]
<1>1. now \in 0..MaxTime /\ 0 \in 0..MaxTime /\ Empty \in Rolls \cup {Empty}
  BY DEF LiveTyped
<1> QED BY <1>1 DEF Assign, LiveTyped

\* A pass applies one tray: nothing, or an assignment for one of three reasons.
Applies(p, s, roll) ==
  LET t == poll[p].trays[s] IN
  /\ Assign(s, roll, FALSE, FALSE)
  /\ \/ Empties(s, t) /\ over.slot[s] # Empty /\ roll = Empty
     \/ Suggests(s, t) /\ roll \in Candidates
     \/ Places(s, t) /\ roll = t.look

LEMMA CandidatesAre ==
  ASSUME NEW roll \in Candidates
  PROVE  roll \in Plain /\ \A x \in Slots : slot[x] # roll
  BY DEF Candidates, InStock

LEMMA RollsAre ==
  /\ Tagged \subseteq Rolls /\ Plain \subseteq Rolls
  /\ \A r \in Tagged : r \notin Plain /\ r # Empty /\ r # Unknown /\ r # Bare
  /\ \A r \in Plain : r \notin Tagged /\ r # Empty
  BY DEF Rolls

LEMMA ApplySlots ==
  ASSUME LiveTyped, NEW p \in Printers, NEW s \in Slots, ApplyTray(p, s)
  PROVE  \/ /\ UNCHANGED library
            /\ LET t == poll[p].trays[s] IN
               ~(Empties(s, t) /\ over.slot[s] # Empty) /\ ~Suggests(s, t) /\ ~Places(s, t)
         \/ \E roll \in Rolls \cup {Empty} : Applies(p, s, roll)
<1> DEFINE t == poll[p].trays[s]
<1>1. CASE Empties(s, t) /\ over.slot[s] # Empty /\ Assign(s, Empty, FALSE, FALSE)
  BY <1>1 DEF Applies
<1>2. ASSUME Suggests(s, t), NEW roll \in Candidates, Assign(s, roll, FALSE, FALSE)
      PROVE  roll \in Rolls /\ Applies(p, s, roll)
  BY <1>2, CandidatesAre, RollsAre DEF Applies
<1>3. CASE Places(s, t) /\ Assign(s, t.look, FALSE, FALSE)
  <2>1. t.look \in Rolls
    BY <1>3, RollsAre DEF Places, Exact
  <2> QED BY <1>3, <2>1 DEF Applies
<1> QED BY <1>1, <1>2, <1>3 DEF ApplyTray

LEMMA AppliesTypes ==
  ASSUME LiveTyped, NEW p \in Printers, NEW s \in Slots, ApplyTray(p, s)
  PROVE  /\ slot' \in [Slots -> Rolls \cup {Empty}] /\ cleared' \in [Slots -> 0..MaxTime]
         /\ override' \in [Slots -> BOOLEAN]
         /\ \A x \in Slots \ {s} : cleared'[x] = cleared[x]
         /\ cleared'[s] \in {cleared[s], 0}
<1>1. CASE UNCHANGED library
  BY <1>1 DEF library, LiveTyped
<1>2. ASSUME NEW roll \in Rolls \cup {Empty}, Applies(p, s, roll)
      PROVE  /\ slot' \in [Slots -> Rolls \cup {Empty}] /\ cleared' \in [Slots -> 0..MaxTime]
             /\ override' \in [Slots -> BOOLEAN]
             /\ \A x \in Slots \ {s} : cleared'[x] = cleared[x]
             /\ cleared'[s] \in {cleared[s], 0}
  BY <1>2, AssignEffect DEF Applies
<1> QED BY <1>1, <1>2, ApplySlots

LEMMA UserAssignsEffect ==
  ASSUME LiveTyped, NEW s \in Slots, NEW roll \in (limit.about \cap Rolls) \cup {Empty},
         NEW asked \in BOOLEAN, UserAssigns(s, roll, asked)
  PROVE  /\ slot' \in [Slots -> Rolls \cup {Empty}] /\ cleared' \in [Slots -> 0..MaxTime]
         /\ override' \in [Slots -> BOOLEAN] /\ manual' \in [Slots -> 0..MaxTime]
         /\ cleared'[s] \in {now, 0} /\ manual'[s] = cleared'[s]
         /\ \A x \in Slots \ {s} : cleared'[x] = cleared[x] /\ manual'[x] = manual[x]
<1>1. /\ Flags(s, roll, asked) \in BOOLEAN /\ Overrides(s, roll) \in BOOLEAN
      /\ roll \in Rolls \cup {Empty}
      /\ Assign(s, roll, Flags(s, roll, asked), Overrides(s, roll))
  BY DEF Flags, Overrides, UserAssigns
<1> DEFINE flagged == Flags(s, roll, asked)
           overridden == Overrides(s, roll)
<1>2. flagged \in BOOLEAN /\ overridden \in BOOLEAN /\ Assign(s, roll, flagged, overridden)
  BY <1>1
<1> HIDE DEF flagged, overridden
<1>3. /\ slot' \in [Slots -> Rolls \cup {Empty}] /\ cleared' \in [Slots -> 0..MaxTime]
      /\ override' \in [Slots -> BOOLEAN] /\ cleared'[s] \in {now, 0}
      /\ \A x \in Slots \ {s} : cleared'[x] = cleared[x]
  BY <1>1, <1>2, AssignEffect
<1>4. manual' = [manual EXCEPT ![s] = cleared'[s]] /\ manual \in [Slots -> 0..MaxTime]
  BY DEF UserAssigns, LiveTyped
<1> QED BY <1>3, <1>4

LEMMA BindingIs ==
  /\ \A b \in PollBindings \cup {Off} : b.host \in Hosts \cup {Off.host}
  /\ \A b \in PollBindings, h \in Hosts :
       [b EXCEPT !.host = h] \in PollBindings /\ [b EXCEPT !.host = h].host = h
  BY DEF PollBindings

LEMMA SaveEffect ==
  ASSUME LiveTyped, NEW p \in Printers, Save(p)
  PROVE  /\ seen' \in [Slots -> Readings] /\ reading' \in [Printers -> BOOLEAN]
         /\ from' \in [Printers -> Hosts \cup {Off.host}] /\ from'[p] = poll[p].cfg.host
         /\ \A q \in Printers : q # p => from'[q] = from[q]
         /\ \A s \in Slots : seen'[s] = IF PrinterOf[s] = p THEN poll[p].trays[s] ELSE seen[s]
<1>1. poll[p].cfg.host \in Hosts \cup {Off.host}
  BY PollIs, BindingIs
<1>2. poll[p].trays \in [Slots -> Readings] /\ poll[p].reading \in BOOLEAN
  BY PollIs
<1> QED BY <1>1, <1>2 DEF Save, LiveTyped, Mine

LEMMA ForgetEffect ==
  ASSUME LiveTyped, NEW p \in Printers, Forget(p)
  PROVE  /\ seen' \in [Slots -> Readings] /\ reading' \in [Printers -> BOOLEAN]
         /\ from' \in [Printers -> Hosts \cup {Off.host}]
         /\ \A q \in Printers : q # p => from'[q] = from[q]
         /\ \A s \in Slots : seen'[s] = IF PrinterOf[s] = p THEN Unseen ELSE seen[s]
  BY UnseenIs DEF Forget, LiveTyped, Mine

LEMMA FaultEffect ==
  ASSUME LiveTyped, NEW lost \in SUBSET Printers, Fault(lost)
  PROVE  /\ poll' \in [Printers -> PollStates]
         /\ \A p \in Printers : poll'[p] = IF p \in lost THEN Idle ELSE poll[p]
  BY IdleIs DEF Fault, LiveTyped

LEMMA RecoverEffect ==
  ASSUME LiveTyped, NEW p \in Printers, NEW host \in Hosts, Recover(p, host)
  PROVE  /\ config' \in [Printers -> PollBindings \cup {Off}]
         /\ \A q \in Printers : q # p => config'[q] = config[q]
<1>1. config[p] \in PollBindings
  BY DEF Recover, LiveTyped
<1>2. [config[p] EXCEPT !.host = host] \in PollBindings
  BY <1>1, BindingIs
<1> QED BY <1>2 DEF Recover, LiveTyped

LEMMA BecomesTyped ==
  ASSUME NEW p \in Printers, NEW phase, NEW cfg, NEW trays, NEW busy, NEW todo,
         Becomes(p, phase, cfg, trays, busy, todo)
  PROVE  poll' \in [Printers -> PollStates]
  BY DEF Becomes

-----------------------------------------------------------------------------
\* The steps, each by its own name.

LiveStep ==
  \/ CaptureBatch
  \/ \E p \in Printers : \E fresh \in SUBSET Mine(p), heartbeat, busy \in BOOLEAN :
       Observe(p, fresh, heartbeat, busy)
  \/ \E p \in Printers : NoAnswer(p)
  \/ \E p \in Printers : Enter(p)
  \/ \E p \in Printers : Persist(p)
  \/ \E p \in Printers : Offline(p)
  \/ \E p \in Printers, s \in Slots : PrinterOf[s] = p /\ ApplyTray(p, s)
  \/ \E p \in Printers, host \in Hosts : Recover(p, host)
  \/ Tick
  \/ \E s \in limit.slots, c \in (limit.about \ Plain) \cup {Empty} : Load(s, c)
  \/ \E s \in Slots, r \in (limit.about \cap Rolls) \cup {Empty}, asked \in BOOLEAN :
       UserAssigns(s, r, asked)
  \/ \E p \in Printers, b \in PollBindings \cup {Off} : Configure(p, b)
  \/ SwitchRole
  \/ Restore
  \/ \E lost \in SUBSET Printers : Fault(lost)

LEMMA Steps ==
  ASSUME LiveTyped, LiveNext
  PROVE  LiveStep
<1>1. CASE CaptureBatch
  BY <1>1 DEF LiveStep
<1>2. ASSUME NEW p \in Printers, Polls(p) PROVE LiveStep
  BY <1>2 DEF Polls, LiveStep, Mine
<1>3. CASE Tick
  BY <1>3 DEF LiveStep
<1>4. CASE Users
  <2>1. limit.slots \subseteq Slots
    BY LimitIs
  <2> QED BY <1>4, <2>1 DEF Users, LiveStep
<1>5. CASE CrashAll
  BY <1>5 DEF CrashAll, LiveStep
<1>6. ASSUME NEW p \in Printers, Fail(p) PROVE LiveStep
  <2>1. {p} \in SUBSET Printers /\ Fault({p})
    BY <1>6 DEF Fail
  <2> QED BY <2>1 DEF LiveStep
<1> QED BY <1>1, <1>2, <1>3, <1>4, <1>5, <1>6 DEF LiveNext

LEMMA NextTyped ==
  ASSUME LiveTyped, [LiveNext]_liveVars
  PROVE  LiveTyped'
<1>1. CASE CaptureBatch
  <2>1. poll' \in [Printers -> PollStates]
    BY <1>1, CaptureEffect
  <2>2. asof' \in [gen : Nat, profile : Nat, epoch : Nat]
    BY <1>1 DEF CaptureBatch, LiveTyped
  <2> QED BY <1>1, <2>1, <2>2 DEF CaptureBatch, LiveTyped, library, saved, authority
<1>2. ASSUME NEW p \in Printers, NEW fresh \in SUBSET Mine(p), NEW heartbeat \in BOOLEAN,
             NEW busy \in BOOLEAN, Observe(p, fresh, heartbeat, busy)
      PROVE  LiveTyped'
  <2>1. poll' \in [Printers -> PollStates]
    BY <1>2, ObserveEffect, BecomesTyped
  <2> QED BY <1>2, <2>1 DEF Observe, LiveTyped, library, saved, authority
<1>3. ASSUME NEW p \in Printers, NoAnswer(p) PROVE LiveTyped'
  <2>1. poll' \in [Printers -> PollStates]
    BY <1>3, NoAnswerEffect, BecomesTyped
  <2> QED BY <1>3, <2>1 DEF NoAnswer, LiveTyped, library, saved, authority
<1>4. ASSUME NEW p \in Printers, Enter(p) PROVE LiveTyped'
  <2>1. CASE Current
    <3>1. poll' \in [Printers -> PollStates]
      BY <1>4, <2>1, EnterEffect, BecomesTyped
    <3>2. over' \in Overviews /\ gate' = p
      BY <1>4, <2>1, OverviewIs DEF Enter, LiveTyped
    <3> QED BY <1>4, <3>1, <3>2 DEF Enter, LiveTyped, library, saved, authority
  <2>2. CASE ~Current
    <3>1. poll' = [poll EXCEPT ![p] = Idle] /\ UNCHANGED <<gate, over>>
      BY <1>4, <2>2 DEF Enter
    <3>2. poll' \in [Printers -> PollStates]
      BY <3>1, IdleBecomes, BecomesTyped
    <3> QED BY <1>4, <3>1, <3>2 DEF Enter, LiveTyped, library, saved, authority
  <2> QED BY <2>1, <2>2
<1>5. ASSUME NEW p \in Printers, Persist(p) PROVE LiveTyped'
  <2>1. poll' \in [Printers -> PollStates]
    BY <1>5, IdleBecomes, BecomesTyped DEF Persist
  <2>2. /\ seen' \in [Slots -> Readings] /\ reading' \in [Printers -> BOOLEAN]
        /\ from' \in [Printers -> Hosts \cup {Off.host}]
    BY <1>5, SaveEffect DEF Persist, LiveTyped
  <2> QED BY <1>5, <2>1, <2>2, OverviewIs
          DEF Persist, Releases, LiveTyped, library, authority
<1>6. ASSUME NEW p \in Printers, Offline(p) PROVE LiveTyped'
  <2>1. poll' \in [Printers -> PollStates]
    BY <1>6, IdleBecomes, BecomesTyped DEF Offline
  <2>2. /\ seen' \in [Slots -> Readings] /\ reading' \in [Printers -> BOOLEAN]
        /\ from' \in [Printers -> Hosts \cup {Off.host}]
    BY <1>6, SaveEffect DEF Offline, LiveTyped
  <2> QED BY <1>6, <2>1, <2>2 DEF Offline, LiveTyped, library, authority
<1>7. ASSUME NEW p \in Printers, NEW s \in Slots, ApplyTray(p, s) PROVE LiveTyped'
  <2>1. poll' \in [Printers -> PollStates]
    BY <1>7, ApplyEffect, BecomesTyped
  <2>2. /\ slot' \in [Slots -> Rolls \cup {Empty}] /\ cleared' \in [Slots -> 0..MaxTime]
        /\ override' \in [Slots -> BOOLEAN]
    BY <1>7, AppliesTypes
  <2>3. UNCHANGED <<now, tray, saved, authority, asof, over, gate, manual, limit, edits,
                    errors>>
    BY <1>7 DEF ApplyTray
  <2> QED BY <2>1, <2>2, <2>3 DEF LiveTyped, saved, authority
<1>8. ASSUME NEW p \in Printers, NEW host \in Hosts, Recover(p, host) PROVE LiveTyped'
  <2>1. poll' \in [Printers -> PollStates] /\ Forget(p)
    BY <1>8, IdleBecomes, BecomesTyped DEF Recover
  <2>2. /\ seen' \in [Slots -> Readings] /\ reading' \in [Printers -> BOOLEAN]
        /\ from' \in [Printers -> Hosts \cup {Off.host}]
    BY <2>1, ForgetEffect
  <2>3. config' \in [Printers -> PollBindings \cup {Off}]
    BY <1>8, RecoverEffect
  <2> QED BY <1>8, <2>1, <2>2, <2>3 DEF Recover, LiveTyped, library, authority
<1>9. CASE Tick
  <2>1. now < limit.time /\ limit.time \in 1..MaxTime /\ now' = now + 1
    BY <1>9, LimitIs DEF Tick
  <2> QED BY <1>9, <2>1 DEF Tick, LiveTyped, library, saved, authority
<1>10. ASSUME NEW s \in limit.slots, NEW c \in (limit.about \ Plain) \cup {Empty}, Load(s, c)
       PROVE  LiveTyped'
  <2>1. c \in Identified \cup {Bare, Empty}
    BY LimitIs DEF Identified
  <2>2. tray' \in [Slots -> Identified \cup {Bare, Empty}]
    BY <1>10, <2>1, LimitIs DEF Load, LiveTyped
  <2> QED BY <1>10, <2>2 DEF Load, LiveTyped, library, saved, authority
<1>11. ASSUME NEW s \in Slots, NEW r \in (limit.about \cap Rolls) \cup {Empty},
              NEW asked \in BOOLEAN, UserAssigns(s, r, asked)
       PROVE  LiveTyped'
  <2>1. /\ slot' \in [Slots -> Rolls \cup {Empty}] /\ cleared' \in [Slots -> 0..MaxTime]
        /\ override' \in [Slots -> BOOLEAN] /\ manual' \in [Slots -> 0..MaxTime]
    BY <1>11, UserAssignsEffect
  <2> QED BY <1>11, <2>1 DEF UserAssigns, LiveTyped, saved, authority
<1>12. ASSUME NEW p \in Printers, NEW b \in PollBindings \cup {Off}, Configure(p, b)
       PROVE  LiveTyped'
  <2>1. /\ seen' \in [Slots -> Readings] /\ reading' \in [Printers -> BOOLEAN]
        /\ from' \in [Printers -> Hosts \cup {Off.host}]
    BY <1>12, ForgetEffect DEF Configure, LiveTyped
  <2>2. config' \in [Printers -> PollBindings \cup {Off}]
    BY <1>12 DEF Configure, LiveTyped
  <2>3. edits' = edits + 1 /\ UNCHANGED <<now, tray, library, authority, asof, poll, over, gate,
                                          manual, limit, errors>>
    BY <1>12 DEF Configure
  <2> QED BY <2>1, <2>2, <2>3 DEF LiveTyped, library, authority
<1>13. CASE SwitchRole
  BY <1>13 DEF SwitchRole, LiveTyped, library, saved
<1>14. CASE Restore
  BY <1>14, UnseenIs DEF Restore, LiveTyped
<1>15. ASSUME NEW lost \in SUBSET Printers, Fault(lost) PROVE LiveTyped'
  <2>1. poll' \in [Printers -> PollStates]
    BY <1>15, FaultEffect
  <2> QED BY <1>15, <2>1, OverviewIs DEF Fault, Releases, LiveTyped, library, saved, authority
<1>16. CASE UNCHANGED liveVars
  BY <1>16 DEF liveVars, LiveTyped, library, saved, authority
<1> QED BY Steps, <1>1, <1>2, <1>3, <1>4, <1>5, <1>6, <1>7, <1>8, <1>9, <1>10, <1>11, <1>12,
           <1>13, <1>14, <1>15, <1>16 DEF LiveStep

-----------------------------------------------------------------------------
\* One lemma for each part of the invariant.

LEMMA PollsGatedBecomes ==
  ASSUME LiveTyped, PollsGated, NEW p \in Printers, NEW phase, NEW cfg, NEW trays, NEW busy,
         NEW todo, Becomes(p, phase, cfg, trays, busy, todo),
         phase # "idle" => cfg # Off, todo \subseteq Mine(p),
         gate' = p <=> phase = "applying",
         \A q \in Printers : q # p => (gate' = q <=> gate = q)
  PROVE  PollsGated'
<1> SUFFICES ASSUME NEW q \in Printers
             PROVE  /\ gate' = q <=> poll'[q].phase = "applying"
                    /\ poll'[q].todo \subseteq Mine(q)
                    /\ poll'[q].phase # "idle" => poll'[q].cfg # Off
  BY DEF PollsGated, Mine
<1>1. CASE q = p
  BY <1>1 DEF Becomes
<1>2. CASE q # p
  BY <1>2 DEF Becomes, PollsGated
<1> QED BY <1>1, <1>2

LEMMA PollsGatedNext ==
  ASSUME LiveTyped, PollsGated, [LiveNext]_liveVars
  PROVE  PollsGated'
<1> DEFINE none == [s \in Slots |-> Unseen]
<1>0. UNCHANGED <<poll, gate>> => PollsGated'
  BY DEF PollsGated, Mine
<1>1. CASE CaptureBatch
  <2> SUFFICES ASSUME NEW q \in Printers
               PROVE  /\ gate' = q <=> poll'[q].phase = "applying"
                      /\ poll'[q].todo \subseteq Mine(q)
                      /\ poll'[q].phase # "idle" => poll'[q].cfg # Off
    BY DEF PollsGated, Mine
  <2>1. gate' = "free" /\ gate' # q
    BY <1>1 DEF CaptureBatch
  <2> QED BY <1>1, <2>1, CaptureEffect, IdleIs
<1>2. ASSUME NEW p \in Printers, NEW fresh \in SUBSET Mine(p), NEW heartbeat \in BOOLEAN,
             NEW busy \in BOOLEAN, Observe(p, fresh, heartbeat, busy)
      PROVE  PollsGated'
  <2>1. PICK trays \in [Slots -> Readings] :
          Becomes(p, "answered", poll[p].cfg, trays, busy, poll[p].todo)
    BY <1>2, ObserveEffect
  <2>2. gate' = gate /\ poll[p].phase = "captured"
    BY <1>2 DEF Observe
  <2>3. poll[p].cfg # Off /\ poll[p].todo \subseteq Mine(p) /\ gate # p
    BY <2>2 DEF PollsGated
  <2> QED BY <2>1, <2>2, <2>3, PollsGatedBecomes
<1>3. ASSUME NEW p \in Printers, NoAnswer(p) PROVE PollsGated'
  <2>1. Becomes(p, "failed", poll[p].cfg, poll[p].trays, poll[p].reading, poll[p].todo)
    BY <1>3, NoAnswerEffect
  <2>2. gate' = gate /\ poll[p].phase = "captured"
    BY <1>3 DEF NoAnswer
  <2>3. poll[p].cfg # Off /\ poll[p].todo \subseteq Mine(p) /\ gate # p
    BY <2>2 DEF PollsGated
  <2> QED BY <2>1, <2>2, <2>3, PollsGatedBecomes
<1>4. ASSUME NEW p \in Printers, poll' = [poll EXCEPT ![p] = Idle], gate' = "free",
             gate \in {p, "free"}
      PROVE  PollsGated'
  <2>1. Becomes(p, "idle", Off, none, FALSE, {})
    BY <1>4, IdleBecomes
  <2>2. gate' # p /\ \A q \in Printers : q # p => gate' # q /\ gate # q
    BY <1>4
  <2> QED BY <2>1, <2>2, PollsGatedBecomes
<1>5. ASSUME NEW p \in Printers, Enter(p) PROVE PollsGated'
  <2>1. CASE Current
    <3>1. Becomes(p, "applying", poll[p].cfg, poll[p].trays, poll[p].reading, Trays(p))
      BY <1>5, <2>1, EnterEffect
    <3>2. gate = "free" /\ gate' = p /\ poll[p].cfg # Off
      BY <1>5, <2>1 DEF Enter, PollsGated
    <3>3. Trays(p) \subseteq Mine(p)
      BY DEF Trays
    <3>4. \A q \in Printers : q # p => (gate' = q <=> gate = q)
      BY <3>2
    <3> QED BY <3>1, <3>2, <3>3, <3>4, PollsGatedBecomes
  <2>2. CASE ~Current
    BY <1>5, <2>2, <1>4 DEF Enter
  <2> QED BY <2>1, <2>2
<1>6. ASSUME NEW p \in Printers, Persist(p) PROVE PollsGated'
  BY <1>6, <1>4 DEF Persist, Releases
<1>7. ASSUME NEW p \in Printers, Offline(p) PROVE PollsGated'
  BY <1>7, <1>4 DEF Offline
<1>8. ASSUME NEW p \in Printers, NEW host \in Hosts, Recover(p, host) PROVE PollsGated'
  BY <1>8, <1>4 DEF Recover
<1>9. ASSUME NEW p \in Printers, NEW s \in Slots, ApplyTray(p, s) PROVE PollsGated'
  <2>1. Becomes(p, poll[p].phase, poll[p].cfg, poll[p].trays, poll[p].reading,
                poll[p].todo \ {s})
    BY <1>9, ApplyEffect
  <2>2. gate' = gate /\ gate = p
    BY <1>9 DEF ApplyTray
  <2>3. poll[p].cfg # Off /\ poll[p].todo \ {s} \subseteq Mine(p)
        /\ poll[p].phase = "applying"
    BY <2>2 DEF PollsGated
  <2> QED BY <2>1, <2>2, <2>3, PollsGatedBecomes
<1>10. ASSUME NEW lost \in SUBSET Printers, Fault(lost) PROVE PollsGated'
  <2> SUFFICES ASSUME NEW q \in Printers
               PROVE  /\ gate' = q <=> poll'[q].phase = "applying"
                      /\ poll'[q].todo \subseteq Mine(q)
                      /\ poll'[q].phase # "idle" => poll'[q].cfg # Off
    BY DEF PollsGated, Mine
  <2>1. gate' = "free" /\ gate' # q /\ (poll[q].phase = "applying" => q \in lost)
    BY <1>10 DEF Fault, Releases
  <2>2. poll'[q] = IF q \in lost THEN Idle ELSE poll[q]
    BY <1>10, FaultEffect
  <2> QED BY <2>1, <2>2, IdleIs DEF PollsGated
<1>11. Tick \/ SwitchRole \/ Restore => UNCHANGED <<poll, gate>>
  BY DEF Tick, SwitchRole, Restore
<1>12. ASSUME NEW s \in limit.slots, NEW c, Load(s, c) PROVE UNCHANGED <<poll, gate>>
  BY <1>12 DEF Load
<1>13. ASSUME NEW s \in Slots, NEW r, NEW asked, UserAssigns(s, r, asked)
       PROVE  UNCHANGED <<poll, gate>>
  BY <1>13 DEF UserAssigns
<1>14. ASSUME NEW p \in Printers, NEW b, Configure(p, b) PROVE UNCHANGED <<poll, gate>>
  BY <1>14 DEF Configure
<1>15. CASE UNCHANGED liveVars
  BY <1>15, <1>0 DEF liveVars
<1> QED BY Steps, <1>0, <1>1, <1>2, <1>3, <1>5, <1>6, <1>7, <1>8, <1>9, <1>10, <1>11, <1>12,
           <1>13, <1>14, <1>15 DEF LiveStep

\* Where reports, configurations and addresses stay, the reports are still their own.
LEMMA ObservedIsOwnNext ==
  ASSUME LiveTyped, PollsGated, ObservedIsOwn, [LiveNext]_liveVars
  PROVE  ObservedIsOwn'
<1>0. UNCHANGED <<config, seen, from>> => ObservedIsOwn'
  BY DEF ObservedIsOwn
<1>1. ASSUME NEW p \in Printers, Save(p), SamePollBinding(p), poll[p].phase # "idle",
             config' = config
      PROVE  ObservedIsOwn'
  <2> SUFFICES ASSUME NEW s \in Slots, seen'[s] # Unseen
               PROVE  config'[PrinterOf[s]] # Off
                      /\ from'[PrinterOf[s]] = config'[PrinterOf[s]].host
    BY DEF ObservedIsOwn
  <2>1. CASE PrinterOf[s] = p
    BY <1>1, <2>1, SaveEffect DEF SamePollBinding, PollsGated
  <2>2. CASE PrinterOf[s] # p
    BY <1>1, <2>2, SaveEffect DEF ObservedIsOwn
  <2> QED BY <2>1, <2>2
<1>2. ASSUME NEW p \in Printers, Forget(p),
             \A q \in Printers : q # p => config'[q] = config[q]
      PROVE  ObservedIsOwn'
  <2> SUFFICES ASSUME NEW s \in Slots, seen'[s] # Unseen
               PROVE  config'[PrinterOf[s]] # Off
                      /\ from'[PrinterOf[s]] = config'[PrinterOf[s]].host
    BY DEF ObservedIsOwn
  <2>1. PrinterOf[s] # p /\ PrinterOf[s] \in Printers
    BY <1>2, ForgetEffect
  <2> QED BY <1>2, <2>1, ForgetEffect DEF ObservedIsOwn
<1>3. ASSUME NEW p \in Printers, Persist(p) PROVE ObservedIsOwn'
  <2>1. poll[p].phase # "idle" /\ config' = config
    BY <1>3 DEF Persist, PollsGated
  <2> QED BY <1>0, <1>1, <1>3, <2>1 DEF Persist
<1>4. ASSUME NEW p \in Printers, Offline(p) PROVE ObservedIsOwn'
  <2>1. poll[p].phase # "idle" /\ config' = config
    BY <1>4 DEF Offline
  <2> QED BY <1>0, <1>1, <1>4, <2>1 DEF Offline
<1>5. ASSUME NEW p \in Printers, NEW host \in Hosts, Recover(p, host) PROVE ObservedIsOwn'
  BY <1>2, <1>5, RecoverEffect DEF Recover
<1>6. ASSUME NEW p \in Printers, NEW b \in PollBindings \cup {Off}, Configure(p, b)
      PROVE  ObservedIsOwn'
  <2>1. /\ config' = [config EXCEPT ![p] = b] /\ config \in [Printers -> PollBindings \cup {Off}]
        /\ config'[p] = b /\ \A q \in Printers : q # p => config'[q] = config[q]
    BY <1>6 DEF Configure, LiveTyped
  <2>2. CASE Forget(p)
    BY <1>2, <2>1, <2>2
  <2>3. CASE /\ b # Off /\ config[p] # Off /\ b.host = config[p].host
             /\ UNCHANGED <<seen, reading, from>>
    <3> SUFFICES ASSUME NEW s \in Slots, seen'[s] # Unseen
                 PROVE  config'[PrinterOf[s]] # Off
                        /\ from'[PrinterOf[s]] = config'[PrinterOf[s]].host
      BY DEF ObservedIsOwn
    <3> QED BY <2>1, <2>3 DEF ObservedIsOwn
  <2> QED BY <1>6, <2>2, <2>3 DEF Configure
<1>7. CASE Restore
  BY <1>7 DEF Restore, ObservedIsOwn
<1>8. CASE CaptureBatch \/ Tick \/ SwitchRole
  BY <1>0, <1>8 DEF CaptureBatch, Tick, SwitchRole, saved
<1>9. ASSUME NEW p \in Printers, NEW fresh, NEW heartbeat, NEW busy,
             Observe(p, fresh, heartbeat, busy)
      PROVE  ObservedIsOwn'
  BY <1>0, <1>9 DEF Observe, saved
<1>10. ASSUME NEW p \in Printers, NoAnswer(p) \/ Enter(p) PROVE ObservedIsOwn'
  BY <1>0, <1>10 DEF NoAnswer, Enter, saved
<1>11. ASSUME NEW p \in Printers, NEW s \in Slots, ApplyTray(p, s) PROVE ObservedIsOwn'
  <2>1. UNCHANGED saved
    BY <1>11 DEF ApplyTray
  <2> QED BY <1>0, <2>1 DEF saved
<1>12. ASSUME NEW s \in limit.slots, NEW c, Load(s, c) PROVE ObservedIsOwn'
  BY <1>0, <1>12 DEF Load, saved
<1>13. ASSUME NEW s \in Slots, NEW r, NEW asked, UserAssigns(s, r, asked)
       PROVE  ObservedIsOwn'
  BY <1>0, <1>13 DEF UserAssigns, saved
<1>14. ASSUME NEW lost \in SUBSET Printers, Fault(lost) PROVE ObservedIsOwn'
  BY <1>0, <1>14 DEF Fault, saved
<1>15. CASE UNCHANGED liveVars
  BY <1>0, <1>15 DEF liveVars, saved
<1> QED BY Steps, <1>3, <1>4, <1>5, <1>6, <1>7, <1>8, <1>9, <1>10, <1>11, <1>12,
           <1>13, <1>14, <1>15 DEF LiveStep

\* The authority changes only where nothing is at the gate, and grows.
LEMMA MeantNext ==
  ASSUME LiveTyped, Meant, [LiveNext]_liveVars
  PROVE  Meant'
<1>0. ASSUME UNCHANGED <<asof, authority>>, gate' \in {gate, "free"}
      PROVE  Meant'
  BY <1>0 DEF Meant, authority
<1>1. CASE CaptureBatch
  <2>1. /\ asof'.gen = gen /\ asof'.profile = profile /\ asof'.epoch = epoch /\ gate' = "free"
        /\ UNCHANGED authority
    BY <1>1 DEF CaptureBatch
  <2>2. gen \in Nat /\ profile \in Nat
    BY DEF LiveTyped
  <2> QED BY <2>1, <2>2 DEF Meant, authority
<1>2. CASE SwitchRole
  <2>1. /\ gen' = gen + 1 /\ epoch' = epoch + 1 /\ profile' = profile
        /\ asof' = asof /\ gate' = "free"
    BY <1>2 DEF SwitchRole
  <2>2. gen \in Nat /\ asof.gen \in Nat
    BY AsofIs DEF LiveTyped
  <2> QED BY <2>1, <2>2 DEF Meant
<1>3. CASE Restore
  <2>1. profile' = profile + 1 /\ asof' = asof /\ gate' = "free"
    BY <1>3 DEF Restore
  <2>2. profile \in Nat /\ asof.profile \in Nat
    BY AsofIs DEF LiveTyped
  <2> QED BY <2>1, <2>2 DEF Meant
<1>4. ASSUME NEW p \in Printers, Enter(p) PROVE Meant'
  <2>1. CASE Current
    <3>1. UNCHANGED <<asof, authority>>
      BY <1>4 DEF Enter
    <3> QED BY <2>1, <3>1 DEF Current, Meant, authority
  <2>2. CASE ~Current
    BY <1>0, <1>4, <2>2 DEF Enter
  <2> QED BY <2>1, <2>2
<1>5. CASE Tick
  BY <1>0, <1>5 DEF Tick
<1>6. ASSUME NEW p \in Printers, NEW fresh, NEW heartbeat, NEW busy,
             Observe(p, fresh, heartbeat, busy)
      PROVE  Meant'
  BY <1>0, <1>6 DEF Observe
<1>7. ASSUME NEW p \in Printers, NoAnswer(p) \/ Persist(p) \/ Offline(p) PROVE Meant'
  BY <1>0, <1>7 DEF NoAnswer, Persist, Offline, Releases
<1>8. ASSUME NEW p \in Printers, NEW host, Recover(p, host) PROVE Meant'
  BY <1>0, <1>8 DEF Recover
<1>9. ASSUME NEW p \in Printers, NEW s \in Slots, ApplyTray(p, s) PROVE Meant'
  <2>1. UNCHANGED <<authority, asof, gate>>
    BY <1>9 DEF ApplyTray
  <2> QED BY <1>0, <2>1
<1>10. ASSUME NEW s \in limit.slots, NEW c, Load(s, c) PROVE Meant'
  BY <1>0, <1>10 DEF Load
<1>11. ASSUME NEW s \in Slots, NEW r, NEW asked, UserAssigns(s, r, asked) PROVE Meant'
  BY <1>0, <1>11 DEF UserAssigns
<1>12. ASSUME NEW p \in Printers, NEW b, Configure(p, b) PROVE Meant'
  BY <1>0, <1>12 DEF Configure
<1>13. ASSUME NEW lost \in SUBSET Printers, Fault(lost) PROVE Meant'
  BY <1>0, <1>13 DEF Fault, Releases
<1>14. CASE UNCHANGED liveVars
  BY <1>0, <1>14 DEF liveVars
<1> QED BY Steps, <1>1, <1>2, <1>3, <1>4, <1>5, <1>6, <1>7, <1>8, <1>9, <1>10, <1>11, <1>12,
           <1>13, <1>14 DEF LiveStep

-----------------------------------------------------------------------------
\* A pass over the trays of one printer.

LEMMA StaysIs ==
  ASSUME LiveTyped, NEW s \in Slots, NEW t
  PROVE  /\ over.slot[s] \in Rolls \cup {Empty}
         /\ over.slot[s] \notin Plain => ~Stays(s, t)
<1>1. over.slot[s] \in Rolls \cup {Empty}
  BY OverviewIs DEF LiveTyped
<1> QED BY <1>1 DEF Rolls, Stays, CanUnload

LEMMA ExactIs ==
  ASSUME NEW s \in Slots, NEW t, t.look \in Tagged
  PROVE  Exact(t) /\ ~Replaced(s, t) /\ t.look # Empty /\ t.look \notin Plain
  BY DEF Exact, Replaced, ColourReplaced

\* A tray applied leaves its slot as it says, unless its roll has to be weighed or the
\* reading is too old; and an empty tray leaves it empty.
LEMMA TrayApplied ==
  ASSUME LiveTyped, NEW p \in Printers, NEW s \in Slots, ApplyTray(p, s),
         over.slot[s] \notin Plain, slot[s] \in {over.slot[s], Empty}
  PROVE  LET t == poll[p].trays[s] IN
         /\ t.look = Empty => slot'[s] = Empty
         /\ /\ t.look \in Tagged /\ ~Blocked(s, t)
            /\ over.slot[s] = t.look => slot[s] = t.look
            => slot'[s] = t.look
<1> DEFINE t == poll[p].trays[s]
<1>1. ~Stays(s, t)
  BY StaysIs
<1>2. ASSUME t.look = Empty PROVE slot'[s] = Empty
  <2>1. Replaced(s, t) /\ Empties(s, t) /\ ~Suggests(s, t) /\ ~Places(s, t)
    BY <1>1, <1>2 DEF Replaced, Empties, Suggests, Places
  <2>2. ASSUME NEW roll \in Rolls \cup {Empty}, Applies(p, s, roll) PROVE slot'[s] = Empty
    BY <2>1, <2>2, AssignEffect DEF Applies
  <2>3. ASSUME UNCHANGED library, over.slot[s] = Empty PROVE slot'[s] = Empty
    BY <2>3 DEF library
  <2> QED BY <2>1, <2>2, <2>3, ApplySlots
<1>3. ASSUME t.look \in Tagged, ~Blocked(s, t), over.slot[s] = t.look => slot[s] = t.look
      PROVE  slot'[s] = t.look
  <2>1. Exact(t) /\ ~Replaced(s, t) /\ ~Empties(s, t) /\ ~Suggests(s, t)
    BY <1>3, ExactIs, RollsAre DEF Empties, Suggests
  <2>2. ASSUME NEW roll \in Rolls \cup {Empty}, Applies(p, s, roll) PROVE slot'[s] = t.look
    BY <2>1, <2>2, AssignEffect DEF Applies
  <2>3. ASSUME UNCHANGED library, ~Places(s, t) PROVE slot'[s] = t.look
    <3>1. over.slot[s] = t.look
      BY <1>1, <1>3, <2>1, <2>3 DEF Places
    <3> QED BY <1>3, <2>3, <3>1 DEF library
  <2> QED BY <2>2, <2>3, ApplySlots
<1> QED BY <1>2, <1>3

\* It takes from another slot only the roll that its own tray names.
LEMMA OthersKeep ==
  ASSUME LiveTyped, NEW p \in Printers, NEW s \in Slots, ApplyTray(p, s), NEW x \in Slots, x # s
  PROVE  /\ cleared'[x] = cleared[x] /\ slot'[x] \in {slot[x], Empty}
         /\ slot[x] \in Tagged /\ slot[x] # poll[p].trays[s].look => slot'[x] = slot[x]
         /\ slot'[x] # slot[x] => slot[x] \in Tagged
<1>1. CASE UNCHANGED library
  BY <1>1 DEF library
<1>2. ASSUME NEW roll \in Rolls \cup {Empty}, Applies(p, s, roll)
      PROVE  /\ cleared'[x] = cleared[x] /\ slot'[x] \in {slot[x], Empty}
             /\ slot[x] \in Tagged /\ slot[x] # poll[p].trays[s].look => slot'[x] = slot[x]
             /\ slot'[x] # slot[x] => slot[x] \in Tagged
  <2>1. /\ cleared'[x] = cleared[x]
        /\ slot'[x] = IF roll # Empty /\ slot[x] = roll THEN Empty ELSE slot[x]
    <3>1. Assign(s, roll, FALSE, FALSE)
      BY <1>2 DEF Applies
    <3>2. \A y \in Slots \ {s} :
            /\ cleared'[y] = cleared[y]
            /\ slot'[y] = IF roll # Empty /\ slot[y] = roll THEN Empty ELSE slot[y]
      BY <3>1, AssignEffect
    <3> QED BY <3>2
  <2>2. \/ roll = Empty \/ roll \in Candidates
        \/ roll = poll[p].trays[s].look /\ roll \in Tagged
    BY <1>2 DEF Applies, Places, Exact
  <2>3. roll \in Candidates => slot[x] # roll
    BY CandidatesAre
  <2> QED BY <2>1, <2>2, <2>3
<1> QED BY <1>1, <1>2, ApplySlots

\* What Passing says of one slot of a printer's pass.
BeforeTurn(p, s) ==
  LET t == poll[p].trays[s] IN
  /\ ~poll[p].reading /\ cleared[s] = over.cleared[s] /\ slot[s] \in {over.slot[s], Empty}
  /\ t.look \in Tagged /\ Alone(p, s) /\ over.slot[s] = t.look => slot[s] = t.look
AfterTurn(p, s) ==
  LET t == poll[p].trays[s] IN
  ~poll[p].reading /\ over.slot[s] \notin Plain =>
    /\ t.look = Empty => slot[s] = Empty
    /\ t.look \in Tagged /\ Alone(p, s) /\ t.id > over.cleared[s] => slot[s] = t.look

LEMMA PassingIs ==
  Passing <=> \A p \in Printers, s \in Slots : gate = p /\ s \in Mine(p) =>
                /\ s \in poll[p].todo => BeforeTurn(p, s)
                /\ s \notin poll[p].todo => AfterTurn(p, s)
  BY DEF Passing, BeforeTurn, AfterTurn

LEMMA PassingApplies ==
  ASSUME LiveTyped, PollsGated, Passing, NEW p \in Printers, NEW s \in Slots, ApplyTray(p, s)
  PROVE  Passing'
<1>1. /\ gate = p /\ gate' = p /\ s \in poll[p].todo /\ s \in Mine(p)
      /\ over' = over
  BY DEF ApplyTray, PollsGated
<1>2. /\ poll'[p].trays = poll[p].trays /\ poll'[p].reading = poll[p].reading
      /\ poll'[p].todo = poll[p].todo \ {s}
  BY ApplyEffect DEF Becomes
<1>3. \A x \in Slots : Alone(p, x)' <=> Alone(p, x)
  BY <1>2 DEF Alone, Mine
<1>4. BeforeTurn(p, s)
  BY <1>1, PassingIs
<1>5. ASSUME NEW x \in Mine(p), x # s
      PROVE  /\ cleared'[x] = cleared[x] /\ slot'[x] \in {slot[x], Empty}
             /\ poll[p].trays[x].look \in Tagged /\ Alone(p, x)
                => (slot[x] = poll[p].trays[x].look => slot'[x] = slot[x])
  <2>1. x \in Slots /\ (Alone(p, x) => poll[p].trays[s].look # poll[p].trays[x].look)
    BY <1>1, <1>5 DEF Mine, Alone
  <2> QED BY <1>5, <2>1, OthersKeep
<1>6. ASSUME NEW x \in Mine(p), x # s, x \in poll[p].todo PROVE BeforeTurn(p, x)'
  <2>1. x \in Slots /\ BeforeTurn(p, x)
    BY <1>1, <1>6, PassingIs DEF Mine
  <2> QED BY <1>1, <1>2, <1>3, <1>5, <1>6, <2>1 DEF BeforeTurn
<1>7. ASSUME NEW x \in Mine(p), x # s, x \notin poll[p].todo PROVE AfterTurn(p, x)'
  <2>1. x \in Slots /\ AfterTurn(p, x)
    BY <1>1, <1>7, PassingIs DEF Mine
  <2> QED BY <1>1, <1>2, <1>3, <1>5, <1>7, <2>1 DEF AfterTurn
<1>8. AfterTurn(p, s)'
  <2> DEFINE t == poll[p].trays[s]
  <2>1. SUFFICES ASSUME over.slot[s] \notin Plain
                 PROVE  /\ t.look = Empty => slot'[s] = Empty
                        /\ t.look \in Tagged /\ Alone(p, s) /\ t.id > over.cleared[s]
                           => slot'[s] = t.look
    BY <1>1, <1>2, <1>3 DEF AfterTurn
  <2>2. /\ cleared[s] = over.cleared[s] /\ slot[s] \in {over.slot[s], Empty}
        /\ t.look \in Tagged /\ Alone(p, s) /\ over.slot[s] = t.look => slot[s] = t.look
    BY <1>4 DEF BeforeTurn
  <2>3. t.id \in Nat /\ cleared[s] \in Nat
    <3>1. t \in Readings
      BY PollIs
    <3> HIDE DEF t
    <3> QED BY <3>1, ReadingIs DEF LiveTyped
  <2>4. t.id > over.cleared[s] => ~Blocked(s, t)
    BY <2>2, <2>3 DEF Blocked
  <2>5. /\ t.look = Empty => slot'[s] = Empty
        /\ /\ t.look \in Tagged /\ ~Blocked(s, t)
           /\ over.slot[s] = t.look => slot[s] = t.look
           => slot'[s] = t.look
    BY <2>1, <2>2, TrayApplied
  <2> HIDE DEF t
  <2> QED BY <2>2, <2>4, <2>5
<1>9. ASSUME NEW q \in Printers, NEW x \in Slots, gate' = q, x \in Mine(q)'
      PROVE  /\ x \in poll'[q].todo => BeforeTurn(q, x)'
             /\ x \notin poll'[q].todo => AfterTurn(q, x)'
  <2>1. q = p /\ x \in Mine(p)
    BY <1>1, <1>9 DEF Mine
  <2> QED BY <1>2, <1>6, <1>7, <1>8, <2>1
<1> QED BY <1>9 DEF Passing, BeforeTurn, AfterTurn

LEMMA PassingNext ==
  ASSUME LiveTyped, PollsGated, Passing, [LiveNext]_liveVars
  PROVE  Passing'
<1>0. ASSUME UNCHANGED <<gate, over, slot, cleared>>,
             \A q \in Printers : gate = q => poll'[q] = poll[q]
      PROVE  Passing'
  <2> SUFFICES ASSUME NEW q \in Printers, NEW x \in Slots, gate' = q, x \in Mine(q)
               PROVE  /\ x \in poll'[q].todo => BeforeTurn(q, x)'
                      /\ x \notin poll'[q].todo => AfterTurn(q, x)'
    BY DEF Passing, BeforeTurn, AfterTurn, Mine
  <2>1. gate = q /\ poll'[q] = poll[q]
    BY <1>0
  <2>2. /\ x \in poll[q].todo => BeforeTurn(q, x)
        /\ x \notin poll[q].todo => AfterTurn(q, x)
    BY <2>1, PassingIs
  <2> QED BY <1>0, <2>1, <2>2 DEF BeforeTurn, AfterTurn, Alone, Mine
<1>1. ASSUME gate' = "free" PROVE Passing'
  BY <1>1 DEF Passing
<1>2. ASSUME NEW p \in Printers, NEW fresh \in SUBSET Mine(p), NEW heartbeat \in BOOLEAN,
             NEW busy \in BOOLEAN, Observe(p, fresh, heartbeat, busy)
      PROVE  Passing'
  <2>1. \A q \in Printers : q # p => poll'[q] = poll[q]
    BY <1>2, ObserveEffect DEF Becomes
  <2>2. gate # p /\ UNCHANGED <<gate, over, slot, cleared>>
    BY <1>2 DEF Observe, PollsGated, library
  <2> QED BY <1>0, <2>1, <2>2
<1>3. ASSUME NEW p \in Printers, NoAnswer(p) PROVE Passing'
  <2>1. \A q \in Printers : q # p => poll'[q] = poll[q]
    BY <1>3, NoAnswerEffect DEF Becomes
  <2>2. gate # p /\ UNCHANGED <<gate, over, slot, cleared>>
    BY <1>3 DEF NoAnswer, PollsGated, library
  <2> QED BY <1>0, <2>1, <2>2
<1>4. ASSUME NEW p \in Printers, Enter(p), Current PROVE Passing'
  <2>1. Becomes(p, "applying", poll[p].cfg, poll[p].trays, poll[p].reading, Trays(p))
    BY <1>4, EnterEffect
  <2>2. /\ gate' = p /\ over'.slot = slot /\ over'.cleared = cleared
        /\ slot' = slot /\ cleared' = cleared
    BY <1>4 DEF Enter, library
  <2> SUFFICES ASSUME NEW x \in Slots, x \in Mine(p)
               PROVE  /\ x \in poll'[p].todo => BeforeTurn(p, x)'
                      /\ x \notin poll'[p].todo => AfterTurn(p, x)'
    BY <2>2 DEF Passing, BeforeTurn, AfterTurn, Mine
  <2>3. /\ poll'[p].trays = poll[p].trays /\ poll'[p].reading = poll[p].reading
        /\ poll'[p].todo = Trays(p)
    BY <2>1 DEF Becomes
  <2>4. x \in Trays(p) => ~poll[p].reading
    BY DEF Trays
  <2>5. x \notin Trays(p) /\ ~poll[p].reading => poll[p].trays[x].look = "unseen"
    BY DEF Trays
  <2> QED BY <2>2, <2>3, <2>4, <2>5, UnseenIs DEF BeforeTurn, AfterTurn, Empty
<1>5. ASSUME NEW p \in Printers, Enter(p), ~Current PROVE Passing'
  BY <1>1, <1>5 DEF Enter
<1>6. ASSUME NEW p \in Printers, Persist(p) \/ Offline(p) PROVE Passing'
  BY <1>1, <1>6 DEF Persist, Offline, Releases
<1>7. ASSUME NEW p \in Printers, NEW host, Recover(p, host) PROVE Passing'
  BY <1>1, <1>7 DEF Recover
<1>8. ASSUME NEW p \in Printers, NEW s \in Slots, ApplyTray(p, s) PROVE Passing'
  BY <1>8, PassingApplies
<1>9. CASE CaptureBatch \/ SwitchRole \/ Restore
  BY <1>1, <1>9 DEF CaptureBatch, SwitchRole, Restore
<1>10. CASE Tick
  BY <1>0, <1>10 DEF Tick, library
<1>11. ASSUME NEW s \in limit.slots, NEW c, Load(s, c) PROVE Passing'
  BY <1>0, <1>11 DEF Load, library
<1>12. ASSUME NEW s \in Slots, NEW r, NEW asked, UserAssigns(s, r, asked) PROVE Passing'
  BY <1>1, <1>12 DEF UserAssigns
<1>13. ASSUME NEW p \in Printers, NEW b, Configure(p, b) PROVE Passing'
  BY <1>1, <1>13 DEF Configure
<1>14. ASSUME NEW lost \in SUBSET Printers, Fault(lost) PROVE Passing'
  BY <1>1, <1>14 DEF Fault, Releases
<1>15. CASE UNCHANGED liveVars
  BY <1>0, <1>15 DEF liveVars, library
<1> QED BY Steps, <1>2, <1>3, <1>4, <1>5, <1>6, <1>7, <1>8, <1>9, <1>10, <1>11, <1>12,
           <1>13, <1>14, <1>15 DEF LiveStep

-----------------------------------------------------------------------------
\* The times.

LEMMA AllDatedNext ==
  ASSUME LiveTyped, AllDated, [LiveNext]_liveVars
  PROVE  AllDated'
<1> DEFINE Hands == \A s \in Slots :
             manual'[s] <= now' /\ (cleared'[s] # 0 => cleared'[s] = manual'[s])
<1>a. ASSUME UNCHANGED <<now, manual>>, \A s \in Slots : cleared'[s] \in {cleared[s], 0}
      PROVE  Hands
  BY <1>a DEF AllDated
<1>b. UNCHANGED <<now, manual, cleared>> => Hands
  BY DEF AllDated
<1>0. ASSUME UNCHANGED <<poll, seen>>, Hands PROVE AllDated'
  BY <1>0 DEF AllDated, Dated
<1>1. ASSUME NEW p \in Printers, \A q \in Printers : q # p => poll'[q] = poll[q],
             \A s \in Slots : Dated(poll'[p].trays[s]),
             \A s \in Slots : seen'[s] \in {seen[s], Unseen, poll[p].trays[s]}, Hands
      PROVE  AllDated'
  <2>1. ASSUME NEW q \in Printers, NEW s \in Slots PROVE Dated(poll'[q].trays[s])
    BY <1>1 DEF AllDated
  <2>2. ASSUME NEW s \in Slots PROVE Dated(seen'[s])
    BY <1>1, UnseenIs DEF AllDated
  <2> QED BY <1>1, <2>1, <2>2 DEF AllDated, Dated
<1>2. ASSUME NEW p \in Printers, poll' = [poll EXCEPT ![p] = Idle],
             \A s \in Slots : seen'[s] \in {seen[s], Unseen, poll[p].trays[s]}, Hands
      PROVE  AllDated'
  <2>1. Becomes(p, "idle", Off, [s \in Slots |-> Unseen], FALSE, {})
    BY <1>2, IdleBecomes
  <2>2. \A s \in Slots : poll'[p].trays[s] = Unseen
    BY <2>1 DEF Becomes
  <2> QED BY <1>1, <1>2, <2>1, <2>2, UnseenIs DEF Becomes
<1>3. CASE CaptureBatch
  <2>1. ASSUME NEW q \in Printers, NEW s \in Slots PROVE Dated(poll'[q].trays[s])
    <3>1. poll'[q] = Idle \/ poll'[q].trays = seen
      BY <1>3, CaptureEffect
    <3> QED BY <3>1, IdleIs, UnseenIs DEF AllDated
  <2>2. Hands /\ seen' = seen
    BY <1>3, <1>b DEF CaptureBatch, library, saved
  <2> QED BY <2>1, <2>2 DEF AllDated, Dated
<1>4. ASSUME NEW p \in Printers, NEW fresh \in SUBSET Mine(p), NEW heartbeat \in BOOLEAN,
             NEW busy \in BOOLEAN, Observe(p, fresh, heartbeat, busy)
      PROVE  AllDated'
  <2>1. PICK trays \in [Slots -> Readings] :
          /\ Becomes(p, "answered", poll[p].cfg, trays, busy, poll[p].todo)
          /\ \A s \in Slots : Reported(s, poll[p].trays[s], trays[s])
    BY <1>4, ObserveEffect
  <2>2. ASSUME NEW s \in Slots PROVE Dated(poll'[p].trays[s])
    <3>1. poll[p].trays[s] \in Readings /\ Dated(poll[p].trays[s])
      BY PollIs DEF AllDated
    <3>2. poll'[p].trays[s] = trays[s]
      BY <2>1 DEF Becomes
    <3> QED BY <2>1, <3>1, <3>2, ReportedIs
  <2>3. Hands /\ seen' = seen
    BY <1>4, <1>b DEF Observe, library, saved
  <2> QED BY <1>1, <2>1, <2>2, <2>3 DEF Becomes
<1>5. ASSUME NEW p \in Printers, NoAnswer(p) PROVE AllDated'
  <2>1. Becomes(p, "failed", poll[p].cfg, poll[p].trays, poll[p].reading, poll[p].todo)
    BY <1>5, NoAnswerEffect
  <2>2. Hands /\ seen' = seen
    BY <1>5, <1>b DEF NoAnswer, library, saved
  <2> QED BY <1>1, <2>1, <2>2 DEF Becomes, AllDated
<1>6. ASSUME NEW p \in Printers, Enter(p) PROVE AllDated'
  <2>1. Hands /\ seen' = seen
    BY <1>6, <1>b DEF Enter, library, saved
  <2>2. CASE Current
    <3>1. Becomes(p, "applying", poll[p].cfg, poll[p].trays, poll[p].reading, Trays(p))
      BY <1>6, <2>2, EnterEffect
    <3> QED BY <1>1, <2>1, <3>1 DEF Becomes, AllDated
  <2>3. CASE ~Current
    BY <1>2, <1>6, <2>1, <2>3 DEF Enter
  <2> QED BY <2>2, <2>3
<1>7. ASSUME NEW p \in Printers, Persist(p) PROVE AllDated'
  <2>1. Hands
    BY <1>7, <1>b DEF Persist, library
  <2>2. \A s \in Slots : seen'[s] \in {seen[s], Unseen, poll[p].trays[s]}
    BY <1>7, SaveEffect DEF Persist
  <2> QED BY <1>2, <1>7, <2>1, <2>2 DEF Persist
<1>8. ASSUME NEW p \in Printers, Offline(p) PROVE AllDated'
  <2>1. Hands
    BY <1>8, <1>b DEF Offline, library
  <2>2. \A s \in Slots : seen'[s] \in {seen[s], Unseen, poll[p].trays[s]}
    BY <1>8, SaveEffect DEF Offline
  <2> QED BY <1>2, <1>8, <2>1, <2>2 DEF Offline
<1>9. ASSUME NEW p \in Printers, NEW host \in Hosts, Recover(p, host) PROVE AllDated'
  <2>1. Hands
    BY <1>9, <1>b DEF Recover, library
  <2>2. \A s \in Slots : seen'[s] \in {seen[s], Unseen, poll[p].trays[s]}
    BY <1>9, ForgetEffect DEF Recover
  <2> QED BY <1>2, <1>9, <2>1, <2>2 DEF Recover
<1>10. ASSUME NEW p \in Printers, NEW s \in Slots, ApplyTray(p, s) PROVE AllDated'
  <2>1. UNCHANGED <<now, manual>> /\ UNCHANGED saved
    BY <1>10 DEF ApplyTray
  <2>2. \A x \in Slots : cleared'[x] \in {cleared[x], 0}
    BY <1>10, AppliesTypes
  <2>3. Hands
    BY <1>a, <2>1, <2>2
  <2>4. Becomes(p, poll[p].phase, poll[p].cfg, poll[p].trays, poll[p].reading,
                poll[p].todo \ {s})
    BY <1>10, ApplyEffect
  <2> QED BY <1>1, <2>1, <2>3, <2>4 DEF Becomes, AllDated, saved
<1>11. CASE Tick
  <2>1. now' = now + 1 /\ now \in Nat /\ UNCHANGED <<manual, cleared, poll, seen>>
    BY <1>11 DEF Tick, LiveTyped, library, saved
  <2>2. \A s \in Slots : manual[s] \in Nat
    BY DEF LiveTyped
  <2>3. Hands
    BY <2>1, <2>2 DEF AllDated
  <2> QED BY <1>0, <2>1, <2>3
<1>12. ASSUME NEW s \in limit.slots, NEW c, Load(s, c) PROVE AllDated'
  BY <1>12, <1>0, <1>b DEF Load, library, saved
<1>13. ASSUME NEW s \in Slots, NEW r \in (limit.about \cap Rolls) \cup {Empty},
              NEW asked \in BOOLEAN, UserAssigns(s, r, asked)
       PROVE  AllDated'
  <2>1. /\ cleared'[s] \in {now, 0} /\ manual'[s] = cleared'[s]
        /\ \A x \in Slots \ {s} : cleared'[x] = cleared[x] /\ manual'[x] = manual[x]
    BY <1>13, UserAssignsEffect
  <2>2. UNCHANGED <<now, poll, seen>> /\ now \in Nat
    BY <1>13 DEF UserAssigns, saved, LiveTyped
  <2>3. Hands
    BY <2>1, <2>2 DEF AllDated
  <2> QED BY <1>0, <2>2, <2>3
<1>14. ASSUME NEW p \in Printers, NEW b \in PollBindings \cup {Off}, Configure(p, b)
       PROVE  AllDated'
  <2>1. Hands /\ poll' = poll
    BY <1>14, <1>b DEF Configure, library
  <2>2. \A s \in Slots : seen'[s] \in {seen[s], Unseen, poll[p].trays[s]}
    BY <1>14, ForgetEffect DEF Configure
  <2> QED BY <1>1, <2>1, <2>2 DEF AllDated
<1>15. CASE SwitchRole
  BY <1>15, <1>0, <1>b DEF SwitchRole, library, saved
<1>16. CASE Restore
  <2>1. now \in Nat
    BY DEF LiveTyped
  <2>2. Hands
    BY <1>16, <2>1 DEF Restore
  <2>3. /\ poll' = poll /\ \A s \in Slots : seen'[s] = Unseen
    BY <1>16 DEF Restore
  <2> QED BY <2>2, <2>3, UnseenIs DEF AllDated, Dated
<1>17. ASSUME NEW lost \in SUBSET Printers, Fault(lost) PROVE AllDated'
  <2>1. Hands /\ seen' = seen
    BY <1>17, <1>b DEF Fault, library, saved
  <2>2. ASSUME NEW q \in Printers, NEW s \in Slots PROVE Dated(poll'[q].trays[s])
    <3>1. poll'[q] \in {Idle, poll[q]}
      BY <1>17, FaultEffect
    <3> QED BY <3>1, IdleIs, UnseenIs DEF AllDated
  <2> QED BY <2>1, <2>2 DEF AllDated, Dated
<1>18. CASE UNCHANGED liveVars
  BY <1>18, <1>0, <1>b DEF liveVars, library, saved
<1> QED BY Steps, <1>3, <1>4, <1>5, <1>6, <1>7, <1>8, <1>9, <1>10, <1>11, <1>12,
           <1>13, <1>14, <1>15, <1>16, <1>17, <1>18 DEF LiveStep

-----------------------------------------------------------------------------
\* No reading is placed that is older than the hand that cleared the slot.

\* Where an assignment of a pass forgets when a slot was cleared, its tray names no known
\* roll, or one that was read since.
LEMMA PlacedIsNewer ==
  ASSUME LiveTyped, PollsGated, AllDated, NEW p \in Printers, NEW s \in Slots,
         NEW roll \in Rolls \cup {Empty}, Applies(p, s, roll),
         poll[p].trays[s].look \in Tagged, cleared[s] # 0
  PROVE  poll[p].trays[s].read >= manual[s]
<1> DEFINE t == poll[p].trays[s]
<1>1. Exact(t) /\ ~Replaced(s, t) /\ t.look # Unknown
  BY ExactIs, RollsAre
<1>2. ~Blocked(s, t)
  BY <1>1 DEF Applies, Empties, Suggests, Places
<1>3. t.id \in Nat /\ t.id = t.read /\ cleared[s] \in Nat /\ cleared[s] = manual[s]
  <2>1. t \in Readings /\ t.id = t.read
    BY PollIs DEF AllDated, Dated
  <2> HIDE DEF t
  <2> QED BY <2>1, ReadingIs DEF AllDated, LiveTyped
<1> HIDE DEF t
<1>4. t.read >= manual[s]
  BY <1>2, <1>3 DEF Blocked
<1> QED BY <1>4 DEF t

LEMMA NoneOlderNext ==
  ASSUME LiveTyped, PollsGated, AllDated, NoneOlder, [LiveNext]_liveVars
  PROVE  NoneOlder'
<1> DEFINE quiet == edits = 0 /\ errors = 0
           polled(p, s) == poll[p].phase # "idle"
                           => poll[p].cfg = config[p] /\ Newer(poll[p].trays[s], s)
           known(p, s) == poll[p].phase # "applying" => Newer(seen[s], s)
<1>a. /\ NoneOlder <=> (quiet => \A s \in Slots :
            polled(PrinterOf[s], s) /\ known(PrinterOf[s], s))
      /\ NoneOlder' <=> (quiet' => \A s \in Slots :
            polled(PrinterOf[s], s)' /\ known(PrinterOf[s], s)')
  BY DEF NoneOlder
<1>b. ASSUME edits' = edits + 1 \/ errors' = errors + 1 PROVE NoneOlder'
  BY <1>b DEF NoneOlder, LiveTyped
<1>0. ASSUME UNCHANGED <<poll, config, seen, cleared, manual, edits, errors>>
      PROVE  NoneOlder'
  BY <1>0 DEF NoneOlder, Newer
<1>1. ASSUME NEW p \in Printers, \A q \in Printers : q # p => poll'[q] = poll[q],
             UNCHANGED <<config, cleared, manual, edits, errors>>,
             \A s \in Slots : PrinterOf[s] # p => seen'[s] = seen[s],
             quiet => \A s \in Slots : PrinterOf[s] = p => polled(p, s)' /\ known(p, s)'
      PROVE  NoneOlder'
  <2> SUFFICES ASSUME quiet, NEW s \in Slots
               PROVE  polled(PrinterOf[s], s)' /\ known(PrinterOf[s], s)'
    BY <1>a, <1>1
  <2>1. CASE PrinterOf[s] = p
    BY <1>1, <2>1
  <2>2. CASE PrinterOf[s] # p
    <3>1. /\ poll'[PrinterOf[s]] = poll[PrinterOf[s]] /\ seen'[s] = seen[s]
          /\ config' = config /\ cleared' = cleared /\ manual' = manual
      BY <1>1, <2>2
    <3> QED BY <1>a, <3>1 DEF Newer
  <2> QED BY <2>1, <2>2
<1>2. CASE CaptureBatch
  <2>1. /\ UNCHANGED <<config, seen, cleared, manual, edits, errors>>
        /\ \A p \in Printers : poll[p].phase = "idle"
    BY <1>2 DEF CaptureBatch, library, saved
  <2> SUFFICES ASSUME quiet, NEW s \in Slots
               PROVE  polled(PrinterOf[s], s)' /\ known(PrinterOf[s], s)'
    BY <1>a, <2>1
  <2>2. PrinterOf[s] \in Printers /\ Newer(seen[s], s)
    BY <1>a, <2>1
  <2>3. \/ poll'[PrinterOf[s]].phase = "idle"
        \/ /\ poll'[PrinterOf[s]].cfg = config[PrinterOf[s]]
           /\ poll'[PrinterOf[s]].trays = seen
    BY <1>2, <2>2, CaptureEffect, IdleIs
  <2> QED BY <2>1, <2>2, <2>3 DEF Newer
<1>3. ASSUME NEW p \in Printers, NEW fresh \in SUBSET Mine(p), NEW heartbeat \in BOOLEAN,
             NEW busy \in BOOLEAN, Observe(p, fresh, heartbeat, busy)
      PROVE  NoneOlder'
  <2>1. PICK trays \in [Slots -> Readings] :
          /\ Becomes(p, "answered", poll[p].cfg, trays, busy, poll[p].todo)
          /\ \A s \in Slots : Reported(s, poll[p].trays[s], trays[s])
    BY <1>3, ObserveEffect
  <2>2. /\ UNCHANGED <<config, seen, cleared, manual, edits, errors>>
        /\ poll[p].phase = "captured"
    BY <1>3 DEF Observe, library, saved
  <2>3. /\ poll'[p].cfg = poll[p].cfg /\ poll'[p].trays = trays
        /\ \A q \in Printers : q # p => poll'[q] = poll[q]
    BY <2>1 DEF Becomes
  <2>4. ASSUME quiet, NEW s \in Slots, PrinterOf[s] = p PROVE polled(p, s)' /\ known(p, s)'
    <3>1. poll[p].cfg = config[p] /\ Newer(poll[p].trays[s], s) /\ Newer(seen[s], s)
      BY <1>a, <2>2, <2>4
    <3>2. poll[p].trays[s] \in Readings
      BY PollIs
    <3>3. trays[s].look \in Tagged => trays[s] = poll[p].trays[s] \/ trays[s].read = now
      BY <2>1, <3>2, ReportedIs
    <3>4. manual[s] <= now /\ manual[s] \in Nat /\ now \in Nat
      BY DEF AllDated, LiveTyped
    <3>5. Newer(trays[s], s)
      BY <3>1, <3>3, <3>4 DEF Newer
    <3> QED BY <2>2, <2>3, <3>1, <3>5 DEF Newer
  <2> QED BY <1>1, <2>2, <2>3, <2>4
<1>4. ASSUME NEW p \in Printers, NoAnswer(p) PROVE NoneOlder'
  <2>1. Becomes(p, "failed", poll[p].cfg, poll[p].trays, poll[p].reading, poll[p].todo)
    BY <1>4, NoAnswerEffect
  <2>2. /\ UNCHANGED <<config, seen, cleared, manual, edits, errors>>
        /\ poll[p].phase = "captured"
    BY <1>4 DEF NoAnswer, library, saved
  <2>3. /\ poll'[p].cfg = poll[p].cfg /\ poll'[p].trays = poll[p].trays
        /\ \A q \in Printers : q # p => poll'[q] = poll[q]
    BY <2>1 DEF Becomes
  <2>4. ASSUME quiet, NEW s \in Slots, PrinterOf[s] = p PROVE polled(p, s)' /\ known(p, s)'
    BY <1>a, <2>2, <2>3, <2>4 DEF Newer
  <2> QED BY <1>1, <2>2, <2>3, <2>4
\* A poll that is over leaves what was known, or the report it has saved.
<1>5. ASSUME NEW p \in Printers, poll' = [poll EXCEPT ![p] = Idle],
             UNCHANGED <<config, cleared, manual, edits, errors>>,
             \/ seen' = seen /\ poll[p].phase # "applying"
             \/ Save(p) /\ poll[p].phase # "idle"
      PROVE  NoneOlder'
  <2>1. Becomes(p, "idle", Off, [s \in Slots |-> Unseen], FALSE, {})
    BY <1>5, IdleBecomes
  <2>2. /\ poll'[p].phase = "idle"
        /\ \A q \in Printers : q # p => poll'[q] = poll[q]
    BY <2>1 DEF Becomes
  <2>3. \A s \in Slots : PrinterOf[s] # p => seen'[s] = seen[s]
    BY <1>5, SaveEffect
  <2>4. ASSUME quiet, NEW s \in Slots, PrinterOf[s] = p PROVE polled(p, s)' /\ known(p, s)'
    <3>1. CASE seen' = seen /\ poll[p].phase # "applying"
      BY <1>5, <1>a, <2>2, <2>4, <3>1 DEF Newer
    <3>2. CASE Save(p) /\ poll[p].phase # "idle"
      <4>1. seen'[s] = poll[p].trays[s]
        BY <2>4, <3>2, SaveEffect
      <4> QED BY <1>5, <1>a, <2>2, <2>4, <3>2, <4>1 DEF Newer
    <3> QED BY <1>5, <3>1, <3>2
  <2> QED BY <1>1, <1>5, <2>2, <2>3, <2>4
<1>6. ASSUME NEW p \in Printers, Enter(p) PROVE NoneOlder'
  <2>1. /\ UNCHANGED <<config, seen, cleared, manual, edits, errors>>
        /\ poll[p].phase = "answered"
    BY <1>6 DEF Enter, library, saved
  <2>2. CASE Current
    <3>1. Becomes(p, "applying", poll[p].cfg, poll[p].trays, poll[p].reading, Trays(p))
      BY <1>6, <2>2, EnterEffect
    <3>2. /\ poll'[p].phase = "applying" /\ poll'[p].cfg = poll[p].cfg
          /\ poll'[p].trays = poll[p].trays
          /\ \A q \in Printers : q # p => poll'[q] = poll[q]
      BY <3>1 DEF Becomes
    <3>3. ASSUME quiet, NEW s \in Slots, PrinterOf[s] = p PROVE polled(p, s)' /\ known(p, s)'
      BY <1>a, <2>1, <3>2, <3>3 DEF Newer
    <3> QED BY <1>1, <2>1, <3>2, <3>3
  <2>3. CASE ~Current
    BY <1>5, <1>6, <2>1, <2>3 DEF Enter
  <2> QED BY <2>2, <2>3
<1>7. ASSUME NEW p \in Printers, Persist(p) PROVE NoneOlder'
  <2>1. /\ poll' = [poll EXCEPT ![p] = Idle] /\ poll[p].phase = "applying"
        /\ UNCHANGED <<config, cleared, manual, edits, errors>>
    BY <1>7 DEF Persist, PollsGated, library
  <2>2. CASE SamePollBinding(p)
    BY <1>5, <1>7, <2>1, <2>2 DEF Persist
  <2>3. CASE ~SamePollBinding(p)
    <3>1. Becomes(p, "idle", Off, [s \in Slots |-> Unseen], FALSE, {})
      BY <2>1, IdleBecomes
    <3>2. \A q \in Printers : q # p => poll'[q] = poll[q]
      BY <3>1 DEF Becomes
    <3>3. \A s \in Slots : PrinterOf[s] = p => ~quiet
      BY <1>a, <2>1, <2>3 DEF SamePollBinding
    <3>4. seen' = seen
      BY <1>7, <2>3 DEF Persist
    <3> QED BY <1>1, <2>1, <3>2, <3>3, <3>4
  <2> QED BY <2>2, <2>3
<1>8. ASSUME NEW p \in Printers, Offline(p) PROVE NoneOlder'
  <2>1. /\ poll' = [poll EXCEPT ![p] = Idle] /\ poll[p].phase = "failed"
        /\ UNCHANGED <<config, cleared, manual, edits, errors>>
        /\ Save(p) \/ seen' = seen
    BY <1>8 DEF Offline, library
  <2> QED BY <1>5, <2>1
<1>9. ASSUME NEW p \in Printers, NEW s \in Slots, ApplyTray(p, s) PROVE NoneOlder'
  <2>1. UNCHANGED <<now, tray, saved, authority, asof, over, gate, manual, limit, edits, errors>>
    BY <1>9 DEF ApplyTray
  <2>2. gate = p /\ s \in Mine(p) /\ poll[p].phase = "applying"
    BY <1>9 DEF ApplyTray, PollsGated
  <2>3. /\ poll'[p].phase = "applying" /\ poll'[p].cfg = poll[p].cfg
        /\ poll'[p].trays = poll[p].trays
        /\ \A q \in Printers : q # p => poll'[q] = poll[q]
    BY <1>9, <2>2, ApplyEffect DEF Becomes
  <2>4. \A x \in Slots \ {s} : cleared'[x] = cleared[x]
    BY <1>9, AppliesTypes
  <2> SUFFICES ASSUME quiet, NEW x \in Slots
               PROVE  polled(PrinterOf[x], x)' /\ known(PrinterOf[x], x)'
    BY <1>a, <2>1
  <2>5. PrinterOf[x] \in Printers /\ polled(PrinterOf[x], x) /\ known(PrinterOf[x], x)
    BY <1>a
  <2>6. /\ poll'[PrinterOf[x]].phase = poll[PrinterOf[x]].phase
        /\ poll'[PrinterOf[x]].cfg = poll[PrinterOf[x]].cfg
        /\ poll'[PrinterOf[x]].trays = poll[PrinterOf[x]].trays
        /\ seen' = seen /\ config' = config /\ manual' = manual
    BY <2>1, <2>2, <2>3, <2>5 DEF saved
  <2>7. CASE x # s
    <3>1. cleared'[x] = cleared[x]
      BY <2>4, <2>7
    <3> QED BY <2>5, <2>6, <3>1 DEF Newer
  <2>8. CASE x = s
    <3>1. PrinterOf[x] = p /\ Newer(poll[p].trays[s], s) /\ poll[p].cfg = config[p]
      BY <2>2, <2>5, <2>8 DEF Mine
    <3>2. ASSUME poll[p].trays[s].look \in Tagged, cleared'[s] = 0
          PROVE  poll[p].trays[s].read >= manual[s]
      <4>1. CASE cleared[s] = 0
        BY <3>1, <3>2, <4>1 DEF Newer
      <4>2. CASE cleared[s] # 0
        <5>1. ~UNCHANGED library
          BY <3>2, <4>2 DEF library
        <5>2. PICK roll \in Rolls \cup {Empty} : Applies(p, s, roll)
          BY <1>9, <5>1, ApplySlots
        <5> QED BY <3>2, <4>2, <5>2, PlacedIsNewer
      <4> QED BY <4>1, <4>2
    <3>3. /\ poll'[p].phase = "applying" /\ poll'[p].trays = poll[p].trays
          /\ poll'[p].cfg = poll[p].cfg /\ config' = config /\ manual' = manual
      BY <2>3, <2>6
    <3>4. Newer(poll[p].trays[s], s)'
      BY <3>2, <3>3 DEF Newer
    <3> QED BY <2>8, <3>1, <3>3, <3>4
  <2> QED BY <2>7, <2>8
<1>10. CASE Tick
  BY <1>0, <1>10 DEF Tick, library, saved
<1>11. ASSUME NEW s \in limit.slots, NEW c, Load(s, c) PROVE NoneOlder'
  BY <1>0, <1>11 DEF Load, library, saved
<1>12. ASSUME NEW s \in Slots, NEW r \in (limit.about \cap Rolls) \cup {Empty},
              NEW asked \in BOOLEAN, UserAssigns(s, r, asked)
       PROVE  NoneOlder'
  <2>1. /\ manual'[s] = cleared'[s]
        /\ \A x \in Slots \ {s} : cleared'[x] = cleared[x] /\ manual'[x] = manual[x]
    BY <1>12, UserAssignsEffect
  <2>2. UNCHANGED <<poll, config, seen, edits, errors>>
    BY <1>12 DEF UserAssigns, saved
  <2> SUFFICES ASSUME quiet, NEW x \in Slots
               PROVE  polled(PrinterOf[x], x)' /\ known(PrinterOf[x], x)'
    BY <1>a, <2>2
  <2>3. polled(PrinterOf[x], x) /\ known(PrinterOf[x], x)
    BY <1>a
  <2>4. CASE x # s
    <3>1. cleared'[x] = cleared[x] /\ manual'[x] = manual[x]
      BY <2>1, <2>4
    <3> QED BY <2>2, <2>3, <3>1 DEF Newer
  <2>5. CASE x = s
    <3>1. poll[PrinterOf[s]].trays[s].read \in Nat /\ seen[s].read \in Nat
      <4>1. poll[PrinterOf[s]].trays[s] \in Readings /\ seen[s] \in Readings
        BY PollIs DEF LiveTyped
      <4> QED BY <4>1, ReadingIs
    <3>2. Newer(poll[PrinterOf[s]].trays[s], s)' /\ Newer(seen[s], s)'
      BY <2>1, <2>2, <3>1 DEF Newer
    <3> QED BY <2>2, <2>3, <2>5, <3>2
  <2> QED BY <2>4, <2>5
<1>13. ASSUME NEW p \in Printers, NEW host, Recover(p, host) PROVE NoneOlder'
  BY <1>b, <1>13 DEF Recover
<1>14. ASSUME NEW p \in Printers, NEW b, Configure(p, b) PROVE NoneOlder'
  BY <1>b, <1>14 DEF Configure
<1>15. CASE SwitchRole \/ Restore
  BY <1>b, <1>15 DEF SwitchRole, Restore
<1>16. ASSUME NEW lost, Fault(lost) PROVE NoneOlder'
  BY <1>b, <1>16 DEF Fault
<1>17. CASE UNCHANGED liveVars
  BY <1>0, <1>17 DEF liveVars, library, saved
<1> QED BY Steps, <1>2, <1>3, <1>4, <1>6, <1>7, <1>8, <1>9, <1>10, <1>11, <1>12, <1>13,
           <1>14, <1>15, <1>16, <1>17 DEF LiveStep

-----------------------------------------------------------------------------
\* The inductive invariant holds from the start and at every step.
THEOREM LiveInvariance == LiveSpec => []LiveInv
<1>1. LiveInv /\ [LiveNext]_liveVars => LiveInv'
  BY NextTyped, PollsGatedNext, ObservedIsOwnNext, MeantNext, PassingNext, AllDatedNext,
     NoneOlderNext DEF LiveInv
<1> QED BY InitLiveInv, <1>1, PTL DEF LiveSpec

\* A pass leaves each slot as its trays say, however many rolls were swapped between them,
\* and the report it saves is of the printer that is configured (bambu_live_usage.rs).
THEOREM PassesSettle == LiveSpec => []PassSettles
<1>1. LiveInv => LiveTypeOK
  <2> SUFFICES ASSUME LiveInv PROVE LiveTypeOK
    OBVIOUS
  <2>1. LiveTyped /\ PollsGated
    BY DEF LiveInv
  <2>2. \A p \in Printers :
          /\ poll[p].phase \in {"idle", "captured", "answered", "failed", "applying"}
          /\ poll[p].todo \subseteq Mine(p) /\ poll[p].trays \in [Slots -> Readings]
          /\ gate = p <=> poll[p].phase = "applying"
    BY <2>1, PollIs DEF PollsGated, PollPhases
  <2> QED BY <2>1, <2>2 DEF LiveTyped, LiveTypeOK
<1>2. LiveInv => PassEnds
  BY DEF LiveInv, Passing, PassEnds, Alone
<1>3. LiveInv => PassSettles
  BY <1>1, <1>2 DEF LiveInv, PassSettles
<1> QED BY <1>3, LiveInvariance, PTL

\* What was observed for another library changes nothing of this one
\* (bambu_live_authority.rs:56-58).
THEOREM ForeignReportsDropped == LiveSpec => OwnLibraryOnly
<1>1. LiveInv /\ [LiveNext]_liveVars =>
        [\A p \in Printers : Applying(p) /\ asof.epoch # epoch =>
           UNCHANGED <<slot, cleared, override, seen>>]_liveVars
  BY DEF LiveInv, Meant, Applying
<1> QED BY <1>1, LiveInvariance, PTL DEF LiveSpec, OwnLibraryOnly

\* What a step says of a slot that it changes while a printer's pass is at the gate.
Prevails(p, s) ==
  Applying(p) /\ slot'[s] # slot[s] =>
    /\ slot'[s] \in Tagged /\ errors = 0 /\ edits = 0 => poll[p].trays[s].read >= manual[s]
    /\ slot[s] \notin Plain

LEMMA PassPrevails ==
  ASSUME LiveInv, NEW p \in Printers, NEW x \in Slots, ApplyTray(p, x), NEW s \in Slots
  PROVE  Prevails(p, s)
<1>1. LiveTyped /\ PollsGated /\ Passing /\ AllDated /\ NoneOlder
  BY DEF LiveInv
<1> SUFFICES ASSUME slot'[s] # slot[s]
             PROVE  /\ slot'[s] \in Tagged /\ errors = 0 /\ edits = 0
                       => poll[p].trays[s].read >= manual[s]
                    /\ slot[s] \notin Plain
  BY DEF Prevails
<1>2. CASE s # x
  <2>1. slot'[s] = Empty /\ slot[s] \in Tagged
    BY <1>1, <1>2, OthersKeep
  <2> QED BY <2>1, RollsAre, UnseenIs
<1>3. CASE s = x
  <2> DEFINE t == poll[p].trays[s]
  <2>1. gate = p /\ s \in poll[p].todo /\ s \in Mine(p) /\ poll[p].phase = "applying"
    BY <1>1, <1>3 DEF ApplyTray, PollsGated
  <2>2. BeforeTurn(p, s)
    BY <1>1, <2>1, PassingIs
  <2>3. slot[s] \in {over.slot[s], Empty} /\ over.slot[s] \in Rolls \cup {Empty}
    BY <1>1, <2>2, StaysIs DEF BeforeTurn
  <2>4. ~UNCHANGED library
    BY DEF library
  <2>5. PICK roll \in Rolls \cup {Empty} : Applies(p, s, roll)
    BY <1>1, <1>3, <2>4, ApplySlots
  <2>6. Assign(s, roll, FALSE, FALSE) /\ slot'[s] = roll
    BY <1>1, <2>5, AssignEffect DEF Applies
  <2>7. slot[s] \notin Plain
    <3>1. CASE Suggests(s, t)
      BY <3>1, RollsAre DEF Suggests
    <3>2. CASE Empties(s, t) \/ Places(s, t)
      BY <2>3, <3>2, RollsAre, UnseenIs DEF Empties, Places, Stays, CanUnload
    <3> QED BY <2>5, <3>1, <3>2 DEF Applies
  <2>8. ASSUME slot'[s] \in Tagged, errors = 0, edits = 0 PROVE t.read >= manual[s]
    <3>1. t.look \in Tagged
      BY <2>5, <2>6, <2>8, CandidatesAre, RollsAre, UnseenIs DEF Applies, Places, Exact
    <3>2. CASE cleared[s] # 0
      BY <1>1, <2>5, <3>1, <3>2, PlacedIsNewer
    <3>3. CASE cleared[s] = 0
      BY <1>1, <2>1, <2>8, <3>1, <3>3 DEF NoneOlder, Newer, Mine
    <3> QED BY <3>2, <3>3
  <2> QED BY <2>7, <2>8
<1> QED BY <1>2, <1>3

\* No known roll is placed on a reading older than the hand that cleared the slot, and a
\* roll that has to be weighed stays (bambu_live_usage.rs:153-183, 1350-1354).
THEOREM UsersPrevail == LiveSpec => HandsPrevail
<1>1. ASSUME LiveInv, LiveNext, NEW p \in Printers, NEW s \in Slots PROVE Prevails(p, s)
  <2>0. LiveTyped
    BY <1>1 DEF LiveInv
  <2>a. slot'[s] = slot[s] \/ gate # p => Prevails(p, s)
    BY DEF Prevails, Applying
  <2>b. gate = "free" => gate # p
    OBVIOUS
  <2>1. ASSUME NEW q \in Printers, NEW x \in Slots, ApplyTray(q, x) PROVE Prevails(p, s)
    <3>1. gate = q
      BY <2>1 DEF ApplyTray
    <3> QED BY <1>1, <2>1, <2>a, <3>1, PassPrevails
  <2>2. CASE CaptureBatch \/ Tick \/ SwitchRole \/ Restore
    BY <2>2, <2>a, <2>b DEF CaptureBatch, Tick, SwitchRole, Restore, library
  <2>3. ASSUME NEW q \in Printers, NEW fresh, NEW heartbeat, NEW busy,
               Observe(q, fresh, heartbeat, busy)
        PROVE  Prevails(p, s)
    BY <2>3, <2>a DEF Observe, library
  <2>4. ASSUME NEW q \in Printers, NoAnswer(q) \/ Enter(q) \/ Persist(q) \/ Offline(q)
        PROVE  Prevails(p, s)
    BY <2>4, <2>a DEF NoAnswer, Enter, Persist, Offline, library
  <2>5. ASSUME NEW q \in Printers, NEW host, Recover(q, host) PROVE Prevails(p, s)
    BY <2>5, <2>a DEF Recover, library
  <2>6. ASSUME NEW x \in limit.slots, NEW c, Load(x, c) PROVE Prevails(p, s)
    BY <2>6, <2>a DEF Load, library
  <2>7. ASSUME NEW x \in Slots, NEW r, NEW asked, UserAssigns(x, r, asked)
        PROVE  Prevails(p, s)
    BY <2>7, <2>a, <2>b DEF UserAssigns
  <2>8. ASSUME NEW q \in Printers, NEW b, Configure(q, b) PROVE Prevails(p, s)
    BY <2>8, <2>a DEF Configure, library
  <2>9. ASSUME NEW lost, Fault(lost) PROVE Prevails(p, s)
    BY <2>9, <2>a DEF Fault, library
  <2> QED BY <1>1, <2>0, Steps, <2>1, <2>2, <2>3, <2>4, <2>5, <2>6, <2>7, <2>8, <2>9
          DEF LiveStep
<1>2. LiveInv /\ [LiveNext]_liveVars =>
        [\A p \in Printers, s \in Slots : Applying(p) /\ slot'[s] # slot[s] =>
           /\ slot'[s] \in Tagged /\ errors = 0 /\ edits = 0 =>
                poll[p].trays[s].read >= manual[s]
           /\ slot[s] \notin Plain]_liveVars
  BY <1>1 DEF Prevails
<1> QED BY <1>2, LiveInvariance, PTL DEF LiveSpec, HandsPrevail

HIDE LiveAssumption

-----------------------------------------------------------------------------
(***************************************************************************)
(* CredentialVault.                                                        *)
(*                                                                         *)
(* Whatever number of bindings, profiles and codes there is, and however   *)
(* often the program dies or a store fails, a code the user relies on is   *)
(* found again, one that was taken away is not, and none is left in the    *)
(* open.                                                                   *)
(***************************************************************************)
USE VaultAssumption

-----------------------------------------------------------------------------
\* The inductive invariant.

Secrets == Codes \cup {NoCode}
Rows == [there : BOOLEAN, binding : 0..MaxBindings, configured : BOOLEAN,
         stale : SUBSET Bindings, plain : Secrets, own : Profiles,
         moved : BOOLEAN, complete : BOOLEAN, dirty : BOOLEAN]
Ops == [starting : BOOLEAN, stage : 0..3, kind : {"none", "clear", "delete", "reset"},
        binding : 0..MaxBindings, todo : SUBSET Bindings, left : SUBSET Bindings,
        failed : BOOLEAN, scrubbed : BOOLEAN, saved : [Bindings -> Secrets]]
Manifests == [profile : Profiles, keys : SUBSET Bindings, pending : BOOLEAN]
Issues == [binding : 0..MaxBindings, profile : Profiles]

Typed ==
  /\ vault \in [Names -> Secrets] /\ db \in Rows /\ manifest \in Manifests
  /\ handle \in Profiles /\ pc \in Pcs /\ op \in Ops /\ issued \in Issues
  /\ changes \in 0..MaxChanges /\ faults \in 0..MaxFaults
  /\ wanted \in Secrets /\ removed \in BOOLEAN /\ skipped \in BOOLEAN
  /\ foreign \subseteq Profiles \X Bindings

\* Every id in use was given out, and nothing is kept under a profile that was not.
Issued ==
  /\ \A b \in Named(db) : b <= issued.binding
  /\ db.own <= issued.profile /\ handle <= issued.profile
  /\ \A p \in Profiles, b \in Bindings : p > issued.profile => vault[<<p, b>>] = NoCode

\* A binding that is being introduced is the row's own or a new one.
Introduced ==
  /\ pc \in {"save", "replace"} => op.binding <= issued.binding
  /\ pc = "replace" => op.binding \in Bindings /\ op.binding \notin Named(db)
  /\ db.binding \notin db.stale
  /\ pc = "replace" => op.left = {}
  /\ pc \in {"legacy", "stale", "tidy"} => op.todo \subseteq db.stale /\ op.left \subseteq db.stale
  /\ pc \in {"save", "replace"} => \A n \in foreign : n[2] # op.binding

\* The library has a profile of its own before anything is moved there.
OwnFirst ==
  /\ db.own = 0 => ~db.moved
  /\ pc \in {"mark", "unlist", "profile", "drop"} => db.own # 0
  /\ pc = "purge" /\ op.stage # 1 => db.own # 0
  /\ pc = "codes" => db.moved
  /\ pc = "drop" => op.binding \in Bindings /\ vault[<<db.own, op.binding>>] # NoCode

\* A running program has cleaned the database; one that completed a start has no
\* code left to clean.
Running == \/ pc \in {"idle", "replace", "tidy", "remove", "rollback", "import", "fresh"}
           \/ pc \in {"purge", "mark", "unlist"} /\ ~op.starting
Clean ==
  /\ ~db.there \/ db.complete => db.plain = NoCode
  /\ db.complete => ~db.dirty
  /\ pc \in {"legacy", "stale", "compact"} => db.plain = NoCode
  /\ Running \/ pc = "complete" => db.plain = NoCode /\ ~db.dirty

\* What is found once the codes a removal has saved are back.
FoundBack ==
  LET kept  == IF db.binding = 0 THEN NoCode ELSE op.saved[db.binding]
      here  == IF db.binding = 0 THEN NoCode ELSE vault[<<db.own, db.binding>>]
      there == IF db.binding = 0 \/ db.moved THEN NoCode ELSE vault[<<0, db.binding>>]
  IN IF kept # NoCode THEN kept
     ELSE IF here # NoCode THEN here ELSE IF there # NoCode THEN there ELSE OldCode

\* The code the user relies on, at each point of a workflow.
Kept ==
  /\ wanted # NoCode /\ pc # "off" => handle = db.own
  /\ wanted # NoCode /\ pc \notin {"remove", "rollback"} => Found = wanted
  /\ wanted # NoCode /\ pc \in {"remove", "rollback"} => FoundBack = wanted
  /\ wanted # NoCode /\ pc = "save" =>
       op.binding \in Bindings /\ vault[<<db.own, op.binding>>] = wanted
  /\ wanted # NoCode /\ pc = "legacy" =>
       db.binding \in Bindings /\ vault[<<db.own, db.binding>>] = wanted
  /\ manifest.pending /\ pc # "import" => wanted = NoCode
  /\ pc \in {"purge", "mark", "unlist", "import"} => manifest.pending
  /\ pc = "fresh" => wanted = NoCode
  /\ pc \in {"remove", "rollback", "fresh"} => \A b \in Bindings :
       op.saved[b] # NoCode => vault[<<handle, b>>] \in {NoCode, op.saved[b]}
  /\ pc = "remove" => \A b \in Named(db) :
       op.saved[b] = NoCode => vault[<<handle, b>>] = NoCode

\* What has been taken away leaves nothing a later start could bring back.
Gone ==
  /\ ~skipped /\ (~db.there \/ Running \/ pc \in {"stale", "compact", "complete"}) =>
       vault[Legacy] = NoCode
  /\ removed /\ ~skipped =>
       /\ vault[Legacy] = NoCode /\ db.binding = 0 /\ db.plain = NoCode /\ ~db.configured
       /\ pc = "save" => op.binding = 0

\* The names of a replaced library are in the manifest until their codes are gone;
\* they are never used again.
Forgotten ==
  /\ \A n \in foreign :
       /\ n[2] \notin Named(db) /\ n[2] <= issued.binding
       /\ pc \in {"remove", "rollback", "fresh"} => op.saved[n[2]] = NoCode
       /\ vault[n] # NoCode =>
            /\ manifest.pending /\ n[1] = manifest.profile /\ n[2] \in manifest.keys
            /\ pc \notin {"mark", "unlist", "import"}
            /\ pc = "purge" => op.stage = 1 /\ (n[2] \in op.todo \/ op.failed)
  /\ pc = "import" => manifest.profile = handle /\ manifest.keys = Named(db)
  /\ pc = "purge" => op.stage \in 1..3

IInv == /\ Typed /\ Issued /\ Introduced /\ OwnFirst
        /\ Clean /\ Kept /\ Gone /\ Forgotten

-----------------------------------------------------------------------------
\* Names, and the records of the model.

LEMMA NamesAre ==
  /\ Legacy \in Names /\ 0 \in Profiles
  /\ \A p \in Profiles, b \in Bindings :
       <<p, b>> \in Names /\ <<p, b>> # Legacy /\ b # 0 /\ b \in Nat /\ p \in Nat
  BY DEF Names, Legacy, Profiles, Bindings

LEMMA NoOpIs ==
  /\ NoOp \in Ops
  /\ NoOp.starting = FALSE /\ NoOp.stage = 0 /\ NoOp.kind = "none" /\ NoOp.binding = 0
  /\ NoOp.todo = {} /\ NoOp.left = {} /\ NoOp.failed = FALSE /\ NoOp.scrubbed = FALSE
  /\ NoOp.saved = Nothing /\ Nothing \in [Bindings -> Secrets]
  /\ \A b \in Bindings : NoOp.saved[b] = NoCode
  BY DEF NoOp, Ops, Nothing, Secrets

LEMMA NoManifestIs ==
  NoManifest \in Manifests /\ NoManifest.pending = FALSE
  BY NamesAre DEF NoManifest, Manifests

\* The database of a new library, in the file of the old one, if that was clean.
LEMMA BlankIs ==
  ASSUME db \in Rows, ~db.dirty, NEW d, d = [Blank EXCEPT !.dirty = db.dirty]
  PROVE  /\ d \in Rows /\ d.there = FALSE /\ d.binding = 0 /\ d.configured = FALSE
         /\ d.stale = {} /\ d.plain = NoCode /\ d.own = 0 /\ d.moved = FALSE
         /\ d.complete = FALSE /\ d.dirty = FALSE
<1>1. db.dirty = FALSE
  BY DEF Rows
<1>2. d = Blank
  BY <1>1 DEF Blank
<1> QED
  <2>1. 0 \in 0..MaxBindings /\ {} \in SUBSET Bindings /\ NoCode \in Secrets /\ 0 \in Profiles
        /\ FALSE \in BOOLEAN
    BY NamesAre DEF Secrets
  <2>2. Blank \in Rows
    BY <2>1 DEF Blank, Rows
  <2>3. /\ Blank.there = FALSE /\ Blank.binding = 0 /\ Blank.configured = FALSE
        /\ Blank.stale = {} /\ Blank.plain = NoCode /\ Blank.own = 0 /\ Blank.moved = FALSE
        /\ Blank.complete = FALSE /\ Blank.dirty = FALSE
    BY DEF Blank
  <2> QED
    BY <1>2, <2>2, <2>3

LEMMA NamedAre ==
  ASSUME NEW d \in Rows
  PROVE  /\ Named(d) \in SUBSET Bindings /\ d.stale \subseteq Named(d)
         /\ \A b \in Bindings : b \in Named(d) <=> b \in d.stale \/ b = d.binding
         /\ d.binding # 0 => d.binding \in Bindings /\ d.binding \in Named(d)
  BY DEF Named, Rows, Bindings

\* One name of the vault changes.
VaultBecomes(n, c) ==
  /\ vault' \in [Names -> Secrets] /\ vault'[n] = c
  /\ \A m \in Names : m # n => vault'[m] = vault[m]

LEMMA PutBecomes ==
  ASSUME vault \in [Names -> Secrets], NEW n \in Names, NEW c \in Secrets, Put(n, c)
  PROVE  VaultBecomes(n, c)
  BY DEF Put, VaultBecomes

LEMMA TakeBecomes ==
  ASSUME vault \in [Names -> Secrets], NEW n \in Names, Take(n)
  PROVE  VaultBecomes(n, NoCode)
  BY PutBecomes DEF Take, Secrets

DbBecomes(th, bi, co, st, pl, ow, mo, cm, di) ==
  /\ db' \in Rows
  /\ db'.there = th /\ db'.binding = bi /\ db'.configured = co /\ db'.stale = st
  /\ db'.plain = pl /\ db'.own = ow /\ db'.moved = mo /\ db'.complete = cm /\ db'.dirty = di

OpBecomes(st, sg, ki, bi, to, le, fa, sc, sa) ==
  /\ op' \in Ops
  /\ op'.starting = st /\ op'.stage = sg /\ op'.kind = ki /\ op'.binding = bi
  /\ op'.todo = to /\ op'.left = le /\ op'.failed = fa /\ op'.scrubbed = sc /\ op'.saved = sa

LEMMA DoneWell ==
  ASSUME op \in Ops, NEW b \in Bindings, Done(b, TRUE)
  PROVE  OpBecomes(op.starting, op.stage, op.kind, op.binding, op.todo \ {b},
                   op.left, op.failed, op.scrubbed, op.saved)
<1>1. op' = [op EXCEPT !.todo = @ \ {b}]
  BY DEF Done, Ops
<1> QED
  BY <1>1 DEF OpBecomes, Ops

LEMMA DoneBadly ==
  ASSUME op \in Ops, NEW b \in Bindings, Done(b, FALSE)
  PROVE  OpBecomes(op.starting, op.stage, op.kind, op.binding, op.todo \ {b},
                   op.left \cup {b}, TRUE, op.scrubbed, op.saved)
<1>1. op' = [op EXCEPT !.todo = @ \ {b}, !.left = @ \cup {b}, !.failed = TRUE]
  BY DEF Done, Ops
<1> QED
  BY <1>1 DEF OpBecomes, Ops

\* The local variables of a workflow that begins.
LEMMA OpBegins ==
  ASSUME NEW st \in BOOLEAN, NEW sg \in 0..3, NEW ki \in {"none", "clear", "delete", "reset"},
         NEW bi \in 0..MaxBindings, NEW to \in SUBSET Bindings, NEW sa \in [Bindings -> Secrets],
         op' = [NoOp EXCEPT !.starting = st, !.stage = sg, !.kind = ki, !.binding = bi,
                            !.todo = to, !.saved = sa]
  PROVE  OpBecomes(st, sg, ki, bi, to, {}, FALSE, FALSE, sa)
  BY NoOpIs DEF OpBecomes, Ops

LEMMA OpTurns ==
  ASSUME op \in Ops, NEW sg \in 0..3, NEW to \in SUBSET Bindings,
         op' = [op EXCEPT !.stage = sg, !.todo = to]
  PROVE  OpBecomes(op.starting, sg, op.kind, op.binding, to, op.left, op.failed,
                   op.scrubbed, op.saved)
  BY DEF OpBecomes, Ops

LEMMA OpIntroduces ==
  ASSUME op \in Ops, NEW b \in 0..MaxBindings, op' = [op EXCEPT !.binding = b]
  PROVE  OpBecomes(op.starting, op.stage, op.kind, b, op.todo, op.left, op.failed,
                   op.scrubbed, op.saved)
  BY DEF OpBecomes, Ops

LEMMA OpRestores ==
  ASSUME op \in Ops, NEW b \in Bindings, op' = [op EXCEPT !.saved[b] = NoCode]
  PROVE  /\ OpBecomes(op.starting, op.stage, op.kind, op.binding, op.todo, op.left, op.failed,
                      op.scrubbed, op'.saved)
         /\ op'.saved[b] = NoCode /\ \A a \in Bindings \ {b} : op'.saved[a] = op.saved[a]
  BY DEF OpBecomes, Ops, Secrets

LEMMA Counting ==
  ASSUME faults \in 0..MaxFaults, changes \in 0..MaxChanges
  PROVE  /\ Works \/ Fails => faults' \in 0..MaxFaults
         /\ Asked => changes' \in 0..MaxChanges
  BY DEF Works, Fails, Asked

LEMMA OwnBecomes ==
  ASSUME db \in Rows, issued \in Issues, OwnProfile
  PROVE  /\ DbBecomes(db.there, db.binding, db.configured, db.stale, db.plain,
                      db'.own, db.moved, db.complete, db.dirty)
         /\ db'.own # 0 /\ db'.own \in Profiles /\ issued' \in Issues
         /\ issued'.binding = issued.binding
         /\ \/ db.own = 0 /\ db'.own = issued.profile + 1 /\ issued'.profile = issued.profile + 1
            \/ db.own # 0 /\ db'.own = db.own /\ issued' = issued /\ db' = db
<1>1. CASE db.own # 0
  BY <1>1 DEF OwnProfile, DbBecomes, Rows, Issues
<1>2. CASE db.own = 0
  <2> DEFINE p == issued.profile + 1
  <2>1. p \in Profiles /\ p # 0
    BY <1>2 DEF OwnProfile, Issues, Profiles
  <2>2. db' = [db EXCEPT !.own = p] /\ issued' = [issued EXCEPT !.profile = p]
    BY <1>2 DEF OwnProfile
  <2> HIDE DEF p
  <2>3. /\ db'.own = p
        /\ DbBecomes(db.there, db.binding, db.configured, db.stale, db.plain,
                     p, db.moved, db.complete, db.dirty)
    BY <2>1, <2>2 DEF DbBecomes, Rows
  <2>4. issued' \in Issues /\ issued'.profile = p /\ issued'.binding = issued.binding
    BY <2>1, <2>2 DEF Issues
  <2> QED
    BY <1>2, <2>1, <2>3, <2>4 DEF p
<1> QED
  BY <1>1, <1>2

-----------------------------------------------------------------------------
\* What is found does not depend on any other name.

LEMMA FoundStays ==
  ASSUME Typed, vault' \in [Names -> Secrets],
         db'.binding = db.binding, db'.own = db.own, db'.moved = db.moved, db'.plain = db.plain,
         vault'[Legacy] = vault[Legacy],
         db.binding # 0 => /\ vault'[<<db.own, db.binding>>] = vault[<<db.own, db.binding>>]
                           /\ vault'[<<0, db.binding>>] = vault[<<0, db.binding>>]
  PROVE  Found' = Found /\ (op'.saved = op.saved => FoundBack' = FoundBack)
  BY DEF Found, FoundBack, OldCode

\* A workflow's step that leaves both stores and what is promised of them.
LEMMA NamedStay ==
  ASSUME db'.binding = db.binding, db'.stale = db.stale
  PROVE  Named(db)' = Named(db)
  BY DEF Named

LEMMA Given ==
  ASSUME IInv
  PROVE  /\ Typed /\ Issued /\ Introduced /\ OwnFirst /\ Clean /\ Kept /\ Gone /\ Forgotten
         /\ db \in Rows /\ issued \in Issues /\ manifest \in Manifests /\ op \in Ops
         /\ vault \in [Names -> Secrets] /\ handle \in Profiles
  BY DEF IInv, Typed

-----------------------------------------------------------------------------
\* The start, up to the profile.

LEMMA BootStep ==
  ASSUME IInv, Boot
  PROVE  IInv'
<1>1. /\ Typed /\ Issued /\ Introduced /\ OwnFirst /\ Clean /\ Kept /\ Gone /\ Forgotten
  BY DEF IInv
<1>2. db \in Rows /\ issued \in Issues /\ manifest \in Manifests /\ op \in Ops
  BY <1>1 DEF Typed
<1>3. /\ DbBecomes(db.there, db.binding, db.configured, db.stale, db.plain,
                   db'.own, db.moved, db.complete, db.dirty)
      /\ db'.own # 0 /\ db'.own \in Profiles /\ issued' \in Issues
      /\ issued'.binding = issued.binding
      /\ \/ db.own = 0 /\ db'.own = issued.profile + 1 /\ issued'.profile = issued.profile + 1
         \/ db.own # 0 /\ db'.own = db.own /\ issued' = issued /\ db' = db
  BY <1>2, OwnBecomes DEF Boot
<1>4. OpBecomes(TRUE, 1, "none", 0, manifest.keys, {}, FALSE, FALSE, Nothing)
  <2>1. op' = [NoOp EXCEPT !.starting = TRUE, !.stage = 1, !.kind = "none", !.binding = 0,
                           !.todo = manifest.keys, !.saved = Nothing]
    BY NoOpIs DEF Boot, NoOp
  <2>2. manifest.keys \in SUBSET Bindings /\ Nothing \in [Bindings -> Secrets]
    BY <1>2, NoOpIs DEF Manifests
  <2>3. TRUE \in BOOLEAN /\ 1 \in 0..3 /\ "none" \in {"none", "clear", "delete", "reset"}
        /\ 0 \in 0..MaxBindings
    OBVIOUS
  <2> DEFINE to == manifest.keys
  <2> HIDE DEF to
  <2>4. op' = [NoOp EXCEPT !.starting = TRUE, !.stage = 1, !.kind = "none", !.binding = 0,
                           !.todo = to, !.saved = Nothing] /\ to \in SUBSET Bindings
    BY <2>1, <2>2 DEF to
  <2>5. OpBecomes(TRUE, 1, "none", 0, to, {}, FALSE, FALSE, Nothing)
    BY <2>2, <2>3, <2>4, OpBegins
  <2> QED
    BY <2>5 DEF to
<1>5. /\ handle' = db'.own
      /\ UNCHANGED <<vault, manifest, changes, faults, wanted, removed, skipped, foreign>>
      /\ pc = "off" /\ pc' = IF manifest.pending THEN "purge" ELSE "profile"
  BY DEF Boot, history
<1>6. Named(db)' = Named(db)
  BY <1>3, NamedStay DEF DbBecomes
<1>7. Typed'
  BY <1>1, <1>3, <1>4, <1>5 DEF Typed, DbBecomes, OpBecomes, Pcs
<1>8. Issued'
  BY <1>1, <1>2, <1>3, <1>5, <1>6, NamesAre DEF Issued, Issues, Profiles
<1>9. Introduced' /\ OwnFirst'
  BY <1>1, <1>3, <1>4, <1>5 DEF Introduced, OwnFirst, DbBecomes, OpBecomes
<1>10. Clean' /\ Gone'
  BY <1>1, <1>3, <1>4, <1>5 DEF Clean, Gone, Running, DbBecomes, OpBecomes
<1>11. Found' = Found
  <2>1. CASE db.own # 0
    BY <1>1, <1>3, <1>5, <2>1, FoundStays DEF Typed
  <2>2. CASE db.own = 0
    <3>1. ~db.moved /\ db'.moved = FALSE
      BY <1>1, <1>3, <2>2 DEF OwnFirst, DbBecomes, Rows
    <3>2. db.binding # 0 => vault[<<db'.own, db.binding>>] = NoCode
      BY <1>1, <1>2, <1>3, <2>2, NamedAre DEF Issued, Issues, Profiles
    <3> QED
      BY <1>3, <1>5, <2>2, <3>1, <3>2 DEF Found, OldCode, DbBecomes
  <2> QED
    BY <2>1, <2>2
<1>12. Kept'
  BY <1>1, <1>3, <1>4, <1>5, <1>11 DEF Kept
<1>13. Forgotten'
  BY <1>1, <1>3, <1>4, <1>5, <1>6 DEF Forgotten, OpBecomes
<1> QED
  BY <1>7, <1>8, <1>9, <1>10, <1>12, <1>13 DEF IInv

LEMMA PurgeOneStep ==
  ASSUME IInv, PurgeOne
  PROVE  IInv'
<1>1. /\ Typed /\ Issued /\ Introduced /\ OwnFirst /\ Clean /\ Kept /\ Gone /\ Forgotten
  BY DEF IInv
<1>2. db \in Rows /\ issued \in Issues /\ manifest \in Manifests /\ op \in Ops
      /\ vault \in [Names -> Secrets]
  BY <1>1 DEF Typed
<1>3. PICK b \in op.todo :
         \/ Works /\ Take(<<PurgeProfile, b>>) /\ Done(b, TRUE)
         \/ Fails /\ Done(b, FALSE) /\ UNCHANGED vault
  BY DEF PurgeOne
<1>4. /\ UNCHANGED <<db, manifest, handle, pc, issued, changes, wanted, removed, skipped, foreign>>
      /\ pc = "purge"
  BY DEF PurgeOne, history
<1>5. b \in Bindings /\ PurgeProfile \in Profiles
  BY <1>2, <1>3, NamesAre DEF Ops, PurgeProfile, Manifests, Rows
<1> DEFINE n == <<PurgeProfile, b>>
<1>6. n \in Names /\ n # Legacy
  BY <1>5, NamesAre
<1>7. \/ /\ VaultBecomes(n, NoCode)
         /\ OpBecomes(op.starting, op.stage, op.kind, op.binding, op.todo \ {b},
                      op.left, op.failed, op.scrubbed, op.saved)
      \/ /\ vault' = vault
         /\ OpBecomes(op.starting, op.stage, op.kind, op.binding, op.todo \ {b},
                      op.left \cup {b}, TRUE, op.scrubbed, op.saved)
  <2>1. CASE Works /\ Take(<<PurgeProfile, b>>) /\ Done(b, TRUE)
    BY <1>2, <1>5, <1>6, <2>1, TakeBecomes, DoneWell
  <2>2. CASE Fails /\ Done(b, FALSE) /\ UNCHANGED vault
    BY <1>2, <1>5, <2>2, DoneBadly
  <2> QED
    BY <1>3, <2>1, <2>2
<1>8. /\ vault' \in [Names -> Secrets] /\ vault'[Legacy] = vault[Legacy]
      /\ \A m \in Names : vault'[m] = vault[m] \/ vault'[m] = NoCode
      /\ \A m \in Names : m # n => vault'[m] = vault[m]
  BY <1>2, <1>6, <1>7, NamesAre DEF VaultBecomes
<1>9. /\ op' \in Ops /\ op'.starting = op.starting /\ op'.stage = op.stage
      /\ op'.binding = op.binding /\ op'.saved = op.saved /\ op'.todo = op.todo \ {b}
      /\ op.failed => op'.failed
  BY <1>7 DEF OpBecomes
<1>10. Typed'
  <2>1. faults' \in 0..MaxFaults
    BY <1>1, <1>3, Counting DEF Typed
  <2> QED
    BY <1>1, <1>4, <1>8, <1>9, <2>1 DEF Typed
<1>11. Issued'
  BY <1>1, <1>4, <1>8, NamesAre DEF Issued
<1>12. Introduced' /\ OwnFirst'
  BY <1>1, <1>4, <1>9 DEF Introduced, OwnFirst
<1>13. Clean' /\ Gone'
  BY <1>1, <1>4, <1>8, <1>9 DEF Clean, Gone, Running
<1>14. Kept'
  BY <1>1, <1>4 DEF Kept
<1>15. Forgotten'
  <2>1. ASSUME NEW m \in foreign, vault'[m] # NoCode
        PROVE  op'.stage = 1 /\ (m[2] \in op'.todo \/ op'.failed)
    <3>1. m \in Names /\ vault[m] # NoCode
      BY <1>1, <1>4, <1>8, <2>1, NamesAre DEF Typed, Names
    <3>2. m[1] = manifest.profile /\ op.stage = 1 /\ (m[2] \in op.todo \/ op.failed)
      BY <1>1, <1>4, <2>1, <3>1 DEF Forgotten
    <3>3. CASE m[2] = b
      <4>1. m = n
        BY <1>1, <1>4, <2>1, <3>2, <3>3 DEF Typed, PurgeProfile
      <4>2. ~VaultBecomes(n, NoCode)
        BY <2>1, <4>1 DEF VaultBecomes
      <4> QED
        BY <1>7, <1>9, <3>2, <4>2 DEF OpBecomes
    <3> QED
      BY <1>9, <3>2, <3>3
  <2>2. \A m \in foreign : m \in Names
    BY <1>1 DEF Typed, Names
  <2> QED
    BY <1>1, <1>4, <1>8, <1>9, <2>1, <2>2 DEF Forgotten
<1> QED
  BY <1>10, <1>11, <1>12, <1>13, <1>14, <1>15 DEF IInv

\* A workflow that gives up leaves the stores to the next one.
LEMMA GivesUpBecomes ==
  ASSUME op \in Ops, GivesUp
  PROVE  /\ pc' \in {"off", "idle"} /\ (pc' = "off" <=> op.starting)
         /\ OpBecomes(FALSE, 0, "none", 0, {}, {}, FALSE, FALSE, Nothing)
  BY NoOpIs DEF GivesUp, OpBecomes

LEMMA PurgedStep ==
  ASSUME IInv, Purged
  PROVE  IInv'
<1>1. /\ Typed /\ Issued /\ Introduced /\ OwnFirst /\ Clean /\ Kept /\ Gone /\ Forgotten
  BY DEF IInv
<1>2. db \in Rows /\ issued \in Issues /\ manifest \in Manifests /\ op \in Ops
      /\ vault \in [Names -> Secrets]
  BY <1>1 DEF Typed
<1>3. /\ UNCHANGED <<vault, manifest, handle, changes, faults, wanted, removed, skipped, foreign>>
      /\ pc = "purge" /\ op.todo = {}
  BY DEF Purged, history
<1>4. wanted = NoCode /\ manifest.pending /\ op.stage \in 1..3
  BY <1>1, <1>3 DEF Kept, Forgotten
<1>5. CASE op.failed /\ GivesUp /\ UNCHANGED <<db, issued>>
  <2>1. /\ pc' \in {"off", "idle"} /\ (pc' = "off" <=> op.starting)
        /\ OpBecomes(FALSE, 0, "none", 0, {}, {}, FALSE, FALSE, Nothing)
    BY <1>2, <1>5, GivesUpBecomes
  <2>2. Typed' /\ Issued' /\ Introduced' /\ OwnFirst'
    BY <1>1, <1>3, <1>5, <2>1 DEF Typed, Issued, Introduced, OwnFirst, OpBecomes, Pcs
  <2>3. Clean' /\ Gone' /\ Kept' /\ Forgotten'
    BY <1>1, <1>3, <1>4, <1>5, <2>1 DEF Clean, Gone, Kept, Forgotten, Running, OpBecomes
  <2> QED
    BY <2>2, <2>3 DEF IInv
<1>6. ASSUME ~op.failed
      PROVE  \A n \in foreign : op.stage = 1 => vault[n] = NoCode
  BY <1>1, <1>3, <1>6 DEF Forgotten
<1>7. CASE ~op.failed /\ op.stage = 1 /\ OwnProfile /\ UNCHANGED pc
           /\ op' = [op EXCEPT !.stage = 2, !.todo = Named(db)]
  <2>1. /\ DbBecomes(db.there, db.binding, db.configured, db.stale, db.plain,
                     db'.own, db.moved, db.complete, db.dirty)
        /\ db'.own # 0 /\ db'.own \in Profiles /\ issued' \in Issues
        /\ issued'.binding = issued.binding
        /\ \/ db.own = 0 /\ db'.own = issued.profile + 1 /\ issued'.profile = issued.profile + 1
           \/ db.own # 0 /\ db'.own = db.own /\ issued' = issued /\ db' = db
    BY <1>2, <1>7, OwnBecomes
  <2>2. OpBecomes(op.starting, 2, op.kind, op.binding, Named(db), op.left, op.failed,
                  op.scrubbed, op.saved)
    <3>1. Named(db) \in SUBSET Bindings
      BY <1>2, NamedAre
    <3>2. 2 \in 0..3 /\ op' = [op EXCEPT !.stage = 2, !.todo = Named(db)]
      BY <1>7
    <3> QED
      BY <1>2, <3>1, <3>2, OpTurns
  <2>3. Named(db)' = Named(db)
    BY <2>1, NamedStay DEF DbBecomes
  <2>4. Typed'
    BY <1>1, <1>3, <1>7, <2>1, <2>2 DEF Typed, DbBecomes, OpBecomes
  <2>5. Issued'
    <3>1. issued.profile <= issued'.profile /\ db'.own <= issued'.profile
          /\ issued.profile \in Nat /\ issued'.profile \in Nat
      BY <1>1, <1>2, <2>1 DEF Issued, Issues, Profiles
    <3>2. handle \in Nat /\ handle <= issued'.profile
      BY <1>1, <3>1 DEF Issued, Typed, Profiles
    <3>3. ASSUME NEW p \in Profiles, NEW b \in Bindings, p > issued'.profile
          PROVE  vault[<<p, b>>] = NoCode
      <4>1. p > issued.profile
        BY <3>1, <3>3 DEF Profiles
      <4> QED
        BY <1>1, <4>1 DEF Issued
    <3> QED
      BY <1>1, <1>3, <2>1, <2>3, <3>1, <3>2, <3>3 DEF Issued
  <2>6. Introduced' /\ OwnFirst'
    BY <1>1, <1>3, <1>7, <2>1, <2>2 DEF Introduced, OwnFirst, DbBecomes, OpBecomes
  <2>7. Clean' /\ Gone'
    BY <1>1, <1>3, <1>7, <2>1, <2>2 DEF Clean, Gone, Running, DbBecomes, OpBecomes
  <2>8. Kept'
    BY <1>3, <1>4, <1>7 DEF Kept
  <2>9. Forgotten'
    <3>1. \A n \in foreign : vault'[n] = NoCode
      BY <1>3, <1>6, <1>7
    <3>2. pc' = "purge" /\ op'.stage = 2
      BY <1>3, <1>7, <2>2 DEF OpBecomes
    <3> QED
      BY <1>1, <1>3, <2>1, <2>3, <3>1, <3>2 DEF Forgotten
  <2> QED
    BY <2>4, <2>5, <2>6, <2>7, <2>8, <2>9 DEF IInv
<1>8. CASE ~op.failed /\ op.stage = 2 /\ UNCHANGED <<db, issued, pc>>
           /\ op' = [op EXCEPT !.stage = 3, !.todo = Named(db)]
  <2>1. OpBecomes(op.starting, 3, op.kind, op.binding, Named(db), op.left, op.failed,
                  op.scrubbed, op.saved)
    <3>1. Named(db) \in SUBSET Bindings
      BY <1>2, NamedAre
    <3>2. 3 \in 0..3 /\ op' = [op EXCEPT !.stage = 3, !.todo = Named(db)]
      BY <1>8
    <3> QED
      BY <1>2, <3>1, <3>2, OpTurns
  <2>2. Typed' /\ Issued' /\ Introduced' /\ OwnFirst'
    BY <1>1, <1>3, <1>8, <2>1 DEF Typed, Issued, Introduced, OwnFirst, OpBecomes
  <2>3. Clean' /\ Gone' /\ Kept' /\ Forgotten'
    BY <1>1, <1>3, <1>4, <1>8, <2>1 DEF Clean, Gone, Kept, Forgotten, Running, OpBecomes
  <2> QED
    BY <2>2, <2>3 DEF IInv
<1>9. CASE ~op.failed /\ op.stage = 3 /\ pc' = "mark" /\ UNCHANGED <<db, issued, op>>
  <2>1. Typed' /\ Issued' /\ Introduced' /\ OwnFirst'
    BY <1>1, <1>3, <1>9 DEF Typed, Issued, Introduced, OwnFirst, Pcs
  <2>2. Clean' /\ Gone' /\ Kept' /\ Forgotten'
    BY <1>1, <1>3, <1>4, <1>9 DEF Clean, Gone, Kept, Forgotten, Running
  <2> QED
    BY <2>1, <2>2 DEF IInv
<1> QED
  BY <1>5, <1>7, <1>8, <1>9 DEF Purged

LEMMA SwitchProfileStep ==
  ASSUME IInv, SwitchProfile
  PROVE  IInv'
<1>1. /\ Typed /\ Issued /\ Introduced /\ OwnFirst /\ Clean /\ Kept /\ Gone /\ Forgotten
  BY DEF IInv
<1>2. db \in Rows /\ issued \in Issues /\ manifest \in Manifests /\ op \in Ops
      /\ vault \in [Names -> Secrets]
  BY <1>1 DEF Typed
<1>3. /\ UNCHANGED <<vault, manifest, issued, changes, wanted, removed, skipped, foreign>>
      /\ pc = "mark" /\ faults' \in 0..MaxFaults
  BY <1>1, Counting DEF SwitchProfile, history, Typed
<1>4. wanted = NoCode /\ manifest.pending
  BY <1>1, <1>3 DEF Kept
<1>5. CASE Fails /\ GivesUp /\ UNCHANGED <<db, handle>>
  <2>1. /\ pc' \in {"off", "idle"} /\ (pc' = "off" <=> op.starting)
        /\ OpBecomes(FALSE, 0, "none", 0, {}, {}, FALSE, FALSE, Nothing)
    BY <1>2, <1>5, GivesUpBecomes
  <2>2. Typed' /\ Issued' /\ Introduced' /\ OwnFirst'
    BY <1>1, <1>3, <1>5, <2>1 DEF Typed, Issued, Introduced, OwnFirst, OpBecomes, Pcs
  <2>3. Clean' /\ Gone' /\ Kept' /\ Forgotten'
    BY <1>1, <1>3, <1>4, <1>5, <2>1 DEF Clean, Gone, Kept, Forgotten, Running, OpBecomes
  <2> QED
    BY <2>2, <2>3 DEF IInv
<1>6. CASE db' = [db EXCEPT !.moved = TRUE] /\ handle' = db.own /\ pc' = "unlist" /\ UNCHANGED op
  <2>1. DbBecomes(db.there, db.binding, db.configured, db.stale, db.plain,
                  db.own, TRUE, db.complete, db.dirty)
    BY <1>2, <1>6 DEF DbBecomes, Rows
  <2>2. Named(db)' = Named(db) /\ db.own \in Profiles
    BY <1>2, <2>1, NamedStay DEF DbBecomes, Rows
  <2>3. Typed'
    BY <1>1, <1>3, <1>6, <2>1, <2>2 DEF Typed, DbBecomes, Pcs
  <2>4. Issued' /\ Introduced' /\ OwnFirst'
    BY <1>1, <1>3, <1>6, <2>1, <2>2 DEF Issued, Introduced, OwnFirst, DbBecomes
  <2>5. Clean' /\ Gone' /\ Kept' /\ Forgotten'
    BY <1>1, <1>3, <1>4, <1>6, <2>1, <2>2
       DEF Clean, Gone, Kept, Forgotten, Running, DbBecomes
  <2> QED
    BY <2>3, <2>4, <2>5 DEF IInv
<1> QED
  BY <1>5, <1>6 DEF SwitchProfile

LEMMA ClearManifestStep ==
  ASSUME IInv, ClearManifest
  PROVE  IInv'
<1>1. /\ Typed /\ Issued /\ Introduced /\ OwnFirst /\ Clean /\ Kept /\ Gone /\ Forgotten
  BY DEF IInv
<1>2. manifest \in Manifests /\ op \in Ops
  BY <1>1 DEF Typed
<1>3. /\ UNCHANGED <<vault, db, handle, issued, changes, wanted, removed, skipped, foreign>>
      /\ pc = "unlist" /\ faults' \in 0..MaxFaults
  BY <1>1, Counting DEF ClearManifest, history, Typed
<1>4. wanted = NoCode /\ manifest.pending
  BY <1>1, <1>3 DEF Kept
<1>5. \A n \in foreign : vault[n] = NoCode
  BY <1>1, <1>3 DEF Forgotten
<1>6. CASE Fails /\ GivesUp /\ UNCHANGED manifest
  <2>1. /\ pc' \in {"off", "idle"} /\ (pc' = "off" <=> op.starting)
        /\ OpBecomes(FALSE, 0, "none", 0, {}, {}, FALSE, FALSE, Nothing)
    BY <1>2, <1>6, GivesUpBecomes
  <2>2. Typed' /\ Issued' /\ Introduced' /\ OwnFirst'
    BY <1>1, <1>3, <1>6, <2>1 DEF Typed, Issued, Introduced, OwnFirst, OpBecomes, Pcs
  <2>3. Clean' /\ Gone' /\ Kept' /\ Forgotten'
    BY <1>1, <1>3, <1>4, <1>6, <2>1 DEF Clean, Gone, Kept, Forgotten, Running, OpBecomes
  <2> QED
    BY <2>2, <2>3 DEF IInv
<1>7. CASE manifest' = NoManifest /\ op.starting /\ pc' = "profile" /\ op' = op
  <2>1. Typed' /\ Issued' /\ Introduced' /\ OwnFirst'
    BY <1>1, <1>3, <1>7, NoManifestIs DEF Typed, Issued, Introduced, OwnFirst, Pcs
  <2>2. Clean' /\ Gone' /\ Kept' /\ Forgotten'
    BY <1>1, <1>3, <1>4, <1>5, <1>7 DEF Clean, Gone, Kept, Forgotten, Running
  <2> QED
    BY <2>1, <2>2 DEF IInv
<1>8. CASE manifest' = NoManifest /\ ~op.starting /\ pc' = "idle" /\ op' = NoOp
  <2>1. Typed' /\ Issued' /\ Introduced' /\ OwnFirst'
    BY <1>1, <1>3, <1>8, NoManifestIs, NoOpIs DEF Typed, Issued, Introduced, OwnFirst, Pcs
  <2>2. Clean' /\ Gone' /\ Kept' /\ Forgotten'
    BY <1>1, <1>3, <1>4, <1>5, <1>8 DEF Clean, Gone, Kept, Forgotten, Running
  <2> QED
    BY <2>1, <2>2 DEF IInv
<1> QED
  BY <1>6, <1>7, <1>8 DEF ClearManifest

-----------------------------------------------------------------------------
\* The start: the codes of older releases.

LEMMA CopyCodeStep ==
  ASSUME IInv, CopyCode
  PROVE  IInv'
<1>1. /\ Typed /\ Issued /\ Introduced /\ OwnFirst /\ Clean /\ Kept /\ Gone /\ Forgotten
      /\ db \in Rows /\ op \in Ops /\ vault \in [Names -> Secrets]
  BY Given
<1>2. PICK b \in ToMove : /\ Movable(b) /\ Put(<<db.own, b>>, vault[<<0, b>>])
                          /\ op' = [op EXCEPT !.binding = b]
  BY DEF CopyCode
<1>3. /\ UNCHANGED <<db, manifest, handle, issued, changes, faults, wanted, removed, skipped, foreign>>
      /\ pc = "profile" /\ pc' = "drop" /\ ~db.moved
  BY DEF CopyCode, history
<1>4. b \in Bindings /\ b \in Named(db) /\ vault[<<0, b>>] # NoCode /\ db.own # 0
      /\ db.own \in Profiles
  BY <1>1, <1>2, <1>3, NamedAre DEF ToMove, OwnFirst, Rows
<1> DEFINE n == <<db.own, b>>
<1>5. n \in Names /\ n # Legacy /\ <<0, b>> \in Names /\ n # <<0, b>>
      /\ vault[<<0, b>>] \in Secrets
  BY <1>1, <1>4, NamesAre
<1>6. VaultBecomes(n, vault[<<0, b>>])
  BY <1>1, <1>2, <1>5, PutBecomes
<1>7. OpBecomes(op.starting, op.stage, op.kind, b, op.todo, op.left, op.failed,
                op.scrubbed, op.saved)
  BY <1>1, <1>2, <1>4, OpIntroduces DEF Bindings
<1>8. vault'[Legacy] = vault[Legacy] /\ vault'[n] # NoCode
      /\ \A m \in Names : m # n => vault'[m] = vault[m]
  BY <1>4, <1>5, <1>6, NamesAre DEF VaultBecomes
<1>9. Typed'
  BY <1>1, <1>3, <1>6, <1>7 DEF Typed, VaultBecomes, OpBecomes, Pcs
<1>10. Issued'
  <2>1. ASSUME NEW p \in Profiles, NEW a \in Bindings, p > issued.profile
        PROVE  vault'[<<p, a>>] = NoCode
    <3>1. p # db.own
      BY <1>1, <2>1 DEF Issued, Issues, Profiles, Typed
    <3>2. <<p, a>> \in Names /\ <<p, a>> # n
      BY <3>1, NamesAre
    <3> QED
      BY <1>1, <1>8, <2>1, <3>2 DEF Issued
  <2> QED
    BY <1>1, <1>3, <2>1 DEF Issued
<1>11. Introduced' /\ OwnFirst'
  BY <1>1, <1>3, <1>4, <1>7, <1>8 DEF Introduced, OwnFirst, OpBecomes
<1>12. Clean' /\ Gone'
  BY <1>1, <1>3, <1>7, <1>8 DEF Clean, Gone, Running, OpBecomes
<1>13. Found' = Found
  <2>1. CASE b = db.binding
    <3>1. vault[<<db.own, db.binding>>] \in {NoCode, vault[<<0, db.binding>>]}
      BY <1>2, <2>1 DEF Movable
    <3>2. vault'[<<db.own, db.binding>>] = vault[<<0, db.binding>>]
          /\ vault[<<0, db.binding>>] # NoCode
      BY <1>4, <1>6, <2>1 DEF VaultBecomes
    <3>3. db.binding # 0
      BY <1>4, <2>1, NamesAre
    <3> QED
      BY <1>3, <3>1, <3>2, <3>3 DEF Found
  <2>2. CASE b # db.binding
    <3>1. db.binding # 0 => /\ vault'[<<db.own, db.binding>>] = vault[<<db.own, db.binding>>]
                            /\ vault'[<<0, db.binding>>] = vault[<<0, db.binding>>]
      BY <1>1, <1>4, <1>8, <2>2, NamedAre, NamesAre
    <3>2. vault' \in [Names -> Secrets]
      BY <1>6 DEF VaultBecomes
    <3> QED
      BY <1>1, <1>3, <1>8, <3>1, <3>2, FoundStays
  <2> QED
    BY <2>1, <2>2
<1>14. Kept'
  BY <1>1, <1>3, <1>13 DEF Kept
<1>15. Forgotten'
  <2>1. \A m \in foreign : m \in Names /\ m # n
    BY <1>1, <1>4, NamesAre DEF Typed, Forgotten, Names
  <2>2. \A m \in foreign : vault'[m] = vault[m]
    BY <1>8, <2>1
  <2> QED
    BY <1>1, <1>3, <1>7, <2>2 DEF Forgotten, OpBecomes
<1> QED
  BY <1>9, <1>10, <1>11, <1>12, <1>14, <1>15 DEF IInv

LEMMA DropSourceStep ==
  ASSUME IInv, DropSource
  PROVE  IInv'
<1>1. /\ Typed /\ Issued /\ Introduced /\ OwnFirst /\ Clean /\ Kept /\ Gone /\ Forgotten
      /\ db \in Rows /\ op \in Ops /\ vault \in [Names -> Secrets]
  BY Given
<1>2. /\ UNCHANGED <<db, manifest, handle, op, issued, changes, faults, wanted, removed, skipped, foreign>>
      /\ pc = "drop" /\ pc' = "profile" /\ Take(<<0, op.binding>>)
  BY DEF DropSource, history
<1> DEFINE b == op.binding
           n == <<0, b>>
<1>3. b \in Bindings /\ vault[<<db.own, b>>] # NoCode /\ db.own # 0 /\ db.own \in Profiles
  BY <1>1, <1>2 DEF OwnFirst, Rows
<1>4. n \in Names /\ n # Legacy /\ <<db.own, b>> # n
  BY <1>3, NamesAre
<1>5. VaultBecomes(n, NoCode)
  BY <1>1, <1>2, <1>4, TakeBecomes
<1>6. /\ vault' \in [Names -> Secrets] /\ vault'[Legacy] = vault[Legacy]
      /\ \A m \in Names : m # n => vault'[m] = vault[m]
      /\ \A m \in Names : vault'[m] = vault[m] \/ vault'[m] = NoCode
  BY <1>4, <1>5, NamesAre DEF VaultBecomes
<1>7. Typed' /\ Issued' /\ Introduced' /\ OwnFirst'
  BY <1>1, <1>2, <1>3, <1>6, NamesAre DEF Typed, Issued, Introduced, OwnFirst, Pcs
<1>8. Clean' /\ Gone'
  BY <1>1, <1>2, <1>6 DEF Clean, Gone, Running
<1>9. Found' = Found
  <2>1. CASE b = db.binding
    <3>1. <<db.own, b>> \in Names
      BY <1>3, NamesAre
    <3>2. vault'[<<db.own, db.binding>>] = vault[<<db.own, db.binding>>]
          /\ vault[<<db.own, db.binding>>] # NoCode /\ db.binding # 0
      BY <1>3, <1>4, <1>6, <2>1, <3>1, NamesAre
    <3> QED
      BY <1>2, <3>2 DEF Found
  <2>2. CASE b # db.binding
    <3>1. db.binding # 0 => /\ vault'[<<db.own, db.binding>>] = vault[<<db.own, db.binding>>]
                            /\ vault'[<<0, db.binding>>] = vault[<<0, db.binding>>]
      BY <1>1, <1>3, <1>6, <2>2, NamedAre, NamesAre
    <3> QED
      BY <1>1, <1>2, <1>6, <3>1, FoundStays
  <2> QED
    BY <2>1, <2>2
<1>10. Kept'
  BY <1>1, <1>2, <1>9 DEF Kept
<1>11. Forgotten'
  <2>1. \A m \in foreign : m \in Names
    BY <1>1 DEF Typed, Names
  <2> QED
    BY <1>1, <1>2, <1>6, <2>1 DEF Forgotten
<1> QED
  BY <1>7, <1>8, <1>10, <1>11 DEF IInv

LEMMA ProfileMovedStep ==
  ASSUME IInv, ProfileMoved
  PROVE  IInv'
<1>1. /\ Typed /\ Issued /\ Introduced /\ OwnFirst /\ Clean /\ Kept /\ Gone /\ Forgotten
      /\ db \in Rows /\ op \in Ops /\ vault \in [Names -> Secrets]
  BY Given
<1>2. /\ UNCHANGED <<vault, manifest, handle, op, issued, changes, faults, wanted, removed, skipped, foreign>>
      /\ pc = "profile" /\ pc' = (IF db.there THEN "codes" ELSE "compact")
      /\ db.moved \/ ToMove = {}
  BY DEF ProfileMoved, history
<1>3. DbBecomes(db.there, db.binding, db.configured, db.stale, db.plain,
                db.own, TRUE, db.complete, db.dirty)
  BY <1>1 DEF ProfileMoved, DbBecomes, Rows
<1>4. Named(db)' = Named(db) /\ db.own # 0
  BY <1>1, <1>2, <1>3, NamedStay DEF DbBecomes, OwnFirst
<1>5. Typed' /\ Issued' /\ Introduced' /\ OwnFirst'
  BY <1>1, <1>2, <1>3, <1>4 DEF Typed, Issued, Introduced, OwnFirst, DbBecomes, Pcs
<1>6. Clean' /\ Gone'
  BY <1>1, <1>2, <1>3 DEF Clean, Gone, Running, DbBecomes
<1>7. Found' = Found
  <2>1. db.moved \/ (db.binding # 0 => vault[<<0, db.binding>>] = NoCode)
    BY <1>1, <1>2, NamedAre DEF ToMove
  <2> QED
    BY <1>2, <1>3, <2>1 DEF Found, OldCode, DbBecomes
<1>8. Kept' /\ Forgotten'
  BY <1>1, <1>2, <1>3, <1>4, <1>7 DEF Kept, Forgotten, DbBecomes
<1> QED
  BY <1>5, <1>6, <1>8 DEF IInv

LEMMA WriteCodeStep ==
  ASSUME IInv, WriteCode
  PROVE  IInv'
<1>1. /\ Typed /\ Issued /\ Introduced /\ OwnFirst /\ Clean /\ Kept /\ Gone /\ Forgotten
      /\ db \in Rows /\ op \in Ops /\ vault \in [Names -> Secrets] /\ issued \in Issues
      /\ handle \in Profiles
  BY Given
<1>2. /\ UNCHANGED <<db, manifest, handle, changes, faults, wanted, removed, skipped, foreign>>
      /\ pc = "codes" /\ pc' = "save" /\ Bound = NoCode /\ OldCode # NoCode
  BY DEF WriteCode, history
<1> DEFINE b == Target
           n == <<handle, b>>
<1>3. b \in Bindings /\ (b = db.binding \/ b = issued.binding + 1)
      /\ (db.binding # 0 => b = db.binding) /\ (db.binding = 0 => b = issued.binding + 1)
  BY <1>1 DEF WriteCode, NewBinding, Target, Bindings, Rows, Issues
<1>4. /\ issued' \in Issues /\ issued'.profile = issued.profile
      /\ issued.binding <= issued'.binding /\ b <= issued'.binding
      /\ issued.binding \in Nat /\ issued'.binding \in Nat
  <2> HIDE DEF b
  <2>1. issued' = [issued EXCEPT !.binding = IF b > @ THEN b ELSE @]
    BY DEF WriteCode, NewBinding, b
  <2> QED
    BY <1>1, <1>3, <2>1 DEF Issues, Bindings
<1>5. n \in Names /\ n # Legacy /\ OldCode \in Secrets
  BY <1>1, <1>3, NamesAre DEF OldCode, Rows
<1>6. VaultBecomes(n, OldCode)
  <2>1. Put(n, OldCode)
    BY DEF WriteCode, Written, Put
  <2> QED
    BY <1>1, <1>5, <2>1, PutBecomes
<1>7. OpBecomes(op.starting, op.stage, op.kind, b, op.todo, op.left, op.failed,
                op.scrubbed, op.saved)
  <2>1. op' = [op EXCEPT !.binding = b] /\ b \in 0..MaxBindings
    BY <1>3 DEF WriteCode, Bindings
  <2> QED
    BY <1>1, <2>1, OpIntroduces
<1>8. vault'[Legacy] = vault[Legacy] /\ vault'[n] = OldCode
      /\ vault' \in [Names -> Secrets] /\ \A m \in Names : m # n => vault'[m] = vault[m]
  BY <1>5, <1>6, NamesAre DEF VaultBecomes
<1>9. \A m \in foreign : m \in Names /\ m[2] # b /\ m[2] <= issued'.binding
  <2>1. \A m \in foreign : m[2] \in Bindings /\ m[2] \notin Named(db) /\ m[2] <= issued.binding
    BY <1>1 DEF Typed, Forgotten
  <2>2. \A m \in foreign : m \in Names
    BY <1>1 DEF Typed, Names
  <2>3. ASSUME NEW m \in foreign PROVE m[2] <= issued'.binding
    <3>1. m[2] \in Nat /\ m[2] <= issued.binding
      BY <2>1 DEF Bindings
    <3> QED
      BY <1>4, <3>1
  <2>4. CASE db.binding # 0
    BY <1>1, <1>3, <2>1, <2>2, <2>3, <2>4, NamedAre
  <2>5. CASE db.binding = 0
    <3>1. \A m \in foreign : m[2] # issued.binding + 1
      BY <1>4, <2>1, NamesAre
    <3> QED
      BY <1>3, <2>2, <2>3, <2>5, <3>1
  <2> QED
    BY <2>4, <2>5
<1>10. Typed'
  BY <1>1, <1>2, <1>4, <1>7, <1>8 DEF Typed, OpBecomes, Pcs
<1>11. Issued'
  <2>1. ASSUME NEW p \in Profiles, NEW a \in Bindings, p > issued.profile
        PROVE  vault'[<<p, a>>] = NoCode
    <3>1. p # handle
      BY <1>1, <2>1 DEF Issued, Issues, Profiles
    <3>2. <<p, a>> \in Names /\ <<p, a>> # n
      BY <2>1, <3>1, NamesAre
    <3> QED
      BY <1>1, <1>8, <2>1, <3>2 DEF Issued
  <2>2. \A a \in Named(db) : a <= issued'.binding
    <3>1. \A a \in Named(db) : a \in Nat /\ a <= issued.binding
      BY <1>1, NamedAre, NamesAre DEF Issued
    <3> QED
      BY <1>4, <3>1
  <2> QED
    BY <1>1, <1>2, <1>4, <2>1, <2>2 DEF Issued
<1>12. Introduced'
  BY <1>1, <1>2, <1>4, <1>7, <1>9 DEF Introduced, OpBecomes
<1>13. OwnFirst' /\ Clean'
  BY <1>1, <1>2 DEF OwnFirst, Clean, Running
<1>14. ~(removed /\ ~skipped)
  BY <1>1, <1>2 DEF Gone, OldCode
<1>15. Gone'
  BY <1>1, <1>2, <1>8, <1>14 DEF Gone, Running
<1>16. ASSUME wanted # NoCode
       PROVE  Found' = wanted /\ vault'[<<db.own, b>>] = wanted
  <2>1. handle = db.own /\ Found = wanted /\ db.moved
    BY <1>1, <1>2, <1>16 DEF Kept, OwnFirst
  <2>2. wanted = OldCode
    BY <1>2, <2>1 DEF Found, Bound
  <2>3. vault'[<<db.own, b>>] = wanted
    BY <1>8, <2>1, <2>2
  <2>4. CASE db.binding = 0
    BY <1>2, <1>8, <2>1, <2>2, <2>4 DEF Found, OldCode
  <2>5. CASE db.binding # 0
    BY <1>2, <1>3, <1>16, <2>3, <2>5 DEF Found
  <2> QED
    BY <2>3, <2>4, <2>5
<1>17. Kept'
  BY <1>1, <1>2, <1>3, <1>7, <1>16 DEF Kept, OpBecomes
<1>18. Forgotten'
  <2>1. \A m \in foreign : vault'[m] = vault[m]
    BY <1>8, <1>9
  <2> QED
    BY <1>1, <1>2, <1>9, <2>1 DEF Forgotten
<1> QED
  BY <1>10, <1>11, <1>12, <1>13, <1>15, <1>17, <1>18 DEF IInv

LEMMA FindCodeStep ==
  ASSUME IInv, FindCode
  PROVE  IInv'
<1>1. /\ Typed /\ Issued /\ Introduced /\ OwnFirst /\ Clean /\ Kept /\ Gone /\ Forgotten
      /\ db \in Rows /\ op \in Ops /\ vault \in [Names -> Secrets] /\ issued \in Issues
  BY Given
<1>2. /\ UNCHANGED <<vault, db, manifest, handle, issued, changes, faults, wanted, removed, skipped, foreign>>
      /\ pc = "codes" /\ pc' = "save" /\ (Bound # NoCode \/ OldCode = NoCode)
  BY DEF FindCode, history
<1> DEFINE b == IF Bound # NoCode THEN db.binding ELSE 0
<1>3. b \in 0..MaxBindings /\ (b = 0 \/ b = db.binding)
  BY <1>1 DEF Rows
<1>4. OpBecomes(op.starting, op.stage, op.kind, b, op.todo, op.left, op.failed,
                op.scrubbed, op.saved)
  <2>1. op' = [op EXCEPT !.binding = b]
    BY DEF FindCode
  <2> HIDE DEF b
  <2> QED
    BY <1>1, <1>3, <2>1, OpIntroduces
<1>5. b <= issued.binding /\ \A m \in foreign : m[2] # b
  <2>1. CASE b = 0
    BY <1>1, <2>1, NamesAre DEF Issues, Typed
  <2>2. CASE b # 0
    BY <1>1, <1>3, <2>2, NamedAre DEF Issued, Forgotten
  <2> QED
    BY <2>1, <2>2
<1>6. Typed' /\ Issued' /\ Introduced' /\ OwnFirst'
  BY <1>1, <1>2, <1>4, <1>5 DEF Typed, Issued, Introduced, OwnFirst, OpBecomes, Pcs
<1>7. removed /\ ~skipped => b = 0
  BY <1>1, <1>3 DEF Gone
<1>8. Clean' /\ Gone'
  BY <1>1, <1>2, <1>4, <1>7 DEF Clean, Gone, Running, OpBecomes
<1>9. wanted # NoCode => b \in Bindings /\ vault[<<db.own, b>>] = wanted
  <2>1. SUFFICES ASSUME wanted # NoCode
                 PROVE  b \in Bindings /\ vault[<<db.own, b>>] = wanted
    OBVIOUS
  <2>2. handle = db.own /\ Found = wanted /\ db.moved
    BY <1>1, <1>2, <2>1 DEF Kept, OwnFirst
  <2>3. Bound # NoCode
    BY <1>2, <2>1, <2>2 DEF Found, Bound
  <2>4. b = db.binding /\ db.binding # 0 /\ db.binding \in Bindings
    BY <1>1, <2>3, NamedAre DEF Bound
  <2> QED
    BY <2>2, <2>3, <2>4 DEF Found, Bound
<1>10. Found' = Found
  BY <1>2 DEF Found, OldCode
<1>11. Kept'
  BY <1>1, <1>2, <1>4, <1>9, <1>10 DEF Kept, OpBecomes
<1>12. Forgotten'
  BY <1>1, <1>2, <1>4 DEF Forgotten, OpBecomes
<1> QED
  BY <1>6, <1>8, <1>11, <1>12 DEF IInv

LEMMA SkipCodeStep ==
  ASSUME IInv, SkipCode
  PROVE  IInv'
<1>1. /\ Typed /\ Issued /\ Introduced /\ OwnFirst /\ Clean /\ Kept /\ Gone /\ Forgotten
  BY Given
<1>2. /\ UNCHANGED <<vault, db, manifest, handle, op, issued, changes, wanted, removed, foreign>>
      /\ pc = "codes" /\ pc' = "compact" /\ db.plain = NoCode
      /\ skipped' = (skipped \/ vault[Legacy] # NoCode) /\ faults' \in 0..MaxFaults
  BY <1>1, Counting DEF SkipCode, Typed
<1>3. skipped' \in BOOLEAN /\ (~skipped' => ~skipped /\ vault[Legacy] = NoCode)
  BY <1>1, <1>2 DEF Typed
<1>4. Typed' /\ Issued' /\ Introduced' /\ OwnFirst'
  BY <1>1, <1>2, <1>3 DEF Typed, Issued, Introduced, OwnFirst, Pcs
<1>5. Found' = Found
  BY <1>2 DEF Found, OldCode
<1>6. Clean' /\ Gone' /\ Kept' /\ Forgotten'
  BY <1>1, <1>2, <1>3, <1>5 DEF Clean, Gone, Kept, Forgotten, Running
<1> QED
  BY <1>4, <1>6 DEF IInv

LEMMA SaveRowStep ==
  ASSUME IInv, SaveRow
  PROVE  IInv'
<1>1. /\ Typed /\ Issued /\ Introduced /\ OwnFirst /\ Clean /\ Kept /\ Gone /\ Forgotten
      /\ db \in Rows /\ op \in Ops /\ vault \in [Names -> Secrets] /\ issued \in Issues
  BY Given
<1>2. /\ UNCHANGED <<vault, manifest, handle, issued, changes, faults, wanted, removed, skipped, foreign>>
      /\ pc = "save" /\ pc' = "legacy"
  BY DEF SaveRow, history
<1> DEFINE b == op.binding
           rest == db.stale \ {db.binding, b}
<1>3. b \in 0..MaxBindings /\ rest \in SUBSET Bindings /\ rest \subseteq db.stale
      /\ db.own \in Profiles
  BY <1>1 DEF Ops, Rows
<1>4. DbBecomes(db.there, b, b # 0, rest, NoCode, db.own, db.moved, db.complete, db.dirty)
  <2>1. db' = [db EXCEPT !.binding = b, !.configured = b # 0, !.plain = NoCode, !.stale = rest]
    BY DEF SaveRow
  <2>2. (b # 0) \in BOOLEAN /\ NoCode \in Secrets
    BY DEF Secrets
  <2> HIDE DEF b, rest
  <2> QED
    BY <1>1, <1>3, <2>1, <2>2 DEF DbBecomes, Rows
<1>5. /\ op' \in Ops /\ op'.binding = b /\ op'.todo \subseteq rest /\ op'.left = {}
      /\ op'.starting = op.starting
  <2> DEFINE sc == db.plain # NoCode
             to == IF b # 0 THEN rest ELSE {}
  <2>1. op' = [op EXCEPT !.scrubbed = sc, !.todo = to, !.left = {}]
    BY <1>4 DEF SaveRow, DbBecomes
  <2>2. sc \in BOOLEAN /\ to \in SUBSET Bindings /\ to \subseteq rest
    BY <1>3
  <2> HIDE DEF sc, to, rest
  <2>3. op' \in Ops /\ op'.binding = b /\ op'.todo = to /\ op'.left = {} /\ op'.starting = op.starting
    BY <1>1, <2>1, <2>2 DEF Ops
  <2> QED
    BY <2>2, <2>3
<1>6. /\ \A a \in Named(db)' : a \in Bindings /\ (a \in Named(db) \/ a = b)
      /\ b <= issued.binding /\ \A m \in foreign : m[2] # b /\ m[2] \notin Named(db)
  <2>1. Named(db)' = rest \cup ({b} \ {0})
    BY <1>4 DEF Named, DbBecomes
  <2>2. rest \subseteq Named(db)
    BY <1>3 DEF Named
  <2> QED
    BY <1>1, <1>2, <1>3, <2>1, <2>2 DEF Introduced, Forgotten, Bindings
<1>7. Typed'
  BY <1>1, <1>2, <1>4, <1>5 DEF Typed, DbBecomes, Pcs
<1>8. Issued'
  BY <1>1, <1>2, <1>4, <1>6 DEF Issued, DbBecomes
<1>9. Introduced' /\ OwnFirst'
  <2>1. db'.binding \notin db'.stale /\ op'.todo \subseteq db'.stale /\ op'.left \subseteq db'.stale
    BY <1>4, <1>5 DEF DbBecomes
  <2> HIDE DEF b, rest
  <2> QED
    BY <1>1, <1>2, <1>4, <2>1 DEF Introduced, OwnFirst, DbBecomes
<1>10. Clean' /\ Gone'
  <2> HIDE DEF rest
  <2> QED
    BY <1>1, <1>2, <1>4, <1>5 DEF Clean, Gone, Running, DbBecomes
<1>11. wanted # NoCode =>
         b \in Bindings /\ vault[<<db.own, b>>] = wanted /\ Found' = wanted
  <2>1. SUFFICES ASSUME wanted # NoCode
                 PROVE  b \in Bindings /\ vault[<<db.own, b>>] = wanted /\ Found' = wanted
    OBVIOUS
  <2>2. b \in Bindings /\ vault[<<db.own, b>>] = wanted
    BY <1>1, <1>2, <2>1 DEF Kept
  <2>3. b # 0
    BY <2>2, NamesAre
  <2> QED
    BY <1>2, <1>4, <2>1, <2>2, <2>3 DEF Found, DbBecomes
<1>12. Kept'
  <2> HIDE DEF b, rest
  <2> QED
    BY <1>1, <1>2, <1>4, <1>11 DEF Kept, DbBecomes
<1>13. Forgotten'
  BY <1>1, <1>2, <1>6 DEF Forgotten
<1> QED
  BY <1>7, <1>8, <1>9, <1>10, <1>12, <1>13 DEF IInv

LEMMA DropLegacyStep ==
  ASSUME IInv, DropLegacy
  PROVE  IInv'
<1>1. /\ Typed /\ Issued /\ Introduced /\ OwnFirst /\ Clean /\ Kept /\ Gone /\ Forgotten
      /\ db \in Rows /\ vault \in [Names -> Secrets]
  BY Given
<1>2. /\ UNCHANGED <<db, manifest, handle, op, issued, changes, faults, wanted, removed, skipped, foreign>>
      /\ pc = "legacy" /\ pc' \in {"stale", "compact"}
  BY DEF DropLegacy, history
<1>3. VaultBecomes(Legacy, NoCode)
  <2>1. Take(Legacy)
    BY DEF DropLegacy, LegacyDropped, Take, Put
  <2> QED
    BY <1>1, <2>1, TakeBecomes, NamesAre
<1>4. vault' \in [Names -> Secrets] /\ vault'[Legacy] = NoCode
      /\ \A p \in Profiles, b \in Bindings : vault'[<<p, b>>] = vault[<<p, b>>]
  BY <1>3, NamesAre DEF VaultBecomes
<1>5. Typed' /\ Issued' /\ Introduced' /\ OwnFirst'
  BY <1>1, <1>2, <1>4 DEF Typed, Issued, Introduced, OwnFirst, Pcs
<1>6. Clean' /\ Gone'
  BY <1>1, <1>2, <1>4 DEF Clean, Gone, Running
<1>7. wanted # NoCode => Found' = wanted
  <2>1. SUFFICES ASSUME wanted # NoCode PROVE Found' = wanted
    OBVIOUS
  <2>2. db.binding \in Bindings /\ vault[<<db.own, db.binding>>] = wanted
    BY <1>1, <1>2, <2>1 DEF Kept
  <2>3. vault'[<<db.own, db.binding>>] = wanted /\ db.binding # 0
    BY <1>1, <1>4, <2>2, NamesAre DEF Rows
  <2> QED
    BY <1>2, <2>1, <2>3 DEF Found
<1>8. Kept'
  BY <1>1, <1>2, <1>7 DEF Kept
<1>9. Forgotten'
  <2>1. \A m \in foreign : m = <<m[1], m[2]>> /\ m[1] \in Profiles /\ m[2] \in Bindings
    BY <1>1 DEF Typed
  <2>2. \A m \in foreign : vault'[m] = vault[m]
    BY <1>4, <2>1
  <2> QED
    BY <1>1, <1>2, <2>2 DEF Forgotten
<1> QED
  BY <1>5, <1>6, <1>8, <1>9 DEF IInv

LEMMA DropStaleStep ==
  ASSUME IInv, DropStale
  PROVE  IInv'
<1>1. /\ Typed /\ Issued /\ Introduced /\ OwnFirst /\ Clean /\ Kept /\ Gone /\ Forgotten
      /\ db \in Rows /\ op \in Ops /\ vault \in [Names -> Secrets] /\ handle \in Profiles
  BY Given
<1>2. PICK b \in op.todo : \/ Works /\ Take(<<handle, b>>) /\ Done(b, TRUE)
                           \/ Fails /\ Done(b, FALSE) /\ UNCHANGED vault
  BY DEF DropStale
<1>3. /\ UNCHANGED <<db, manifest, handle, pc, issued, changes, wanted, removed, skipped, foreign>>
      /\ pc \in {"stale", "tidy"}
  BY DEF DropStale, history
<1> DEFINE n == <<handle, b>>
<1>4. b \in db.stale /\ b \in Bindings /\ b # db.binding /\ op.left \subseteq db.stale
      /\ op.todo \subseteq db.stale
  BY <1>1, <1>2, <1>3 DEF Introduced, Rows
<1>5. n \in Names /\ n # Legacy
  BY <1>1, <1>4, NamesAre
<1>6. \/ /\ VaultBecomes(n, NoCode)
         /\ OpBecomes(op.starting, op.stage, op.kind, op.binding, op.todo \ {b},
                      op.left, op.failed, op.scrubbed, op.saved)
      \/ /\ vault' = vault
         /\ OpBecomes(op.starting, op.stage, op.kind, op.binding, op.todo \ {b},
                      op.left \cup {b}, TRUE, op.scrubbed, op.saved)
  <2>1. CASE Works /\ Take(<<handle, b>>) /\ Done(b, TRUE)
    BY <1>1, <1>4, <1>5, <2>1, TakeBecomes, DoneWell
  <2>2. CASE Fails /\ Done(b, FALSE) /\ UNCHANGED vault
    BY <1>1, <1>4, <2>2, DoneBadly
  <2> QED
    BY <1>2, <2>1, <2>2
<1>7. /\ vault' \in [Names -> Secrets] /\ vault'[Legacy] = vault[Legacy]
      /\ \A m \in Names : vault'[m] = vault[m] \/ vault'[m] = NoCode
      /\ \A m \in Names : m # n => vault'[m] = vault[m]
  BY <1>1, <1>5, <1>6, NamesAre DEF VaultBecomes
<1>8. /\ op' \in Ops /\ op'.starting = op.starting /\ op'.binding = op.binding
      /\ op'.todo \subseteq db.stale /\ op'.left \subseteq db.stale /\ op'.saved = op.saved
      /\ op'.stage = op.stage
  BY <1>4, <1>6 DEF OpBecomes
<1>9. Typed'
  <2>1. faults' \in 0..MaxFaults
    BY <1>1, <1>2, Counting DEF Typed
  <2> QED
    BY <1>1, <1>3, <1>7, <1>8, <2>1 DEF Typed
<1>10. Issued'
  BY <1>1, <1>3, <1>7, NamesAre DEF Issued
<1>11. Introduced' /\ OwnFirst'
  BY <1>1, <1>3, <1>8 DEF Introduced, OwnFirst
<1>12. Clean' /\ Gone'
  BY <1>1, <1>3, <1>7, <1>8 DEF Clean, Gone, Running
<1>13. Found' = Found
  <2>1. db.binding # 0 => /\ vault'[<<db.own, db.binding>>] = vault[<<db.own, db.binding>>]
                          /\ vault'[<<0, db.binding>>] = vault[<<0, db.binding>>]
    <3>1. SUFFICES ASSUME db.binding # 0
                   PROVE  /\ vault'[<<db.own, db.binding>>] = vault[<<db.own, db.binding>>]
                          /\ vault'[<<0, db.binding>>] = vault[<<0, db.binding>>]
      OBVIOUS
    <3>2. db.binding \in Bindings /\ db.own \in Profiles
      BY <1>1, <3>1, NamedAre DEF Rows
    <3> QED
      BY <1>4, <1>7, <3>2, NamesAre
  <2> QED
    BY <1>1, <1>3, <1>7, <2>1, FoundStays
<1>14. Kept'
  BY <1>1, <1>3, <1>13 DEF Kept
<1>15. Forgotten'
  <2>1. \A m \in foreign : m \in Names
    BY <1>1 DEF Typed, Names
  <2> QED
    BY <1>1, <1>3, <1>7, <2>1 DEF Forgotten
<1> QED
  BY <1>9, <1>10, <1>11, <1>12, <1>14, <1>15 DEF IInv

LEMMA SaveStaleStep ==
  ASSUME IInv, SaveStale
  PROVE  IInv'
<1>1. /\ Typed /\ Issued /\ Introduced /\ OwnFirst /\ Clean /\ Kept /\ Gone /\ Forgotten
      /\ db \in Rows /\ op \in Ops /\ vault \in [Names -> Secrets] /\ issued \in Issues
  BY Given
<1>2. /\ UNCHANGED <<vault, manifest, handle, issued, changes, wanted, removed, skipped, foreign>>
      /\ faults' \in 0..MaxFaults
  BY <1>1, Counting DEF SaveStale, history, Typed
<1>3. \/ pc = "stale" /\ pc' = "compact" /\ op' = op
      \/ pc = "tidy" /\ pc' = "idle" /\ op' = NoOp
  BY DEF SaveStale
<1>4. op.left \subseteq db.stale
  BY <1>1, <1>3 DEF Introduced
<1>5. /\ DbBecomes(db.there, db.binding, db.configured, db'.stale, db.plain,
                   db.own, db.moved, db.complete, db.dirty)
      /\ db'.stale \subseteq db.stale
  <2>1. CASE db' = [db EXCEPT !.stale = op.left]
    <3> DEFINE to == op.left
    <3>1. db' = [db EXCEPT !.stale = to] /\ to \subseteq db.stale
      BY <1>4, <2>1
    <3> HIDE DEF to
    <3> QED
      BY <1>1, <3>1 DEF DbBecomes, Rows
  <2>2. CASE db' = db
    BY <1>1, <2>2 DEF DbBecomes, Rows
  <2> QED
    BY <2>1, <2>2 DEF SaveStale
<1>6. Named(db)' \subseteq Named(db)
  BY <1>5 DEF Named, DbBecomes
<1>7. op' \in Ops
  BY <1>1, <1>3, NoOpIs
<1>8. Typed' /\ Issued' /\ Introduced' /\ OwnFirst'
  BY <1>1, <1>2, <1>3, <1>5, <1>6, <1>7
     DEF Typed, Issued, Introduced, OwnFirst, DbBecomes, Pcs
<1>9. Clean' /\ Gone'
  BY <1>1, <1>2, <1>3, <1>5 DEF Clean, Gone, Running, DbBecomes
<1>10. Found' = Found
  BY <1>2, <1>5 DEF Found, OldCode, DbBecomes
<1>11. Kept' /\ Forgotten'
  BY <1>1, <1>2, <1>3, <1>5, <1>6, <1>10 DEF Kept, Forgotten, DbBecomes
<1> QED
  BY <1>8, <1>9, <1>11 DEF IInv

LEMMA CompactStep ==
  ASSUME IInv, Compact
  PROVE  IInv'
<1>1. /\ Typed /\ Issued /\ Introduced /\ OwnFirst /\ Clean /\ Kept /\ Gone /\ Forgotten
      /\ db \in Rows
  BY Given
<1>2. /\ UNCHANGED <<vault, manifest, handle, issued, changes, faults, wanted, removed, skipped, foreign>>
      /\ pc = "compact" /\ db.plain = NoCode
  BY <1>1 DEF Compact, history, Clean
<1>3. CASE db' = [db EXCEPT !.dirty = FALSE] /\ pc' = "complete" /\ UNCHANGED op
  <2>1. DbBecomes(db.there, db.binding, db.configured, db.stale, db.plain,
                  db.own, db.moved, db.complete, FALSE)
    BY <1>1, <1>3 DEF DbBecomes, Rows
  <2>2. Named(db)' = Named(db)
    BY <2>1, NamedStay DEF DbBecomes
  <2>3. Typed' /\ Issued' /\ Introduced' /\ OwnFirst'
    BY <1>1, <1>2, <1>3, <2>1, <2>2 DEF Typed, Issued, Introduced, OwnFirst, DbBecomes, Pcs
  <2>4. Found' = Found
    BY <1>2, <2>1 DEF Found, OldCode, DbBecomes
  <2>5. Clean' /\ Gone'
    BY <1>1, <1>2, <1>3, <2>1 DEF Clean, Gone, Running, DbBecomes
  <2>6. Kept' /\ Forgotten'
    BY <1>1, <1>2, <1>3, <2>1, <2>2, <2>4 DEF Kept, Forgotten, DbBecomes
  <2> QED
    BY <2>3, <2>5, <2>6 DEF IInv
<1>4. CASE db.complete /\ pc' = "idle" /\ op' = NoOp /\ UNCHANGED db
  <2>1. Typed' /\ Issued' /\ Introduced' /\ OwnFirst'
    BY <1>1, <1>2, <1>4, NoOpIs DEF Typed, Issued, Introduced, OwnFirst, Pcs
  <2>2. Found' = Found
    BY <1>2, <1>4 DEF Found, OldCode
  <2>3. Clean' /\ Gone' /\ Kept' /\ Forgotten'
    BY <1>1, <1>2, <1>4, <2>2 DEF Clean, Gone, Kept, Forgotten, Running
  <2> QED
    BY <2>1, <2>3 DEF IInv
<1> QED
  BY <1>3, <1>4 DEF Compact, Compacts

LEMMA CompleteStep ==
  ASSUME IInv, Complete
  PROVE  IInv'
<1>1. /\ Typed /\ Issued /\ Introduced /\ OwnFirst /\ Clean /\ Kept /\ Gone /\ Forgotten
      /\ db \in Rows
  BY Given
<1>2. /\ UNCHANGED <<vault, manifest, handle, issued, changes, faults, wanted, removed, skipped, foreign>>
      /\ pc = "complete" /\ pc' = "idle" /\ op' = NoOp
  BY DEF Complete, history
<1>3. DbBecomes(db.there, db.binding, db.configured, db.stale, db.plain,
                db.own, db.moved, TRUE, db.dirty)
  BY <1>1 DEF Complete, DbBecomes, Rows
<1>4. Named(db)' = Named(db)
  BY <1>3, NamedStay DEF DbBecomes
<1>5. Typed' /\ Issued' /\ Introduced' /\ OwnFirst'
  BY <1>1, <1>2, <1>3, <1>4, NoOpIs DEF Typed, Issued, Introduced, OwnFirst, DbBecomes, Pcs
<1>6. Found' = Found
  BY <1>2, <1>3 DEF Found, OldCode, DbBecomes
<1>7. Clean' /\ Gone'
  BY <1>1, <1>2, <1>3 DEF Clean, Gone, Running, DbBecomes
<1>8. Kept' /\ Forgotten'
  BY <1>1, <1>2, <1>3, <1>4, <1>6 DEF Kept, Forgotten, DbBecomes
<1> QED
  BY <1>5, <1>7, <1>8 DEF IInv

-----------------------------------------------------------------------------
\* Saving a code.

LEMMA KeepStep ==
  ASSUME IInv, Keep
  PROVE  IInv'
<1>1. /\ Typed /\ Issued /\ Introduced /\ OwnFirst /\ Clean /\ Kept /\ Gone /\ Forgotten
      /\ db \in Rows
  BY Given
<1>2. /\ UNCHANGED <<vault, manifest, handle, pc, op, issued, faults, wanted, removed, skipped, foreign>>
      /\ pc = "idle" /\ changes' \in 0..MaxChanges
  BY <1>1, Counting DEF Keep, history, Typed
<1>3. DbBecomes(TRUE, db.binding, Bound # NoCode, db.stale, db.plain,
                db.own, db.moved, db.complete, db.dirty)
  <2> DEFINE co == Bound # NoCode
  <2>1. db' = [db EXCEPT !.there = TRUE, !.configured = co] /\ co \in BOOLEAN
    BY DEF Keep
  <2> HIDE DEF co
  <2>2. DbBecomes(TRUE, db.binding, co, db.stale, db.plain,
                  db.own, db.moved, db.complete, db.dirty)
    BY <1>1, <2>1 DEF DbBecomes, Rows
  <2> QED
    BY <2>2 DEF co
<1>4. Named(db)' = Named(db)
  BY <1>3, NamedStay DEF DbBecomes
<1>5. Typed' /\ Issued' /\ Introduced' /\ OwnFirst'
  BY <1>1, <1>2, <1>3, <1>4 DEF Typed, Issued, Introduced, OwnFirst, DbBecomes
<1>6. removed /\ ~skipped => Bound = NoCode
  BY <1>1 DEF Gone, Bound
<1>7. Clean' /\ Gone'
  BY <1>1, <1>2, <1>3, <1>6 DEF Clean, Gone, Running, DbBecomes
<1>8. Found' = Found
  BY <1>2, <1>3 DEF Found, OldCode, DbBecomes
<1>9. Kept' /\ Forgotten'
  BY <1>1, <1>2, <1>3, <1>4, <1>8 DEF Kept, Forgotten, DbBecomes
<1> QED
  BY <1>5, <1>7, <1>9 DEF IInv

LEMMA ReplaceStep ==
  ASSUME IInv, Replace
  PROVE  IInv'
<1>1. /\ Typed /\ Issued /\ Introduced /\ OwnFirst /\ Clean /\ Kept /\ Gone /\ Forgotten
      /\ db \in Rows /\ vault \in [Names -> Secrets] /\ issued \in Issues /\ handle \in Profiles
  BY Given
<1>2. /\ UNCHANGED <<db, manifest, handle, faults, wanted, removed, skipped, foreign>>
      /\ pc = "idle" /\ pc' = "replace" /\ changes' \in 0..MaxChanges
  BY <1>1, Counting DEF Replace, history, Typed
<1> DEFINE b == issued.binding + 1
           n == <<handle, b>>
<1>3. b \in Bindings /\ issued.binding \in Nat
      /\ issued' = [issued EXCEPT !.binding = b]
  BY <1>1 DEF Replace, NewBinding, Bindings, Issues
<1>4. issued' \in Issues /\ issued'.profile = issued.profile /\ issued'.binding = b
  BY <1>1, <1>3 DEF Issues, Bindings
<1>5. PICK c \in Codes : Put(n, c)
  BY DEF Replace
<1>6. n \in Names /\ n # Legacy /\ c \in Secrets
  BY <1>1, <1>3, NamesAre DEF Secrets
<1>7. VaultBecomes(n, c)
  BY <1>1, <1>5, <1>6, PutBecomes
<1>8. /\ vault' \in [Names -> Secrets] /\ vault'[Legacy] = vault[Legacy]
      /\ \A m \in Names : m # n => vault'[m] = vault[m]
  BY <1>6, <1>7, NamesAre DEF VaultBecomes
<1>9. /\ op' \in Ops /\ op'.binding = b /\ op'.left = {} /\ op'.starting = FALSE
  <2>1. op' = [NoOp EXCEPT !.binding = b] /\ b \in 0..MaxBindings
    BY <1>3 DEF Replace, Bindings
  <2> HIDE DEF b
  <2> QED
    BY <2>1, NoOpIs DEF Ops
<1>10. \A a \in Named(db) : a \in Bindings /\ a <= issued.binding /\ a # b
  <2>1. SUFFICES ASSUME NEW a \in Named(db) PROVE a \in Bindings /\ a <= issued.binding /\ a # b
    OBVIOUS
  <2>2. a \in Bindings /\ a <= issued.binding
    BY <1>1, NamedAre DEF Issued
  <2>3. a \in Nat
    BY <2>2 DEF Bindings
  <2> QED
    BY <1>3, <2>2, <2>3
<1>11. \A m \in foreign : m[2] # b /\ m[2] <= b /\ m \in Names /\ m # n
  <2>1. SUFFICES ASSUME NEW m \in foreign
                 PROVE  m[2] # b /\ m[2] <= b /\ m \in Names /\ m # n
    OBVIOUS
  <2>2. m[2] <= issued.binding /\ m[2] \in Nat
    BY <1>1 DEF Typed, Forgotten, Bindings
  <2>3. m \in Names
    BY <1>1 DEF Typed, Names
  <2>4. m[2] # b /\ m[2] <= b
    BY <1>3, <2>2
  <2> QED
    BY <2>3, <2>4
<1>12. Typed'
  BY <1>1, <1>2, <1>4, <1>8, <1>9 DEF Typed, Pcs
<1>13. Issued'
  <2>1. ASSUME NEW p \in Profiles, NEW a \in Bindings, p > issued.profile
        PROVE  vault'[<<p, a>>] = NoCode
    <3>1. p # handle
      BY <1>1, <2>1 DEF Issued, Issues, Profiles
    <3>2. <<p, a>> \in Names /\ <<p, a>> # n
      BY <2>1, <3>1, NamesAre
    <3> QED
      BY <1>1, <1>8, <2>1, <3>2 DEF Issued
  <2>2. \A a \in Named(db) : a <= issued'.binding
    <3>1. \A a \in Named(db) : a \in Nat /\ a <= issued.binding
      BY <1>10 DEF Bindings
    <3> QED
      BY <1>3, <1>4, <3>1
  <2> QED
    BY <1>1, <1>2, <1>4, <2>1, <2>2 DEF Issued
<1>14. Introduced' /\ OwnFirst'
  <2>1. b \in Bindings /\ b \notin Named(db) /\ b <= issued'.binding
    BY <1>3, <1>4, <1>10
  <2> HIDE DEF b
  <2> QED
    BY <1>1, <1>2, <1>9, <1>11, <2>1 DEF Introduced, OwnFirst
<1>15. Clean' /\ Gone'
  BY <1>1, <1>2, <1>8 DEF Clean, Gone, Running
<1>16. Found' = Found
  <2>1. db.binding # 0 => /\ vault'[<<db.own, db.binding>>] = vault[<<db.own, db.binding>>]
                          /\ vault'[<<0, db.binding>>] = vault[<<0, db.binding>>]
    <3>1. SUFFICES ASSUME db.binding # 0
                   PROVE  /\ vault'[<<db.own, db.binding>>] = vault[<<db.own, db.binding>>]
                          /\ vault'[<<0, db.binding>>] = vault[<<0, db.binding>>]
      OBVIOUS
    <3>2. db.binding \in Bindings /\ db.own \in Profiles /\ db.binding # b
      BY <1>1, <1>10, <3>1, NamedAre DEF Rows
    <3> QED
      BY <1>8, <3>2, NamesAre
  <2> QED
    BY <1>1, <1>2, <1>8, <2>1, FoundStays
<1>17. Kept'
  BY <1>1, <1>2, <1>16 DEF Kept
<1>18. Forgotten'
  <2>1. \A m \in foreign : vault'[m] = vault[m]
    BY <1>8, <1>11
  <2> QED
    BY <1>1, <1>2, <1>4, <1>11, <2>1 DEF Forgotten
<1> QED
  BY <1>12, <1>13, <1>14, <1>15, <1>17, <1>18 DEF IInv

LEMMA TakeBackStep ==
  ASSUME IInv, TakeBack
  PROVE  IInv'
<1>1. /\ Typed /\ Issued /\ Introduced /\ OwnFirst /\ Clean /\ Kept /\ Gone /\ Forgotten
      /\ db \in Rows /\ vault \in [Names -> Secrets] /\ op \in Ops /\ handle \in Profiles
  BY Given
<1>2. /\ UNCHANGED <<db, manifest, handle, issued, changes, wanted, removed, skipped, foreign>>
      /\ pc = "replace" /\ faults' \in 0..MaxFaults
  BY <1>1, Counting DEF TakeBack, history, Typed
<1> DEFINE n == <<handle, op.binding>>
<1>3. op.binding \in Bindings /\ op.binding \notin Named(db)
  BY <1>1, <1>2 DEF Introduced
<1>4. n \in Names /\ n # Legacy
  BY <1>1, <1>3, NamesAre
<1>5. VaultBecomes(n, NoCode) \/ vault' = vault
  BY <1>1, <1>4, TakeBecomes DEF TakeBack
<1>6. /\ vault' \in [Names -> Secrets] /\ vault'[Legacy] = vault[Legacy]
      /\ \A m \in Names : vault'[m] = vault[m] \/ vault'[m] = NoCode
      /\ \A m \in Names : m # n => vault'[m] = vault[m]
  BY <1>1, <1>4, <1>5, NamesAre DEF VaultBecomes
<1>7. /\ pc' \in {"off", "idle"}
      /\ OpBecomes(FALSE, 0, "none", 0, {}, {}, FALSE, FALSE, Nothing)
  BY <1>1, GivesUpBecomes DEF TakeBack
<1>8. Typed' /\ Issued' /\ Introduced' /\ OwnFirst'
  BY <1>1, <1>2, <1>6, <1>7, NamesAre DEF Typed, Issued, Introduced, OwnFirst, OpBecomes, Pcs
<1>9. Clean' /\ Gone'
  BY <1>1, <1>2, <1>6, <1>7 DEF Clean, Gone, Running
<1>10. Found' = Found
  <2>1. db.binding # 0 => /\ vault'[<<db.own, db.binding>>] = vault[<<db.own, db.binding>>]
                          /\ vault'[<<0, db.binding>>] = vault[<<0, db.binding>>]
    <3>1. SUFFICES ASSUME db.binding # 0
                   PROVE  /\ vault'[<<db.own, db.binding>>] = vault[<<db.own, db.binding>>]
                          /\ vault'[<<0, db.binding>>] = vault[<<0, db.binding>>]
      OBVIOUS
    <3>2. db.binding \in Bindings /\ db.own \in Profiles /\ db.binding # op.binding
      BY <1>1, <1>3, <3>1, NamedAre DEF Rows
    <3> QED
      BY <1>6, <3>2, NamesAre
  <2> QED
    BY <1>1, <1>2, <1>6, <2>1, FoundStays
<1>11. Kept'
  BY <1>1, <1>2, <1>7, <1>10 DEF Kept
<1>12. Forgotten'
  <2>1. \A m \in foreign : m \in Names
    BY <1>1 DEF Typed, Names
  <2> QED
    BY <1>1, <1>2, <1>6, <1>7, <2>1 DEF Forgotten
<1> QED
  BY <1>8, <1>9, <1>11, <1>12 DEF IInv

LEMMA SaveReplacedStep ==
  ASSUME IInv, SaveReplaced
  PROVE  IInv'
<1>1. /\ Typed /\ Issued /\ Introduced /\ OwnFirst /\ Clean /\ Kept /\ Gone /\ Forgotten
      /\ db \in Rows /\ vault \in [Names -> Secrets] /\ op \in Ops /\ handle \in Profiles
  BY Given
<1>2. /\ UNCHANGED <<vault, manifest, handle, issued, changes, faults, skipped, foreign>>
      /\ pc = "replace" /\ pc' = "tidy" /\ removed' = FALSE
      /\ wanted' = (IF manifest.pending \/ handle # db.own THEN NoCode
                                                         ELSE vault[<<handle, op.binding>>])
  BY DEF SaveReplaced
<1> DEFINE b == op.binding
           rest == Superseded
<1>3. b \in Bindings /\ b \notin Named(db) /\ b # 0 /\ op.left = {} /\ b <= issued.binding
      /\ \A m \in foreign : m[2] # b
  BY <1>1, <1>2, NamesAre DEF Introduced
<1>4. rest \in SUBSET Bindings /\ rest \subseteq Named(db) /\ b \notin rest
  BY <1>1, <1>3, NamedAre DEF Superseded, Named, Rows, Bindings
<1>5. DbBecomes(TRUE, b, TRUE, rest, NoCode, db.own, db.moved, db.complete, db.dirty)
  <2>1. db' = [db EXCEPT !.there = TRUE, !.binding = b, !.configured = TRUE,
                         !.plain = NoCode, !.stale = rest]
    BY DEF SaveReplaced
  <2>2. NoCode \in Secrets /\ b \in 0..MaxBindings
    BY <1>3 DEF Secrets, Bindings
  <2> HIDE DEF b, rest
  <2> QED
    BY <1>1, <1>4, <2>1, <2>2 DEF DbBecomes, Rows
<1>6. /\ op' \in Ops /\ op'.todo = rest /\ op'.left = {}
  <2>1. op' = [op EXCEPT !.todo = rest]
    BY DEF SaveReplaced
  <2> HIDE DEF rest
  <2> QED
    BY <1>1, <1>3, <1>4, <2>1 DEF Ops
<1>7. Named(db)' = rest \cup {b}
  BY <1>3, <1>5 DEF Named, DbBecomes
<1>8. wanted' \in Secrets
  <2>1. <<handle, b>> \in Names
    BY <1>1, <1>3, NamesAre
  <2> QED
    BY <1>1, <1>2, <2>1 DEF Secrets
<1>9. Typed'
  BY <1>1, <1>2, <1>5, <1>6, <1>8 DEF Typed, DbBecomes, Pcs
<1>10. Issued'
  <2> HIDE DEF rest, b
  <2> QED
    BY <1>1, <1>2, <1>3, <1>4, <1>5, <1>7 DEF Issued, DbBecomes
<1>11. Introduced' /\ OwnFirst'
  <2> HIDE DEF rest, b
  <2> QED
    BY <1>1, <1>2, <1>4, <1>5, <1>6 DEF Introduced, OwnFirst, DbBecomes
<1>12. Clean' /\ Gone'
  <2> HIDE DEF rest, b
  <2> QED
    BY <1>1, <1>2, <1>5 DEF Clean, Gone, Running, DbBecomes
<1>13. wanted' # NoCode => handle = db.own /\ ~manifest.pending /\ Found' = wanted'
  <2>1. SUFFICES ASSUME wanted' # NoCode
                 PROVE  handle = db.own /\ ~manifest.pending /\ Found' = wanted'
    OBVIOUS
  <2>2. handle = db.own /\ ~manifest.pending /\ wanted' = vault[<<db.own, b>>]
    BY <1>2, <2>1
  <2> QED
    BY <1>2, <1>3, <1>5, <2>1, <2>2 DEF Found, DbBecomes
<1>14. Kept'
  <2> HIDE DEF rest, b
  <2> QED
    BY <1>1, <1>2, <1>5, <1>13 DEF Kept, DbBecomes
<1>15. Forgotten'
  <2> HIDE DEF rest, b
  <2> QED
    BY <1>1, <1>2, <1>3, <1>4, <1>7 DEF Forgotten
<1> QED
  BY <1>9, <1>10, <1>11, <1>12, <1>14, <1>15 DEF IInv

-----------------------------------------------------------------------------
\* Taking a code away.

LEMMA RemoveStep ==
  ASSUME IInv, Remove
  PROVE  IInv'
<1>1. /\ Typed /\ Issued /\ Introduced /\ OwnFirst /\ Clean /\ Kept /\ Gone /\ Forgotten
      /\ db \in Rows /\ vault \in [Names -> Secrets] /\ op \in Ops /\ handle \in Profiles
  BY Given
<1>2. /\ UNCHANGED <<vault, db, manifest, handle, issued, faults, wanted, removed, skipped, foreign>>
      /\ pc = "idle" /\ pc' = "remove" /\ changes' \in 0..MaxChanges
  BY <1>1, Counting DEF Remove, history, Typed
<1>3. Named(db) \in SUBSET Bindings
  BY <1>1, NamedAre
<1>4. /\ Captured \in [Bindings -> Secrets]
      /\ \A b \in Named(db) : Captured[b] = vault[<<handle, b>>]
      /\ \A b \in Bindings \ Named(db) : Captured[b] = NoCode
  BY <1>1, <1>3, NamesAre DEF Captured, Secrets
<1>5. op' \in Ops /\ op'.saved = Captured
  <2> DEFINE to == Named(db)
             sa == Captured
  <2>1. PICK kind \in {"clear", "delete", "reset"} :
           op' = [NoOp EXCEPT !.kind = kind, !.saved = sa, !.todo = to]
    BY DEF Remove
  <2>2. sa \in [Bindings -> Secrets] /\ to \in SUBSET Bindings
    BY <1>3, <1>4
  <2> HIDE DEF to, sa
  <2>3. op' \in Ops /\ op'.saved = sa
    BY <2>1, <2>2, NoOpIs DEF Ops
  <2> QED
    BY <2>3 DEF sa
<1>6. Typed' /\ Issued' /\ Introduced' /\ OwnFirst'
  BY <1>1, <1>2, <1>5 DEF Typed, Issued, Introduced, OwnFirst, Pcs
<1>7. Clean' /\ Gone'
  BY <1>1, <1>2 DEF Clean, Gone, Running
<1>8. wanted # NoCode => FoundBack' = Found
  <2>1. SUFFICES ASSUME wanted # NoCode PROVE FoundBack' = Found
    OBVIOUS
  <2>2. handle = db.own
    BY <1>1, <1>2, <2>1 DEF Kept
  <2>3. db.binding # 0 => op'.saved[db.binding] = vault[<<db.own, db.binding>>]
    BY <1>1, <1>4, <1>5, <2>2, NamedAre
  <2> QED
    BY <1>2, <2>3 DEF Found, FoundBack, OldCode
<1>9. Kept'
  BY <1>1, <1>2, <1>4, <1>5, <1>8 DEF Kept
<1>10. Forgotten'
  <2>1. \A m \in foreign : m[2] \in Bindings \ Named(db)
    BY <1>1 DEF Typed, Forgotten
  <2> QED
    BY <1>1, <1>2, <1>4, <1>5, <2>1 DEF Forgotten
<1> QED
  BY <1>6, <1>7, <1>9, <1>10 DEF IInv

LEMMA RemoveOneStep ==
  ASSUME IInv, RemoveOne
  PROVE  IInv'
<1>1. /\ Typed /\ Issued /\ Introduced /\ OwnFirst /\ Clean /\ Kept /\ Gone /\ Forgotten
      /\ db \in Rows /\ vault \in [Names -> Secrets] /\ op \in Ops /\ handle \in Profiles
  BY Given
<1>2. PICK b \in op.todo : \/ Works /\ Take(<<handle, b>>) /\ Done(b, TRUE) /\ UNCHANGED pc
                           \/ /\ Fails /\ UNCHANGED vault /\ Done(b, FALSE)
                              /\ pc' = IF op.kind = "reset" THEN pc ELSE "rollback"
  BY DEF RemoveOne
<1>3. /\ UNCHANGED <<db, manifest, handle, issued, changes, wanted, removed, skipped, foreign>>
      /\ pc = "remove" /\ pc' \in {"remove", "rollback"}
  BY <1>2 DEF RemoveOne, history
<1> DEFINE n == <<handle, b>>
<1>4. b \in Bindings
  BY <1>1, <1>2 DEF Ops
<1>5. n \in Names /\ n # Legacy
  BY <1>1, <1>4, NamesAre
<1>6. \/ /\ VaultBecomes(n, NoCode)
         /\ OpBecomes(op.starting, op.stage, op.kind, op.binding, op.todo \ {b},
                      op.left, op.failed, op.scrubbed, op.saved)
      \/ /\ vault' = vault
         /\ OpBecomes(op.starting, op.stage, op.kind, op.binding, op.todo \ {b},
                      op.left \cup {b}, TRUE, op.scrubbed, op.saved)
  <2>1. CASE Works /\ Take(<<handle, b>>) /\ Done(b, TRUE)
    BY <1>1, <1>4, <1>5, <2>1, TakeBecomes, DoneWell
  <2>2. CASE Fails /\ Done(b, FALSE) /\ UNCHANGED vault
    BY <1>1, <1>4, <2>2, DoneBadly
  <2> QED
    BY <1>2, <2>1, <2>2
<1>7. /\ vault' \in [Names -> Secrets] /\ vault'[Legacy] = vault[Legacy]
      /\ \A m \in Names : vault'[m] = vault[m] \/ vault'[m] = NoCode
      /\ \A m \in Names : m # n => vault'[m] = vault[m]
  BY <1>1, <1>5, <1>6, NamesAre DEF VaultBecomes
<1>8. /\ op' \in Ops /\ op'.saved = op.saved
  BY <1>6 DEF OpBecomes
<1>9. Typed'
  <2>1. faults' \in 0..MaxFaults
    BY <1>1, <1>2, Counting DEF Typed
  <2> QED
    BY <1>1, <1>3, <1>7, <1>8, <2>1 DEF Typed, Pcs
<1>10. Issued'
  BY <1>1, <1>3, <1>7, NamesAre DEF Issued
<1>11. Introduced' /\ OwnFirst'
  BY <1>1, <1>3, <1>8 DEF Introduced, OwnFirst
<1>12. Clean' /\ Gone'
  BY <1>1, <1>3, <1>7 DEF Clean, Gone, Running
<1>13. wanted # NoCode => FoundBack' = FoundBack
  <2>1. SUFFICES ASSUME wanted # NoCode PROVE FoundBack' = FoundBack
    OBVIOUS
  <2>2. handle = db.own
    BY <1>1, <1>3, <2>1 DEF Kept
  <2>3. CASE db.binding = 0
    BY <1>1, <1>3, <1>7, <1>8, <2>3, FoundStays
  <2>4. CASE db.binding # 0 /\ op.saved[db.binding] # NoCode
    BY <1>3, <1>8, <2>4 DEF FoundBack
  <2>5. CASE db.binding # 0 /\ op.saved[db.binding] = NoCode
    <3>1. db.binding \in Bindings /\ db.binding \in Named(db)
      BY <1>1, <2>5, NamedAre
    <3>2. vault[<<handle, db.binding>>] = NoCode
      BY <1>1, <1>3, <2>5, <3>1 DEF Kept
    <3>3. <<handle, db.binding>> \in Names /\ <<0, db.binding>> \in Names
      BY <1>1, <3>1, NamesAre
    <3>4. vault'[<<handle, db.binding>>] = vault[<<handle, db.binding>>]
      BY <1>7, <3>2, <3>3
    <3>5. vault'[<<0, db.binding>>] = vault[<<0, db.binding>>]
      <4>1. CASE handle = 0
        BY <3>4, <4>1
      <4>2. CASE handle # 0
        BY <1>7, <3>3, <4>2
      <4> QED
        BY <4>1, <4>2
    <3> QED
      BY <1>1, <1>3, <1>7, <1>8, <2>2, <3>4, <3>5, FoundStays
  <2> QED
    BY <2>3, <2>4, <2>5
<1>14. /\ \A a \in Bindings : op.saved[a] # NoCode => vault'[<<handle, a>>] \in {NoCode, op.saved[a]}
       /\ \A a \in Named(db) : op.saved[a] = NoCode => vault'[<<handle, a>>] = NoCode
  <2>1. \A a \in Bindings : <<handle, a>> \in Names
    BY <1>1, NamesAre
  <2>2. Named(db) \in SUBSET Bindings
    BY <1>1, NamedAre
  <2> QED
    BY <1>1, <1>3, <1>7, <2>1, <2>2 DEF Kept
<1>15. Kept'
  BY <1>1, <1>3, <1>8, <1>13, <1>14 DEF Kept
<1>16. Forgotten'
  <2>1. \A m \in foreign : m \in Names
    BY <1>1 DEF Typed, Names
  <2> QED
    BY <1>1, <1>3, <1>7, <1>8, <2>1 DEF Forgotten
<1> QED
  BY <1>9, <1>10, <1>11, <1>12, <1>15, <1>16 DEF IInv

LEMMA CommitRemovalStep ==
  ASSUME IInv, CommitRemoval
  PROVE  IInv'
<1>1. /\ Typed /\ Issued /\ Introduced /\ OwnFirst /\ Clean /\ Kept /\ Gone /\ Forgotten
      /\ db \in Rows /\ vault \in [Names -> Secrets] /\ op \in Ops
  BY Given
<1>2. /\ UNCHANGED <<vault, manifest, handle, issued, changes, faults, skipped, foreign>>
      /\ pc = "remove" /\ wanted' = NoCode /\ removed' = TRUE
      /\ \/ pc' = "fresh" /\ op' = op
         \/ pc' = "idle" /\ op' = NoOp
  BY DEF CommitRemoval
<1>3. db.plain = NoCode /\ ~db.dirty
  BY <1>1, <1>2 DEF Clean, Running
<1>4. /\ db' \in Rows /\ db'.binding = 0 /\ ~db'.configured /\ db'.stale = {} /\ db'.plain = NoCode
      /\ ~db'.dirty
      /\ \/ db'.own = 0 /\ ~db'.moved
         \/ db'.own = db.own /\ db'.moved = db.moved
  <2>1. CASE op.kind = "reset"
    <3> DEFINE d == [Blank EXCEPT !.dirty = db.dirty]
    <3>1. db' = [d EXCEPT !.there = FALSE, !.binding = 0, !.configured = FALSE,
                          !.stale = {}, !.plain = NoCode]
      BY <2>1 DEF CommitRemoval
    <3>2. d \in Rows /\ d.own = 0 /\ ~d.moved /\ ~d.dirty
      BY <1>1, <1>3, BlankIs
    <3>3. NoCode \in Secrets /\ {} \in SUBSET Bindings /\ 0 \in 0..MaxBindings
      BY DEF Secrets
    <3> HIDE DEF d
    <3> QED
      BY <3>1, <3>2, <3>3 DEF Rows
  <2>2. CASE op.kind # "reset"
    <3> DEFINE th == op.kind = "clear"
    <3>1. db' = [db EXCEPT !.there = th, !.binding = 0,
                           !.configured = FALSE, !.stale = {}, !.plain = NoCode]
      BY <2>2 DEF CommitRemoval
    <3>2. th \in BOOLEAN /\ NoCode \in Secrets /\ {} \in SUBSET Bindings /\ 0 \in 0..MaxBindings
      BY DEF Secrets
    <3> HIDE DEF th
    <3> QED
      BY <1>1, <1>3, <3>1, <3>2 DEF Rows
  <2> QED
    BY <2>1, <2>2
<1>5. Named(db)' = {}
  BY <1>4 DEF Named
<1>6. Typed'
  BY <1>1, <1>2, <1>4, NoOpIs DEF Typed, Pcs, Secrets
<1>7. Issued'
  BY <1>1, <1>2, <1>4, <1>5 DEF Issued, Issues, Profiles, Typed
<1>8. Introduced' /\ OwnFirst'
  BY <1>1, <1>2, <1>4 DEF Introduced, OwnFirst
<1>9. Clean' /\ Gone'
  BY <1>1, <1>2, <1>4 DEF Clean, Gone, Running
<1>10. Kept' /\ Forgotten'
  BY <1>1, <1>2, <1>4, <1>5 DEF Kept, Forgotten
<1> QED
  BY <1>6, <1>7, <1>8, <1>9, <1>10 DEF IInv

LEMMA FreshProfileStep ==
  ASSUME IInv, FreshProfile
  PROVE  IInv'
<1>1. /\ Typed /\ Issued /\ Introduced /\ OwnFirst /\ Clean /\ Kept /\ Gone /\ Forgotten
      /\ db \in Rows /\ issued \in Issues /\ op \in Ops
  BY Given
<1>2. /\ UNCHANGED <<vault, manifest, changes, faults, wanted, removed, skipped, foreign>>
      /\ pc = "fresh" /\ wanted = NoCode
  BY <1>1 DEF FreshProfile, history, Kept
<1> DEFINE p == issued.profile + 1
<1>3. p \in Profiles /\ p # 0 /\ p > issued.profile /\ issued.profile \in Nat
  BY <1>1 DEF FreshProfile, Issues, Profiles
<1>4. /\ DbBecomes(db.there, db.binding, db.configured, db.stale, db.plain,
                   p, TRUE, db.complete, db.dirty)
      /\ issued' \in Issues /\ issued'.profile = p /\ issued'.binding = issued.binding
      /\ handle' = p
  <2>1. /\ db' = [db EXCEPT !.own = p, !.moved = TRUE] /\ handle' = p
        /\ issued' = [issued EXCEPT !.profile = p]
    BY DEF FreshProfile
  <2> HIDE DEF p
  <2> QED
    BY <1>1, <1>3, <2>1 DEF DbBecomes, Rows, Issues
<1>5. /\ pc' \in {"off", "idle"}
      /\ OpBecomes(FALSE, 0, "none", 0, {}, {}, FALSE, FALSE, Nothing)
  BY <1>1, GivesUpBecomes DEF FreshProfile
<1>6. Named(db)' = Named(db)
  BY <1>4, NamedStay DEF DbBecomes
<1>7. Issued'
  <2>1. ASSUME NEW q \in Profiles, NEW b \in Bindings, q > p
        PROVE  vault[<<q, b>>] = NoCode
    <3>1. q > issued.profile
      BY <1>3, <2>1 DEF Profiles
    <3> QED
      BY <1>1, <3>1 DEF Issued
  <2>2. p <= p
    BY <1>3
  <2> HIDE DEF p
  <2> QED
    BY <1>1, <1>2, <1>4, <1>6, <2>1, <2>2 DEF Issued, DbBecomes
<1> HIDE DEF p
<1>8. Typed'
  BY <1>1, <1>2, <1>3, <1>4, <1>5 DEF Typed, DbBecomes, OpBecomes, Pcs
<1>9. Introduced' /\ OwnFirst'
  BY <1>1, <1>2, <1>3, <1>4, <1>5 DEF Introduced, OwnFirst, DbBecomes
<1>10. Clean' /\ Gone'
  BY <1>1, <1>2, <1>4, <1>5 DEF Clean, Gone, Running, DbBecomes
<1>11. Kept' /\ Forgotten'
  BY <1>1, <1>2, <1>4, <1>5, <1>6 DEF Kept, Forgotten
<1> QED
  BY <1>7, <1>8, <1>9, <1>10, <1>11 DEF IInv

LEMMA TurnBackStep ==
  ASSUME IInv, TurnBack
  PROVE  IInv'
<1>1. /\ Typed /\ Issued /\ Introduced /\ OwnFirst /\ Clean /\ Kept /\ Gone /\ Forgotten
  BY Given
<1>2. /\ UNCHANGED <<vault, db, manifest, handle, op, issued, changes, wanted, removed, skipped, foreign>>
      /\ pc \in {"remove", "fresh"} /\ pc' = "rollback" /\ faults' \in 0..MaxFaults
  BY <1>1, Counting DEF TurnBack, history, Typed
<1>3. Typed' /\ Issued' /\ Introduced' /\ OwnFirst'
  BY <1>1, <1>2 DEF Typed, Issued, Introduced, OwnFirst, Pcs
<1>4. FoundBack' = FoundBack
  BY <1>2 DEF FoundBack, OldCode
<1>5. Clean' /\ Gone' /\ Kept' /\ Forgotten'
  BY <1>1, <1>2, <1>4 DEF Clean, Gone, Kept, Forgotten, Running
<1> QED
  BY <1>3, <1>5 DEF IInv

LEMMA RestoreOneStep ==
  ASSUME IInv, RestoreOne
  PROVE  IInv'
<1>1. /\ Typed /\ Issued /\ Introduced /\ OwnFirst /\ Clean /\ Kept /\ Gone /\ Forgotten
      /\ db \in Rows /\ vault \in [Names -> Secrets] /\ op \in Ops /\ handle \in Profiles
  BY Given
<1>2. /\ UNCHANGED <<db, manifest, handle, pc, issued, changes, removed, skipped, foreign>>
      /\ pc = "rollback"
  BY DEF RestoreOne
<1>3. PICK b \in Bindings :
         /\ op.saved[b] # NoCode
         /\ \/ Works /\ Put(<<handle, b>>, op.saved[b]) /\ UNCHANGED wanted
               /\ op' = [op EXCEPT !.saved[b] = NoCode]
            \/ /\ Fails /\ UNCHANGED vault
               /\ \/ op' = [op EXCEPT !.saved[b] = NoCode]
                  \/ op' = [op EXCEPT !.saved = Nothing]
               /\ wanted' = IF Bound = NoCode /\ db.binding \in Bindings
                                /\ op'.saved[db.binding] = NoCode
                              THEN NoCode ELSE wanted
  BY DEF RestoreOne
<1> DEFINE n == <<handle, b>>
<1>4. n \in Names /\ n # Legacy /\ op.saved[b] \in Secrets
  BY <1>1, NamesAre DEF Ops
<1>5. faults' \in 0..MaxFaults /\ wanted' \in Secrets
  BY <1>1, <1>3, Counting DEF Typed, Secrets
<1>6. /\ op' \in Ops
      /\ \A a \in Bindings : op'.saved[a] = op.saved[a] \/ op'.saved[a] = NoCode
  <2>1. CASE op' = [op EXCEPT !.saved[b] = NoCode]
    BY <1>1, <2>1, OpRestores DEF OpBecomes
  <2>2. CASE op' = [op EXCEPT !.saved = Nothing]
    BY <1>1, <2>2, NoOpIs DEF Ops, Nothing
  <2> QED
    BY <1>3, <2>1, <2>2
<1>7. /\ \A m \in foreign : m \in Names /\ m # n /\ op.saved[m[2]] = NoCode
      /\ \A m \in foreign : op'.saved[m[2]] = NoCode
  <2>1. \A m \in foreign : m \in Names /\ m[2] \in Bindings
    BY <1>1 DEF Typed, Names
  <2>2. \A m \in foreign : op.saved[m[2]] = NoCode
    BY <1>1, <1>2 DEF Forgotten
  <2> QED
    BY <1>3, <1>6, <2>1, <2>2
<1>8. CASE Works /\ Put(n, op.saved[b]) /\ UNCHANGED wanted
           /\ op' = [op EXCEPT !.saved[b] = NoCode]
  <2>1. VaultBecomes(n, op.saved[b])
    BY <1>1, <1>4, <1>8, PutBecomes
  <2>2. /\ vault' \in [Names -> Secrets] /\ vault'[Legacy] = vault[Legacy]
        /\ \A m \in Names : m # n => vault'[m] = vault[m]
        /\ vault'[n] = op.saved[b]
    BY <1>4, <2>1, NamesAre DEF VaultBecomes
  <2>3. /\ op'.saved[b] = NoCode /\ \A a \in Bindings \ {b} : op'.saved[a] = op.saved[a]
    BY <1>1, <1>8, OpRestores
  <2>4. Typed'
    BY <1>1, <1>2, <1>5, <1>6, <2>2 DEF Typed
  <2>5. Issued'
    <3>1. ASSUME NEW p \in Profiles, NEW a \in Bindings, p > issued.profile
          PROVE  vault'[<<p, a>>] = NoCode
      <4>1. p # handle
        BY <1>1, <3>1 DEF Issued, Issues, Profiles, Typed
      <4>2. <<p, a>> \in Names /\ <<p, a>> # n
        BY <3>1, <4>1, NamesAre
      <4> QED
        BY <1>1, <2>2, <3>1, <4>2 DEF Issued
    <3> QED
      BY <1>1, <1>2, <3>1 DEF Issued
  <2>6. Introduced' /\ OwnFirst' /\ Clean' /\ Gone'
    BY <1>1, <1>2, <2>2 DEF Introduced, OwnFirst, Clean, Gone, Running
  <2>7. wanted # NoCode => FoundBack' = FoundBack
    <3>1. SUFFICES ASSUME wanted # NoCode PROVE FoundBack' = FoundBack
      OBVIOUS
    <3>2. handle = db.own
      BY <1>1, <1>2, <3>1 DEF Kept
    <3>3. CASE db.binding = 0
      BY <1>2, <2>2, <3>3 DEF FoundBack, OldCode
    <3>4. CASE db.binding = b
      <4>1. db.binding # 0
        BY <3>4, NamesAre
      <4>2. FoundBack = op.saved[b]
        BY <1>3, <3>4, <4>1 DEF FoundBack
      <4>3. FoundBack' = vault'[n]
        BY <1>2, <1>3, <2>2, <2>3, <3>2, <3>4, <4>1 DEF FoundBack
      <4> QED
        BY <2>2, <4>2, <4>3
    <3>5. CASE db.binding # 0 /\ db.binding # b
      <4>1. db.binding \in Bindings /\ db.own \in Profiles
        BY <1>1, <3>5, NamedAre DEF Rows
      <4>2. /\ vault'[<<db.own, db.binding>>] = vault[<<db.own, db.binding>>]
            /\ vault'[<<0, db.binding>>] = vault[<<0, db.binding>>]
            /\ op'.saved[db.binding] = op.saved[db.binding]
        BY <2>2, <2>3, <3>5, <4>1, NamesAre
      <4> QED
        BY <1>2, <2>2, <4>2 DEF FoundBack, OldCode
    <3> QED
      BY <3>3, <3>4, <3>5
  <2>8. \A a \in Bindings :
          op'.saved[a] # NoCode => vault'[<<handle, a>>] \in {NoCode, op'.saved[a]}
    <3>1. SUFFICES ASSUME NEW a \in Bindings, op'.saved[a] # NoCode
                   PROVE  vault'[<<handle, a>>] \in {NoCode, op'.saved[a]}
      OBVIOUS
    <3>2. a # b /\ op'.saved[a] = op.saved[a]
      BY <2>3, <3>1
    <3>3. vault'[<<handle, a>>] = vault[<<handle, a>>]
      BY <1>1, <2>2, <3>2, NamesAre
    <3> QED
      BY <1>1, <1>2, <3>1, <3>2, <3>3 DEF Kept
  <2>9. Kept'
    BY <1>1, <1>2, <1>8, <2>7, <2>8 DEF Kept
  <2>10. Forgotten'
    <3>1. \A m \in foreign : vault'[m] = vault[m]
      BY <1>7, <2>2
    <3> QED
      BY <1>1, <1>2, <1>7, <3>1 DEF Forgotten
  <2> QED
    BY <2>4, <2>5, <2>6, <2>9, <2>10 DEF IInv
<1>9. CASE /\ Fails /\ UNCHANGED vault
           /\ wanted' = IF Bound = NoCode /\ db.binding \in Bindings
                            /\ op'.saved[db.binding] = NoCode
                          THEN NoCode ELSE wanted
  <2>1. Typed'
    BY <1>1, <1>2, <1>5, <1>6, <1>9 DEF Typed
  <2>2. Issued' /\ Introduced' /\ OwnFirst' /\ Clean' /\ Gone'
    BY <1>1, <1>2, <1>9 DEF Issued, Introduced, OwnFirst, Clean, Gone, Running
  <2>3. wanted' # NoCode => wanted' = wanted /\ FoundBack' = FoundBack
    <3>1. SUFFICES ASSUME wanted' # NoCode PROVE wanted' = wanted /\ FoundBack' = FoundBack
      OBVIOUS
    <3>2. wanted' = wanted
          /\ ~(Bound = NoCode /\ db.binding \in Bindings /\ op'.saved[db.binding] = NoCode)
      BY <1>9, <3>1
    <3>3. handle = db.own
      BY <1>1, <1>2, <3>1, <3>2 DEF Kept
    <3>4. CASE db.binding = 0
      BY <1>2, <1>9, <3>2, <3>4 DEF FoundBack, OldCode
    <3>5. CASE db.binding # 0
      <4>1. db.binding \in Bindings
        BY <1>1, <3>5, NamedAre
      <4>2. op'.saved[db.binding] = op.saved[db.binding] \/ op'.saved[db.binding] = NoCode
        BY <1>6, <4>1
      <4>3. CASE op'.saved[db.binding] # NoCode
        BY <1>2, <3>2, <3>5, <4>2, <4>3 DEF FoundBack
      <4>4. CASE op'.saved[db.binding] = NoCode
        <5>1. vault[<<db.own, db.binding>>] # NoCode
          BY <3>2, <3>3, <3>5, <4>1, <4>4 DEF Bound
        <5>2. op.saved[db.binding] # NoCode => op.saved[db.binding] = vault[<<db.own, db.binding>>]
          BY <1>1, <1>2, <3>3, <4>1, <5>1 DEF Kept
        <5>3. FoundBack = vault[<<db.own, db.binding>>]
          BY <3>5, <5>1, <5>2 DEF FoundBack
        <5>4. FoundBack' = vault[<<db.own, db.binding>>]
          BY <1>2, <1>9, <3>5, <4>4, <5>1 DEF FoundBack
        <5> QED
          BY <3>2, <5>3, <5>4
      <4> QED
        BY <4>3, <4>4
    <3> QED
      BY <3>4, <3>5
  <2>4. \A a \in Bindings :
          op'.saved[a] # NoCode => vault[<<handle, a>>] \in {NoCode, op'.saved[a]}
    BY <1>1, <1>2, <1>6 DEF Kept
  <2>5. wanted = NoCode => wanted' = NoCode
    BY <1>9
  <2>6. Kept'
    BY <1>1, <1>2, <1>9, <2>3, <2>4, <2>5 DEF Kept
  <2>7. Forgotten'
    BY <1>1, <1>2, <1>7, <1>9 DEF Forgotten
  <2> QED
    BY <2>1, <2>2, <2>6, <2>7 DEF IInv
<1> QED
  BY <1>3, <1>8, <1>9

LEMMA RolledBackStep ==
  ASSUME IInv, RolledBack
  PROVE  IInv'
<1>1. /\ Typed /\ Issued /\ Introduced /\ OwnFirst /\ Clean /\ Kept /\ Gone /\ Forgotten
      /\ db \in Rows /\ op \in Ops
  BY Given
<1>2. /\ UNCHANGED <<vault, db, manifest, handle, issued, changes, faults, wanted, removed, skipped, foreign>>
      /\ pc = "rollback" /\ op.saved = Nothing
  BY DEF RolledBack, history
<1>3. /\ pc' \in {"off", "idle"}
      /\ OpBecomes(FALSE, 0, "none", 0, {}, {}, FALSE, FALSE, Nothing)
  BY <1>1, GivesUpBecomes DEF RolledBack
<1>4. Typed' /\ Issued' /\ Introduced' /\ OwnFirst'
  BY <1>1, <1>2, <1>3 DEF Typed, Issued, Introduced, OwnFirst, OpBecomes, Pcs
<1>5. Found' = FoundBack
  <2>1. db.binding # 0 => op.saved[db.binding] = NoCode
    BY <1>1, <1>2, NamedAre DEF Nothing
  <2> QED
    BY <1>2, <2>1 DEF Found, FoundBack, OldCode
<1>6. Clean' /\ Gone' /\ Kept' /\ Forgotten'
  BY <1>1, <1>2, <1>3, <1>5 DEF Clean, Gone, Kept, Forgotten, Running
<1> QED
  BY <1>4, <1>6 DEF IInv

-----------------------------------------------------------------------------
\* Another library takes over, and the end of the process.

LEMMA RetryCleanupStep ==
  ASSUME IInv, RetryCleanup
  PROVE  IInv'
<1>1. /\ Typed /\ Issued /\ Introduced /\ OwnFirst /\ Clean /\ Kept /\ Gone /\ Forgotten
      /\ manifest \in Manifests
  BY Given
<1>2. /\ UNCHANGED <<vault, db, manifest, handle, issued, faults, wanted, removed, skipped, foreign>>
      /\ pc = "idle" /\ pc' = "purge" /\ manifest.pending /\ changes' \in 0..MaxChanges
  BY <1>1, Counting DEF RetryCleanup, history, Typed
<1>3. /\ op' \in Ops /\ op'.starting = FALSE /\ op'.stage = 1 /\ op'.todo = manifest.keys
  <2> DEFINE to == manifest.keys
  <2>1. op' = [NoOp EXCEPT !.stage = 1, !.todo = to] /\ to \in SUBSET Bindings
    BY <1>1 DEF RetryCleanup, Manifests
  <2> HIDE DEF to
  <2>2. 1 \in 0..3
    OBVIOUS
  <2>3. op' \in Ops /\ op'.starting = FALSE /\ op'.stage = 1 /\ op'.todo = to
    BY <2>1, <2>2, NoOpIs DEF Ops
  <2> QED
    BY <2>3 DEF to
<1>4. Typed' /\ Issued' /\ Introduced' /\ OwnFirst'
  BY <1>1, <1>2, <1>3 DEF Typed, Issued, Introduced, OwnFirst, Pcs
<1>5. Clean' /\ Gone' /\ Kept' /\ Forgotten'
  BY <1>1, <1>2, <1>3 DEF Clean, Gone, Kept, Forgotten, Running
<1> QED
  BY <1>4, <1>5 DEF IInv

LEMMA PersistManifestStep ==
  ASSUME IInv, PersistManifest
  PROVE  IInv'
<1>1. /\ Typed /\ Issued /\ Introduced /\ OwnFirst /\ Clean /\ Kept /\ Gone /\ Forgotten
      /\ db \in Rows /\ handle \in Profiles
  BY Given
<1>2. /\ UNCHANGED <<vault, db, handle, op, issued, faults, wanted, removed, skipped, foreign>>
      /\ pc = "idle" /\ pc' = "import" /\ ~manifest.pending /\ changes' \in 0..MaxChanges
  BY <1>1, Counting DEF PersistManifest, history, Typed
<1>3. /\ manifest' \in Manifests /\ manifest'.profile = handle /\ manifest'.keys = Named(db)
      /\ manifest'.pending
  <2>1. Named(db) \in SUBSET Bindings
    BY <1>1, NamedAre
  <2>2. manifest' = [profile |-> handle, keys |-> Named(db), pending |-> TRUE]
    BY DEF PersistManifest
  <2> QED
    BY <1>1, <2>1, <2>2 DEF Manifests
<1>4. Typed' /\ Issued' /\ Introduced' /\ OwnFirst'
  BY <1>1, <1>2, <1>3 DEF Typed, Issued, Introduced, OwnFirst, Pcs
<1>5. Found' = Found
  BY <1>2 DEF Found, OldCode
<1>6. Clean' /\ Gone' /\ Kept'
  BY <1>1, <1>2, <1>3, <1>5 DEF Clean, Gone, Kept, Running
<1>7. Forgotten'
  <2>1. Named(db)' = Named(db)
    BY <1>2
  <2> QED
    BY <1>1, <1>2, <1>3, <2>1 DEF Forgotten
<1> QED
  BY <1>4, <1>6, <1>7 DEF IInv

LEMMA ImportStep ==
  ASSUME IInv, Import
  PROVE  IInv'
<1>1. /\ Typed /\ Issued /\ Introduced /\ OwnFirst /\ Clean /\ Kept /\ Gone /\ Forgotten
      /\ db \in Rows /\ handle \in Profiles /\ manifest \in Manifests
  BY Given
<1>2. /\ UNCHANGED <<vault, manifest, handle, issued, changes, faults, skipped>>
      /\ pc = "import" /\ pc' = "purge" /\ wanted' = NoCode /\ removed' = FALSE
      /\ foreign' = foreign \cup ({handle} \X Named(db))
  BY DEF Import
<1>3. db.plain = NoCode /\ ~db.dirty /\ manifest.pending
      /\ manifest.profile = handle /\ manifest.keys = Named(db)
  BY <1>1, <1>2 DEF Clean, Running, Kept, Forgotten
<1>4. /\ op' \in Ops /\ op'.starting = FALSE /\ op'.stage = 1 /\ op'.todo = manifest.keys
  <2> DEFINE to == manifest.keys
  <2>1. op' = [NoOp EXCEPT !.stage = 1, !.todo = to] /\ to \in SUBSET Bindings
    BY <1>1 DEF Import, Manifests
  <2> HIDE DEF to
  <2>2. 1 \in 0..3
    OBVIOUS
  <2>3. op' \in Ops /\ op'.starting = FALSE /\ op'.stage = 1 /\ op'.todo = to
    BY <2>1, <2>2, NoOpIs DEF Ops
  <2> QED
    BY <2>3 DEF to
<1>5. /\ db' \in Rows /\ db'.there = FALSE /\ db'.binding = 0 /\ db'.configured = FALSE
      /\ db'.stale = {} /\ db'.plain = NoCode /\ db'.own = 0 /\ db'.moved = FALSE
      /\ db'.complete = FALSE /\ db'.dirty = FALSE
  <2> DEFINE d == [Blank EXCEPT !.dirty = db.dirty]
  <2>1. db' = d
    BY DEF Import
  <2> QED
    BY <1>1, <1>3, <2>1, BlankIs
<1>6. Named(db)' = {}
  BY <1>5 DEF Named
<1>7. Named(db) \in SUBSET Bindings /\ \A b \in Named(db) : b <= issued.binding
  BY <1>1, NamedAre DEF Issued
<1>8. foreign' \subseteq Profiles \X Bindings
  BY <1>1, <1>2, <1>7 DEF Typed
<1>9. Typed'
  BY <1>1, <1>2, <1>4, <1>5, <1>8 DEF Typed, Pcs, Secrets
<1>10. Issued'
  BY <1>1, <1>2, <1>5, <1>6 DEF Issued, Issues, Profiles, Typed
<1>11. Introduced' /\ OwnFirst'
  BY <1>1, <1>2, <1>4, <1>5 DEF Introduced, OwnFirst
<1>12. Clean' /\ Gone' /\ Kept'
  BY <1>1, <1>2, <1>3, <1>4, <1>5 DEF Clean, Gone, Kept, Running
<1>13. \A m \in foreign : m[2] <= issued.binding /\ vault[m] = NoCode
  BY <1>1, <1>2 DEF Forgotten
<1>14. \A m \in {handle} \X Named(db) :
         m[1] = manifest.profile /\ m[2] \in manifest.keys /\ m[2] <= issued.binding
  BY <1>3, <1>7
<1>15. Forgotten'
  BY <1>2, <1>3, <1>4, <1>6, <1>13, <1>14 DEF Forgotten
<1> QED
  BY <1>9, <1>10, <1>11, <1>12, <1>15 DEF IInv

LEMMA RejectedStep ==
  ASSUME IInv, Rejected
  PROVE  IInv'
<1>1. /\ Typed /\ Issued /\ Introduced /\ OwnFirst /\ Clean /\ Kept /\ Gone /\ Forgotten
      /\ db \in Rows /\ op \in Ops
  BY Given
<1>2. /\ UNCHANGED <<vault, db, handle, issued, changes, removed, skipped, foreign>>
      /\ pc = "import" /\ faults' \in 0..MaxFaults
      /\ \/ manifest' = NoManifest /\ wanted' = wanted
         \/ manifest' = manifest /\ wanted' = NoCode
  BY <1>1, Counting DEF Rejected, Typed
<1>3. /\ pc' \in {"off", "idle"}
      /\ OpBecomes(FALSE, 0, "none", 0, {}, {}, FALSE, FALSE, Nothing)
  BY <1>1, GivesUpBecomes DEF Rejected
<1>4. /\ manifest' \in Manifests /\ wanted' \in Secrets
      /\ wanted' # NoCode => wanted' = wanted /\ ~manifest'.pending
      /\ manifest'.pending => wanted' = NoCode
  BY <1>1, <1>2, NoManifestIs DEF Typed, Secrets
<1>5. Typed' /\ Issued' /\ Introduced' /\ OwnFirst'
  BY <1>1, <1>2, <1>3, <1>4 DEF Typed, Issued, Introduced, OwnFirst, OpBecomes, Pcs
<1>6. Found' = Found
  BY <1>2 DEF Found, OldCode
<1>7. Clean' /\ Gone' /\ Kept'
  BY <1>1, <1>2, <1>3, <1>4, <1>6 DEF Clean, Gone, Kept, Running
<1>8. \A m \in foreign : vault[m] = NoCode
  BY <1>1, <1>2 DEF Forgotten
<1>9. Named(db)' = Named(db)
  BY <1>2
<1>10. Forgotten'
  BY <1>1, <1>2, <1>3, <1>8, <1>9 DEF Forgotten
<1> QED
  BY <1>5, <1>7, <1>10 DEF IInv

LEMMA CrashStep ==
  ASSUME IInv, Crash
  PROVE  IInv'
<1>1. /\ Typed /\ Issued /\ Introduced /\ OwnFirst /\ Clean /\ Kept /\ Gone /\ Forgotten
      /\ db \in Rows /\ issued \in Issues
  BY Given
<1>2. /\ UNCHANGED <<vault, db, manifest, issued, changes, removed, skipped, foreign>>
      /\ pc' = "off" /\ handle' = 0 /\ op' = NoOp /\ faults' \in 0..MaxFaults
      /\ wanted' = IF pc \in {"remove", "rollback", "import"} THEN NoCode ELSE wanted
  BY <1>1, Counting DEF Crash, Typed
<1>3. wanted' \in Secrets /\ 0 \in Profiles /\ 0 <= issued.profile
  BY <1>1, <1>2, NamesAre DEF Typed, Secrets, Issues, Profiles
<1>4. Named(db)' = Named(db)
  BY <1>2
<1>5. Typed' /\ Issued' /\ Introduced' /\ OwnFirst'
  BY <1>1, <1>2, <1>3, <1>4, NoOpIs DEF Typed, Issued, Introduced, OwnFirst, Pcs
<1>6. Found' = Found
  BY <1>2 DEF Found, OldCode
<1>7. Clean' /\ Gone' /\ Kept'
  BY <1>1, <1>2, <1>6 DEF Clean, Gone, Kept, Running
<1>8. Forgotten'
  BY <1>1, <1>2, <1>4 DEF Forgotten
<1> QED
  BY <1>5, <1>7, <1>8 DEF IInv

-----------------------------------------------------------------------------
\* The invariant of every behaviour.

\* The rows of the older releases: as new, but for the fields of an entry.
OldRow(d, bi, st, pl) ==
  /\ d \in Rows /\ d.there = TRUE /\ d.binding = bi /\ d.stale = st /\ d.plain = pl
  /\ d.own = 0 /\ d.moved = FALSE

LEMMA RowIs ==
  OldRow(Row, 0, {}, NoCode) /\ Row.complete = FALSE /\ Row.dirty = FALSE
<1>1. 0 \in 0..MaxBindings /\ {} \in SUBSET Bindings /\ NoCode \in Secrets /\ 0 \in Profiles
      /\ FALSE \in BOOLEAN /\ TRUE \in BOOLEAN
  BY NamesAre DEF Secrets
<1>2. Blank \in Rows
  BY <1>1 DEF Blank, Rows
<1>3. /\ Blank.binding = 0 /\ Blank.stale = {} /\ Blank.plain = NoCode /\ Blank.own = 0
      /\ Blank.moved = FALSE /\ Blank.complete = FALSE /\ Blank.dirty = FALSE
  BY DEF Blank
<1> QED
  BY <1>1, <1>2, <1>3 DEF OldRow, Row, Rows

LEMMA PlainIs ==
  ASSUME NEW c \in Codes
  PROVE  OldRow(Plaintext(c), 0, {}, c) /\ Plaintext(c).complete = FALSE
<1>1. c \in Secrets
  BY DEF Secrets
<1> QED
  BY <1>1, RowIs DEF OldRow, Plaintext, Rows

LEMMA KnownIs ==
  ASSUME NEW done \in BOOLEAN
  PROVE  OldRow(Known(done), 0, {}, NoCode) /\ Known(done).dirty = FALSE
  BY RowIs DEF OldRow, Known, Rows

\* What each past leaves: at most two bindings, the codes where the row leads to them.
LEMMA PastsAre ==
  ASSUME NEW c \in Codes, NEW past \in Pasts(c)
  PROVE  /\ past[1] \in Rows /\ past[1].own = 0 /\ past[1].moved = FALSE
         /\ past[1].there \in BOOLEAN
         /\ past[1].binding \notin past[1].stale
         /\ ~past[1].there \/ past[1].complete => past[1].plain = NoCode
         /\ past[1].complete => ~past[1].dirty
         /\ Cardinality(Named(past[1])) \in 0..MaxBindings
         /\ \A b \in Named(past[1]) : b <= Cardinality(Named(past[1]))
         /\ ~past[1].there => Legacy \notin past[2] /\ past[1].binding = 0
         /\ past[1].there =>
              \/ past[1].binding # 0 /\ <<0, past[1].binding>> \in past[2]
              \/ past[1].binding = 0 /\ (Legacy \in past[2] \/ past[1].plain = c)
         /\ past[2] \subseteq {Legacy, <<0, 1>>, <<0, 2>>}
<1>1. 1 \in Bindings /\ 2 \in Bindings /\ 0 \in 0..MaxBindings
      /\ 1 \in 0..MaxBindings /\ 2 \in 0..MaxBindings
  BY DEF Bindings
<1>2. Cardinality({}) = 0 /\ Cardinality({1}) = 1 /\ Cardinality({1, 2}) = 2
  <2>1. Cardinality({}) = 0 /\ Cardinality({1}) = 1 /\ IsFiniteSet({1})
    BY FS_EmptySet, FS_Singleton
  <2>2. Cardinality({1} \cup {2}) = IF 2 \in {1} THEN Cardinality({1}) ELSE Cardinality({1}) + 1
    BY <2>1, FS_AddElement
  <2>3. {1} \cup {2} = {1, 2}
    OBVIOUS
  <2> QED
    BY <2>1, <2>2, <2>3
<1>3. CASE past = <<Blank, {}>>
  <2>1. /\ Blank \in Rows /\ Blank.there = FALSE /\ Blank.binding = 0
        /\ Blank.stale = {} /\ Blank.plain = NoCode /\ Blank.own = 0 /\ Blank.moved = FALSE
        /\ Blank.complete = FALSE
    BY NamesAre DEF Blank, Rows, Secrets
  <2>2. Named(Blank) = {}
    BY <2>1 DEF Named
  <2> QED
    BY <1>1, <1>2, <1>3, <2>1, <2>2
<1>4. CASE past = <<Plaintext(c), {}>> \/ past = <<Plaintext(c), {Legacy}>>
  <2>1. OldRow(Plaintext(c), 0, {}, c) /\ Plaintext(c).complete = FALSE
    BY PlainIs
  <2>2. Named(Plaintext(c)) = {}
    BY <2>1 DEF Named, OldRow
  <2>3. past[1] = Plaintext(c) /\ past[2] \subseteq {Legacy}
    BY <1>4
  <2> QED
    BY <1>1, <1>2, <2>1, <2>2, <2>3 DEF OldRow
<1>5. ASSUME NEW done \in BOOLEAN,
             \/ past = <<Known(done), {Legacy}>>
             \/ past = <<[Known(done) EXCEPT !.binding = 1], {<<0, 1>>}>>
             \/ past = <<[Known(done) EXCEPT !.binding = 2, !.stale = {1}], {<<0, 1>>, <<0, 2>>}>>
      PROVE  \/ /\ OldRow(past[1], 0, {}, NoCode) /\ past[1].dirty = FALSE
                /\ past[2] = {Legacy}
             \/ /\ OldRow(past[1], 1, {}, NoCode) /\ past[1].dirty = FALSE
                /\ past[2] = {<<0, 1>>}
             \/ /\ OldRow(past[1], 2, {1}, NoCode) /\ past[1].dirty = FALSE
                /\ past[2] = {<<0, 1>>, <<0, 2>>}
  <2>1. {1} \in SUBSET Bindings
    BY <1>1
  <2>2. OldRow(Known(done), 0, {}, NoCode) /\ Known(done).dirty = FALSE
    BY KnownIs
  <2>3. CASE past = <<Known(done), {Legacy}>>
    BY <2>2, <2>3
  <2>4. CASE past = <<[Known(done) EXCEPT !.binding = 1], {<<0, 1>>}>>
    BY <1>1, <2>2, <2>4 DEF OldRow, Rows
  <2>5. CASE past = <<[Known(done) EXCEPT !.binding = 2, !.stale = {1}], {<<0, 1>>, <<0, 2>>}>>
    BY <1>1, <2>1, <2>2, <2>5 DEF OldRow, Rows
  <2> QED
    BY <1>5, <2>3, <2>4, <2>5
<1>6. CASE OldRow(past[1], 0, {}, NoCode) /\ past[1].dirty = FALSE /\ past[2] = {Legacy}
  <2>1. Named(past[1]) = {}
    BY <1>6 DEF Named, OldRow
  <2> QED
    BY <1>1, <1>2, <1>6, <2>1 DEF OldRow
<1>7. CASE OldRow(past[1], 1, {}, NoCode) /\ past[1].dirty = FALSE /\ past[2] = {<<0, 1>>}
  <2>1. Named(past[1]) = {1}
    BY <1>7 DEF Named, OldRow
  <2>2. Cardinality(Named(past[1])) = 1 /\ \A b \in Named(past[1]) : b <= 1
    BY <1>2, <2>1
  <2>3. <<0, past[1].binding>> \in past[2] /\ past[1].binding # 0
    BY <1>7 DEF OldRow
  <2>4. past[2] \subseteq {Legacy, <<0, 1>>, <<0, 2>>}
    BY <1>7
  <2> QED
    BY <1>1, <1>7, <2>2, <2>3, <2>4 DEF OldRow
<1>8. CASE OldRow(past[1], 2, {1}, NoCode) /\ past[1].dirty = FALSE
           /\ past[2] = {<<0, 1>>, <<0, 2>>}
  <2>1. Named(past[1]) = {1, 2}
    BY <1>8 DEF Named, OldRow
  <2>2. Cardinality(Named(past[1])) = 2 /\ \A b \in Named(past[1]) : b <= 2
    BY <1>2, <2>1
  <2>3. <<0, past[1].binding>> \in past[2] /\ past[1].binding # 0
    BY <1>8 DEF OldRow
  <2>4. past[2] \subseteq {Legacy, <<0, 1>>, <<0, 2>>}
    BY <1>8
  <2>5. past[1].binding \notin past[1].stale
    BY <1>8 DEF OldRow
  <2> QED
    BY <1>1, <1>8, <2>2, <2>3, <2>4, <2>5 DEF OldRow
<1>9. \/ past \in {<<Blank, {}>>, <<Plaintext(c), {}>>, <<Plaintext(c), {Legacy}>>}
      \/ \E done \in BOOLEAN :
           \/ past = <<Known(done), {Legacy}>>
           \/ past = <<[Known(done) EXCEPT !.binding = 1], {<<0, 1>>}>>
           \/ past = <<[Known(done) EXCEPT !.binding = 2, !.stale = {1}], {<<0, 1>>, <<0, 2>>}>>
  BY DEF Pasts
<1> QED
  BY <1>3, <1>4, <1>5, <1>6, <1>7, <1>8, <1>9

LEMMA InitIInv ==
  ASSUME Init
  PROVE  IInv
<1>0. PICK c \in Codes : \E past \in Pasts(c) :
         /\ db = past[1]
         /\ vault = Holds(past[2], c)
         /\ issued = [binding |-> Cardinality(Named(past[1])), profile |-> 0]
         /\ wanted = IF past[1].there THEN c ELSE NoCode
  BY DEF Init
<1>1. PICK past \in Pasts(c) :
         /\ db = past[1]
         /\ vault = Holds(past[2], c)
         /\ issued = [binding |-> Cardinality(Named(past[1])), profile |-> 0]
         /\ wanted = IF past[1].there THEN c ELSE NoCode
  BY <1>0
<1>2. /\ manifest = NoManifest /\ handle = 0 /\ pc = "off" /\ op = NoOp
      /\ changes = 0 /\ faults = 0 /\ removed = FALSE /\ skipped = FALSE /\ foreign = {}
  BY DEF Init
<1>3. /\ db \in Rows /\ db.own = 0 /\ db.moved = FALSE /\ db.binding \notin db.stale
      /\ ~db.there \/ db.complete => db.plain = NoCode
      /\ db.complete => ~db.dirty
      /\ issued \in Issues /\ issued.profile = 0
      /\ \A b \in Named(db) : b <= issued.binding
      /\ ~db.there => Legacy \notin past[2] /\ db.binding = 0
      /\ db.there => \/ db.binding # 0 /\ <<0, db.binding>> \in past[2]
                     \/ db.binding = 0 /\ (Legacy \in past[2] \/ db.plain = c)
      /\ past[2] \subseteq {Legacy, <<0, 1>>, <<0, 2>>}
  <2>1. issued \in Issues /\ issued.profile = 0 /\ issued.binding = Cardinality(Named(db))
    BY <1>1, PastsAre, NamesAre DEF Issues
  <2> QED
    BY <1>1, <2>1, PastsAre
<1>4. /\ vault \in [Names -> Secrets]
      /\ \A n \in Names : vault[n] = IF n \in past[2] THEN c ELSE NoCode
  BY <1>1 DEF Holds, Secrets
<1>5. wanted = (IF db.there THEN c ELSE NoCode) /\ c # NoCode
  BY <1>1
<1>6. Typed
  <2>1. wanted \in Secrets /\ 0 \in 0..MaxChanges /\ 0 \in 0..MaxFaults
    BY <1>5 DEF Secrets
  <2>2. pc \in Pcs /\ handle \in Profiles /\ op \in Ops /\ manifest \in Manifests
    BY <1>2, NamesAre, NoOpIs, NoManifestIs DEF Pcs
  <2>3. foreign \subseteq Profiles \X Bindings
    BY <1>2
  <2> QED
    BY <1>2, <1>3, <1>4, <2>1, <2>2, <2>3 DEF Typed
<1>7. Issued
  <2>1. ASSUME NEW p \in Profiles, NEW b \in Bindings, p > 0
        PROVE  vault[<<p, b>>] = NoCode
    BY <1>3, <1>4, <2>1, NamesAre DEF Legacy
  <2> QED
    BY <1>2, <1>3, <2>1 DEF Issued
<1>8. Introduced /\ OwnFirst /\ Clean
  BY <1>2, <1>3 DEF Introduced, OwnFirst, Clean, Running
<1>9. Gone
  BY <1>2, <1>3, <1>4, NamesAre DEF Gone, Running
<1>10. wanted # NoCode => Found = wanted
  <2>1. SUFFICES ASSUME wanted # NoCode PROVE Found = wanted
    OBVIOUS
  <2>2. db.there /\ wanted = c
    BY <1>5, <2>1
  <2>3. CASE db.binding # 0
    <3>1. <<0, db.binding>> \in Names
      BY <1>3, <2>3, NamedAre, NamesAre
    <3> QED
      BY <1>3, <1>4, <1>5, <2>2, <2>3, <3>1 DEF Found
  <2>4. CASE db.binding = 0
    BY <1>3, <1>4, <1>5, <2>2, <2>4, NamesAre DEF Found, OldCode
  <2> QED
    BY <2>3, <2>4
<1>11. Kept /\ Forgotten
  BY <1>2, <1>10, NoManifestIs DEF Kept, Forgotten
<1> QED
  BY <1>6, <1>7, <1>8, <1>9, <1>11 DEF IInv

LEMMA StepIInv ==
  ASSUME IInv, [Next]_vars
  PROVE  IInv'
<1>1. CASE Start
  <2>1. CASE Boot
    BY <2>1, BootStep
  <2>2. CASE PurgeOne
    BY <2>2, PurgeOneStep
  <2>3. CASE Purged
    BY <2>3, PurgedStep
  <2>4. CASE SwitchProfile
    BY <2>4, SwitchProfileStep
  <2>5. CASE ClearManifest
    BY <2>5, ClearManifestStep
  <2>6. CASE CopyCode
    BY <2>6, CopyCodeStep
  <2>7. CASE DropSource
    BY <2>7, DropSourceStep
  <2>8. CASE ProfileMoved
    BY <2>8, ProfileMovedStep
  <2>9. CASE WriteCode
    BY <2>9, WriteCodeStep
  <2>10. CASE FindCode
    BY <2>10, FindCodeStep
  <2>11. CASE SkipCode
    BY <2>11, SkipCodeStep
  <2>12. CASE SaveRow
    BY <2>12, SaveRowStep
  <2>13. CASE DropLegacy
    BY <2>13, DropLegacyStep
  <2>14. CASE DropStale
    BY <2>14, DropStaleStep
  <2>15. CASE SaveStale
    BY <2>15, SaveStaleStep
  <2>16. CASE Compact
    BY <2>16, CompactStep
  <2>17. CASE Complete
    BY <2>17, CompleteStep
  <2> QED
    BY <1>1, <2>1, <2>2, <2>3, <2>4, <2>5, <2>6, <2>7, <2>8, <2>9, <2>10, <2>11, <2>12,
       <2>13, <2>14, <2>15, <2>16, <2>17 DEF Start
<1>2. CASE Work
  <2>1. CASE Keep
    BY <2>1, KeepStep
  <2>2. CASE Replace
    BY <2>2, ReplaceStep
  <2>3. CASE TakeBack
    BY <2>3, TakeBackStep
  <2>4. CASE SaveReplaced
    BY <2>4, SaveReplacedStep
  <2>5. CASE Remove
    BY <2>5, RemoveStep
  <2>6. CASE RemoveOne
    BY <2>6, RemoveOneStep
  <2>7. CASE CommitRemoval
    BY <2>7, CommitRemovalStep
  <2>8. CASE FreshProfile
    BY <2>8, FreshProfileStep
  <2>9. CASE TurnBack
    BY <2>9, TurnBackStep
  <2>10. CASE RestoreOne
    BY <2>10, RestoreOneStep
  <2>11. CASE RolledBack
    BY <2>11, RolledBackStep
  <2>12. CASE RetryCleanup
    BY <2>12, RetryCleanupStep
  <2>13. CASE PersistManifest
    BY <2>13, PersistManifestStep
  <2>14. CASE Import
    BY <2>14, ImportStep
  <2>15. CASE Rejected
    BY <2>15, RejectedStep
  <2> QED
    BY <1>2, <2>1, <2>2, <2>3, <2>4, <2>5, <2>6, <2>7, <2>8, <2>9, <2>10, <2>11, <2>12,
       <2>13, <2>14, <2>15 DEF Work
<1>3. CASE Crash
  BY <1>3, CrashStep
<1>4. CASE UNCHANGED vars
  BY <1>4 DEF IInv, Typed, Issued, Introduced, OwnFirst, Clean, Kept, Gone, Forgotten,
              Running, Found, FoundBack, OldCode, vars, Named
<1> QED
  BY <1>1, <1>2, <1>3, <1>4 DEF Next

\* Every reachable state satisfies the invariant, whatever fails and wherever the
\* program ends.
THEOREM Invariance == Spec => []IInv
<1>1. Init => IInv
  BY InitIInv
<1>2. IInv /\ [Next]_vars => IInv'
  BY StepIInv
<1> QED
  BY <1>1, <1>2, PTL DEF Spec

-----------------------------------------------------------------------------
\* What the user is promised.

LEMMA TypedIsTypeOK ==
  ASSUME Typed
  PROVE  TypeOK
<1>1. op.todo \subseteq Bindings /\ op.left \subseteq Bindings
  BY DEF Typed, Ops
<1>2. foreign \subseteq Names
  BY DEF Typed, Names
<1> QED
  BY <1>1, <1>2 DEF Typed, TypeOK, Rows, Manifests, Issues, Secrets

\* CodeIsKept, for the saving, migrating and removing workflows over the vault and
\* SQLite: wherever they fail or end, the next start finds the code the user relies on.
THEOREM CodeStays == Spec => []CodeIsKept
<1>1. IInv => CodeIsKept
  BY TypedIsTypeOK DEF IInv, CodeIsKept, Kept
<1> QED
  BY <1>1, Invariance, PTL

\* NothingInTheOpen, for migrate_legacy_credentials: a start that comes to run has
\* scrubbed the plaintext and compacted the file, also if an earlier start did half.
THEOREM OpenIsEmpty == Spec => []NothingInTheOpen
<1>1. IInv => NothingInTheOpen
  BY DEF IInv, NothingInTheOpen, Clean, Running
<1> QED
  BY <1>1, Invariance, PTL

\* RemovedIsGone, for Clear, the deletions and the reset: no later start or request
\* brings back a code that was taken away.
THEOREM GoneForGood == Spec => []RemovedIsGone
<1>1. IInv => RemovedIsGone
  BY DEF IInv, RemovedIsGone, Gone, Bound
<1> QED
  BY <1>1, Invariance, PTL

\* OldLibraryIsForgotten, for the pending cleanup after a full restore: when its file
\* is cleared, no code of the library before is left under any name.
THEOREM ForgottenIndeed == Spec => []OldLibraryIsForgotten
<1>1. IInv => OldLibraryIsForgotten
  BY DEF IInv, OldLibraryIsForgotten, Forgotten
<1> QED
  BY <1>1, Invariance, PTL

=============================================================================
