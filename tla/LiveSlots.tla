------------------------------ MODULE LiveSlots ------------------------------
(***************************************************************************)
(* Bambu live polling: from a printer's report to the slots it fills.      *)
(*                                                                         *)
(* Source: src/src-tauri/src/bambu_live.rs, bambu_live_authority.rs,       *)
(* bambu_live_observation.rs, bambu_live_matching.rs, bambu_live_usage.rs, *)
(* bambu_live_persistence.rs, printer_bambu_live_commands.rs, and          *)
(* src/src/backend/database_bambu_live_settings.rs,                        *)
(* database_printer_slot_assignment.rs, inventory_printer_slot_live.rs.    *)
(*                                                                         *)
(* A batch of polls captures the library's authority and every printer's   *)
(* configuration, talks to the printers without the authority gate, and    *)
(* applies each report under it, one transaction per tray, before it saves *)
(* the report.  Users assign slots and edit the configuration meanwhile.   *)
(* Behaviours last less than the ten minutes after which an identity is    *)
(* too old to assign a slot.  Weights and sessions are LiveUsage's.        *)
(***************************************************************************)
EXTENDS Naturals, FiniteSets

CONSTANTS Printers, Slots, PrinterOf,
          Tagged,      \* Bambu rolls whose RFID the inventory knows
          Plain,       \* Bambu rolls without a saved RFID, all of one look
          Strangers,   \* what else may be put into a tray: Unknown, Bare
          Hosts, AccessCodes,       \* a configuration's address and access code
          MaxTime,      \* bound: seconds
          Limits        \* bounds, one choice for a behaviour: its seconds, whether
                        \* users assign slots, its library and configuration changes,
                        \* its errors and crashes, and the slots and contents of trays
                        \* that it is about

Empty == "empty"      \* no roll in the tray, or none assigned to the slot
Unknown == "unknown"  \* a roll like the plain ones, with an RFID nobody saved
Bare == "bare"        \* a third-party roll: no RFID, another colour
Off == [host |-> "none", code |-> "none"]      \* a printer not polled

ASSUME LiveAssumption ==
  /\ PrinterOf \in [Slots -> Printers]
  /\ Tagged \cap Plain = {}
  /\ (Tagged \cup Plain) \cap {Empty, Unknown, Bare, "unread", "unseen"} = {}
  /\ Hosts # {} /\ AccessCodes # {}
  /\ "free" \notin Printers /\ Strangers \subseteq {Unknown, Bare}
  /\ MaxTime \in Nat
  /\ Limits \subseteq [time : 1..MaxTime, hands : BOOLEAN, changes : Nat, faults : Nat,
                      slots : SUBSET Slots, about : SUBSET (Tagged \cup Plain \cup Strangers)]

Rolls == Tagged \cup Plain
Identified == Tagged \cup {Unknown}        \* what answers with an RFID
Looks == Identified \cup {Bare, Empty, "unread", "unseen"}
\* Of a tray: the time saved with its RFID, and (history) when it was really read.
Readings == [look : Looks, id : 0..MaxTime, read : 0..MaxTime]
Says(look, time) == [look |-> look, id |-> time, read |-> time]
Unseen == Says("unseen", 0)
PollBindings == [host : Hosts, code : AccessCodes]
Mine(p) == {s \in Slots : PrinterOf[s] = p}

VARIABLES now, tray,                \* the clock; what is physically in each tray
          slot, cleared, override,  \* ams_slots: spool_id, live_cache_cleared_at
          config, seen, reading, from,   \* the saved configuration and report
          mode, gen, profile,       \* the library's authority
          asof, poll, over, gate,   \* the batch's authority, polls, overview read
          manual, epoch,            \* history: last manual clear; authorities so far
          limit, edits, errors    \* the bounds chosen, and what is used of them

library == <<slot, cleared, override>>
saved == <<config, seen, reading, from>>
authority == <<mode, gen, profile, epoch>>
liveVars == <<now, tray, library, saved, authority, asof, poll, over, gate, manual,
          limit, edits, errors>>

Idle == [phase |-> "idle", cfg |-> Off, trays |-> [s \in Slots |-> Unseen],
         reading |-> FALSE, todo |-> {}]

Unread == [slot |-> [s \in Slots |-> Empty], cleared |-> [s \in Slots |-> 0],
           override |-> [s \in Slots |-> FALSE]]
Releases == gate' = "free" /\ over' = Unread

LiveInit ==
  /\ now = 1 /\ tray = [s \in Slots |-> Empty]
  /\ slot = [s \in Slots |-> Empty] /\ cleared = [s \in Slots |-> 0]
  /\ override = [s \in Slots |-> FALSE]
  /\ config = [p \in Printers |-> CHOOSE b \in PollBindings : TRUE]
  /\ seen = [s \in Slots |-> Unseen]
  /\ reading = [p \in Printers |-> FALSE] /\ from = [p \in Printers |-> Off.host]
  /\ mode = "own" /\ gen = 0 /\ profile = 0
  /\ asof = [gen |-> 0, profile |-> 0, epoch |-> 0]
  /\ poll = [p \in Printers |-> Idle] /\ gate = "free"
  /\ over = Unread
  /\ manual = [s \in Slots |-> 0] /\ epoch = 0
  /\ limit \in Limits /\ edits = 0 /\ errors = 0

(* -------------------------------- one poll ------------------------------ *)

\* A batch starts when the last one's polls are over.
CaptureBatch ==
  /\ gate = "free" /\ mode = "own" /\ \A p \in Printers : poll[p].phase = "idle"
  /\ asof' = [gen |-> gen, profile |-> profile, epoch |-> epoch]
  /\ poll' = [p \in Printers |->
       IF config[p] = Off THEN Idle
       ELSE [Idle EXCEPT !.phase = "captured", !.cfg = config[p], !.trays = seen,
                         !.reading = reading[p]]]
  /\ UNCHANGED <<now, tray, library, saved, authority, over, gate, manual, limit, edits, errors>>

\* A message that repeats a tray in full says what is in it and reads its RFID;
\* a delta of a loaded tray keeps what was known of it.
Full(s) == Says(tray[s], IF tray[s] \in Identified THEN now ELSE 0)
Delta(s, previous) ==
  IF tray[s] = Empty THEN Full(s)
  ELSE IF previous.look \in {"unseen", Empty} THEN Says("unread", 0)
  ELSE previous
Restamped(previous) ==      \* mutant: a heartbeat renews the RFID's time
  [previous EXCEPT !.id = IF @ = 0 THEN 0 ELSE now]
Carried(previous) == previous

\* A report repeats some trays in full, or, as a heartbeat, names none at all.
Observe(p, fresh, heartbeat, busy) ==
  /\ poll[p].phase = "captured"
  /\ heartbeat => fresh = {} /\ busy = poll[p].reading
  /\ poll' = [poll EXCEPT ![p].phase = "answered", ![p].reading = busy,
       ![p].trays = [s \in Slots |->
          IF s \notin Mine(p) THEN @[s]
          ELSE IF heartbeat THEN Carried(@[s])
          ELSE IF s \in fresh THEN Full(s) ELSE Delta(s, @[s])]]
  /\ UNCHANGED <<now, tray, library, saved, authority, asof, over, gate, manual, limit, edits, errors>>

NoAnswer(p) ==
  /\ poll[p].phase = "captured" /\ poll' = [poll EXCEPT ![p].phase = "failed"]
  /\ UNCHANGED <<now, tray, library, saved, authority, asof, over, gate, manual, limit, edits, errors>>

CurrentAnyProfile == mode = "own" /\ asof.gen = gen               \* mutant
Current == mode = "own" /\ asof.gen = gen /\ asof.profile = profile

\* The gate is taken and the overview read: the trays known will be applied,
\* unless the printer is still reading them.
Enter(p) ==
  /\ poll[p].phase = "answered" /\ gate = "free"
  /\ IF Current
     THEN /\ gate' = p
          /\ over' = [slot |-> slot, cleared |-> cleared, override |-> override]
          /\ poll' = [poll EXCEPT ![p].phase = "applying",
                        ![p].todo = IF poll[p].reading THEN {}
                          ELSE {s \in Mine(p) : poll[p].trays[s].look # "unseen"}]
     ELSE poll' = [poll EXCEPT ![p] = Idle] /\ UNCHANGED <<gate, over>>
  /\ UNCHANGED <<now, tray, library, saved, authority, asof, manual, limit, edits, errors>>

(* ------------------------------- the slots ------------------------------ *)

\* The roll leaves any other slot, whose other columns stay as they are.
Assign(s, roll, flagged, overridden) ==
  /\ slot' = [x \in Slots |-> IF x = s THEN roll
                              ELSE IF roll # Empty /\ slot[x] = roll THEN Empty ELSE slot[x]]
  /\ cleared' = [cleared EXCEPT ![s] = IF flagged THEN now ELSE 0]
  /\ override' = [override EXCEPT ![s] = overridden]

CanUnload(roll) == roll \in Tagged
\* The overview leaves live_color_hex unset, so no earlier colour is known here.
PreviousColour(s) == "unseen"
ColourReplaced(s, t) ==
  /\ t.look = Bare /\ over.slot[s] # Empty
  /\ PreviousColour(s) \notin {"unseen", "unread", Empty, Bare}
Replaced(s, t) ==
  \/ t.look = Empty                                    \* empty signal
  \/ t.look = Unknown /\ over.slot[s] # Empty /\ ~over.override[s]
  \/ ColourReplaced(s, t)
BlockedForGood(s, t) == cleared[s] # 0        \* mutant: until somebody assigns it
Blocked(s, t) == cleared[s] # 0 /\ t.id <= cleared[s]
Exact(t) == t.look \in Tagged

\* A roll stays that cannot be unloaded without weighing it.
Stays(s, t) ==
  /\ over.slot[s] # Empty /\ ~CanUnload(over.slot[s])
  /\ Replaced(s, t) \/ (Exact(t) /\ t.look # over.slot[s])
Empties(s, t) == ~Stays(s, t) /\ Replaced(s, t)
\* The single roll in stock that looks like the one in the tray.
InStock == (Plain \cap limit.about) \ {slot[x] : x \in Slots}
Candidates == IF Cardinality(InStock) = 1 THEN InStock ELSE {}
Suggests(s, t) ==
  /\ ~Stays(s, t) /\ ~Replaced(s, t) /\ t.look = Unknown
  /\ over.slot[s] = Empty /\ slot[s] = Empty /\ ~Blocked(s, t) /\ Candidates # {}
PlacesUnmoved(s, t) ==      \* mutant: not where the pass has just emptied the slot
  /\ ~Stays(s, t) /\ ~Replaced(s, t) /\ Exact(t) /\ ~Blocked(s, t)
  /\ over.slot[s] # t.look /\ slot[s] = over.slot[s]
Places(s, t) ==
  /\ ~Stays(s, t) /\ ~Replaced(s, t) /\ Exact(t) /\ ~Blocked(s, t)
  /\ over.slot[s] # t.look

\* auto_sync_live_slots, one tray: one transaction, decided on the overview.
ApplyTray(p, s) ==
  LET t == poll[p].trays[s] IN
  /\ gate = p /\ s \in poll[p].todo
  /\ poll' = [poll EXCEPT ![p].todo = @ \ {s}]
  /\ \/ Empties(s, t) /\ over.slot[s] # Empty /\ Assign(s, Empty, FALSE, FALSE)
     \/ Suggests(s, t) /\ \E roll \in Candidates : Assign(s, roll, FALSE, FALSE)
     \/ Places(s, t) /\ Assign(s, t.look, FALSE, FALSE)
     \/ /\ ~(Empties(s, t) /\ over.slot[s] # Empty) /\ ~Suggests(s, t) /\ ~Places(s, t)
        /\ UNCHANGED library
  /\ UNCHANGED <<now, tray, saved, authority, asof, over, gate, manual, limit, edits, errors>>

\* update_bambu_live_observation_if_current: only under the binding polled.
SamePollBinding(p) == config[p] = poll[p].cfg
Save(p) ==
  /\ seen' = [s \in Slots |-> IF s \in Mine(p) THEN poll[p].trays[s] ELSE seen[s]]
  /\ reading' = [reading EXCEPT ![p] = poll[p].reading]
  /\ from' = [from EXCEPT ![p] = poll[p].cfg.host]
Persist(p) ==
  /\ gate = p /\ poll[p].todo = {}
  /\ IF SamePollBinding(p) THEN Save(p) ELSE UNCHANGED <<seen, reading, from>>
  /\ Releases /\ poll' = [poll EXCEPT ![p] = Idle]
  /\ UNCHANGED <<now, tray, library, config, authority, asof, manual, limit, edits, errors>>

\* No answer: the state before is saved again as offline, or the printer is
\* found at another address, whose configuration starts without a report.
Offline(p) ==
  /\ poll[p].phase = "failed" /\ gate = "free" /\ poll' = [poll EXCEPT ![p] = Idle]
  /\ IF Current /\ SamePollBinding(p) THEN Save(p) ELSE UNCHANGED <<seen, reading, from>>
  /\ UNCHANGED <<now, tray, library, config, authority, asof, over, gate, manual, limit, edits, errors>>

Forget(p) ==
  /\ seen' = [s \in Slots |-> IF s \in Mine(p) THEN Unseen ELSE seen[s]]
  /\ reading' = [reading EXCEPT ![p] = FALSE]
  /\ from' = [from EXCEPT ![p] = Off.host]
Recover(p, host) ==
  /\ poll[p].phase = "failed" /\ gate = "free" /\ Current /\ config[p] # Off
  /\ edits < limit.changes /\ edits' = edits + 1
  /\ config' = [config EXCEPT ![p].host = host] /\ Forget(p)
  /\ poll' = [poll EXCEPT ![p] = Idle]
  /\ UNCHANGED <<now, tray, library, authority, asof, over, gate, manual, limit, errors>>

(* ------------------- the user, the printer, and faults ------------------ *)

Tick ==
  /\ now < limit.time /\ now' = now + 1
  /\ UNCHANGED <<tray, library, saved, authority, asof, poll, over, gate, manual, limit, edits, errors>>

\* Somebody changes what is in a tray.
Load(s, content) ==
  /\ now < limit.time /\ content # tray[s]
  /\ content \in Tagged => \A x \in Slots : tray[x] # content
  /\ tray' = [tray EXCEPT ![s] = content]
  /\ UNCHANGED <<now, library, saved, authority, asof, poll, over, gate, manual, limit, edits, errors>>

\* derive_assign_printer_slot_live_context: does this clear the live cache?
Overrides(s, roll) == roll # Empty /\ seen[s].look = Unknown
Flags(s, roll, asked) == asked \/ (roll # slot[s] /\ ~Overrides(s, roll))
UserAssigns(s, roll, asked) ==
  /\ gate = "free" /\ mode = "own" /\ now < limit.time /\ limit.hands
  /\ Assign(s, roll, Flags(s, roll, asked), Overrides(s, roll))
  /\ manual' = [manual EXCEPT ![s] = cleared'[s]]
  /\ UNCHANGED <<now, tray, saved, authority, asof, poll, over, gate, limit, edits, errors>>

\* A changed address, or switching off, drops the report; a new code keeps it.
Configure(p, binding) ==
  /\ gate = "free" /\ mode = "own" /\ binding # config[p]
  /\ edits < limit.changes /\ edits' = edits + 1
  /\ config' = [config EXCEPT ![p] = binding]
  /\ IF binding # Off /\ config[p] # Off /\ binding.host = config[p].host
     THEN UNCHANGED <<seen, reading, from>> ELSE Forget(p)
  /\ UNCHANGED <<now, tray, library, authority, asof, poll, over, gate, manual, limit, errors>>

SwitchRole ==
  /\ gate = "free" /\ edits < limit.changes /\ edits' = edits + 1
  /\ mode' = IF mode = "own" THEN "client" ELSE "own"
  /\ gen' = gen + 1 /\ epoch' = epoch + 1
  /\ UNCHANGED <<now, tray, library, saved, profile, asof, poll, over, gate, manual, limit, errors>>

\* A restore brings back slots without rolls and no printer's settings; its
\* settings table starts over, the generation included.
Restore ==
  /\ gate = "free" /\ mode = "own" /\ edits < limit.changes /\ edits' = edits + 1
  /\ slot' = [s \in Slots |-> Empty] /\ cleared' = [s \in Slots |-> 0]
  /\ override' = [s \in Slots |-> FALSE] /\ manual' = [s \in Slots |-> 0]
  /\ config' = [p \in Printers |-> Off] /\ seen' = [s \in Slots |-> Unseen]
  /\ reading' = [p \in Printers |-> FALSE] /\ from' = [p \in Printers |-> Off.host]
  /\ gen' = 0 /\ profile' = profile + 1 /\ epoch' = epoch + 1
  /\ UNCHANGED <<now, tray, mode, asof, poll, over, gate, limit, errors>>

\* A database error ends one poll; a crash ends them all.
Fault(lost) ==
  /\ errors < limit.faults /\ errors' = errors + 1
  /\ \A p \in Printers : poll[p].phase = "applying" => p \in lost
  /\ poll' = [p \in Printers |-> IF p \in lost THEN Idle ELSE poll[p]]
  /\ Releases
  /\ UNCHANGED <<now, tray, library, saved, authority, asof, manual, limit, edits>>
Fail(p) == gate = p /\ Fault({p})
CrashAll == Fault(Printers)

Polls(p) ==
  \/ \E fresh \in SUBSET Mine(p), heartbeat, busy \in BOOLEAN :
        Observe(p, fresh, heartbeat, busy)
  \/ NoAnswer(p) \/ Enter(p) \/ Persist(p) \/ Offline(p)
  \/ \E s \in Mine(p) : ApplyTray(p, s)
  \/ \E host \in Hosts : Recover(p, host)
Users ==
  \/ \E s \in limit.slots, c \in (limit.about \ Plain) \cup {Empty} : Load(s, c)
  \/ \E s \in limit.slots, r \in (limit.about \cap Rolls) \cup {Empty}, asked \in BOOLEAN :
       UserAssigns(s, r, asked)
  \/ \E p \in Printers, b \in PollBindings \cup {Off} : Configure(p, b)
  \/ SwitchRole \/ Restore
LiveNext ==
  \/ CaptureBatch \/ (\E p \in Printers : Polls(p)) \/ Tick \/ Users
  \/ (\E p \in Printers : Fail(p)) \/ CrashAll

LiveSpec == LiveInit /\ [][LiveNext]_liveVars

(* The observer polls every twenty seconds; the printer goes on repeating its
   trays in full; time passes. *)
Fairness ==
  /\ WF_liveVars(CaptureBatch) /\ WF_liveVars(Tick)
  /\ \A p \in Printers :
       /\ SF_liveVars(Observe(p, Mine(p), FALSE, FALSE))
       /\ WF_liveVars(Enter(p) \/ Offline(p)) /\ WF_liveVars(Persist(p))
       /\ \A s \in Mine(p) : WF_liveVars(ApplyTray(p, s))
LiveFairSpec == LiveSpec /\ Fairness

(* ------------------------------ properties ------------------------------ *)

\* What each variable holds; only the poll at the gate is applied.
LiveTypeOK ==
  /\ now \in 1..MaxTime /\ tray \in [Slots -> Identified \cup {Bare, Empty}]
  /\ slot \in [Slots -> Rolls \cup {Empty}]
  /\ cleared \in [Slots -> 0..MaxTime] /\ override \in [Slots -> BOOLEAN]
  /\ config \in [Printers -> PollBindings \cup {Off}] /\ seen \in [Slots -> Readings]
  /\ reading \in [Printers -> BOOLEAN] /\ from \in [Printers -> Hosts \cup {Off.host}]
  /\ mode \in {"own", "client"} /\ manual \in [Slots -> 0..MaxTime]
  /\ \A p \in Printers :
       /\ poll[p].phase \in {"idle", "captured", "answered", "failed", "applying"}
       /\ poll[p].todo \subseteq Mine(p) /\ poll[p].trays \in [Slots -> Readings]
       /\ gate = p <=> poll[p].phase = "applying"

Applying(p) == gate = p /\ gate' \in {p, "free"}

\* An observation made for a library that has since been restored, or left for a
\* Host's, changes no slot and no saved report (bambu_live_authority.rs:56-58).
OwnLibraryOnly ==
  [][\A p \in Printers : Applying(p) /\ asof.epoch # epoch =>
       UNCHANGED <<slot, cleared, override, seen>>]_liveVars

\* A user's hand is worth more than a reading.  Where a user has emptied or refilled
\* a slot by hand, no known roll is placed on an RFID reading from before that
\* (bambu_live_usage.rs:1350-1354), as long as every pass has saved its report (a
\* later one could carry an older reading on).  And a roll that cannot be unloaded
\* without weighing it leaves its slot by a user's hand only (153-183).
HandsPrevail ==
  [][\A p \in Printers, s \in Slots : Applying(p) /\ slot'[s] # slot[s] =>
       /\ slot'[s] \in Tagged /\ errors = 0 /\ edits = 0 =>
            poll[p].trays[s].read >= manual[s]
       /\ slot[s] \notin Plain]_liveVars

\* The saved report is the configured printer's, at the address configured now,
\* and a printer switched off has none.
ObservedIsOwn ==
  \A s \in Slots : seen[s] # Unseen =>
    LET c == config[PrinterOf[s]] IN c # Off /\ from[PrinterOf[s]] = c.host

\* When a pass has read every tray each slot is as the trays say.
PassEnds ==
  \A p \in Printers, s \in Slots :
    LET t == poll[p].trays[s]
        alone == \A x \in Mine(p) \ {s} : poll[p].trays[x].look # t.look
    IN gate = p /\ poll[p].todo = {} /\ ~poll[p].reading /\ s \in Mine(p)
       /\ over.slot[s] \notin Plain
       => /\ t.look = Empty => slot[s] = Empty
          /\ t.look \in Tagged /\ alone /\ t.id > over.cleared[s] => slot[s] = t.look

\* What a poll leaves is true of what it read.  A pass leaves each slot as the trays
\* say, whatever the order of the trays and though each was decided on the overview
\* read before the first: rolls swapped or moved between slots end where they are.
\* The report it saves is the printer's that is configured, though the configuration
\* may have changed on the way (database_bambu_live_settings.rs:64-85).
PassSettles == LiveTypeOK /\ ObservedIsOwn /\ PassEnds

\* A known roll that stays in a tray, of a printer polled, ends in its slot,
\* unless a roll that has to be weighed is there.
Converges ==
  \A s \in Slots, r \in Tagged :
    (<>[](tray[s] = r /\ config[PrinterOf[s]] # Off /\ mode = "own" /\ slot[s] \notin Plain))
      => <>[](slot[s] = r)

=============================================================================
