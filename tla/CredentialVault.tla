---------------------------- MODULE CredentialVault ----------------------------
(***************************************************************************)
(* The access code of one printer, kept in two places that know no common  *)
(* transaction: the secret in the vault of the operating system, the name  *)
(* it is found under (profile and binding) in SQLite.  Every start moves   *)
(* what older releases left, saving, clearing and deleting change both     *)
(* places in turn and take the first change back when the second fails,    *)
(* and a full restore or a reset gives up all codes of the library.  The   *)
(* process may die between any two steps, and any step of either store may *)
(* fail (a failed start, whose rollback works, is a crash before the step  *)
(* that failed).  All workflows hold the secure credential gate, so one    *)
(* runs at a time; what a failed or interrupted one leaves is what the     *)
(* next one finds.                                                         *)
(***************************************************************************)
EXTENDS Integers, FiniteSets

CONSTANTS Codes,        \* access codes
          NoCode,
          MaxBindings,  \* random binding ids used up
          MaxProfiles,  \* random profile ids used up
          MaxChanges,   \* requests of the user
          MaxFaults     \* crashes and failing steps

\* An older release can have left two bindings.
ASSUME VaultAssumption ==
  /\ NoCode \notin Codes
  /\ MaxBindings \in Nat /\ MaxBindings > 1
  /\ {MaxProfiles, MaxChanges, MaxFaults} \subseteq Nat

VARIABLES
  vault,     \* the platform credential store
  db,        \* SQLite: the integration's row and the machine-local settings
  manifest,  \* pending-credential-cleanup file
  handle,    \* profile of the CredentialStore in memory
  pc, op,    \* where the running workflow is, and its local variables
  issued,    \* random ids given out, all different
  changes, faults,
  wanted,    \* history: the code the user may rely on
  removed,   \* history: the user took the code away and gave no other
  skipped,   \* history: a start left a code of an older release where it was
  foreign    \* history: names of codes that belong to a library that was replaced

vars == <<vault, db, manifest, handle, pc, op, issued, changes, faults,
          wanted, removed, skipped, foreign>>
history == <<wanted, removed, skipped, foreign>>

\* Profile 0 is the one older releases took from the library id.  The oldest
\* release used one name per printer, without profile or binding.
Bindings == 1..MaxBindings
Profiles == 0..MaxProfiles
Legacy   == <<0, 0>>
Names    == {Legacy} \cup (Profiles \X Bindings)

NoManifest == [profile |-> 0, keys |-> {}, pending |-> FALSE]
Nothing == [b \in Bindings |-> NoCode]
NoOp == [starting |-> FALSE, stage |-> 0, kind |-> "none", binding |-> 0, todo |-> {},
         left |-> {}, failed |-> FALSE, scrubbed |-> FALSE, saved |-> Nothing]

\* StoredCredentialScopes::from_database: every binding the row knows.
Named(d) == d.stale \cup ({d.binding} \ {0})

Pcs == {"off", "purge", "mark", "unlist", "profile", "drop", "codes", "save", "legacy",
        "stale", "compact", "complete", "idle", "replace", "tidy", "remove", "rollback",
        "import", "reset", "fresh"}
TypeOK ==
  /\ vault \in [Names -> Codes \cup {NoCode}]
  /\ db \in [there : BOOLEAN, binding : 0..MaxBindings, configured : BOOLEAN,
             stale : SUBSET Bindings, plain : Codes \cup {NoCode}, own : Profiles,
             moved : BOOLEAN, complete : BOOLEAN, dirty : BOOLEAN]
  /\ manifest \in [profile : Profiles, keys : SUBSET Bindings, pending : BOOLEAN]
  /\ handle \in Profiles /\ pc \in Pcs
  /\ op.todo \subseteq Bindings /\ op.left \subseteq Bindings
  /\ issued \in [binding : 0..MaxBindings, profile : Profiles]
  /\ changes \in 0..MaxChanges /\ faults \in 0..MaxFaults
  /\ wanted \in Codes \cup {NoCode} /\ removed \in BOOLEAN /\ skipped \in BOOLEAN
  /\ foreign \subseteq Names

-----------------------------------------------------------------------------
\* What the releases before this one can have left: nothing, plaintext in SQLite, the
\* same on its way into the vault, a code under the name of the printer, a code under
\* a binding in the profile of the library, with or without a superseded one.
Blank == [there |-> FALSE, binding |-> 0, configured |-> FALSE, stale |-> {}, plain |-> NoCode,
          own |-> 0, moved |-> FALSE, complete |-> FALSE, dirty |-> FALSE]
Row   == [Blank EXCEPT !.there = TRUE]
Plaintext(c) == [Row EXCEPT !.plain = c, !.dirty = TRUE]
Known(done) == [Row EXCEPT !.configured = TRUE, !.complete = done]
Holds(ns, c) == [n \in Names |-> IF n \in ns THEN c ELSE NoCode]
Pasts(c) ==
  {<<Blank, {}>>, <<Plaintext(c), {}>>, <<Plaintext(c), {Legacy}>>} \cup
  UNION {{<<Known(done), {Legacy}>>,
          <<[Known(done) EXCEPT !.binding = 1], {<<0, 1>>}>>,
          <<[Known(done) EXCEPT !.binding = 2, !.stale = {1}], {<<0, 1>>, <<0, 2>>}>>} :
           done \in BOOLEAN}

Init ==
  \E c \in Codes : \E past \in Pasts(c) :
     /\ db = past[1]
     /\ vault = Holds(past[2], c)
     /\ issued = [binding |-> Cardinality(Named(past[1])), profile |-> 0]
     /\ wanted = IF past[1].there THEN c ELSE NoCode
     /\ manifest = NoManifest /\ handle = 0 /\ pc = "off" /\ op = NoOp
     /\ changes = 0 /\ faults = 0
     /\ removed = FALSE /\ skipped = FALSE /\ foreign = {}

Works == UNCHANGED faults
Fails == faults < MaxFaults /\ faults' = faults + 1
Asked == changes < MaxChanges /\ changes' = changes + 1

Put(n, c) == vault' = [vault EXCEPT ![n] = c]
Take(n)   == Put(n, NoCode)
\* credentials.delete per key of a set, each on its own.
Done(b, ok) == op' = [op EXCEPT !.todo = @ \ {b}, !.left = IF ok THEN @ ELSE @ \cup {b},
                                !.failed = @ \/ ~ok]

\* get_or_create_credential_store_profile_id
OwnProfile ==
  IF db.own = 0
    THEN /\ issued.profile < MaxProfiles
         /\ issued' = [issued EXCEPT !.profile = @ + 1]
         /\ db' = [db EXCEPT !.own = issued.profile + 1]
    ELSE UNCHANGED <<issued, db>>

\* An error ends the start, or the request.
GivesUp == /\ pc' = IF op.starting THEN "off" ELSE "idle"
           /\ op' = NoOp

-----------------------------------------------------------------------------
\* main: the start of the program.
Boot ==
  /\ pc = "off"
  /\ OwnProfile
  /\ handle' = db'.own
  /\ op' = [NoOp EXCEPT !.starting = TRUE, !.stage = 1, !.todo = manifest.keys]
  /\ pc' = IF manifest.pending THEN "purge" ELSE "profile"
  /\ UNCHANGED <<vault, manifest, changes, faults, history>>

\* retry_pending_credential_cleanup_under_gate: the codes of the library that was
\* replaced, then the names of the present one in its own and in the old profile.
PurgeOwn == IF op.stage = 3 THEN 0 ELSE db.own  \* mutant: the written profile is not looked at
PurgeProfile == CASE op.stage = 1 -> manifest.profile
                  [] op.stage = 2 -> db.own
                  [] OTHER -> 0
PurgeOne ==
  /\ pc = "purge"
  /\ \E b \in op.todo :
       \/ Works /\ Take(<<PurgeProfile, b>>) /\ Done(b, TRUE)
       \/ Fails /\ Done(b, FALSE) /\ UNCHANGED vault
  /\ UNCHANGED <<db, manifest, handle, pc, issued, changes, history>>
Purged ==
  /\ pc = "purge" /\ op.todo = {}
  /\ \/ op.failed /\ GivesUp /\ UNCHANGED <<db, issued>>
     \/ /\ ~op.failed /\ op.stage = 1
        /\ OwnProfile
        /\ op' = [op EXCEPT !.stage = 2, !.todo = Named(db)]
        /\ UNCHANGED pc
     \/ /\ ~op.failed /\ op.stage = 2
        /\ op' = [op EXCEPT !.stage = 3, !.todo = Named(db)]
        /\ UNCHANGED <<db, issued, pc>>
     \/ ~op.failed /\ op.stage = 3 /\ pc' = "mark" /\ UNCHANGED <<db, issued, op>>
  /\ UNCHANGED <<vault, manifest, handle, changes, faults, history>>
SwitchProfile ==
  /\ pc = "mark"
  /\ \/ /\ Works
        /\ db' = [db EXCEPT !.moved = TRUE]
        /\ handle' = db.own
        /\ pc' = "unlist" /\ UNCHANGED op
     \/ Fails /\ GivesUp /\ UNCHANGED <<db, handle>>
  /\ UNCHANGED <<vault, manifest, issued, changes, history>>
ClearManifest ==
  /\ pc = "unlist"
  /\ \/ /\ Works
        /\ manifest' = NoManifest
        /\ pc' = IF op.starting THEN "profile" ELSE "idle"
        /\ op' = IF op.starting THEN op ELSE NoOp
     \/ Fails /\ GivesUp /\ UNCHANGED manifest
  /\ UNCHANGED <<vault, db, handle, issued, changes, history>>

\* migrate_legacy_credential_profile: copy and verify, then delete the source.  A
\* different code under the new name stops the start.
MovableNew(b) == vault[<<db.own, b>>] = NoCode  \* mutant: a finished copy counts as a conflict
Movable(b) == vault[<<db.own, b>>] \in {NoCode, vault[<<0, b>>]}
ToMove == {b \in Named(db) : vault[<<0, b>>] # NoCode}
CopyCode ==
  /\ pc = "profile" /\ ~db.moved
  /\ \E b \in ToMove :
       /\ Movable(b)
       /\ Put(<<db.own, b>>, vault[<<0, b>>])
       /\ op' = [op EXCEPT !.binding = b]
  /\ pc' = "drop"
  /\ UNCHANGED <<db, manifest, handle, issued, changes, faults, history>>
DropSource ==
  /\ pc = "drop"
  /\ Take(<<0, op.binding>>)
  /\ pc' = "profile"
  /\ UNCHANGED <<db, manifest, handle, op, issued, changes, faults, history>>
ProfileMoved ==
  /\ pc = "profile"
  /\ db.moved \/ ToMove = {}
  /\ db' = [db EXCEPT !.moved = TRUE]
  /\ pc' = IF db.there THEN "codes" ELSE "compact"
  /\ UNCHANGED <<vault, manifest, handle, op, issued, changes, faults, history>>

-----------------------------------------------------------------------------
\* migrate_legacy_credentials, the integration's entry.  The code is the one under the
\* row's binding, else the older release's, else the plaintext.
Bound   == IF db.binding = 0 THEN NoCode ELSE vault[<<handle, db.binding>>]
OldCode == IF vault[Legacy] # NoCode THEN vault[Legacy] ELSE db.plain
Target  == IF db.binding # 0 THEN db.binding ELSE issued.binding + 1
NewBinding(b) == /\ b <= MaxBindings
                 /\ issued' = [issued EXCEPT !.binding = IF b > @ THEN b ELSE @]
MovedOver(b, c) ==  \* mutant: the old name is given up at once
  [vault EXCEPT ![<<handle, b>>] = c, ![Legacy] = NoCode]
Written(b, c) == [vault EXCEPT ![<<handle, b>>] = c]
WriteCode ==
  /\ pc = "codes"
  /\ Bound = NoCode /\ OldCode # NoCode
  /\ NewBinding(Target)
  /\ vault' = Written(Target, OldCode)
  /\ op' = [op EXCEPT !.binding = Target]
  /\ pc' = "save"
  /\ UNCHANGED <<db, manifest, handle, changes, faults, history>>
FindCode ==
  /\ pc = "codes"
  /\ Bound # NoCode \/ OldCode = NoCode
  /\ op' = [op EXCEPT !.binding = IF Bound # NoCode THEN db.binding ELSE 0]
  /\ pc' = "save"
  /\ UNCHANGED <<vault, db, manifest, handle, issued, changes, faults, history>>
\* The vault cannot be read, but all codes were moved before: the start goes on.
SkipCode ==
  /\ pc = "codes" /\ db.complete /\ db.plain = NoCode
  /\ Fails
  /\ pc' = "compact"
  /\ skipped' = (skipped \/ vault[Legacy] # NoCode)
  /\ UNCHANGED <<vault, db, manifest, handle, op, issued, changes, wanted, removed, foreign>>
SaveRow ==
  /\ pc = "save"
  /\ db' = [db EXCEPT !.binding = op.binding, !.configured = op.binding # 0, !.plain = NoCode,
                      !.stale = @ \ {db.binding, op.binding}]
  /\ op' = [op EXCEPT !.scrubbed = db.plain # NoCode,
                      !.todo = IF op.binding # 0 THEN db'.stale ELSE {}, !.left = {}]
  /\ pc' = "legacy"
  /\ UNCHANGED <<vault, manifest, handle, issued, changes, faults, history>>
LegacyKept == vault  \* mutant
LegacyDropped == [vault EXCEPT ![Legacy] = NoCode]
DropLegacy ==
  /\ pc = "legacy"
  /\ vault' = LegacyDropped
  /\ pc' = IF db.configured THEN "stale" ELSE "compact"
  /\ UNCHANGED <<db, manifest, handle, op, issued, changes, faults, history>>
\* Superseded codes, after a start and after a replacement: what cannot be deleted
\* stays on the row for the next attempt.
DropStale ==
  /\ pc \in {"stale", "tidy"}
  /\ \E b \in op.todo :
       \/ Works /\ Take(<<handle, b>>) /\ Done(b, TRUE)
       \/ Fails /\ Done(b, FALSE) /\ UNCHANGED vault
  /\ UNCHANGED <<db, manifest, handle, pc, issued, changes, history>>
SaveStale ==
  /\ pc \in {"stale", "tidy"} /\ op.todo = {}
  /\ \/ Works /\ db' = [db EXCEPT !.stale = op.left]
     \/ pc = "tidy" /\ Fails /\ UNCHANGED db
  /\ \/ pc = "stale" /\ pc' = "compact" /\ UNCHANGED op
     \/ pc = "tidy" /\ pc' = "idle" /\ op' = NoOp
  /\ UNCHANGED <<vault, manifest, handle, issued, changes, history>>
\* compact_after_secret_removal, then the marker; the program runs.
CompactsScrubbed == op.scrubbed  \* mutant: an earlier start's scrub is forgotten
Compacts == op.scrubbed \/ ~db.complete
Compact ==
  /\ pc = "compact"
  /\ IF Compacts
       THEN db' = [db EXCEPT !.dirty = FALSE] /\ pc' = "complete" /\ UNCHANGED op
       ELSE pc' = "idle" /\ op' = NoOp /\ UNCHANGED db
  /\ UNCHANGED <<vault, manifest, handle, issued, changes, faults, history>>
Complete ==
  /\ pc = "complete"
  /\ db' = [db EXCEPT !.complete = TRUE]
  /\ pc' = "idle" /\ op' = NoOp
  /\ UNCHANGED <<vault, manifest, handle, issued, changes, faults, history>>

-----------------------------------------------------------------------------
\* save_bambu_live_integration, Keep: the row says whether the vault has the code.
Keep ==
  /\ pc = "idle" /\ Asked
  /\ db' = [db EXCEPT !.there = TRUE, !.configured = Bound # NoCode]
  /\ UNCHANGED <<vault, manifest, handle, pc, op, issued, faults, history>>
\* Replace: the new code is in the vault under a new name before the row tells of it.
Replace ==
  /\ pc = "idle" /\ Asked
  /\ NewBinding(issued.binding + 1)
  /\ \E c \in Codes : Put(<<handle, issued.binding + 1>>, c)
  /\ op' = [NoOp EXCEPT !.binding = issued.binding + 1]
  /\ pc' = "replace"
  /\ UNCHANGED <<db, manifest, handle, faults, history>>
\* The input turns out invalid, or SQLite fails: the new name is deleted again.
TakeBack ==
  /\ pc = "replace"
  /\ \/ Works /\ Take(<<handle, op.binding>>)
     \/ Fails /\ UNCHANGED vault
  /\ GivesUp
  /\ UNCHANGED <<db, manifest, handle, issued, changes, history>>
Superseded == (db.stale \ {db.binding}) \cup ({db.binding} \ {0})
SaveReplaced ==
  /\ pc = "replace"
  /\ db' = [db EXCEPT !.there = TRUE, !.binding = op.binding, !.configured = TRUE,
                      !.plain = NoCode, !.stale = Superseded]
  /\ op' = [op EXCEPT !.todo = Superseded]
  /\ pc' = "tidy"
  /\ wanted' = IF manifest.pending \/ handle # db.own THEN NoCode
                                                ELSE vault[<<handle, op.binding>>]
  /\ removed' = FALSE
  /\ UNCHANGED <<vault, manifest, handle, issued, changes, faults, skipped, foreign>>

\* Clear, delete_bambu_live_integration, delete_printer, reset_app_data: every code the
\* row names is captured and deleted before the row changes.
Captured == [b \in Bindings |-> IF b \in Named(db) THEN vault[<<handle, b>>] ELSE NoCode]
Remove ==
  /\ pc = "idle" /\ Asked
  /\ \E kind \in {"clear", "delete", "reset"} :
       /\ kind = "delete" => db.there
       /\ op' = [NoOp EXCEPT !.kind = kind, !.saved = Captured, !.todo = Named(db)]
  /\ pc' = "remove"
  /\ UNCHANGED <<vault, db, manifest, handle, issued, faults, history>>
RemoveOne ==
  /\ pc = "remove"
  /\ \E b \in op.todo :
       \/ Works /\ Take(<<handle, b>>) /\ Done(b, TRUE) /\ UNCHANGED pc
       \* a reset tries all of them
       \/ /\ Fails /\ UNCHANGED vault
          /\ Done(b, FALSE)
          /\ pc' = IF op.kind = "reset" THEN pc ELSE "rollback"
  /\ UNCHANGED <<db, manifest, handle, issued, changes, history>>
CommitRemoval ==
  /\ pc = "remove" /\ op.todo = {} /\ ~op.failed
  /\ db' = [(IF op.kind = "reset" THEN [Blank EXCEPT !.dirty = db.dirty] ELSE db)
              EXCEPT !.there = op.kind = "clear", !.binding = 0, !.configured = FALSE,
                     !.stale = {}, !.plain = NoCode]
  /\ pc' = IF op.kind = "reset" THEN "fresh" ELSE "idle"
  /\ op' = IF op.kind = "reset" THEN op ELSE NoOp
  /\ wanted' = NoCode /\ removed' = TRUE
  /\ UNCHANGED <<vault, manifest, handle, issued, changes, faults, skipped, foreign>>
\* initialize_fresh_credential_store_profile, switch_profile
FreshProfile ==
  /\ pc = "fresh"
  /\ issued.profile < MaxProfiles
  /\ issued' = [issued EXCEPT !.profile = @ + 1]
  /\ db' = [db EXCEPT !.own = issued.profile + 1, !.moved = TRUE]
  /\ handle' = issued.profile + 1
  /\ GivesUp
  /\ UNCHANGED <<vault, manifest, changes, faults, history>>
\* SQLite failed, or a deletion: the captured codes are written back.
TurnBack ==
  /\ pc \in {"remove", "fresh"} /\ op.todo = {}
  /\ IF op.failed THEN Works ELSE Fails
  /\ pc' = "rollback"
  /\ UNCHANGED <<vault, db, manifest, handle, op, issued, changes, history>>
RestoreOne ==
  /\ pc = "rollback"
  /\ \E b \in {x \in Bindings : op.saved[x] # NoCode} :
       \/ Works /\ Put(<<handle, b>>, op.saved[b]) /\ UNCHANGED wanted
          /\ op' = [op EXCEPT !.saved[b] = NoCode]
       \* the companion's handler stops at the first failure, the others go on
       \/ /\ Fails /\ UNCHANGED vault
          /\ \/ op' = [op EXCEPT !.saved[b] = NoCode]
             \/ op' = [op EXCEPT !.saved = Nothing]
          /\ wanted' = IF Bound = NoCode /\ db.binding \in Bindings /\ op'.saved[db.binding] = NoCode
                         THEN NoCode ELSE wanted
  /\ UNCHANGED <<db, manifest, handle, pc, issued, changes, removed, skipped, foreign>>
RolledBack ==
  /\ pc = "rollback" /\ op.saved = Nothing
  /\ GivesUp
  /\ UNCHANGED <<vault, db, manifest, handle, issued, changes, faults, history>>

-----------------------------------------------------------------------------
\* import_full_backup_json, import_data_file: a pending cleanup first, then the names
\* are written down before SQLite is replaced, and deleted after.
RetryCleanup ==
  /\ pc = "idle" /\ manifest.pending /\ Asked
  /\ op' = [NoOp EXCEPT !.stage = 1, !.todo = manifest.keys]
  /\ pc' = "purge"
  /\ UNCHANGED <<vault, db, manifest, handle, issued, faults, history>>
PersistManifest ==
  /\ pc = "idle" /\ ~manifest.pending /\ Asked
  /\ manifest' = [profile |-> handle, keys |-> Named(db), pending |-> TRUE]
  /\ pc' = "import"
  /\ UNCHANGED <<vault, db, handle, op, issued, faults, history>>
Import ==
  /\ pc = "import"
  /\ db' = [Blank EXCEPT !.dirty = db.dirty]
  /\ op' = [NoOp EXCEPT !.stage = 1, !.todo = manifest.keys]
  /\ pc' = "purge"
  /\ foreign' = foreign \cup ({handle} \X Named(db))
  /\ wanted' = NoCode /\ removed' = FALSE
  /\ UNCHANGED <<vault, manifest, handle, issued, changes, faults, skipped>>
\* The snapshot or the import fails: nothing changed, the names are forgotten again.
Rejected ==
  /\ pc = "import"
  /\ \/ Works /\ manifest' = NoManifest /\ UNCHANGED wanted
     \/ Fails /\ UNCHANGED manifest /\ wanted' = NoCode
  /\ GivesUp
  /\ UNCHANGED <<vault, db, handle, issued, changes, removed, skipped, foreign>>

\* The process ends, or a step of the start fails.  Codes are given up where a
\* removal has begun, and where a cleanup is pending.
Crash ==
  /\ pc # "off" /\ Fails
  /\ pc' = "off" /\ handle' = 0 /\ op' = NoOp
  /\ wanted' = IF pc \in {"remove", "rollback", "import"} THEN NoCode ELSE wanted
  /\ UNCHANGED <<vault, db, manifest, issued, changes, removed, skipped, foreign>>

-----------------------------------------------------------------------------
Start ==
  \/ Boot \/ PurgeOne \/ Purged \/ SwitchProfile \/ ClearManifest
  \/ CopyCode \/ DropSource \/ ProfileMoved
  \/ WriteCode \/ FindCode \/ SkipCode \/ SaveRow \/ DropLegacy \/ DropStale \/ SaveStale
  \/ Compact \/ Complete
Work ==
  \/ Keep \/ Replace \/ TakeBack \/ SaveReplaced
  \/ Remove \/ RemoveOne \/ CommitRemoval \/ FreshProfile \/ TurnBack \/ RestoreOne \/ RolledBack
  \/ RetryCleanup \/ PersistManifest \/ Import \/ Rejected
Next == Start \/ Work \/ Crash

\* Whoever starts the program starts it again when a start failed; its steps follow
\* each other by themselves.
Spec == Init /\ [][Next]_vars /\ WF_vars(Start)

-----------------------------------------------------------------------------
\* What the next start makes the row refer to.
Found ==
  LET here  == IF db.binding = 0 THEN NoCode ELSE vault[<<db.own, db.binding>>]
      there == IF db.binding = 0 \/ db.moved THEN NoCode ELSE vault[<<0, db.binding>>]
  IN IF here # NoCode THEN here ELSE IF there # NoCode THEN there ELSE OldCode

\* Between the two stores no failure and no crash loses the code the user relies on:
\* the next start finds it, or the running removal still holds it to put it back.
CodeIsKept ==
  /\ TypeOK
  /\ wanted # NoCode /\ pc \notin {"remove", "rollback"} => Found = wanted

\* A running program has no code in SQLite, and none in its free pages.
NothingInTheOpen == pc = "idle" => db.plain = NoCode /\ ~db.dirty

\* A code the user took away does not come back: the integration has none until the
\* user gives a new one, if no start left one of an older release behind.
RemovedIsGone ==
  removed /\ ~skipped /\ pc = "idle" => ~db.configured /\ Bound = NoCode

\* A restored library takes over no code of the one it replaced: with no cleanup left
\* to do, the vault has none of its names.
OldLibraryIsForgotten ==
  ~manifest.pending => \A n \in foreign : vault[n] = NoCode

\* A program that is started again after each failed start comes to run, whatever the
\* crashes before left.
Starts == pc = "off" ~> pc = "idle"

=============================================================================
