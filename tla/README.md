# Filament Manager: a TLA+ model of its concurrent and transactional core

Filament Manager is a Tauri desktop program (Rust backend, React UI) that keeps
an inventory of filament rolls in SQLite. One machine is the *Host* of a
library. Other desktops may run as *Clients* of a Host, phones use a *Companion*
web page that the Host serves on the trusted LAN, and Bambu printers are polled
for what is loaded. Paths below are relative to the repository's root
(`src/src-tauri/src` holds the desktop process, `src/src/backend` the database
layer, `src/ui` the interface).

## 1. The system

| Component | State it keeps | Operations | What makes it correct |
| --- | --- | --- | --- |
| Roll inventory, slots, loans (`backend/inventory_engine.rs`, `database_printer_slot_assignment.rs`, `database_loan_*.rs`, `database_spool_*.rs`, `database_inventory_bulk.rs`, `database_inventory_import_apply.rs`) | tables `filament_spools`, `ams_slots`, `spool_loans` | create, edit, weigh, assign to a slot, slot operations with a reading, lend, return, borrow, hand back, delete, purge, bulk edits, printer edits, import of an inventory file | a roll is in one place; slot, status, place, owner and loan ledger tell one story; returned loans and removed rolls do not change |
| Catalog refresh jobs (`backend/catalog_refresh_jobs.rs`, `src-tauri/src/catalog_refresh_jobs.rs`) | table `catalog_refresh_jobs`, a process-wide registry, detached workers | start, status, legacy blocking refresh, import, fail, recover, reset, restore | a request is carried out once or reported as not carried out; nothing stays "running" |
| Companion access requests (`companion_access_recovery*.rs`) | an in-memory store with deadlines | ask, look, cancel, confirm with a code, list, approve, reject, clear | one admission, in time, only as approved, never beyond the listener or library it was approved under |
| Companion sessions and paired browsers (`companion_session.rs`, `database_trusted_lan.rs`) | session table (512, 8 h), `trusted_lan_*` tables | pair, renew, revoke, revoke all | a revoked browser is not served; a pairing link works once |
| Companion server (`companion_api.rs`, `state.rs`, `trusted_lan_network_watcher.rs`) | listener handle, status, mDNS advertisement | reconcile, activate, stop, retry, shut down | no listener survives shutdown or a changed configuration |
| Desktop lifecycle (`desktop_lifecycle.rs`) | shutdown phase, exit code, background tasks | close, exit, restart | every exit request ends the process once, with the first code, after the tasks |
| Library sync client (`library_sync_*.rs`, `active_library_gateway.rs`) | target generation, session, read caches, route slot, bounded executor | read, write, renew, switch target, resolve the Host | a cache or a session of one Host is never used for another; resolution is single-flight |
| Credential vault and migrations (`credential_*.rs`, `printer_bambu_live_commands.rs`, `inventory_maintenance_commands.rs`) | OS vault entries, their names and markers in SQLite, a cleanup manifest | migrate, save, clear, delete, reset, purge after a restore | no crash loses a secret, leaves it in SQLite for good, brings a removed one back or hands it to another library |
| Bambu live (`bambu_live*.rs`, `database_printer_usage_sessions.rs`) | observations, usage sessions | poll, match, sync slots, finish usage | an observation acts only under the authority and slots it was made for; usage counts once |
| Catalog spool batches (`catalog_spool_batches.rs`) | receipts | create many | a repeated batch creates nothing twice |
| Startup and storage (`app_storage.rs`, `sqlite_recovery.rs`, `database_schema_setup.rs`) | files, snapshots, manifests | open, migrate, recover | a failed migration leaves a library that opens |
| Data in and out: backup, import, vendor lookup, statistics, documents, updates | tables, files | one-shot conversions | (sequential conversions; the import of a light inventory file writes rolls and is part of `Inventory`) |
| UI, companion browser scripts, localization, CI scripts | presentation | | |

How they interact. Everything that writes passes the *secure-credential
mutation gate*, one process-wide mutex (`secure_credential_mutation.rs`);
`active_library_gateway.rs` and `app_services.rs` take it, check that this
device is the authority for its library and run the write, which is one
IMMEDIATE SQLite transaction. What is *not* under the gate is where the hard
behaviour lies: workers that fetch over the network, the in-memory registries and
stores, single revocations, listener start and stop, the resolver, and everything
that happens across a process exit.

`PROJECT.json` lists the hazards (interleavings, stale reads, retries, partial
failures, limits) at their lines, each with the properties that cover it or with
what is planned.

## 2. Modules

| Module | Models |
| --- | --- |
| `CatalogRefresh` | abstract: a refresh is begun once, commits at most once, its outcome is final |
| `CatalogJobs` | the job ledger, registry, workers, legacy pollers, resets and restarts; implements `CatalogRefresh` |
| `SpoolCustody` | abstract: legal moves of rolls between shelf, slots, borrowers and owners |
| `Inventory` | registering, editing, weighing, loading, lending, borrowing, removing, bulk and printer changes, import of inventory files (what it leaves out is listed below); implements `SpoolCustody` |
| `Inventory_proofs` | inductive invariant, refinement and theorems |
| `AccessPromise` | abstract: asked, approved, admitted once, or ended for good |
| `AccessRecovery` | the access request store, its handlers, and the listener that clears it; implements `AccessPromise` |
| `AccessRecovery_proofs` | inductive invariant, refinement and theorems |
| `RouteRegister` | abstract: one discovery at a time, callers get the newest route, only its holder drops it |
| `HostRoutes` | the shared mDNS route of a Client to its Host; implements `RouteRegister` |
| `HostRoutes_proofs` | inductive invariant, refinement and theorems |
| `ClientSync` | a Client's target, credentials, session and caches against Hosts that change |
| `ClientSync_proofs` | inductive invariant and theorems |
| `SpoolBatches` | registering a batch of rolls once, from a form that may be sent again |
| `Catalog_proofs` | inductive invariants and theorems of `CatalogJobs` and `SpoolBatches`, refinement of `CatalogRefresh` |
| `BrowserSessions` | pairing links, paired browsers, their sessions and their revocation |
| `DesktopLifecycle` | restarts and rebinds of the Companion listener, and the desktop's exit |
| `Companion_proofs` | inductive invariants and theorems of `DesktopLifecycle` and `BrowserSessions` |
| `LiveSlots` | Bambu polling: from a printer's report to the slots it fills |
| `LiveUsage` | Bambu usage: print sessions and the grams derived from reported weights |
| `LiveUsage_proofs` | sums over finite sets, inductive invariant and theorems |
| `CredentialVault` | a printer's access code in the vault and its name in SQLite, through every start and change |
| `Printers_proofs` | inductive invariants and theorems of `CredentialVault` and `LiveSlots` |
| `MC_*` | instances for TLC |

Operators whose comment ends in "mutant" are wrong variants of the definition
below them; with the variant in place TLC finds a property violated, so the
property does depend on that line of the code.

All systems are proved about. Each is a module of its own because the code joins them
only through the authority gate and the database: what one needs of another is a variable of its own (the
identity of the library a listener is bound to, the generation of a target) that steps in
all the ways the other module lets it.

### CatalogJobs

One step is one critical section of the gate, one registry update, or one
off-gate step of a worker. `jobs` is the ledger table, `live` the registry of
`(job, token)` pairs, `workers` the threads, `pollers` the blocking legacy calls,
`process` the `process_owner()`; `authority` numbers the authority keys (library
id, target generation, profile id), each change of which gives a key never used
before. `StartJob` is `start_job` with the recovery it does first; `Import`,
`GiveUp`, `FinishFailure` and `Release` are the worker; `FinishFailure` may fail
to write. `Restart` may fall between any two steps.

### Inventory

The columns of `filament_spools` are functions on `Spools`; `slot` is
`ams_slots.spool_id`, `loans` the ledger. One operation is one step, because it is
one transaction under the gate; requests arrive in any order and a refused
request is no step. Abstractions: net grams `0..MaxGrams`; one shelf; one
counterparty; loan ids freed by a purge stand for fresh ones; the set of slots a
printer upsert keeps is any subset (the code keeps a prefix); edits of ownership
details that change no modelled column are no step. An outgoing roll may always be
left unweighed, because whether live data confirms its weight comes from outside. A
return repeated with the same details changes nothing and is a stutter.

`CreateSpool` stores whatever status it is asked for, as the code does, in use or lent
included, and looks up no slot for it. `ImportRow` is one row of a light inventory file
(`FileRows` bounds what rows say): each row is a file of its own, where the code applies
the rows of a file one after another in one transaction. The row is looked up and
written by id alone, so it also rewrites a roll that was removed, which stays removed.
What a slot or a loan says is stronger than the file; a roll that becomes borrowed in
opens its loan unless its status is historical, and the file is refused when
the loan cannot be opened.

So three things one might expect of the books do not hold in this code, and the
properties say where they stop:

* A live roll that is `ASSIGNED` without a slot exists once a registration asked for
  that status. `AssignmentsHold` says nothing else makes one.
* A live `BORROWED_IN` roll without an open inbound loan exists once a file gave
  that owner to a roll it says is empty, lost, missing or deleted. `BorrowingsHold` says
  nothing else makes one, and that no loan is ended that way. Later edits may leave
  the historical status without opening the loan.
* A removed roll's columns change when a file names it. `RemovedStaysRemoved` says that
  nothing else writes them and that only a purge ends the row.

Left out: unknown remaining weight (`remaining_g` NULL); files whose total and remaining
weights differ, or that give the status `ARCHIVED`, which only an import stores; purchase
receipts, prices and notes; edits of the terms of a loan; location archive, merge and rename; whole-database reset and the
restore of a full backup, which replaces all of it.

### AccessRecovery

The store's requests are columns on `Ids` (an id is random and used once);
`Known` are those in the map. Expiry is lazy in the code, and so here: `Seen(i)`
is what `refresh` makes of a request, and only the handlers that call it write
"expired". A code is right or wrong. `Create` collects old requests and
creations, also when it then refuses; `AdmitHalf` is a grant that committed the
browser row and failed afterwards, in `build_authenticated_session_response`.
`bound` is the authority identity a listener captured (`CompanionApiState::new`),
`authority` the present one; a handler runs only if they are equal, a native
decision only while the service is marked running. `era`, `made` and `okayed` are
history. All handlers run under the gate, with `Instant::now()` taken inside it,
so the clock they see never runs backwards. A server task that dies by itself is
not modelled (`axum::serve` does not return an error).

### HostRoutes

One hostname. A step is one critical section of the slot's mutex
(`current_route_with`, `refresh_after_failure_with`, the second half of
`perform_resolution`, `invalidate_without_resolution`, `confirm_fallback_route`), one
look-up in the map of slots, or a step of a request between them. `route` and
`lease` are generations; that the pinned address behind a generation is right is
not modelled. `fresh` is whether `fresh_until` lies ahead, and `Expire` may come at
any moment. Slots are objects because `MdnsTransport::slot` may evict one:
`home[t]` is the `Arc` a request holds, so `strong_count == 1` is "nobody's home".
A condition variable is the phases "asleep" and "woken": `Notified` moves every
sleeper of the slot, `Wake` is the loop condition evaluated with the mutex back
in hand. A panic of the resolver is `Missed`, since `catch_unwind` turns it into an
error. `kind` tells what decides about a second attempt: a write, a read with
credentials, a plain GET, or the identity preflight that may fall back to the old
route. `begun` bounds the requests; `sends`, `installs` and `refreshes` are history.
Left out: which error text is returned (`last_failure`), lock poisoning,
saturation of the 64-bit counters.

### ClientSync

`target` and `gen` are the settings a target guard captures, `vault` the device
tokens, `session` and `failure` the runtime's `LibrarySyncRuntimeAuth`. Each use of
the gate is one step; so is each reading of the settings outside it and each call
to a Host, so that everything else may happen between two of them. A command is a
plan of requests: a read that is cached; a write followed by the paged refresh of
the roll cache; a write that carries the target it was reviewed for. Tokens and
sessions are numbers, with the library that issued a token and the token that
opened a session beside them. A vault call fails with or without its effect
(`Restored`), and `Restart` may come between the clearing of the vault and the
saving of the settings. A Host may change its library between any two requests,
but not between the two calls of one pairing. The waiting in
`library_sync_blocking_executor.rs` and the read caches of other tables, which are
kept the same way, are left out.

`LiveSessionsStay` says that a renewal replaces only the session its command was
refused with. That session is of no more use, with one exception the proof brought
to light: a Host that came to serve another library refuses a session, and if it
goes back to the first library before the renewal, the session it would accept
again is replaced all the same. Nothing is lost by it but a sign-in.

Noticed while modelling: a plain write captures its target anew by the base URL
alone (`library_sync_host_client.rs:1533`), where `CONTRIBUTING.md:193-194` asks for
the exact target. Only writes with a fixed target are held to
`FixedWritesReachTheirLibrary`; plain ones may reach a library the user switched
to at the same address.

### SpoolBatches

A controller's record is kept twice, in `mem` and in `store` (the window's
storage), and its request is on the `wire` at the desktop, at the Host, or past
the Host's session check; `live` says whether somebody still waits for the answer.
A role is chosen in the initial state: `remote` is a Client of a Host, otherwise the
library is the desktop's own. `journal` is the receipt table. `Execute` is the
whole transaction, and what it does depends on the receipt and the library id
beside it. `made`, `born` and `told` are history. A batch's content never changes
and validation is a choice of outcome. A restore of a full backup sets the target
generation back to 0, which is what the finding below is about.

### BrowserSessions

`authority` is the authority gate. One step is one use of the gate, one look at the session store, or one database
call of a request between them: the lookup and the check of the browser are two
steps, a renewal finds, touches and opens in three under the gate, and revoking
one browser takes no gate. Sessions are numbered in the order they expire. CSRF and
Host headers depend on the request alone and are left out. A library that was
replaced does not come back except as itself, and a restart of the listener
waits for the requests it has accepted. Revoking every browser leaves pairing links
open, as the code does.

### DesktopLifecycle

`pc` is how far each of the five parties has come that restart the listener
(the start-up task, the watcher, the configuration command, the reconciliations a
library change spawns, the exit's coordinator), `gate` the reconcile gate, `holds`
the server a party has taken out of the handle and is draining. Dropping a task
releases the gate and aborts the server it drains (`AbortsOnCancel`). `local`,
`saved` and `config` are the role, the settings in the database and the runtime's
copy, which three parties write. `net` is the address of the selected interface.
`cut` says that the exit's deadline passed before the listener was stopped;
`overlapped`, `first` and `final` are history. The advertisement, the tray and the
window are left out.

Two windows in the code are visible in the properties. A failure published after
the coordinator has read the code it exits with is not reported
(`FailuresAreReported` counts what was published before). And the watcher's and the
switching-off command's `apply_config` do not exclude the `apply_loaded_config` of
a library change, so the runtime may keep the older of the two; `ServesItsConfig`
says that this is the only way it may differ from the database. Requests to such a
listener are refused by the check of the bound authority (`BrowserSessions`).

### LiveSlots

`tray` is what is physically there, `poll` one poll per printer from the captured
configuration to the saved report, `over` the overview that the pass over the trays
decides on. `ApplyTray` is one tray of `auto_sync_live_slots`, one transaction; a
poll holds the gate from `Enter` to `Persist`, and users edit before and after. The
MQTT merge is `Full`, `Delta` and `Carried`. RFID times are seconds; behaviours are
shorter than the ten minutes after which an identity no longer assigns. The initial
configuration is one binding, since bindings are interchangeable. The colour rule
(`ColourReplaced`) is in the model and never true: the overview it reads leaves
`live_color_hex` unset (`database_printer_queries.rs:203`, and the test at
`bambu_live_tests.rs:1345`). Recovering a printer's address counts as a change of
its configuration. Weighing, third-party rolls in the inventory and the deletion of
a printer are left out.

`HandsPrevail` has a precondition on its reading part: a poll whose configuration
changed, or that failed, on the way has applied slots without saving its report
(`database_bambu_live_settings.rs:80` against `bambu_live_authority.rs:56-58`), and a
later report can then carry an older reading on. An empty or unknown reading has no
time in the code and may undo an assignment made by hand since
(`bambu_live_usage.rs:178` against 1350-1354); the property is about known rolls.

### LiveUsage

`sessions` is the table in the order its rows began; `poll` the report being
applied, statement by statement where the code commits statement by statement
(`touch_live_usage_session` and the merge it may make) and in one step where there
is a transaction (`Weigh`, which calls `record_live_usage_delta`). `Fault` is a
database error or the end of the process between two of them. Weighings by hand
and whole reports hold the gate and so exclude each other; readers do not.
Thresholds keep their order, not their size. Permanent deletion of rolls, the
case-insensitive comparison of keys and ties broken by a random id are left out. That
finishing a print without a session of its own finishes the only running one is
what the code intends.

A reader may see a merge half done, though `docs/development/ARCHITECTURE.md:399-400` says
that readers do not observe a partially processed state; and a crash inside the merge leaves rows that
the next merge adds again (`bambu_live_tests.rs:4583` and 4735 test the outcome
without one). `GramsAddUp` and one part of `SessionsAreDistinct` therefore speak of the time
between touches and only until one was torn; the model has both.

### CredentialVault

One printer. `vault` maps names (profile, binding) to codes; profile 0 is the one
older releases took from the library id, `Legacy` their unscoped name. `db` is the
row of the integration (`binding`, `stale`, `configured`, plaintext) with the
machine-local settings (`own` profile, the two markers); `dirty` says that scrubbed
bytes may still be in free pages or the WAL; `manifest` is the file beside the
database. `pc` is the step a workflow has reached, one step for each call of the
vault, each transaction and each file written. Every workflow holds the credential
gate, so there is one at a time; `Crash` may come between any two steps, and any
call may fail. A start that fails and takes its own write back is a crash before
that write. Binding and profile ids are random and never repeat. `wanted`,
`removed`, `skipped` and `foreign` are history. The retry that begins a restore is a
request of its own, which is more than the code allows. Left out: the
library's device token (its migration has the same shape), the sanitizing of
recovery snapshots, the vault back ends, and a database that an older release wrote
plaintext into after the marker was set.

Three behaviours of the code limit the properties. While the cleanup of a
restore is pending, or after a reset whose fresh profile could not be written
(`inventory_maintenance_commands.rs:491-496` wipes and initializes in two
transactions), the program goes on under a profile that SQLite no longer names: a
code saved then is not found at the next start, so `wanted` does not count it. A
start that cannot read the vault after the migration is complete goes on and leaves a
code under its unscoped name (`credential_migration.rs:72-98`); a code cleared
afterwards comes back from there at the next start, so `RemovedIsGone` leaves out
what was `skipped`. And the rollback of such a reset writes the old codes back under
names that no row has any more.

## 3. Runs

| Run | Instance | Shows |
| --- | --- | --- |
| `jobs` | 2 job ids, 1 request, 2 tokens, 2 authority changes, 1 restart | one running job, one worker per request, honest receipts, recovery spares live workers, legacy refreshes come back, refinement of `CatalogRefresh` |
| `inventory` | 2 rolls, 2 slots of one printer; one roll alone with a receipt beside an open loan, 0..2 g and every status it can reach, both together with 1 loan and 0..1 g (`MCBound`); files of one row out of 24 | the books agree and nothing done is undone, in one roll's life and in swaps and displacements of two; refinement of `SpoolCustody` |
| `access` | 3 requests, 2 libraries, store of 2, 1 creation a minute, 2 tries, 4 instants, 4 eras | expiry, locks, partial grants, collection, no approval outlives what it was given under; refinement of `AccessPromise` |
| `routes` | 2 threads, 2 slots, 3 requests | single-flight discovery, no lost wake-up, newest route only, one refresh per wave of failures, no replay, requests end; refinement of `RouteRegister` |
| `sync` | two commands at once on one target; one command among two Hosts, two libraries, three generations | credentials, sessions and caches are those of the present target, through failing vaults and restarts |
| `batches` | 2 batches, 2 library ids, 4 requests, 2 restores, 1 reset, both roles | made once, answers true, nothing forgotten |
| `batches_cross_restore` | 2 batches, 1 restore | *violation*: a pending request crosses a restore |
| `browser_sessions` | 2 requests at once, 2 browsers, 2 links, store of 2, 3 sessions, 2 libraries | revocation against renewal, links used once, answers of one library, eviction of the oldest |
| `lifecycle` | 2 addresses, 2 listeners, 3 exit codes, 1 change, 1 move, 2 exit requests | one listener at a time, nothing after the exit, the first failure is the exit code, the exit ends |
| `slots` | six scenarios with up to 2 trays, 2 rolls, 3 seconds | a pass settles the slots, users prevail, nothing of another library, slots converge |
| `usage` | 3 reports of every kind of one roll with a weighing and a fault; 4 reports of two jobs, an unnamed print and two rolls | sessions distinct, grams counted once, finished is final |
| `vault` | 2 codes, 7 bindings, 5 profiles, 4 requests, 2 crashes or failures | a code is never lost between the stores or left in SQLite, a removed one does not come back, a restored library takes over none, a start succeeds in the end |

Several models have more dimensions than can be bounded generously at once. Their
constant `Limits` is a set of records of bounds of which the initial state chooses
one (`limit`), so that one run is the union of a few scenarios, each wide in the
dimensions that meet in it. The sets are closed under the symmetry used.

Why the bounds are enough. `jobs`: two ids make the exclusion between jobs
visible, two tokens let a worker outlive its row, two authority changes reach a
library whose ids were used before. `inventory`: two loans let one be
closed while another is opened; 0, 1 and 2 grams tell empty, used and full apart; two
rolls and two slots of one printer give every displacement,
and the operations never look at a third roll. Edits ask for three statuses, one that a
slot, one that a loan and one that nothing else sets, registrations for these and
`IN_STOCK`; file rows give four statuses and every owner, with all other columns or none.
What the run leaves out (other edits and files, a second loan, or a roll with an odd
history, beside a second roll) the proofs cover. `access`: lifetimes 1 and 3 with
retention 1 put every order of expiry, approval and collection within four
instants, three ids exceed both limits, and three changes of era are a library
changed, changed back and bound again. `routes`: one thread can fail late, after the other
has replaced its route, and the second slot is what an eviction leads to; a third
thread, which could wait at the same time, is covered by the proofs for any number.
`sync`: a wave needs two threads on one target, and a switch there and back needs
three generations with one thread, and a Host that goes back to its library two
moves; a second thread adds nothing to a command that
only meets settings changes. `batches`: four requests are a request, its retry, and
the same for a second batch or another target, and two restores go back and
forth. `browser_sessions`: with a store of two, the third session evicts. `lifecycle`: the second
listener is the restarted one, the second exit request the one that comes
late. `slots`: what a pass decides about two trays depends on two rolls, which may be swapped;
three seconds order an old reading, a hand and a new reading. `usage`: a named print,
its unnamed beginning and a next print are three reports, and a fault costs one more.
`vault`: bindings and profiles do not run out before requests and faults do; two faults
are a failed step and a crash of what repairs it; four requests are, for example, a code
saved, a restore, its repetition and a code saved again.
The proofs below remove the bounds for everything except what section 5 names.

The finding. `batches_cross_restore` checks the comment at
`inventory_catalog_batch_commands.rs:28-30`, that a pending request cannot cross a
restore. It can, when the role was never changed: the restored settings table
starts over, and both the library id and generation 0 come back. The receipts,
which a restore keeps, still prevent a second creation (`MadeOnce`); only after a
reset, which drops them, followed by such a restore would a batch be made twice.

Runs check no deadlock: the systems are driven by people, who may stop, and the
bounds stop the clocks and counters. Symmetry is used only where no liveness
property is checked.

Fairness. `jobs`: a worker is a thread whose every network request has a
timeout, so it ends; a legacy call sleeps 100 ms and polls again as long as it
waits. Both get weak fairness. Nothing is assumed of requesters, resets or
restarts. `routes`: a thread that can run does; discovery and every request but
a write have timeouts, so they end one way or the other. The answer to a write is
owed by nobody (the code sets no limit on it, on purpose), nor is a waiter's own
timeout, a new request or an eviction: that requests end does not rest on them.
`lifecycle`: weak fairness of the coordinator alone, because each of its waits has
a deadline (`stop_background_tasks`, `COMPANION_SHUTDOWN_TIMEOUT`); nothing is
assumed of the other parties, so the exit does not wait for them. `slots`: the
observer polls every twenty seconds and applies what it got (weak fairness), and, as
an assumption on the printer, a poll again and again brings all trays in full
(strong fairness of that one answer); user changes are finitely many, nothing else
is assumed. `vault`: weak fairness of the start, from the program being opened to its last
step: whoever opens the program opens it again when it failed to start. Crashes and
failures are finitely many.

## 4. Proofs (TLAPS)

All theorems hold for every value of the constants that satisfies the named
assumptions, which TLC evaluates in the runs: bounds are naturals, places
and slots are different, the printer map is a function, lifetimes and limits are positive where
the code's are, an older release can have left two bindings, the string that stands for no
Host is none, a printer's rolls are finitely many. Each invariant and action property the
passing runs check is a theorem; in most modules the named parts of a run's invariant are
theorems too.

* `Catalog_proofs` holds the proofs of the two ways rolls and products get into the
  catalog. It extends both modules, which share neither a variable nor an operator; each
  theorem is about the specification of one of them (`Spec`, `BatchesSpec`).

  `CatalogJobs`: `Invariance` (inductive `IInv`), `TypeCorrect`,
  `OneRunning`, `OneWorker`, `HonestReceipts`, together `LedgerSound`;
  `WorkerKeeps`, `Refinement`. `IInv`
  adds that registered tokens, claims and ledger rows agree (`WorkersTied`), that no
  claim is younger than the authority (`AuthoritiesPast`), and that a worker that
  still has to import has not merged (`NotMergedYet`): without them a late worker
  could own a row it never claimed.

  `SpoolBatches`: `BatchInvariance`; `OnceOnly`, `FormsSayTheTruth`. A batch belongs to one
  form (`OneForm`), which waits for exactly one request (`Waiting`), and what the form
  keeps in storage differs from memory only in ways a reload mends (`Recorded`). `MadeOnce`
  needs two arguments. Without a reset, the journal knows every batch that was made. Without
  a restore, it may have been emptied, but then no form or request is of the new
  library (`Receipts`), and what the library admits was meant for it: a request past the
  Host's check carries the library its form was filled in for, or an era that is over
  (`Meant`). `rejected` is final because it is only said of the first copy sent, which
  still has its form waiting, so no other copy is under way (`Answered`).

* `Inventory_proofs`: `Invariance`; `TypeCorrect`, which is `TypeOK` and
  `RemovedRowsAreTidy` (a loan's roll is missing only after a purge, which takes the
  loan along); `SlotsExclusive`, `SlotsTrue`, `PlacesTrue`, together `SlotsSound`;
  `LoansExclusive`, `LentIsAway`, `InboundIsHere`, together `LoansSound`. The
  properties are only inductive together. The ledger enters through `Active` alone: four lemmas say
  what opening, closing and purging do to it; then operations split into edits,
  which keep slots, and slot changes; a file's row is an edit that may open a loan
  (`ImportFacts`, `ImportLedger`). Four theorems are about steps. `RemovedFinal`: only a
  purge ends the row of a removed roll and only a file rewrites it. `ReturnsFinal`: a
  closed loan is only ever forgotten together with its roll. `AssignmentsKept` and
  `BorrowingsKept`: only a registration makes a roll in use without a slot, only a file a
  borrowed one without its loan. The lemmas on each operation prove these two along with the
  invariant, as what a step may not newly create (`Held`).
  `BooksSound` and `NothingIsUndone` join them as the run states them.
  `CustodyKept`: `Inventory` implements `SpoolCustody`. The
  hand a roll is in is a function of its row, its slot and its outbound loan
  (`HandFacts`, from the invariant), so a roll for which none of the three changes
  stays where it is (`SameHand`). An operation that moves nothing is a stutter, every
  other one is the move of the rolls it names.
* `AccessRecovery_proofs`: `Invariance`, `TypeCorrect`, `FloodsBounded`, together
  `StoreSound`; `PairedTogether`, `LiveKept` and `ApprovalFixed`, together `TermsKept`;
  `Refinement`. The heart of `IInv` is
  `Settled`: while the listener's binding is the present authority, no era has
  begun since it was bound, so whatever it can serve was made and approved in this
  era. The rate bound needs `Settled` too (creations of this era in the last
  minute are still counted); with it, a window that a new request joins lies
  within `Recent` and the new request.
* `HostRoutes_proofs`: `Invariance`, `TypeCorrect`, `SingleFlight`, `SleepersWait`,
  `NewestCached`, together `RouteSound`; `OneRefreshPerWave` and `SentOnce`, together
  `EffortBounded`; `Refinement`. Requests work in the
  cached slot (`Placed`), whose mark belongs to exactly one thread (`Tied`), and hold
  routes of its past (`Leased`). A slot without a route knows that its newest is gone
  (`Gone`), a refresh resolves for an empty slot (`Emptied`), and a route in the slot
  is not yet spent on a refresh (`Unspent`): so a late failure finds that its route
  is gone, or a newer one, or spends the route that failed. `Counted` says how often
  a request was sent at each point of its way.

* `Companion_proofs` holds the proofs of the two parts of the companion server.
  It extends both modules, which share neither a variable nor an operator; each theorem is
  about the specification of one of them (`Spec`, `SessionsSpec`).

  `DesktopLifecycle`: `Invariance`, `RightListener`, `FirstFailureReported`. Only the
  holder of the reconcile gate is in a locked phase (`Gated`), and it takes the listener out
  of the handle before it drains it (`Taken`), so a listener that starts meets no other,
  and one that is dropped half-way is aborted. Once the exit has stopped it, no party that
  could bind is left (`Stopped`). While one runs that is not as configured, somebody is
  about to restart it (`Restarts`). `Agrees` follows the database through the writers: what
  each has read, what it has saved, and what the runtime was given; it says nothing of a
  writer that a library change overlapped. The code the exit takes is the first failure
  (`Reported`).

  `BrowserSessions`: `SessionInvariance`, `SessionsTyped`; `OutIsOut`, `PairedOnce`,
  `SentFromHome`, `OthersStaySignedIn`. A browser is paired once, so whoever was out
  when a request came in is out ever after (`OutStaysOut`), and the check finds it
  out however long ago the look-up was; the request has the browser its session was
  opened for (`KnownByTheirSession`), so the look-up cannot have named another.
  `LinksPairOnce` needs that a link that made a browser is spent (`MakersAreSpent`),
  `AnswersStayHome` that what was read was read no earlier than the library that is
  served and no later than the present one (`ReadInOrder`): when the two are one at
  the sending, so was what was read. The smallest of the sessions is a session
  (`OldestIsThere`), so an eviction makes exactly the room it is for.
* `ClientSync_proofs`: `Invariance`, `TypeCorrect`; `OwnCredentials`, `OwnCache`,
  `ReviewedWrites`, `OneRenewal`. The settings, the vault and the session agree by
  themselves (`Paired`); what a command knows is the hard part (`Sound`), because
  everything may change between two of its steps. Generations order it: the target a
  command began with is not newer than the one its request was captured for, which is
  not newer than the present one, and equal generations mean equal targets
  (`Captured`). A session taken from the runtime is of the present target, so once
  the target has been looked at again its token is one of the library the request is
  meant for (`Holds`), and stays so since Hosts never reissue a token. `RefusedFor`
  keeps why a session was refused until it is renewed.

* `Printers_proofs` holds the proofs of what is kept of a printer, its access code and its
  slots. It extends both modules, which share neither a variable nor an operator; each
  theorem is about the specification of one of them (`Spec`, `LiveSpec`).

  `CredentialVault`: `Invariance`; `CodeStays`, `OpenIsEmpty`, `GoneForGood`,
  `ForgottenIndeed`. The two stores are told apart by ids: every binding and profile in
  use was given out and nothing is kept under one that was not (`Issued`), so a
  code written under a new name hides no other (`Introduced`), and a library that gets a
  profile finds it empty (`OwnFirst`). `Kept` says, for each step of each workflow, where
  the code the user relies on is: under a name the next start looks at (`Found`), or, during a
  removal, where it is found once the saved codes are back (`FoundBack`); a saved code is
  the one still in the vault, or that one is gone. `Gone` needs that no start comes to run
  with a code under the unscoped name, unless it skipped it. `Forgotten` ties the names of
  a replaced library to the cleanup file: they are in it until their codes are gone,
  the step that looks for them is the first one, and no later row names them
  again. `NothingInTheOpen` is the part `Clean`, with what a completed start leaves
  for those that crash before compacting.

  `LiveSlots`: `LiveInvariance`; `PassesSettle`, `UsersPrevail`, `ForeignReportsDropped`.
  Every tray is decided on the overview read before the first, so `Passing` says what is
  still true of it when the turn comes: a slot whose tray is still to be applied holds what
  the overview says, or lost it to another slot of this pass, and not if its own tray alone
  names that roll; a slot whose turn was is as its tray says, and no later
  tray takes its roll, because no other tray names it. `Meant` is why a look at
  generation and profile is enough: both only grow, but for the generation that a restore
  starts over, and then the profile is new. For `HandsPrevail` a reading keeps the time it was
  made through merging and saving (`AllDated`), and once a slot has forgotten when it was
  cleared by hand, no older reading of a known roll is left in a poll or in the
  saved report (`NoneOlder`); that is where its precondition is needed.

* `LiveUsage_proofs`: `Invariance`, `Typing`; `PrintsStayApart`, `BooksBalance`,
  `EndedStays`. A report is a row of statements on a list of sessions, so the
  proof has three layers. First sums over finite sets (`SumChange`, `SumRenamed` and what
  leads to them): the fold the totals are defined by is a function that is the
  solution of its own recursion, and a law that failed for some set would fail for a
  smallest one, so nothing is assumed of sums. Then what each statement
  does to one session, and to the list: which sessions keep their name, their
  use, and their end. Then the invariant, kept by each action.

  Keys need `Numbered`: a new session's number is one more than there are sessions of
  its key, so no number may exceed that count, as one would if a merge deleted an earlier row.
  What a merge deletes is the running session without a name, and that one
  always has the last number of its key, because one that begins meets no other that
  runs (`OnePerKey`). Grams need `Totals` and `Counts` to say what holds between the
  statements of a merge: the totals of its two sessions make up the use of both with the
  row that is half moved (`poll.half`) counted twice; and `Directed`, that
  the deleted session has no row left. After a torn touch the sums are
  given up, as in the property (hazard at `database_printer_usage_sessions.rs:617`); that
  keys are unique and that what ended is final holds then too. `Weigh` is one transaction, so
  its proof composes the statements (`Ensured`, then `Recorded`).

## 5. Only model-checked

* `LegacyRefreshEnds`, `RequestsEnd`, `ExitEnds`, `Converges` and `Starts`: liveness under
  fairness is beyond the prover.

Every other property of a passing run, safety invariants, action properties and
refinements, is a theorem. `NothingCrossesARestore` is refuted by TLC, not proved.

## 6. Not modelled, and why

File formats, SQL text, HTTP parsing, vendor lookup, statistics and price
arithmetic, documents, localization and the UI are sequential conversions or
presentation; they are most of the repository's lines. The seed that a reset applies
after it has committed is only rows of the catalog here. The printer protocol below
a report (MQTT frames, discovery) is the choice of what `Observe` returns. The wishlist and
locations are single-row edits. The start-up recovery of files
and the blocking executor are planned.

## 7. Plan

1. `CatalogJobs`, `Inventory`, `AccessRecovery`, `HostRoutes` with their abstract
   specifications and proofs: done.
2. `ClientSync`, `SpoolBatches`, `BrowserSessions`, `DesktopLifecycle`, `LiveSlots`,
   `LiveUsage`, `CredentialVault`, model-checked: done.
3. Proofs of the action properties of `Inventory` and of its refinement, of
   `BrowserSessions`, `ClientSync`, `CredentialVault`, `SpoolBatches`,
   `DesktopLifecycle`, `LiveSlots` and `LiveUsage`: done.
4. Start-up recovery of files; the blocking executor, whose permits writes without a deadline hold.
