---------------------------- MODULE CatalogJobs ----------------------------
(***************************************************************************)
(* Detached catalog refresh jobs of the Host process.                      *)
(*                                                                         *)
(* Source: src/src/backend/catalog_refresh_jobs.rs (the durable ledger)    *)
(* and src/src-tauri/src/catalog_refresh_jobs.rs (worker, live registry,   *)
(* authority gate).  One step of this module is one critical section of    *)
(* the secure-credential mutation gate, one registry update, or one        *)
(* off-gate step of a worker.  The gate makes each section atomic to every *)
(* other section; a process exit may fall between any two of them.         *)
(*                                                                         *)
(* The authority key ([library id, target generation, profile id]) is an   *)
(* epoch number: every change of it in the code (a new target generation   *)
(* or a new random profile) yields a key that was never used before.       *)
(***************************************************************************)
EXTENDS Naturals, FiniteSets

CONSTANTS JobIds,        \* job ids a requester may choose; a retry reuses one
          Requests,      \* normalized (vendor, material) pairs
          Tokens,        \* registry tokens: random_hex_token(16), never reused
          MaxAuthority,  \* bound: authority changes explored
          MaxProcess     \* bound: process restarts explored

ASSUME BoundsAssumption == MaxAuthority \in Nat /\ MaxProcess \in Nat

VARIABLES
  jobs,       \* JobIds -> ledger row or NoRow     (table catalog_refresh_jobs)
  catalog,    \* merges of refreshed entries held by filament_master_list
  mode,       \* "LOCAL" (STANDALONE or HOST) or "CLIENT"
  authority,  \* current authority key
  process,    \* process_owner() of the running process
  live,       \* live_jobs(): set of <<job id, token>>
  workers,    \* Tokens -> blocking worker started under that token
  pollers,    \* legacy requests waiting: set of <<job id, bound authority>>
  claims      \* history: every claim that started a worker

vars == <<jobs, catalog, mode, authority, process, live, workers, pollers, claims>>

Statuses == {"RUNNING", "SUCCEEDED", "FAILED", "INTERRUPTED"}

\* The wording of "error" is abstracted to who ended the job: its own worker,
\* recovery of an orphan, or a catalog reset.
Errors == {"none", "worker", "orphan", "reset"}

NoRow == [status |-> "absent"]
Row   == [authority : Nat, owner : Nat, request : Requests,
          status : Statuses, error : Errors]

\* complete_job: a receipt has a reason exactly when the job did not succeed.
WellFormed(row) == row.error = "none" <=> row.status \in {"RUNNING", "SUCCEEDED"}

NoWorker == [pc |-> "none"]
Worker   == [pc : {"work", "finish", "release"},
             job : JobIds, authority : Nat, request : Requests]

\* A started worker is known by its claim, and so is the merge it makes.
Claim == [job : JobIds, authority : Nat, token : Tokens]

Init == /\ jobs = [j \in JobIds |-> NoRow]
        /\ catalog = {}
        /\ mode = "LOCAL"
        /\ authority = 0
        /\ process = 0
        /\ live = {}
        /\ workers = [t \in Tokens |-> NoWorker]
        /\ pollers = {}
        /\ claims = {}

-----------------------------------------------------------------------------
(* The ledger. *)

Exists(j) == jobs[j] # NoRow

LiveIds == {e[1] : e \in live}

Ended(row, status, reason) ==
  [authority |-> row.authority, owner |-> row.owner, request |-> row.request,
   status |-> status, error |-> reason]

Interrupted(row, reason) ==
  IF row.status = "RUNNING" THEN Ended(row, "INTERRUPTED", reason) ELSE row

Failed(row) == Ended(row, "FAILED", "worker")

\* recover_jobs retires the RUNNING rows of an earlier process, and those of
\* this process whose worker is no longer registered.
OrphanedByRestartOnly(j) == jobs[j].owner # process  \* mutant

Orphaned(j) == jobs[j].owner # process \/ j \notin LiveIds

Recovered == [j \in JobIds |->
                IF Exists(j) /\ Orphaned(j)
                THEN Interrupted(jobs[j], "orphan") ELSE jobs[j]]

\* Any row of the id, whatever its status, is replayed or refused: a claim
\* starts a worker only for an id without a row.

Claimable(j) == ~Exists(j)

\* No other job of the library runs once the orphans are retired.
IdleForAuthority ==  \* mutant: asks for the running job of this authority only
  \A j \in JobIds :
     Exists(j) /\ jobs[j].authority = authority => Recovered[j].status # "RUNNING"

Idle == \A j \in JobIds : Recovered[j].status # "RUNNING"

-----------------------------------------------------------------------------
(* Requests: the start and status commands, their HTTP routes, and the     *)
(* legacy refresh that blocks on a poll loop.  A service whose bound       *)
(* authority is no longer current is refused and changes nothing.          *)

\* start_job_with: recovery, claim and registration are one section of the
\* gate; the blocking worker is spawned right after it.
StartWorker(j, r, t) ==
  /\ mode = "LOCAL"
  /\ \A c \in claims : c.token # t
  /\ Claimable(j)
  /\ Idle
  /\ jobs' = [Recovered EXCEPT ![j] =
        [authority |-> authority, owner |-> process, request |-> r,
         status |-> "RUNNING", error |-> "none"]]
  /\ live' = live \cup {<<j, t>>}
  /\ workers' = [workers EXCEPT ![t] =
        [pc |-> "work", job |-> j, authority |-> authority, request |-> r]]
  /\ claims' = claims \cup {[job |-> j, authority |-> authority, token |-> t]}
  /\ UNCHANGED <<catalog, mode, authority, process>>

StartJob(j, r, t) == StartWorker(j, r, t) /\ UNCHANGED pollers

\* get_job, and a start_job that is replayed or refused as busy.
Status == /\ mode = "LOCAL"
          /\ jobs' = Recovered
          /\ UNCHANGED <<catalog, mode, authority, process, live, workers,
                         pollers, claims>>

\* run_legacy_catalog_refresh: a random job id, then a loop of get_job calls
\* bound to the authority the request arrived under.
StartLegacy(j, r, t) ==
  /\ \A c \in claims : c.job # j
  /\ StartWorker(j, r, t)
  /\ pollers' = pollers \cup {<<j, authority>>}

\* One turn of the loop: a refusal ends it with an error, a row that is not
\* RUNNING ends it with the outcome of the job.
PollLegacy(p) ==
  LET answered == mode = "LOCAL" /\ p[2] = authority
  IN  /\ p \in pollers
      /\ jobs' = IF answered THEN Recovered ELSE jobs
      /\ pollers' = IF answered /\ jobs'[p[1]].status = "RUNNING"
                    THEN pollers ELSE pollers \ {p}
      /\ UNCHANGED <<catalog, mode, authority, process, live, workers, claims>>

-----------------------------------------------------------------------------
(* The worker.  Its network fetch runs outside the gate. *)

\* CatalogJobExecution::import and the transaction it calls: the authority is
\* compared again, and the row must still be RUNNING for the same request.
MayImport(t) ==
  LET w == workers[t] IN
  /\ mode = "LOCAL"
  /\ authority = w.authority
  /\ jobs[w.job].status = "RUNNING"
  /\ jobs[w.job].authority = w.authority
  /\ jobs[w.job].request = w.request

\* The merge and the SUCCEEDED receipt commit together.

Import(t) ==
  /\ workers[t].pc = "work"
  /\ MayImport(t)
  /\ jobs' = [jobs EXCEPT ![workers[t].job] = Ended(@, "SUCCEEDED", "none")]
  /\ catalog' = catalog \cup
        {[job |-> workers[t].job, authority |-> workers[t].authority, token |-> t]}
  /\ workers' = [workers EXCEPT ![t].pc = "finish"]
  /\ UNCHANGED <<mode, authority, process, live, pollers, claims>>

\* The source is unavailable, the fetch fails or panics, or the import is
\* refused or rolls back.
GiveUp(t) ==
  /\ workers[t].pc = "work"
  /\ workers' = [workers EXCEPT ![t].pc = "finish"]
  /\ UNCHANGED <<jobs, catalog, mode, authority, process, live, pollers, claims>>

\* finish_failure retires exactly the row of this job and authority.
OwnRow(t) ==  \* mutant: whatever its status
  Exists(workers[t].job) /\ jobs[workers[t].job].authority = workers[t].authority

OwnRunningRow(t) ==
  LET w == workers[t] IN
  /\ jobs[w.job].status = "RUNNING"
  /\ jobs[w.job].authority = w.authority

\* It runs whatever the outcome was, in any mode, and gives up silently when
\* the gate or the database cannot be opened.
FinishFailure(t) ==
  /\ workers[t].pc = "finish"
  /\ jobs' \in IF OwnRunningRow(t)
               THEN {jobs, [jobs EXCEPT ![workers[t].job] = Failed(@)]}
               ELSE {jobs}
  /\ workers' = [workers EXCEPT ![t].pc = "release"]
  /\ UNCHANGED <<catalog, mode, authority, process, live, pollers, claims>>

\* Drop of LiveCatalogJob: the registration goes, found by id and token.
RegistrationsOfJob(t) ==  \* mutant: found by the job id alone
  {e \in live : e[1] = workers[t].job}

Registration(t) == {<<workers[t].job, t>>}

Release(t) ==
  /\ workers[t].pc = "release"
  /\ live' = live \ Registration(t)
  /\ workers' = [workers EXCEPT ![t] = NoWorker]
  /\ UNCHANGED <<jobs, catalog, mode, authority, process, pollers, claims>>

-----------------------------------------------------------------------------
(* The library around the jobs. *)

NextAuthority == authority + 1

\* save_library_sync_settings with a changed role or target.
ChangeTarget ==
  /\ authority < MaxAuthority
  /\ mode' \in {"LOCAL", "CLIENT"}
  /\ authority' = NextAuthority
  /\ UNCHANGED <<jobs, catalog, process, live, workers, pollers, claims>>

\* reset_catalog_data: unreferenced refreshed rows are deleted.
ResetCatalog ==
  /\ mode = "LOCAL"
  /\ jobs' = [j \in JobIds |-> Interrupted(jobs[j], "reset")]
  /\ catalog' \in SUBSET catalog
  /\ UNCHANGED <<mode, authority, process, live, workers, pollers, claims>>

\* A full restore replaces the catalog and every setting, so the profile is
\* created afresh; workers of the old library keep running.
RestoreBackup ==
  /\ mode = "LOCAL"
  /\ authority < MaxAuthority
  /\ jobs' = [j \in JobIds |-> NoRow]
  /\ catalog' = {}
  /\ authority' = NextAuthority
  /\ UNCHANGED <<mode, process, live, workers, pollers, claims>>

\* The app-data reset is allowed in every role and keeps the master list.
ResetAppData ==
  /\ authority < MaxAuthority
  /\ jobs' = [j \in JobIds |-> NoRow]
  /\ mode' = "LOCAL"
  /\ authority' = NextAuthority
  /\ UNCHANGED <<catalog, process, live, workers, pollers, claims>>

\* The process exits at any point and is started again.
Restart ==
  /\ process < MaxProcess
  /\ process' = process + 1
  /\ live' = {}
  /\ workers' = [t \in Tokens |-> NoWorker]
  /\ pollers' = {}
  /\ UNCHANGED <<jobs, catalog, mode, authority, claims>>

-----------------------------------------------------------------------------
WorkerStep(t) == Import(t) \/ GiveUp(t) \/ FinishFailure(t) \/ Release(t)

Next ==
  \/ \E j \in JobIds, r \in Requests, t \in Tokens :
        StartJob(j, r, t) \/ StartLegacy(j, r, t)
  \/ Status
  \/ \E p \in pollers : PollLegacy(p)
  \/ \E t \in Tokens : WorkerStep(t)
  \/ ChangeTarget
  \/ ResetCatalog
  \/ RestoreBackup
  \/ ResetAppData
  \/ Restart

Spec == Init /\ [][Next]_vars

\* Every request of a fetch has a timeout, so a worker ends; a legacy loop
\* sleeps 100 ms and asks again for as long as it waits.
Fairness == /\ \A t \in Tokens : WF_vars(WorkerStep(t))
            /\ \A p \in JobIds \X (0 .. MaxAuthority) : WF_vars(PollLegacy(p))

FairSpec == Spec /\ Fairness

-----------------------------------------------------------------------------
(* Properties. *)

TypeOK ==
  /\ jobs \in [JobIds -> Row \cup {NoRow}]
  /\ \A j \in JobIds : Exists(j) => WellFormed(jobs[j])
  /\ catalog \subseteq Claim
  /\ mode \in {"LOCAL", "CLIENT"}
  /\ authority \in Nat
  /\ process \in Nat
  /\ live \subseteq JobIds \X Tokens
  /\ workers \in [Tokens -> Worker \cup {NoWorker}]
  /\ pollers \subseteq JobIds \X Nat
  /\ claims \subseteq Claim

\* At most one refresh is RUNNING in the library, across retries, restarts,
\* changes of authority and workers that outlive their row.
OneRunningJob ==
  \A j, k \in JobIds :
     jobs[j].status = "RUNNING" /\ jobs[k].status = "RUNNING" => j = k

\* A request that is sent again (a lost answer, a retry after a restart) never
\* starts a second worker for the same job of the same library.
OneWorkerPerRequest ==
  \A c, d \in claims :
     c.job = d.job /\ c.authority = d.authority => c.token = d.token

\* Whenever refreshed entries are in the catalog, their job did start, and the
\* ledger does not tell its requester anything but SUCCEEDED: no FAILED or
\* INTERRUPTED ("no catalog changes were committed") receipt ever lies.
MergesHaveReceipts ==
  \A m \in catalog :
     /\ m \in claims
     /\ Exists(m.job) /\ jobs[m.job].authority = m.authority
          => jobs[m.job].status = "SUCCEEDED"

\* The ledger is sound, whatever is retried, restarted, restored or given to
\* another library: one refresh at a time, one worker for a request, and no
\* receipt that denies what was merged.
LedgerIsSound == TypeOK /\ OneRunningJob /\ OneWorkerPerRequest /\ MergesHaveReceipts

\* Recovery retires a job only after its worker is gone: as long as a worker
\* that claimed the row still fetches, imports or reports, no status request
\* interrupts it, however job ids were reused by the libraries before.
WorkerKeepsItsJob ==
  [][\A j \in JobIds, t \in Tokens :
       /\ jobs[j].status = "RUNNING"
       /\ workers[t] # NoWorker
       /\ workers[t].job = j
       /\ workers[t].authority = jobs[j].authority
       /\ process' = process
       => jobs'[j] # Ended(jobs[j], "INTERRUPTED", "orphan")]_vars

\* The blocking legacy refresh always comes back, with an outcome or an error,
\* also when the worker could not store its failure.
LegacyRefreshEnds ==
  \A p \in JobIds \X (0 .. MaxAuthority) : p \in pollers ~> p \notin pollers

\* The whole mechanism keeps the one-shot promise of CatalogRefresh.
Promise == INSTANCE CatalogRefresh
             WITH outcome <- [j \in JobIds |-> jobs[j].status],
                  merged  <- catalog,
                  Merges  <- Claim

KeepsPromise == Promise!Spec
=============================================================================
