--------------------------- MODULE Catalog_proofs ---------------------------
(***************************************************************************)
(* The proofs about the two ways the catalog is written to: refresh jobs   *)
(* (CatalogJobs) and the registration of a batch of rolls (SpoolBatches).  *)
(* They share no variable and no operator.                                 *)
(***************************************************************************)
EXTENDS CatalogJobs, SpoolBatches, FiniteSetTheorems, TLAPS

-----------------------------------------------------------------------------
(***************************************************************************)
(* CatalogJobs, for any sets of jobs, requests and tokens and for any      *)
(* number of authority changes and restarts.                               *)
(***************************************************************************)
(* The inductive invariant. *)

\* Authorities only grow, and every claim of the current one has a row.
AuthoritiesPast ==
  /\ \A c \in claims : c.authority <= authority
  /\ \A c \in claims : c.authority = authority => Exists(c.job)

\* A worker was claimed, is registered, and the row of its claim, where it
\* still exists, belongs to this process.
WorkersTied ==
  \A t \in Tokens : workers[t] # NoWorker =>
     LET w == workers[t] IN
     /\ [job |-> w.job, authority |-> w.authority, token |-> t] \in claims
     /\ <<w.job, t>> \in live
     /\ Exists(w.job) /\ jobs[w.job].authority = w.authority
          => jobs[w.job].owner = process

\* A worker that has not ended its work has merged nothing.
NotMergedYet ==
  \A t \in Tokens : workers[t].pc = "work" => \A m \in catalog : m.token # t

IInv == /\ TypeOK
        /\ AuthoritiesPast
        /\ WorkersTied
        /\ NotMergedYet
        /\ OneRunningJob
        /\ OneWorkerPerRequest
        /\ MergesHaveReceipts

-----------------------------------------------------------------------------
(* Rows, and what ending one does to it. *)

LEMMA RowOrNoRow ==
  ASSUME NEW row \in Row \cup {NoRow}
  PROVE  /\ row = NoRow <=> row.status = "absent"
         /\ row # NoRow <=> row \in Row
BY DEF Row, NoRow, Statuses

LEMMA EndedRow ==
  ASSUME NEW row \in Row, NEW s \in Statuses, NEW e \in Errors
  PROVE  /\ Ended(row, s, e) \in Row
         /\ Ended(row, s, e).status = s
         /\ Ended(row, s, e).error = e
         /\ Ended(row, s, e).authority = row.authority
         /\ Ended(row, s, e).owner = row.owner
         /\ Ended(row, s, e).request = row.request
BY DEF Ended, Row

\* r replaces row without restarting, reassigning or forgetting the job.
Kept(row, r) ==
  /\ r \in Row \cup {NoRow}
  /\ r # NoRow <=> row # NoRow
  /\ row # NoRow => /\ WellFormed(row) => WellFormed(r)
                    /\ r.authority = row.authority
                    /\ r.owner = row.owner
  /\ r.status = "RUNNING" => row.status = "RUNNING"
  /\ row.status # "RUNNING" => r = row

LEMMA KeptSelf ==
  ASSUME NEW row \in Row \cup {NoRow}
  PROVE  Kept(row, row)
BY DEF Kept

LEMMA EndedKept ==
  ASSUME NEW row \in Row, row.status = "RUNNING",
         NEW s \in Statuses \ {"RUNNING"}, NEW e \in Errors,
         s = "SUCCEEDED" <=> e = "none"
  PROVE  Kept(row, Ended(row, s, e))
<1>1. /\ Ended(row, s, e) \in Row /\ Ended(row, s, e).status = s
      /\ Ended(row, s, e).authority = row.authority
      /\ Ended(row, s, e).owner = row.owner
      /\ Ended(row, s, e).error = e
  BY EndedRow
<1>2. row # NoRow /\ Ended(row, s, e) # NoRow
  BY <1>1, RowOrNoRow
<1>3. WellFormed(row) => WellFormed(Ended(row, s, e))
  BY <1>1 DEF WellFormed
<1> QED BY <1>1, <1>2, <1>3 DEF Kept

LEMMA InterruptedKept ==
  ASSUME NEW row \in Row \cup {NoRow}, NEW e \in Errors \ {"none"}
  PROVE  Kept(row, Interrupted(row, e))
<1>1. CASE row.status = "RUNNING"
  <2>1. row \in Row
    BY <1>1, RowOrNoRow
  <2> QED BY <1>1, <2>1, EndedKept DEF Interrupted, Statuses
<1>2. CASE row.status # "RUNNING"
  BY <1>2, KeptSelf DEF Interrupted
<1> QED BY <1>1, <1>2

LEMMA RecoveredKept ==
  ASSUME TypeOK
  PROVE  /\ Recovered = [j \in JobIds |-> Recovered[j]]
         /\ \A j \in JobIds : Kept(jobs[j], Recovered[j])
<1>1. ASSUME NEW j \in JobIds PROVE Kept(jobs[j], Recovered[j])
  <2>1. jobs[j] \in Row \cup {NoRow}
    BY DEF TypeOK
  <2>2. Recovered[j] \in {jobs[j], Interrupted(jobs[j], "orphan")}
    BY DEF Recovered
  <2> QED BY <2>1, <2>2, KeptSelf, InterruptedKept DEF Errors
<1> QED BY <1>1 DEF Recovered

-----------------------------------------------------------------------------
(* The invariant holds initially. *)

LEMMA InitIInv == Init => IInv
BY DEF Init, IInv, TypeOK, AuthoritiesPast, WorkersTied, NotMergedYet, OneRunningJob,
       OneWorkerPerRequest, MergesHaveReceipts, Exists, NoRow, NoWorker

-----------------------------------------------------------------------------
(* Steps that only end jobs. *)

LEMMA JobsKept ==
  ASSUME TypeOK, jobs' = [j \in JobIds |-> jobs'[j]],
         \A j \in JobIds : Kept(jobs[j], jobs'[j])
  PROVE  /\ jobs' \in [JobIds -> Row \cup {NoRow}]
         /\ \A j \in JobIds : Exists(j)' => WellFormed(jobs[j])'
         /\ \A j \in JobIds : Exists(j)' <=> Exists(j)
<1>1. \A j \in JobIds : jobs'[j] \in Row \cup {NoRow}
  BY DEF Kept
<1>2. \A j \in JobIds : Exists(j)' <=> Exists(j)
  BY DEF Kept, Exists
<1>3. \A j \in JobIds : Exists(j)' => WellFormed(jobs[j])'
  BY <1>2 DEF Kept, Exists, TypeOK, WellFormed
<1> QED BY <1>1, <1>2, <1>3

LEMMA LedgerKept ==
  ASSUME IInv, jobs' = [j \in JobIds |-> jobs'[j]],
         \A j \in JobIds : Kept(jobs[j], jobs'[j]),
         catalog' \subseteq catalog, claims' = claims, authority' = authority
  PROVE  /\ jobs' \in [JobIds -> Row \cup {NoRow}]
         /\ \A j \in JobIds : Exists(j)' => WellFormed(jobs[j])'
         /\ catalog' \subseteq Claim
         /\ AuthoritiesPast' /\ OneRunningJob' /\ OneWorkerPerRequest'
         /\ MergesHaveReceipts'
<1> USE DEF IInv
<1>1. /\ jobs' \in [JobIds -> Row \cup {NoRow}]
      /\ \A j \in JobIds : Exists(j)' => WellFormed(jobs[j])'
      /\ \A j \in JobIds : Exists(j)' <=> Exists(j)
  BY JobsKept
<1>2. catalog' \subseteq Claim
  BY DEF TypeOK
<1>3. AuthoritiesPast'
  BY <1>1 DEF AuthoritiesPast, TypeOK, Claim
<1>4. OneRunningJob'
  BY DEF OneRunningJob, Kept
<1>5. OneWorkerPerRequest'
  BY DEF OneWorkerPerRequest
<1>6. MergesHaveReceipts'
  <2> SUFFICES ASSUME NEW m \in catalog'
               PROVE  /\ m \in claims
                      /\ Exists(m.job)' /\ jobs'[m.job].authority = m.authority
                           => jobs'[m.job].status = "SUCCEEDED"
    BY DEF MergesHaveReceipts
  <2>1. m \in catalog /\ m \in claims /\ m.job \in JobIds
    BY DEF MergesHaveReceipts, TypeOK, Claim
  <2>2. ASSUME Exists(m.job)', jobs'[m.job].authority = m.authority
        PROVE  jobs'[m.job].status = "SUCCEEDED"
    <3>1. Exists(m.job) /\ jobs[m.job].authority = m.authority
      BY <1>1, <2>1, <2>2 DEF Kept, Exists
    <3>2. jobs[m.job].status = "SUCCEEDED"
      BY <2>1, <3>1 DEF MergesHaveReceipts
    <3> QED BY <2>1, <3>2 DEF Kept
  <2> QED BY <2>1, <2>2
<1> QED BY <1>1, <1>2, <1>3, <1>4, <1>5, <1>6

\* Such a step leaves the ties of the workers that stay as they are.
LEMMA TiesKept ==
  ASSUME IInv, \A j \in JobIds : Kept(jobs[j], jobs'[j]),
         catalog' \subseteq catalog, UNCHANGED <<claims, process, live, workers>>
  PROVE  WorkersTied' /\ NotMergedYet'
<1> USE DEF IInv
<1>1. WorkersTied'
  <2> SUFFICES ASSUME NEW t \in Tokens, workers[t] # NoWorker,
                      Exists(workers[t].job)',
                      jobs'[workers[t].job].authority = workers[t].authority
               PROVE  jobs'[workers[t].job].owner = process
    BY DEF WorkersTied
  <2>1. workers[t].job \in JobIds
    BY DEF TypeOK, Worker
  <2>2. Exists(workers[t].job) /\ jobs[workers[t].job].authority = workers[t].authority
    BY <2>1 DEF Kept, Exists
  <2> QED BY <2>1, <2>2 DEF WorkersTied, Kept, Exists
<1>2. NotMergedYet'
  BY DEF NotMergedYet
<1> QED BY <1>1, <1>2

LEMMA StatusIInv == IInv /\ Status => IInv'
<1> SUFFICES ASSUME IInv, Status PROVE IInv'
  OBVIOUS
<1>1. /\ jobs' = [j \in JobIds |-> jobs'[j]]
      /\ \A j \in JobIds : Kept(jobs[j], jobs'[j])
  BY RecoveredKept DEF Status, IInv
<1>2. TypeOK'
  BY <1>1, LedgerKept DEF Status, TypeOK, IInv
<1> QED BY <1>1, <1>2, LedgerKept, TiesKept DEF Status, IInv

LEMMA PollLegacyIInv == ASSUME NEW p PROVE IInv /\ PollLegacy(p) => IInv'
<1> SUFFICES ASSUME IInv, PollLegacy(p) PROVE IInv'
  OBVIOUS
<1>1. /\ jobs' = [j \in JobIds |-> jobs'[j]]
      /\ \A j \in JobIds : Kept(jobs[j], jobs'[j])
  <2>1. jobs' \in {Recovered, jobs}
    BY DEF PollLegacy
  <2> QED BY <2>1, RecoveredKept, KeptSelf DEF IInv, TypeOK
<1>2. pollers' \subseteq pollers
  BY DEF PollLegacy
<1>3. UNCHANGED <<catalog, mode, authority, process, live, workers, claims>>
  BY DEF PollLegacy
<1>4. TypeOK'
  BY <1>1, <1>2, <1>3, LedgerKept DEF TypeOK, IInv
<1> QED BY <1>1, <1>3, <1>4, LedgerKept, TiesKept DEF IInv

LEMMA ResetCatalogIInv == IInv /\ ResetCatalog => IInv'
<1> SUFFICES ASSUME IInv, ResetCatalog PROVE IInv'
  OBVIOUS
<1>1. /\ jobs' = [j \in JobIds |-> jobs'[j]]
      /\ \A j \in JobIds : Kept(jobs[j], jobs'[j])
  BY InterruptedKept DEF ResetCatalog, IInv, TypeOK, Errors
<1>2. TypeOK'
  BY <1>1, LedgerKept DEF ResetCatalog, TypeOK, IInv
<1> QED BY <1>1, <1>2, LedgerKept, TiesKept DEF ResetCatalog, IInv

-----------------------------------------------------------------------------
(* Starting a worker. *)

\* The claim is fresh: no earlier claim of this id under this authority.
LEMMA StartWorkerIInv ==
  ASSUME NEW j \in JobIds, NEW r \in Requests, NEW t \in Tokens,
         IInv, StartWorker(j, r, t), pollers' \subseteq JobIds \X Nat
  PROVE  IInv'
<1> DEFINE row == [authority |-> authority, owner |-> process, request |-> r,
                   status |-> "RUNNING", error |-> "none"]
           w   == [pc |-> "work", job |-> j, authority |-> authority, request |-> r]
           c   == [job |-> j, authority |-> authority, token |-> t]
<1> USE DEF IInv
<1>1. /\ mode = "LOCAL"
      /\ \A d \in claims : d.token # t
      /\ jobs[j] = NoRow
      /\ \A k \in JobIds : Recovered[k].status # "RUNNING"
      /\ jobs' = [Recovered EXCEPT ![j] = row]
      /\ live' = live \cup {<<j, t>>}
      /\ workers' = [workers EXCEPT ![t] = w]
      /\ claims' = claims \cup {c}
      /\ UNCHANGED <<catalog, mode, authority, process>>
  BY DEF StartWorker, Claimable, Exists, Idle
<1> HIDE DEF row, w, c
<1>2. row \in Row /\ row.status = "RUNNING" /\ WellFormed(row) /\ row # NoRow
  BY RowOrNoRow DEF row, Row, NoRow, TypeOK, WellFormed, Statuses, Errors
<1>3. w \in Worker /\ w # NoWorker /\ w.job = j /\ w.authority = authority
  BY DEF w, Worker, NoWorker, TypeOK
<1>4. c \in Claim /\ c.job = j /\ c.authority = authority /\ c.token = t
  BY DEF c, Claim, TypeOK
<1>5. /\ \A k \in JobIds : Kept(jobs[k], Recovered[k])
      /\ \A k \in JobIds : jobs'[k] = IF k = j THEN row ELSE Recovered[k]
      /\ jobs' \in [JobIds -> Row \cup {NoRow}]
  BY <1>1, <1>2, RecoveredKept DEF Kept
<1>6. \A k \in JobIds : Exists(k)' <=> (Exists(k) \/ k = j)
  BY <1>2, <1>5 DEF Exists, Kept
<1>7. \A d \in claims : ~(d.job = j /\ d.authority = authority)
  BY <1>1, <1>3, <1>6 DEF AuthoritiesPast, Exists
<1>8. TypeOK'
  <2>1. \A k \in JobIds : Exists(k)' => WellFormed(jobs'[k])
    BY <1>2, <1>5, <1>6 DEF Kept, TypeOK, Exists
  <2> QED BY <1>1, <1>3, <1>4, <1>5, <2>1 DEF TypeOK, WellFormed
<1>9. AuthoritiesPast'
  BY <1>1, <1>4, <1>6 DEF AuthoritiesPast, TypeOK, Claim
<1>10. WorkersTied'
  <2> SUFFICES ASSUME NEW u \in Tokens, workers'[u] # NoWorker
               PROVE  LET v == workers'[u] IN
                      /\ [job |-> v.job, authority |-> v.authority, token |-> u] \in claims'
                      /\ <<v.job, u>> \in live'
                      /\ jobs'[v.job] # NoRow /\ jobs'[v.job].authority = v.authority
                           => jobs'[v.job].owner = process'
    BY DEF WorkersTied, Exists
  <2>1. CASE u = t
    <3>1. workers'[u] = w
      BY <1>1, <2>1 DEF TypeOK
    <3>2. jobs'[j].owner = process
      BY <1>5 DEF row
    <3> QED BY <1>1, <1>3, <2>1, <3>1, <3>2 DEF c
  <2>2. CASE u # t
    <3>1. workers'[u] = workers[u] /\ workers[u].job \in JobIds
      BY <1>1, <2>2 DEF TypeOK, Worker
    <3>2. /\ [job |-> workers[u].job, authority |-> workers[u].authority, token |-> u]
                 \in claims
          /\ <<workers[u].job, u>> \in live
          /\ Exists(workers[u].job) /\ jobs[workers[u].job].authority = workers[u].authority
               => jobs[workers[u].job].owner = process
      BY <3>1 DEF WorkersTied
    <3>3. CASE workers[u].job = j
      \* its authority is not the current one, which the new row carries
      BY <1>1, <1>5, <1>7, <3>1, <3>2, <3>3 DEF row
    <3>4. CASE workers[u].job # j
      <4>1. jobs'[workers[u].job] # NoRow => Exists(workers[u].job)
        BY <1>6, <3>1, <3>4 DEF Exists
      <4>2. jobs'[workers[u].job] = Recovered[workers[u].job]
        BY <1>5, <3>1, <3>4
      <4>3. Exists(workers[u].job) =>
              /\ Recovered[workers[u].job].authority = jobs[workers[u].job].authority
              /\ Recovered[workers[u].job].owner = jobs[workers[u].job].owner
        BY <1>5, <3>1 DEF Kept, Exists
      <4> QED BY <1>1, <3>1, <3>2, <4>1, <4>2, <4>3
    <3> QED BY <3>3, <3>4
  <2> QED BY <2>1, <2>2
<1>11. NotMergedYet'
  BY <1>1 DEF NotMergedYet, MergesHaveReceipts, TypeOK
<1>12. OneRunningJob'
  BY <1>1, <1>5 DEF OneRunningJob
<1>13. OneWorkerPerRequest'
  BY <1>1, <1>4, <1>7 DEF OneWorkerPerRequest
<1>14. MergesHaveReceipts'
  <2> SUFFICES ASSUME NEW m \in catalog
               PROVE  /\ m \in claims'
                      /\ Exists(m.job)' /\ jobs'[m.job].authority = m.authority
                           => jobs'[m.job].status = "SUCCEEDED"
    BY <1>1 DEF MergesHaveReceipts
  <2>1. m \in claims /\ m.job \in JobIds
    BY DEF MergesHaveReceipts, TypeOK, Claim
  <2>2. CASE m.job = j
    BY <1>1, <1>5, <1>7, <2>1, <2>2 DEF row
  <2>3. CASE m.job # j
    BY <1>1, <1>5, <1>6, <2>1, <2>3 DEF MergesHaveReceipts, Kept, Exists
  <2> QED BY <2>2, <2>3
<1> QED BY <1>8, <1>9, <1>10, <1>11, <1>12, <1>13, <1>14

LEMMA StartIInv ==
  ASSUME NEW j \in JobIds, NEW r \in Requests, NEW t \in Tokens, IInv,
         StartJob(j, r, t) \/ StartLegacy(j, r, t)
  PROVE  IInv'
<1>1. StartWorker(j, r, t) /\ pollers' \subseteq JobIds \X Nat
  BY DEF StartJob, StartLegacy, IInv, TypeOK
<1> QED BY <1>1, StartWorkerIInv

-----------------------------------------------------------------------------
(* The steps of a worker. *)

\* A worker moves on, and its merge, if it makes one, is its only one.
LEMMA WorkerMoves ==
  ASSUME NEW t \in Tokens, IInv, workers[t] # NoWorker,
         NEW pc \in {"finish", "release"},
         workers' = [workers EXCEPT ![t].pc = pc],
         \A j \in JobIds : Kept(jobs[j], jobs'[j]),
         \A m \in catalog' : m \in catalog \/ m.token = t,
         UNCHANGED <<claims, process, live>>
  PROVE  /\ workers' \in [Tokens -> Worker \cup {NoWorker}]
         /\ WorkersTied' /\ NotMergedYet'
<1> USE DEF IInv
<1>1. workers[t] \in Worker
  BY DEF TypeOK
<1>2. \A u \in Tokens : u # t => workers'[u] = workers[u]
  BY DEF TypeOK
<1>3. /\ workers'[t] \in Worker
      /\ workers'[t].pc = pc
      /\ workers'[t].job = workers[t].job
      /\ workers'[t].authority = workers[t].authority
  BY <1>1 DEF TypeOK, Worker
<1>4. workers' \in [Tokens -> Worker \cup {NoWorker}]
  BY <1>2, <1>3 DEF TypeOK
<1>5. WorkersTied'
  <2> SUFFICES ASSUME NEW u \in Tokens, workers'[u] # NoWorker
               PROVE  LET v == workers'[u] IN
                      /\ [job |-> v.job, authority |-> v.authority, token |-> u] \in claims'
                      /\ <<v.job, u>> \in live'
                      /\ jobs'[v.job] # NoRow /\ jobs'[v.job].authority = v.authority
                           => jobs'[v.job].owner = process'
    BY DEF WorkersTied, Exists
  <2>1. /\ workers[u] # NoWorker
        /\ workers'[u].job = workers[u].job
        /\ workers'[u].authority = workers[u].authority
        /\ workers[u].job \in JobIds
    BY <1>1, <1>2, <1>3 DEF TypeOK, Worker
  <2>2. /\ [job |-> workers[u].job, authority |-> workers[u].authority, token |-> u]
               \in claims
        /\ <<workers[u].job, u>> \in live
        /\ Exists(workers[u].job) /\ jobs[workers[u].job].authority = workers[u].authority
             => jobs[workers[u].job].owner = process
    BY <2>1 DEF WorkersTied
  <2>3. jobs'[workers[u].job] # NoRow =>
          /\ Exists(workers[u].job)
          /\ jobs'[workers[u].job].authority = jobs[workers[u].job].authority
          /\ jobs'[workers[u].job].owner = jobs[workers[u].job].owner
    BY <2>1 DEF Kept, Exists
  <2> QED BY <2>1, <2>2, <2>3
<1>6. NotMergedYet'
  <2> SUFFICES ASSUME NEW u \in Tokens, workers'[u].pc = "work",
                      NEW m \in catalog', m.token = u
               PROVE  FALSE
    BY DEF NotMergedYet
  <2> QED BY <1>2, <1>3 DEF NotMergedYet
<1> QED BY <1>4, <1>5, <1>6

LEMMA GiveUpIInv == ASSUME NEW t \in Tokens, IInv, GiveUp(t) PROVE IInv'
<1>1. /\ workers[t] # NoWorker
      /\ workers' = [workers EXCEPT ![t].pc = "finish"]
      /\ UNCHANGED <<jobs, catalog, mode, authority, process, live, pollers, claims>>
  BY DEF GiveUp, NoWorker
<1>2. /\ jobs' = [j \in JobIds |-> jobs'[j]]
      /\ \A j \in JobIds : Kept(jobs[j], jobs'[j])
  BY <1>1, KeptSelf DEF IInv, TypeOK
<1>3. /\ workers' \in [Tokens -> Worker \cup {NoWorker}]
      /\ WorkersTied' /\ NotMergedYet'
  BY <1>1, <1>2, WorkerMoves
<1>4. TypeOK'
  BY <1>1, <1>2, <1>3, LedgerKept DEF IInv, TypeOK
<1> QED BY <1>1, <1>2, <1>3, <1>4, LedgerKept DEF IInv

LEMMA FinishFailureIInv == ASSUME NEW t \in Tokens, IInv, FinishFailure(t) PROVE IInv'
<1>1. /\ workers[t] # NoWorker
      /\ workers' = [workers EXCEPT ![t].pc = "release"]
      /\ UNCHANGED <<catalog, mode, authority, process, live, pollers, claims>>
  BY DEF FinishFailure, NoWorker
<1>2. /\ jobs' = [j \in JobIds |-> jobs'[j]]
      /\ \A j \in JobIds : Kept(jobs[j], jobs'[j])
  <2>1. CASE jobs' = jobs
    BY <2>1, KeptSelf DEF IInv, TypeOK
  <2>2. CASE OwnRunningRow(t) /\ jobs' = [jobs EXCEPT ![workers[t].job] =
                                            Failed(jobs[workers[t].job])]
    <3>1. jobs \in [JobIds -> Row \cup {NoRow}] /\ workers[t].job \in JobIds
      BY <1>1 DEF IInv, TypeOK, Worker
    <3>2. jobs[workers[t].job].status = "RUNNING" /\ jobs[workers[t].job] \in Row
      BY <2>2, <3>1, RowOrNoRow DEF OwnRunningRow
    <3>3. Kept(jobs[workers[t].job], Failed(jobs[workers[t].job]))
      BY <3>2, EndedKept DEF Failed, Statuses, Errors
    <3> QED BY <2>2, <3>1, <3>3, KeptSelf
  <2> QED BY <2>1, <2>2 DEF FinishFailure
<1>3. /\ workers' \in [Tokens -> Worker \cup {NoWorker}]
      /\ WorkersTied' /\ NotMergedYet'
  BY <1>1, <1>2, WorkerMoves
<1>4. TypeOK'
  BY <1>1, <1>2, <1>3, LedgerKept DEF IInv, TypeOK
<1> QED BY <1>1, <1>2, <1>3, <1>4, LedgerKept DEF IInv

\* The merge of t, and the row it may complete.
LEMMA ImportRow ==
  ASSUME NEW t \in Tokens, IInv, Import(t)
  PROVE  LET j == workers[t].job IN
         /\ workers[t] \in Worker /\ j \in JobIds
         /\ jobs[j] \in Row /\ jobs[j].status = "RUNNING"
         /\ jobs[j].authority = workers[t].authority
         /\ jobs' = [jobs EXCEPT ![j] = Ended(jobs[j], "SUCCEEDED", "none")]
         /\ jobs' \in [JobIds -> Row \cup {NoRow}]
         /\ \A k \in JobIds : Kept(jobs[k], jobs'[k])
<1>1. workers[t] \in Worker
  BY DEF Import, IInv, TypeOK, NoWorker
<1>2. workers[t].job \in JobIds
  BY <1>1 DEF Worker
<1>3. /\ jobs[workers[t].job].status = "RUNNING"
      /\ jobs[workers[t].job].authority = workers[t].authority
      /\ jobs' = [jobs EXCEPT ![workers[t].job] =
                    Ended(jobs[workers[t].job], "SUCCEEDED", "none")]
  BY DEF Import, MayImport
<1>4. jobs[workers[t].job] \in Row
  BY <1>2, <1>3, RowOrNoRow DEF IInv, TypeOK
<1>5. Kept(jobs[workers[t].job], Ended(jobs[workers[t].job], "SUCCEEDED", "none"))
  BY <1>3, <1>4, EndedKept DEF Statuses, Errors
<1>6. \A k \in JobIds : Kept(jobs[k], jobs'[k])
  BY <1>2, <1>3, <1>5, KeptSelf DEF IInv, TypeOK
<1>7. jobs' \in [JobIds -> Row \cup {NoRow}]
  BY <1>2, <1>3, <1>6 DEF Kept, IInv, TypeOK
<1> QED BY <1>1, <1>2, <1>3, <1>4, <1>6, <1>7

LEMMA ImportIInv == ASSUME NEW t \in Tokens, IInv, Import(t) PROVE IInv'
<1> DEFINE j == workers[t].job
           m == [job |-> workers[t].job, authority |-> workers[t].authority, token |-> t]
<1> USE DEF IInv
<1>1. /\ workers[t] # NoWorker
      /\ workers' = [workers EXCEPT ![t].pc = "finish"]
      /\ catalog' = catalog \cup {m}
      /\ UNCHANGED <<mode, authority, process, live, pollers, claims>>
  BY DEF Import, NoWorker
<1>2. /\ workers[t] \in Worker /\ j \in JobIds
      /\ jobs[j] \in Row /\ jobs[j].authority = workers[t].authority
      /\ jobs' = [jobs EXCEPT ![j] = Ended(jobs[j], "SUCCEEDED", "none")]
      /\ jobs' \in [JobIds -> Row \cup {NoRow}]
      /\ \A k \in JobIds : Kept(jobs[k], jobs'[k])
  BY ImportRow
<1>3. m \in claims /\ m \in Claim /\ m.job = j /\ m.token = t
      /\ m.authority = workers[t].authority
  BY <1>1 DEF WorkersTied, TypeOK
<1> HIDE DEF j, m
<1>4. /\ jobs' = [k \in JobIds |-> jobs'[k]]
      /\ \A n \in catalog' : n \in catalog \/ n.token = t
  BY <1>1, <1>2, <1>3
<1>5. /\ workers' \in [Tokens -> Worker \cup {NoWorker}]
      /\ WorkersTied' /\ NotMergedYet'
  BY <1>1, <1>2, <1>4, WorkerMoves
<1>6. TypeOK'
  BY <1>1, <1>2, <1>3, <1>4, <1>5, JobsKept DEF TypeOK
<1>7. AuthoritiesPast' /\ OneWorkerPerRequest'
  BY <1>1, <1>2, <1>4, JobsKept DEF AuthoritiesPast, OneWorkerPerRequest, TypeOK, Claim
<1>8. OneRunningJob'
  BY <1>2 DEF OneRunningJob, Kept
<1>9. MergesHaveReceipts'
  <2> SUFFICES ASSUME NEW n \in catalog', jobs'[n.job] # NoRow,
                      jobs'[n.job].authority = n.authority
               PROVE  jobs'[n.job].status = "SUCCEEDED"
    BY <1>1, <1>3 DEF MergesHaveReceipts, Exists
  <2>1. CASE n.job = j
    BY <1>2, <2>1, EndedRow DEF TypeOK, Statuses, Errors
  <2>2. CASE n.job # j
    BY <1>1, <1>2, <1>3, <2>2 DEF MergesHaveReceipts, TypeOK, Claim, Exists
  <2> QED BY <2>1, <2>2
<1> QED BY <1>5, <1>6, <1>7, <1>8, <1>9

LEMMA ReleaseIInv == ASSUME NEW t \in Tokens, IInv, Release(t) PROVE IInv'
<1> USE DEF IInv
<1>1. /\ live' = live \ {<<workers[t].job, t>>}
      /\ workers' = [workers EXCEPT ![t] = NoWorker]
      /\ UNCHANGED <<jobs, catalog, mode, authority, process, pollers, claims>>
  BY DEF Release, Registration
<1>2. TypeOK'
  BY <1>1 DEF TypeOK, Exists
<1>3. \A u \in Tokens : workers'[u] # NoWorker => u # t /\ workers'[u] = workers[u]
  BY <1>1 DEF TypeOK
<1>4. WorkersTied'
  BY <1>1, <1>3 DEF WorkersTied, Exists
<1>5. NotMergedYet'
  BY <1>1, <1>3 DEF NotMergedYet, NoWorker
<1> QED BY <1>1, <1>2, <1>4, <1>5 DEF AuthoritiesPast, OneRunningJob,
           OneWorkerPerRequest, MergesHaveReceipts, Exists

-----------------------------------------------------------------------------
(* The library around the jobs. *)

\* A new authority has no claims yet.
LEMMA ChangeTargetIInv == IInv /\ ChangeTarget => IInv'
BY DEF IInv, ChangeTarget, NextAuthority, TypeOK, Claim, AuthoritiesPast, WorkersTied,
       NotMergedYet, OneRunningJob, OneWorkerPerRequest, MergesHaveReceipts, Exists,
       WellFormed

\* A ledger that starts over is tied to nothing.
LEMMA LedgerForgotten ==
  ASSUME IInv, jobs' = [j \in JobIds |-> NoRow], authority' = authority + 1,
         mode' \in {"LOCAL", "CLIENT"}, catalog' \subseteq catalog,
         UNCHANGED <<process, live, workers, pollers, claims>>
  PROVE  IInv'
<1> USE DEF IInv
<1>1. \A j \in JobIds : jobs'[j] = NoRow
  OBVIOUS
<1>2. TypeOK'
  BY <1>1 DEF TypeOK, Exists
<1>3. AuthoritiesPast'
  BY DEF AuthoritiesPast, TypeOK, Claim
<1>4. WorkersTied'
  <2>1. \A t \in Tokens : workers[t] # NoWorker => workers[t].job \in JobIds
    BY DEF TypeOK, Worker
  <2> QED BY <1>1, <2>1 DEF WorkersTied, Exists
<1>5. NotMergedYet' /\ OneWorkerPerRequest'
  BY DEF NotMergedYet, OneWorkerPerRequest
<1>6. OneRunningJob'
  BY <1>1 DEF OneRunningJob, NoRow
<1>7. MergesHaveReceipts'
  BY <1>1 DEF MergesHaveReceipts, Exists, TypeOK, Claim
<1> QED BY <1>2, <1>3, <1>4, <1>5, <1>6, <1>7

LEMMA RestoreBackupIInv == IInv /\ RestoreBackup => IInv'
BY LedgerForgotten DEF RestoreBackup, NextAuthority, IInv, TypeOK

LEMMA ResetAppDataIInv == IInv /\ ResetAppData => IInv'
BY LedgerForgotten DEF ResetAppData, NextAuthority, IInv, TypeOK

LEMMA RestartIInv == IInv /\ Restart => IInv'
BY DEF IInv, Restart, TypeOK, AuthoritiesPast, WorkersTied, NotMergedYet,
       OneRunningJob, OneWorkerPerRequest, MergesHaveReceipts, Exists, NoWorker,
       WellFormed

-----------------------------------------------------------------------------
(* The theorems. *)

LEMMA NextIInv == IInv /\ [Next]_vars => IInv'
<1> SUFFICES ASSUME IInv, [Next]_vars PROVE IInv'
  OBVIOUS
<1>1. ASSUME NEW j \in JobIds, NEW r \in Requests, NEW t \in Tokens,
             StartJob(j, r, t) \/ StartLegacy(j, r, t)
      PROVE  IInv'
  BY <1>1, StartIInv
<1>2. CASE Status
  BY <1>2, StatusIInv
<1>3. ASSUME NEW p \in pollers, PollLegacy(p) PROVE IInv'
  BY <1>3, PollLegacyIInv
<1>4. ASSUME NEW t \in Tokens, WorkerStep(t) PROVE IInv'
  BY <1>4, ImportIInv, GiveUpIInv, FinishFailureIInv, ReleaseIInv DEF WorkerStep
<1>5. CASE ChangeTarget \/ ResetCatalog \/ RestoreBackup \/ ResetAppData \/ Restart
  BY <1>5, ChangeTargetIInv, ResetCatalogIInv, RestoreBackupIInv, ResetAppDataIInv,
     RestartIInv
<1>6. CASE UNCHANGED vars
  BY <1>6 DEF vars, IInv, TypeOK, AuthoritiesPast, WorkersTied, NotMergedYet,
              OneRunningJob, OneWorkerPerRequest, MergesHaveReceipts, Exists, WellFormed
<1> QED BY <1>1, <1>2, <1>3, <1>4, <1>5, <1>6 DEF Next

\* The inductive invariant holds in every reachable state.
THEOREM Invariance == Spec => []IInv
BY InitIInv, NextIInv, PTL DEF Spec

\* Every variable keeps its type, and a receipt gives a reason exactly when the
\* job did not succeed (complete_job).
THEOREM TypeCorrect == Spec => []TypeOK
BY Invariance, PTL DEF IInv

\* At most one refresh is RUNNING in a library (claim_catalog_refresh_job).
THEOREM OneRunning == Spec => []OneRunningJob
BY Invariance, PTL DEF IInv

\* A retried request never starts a second worker (claim_catalog_refresh_job).
THEOREM OneWorker == Spec => []OneWorkerPerRequest
BY Invariance, PTL DEF IInv

\* No receipt denies a merge that is in the catalog
\* (import_source_vendor_catalog_with_job_receipt).
THEOREM HonestReceipts == Spec => []MergesHaveReceipts
BY Invariance, PTL DEF IInv

-----------------------------------------------------------------------------
(* Recovery never takes a job from its worker. *)

\* The ledger is sound for any number of jobs, requests, workers and restarts.
THEOREM LedgerSound == Spec => []LedgerIsSound
  BY TypeCorrect, OneRunning, OneWorker, HonestReceipts, PTL DEF LedgerIsSound

LEMMA LiveRowKept ==
  ASSUME IInv, NEW j \in JobIds, NEW t \in Tokens, Exists(j),
         workers[t] # NoWorker, workers[t].job = j,
         workers[t].authority = jobs[j].authority
  PROVE  Recovered[j] = jobs[j]
<1>1. jobs[j].owner = process /\ <<j, t>> \in live
  BY DEF IInv, WorkersTied
<1>2. j \in LiveIds
  BY <1>1 DEF LiveIds
<1> QED BY <1>1, <1>2 DEF Recovered, Orphaned

LEMMA WorkerKeepsStep ==
  ASSUME IInv, Next, NEW j \in JobIds, NEW t \in Tokens,
         jobs[j].status = "RUNNING", workers[t] # NoWorker, workers[t].job = j,
         workers[t].authority = jobs[j].authority, process' = process
  PROVE  jobs'[j] # Ended(jobs[j], "INTERRUPTED", "orphan")
<1> DEFINE lost == Ended(jobs[j], "INTERRUPTED", "orphan")
<1>1. jobs[j] \in Row /\ Exists(j) /\ jobs \in [JobIds -> Row \cup {NoRow}]
  BY RowOrNoRow DEF IInv, TypeOK, Exists
<1>2. lost.status = "INTERRUPTED" /\ lost.error = "orphan" /\ lost # NoRow
  BY <1>1, EndedRow, RowOrNoRow DEF Statuses, Errors
<1>3. Recovered[j] = jobs[j]
  BY <1>1, LiveRowKept
<1>4. ASSUME NEW k \in JobIds, NEW r \in Requests, NEW u \in Tokens,
             StartJob(k, r, u) \/ StartLegacy(k, r, u)
      PROVE  jobs'[j] # lost
  <2>1. k # j
    BY <1>1, <1>4 DEF StartJob, StartLegacy, StartWorker, Claimable
  <2>2. jobs'[j] = Recovered[j]
    BY <1>4, <2>1 DEF StartJob, StartLegacy, StartWorker, Recovered
  <2> QED BY <1>2, <1>3, <2>2
<1>5. CASE Status
  BY <1>2, <1>3, <1>5 DEF Status
<1>6. ASSUME NEW p \in pollers, PollLegacy(p) PROVE jobs'[j] # lost
  BY <1>2, <1>3, <1>6 DEF PollLegacy
<1>7. ASSUME NEW u \in Tokens, WorkerStep(u) PROVE jobs'[j] # lost
  <2>1. jobs'[j] \in {jobs[j], Ended(jobs[j], "SUCCEEDED", "none"), Failed(jobs[j])}
    BY <1>1, <1>7 DEF WorkerStep, Import, GiveUp, FinishFailure, Release
  <2>2. /\ Ended(jobs[j], "SUCCEEDED", "none").status = "SUCCEEDED"
        /\ Failed(jobs[j]).status = "FAILED"
    BY <1>1, EndedRow DEF Failed, Statuses, Errors
  <2> QED BY <1>2, <2>1, <2>2
<1>8. CASE ChangeTarget \/ Restart
  BY <1>2, <1>8 DEF ChangeTarget, Restart
<1>9. CASE ResetCatalog
  <2>1. jobs'[j] = Ended(jobs[j], "INTERRUPTED", "reset")
    BY <1>9 DEF ResetCatalog, Interrupted
  <2> QED BY <1>1, <1>2, <2>1, EndedRow DEF Statuses, Errors
<1>10. CASE RestoreBackup \/ ResetAppData
  BY <1>2, <1>10 DEF RestoreBackup, ResetAppData
<1> QED BY <1>4, <1>5, <1>6, <1>7, <1>8, <1>9, <1>10 DEF Next

\* recover_jobs never interrupts a job whose worker is still registered.
THEOREM WorkerKeeps == Spec => WorkerKeepsItsJob
<1>1. IInv /\ [Next]_vars =>
        [\A j \in JobIds, t \in Tokens :
           /\ jobs[j].status = "RUNNING"
           /\ workers[t] # NoWorker
           /\ workers[t].job = j
           /\ workers[t].authority = jobs[j].authority
           /\ process' = process
           => jobs'[j] # Ended(jobs[j], "INTERRUPTED", "orphan")]_vars
  BY WorkerKeepsStep
<1> QED BY <1>1, Invariance, PTL DEF Spec, WorkerKeepsItsJob

-----------------------------------------------------------------------------
(* The refinement. *)

Outcome == [j \in JobIds |-> jobs[j].status]

LEMMA OutcomeKept ==
  ASSUME IInv, \A j \in JobIds : Kept(jobs[j], jobs'[j]),
         \A j \in JobIds : jobs'[j] # jobs[j] => jobs'[j].status \in {"FAILED", "INTERRUPTED"},
         catalog' = catalog
  PROVE  Promise!Abandon
<1>1. \A j \in JobIds : jobs'[j].status \in Promise!Outcomes
  BY DEF Kept, Row, NoRow, Statuses, Promise!Outcomes
<1>2. \A j \in JobIds : jobs'[j] # jobs[j] => jobs[j].status = "RUNNING"
  BY DEF Kept
<1> QED BY <1>1, <1>2 DEF Promise!Abandon

LEMMA RecoveredOutcome ==
  ASSUME IInv, NEW j \in JobIds
  PROVE  Recovered[j] # jobs[j] => Recovered[j].status = "INTERRUPTED"
<1>1. Recovered[j] # jobs[j] =>
        /\ jobs[j].status = "RUNNING"
        /\ Recovered[j] = Ended(jobs[j], "INTERRUPTED", "orphan")
  BY DEF Recovered, Interrupted
<1> QED BY <1>1 DEF Ended

LEMMA InitPromise == Init => Promise!Init
BY DEF Init, Promise!Init, NoRow

LEMMA NextPromise ==
  ASSUME IInv, [Next]_vars
  PROVE  [Promise!Next]_<<Outcome, catalog>>
<1> USE DEF Promise!Next
<1>1. jobs \in [JobIds -> Row \cup {NoRow}]
  BY DEF IInv, TypeOK
<1>2. ASSUME NEW j \in JobIds, NEW r \in Requests, NEW t \in Tokens,
             StartJob(j, r, t) \/ StartLegacy(j, r, t)
      PROVE  Promise!Begin(j)
  <2>1. /\ jobs[j] = NoRow
        /\ \A k \in JobIds : Recovered[k].status # "RUNNING"
        /\ jobs'[j].status = "RUNNING"
        /\ \A k \in JobIds : k # j => jobs'[k] = Recovered[k]
        /\ catalog' = catalog
    <3>1. /\ jobs' = [Recovered EXCEPT ![j] =
                [authority |-> authority, owner |-> process, request |-> r,
                 status |-> "RUNNING", error |-> "none"]]
          /\ jobs[j] = NoRow
          /\ \A k \in JobIds : Recovered[k].status # "RUNNING"
          /\ catalog' = catalog
      BY <1>2 DEF StartJob, StartLegacy, StartWorker, Claimable, Exists, Idle
    <3>2. Recovered = [k \in JobIds |-> Recovered[k]]
      BY RecoveredKept DEF IInv
    <3> QED BY <3>1, <3>2
  <2>2. \A k \in JobIds \ {j} :
          jobs'[k].status = IF jobs[k].status = "RUNNING"
                            THEN "INTERRUPTED" ELSE jobs[k].status
    BY <2>1, RecoveredOutcome, RecoveredKept DEF Kept, IInv
  <2>3. \A k \in JobIds : jobs'[k].status \in Promise!Outcomes
    BY <1>1, <2>1, <2>2 DEF Row, NoRow, Statuses, Promise!Outcomes
  <2> QED BY <2>1, <2>2, <2>3 DEF Promise!Begin, NoRow
<1>3. CASE Status
  BY <1>3, OutcomeKept, RecoveredKept, RecoveredOutcome DEF Status, IInv
<1>4. ASSUME NEW p \in pollers, PollLegacy(p) PROVE Promise!Abandon
  <2>1. jobs' \in {Recovered, jobs} /\ catalog' = catalog
    BY <1>4 DEF PollLegacy
  <2> QED BY <1>1, <2>1, OutcomeKept, RecoveredKept, RecoveredOutcome, KeptSelf DEF IInv
<1>5. ASSUME NEW t \in Tokens, Import(t) PROVE \E j \in JobIds : Promise!Commit(j)
  <2> DEFINE m == [job |-> workers[t].job, authority |-> workers[t].authority, token |-> t]
  <2>1. m \notin catalog /\ catalog' = catalog \cup {m} /\ m \in Claim
    <3>1. /\ workers[t].pc = "work" /\ workers[t] # NoWorker
          /\ catalog' = catalog \cup {m}
      BY <1>5 DEF Import, NoWorker
    <3>2. m \in claims /\ m.token = t
      BY <3>1 DEF IInv, WorkersTied
    <3> QED BY <3>1, <3>2 DEF IInv, NotMergedYet, TypeOK
  <2>2. /\ workers[t].job \in JobIds
        /\ jobs[workers[t].job] \in Row
        /\ jobs[workers[t].job].status = "RUNNING"
        /\ jobs' = [jobs EXCEPT ![workers[t].job] =
                      Ended(jobs[workers[t].job], "SUCCEEDED", "none")]
    BY <1>5, ImportRow
  <2>3. Ended(jobs[workers[t].job], "SUCCEEDED", "none").status = "SUCCEEDED"
    BY DEF Ended
  <2>4. Outcome' = [Outcome EXCEPT ![workers[t].job] = "SUCCEEDED"]
    BY <1>1, <2>2, <2>3 DEF Outcome
  <2> QED BY <2>1, <2>2, <2>4 DEF Promise!Commit, Outcome
<1>6. ASSUME NEW t \in Tokens, FinishFailure(t)
      PROVE  Promise!Abandon
  <2>1. CASE jobs' = jobs
    BY <1>1, <1>6, <2>1, OutcomeKept, KeptSelf DEF FinishFailure
  <2>2. CASE OwnRunningRow(t) /\ jobs' = [jobs EXCEPT ![workers[t].job] =
                                            Failed(jobs[workers[t].job])]
    <3>1. workers[t].job \in JobIds
      BY <1>6 DEF FinishFailure, IInv, TypeOK, Worker, NoWorker
    <3>2. jobs[workers[t].job].status = "RUNNING" /\ jobs[workers[t].job] \in Row
      BY <1>1, <2>2, <3>1, RowOrNoRow DEF OwnRunningRow
    <3>3. /\ Kept(jobs[workers[t].job], Failed(jobs[workers[t].job]))
          /\ Failed(jobs[workers[t].job]).status = "FAILED"
      BY <3>2, EndedKept, EndedRow DEF Failed, Statuses, Errors
    <3> QED BY <1>1, <1>6, <2>2, <3>1, <3>3, KeptSelf, OutcomeKept DEF FinishFailure
  <2> QED BY <1>6, <2>1, <2>2 DEF FinishFailure
<1>7. CASE ResetCatalog
  <2>1. \A j \in JobIds : jobs'[j].status =
          IF jobs[j].status = "RUNNING" THEN "INTERRUPTED" ELSE jobs[j].status
    BY <1>7 DEF ResetCatalog, Interrupted, Ended
  <2> QED BY <1>7, <2>1 DEF Promise!ResetCatalog, ResetCatalog
<1>8. CASE RestoreBackup \/ ResetAppData
  BY <1>8 DEF Promise!ReplaceLibrary, RestoreBackup, ResetAppData, NoRow
<1>9. ASSUME \/ \E t \in Tokens : GiveUp(t) \/ Release(t)
             \/ ChangeTarget \/ Restart \/ UNCHANGED vars
      PROVE  UNCHANGED <<Outcome, catalog>>
  BY <1>9 DEF GiveUp, Release, ChangeTarget, Restart, vars, Outcome
<1>10. CASE Next
  <2>1. CASE \E t \in Tokens : WorkerStep(t)
    BY <1>5, <1>6, <1>9, <2>1 DEF WorkerStep
  <2> QED BY <1>2, <1>3, <1>4, <1>7, <1>8, <1>9, <1>10, <2>1 DEF Next
<1> QED BY <1>9, <1>10

\* The worker, ledger and registry together implement the one-shot promise.
THEOREM Refinement == Spec => KeepsPromise
<1>1. IInv /\ [Next]_vars => [Promise!Next]_<<Outcome, catalog>>
  BY NextPromise
<1> QED BY <1>1, InitPromise, Invariance, PTL DEF Spec, KeepsPromise, Promise!Spec, Outcome

-----------------------------------------------------------------------------
(***************************************************************************)
(* SpoolBatches: for any number of batches and libraries, of requests,     *)
(* restores, resets and changes of target, a batch is made at most once,   *)
(* and what its form says of it is true.                                   *)
(***************************************************************************)

USE BatchesAssumption

-----------------------------------------------------------------------------
\* The inductive invariant.

Wires == [batch : Batches, key : Keys, at : {"desktop", "host", "gate"}, era : Nat,
          lib : 0..MaxLibs, live : BOOLEAN]

Typed ==
  /\ lib \in 1..newest /\ conf \in 1..newest /\ newest \in 1..MaxLibs
  /\ gen \in 0..MaxGen /\ journal \in [Batches -> 0..MaxLibs]
  /\ era \in Nat /\ paired \in Nat /\ paired <= era /\ remote \in BOOLEAN
  /\ mem \in [Keys -> Records] /\ store \in [Keys -> Records]
  /\ wire \subseteq Wires
  /\ made \in [Batches -> Nat] /\ told \subseteq Batches
  /\ restores \in Nat /\ resets \in Nat

\* A controller's record: what it says in memory and in storage, and when.
Recorded ==
  \A k \in Keys :
    /\ mem[k].batch = store[k].batch
    /\ mem[k].batch = "none" <=> mem[k].status = "none"
    /\ store[k].batch = "none" <=> store[k].status = "none"
    /\ mem[k].status # "pending" /\ store[k].status \notin {"saving", "uncertain"}
    /\ ~store[k].first /\ (mem[k].first => mem[k].status = "saving")
    /\ store[k].status \in {"complete", "rejected"} => mem[k].status = store[k].status

\* A form waits for exactly one request.
Waiting ==
  /\ \A r \in wire : r.live => mem[r.key].status = "saving" /\ mem[r.key].batch = r.batch
  /\ \A r, s \in wire : r.live /\ s.live /\ r.key = s.key => r = s
  /\ \A k \in Keys : mem[k].status = "saving" => \E r \in wire : r.live /\ r.key = k

\* A batch belongs to one form, of a library that was there.
OneForm ==
  /\ \A r, s \in wire : r.batch = s.batch => r.key = s.key
  /\ \A r \in wire, k \in Keys : mem[k].batch = r.batch => k = r.key
  /\ \A k, h \in Keys : mem[k].batch = mem[h].batch /\ mem[k].status # "none" => k = h
  /\ \A r \in wire : r.key.lib <= newest
  /\ \A k \in Keys : mem[k].status # "none" => k.lib <= newest

\* Where a request got to, it is still in the library it is meant for, or it is refused.
Meant ==
  /\ ~remote => conf = lib
  /\ \A r \in wire :
       /\ r.era <= era
       /\ r.at = "host" /\ r.era = era => r.key.lib = lib
       /\ r.at = "gate" => r.lib = r.key.lib

\* The receipts of the library, and what a request may still do.
Receipts ==
  /\ \A b \in Batches : Known(b) => made[b] > 0
  /\ resets = 0 => \A b \in Batches : made[b] > 0 => Known(b)
  /\ restores = 0 =>
       /\ \A r \in wire : made[r.batch] > 0 /\ r.key.lib = lib => Known(r.batch)
       /\ \A k \in Keys : mem[k].status # "none" /\ k.lib = lib /\ made[mem[k].batch] > 0 =>
            Known(mem[k].batch)

\* What the forms say, and what is kept of it.
Answered ==
  /\ \A b \in told : made[b] > 0
  /\ \A k \in Keys : mem[k].status = "complete" => mem[k].batch \in told
  /\ \A r \in wire : r.batch \in told \/ store[r.key].batch = r.batch
  /\ NothingForgotten
  /\ \A k \in Keys : mem[k].first =>
       made[mem[k].batch] = 0 /\ \A r \in wire : r.batch = mem[k].batch => r.live
  /\ \A k \in Keys : mem[k].status = "rejected" =>
       made[mem[k].batch] = 0 /\ \A r \in wire : r.batch # mem[k].batch

BatchInv == /\ Typed /\ Recorded /\ Waiting /\ OneForm /\ Meant /\ Receipts /\ Answered
            /\ MadeOnce

-----------------------------------------------------------------------------
\* The record of one form changes.

MemBecomes(k, b, st, f) ==
  /\ mem' \in [Keys -> Records]
  /\ mem'[k].batch = b /\ mem'[k].status = st /\ mem'[k].first = f
  /\ \A h \in Keys : h # k => mem'[h] = mem[h]

StoreBecomes(k, b, st) ==
  /\ store' \in [Keys -> Records]
  /\ store'[k].batch = b /\ store'[k].status = st /\ store'[k].first = FALSE
  /\ \A h \in Keys : h # k => store'[h] = store[h]

LEMMA NoRecordIs ==
  /\ NoRecord \in Records /\ NoRecord.batch = "none" /\ NoRecord.status = "none"
  /\ NoRecord.first = FALSE
  BY DEF NoRecord, Records, FormStatuses

LEMMA MemIsSet ==
  ASSUME mem \in [Keys -> Records], NEW k \in Keys, NEW b \in Batches \cup {"none"},
         NEW st \in FormStatuses, NEW f \in BOOLEAN,
         mem' = [mem EXCEPT ![k] = [batch |-> b, status |-> st, first |-> f]]
  PROVE  MemBecomes(k, b, st, f)
  BY DEF MemBecomes, Records

LEMMA StoreIsSet ==
  ASSUME store \in [Keys -> Records], NEW k \in Keys, NEW b \in Batches \cup {"none"},
         NEW st \in FormStatuses,
         store' = [store EXCEPT ![k] = [batch |-> b, status |-> st, first |-> FALSE]]
  PROVE  StoreBecomes(k, b, st)
  BY DEF StoreBecomes, Records

LEMMA MemTurns ==
  ASSUME mem \in [Keys -> Records], NEW k \in Keys, NEW st \in FormStatuses,
         mem' = [mem EXCEPT ![k].status = st, ![k].first = FALSE]
  PROVE  MemBecomes(k, mem[k].batch, st, FALSE)
  BY DEF MemBecomes, Records

\* A request that was answered is gone; its form, if it still waits, knows the answer.
LEMMA AnswersBecome ==
  ASSUME Typed, Waiting, NEW r \in wire, NEW code, Answers(r, code)
  PROVE  /\ wire' = wire \ {r}
         /\ \/ ~r.live /\ mem' = mem /\ store' = store /\ told' = told
            \/ /\ r.live
               /\ \E st \in {"complete", "rejected", "uncertain"} :
                    /\ st = "complete" <=> code = "receipt"
                    /\ st = "rejected" => mem[r.key].first
                    /\ MemBecomes(r.key, r.batch, st, FALSE)
                    /\ \/ store' = store
                       \/ StoreBecomes(r.key, r.batch, IF st = "uncertain" THEN "pending" ELSE st)
                    /\ told' = IF st = "complete" THEN told \cup {r.batch} ELSE told
<1>1. wire' = wire \ {r}
  BY DEF Answers
<1>2. CASE ~r.live
  BY <1>1, <1>2 DEF Answers
<1>3. CASE r.live
  <2> DEFINE k == r.key
             st == StatusAfter(k, code)
             kept == IF st = "uncertain" THEN "pending" ELSE st
  <2>1. k \in Keys /\ r.batch \in Batches /\ mem[k].batch = r.batch
    BY <1>3 DEF Typed, Wires, Waiting
  <2>2. /\ mem' = [mem EXCEPT ![k].status = st, ![k].first = FALSE]
        /\ \/ store' = [store EXCEPT ![k] = [batch |-> r.batch, first |-> FALSE, status |-> kept]]
           \/ store' = store
        /\ told' = IF st = "complete" THEN told \cup {r.batch} ELSE told
    BY <1>3 DEF Answers
  <2>3. /\ st \in {"complete", "rejected", "uncertain"}
        /\ st = "complete" <=> code = "receipt"
        /\ st = "rejected" => mem[k].first
    <3>1. CASE code = "receipt"
      BY <3>1 DEF StatusAfter
    <3>2. CASE code # "receipt" /\ Rejects(k, code)
      BY <3>2 DEF StatusAfter, Rejects
    <3>3. CASE code # "receipt" /\ ~Rejects(k, code)
      BY <3>3 DEF StatusAfter
    <3> QED
      BY <3>1, <3>2, <3>3
  <2>4. st \in FormStatuses /\ kept \in FormStatuses
    BY <2>3 DEF FormStatuses
  <2>5. mem \in [Keys -> Records] /\ store \in [Keys -> Records]
    BY DEF Typed
  <2> HIDE DEF k, st
  <2>6. MemBecomes(k, r.batch, st, FALSE)
    BY <2>1, <2>2, <2>4, <2>5, MemTurns
  <2>7. store' = store \/ StoreBecomes(k, r.batch, kept)
    <3> HIDE DEF kept
    <3>1. CASE store' = [store EXCEPT ![k] = [batch |-> r.batch, first |-> FALSE, status |-> kept]]
      <4>1. store' = [store EXCEPT ![k] = [batch |-> r.batch, status |-> kept, first |-> FALSE]]
        BY <3>1
      <4> QED
        BY <2>1, <2>4, <2>5, <4>1, StoreIsSet
    <3> QED
      BY <2>2, <3>1
  <2> QED
    BY <1>1, <1>3, <2>2, <2>3, <2>6, <2>7 DEF k
<1> QED
  BY <1>2, <1>3

LEMMA Given ==
  ASSUME BatchInv
  PROVE  /\ Typed /\ Recorded /\ Waiting /\ OneForm /\ Meant /\ Receipts /\ Answered /\ MadeOnce
         /\ mem \in [Keys -> Records] /\ store \in [Keys -> Records] /\ wire \subseteq Wires
  BY DEF BatchInv, Typed

\* The requests on the wire have a form and a batch.
LEMMA WiresAre ==
  ASSUME NEW r \in Wires
  PROVE  /\ r.batch \in Batches /\ r.key \in Keys /\ r.batch # "none" /\ r.era \in Nat
         /\ r.live \in BOOLEAN /\ r.lib \in 0..MaxLibs /\ r.at \in {"desktop", "host", "gate"}
  BY DEF Wires

-----------------------------------------------------------------------------
\* A request is answered, after the library made its batch, or did nothing.

LEMMA AnswerStep ==
  ASSUME BatchInv, NEW r \in wire, NEW code, Answers(r, code),
         UNCHANGED <<lib, era, target, born, sends, counts>>,
         \/ UNCHANGED <<journal, made>>
         \/ Makes(r.batch) /\ ~Known(r.batch) /\ r.key.lib = lib /\ code = "receipt",
         code = "receipt" => made'[r.batch] > 0
  PROVE  BatchInv'
<1>1. /\ Typed /\ Recorded /\ Waiting /\ OneForm /\ Meant /\ Receipts /\ Answered /\ MadeOnce
      /\ mem \in [Keys -> Records] /\ store \in [Keys -> Records] /\ wire \subseteq Wires
  BY Given
<1>2. UNCHANGED <<lib, era, remote, conf, gen, paired, newest, restores, resets>>
  BY DEF target, counts
<1> DEFINE k == r.key
           b == r.batch
<1>3. b \in Batches /\ k \in Keys /\ b # "none" /\ r.live \in BOOLEAN
  BY <1>1, WiresAre
<1>4. /\ wire' = wire \ {r}
      /\ \/ ~r.live /\ mem' = mem /\ store' = store /\ told' = told
         \/ /\ r.live
            /\ \E st \in {"complete", "rejected", "uncertain"} :
                 /\ st = "complete" <=> code = "receipt"
                 /\ st = "rejected" => mem[k].first
                 /\ MemBecomes(k, b, st, FALSE)
                 /\ \/ store' = store
                    \/ StoreBecomes(k, b, IF st = "uncertain" THEN "pending" ELSE st)
                 /\ told' = IF st = "complete" THEN told \cup {b} ELSE told
  BY <1>1, AnswersBecome
\* What the library did.
<1>5. /\ journal' \in [Batches -> 0..MaxLibs] /\ made' \in [Batches -> Nat]
      /\ \A a \in Batches : a # b => journal'[a] = journal[a] /\ made'[a] = made[a]
      /\ made' # made => journal[b] = NoReceipt /\ journal'[b] # NoReceipt /\ r.key.lib = lib
                         /\ made'[b] = made[b] + 1 /\ code = "receipt"
      /\ made' = made => journal' = journal
  <2>1. CASE UNCHANGED <<journal, made>>
    BY <1>1, <2>1 DEF Typed
  <2>2. CASE Makes(b) /\ ~Known(b) /\ r.key.lib = lib /\ code = "receipt"
    <3>1. lib \in 1..MaxLibs /\ made[b] \in Nat /\ made[b] + 1 # made[b]
      BY <1>1, <1>3 DEF Typed
    <3> QED
      BY <1>1, <1>3, <2>2, <3>1 DEF Makes, Known, NoReceipt, Typed
  <2> QED
    BY <2>1, <2>2
<1>6. \A a \in Batches : /\ made[a] > 0 => made'[a] > 0
                         /\ journal[a] # NoReceipt => journal'[a] # NoReceipt
  BY <1>1, <1>3, <1>5 DEF Typed
<1>7. /\ mem' \in [Keys -> Records] /\ store' \in [Keys -> Records] /\ told' \subseteq Batches
      /\ \A h \in Keys : mem'[h].batch = mem[h].batch /\ store'[h].batch = store[h].batch
      /\ \A h \in Keys : h # k => mem'[h] = mem[h] /\ store'[h] = store[h]
      /\ told \subseteq told'
  <2>1. CASE ~r.live
    BY <1>1, <1>4, <2>1 DEF Typed
  <2>2. CASE r.live
    <3>1. mem[k].batch = b /\ store[k].batch = b
      BY <1>1, <1>3, <2>2 DEF Waiting, Recorded
    <3> QED
      BY <1>1, <1>3, <1>4, <2>2, <3>1 DEF Typed, MemBecomes, StoreBecomes
  <2> QED
    BY <1>3, <2>1, <2>2
<1>8. Typed'
  BY <1>1, <1>2, <1>4, <1>5, <1>7 DEF Typed
<1>9. \A h \in Keys : mem'[h].status = "none" <=> mem[h].status = "none"
  <2>1. CASE ~r.live
    BY <1>4, <2>1
  <2>2. CASE r.live
    <3>1. mem[k].status = "saving"
      BY <1>1, <2>2 DEF Waiting
    <3>2. mem'[k].status # "none"
      BY <1>4, <2>2 DEF MemBecomes
    <3> QED
      BY <1>7, <3>1, <3>2
  <2> QED
    BY <1>3, <2>1, <2>2
<1>10. Recorded'
  <2>1. CASE ~r.live
    BY <1>1, <1>4, <2>1 DEF Recorded
  <2>2. CASE r.live
    <3>1. mem[k].status = "saving" /\ mem[k].batch = b
      BY <1>1, <2>2 DEF Waiting
    <3>2. store[k].status \notin {"complete", "rejected"}
      BY <1>1, <1>3, <3>1 DEF Recorded
    <3>3. /\ mem'[k].batch = store'[k].batch
          /\ mem'[k].batch = "none" <=> mem'[k].status = "none"
          /\ store'[k].batch = "none" <=> store'[k].status = "none"
          /\ mem'[k].status # "pending" /\ store'[k].status \notin {"saving", "uncertain"}
          /\ ~store'[k].first /\ ~mem'[k].first
          /\ store'[k].status \in {"complete", "rejected"} => mem'[k].status = store'[k].status
      <4>1. PICK st \in {"complete", "rejected", "uncertain"} :
                 /\ MemBecomes(k, b, st, FALSE)
                 /\ \/ store' = store
                    \/ StoreBecomes(k, b, IF st = "uncertain" THEN "pending" ELSE st)
        BY <1>4, <2>2
      <4>2. CASE store' = store
        BY <1>1, <1>3, <3>1, <3>2, <4>1, <4>2 DEF Recorded, MemBecomes
      <4>3. CASE StoreBecomes(k, b, IF st = "uncertain" THEN "pending" ELSE st)
        BY <1>3, <4>1, <4>3 DEF MemBecomes, StoreBecomes
      <4> QED
        BY <4>1, <4>2, <4>3
    <3>4. \A h \in Keys : h # k => mem'[h] = mem[h] /\ store'[h] = store[h]
      BY <1>7
    <3> HIDE DEF k, b
    <3> QED
      BY <1>1, <3>3, <3>4 DEF Recorded
  <2> QED
    BY <1>3, <2>1, <2>2
<1>11. Waiting'
  <2>1. CASE ~r.live
    BY <1>1, <1>4, <2>1 DEF Waiting
  <2>2. CASE r.live
    <3>1. \A s \in wire' : s.live => s \in wire /\ s.key # k /\ s.key \in Keys
      BY <1>1, <1>4, <2>2, WiresAre DEF Waiting
    <3>2. mem'[k].status # "saving"
      BY <1>4, <2>2 DEF MemBecomes
    <3>3. \A h \in Keys : mem'[h].status = "saving" => h # k /\ \E s \in wire' : s.live /\ s.key = h
      BY <1>1, <1>4, <1>7, <3>2 DEF Waiting
    <3> QED
      BY <1>1, <1>4, <1>7, <3>1, <3>3 DEF Waiting
  <2> QED
    BY <1>3, <2>1, <2>2
<1>12. OneForm'
  BY <1>1, <1>2, <1>4, <1>7, <1>9 DEF OneForm
<1>13. Meant'
  BY <1>1, <1>2, <1>4 DEF Meant
<1>14. Receipts'
  <2>1. \A a \in Batches : Known(a)' => made'[a] > 0
    BY <1>1, <1>3, <1>5 DEF Receipts, Known, Typed
  <2>2. resets = 0 => \A a \in Batches : made'[a] > 0 => Known(a)'
    BY <1>1, <1>3, <1>5 DEF Receipts, Known, Typed
  <2>3. restores = 0 => \A s \in wire' : made'[s.batch] > 0 /\ s.key.lib = lib => Known(s.batch)'
    BY <1>1, <1>3, <1>4, <1>5, WiresAre DEF Receipts, Known
  <2>4. restores = 0 => \A h \in Keys :
          mem'[h].status # "none" /\ h.lib = lib /\ made'[mem'[h].batch] > 0 =>
            journal'[mem'[h].batch] # NoReceipt
    <3>1. SUFFICES ASSUME restores = 0, NEW h \in Keys, mem'[h].status # "none", h.lib = lib,
                          made'[mem'[h].batch] > 0
                   PROVE  journal'[mem'[h].batch] # NoReceipt
      OBVIOUS
    <3>2. mem'[h].batch = mem[h].batch /\ mem[h].status # "none" /\ mem[h].batch \in Batches
      BY <1>1, <1>7, <1>9, <3>1 DEF Recorded, Records
    <3> QED
      BY <1>1, <1>3, <1>5, <3>1, <3>2 DEF Receipts, Known
  <2> QED
    BY <1>2, <2>1, <2>2, <2>3, <2>4 DEF Receipts, Known
<1>15. MadeOnce'
  <2>1. made' # made /\ (restores = 0 \/ resets = 0) => made[b] = 0
    BY <1>1, <1>3, <1>5 DEF Receipts, Known, Typed
  <2> QED
    BY <1>1, <1>2, <1>3, <1>5, <2>1 DEF MadeOnce, Typed
<1>16. Answered'
  <2>1. b \in told' \/ store'[k].batch = b
    BY <1>1, <1>3, <1>7 DEF Answered
  <2>2. \A a \in told' : made'[a] > 0
    <3>1. \A a \in told : a \in Batches /\ made'[a] > 0
      BY <1>1, <1>6 DEF Answered, Typed
    <3>2. told' = told \/ (told' = told \cup {b} /\ code = "receipt")
      BY <1>4
    <3> QED
      BY <3>1, <3>2
  <2>3. \A h \in Keys : mem'[h].status = "complete" => mem'[h].batch \in told'
    <3>1. SUFFICES ASSUME NEW h \in Keys, mem'[h].status = "complete" PROVE mem'[h].batch \in told'
      OBVIOUS
    <3>2. CASE mem'[h] = mem[h]
      BY <1>1, <1>7, <3>1, <3>2 DEF Answered
    <3>3. CASE mem'[h] # mem[h]
      BY <1>4, <1>7, <3>1, <3>3 DEF MemBecomes
    <3> QED
      BY <3>2, <3>3
  <2>4. \A s \in wire' : s.batch \in told' \/ store'[s.key].batch = s.batch
    BY <1>1, <1>4, <1>7, WiresAre DEF Answered
  <2>5. NothingForgotten'
    <3>1. SUFFICES ASSUME NEW a \in Batches, made'[a] > 0
                   PROVE  a \in told' \/ \E h \in Keys : store'[h].batch = a
      BY DEF NothingForgotten
    <3>2. CASE a = b
      BY <1>3, <2>1, <3>2
    <3>3. CASE a # b
      BY <1>1, <1>5, <1>7, <3>1, <3>3 DEF Answered, NothingForgotten
    <3> QED
      BY <3>2, <3>3
  <2>6. ASSUME NEW h \in Keys, mem'[h].first
        PROVE  made'[mem'[h].batch] = 0 /\ \A s \in wire' : s.batch = mem'[h].batch => s.live
    <3>1. mem'[h] = mem[h]
      BY <1>4, <1>7, <2>6 DEF MemBecomes
    <3>2. mem[h].batch # b
      <4>1. SUFFICES ASSUME mem[h].batch = b PROVE FALSE
        OBVIOUS
      <4>2. r.live /\ h = k
        BY <1>1, <2>6, <3>1, <4>1 DEF Answered, OneForm
      <4>3. mem'[k].first = FALSE
        BY <1>4, <4>2 DEF MemBecomes
      <4> QED
        BY <2>6, <4>2, <4>3
    <3>3. mem[h].batch \in Batches
      BY <1>1, <2>6, <3>1 DEF Recorded, Records
    <3> QED
      BY <1>1, <1>4, <1>5, <2>6, <3>1, <3>2, <3>3 DEF Answered
  <2>7. ASSUME NEW h \in Keys, mem'[h].status = "rejected"
        PROVE  made'[mem'[h].batch] = 0 /\ \A s \in wire' : s.batch # mem'[h].batch
    <3>1. CASE mem'[h] = mem[h]
      <4>1. mem[h].batch \in Batches /\ mem[h].batch # b
        BY <1>1, <2>7, <3>1 DEF Recorded, Records, Answered
      <4> QED
        BY <1>1, <1>4, <1>5, <2>7, <3>1, <4>1 DEF Answered
    <3>2. CASE mem'[h] # mem[h]
      <4>1. r.live /\ h = k /\ mem'[k].batch = b
        BY <1>4, <1>7, <3>2 DEF MemBecomes
      <4>2. mem[k].first /\ code # "receipt" /\ mem[k].batch = b
        BY <1>1, <1>4, <2>7, <4>1 DEF MemBecomes, Waiting
      <4>3. made'[b] = 0
        BY <1>1, <1>3, <1>5, <4>2 DEF Answered
      <4>4. \A s \in wire' : s.batch # b
        <5>1. SUFFICES ASSUME NEW s \in wire', s.batch = b PROVE FALSE
          OBVIOUS
        <5>2. s \in wire /\ s # r /\ s.key = k /\ s.live
          BY <1>1, <1>3, <1>4, <4>2, <5>1 DEF OneForm, Answered
        <5> QED
          BY <1>1, <4>1, <5>2 DEF Waiting
      <4> QED
        BY <4>1, <4>3, <4>4
    <3> QED
      BY <3>1, <3>2
  <2> QED
    BY <2>2, <2>3, <2>4, <2>5, <2>6, <2>7 DEF Answered
<1> QED
  BY <1>8, <1>10, <1>11, <1>12, <1>13, <1>14, <1>15, <1>16 DEF BatchInv

\* A request gets one station further, to a library it is meant for.
LEMMA MoveStep ==
  ASSUME BatchInv, NEW r \in wire, NEW q \in Wires,
         q.batch = r.batch, q.key = r.key, q.live = r.live, q.era <= era,
         q.at = "host" /\ q.era = era => q.key.lib = lib,
         q.at = "gate" => q.lib = q.key.lib,
         wire' = (wire \ {r}) \cup {q},
         UNCHANGED <<library, target, mem, store, history, counts>>
  PROVE  BatchInv'
<1>1. /\ Typed /\ Recorded /\ Waiting /\ OneForm /\ Meant /\ Receipts /\ Answered /\ MadeOnce
      /\ mem \in [Keys -> Records] /\ store \in [Keys -> Records] /\ wire \subseteq Wires
  BY Given
<1>2. UNCHANGED <<lib, journal, era, remote, conf, gen, paired, mem, store, made, born, told,
                  newest, restores, resets>>
  BY DEF library, target, history, counts
<1>3. \A s \in wire' : \E t \in wire : s.batch = t.batch /\ s.key = t.key /\ s.live = t.live
  OBVIOUS
<1>4. \A t \in wire : \E s \in wire' : s.batch = t.batch /\ s.key = t.key /\ s.live = t.live
  OBVIOUS
<1>5. Typed'
  BY <1>1, <1>2 DEF Typed
<1>6. Recorded'
  BY <1>1, <1>2 DEF Recorded
<1>7. Waiting'
  <2>1. \A s \in wire' : s.live => mem[s.key].status = "saving" /\ mem[s.key].batch = s.batch
    BY <1>1, <1>3 DEF Waiting
  <2>2. \A s, t \in wire' : s.live /\ t.live /\ s.key = t.key => s = t
    BY <1>1 DEF Waiting
  <2>3. \A h \in Keys : mem[h].status = "saving" => \E s \in wire' : s.live /\ s.key = h
    BY <1>1, <1>4 DEF Waiting
  <2> QED
    BY <1>2, <2>1, <2>2, <2>3 DEF Waiting
<1>8. OneForm'
  <2>1. \A s, t \in wire' : s.batch = t.batch => s.key = t.key
    BY <1>1, <1>3 DEF OneForm
  <2>2. \A s \in wire', h \in Keys : mem[h].batch = s.batch => h = s.key
    BY <1>1, <1>3 DEF OneForm
  <2>3. \A s \in wire' : s.key.lib <= newest
    BY <1>1, <1>3 DEF OneForm
  <2> QED
    BY <1>1, <1>2, <2>1, <2>2, <2>3 DEF OneForm
<1>9. Meant'
  BY <1>1, <1>2 DEF Meant
<1>10. Receipts' /\ MadeOnce'
  <2>1. restores = 0 => \A s \in wire' : made[s.batch] > 0 /\ s.key.lib = lib => Known(s.batch)
    BY <1>1, <1>3 DEF Receipts
  <2> QED
    BY <1>1, <1>2, <2>1 DEF Receipts, MadeOnce, Known
<1>11. Answered'
  <2>1. \A s \in wire' : s.batch \in told \/ store[s.key].batch = s.batch
    BY <1>1, <1>3 DEF Answered
  <2>2. \A h \in Keys : mem[h].first => \A s \in wire' : s.batch = mem[h].batch => s.live
    BY <1>1, <1>3 DEF Answered
  <2>3. \A h \in Keys : mem[h].status = "rejected" => \A s \in wire' : s.batch # mem[h].batch
    BY <1>1, <1>3 DEF Answered
  <2> QED
    BY <1>1, <1>2, <2>1, <2>2, <2>3 DEF Answered, NothingForgotten
<1> QED
  BY <1>5, <1>6, <1>7, <1>8, <1>9, <1>10, <1>11 DEF BatchInv

-----------------------------------------------------------------------------
\* The controllers.

LEMMA RequestIs ==
  ASSUME NEW k \in Keys, NEW b \in Batches
  PROVE  /\ Request(k, b) \in Wires /\ Request(k, b).batch = b /\ Request(k, b).key = k
         /\ Request(k, b).at = "desktop" /\ Request(k, b).era = 0 /\ Request(k, b).live = TRUE
  BY DEF Request, Wires

\* A form sends its batch, which no other form has.
LEMMA SendStep ==
  ASSUME BatchInv, NEW k \in Keys, NEW b \in Batches, NEW first \in BOOLEAN,
         Stored(k, b), Sends(k, b, first),
         UNCHANGED <<library, target, made, told, counts>>,
         mem[k].status \in {"none", "uncertain"}, store[k].batch \in {"none", b},
         k.lib <= newest,
         \A r \in wire : r.batch = b => r.key = k /\ ~first,
         \A h \in Keys : mem[h].batch = b => h = k,
         first => made[b] = 0,
         restores = 0 /\ k.lib = lib /\ made[b] > 0 => Known(b)
  PROVE  BatchInv'
<1>1. /\ Typed /\ Recorded /\ Waiting /\ OneForm /\ Meant /\ Receipts /\ Answered /\ MadeOnce
      /\ mem \in [Keys -> Records] /\ store \in [Keys -> Records] /\ wire \subseteq Wires
  BY Given
<1>2. UNCHANGED <<lib, journal, era, remote, conf, gen, paired, made, told,
                  newest, restores, resets>>
  BY DEF library, target, counts
<1>3. MemBecomes(k, b, "saving", first)
  BY <1>1, MemIsSet DEF Sends, FormStatuses
<1>4. StoreBecomes(k, b, "pending")
  BY <1>1, StoreIsSet DEF Stored, FormStatuses
<1> DEFINE q == Request(k, b)
<1>5. wire' = wire \cup {q}
  BY DEF Sends
<1>6. q \in Wires /\ q.batch = b /\ q.key = k /\ q.at = "desktop" /\ q.era = 0 /\ q.live = TRUE
  <2>1. k \in Keys /\ b \in Batches
    OBVIOUS
  <2> QED
    BY ONLY <2>1, RequestIs
<1> HIDE DEF q
<1>7. b # "none"
  OBVIOUS
<1>8. Typed'
  BY <1>1, <1>2, <1>3, <1>4, <1>5, <1>6 DEF Typed, MemBecomes, StoreBecomes
<1>9. Recorded'
  BY <1>1, <1>3, <1>4, <1>7 DEF Recorded, MemBecomes, StoreBecomes
<1>10. Waiting'
  <2>1. \A s \in wire : s.live => s.key # k /\ s.key \in Keys
    BY <1>1, WiresAre DEF Waiting
  <2> QED
    BY <1>1, <1>3, <1>5, <1>6, <2>1 DEF Waiting, MemBecomes
<1>11. OneForm'
  <2>1. \A r, s \in wire' : r.batch = s.batch => r.key = s.key
    BY <1>1, <1>5, <1>6 DEF OneForm
  <2>2. \A r \in wire', h \in Keys : mem'[h].batch = r.batch => h = r.key
    BY <1>1, <1>3, <1>5, <1>6 DEF OneForm, MemBecomes
  <2>3. \A h, g \in Keys : mem'[h].batch = mem'[g].batch /\ mem'[h].status # "none" => h = g
    BY <1>1, <1>3 DEF OneForm, MemBecomes
  <2>4. \A r \in wire' : r.key.lib <= newest
    BY <1>1, <1>5, <1>6 DEF OneForm
  <2>5. \A h \in Keys : mem'[h].status # "none" => h.lib <= newest
    BY <1>1, <1>3 DEF OneForm, MemBecomes
  <2> QED
    BY <1>2, <2>1, <2>2, <2>3, <2>4, <2>5 DEF OneForm
<1>12. Meant'
  BY <1>1, <1>2, <1>5, <1>6 DEF Meant, Typed
<1>13. Receipts' /\ MadeOnce'
  <2>1. restores = 0 => \A r \in wire' : made[r.batch] > 0 /\ r.key.lib = lib => Known(r.batch)
    BY <1>1, <1>5, <1>6 DEF Receipts
  <2>2. restores = 0 => \A h \in Keys :
          mem'[h].status # "none" /\ h.lib = lib /\ made[mem'[h].batch] > 0 =>
            journal[mem'[h].batch] # NoReceipt
    BY <1>1, <1>3 DEF Receipts, Known, MemBecomes
  <2> QED
    BY <1>1, <1>2, <2>1, <2>2 DEF Receipts, MadeOnce, Known
<1>14. Answered'
  <2>1. \A h \in Keys : mem'[h].status = "complete" => mem'[h].batch \in told
    BY <1>1, <1>3 DEF Answered, MemBecomes
  <2>2. \A r \in wire' : r.batch \in told \/ store'[r.key].batch = r.batch
    <3>1. SUFFICES ASSUME NEW r \in wire', r.batch \notin told PROVE store'[r.key].batch = r.batch
      OBVIOUS
    <3>2. CASE r = q
      BY <1>4, <1>6, <3>2 DEF StoreBecomes
    <3>3. CASE r \in wire
      <4>1. store[r.key].batch = r.batch /\ r.key \in Keys /\ r.batch # "none"
        BY <1>1, <3>1, <3>3, WiresAre DEF Answered
      <4>2. r.key = k => r.batch = b
        BY <4>1
      <4> QED
        BY <1>4, <4>1, <4>2 DEF StoreBecomes
    <3> QED
      BY <1>5, <3>2, <3>3
  <2>3. NothingForgotten'
    <3>1. SUFFICES ASSUME NEW a \in Batches, made[a] > 0, a \notin told
                   PROVE  \E h \in Keys : store'[h].batch = a
      BY <1>2 DEF NothingForgotten
    <3>2. PICK h \in Keys : store[h].batch = a
      BY <1>1, <3>1 DEF Answered, NothingForgotten
    <3>3. a # "none"
      OBVIOUS
    <3>4. h = k => a = b
      BY <3>2, <3>3
    <3>5. store'[h].batch = a
      BY <1>4, <3>2, <3>4 DEF StoreBecomes
    <3> QED
      BY <3>5
  <2>4. ASSUME NEW h \in Keys, mem'[h].first
        PROVE  made[mem'[h].batch] = 0 /\ \A r \in wire' : r.batch = mem'[h].batch => r.live
    <3>1. CASE h = k
      BY <1>3, <1>5, <1>6, <2>4, <3>1 DEF MemBecomes
    <3>2. CASE h # k
      <4>1. mem'[h] = mem[h] /\ mem[h].batch # b
        BY <1>3, <3>2 DEF MemBecomes
      <4> QED
        BY <1>1, <1>5, <1>6, <2>4, <4>1 DEF Answered
    <3> QED
      BY <3>1, <3>2
  <2>5. ASSUME NEW h \in Keys, mem'[h].status = "rejected"
        PROVE  made[mem'[h].batch] = 0 /\ \A r \in wire' : r.batch # mem'[h].batch
    <3>1. h # k
      BY <1>3, <2>5 DEF MemBecomes
    <3>2. mem'[h] = mem[h] /\ mem[h].batch # b
      BY <1>3, <3>1 DEF MemBecomes
    <3> QED
      BY <1>1, <1>5, <1>6, <2>5, <3>2 DEF Answered
  <2> QED
    BY <1>1, <1>2, <2>1, <2>2, <2>3, <2>4, <2>5 DEF Answered
<1> QED
  BY <1>8, <1>9, <1>10, <1>11, <1>12, <1>13, <1>14 DEF BatchInv

LEMMA KeyIs ==
  ASSUME Typed
  PROVE  Key \in Keys /\ Key.lib = conf /\ Key.lib <= newest
  BY DEF Typed, Key, Keys

LEMMA StartStep ==
  ASSUME BatchInv, NEW k \in Keys, NEW b \in Batches, Start(k, b)
  PROVE  BatchInv'
<1>1. Typed /\ Recorded /\ BatchInv
  BY Given
<1>2. mem[k].status = "none" /\ store[k].batch = "none" /\ k.lib <= newest
  BY <1>1, KeyIs, NoRecordIs DEF Start, Recorded
<1>3. /\ Stored(k, b) /\ Sends(k, b, TRUE) /\ made[b] = 0
      /\ \A r \in wire : r.batch # b
      /\ UNCHANGED <<library, target, made, told, counts>>
      /\ \A h \in Keys : mem[h].batch # b
  BY DEF Start, Unused
<1>4. ~(made[b] > 0)
  BY <1>3
<1> QED
  BY <1>1, <1>2, <1>3, <1>4, SendStep

LEMMA RetryStep ==
  ASSUME BatchInv, NEW k \in Keys, Retry(k)
  PROVE  BatchInv'
<1>1. /\ Typed /\ Recorded /\ OneForm /\ Receipts /\ mem \in [Keys -> Records] /\ BatchInv
  BY Given
<1> DEFINE b == mem[k].batch
<1>2. mem[k].status = "uncertain" /\ k.lib <= newest
  BY <1>1, KeyIs DEF Retry, Retryable
<1>3. b \in Batches /\ store[k].batch = b
  BY <1>1, <1>2 DEF Recorded, Records
<1>4. /\ Stored(k, b) /\ Sends(k, b, FALSE)
      /\ UNCHANGED <<library, target, made, told, counts>>
  BY DEF Retry, history
<1>5. \A h \in Keys : mem[h].batch = b => h = k
  BY <1>1, <1>2 DEF OneForm
<1>6. \A r \in wire : r.batch = b => r.key = k
  BY <1>1, <1>2 DEF OneForm
<1>7. restores = 0 /\ k.lib = lib /\ made[b] > 0 => Known(b)
  BY <1>1, <1>2 DEF Receipts
<1>8. /\ FALSE \in BOOLEAN /\ \A r \in wire : r.batch = b => r.key = k /\ ~FALSE
      /\ FALSE => made[b] = 0
      /\ mem[k].status \in {"none", "uncertain"} /\ store[k].batch \in {"none", b}
  BY <1>2, <1>3, <1>6
<1>9. BatchInv /\ k \in Keys /\ b \in Batches /\ k.lib <= newest
  BY <1>1, <1>2, <1>3
<1> HIDE DEF b
<1> QED
  BY ONLY <1>4, <1>5, <1>7, <1>8, <1>9, SendStep

\* The form is emptied once its batch is known to be made, or not to be.
LEMMA NextDraftStep ==
  ASSUME BatchInv, NEW k \in Keys, NextDraft(k)
  PROVE  BatchInv'
<1>1. /\ Typed /\ Recorded /\ Waiting /\ OneForm /\ Meant /\ Receipts /\ Answered /\ MadeOnce
      /\ mem \in [Keys -> Records] /\ store \in [Keys -> Records] /\ wire \subseteq Wires
  BY Given
<1>2. UNCHANGED <<lib, journal, era, remote, conf, gen, paired, wire, made, told,
                  newest, restores, resets>>
  BY DEF NextDraft, library, target, counts, history
<1>3. /\ mem' = [mem EXCEPT ![k] = NoRecord] /\ store' = [store EXCEPT ![k] = NoRecord]
      /\ mem[k].status \in {"complete", "rejected"}
  BY DEF NextDraft, Finished
<1>4. MemBecomes(k, "none", "none", FALSE) /\ StoreBecomes(k, "none", "none")
  BY <1>1, <1>3, NoRecordIs DEF MemBecomes, StoreBecomes
<1>5. Typed' /\ Recorded'
  BY <1>1, <1>2, <1>4 DEF Typed, Recorded, MemBecomes, StoreBecomes
<1>6. Waiting'
  <2>1. \A s \in wire : s.live => s.key # k /\ s.key \in Keys
    BY <1>1, <1>3, WiresAre DEF Waiting
  <2> QED
    BY <1>1, <1>2, <1>4, <2>1 DEF Waiting, MemBecomes
<1>7. OneForm'
  <2>1. \A h \in Keys : mem'[h].status # "none" => mem'[h] = mem[h] /\ mem[h].batch # "none"
    BY <1>1, <1>4 DEF MemBecomes, Recorded
  <2>2. \A r \in wire, h \in Keys : mem'[h].batch = r.batch => h = r.key
    BY <1>1, <1>4, WiresAre DEF OneForm, MemBecomes
  <2>3. \A h, g \in Keys : mem'[h].batch = mem'[g].batch /\ mem'[h].status # "none" => h = g
    BY <1>1, <1>4, <2>1 DEF OneForm, MemBecomes
  <2> QED
    BY <1>1, <1>2, <2>1, <2>2, <2>3 DEF OneForm
<1>8. Meant' /\ Receipts' /\ MadeOnce'
  BY <1>1, <1>2, <1>4 DEF Meant, Receipts, MadeOnce, Known, MemBecomes
<1>9. Answered'
  <2>1. \A r \in wire : r.batch \in told \/ store'[r.key].batch = r.batch
    <3>1. SUFFICES ASSUME NEW r \in wire, r.batch \notin told PROVE store'[r.key].batch = r.batch
      OBVIOUS
    <3>2. store[r.key].batch = r.batch /\ r.key \in Keys
      BY <1>1, <3>1, WiresAre DEF Answered
    <3>3. r.key # k
      BY <1>1, <1>3, <3>1, <3>2 DEF Answered, Recorded
    <3> QED
      BY <1>4, <3>2, <3>3 DEF StoreBecomes
  <2>2. NothingForgotten'
    <3>1. SUFFICES ASSUME NEW a \in Batches, made[a] > 0, a \notin told
                   PROVE  \E h \in Keys : store'[h].batch = a
      BY <1>2 DEF NothingForgotten
    <3>2. PICK h \in Keys : store[h].batch = a
      BY <1>1, <3>1 DEF Answered, NothingForgotten
    <3>3. h # k
      BY <1>1, <1>3, <3>1, <3>2 DEF Answered, Recorded, Typed
    <3>4. store'[h].batch = a
      BY <1>4, <3>2, <3>3 DEF StoreBecomes
    <3> QED
      BY <3>4
  <2> QED
    BY <1>1, <1>2, <1>4, <2>1, <2>2 DEF Answered, MemBecomes
<1> QED
  BY <1>5, <1>6, <1>7, <1>8, <1>9 DEF BatchInv

\* The window starts again from its storage; nobody waits for what is under way.
LEMMA ReloadStep ==
  ASSUME BatchInv, NEW left \in SUBSET wire, Reload(left)
  PROVE  BatchInv'
<1>1. /\ Typed /\ Recorded /\ Waiting /\ OneForm /\ Meant /\ Receipts /\ Answered /\ MadeOnce
      /\ mem \in [Keys -> Records] /\ store \in [Keys -> Records] /\ wire \subseteq Wires
  BY Given
<1>2. UNCHANGED <<lib, journal, era, remote, conf, gen, paired, store, made, told,
                  newest, restores, resets>>
  BY DEF Reload, library, target, counts, history
<1>3. /\ mem' \in [Keys -> Records]
      /\ \A h \in Keys :
           /\ mem'[h].batch = mem[h].batch /\ mem'[h].first = FALSE
           /\ mem'[h].status = IF store[h].status = "pending" THEN "uncertain" ELSE store[h].status
  <2>1. ASSUME NEW h \in Keys
        PROVE  /\ Recalled(store[h]) \in Records /\ Recalled(store[h]).first = FALSE
               /\ Recalled(store[h]).batch = mem[h].batch
               /\ Recalled(store[h]).status =
                    IF store[h].status = "pending" THEN "uncertain" ELSE store[h].status
    <3>1. store[h] \in Records /\ store[h].first = FALSE /\ store[h].batch = mem[h].batch
      BY <1>1 DEF Recorded, Records
    <3> QED
      BY <3>1 DEF Recalled, Records, FormStatuses
  <2>2. mem' = [h \in Keys |-> Recalled(store[h])]
    BY DEF Reload
  <2> QED
    BY <2>1, <2>2
<1>4. \A h \in Keys :
        /\ mem'[h].status # "saving" /\ (mem'[h].status = "none" <=> mem[h].status = "none")
        /\ mem'[h].status = "complete" => mem[h].status = "complete"
        /\ mem'[h].status = "rejected" => mem[h].status = "rejected"
        /\ mem'[h].status # "pending"
        /\ store[h].status \in {"complete", "rejected"} => mem'[h].status = store[h].status
  BY <1>1, <1>3 DEF Recorded
<1>5. \A s \in wire' : /\ s \in Wires /\ ~s.live
                       /\ \E r \in wire : /\ s.batch = r.batch /\ s.key = r.key /\ s.at = r.at
                                          /\ s.era = r.era /\ s.lib = r.lib
  <2>1. SUFFICES ASSUME NEW s \in wire'
                 PROVE  /\ s \in Wires /\ ~s.live
                        /\ \E r \in wire : /\ s.batch = r.batch /\ s.key = r.key /\ s.at = r.at
                                           /\ s.era = r.era /\ s.lib = r.lib
    OBVIOUS
  <2>2. PICK r \in left : s = [r EXCEPT !.live = FALSE]
    BY DEF Reload
  <2>3. r \in wire /\ r \in Wires
    BY <1>1
  <2>4. /\ s \in Wires /\ ~s.live
        /\ s.batch = r.batch /\ s.key = r.key /\ s.at = r.at /\ s.era = r.era /\ s.lib = r.lib
    BY <2>2, <2>3 DEF Wires
  <2> QED
    BY <2>3, <2>4
<1>6. Typed'
  BY <1>1, <1>2, <1>3, <1>5 DEF Typed
<1>7. Recorded'
  BY <1>1, <1>2, <1>3, <1>4 DEF Recorded
<1>8. Waiting'
  BY <1>4, <1>5 DEF Waiting
<1>9. OneForm'
  <2>1. \A r, s \in wire' : r.batch = s.batch => r.key = s.key
    BY <1>1, <1>5 DEF OneForm
  <2>2. \A r \in wire', h \in Keys : mem'[h].batch = r.batch => h = r.key
    BY <1>1, <1>3, <1>5 DEF OneForm
  <2>3. \A r \in wire' : r.key.lib <= newest
    BY <1>1, <1>5 DEF OneForm
  <2> QED
    BY <1>1, <1>2, <1>3, <1>4, <2>1, <2>2, <2>3 DEF OneForm
<1>10. Meant'
  BY <1>1, <1>2, <1>5 DEF Meant
<1>11. Receipts' /\ MadeOnce'
  <2>1. restores = 0 => \A r \in wire' : made[r.batch] > 0 /\ r.key.lib = lib => Known(r.batch)
    BY <1>1, <1>5 DEF Receipts
  <2>2. restores = 0 => \A h \in Keys :
          mem'[h].status # "none" /\ h.lib = lib /\ made[mem'[h].batch] > 0 =>
            journal[mem'[h].batch] # NoReceipt
    BY <1>1, <1>3, <1>4 DEF Receipts, Known
  <2> QED
    BY <1>1, <1>2, <2>1, <2>2 DEF Receipts, MadeOnce, Known
<1>12. Answered'
  <2>1. \A r \in wire' : r.batch \in told \/ store[r.key].batch = r.batch
    BY <1>1, <1>5 DEF Answered
  <2>2. \A h \in Keys : mem'[h].status = "rejected" =>
          made[mem'[h].batch] = 0 /\ \A r \in wire' : r.batch # mem'[h].batch
    BY <1>1, <1>3, <1>4, <1>5 DEF Answered
  <2>3. \A h \in Keys : mem'[h].status = "complete" => mem'[h].batch \in told
    BY <1>1, <1>3, <1>4 DEF Answered
  <2> QED
    BY <1>1, <1>2, <1>3, <2>1, <2>2, <2>3 DEF Answered, NothingForgotten
<1> QED
  BY <1>6, <1>7, <1>8, <1>9, <1>10, <1>11, <1>12 DEF BatchInv


\* Thirty seconds are over: nobody waits any more, and the request may still arrive.
LEMMA TimeoutStep ==
  ASSUME BatchInv, NEW r \in wire, Timeout(r)
  PROVE  BatchInv'
<1>1. /\ Typed /\ Recorded /\ Waiting /\ OneForm /\ Meant /\ Receipts /\ Answered /\ MadeOnce
      /\ mem \in [Keys -> Records] /\ store \in [Keys -> Records] /\ wire \subseteq Wires
  BY Given
<1>2. UNCHANGED <<lib, journal, era, remote, conf, gen, paired, store, made, told,
                  newest, restores, resets>>
  BY DEF Timeout, library, target, counts, history
<1> DEFINE k == r.key
           b == r.batch
           q == [r EXCEPT !.live = FALSE]
<1>3. r \in Wires /\ k \in Keys /\ b \in Batches /\ b # "none" /\ r.live
  BY <1>1, WiresAre DEF Timeout
<1>4. mem[k].status = "saving" /\ mem[k].batch = b
  BY <1>1, <1>3 DEF Waiting
<1>5. MemBecomes(k, b, "uncertain", FALSE)
  BY <1>1, <1>3, <1>4, MemTurns DEF Timeout, FormStatuses
<1>6. /\ q \in Wires /\ q.batch = b /\ q.key = k /\ ~q.live
      /\ q.at = r.at /\ q.era = r.era /\ q.lib = r.lib
  BY <1>3 DEF Wires
<1>7. wire' = (wire \ {r}) \cup {q}
  BY DEF Timeout
<1> HIDE DEF q
<1>8. Typed'
  BY <1>1, <1>2, <1>5, <1>6, <1>7 DEF Typed, MemBecomes
<1>9. Recorded'
  BY <1>1, <1>2, <1>3, <1>4, <1>5 DEF Recorded, MemBecomes
<1>10. Waiting'
  <2>1. \A s \in wire' : s.live => s \in wire /\ s.key # k /\ s.key \in Keys
    BY <1>1, <1>3, <1>6, <1>7, WiresAre DEF Waiting
  <2>2. \A h \in Keys : mem'[h].status = "saving" => h # k /\ \E s \in wire' : s.live /\ s.key = h
    BY <1>1, <1>5, <1>7 DEF Waiting, MemBecomes
  <2> QED
    BY <1>1, <1>5, <2>1, <2>2 DEF Waiting, MemBecomes
<1>11. OneForm'
  <2>1. \A s, t \in wire' : s.batch = t.batch => s.key = t.key
    BY <1>1, <1>6, <1>7 DEF OneForm
  <2>2. \A h \in Keys : /\ mem'[h].batch = mem[h].batch
                        /\ mem'[h].status # "none" => mem[h].status # "none"
    BY <1>3, <1>4, <1>5 DEF MemBecomes
  <2>3. \A s \in wire', h \in Keys : mem'[h].batch = s.batch => h = s.key
    BY <1>1, <1>6, <1>7, <2>2 DEF OneForm
  <2>4. \A s \in wire' : s.key.lib <= newest
    BY <1>1, <1>6, <1>7 DEF OneForm
  <2> QED
    BY <1>1, <1>2, <2>1, <2>2, <2>3, <2>4 DEF OneForm
<1>12. Meant'
  BY <1>1, <1>2, <1>6, <1>7 DEF Meant
<1>13. Receipts' /\ MadeOnce'
  <2>1. restores = 0 => \A s \in wire' : made[s.batch] > 0 /\ s.key.lib = lib => Known(s.batch)
    BY <1>1, <1>6, <1>7 DEF Receipts
  <2>2. restores = 0 => \A h \in Keys :
          mem'[h].status # "none" /\ h.lib = lib /\ made[mem'[h].batch] > 0 =>
            journal[mem'[h].batch] # NoReceipt
    <3>1. \A h \in Keys : /\ mem'[h].batch = mem[h].batch
                          /\ mem'[h].status # "none" => mem[h].status # "none"
      BY <1>3, <1>4, <1>5 DEF MemBecomes
    <3> QED
      BY <1>1, <3>1 DEF Receipts, Known
  <2> QED
    BY <1>1, <1>2, <2>1, <2>2 DEF Receipts, MadeOnce, Known
<1>14. Answered'
  <2>1. \A s \in wire' : s.batch \in told \/ store[s.key].batch = s.batch
    BY <1>1, <1>6, <1>7 DEF Answered
  <2>2. \A h \in Keys : mem'[h].status = "complete" => mem'[h].batch \in told
    BY <1>1, <1>5 DEF Answered, MemBecomes
  <2>3. ASSUME NEW h \in Keys, mem'[h].first \/ mem'[h].status = "rejected"
        PROVE  mem'[h] = mem[h] /\ mem[h].batch # b
    <3>1. h # k
      BY <1>5, <2>3 DEF MemBecomes
    <3>2. mem'[h] = mem[h]
      BY <1>5, <3>1 DEF MemBecomes
    <3> QED
      BY <1>1, <1>3, <3>1, <3>2 DEF OneForm
  <2>4. ASSUME NEW h \in Keys, mem'[h].first
        PROVE  made[mem'[h].batch] = 0 /\ \A s \in wire' : s.batch = mem'[h].batch => s.live
    BY <1>1, <1>6, <1>7, <2>3, <2>4 DEF Answered
  <2>5. ASSUME NEW h \in Keys, mem'[h].status = "rejected"
        PROVE  made[mem'[h].batch] = 0 /\ \A s \in wire' : s.batch # mem'[h].batch
    BY <1>1, <1>6, <1>7, <2>3, <2>5 DEF Answered
  <2> QED
    BY <1>1, <1>2, <2>1, <2>2, <2>4, <2>5 DEF Answered, NothingForgotten
<1> QED
  BY <1>8, <1>9, <1>10, <1>11, <1>12, <1>13, <1>14 DEF BatchInv

-----------------------------------------------------------------------------
\* The stations of a request.

LEMMA PreflightStep ==
  ASSUME BatchInv, NEW r \in wire, Preflight(r)
  PROVE  BatchInv'
<1>1. Typed /\ Meant /\ wire \subseteq Wires /\ BatchInv
  BY Given
<1>2. UNCHANGED <<library, target, made, born, sends, counts>>
  BY DEF Preflight
<1>3. CASE \E code \in {"unsupported", "other"} : Answers(r, code)
  <2>1. PICK code \in {"unsupported", "other"} : Answers(r, code)
    BY <1>3
  <2>2. UNCHANGED <<lib, era, target, born, sends, counts>> /\ UNCHANGED <<journal, made>>
    BY <1>2 DEF library
  <2>3. code # "receipt"
    OBVIOUS
  <2> QED
    BY <1>1, <2>1, <2>2, <2>3, AnswerStep
<1>4. CASE /\ r.key = Key /\ lib = conf
           /\ wire' = (wire \ {r}) \cup {[r EXCEPT !.at = "host", !.era = paired]}
           /\ UNCHANGED <<mem, store, told>>
  <2> DEFINE q == [r EXCEPT !.at = "host", !.era = paired]
  <2>1. r \in Wires /\ paired \in Nat
    BY <1>1 DEF Typed
  <2>2. /\ q \in Wires /\ q.batch = r.batch /\ q.key = r.key /\ q.live = r.live
        /\ q.era = paired /\ q.at = "host"
    BY <2>1 DEF Wires
  <2>3. wire' = (wire \ {r}) \cup {q}
    BY <1>4
  <2> HIDE DEF q
  <2>4. q.era <= era /\ q.key.lib = lib /\ q.at # "gate"
    BY <1>1, <1>4, <2>2, KeyIs DEF Typed
  <2>5. UNCHANGED <<library, target, mem, store, history, counts>>
    BY <1>2, <1>4 DEF history
  <2> QED
    BY <1>1, <2>2, <2>3, <2>4, <2>5, MoveStep
<1> QED
  BY <1>3, <1>4 DEF Preflight

LEMMA AuthorizedStep ==
  ASSUME BatchInv, NEW r \in wire, Authorized(r)
  PROVE  BatchInv'
<1>1. Typed /\ Meant /\ wire \subseteq Wires /\ BatchInv
  BY Given
<1>2. UNCHANGED <<library, target, made, born, sends, counts>> /\ r.at = "host"
  BY DEF Authorized
<1>3. CASE Answers(r, "other")
  <2>1. UNCHANGED <<lib, era, target, born, sends, counts>> /\ UNCHANGED <<journal, made>>
    BY <1>2 DEF library
  <2>2. "other" # "receipt"
    OBVIOUS
  <2> QED
    BY <1>1, <1>3, <2>1, <2>2, AnswerStep
<1>4. CASE /\ r.era = era /\ UNCHANGED <<mem, store, told>>
           /\ wire' = (wire \ {r}) \cup {[r EXCEPT !.at = "gate", !.lib = lib]}
  <2> DEFINE q == [r EXCEPT !.at = "gate", !.lib = lib]
  <2>1. r \in Wires /\ lib \in 0..MaxLibs
    BY <1>1 DEF Typed
  <2>2. /\ q \in Wires /\ q.batch = r.batch /\ q.key = r.key /\ q.live = r.live
        /\ q.era = r.era /\ q.at = "gate" /\ q.lib = lib
    BY <2>1 DEF Wires
  <2>3. wire' = (wire \ {r}) \cup {q}
    BY <1>4
  <2> HIDE DEF q
  <2>4. q.era <= era /\ q.key.lib = lib /\ q.at # "host"
    BY <1>1, <1>2, <1>4, <2>2 DEF Meant
  <2>5. UNCHANGED <<library, target, mem, store, history, counts>>
    BY <1>2, <1>4 DEF history
  <2> QED
    BY <1>1, <2>2, <2>3, <2>4, <2>5, MoveStep
<1> QED
  BY <1>3, <1>4 DEF Authorized

\* What the library admits was meant for it.
LEMMA AdmittedIsMeant ==
  ASSUME Typed, Meant, NEW r \in wire, remote => r.at = "gate", Admitted(r)
  PROVE  r.key.lib = lib
<1>1. CASE remote
  BY <1>1 DEF Admitted, Meant
<1>2. CASE ~remote
  BY <1>2, KeyIs DEF Admitted, Meant
<1> QED
  BY <1>1, <1>2

LEMMA ExecuteStep ==
  ASSUME BatchInv, NEW r \in wire, Execute(r)
  PROVE  BatchInv'
<1>1. Typed /\ Meant /\ Receipts /\ wire \subseteq Wires /\ BatchInv
  BY Given
<1>2. UNCHANGED <<lib, era, target, born, sends, counts>> /\ (remote => r.at = "gate")
  BY DEF Execute
<1> DEFINE b == r.batch
<1>3. b \in Batches /\ made[b] \in Nat
  BY <1>1, WiresAre DEF Typed
<1>4. CASE \E code \in {"other", "invalid"} : Answers(r, code) /\ UNCHANGED <<journal, made>>
  <2>1. PICK code \in {"other", "invalid"} : Answers(r, code) /\ UNCHANGED <<journal, made>>
    BY <1>4
  <2>2. code # "receipt"
    OBVIOUS
  <2> QED
    BY <1>1, <1>2, <2>1, <2>2, AnswerStep
<1>5. CASE /\ Known(b) /\ UNCHANGED <<journal, made>>
           /\ Answers(r, IF journal[b] = lib THEN "receipt" ELSE "conflict")
  <2> DEFINE code == IF journal[b] = lib THEN "receipt" ELSE "conflict"
  <2>1. made'[r.batch] > 0
    BY <1>1, <1>3, <1>5 DEF Receipts
  <2>2. Answers(r, code) /\ UNCHANGED <<journal, made>>
    BY <1>5
  <2> HIDE DEF code
  <2> QED
    BY <1>1, <1>2, <2>1, <2>2, AnswerStep
<1>6. CASE Admitted(r) /\ ~Known(b) /\ Makes(b) /\ Answers(r, "receipt")
  <2>1. r.key.lib = lib
    BY <1>1, <1>2, <1>6, AdmittedIsMeant
  <2>2. made'[r.batch] > 0
    BY <1>1, <1>3, <1>6 DEF Makes, Typed
  <2> QED
    BY <1>1, <1>2, <1>6, <2>1, <2>2, AnswerStep
<1> QED
  BY <1>4, <1>5, <1>6 DEF Execute

-----------------------------------------------------------------------------
\* The library is replaced, or another one is chosen.

LEMMA RestoreStep ==
  ASSUME BatchInv, NEW l \in 1..MaxLibs, Restore(l)
  PROVE  BatchInv'
<1>1. /\ Typed /\ Recorded /\ Waiting /\ OneForm /\ Meant /\ Receipts /\ Answered /\ MadeOnce
      /\ mem \in [Keys -> Records] /\ store \in [Keys -> Records] /\ wire \subseteq Wires
  BY Given
<1>2. /\ UNCHANGED <<journal, remote, paired, mem, store, wire, made, told, newest, resets>>
      /\ lib' = l /\ l \in 1..newest /\ era' = era + 1 /\ restores' = restores + 1
      /\ \/ remote /\ conf' = conf /\ gen' = gen
         \/ ~remote /\ conf' = l /\ gen' = 0
  BY DEF Restore, JournalKept, Replaced, target, history
<1>3. era' \in Nat /\ era < era' /\ restores' \in Nat /\ restores' # 0
  BY <1>1, <1>2 DEF Typed
<1>4. Typed'
  BY <1>1, <1>2, <1>3 DEF Typed
<1>5. Recorded' /\ Waiting' /\ OneForm' /\ Answered'
  BY <1>1, <1>2 DEF Recorded, Waiting, OneForm, Answered, NothingForgotten
<1>6. Meant'
  <2>1. \A r \in wire : r.era \in Nat
    BY <1>1, WiresAre
  <2>2. \A r \in wire : r.era <= era' /\ r.era # era'
    BY <1>1, <1>2, <1>3, <2>1 DEF Meant, Typed
  <2> QED
    BY <1>1, <1>2, <2>2 DEF Meant
<1>7. Receipts' /\ MadeOnce'
  BY <1>1, <1>2, <1>3 DEF Receipts, MadeOnce, Known
<1> QED
  BY <1>4, <1>5, <1>6, <1>7 DEF BatchInv

LEMMA ResetStep ==
  ASSUME BatchInv, Reset
  PROVE  BatchInv'
<1>1. /\ Typed /\ Recorded /\ Waiting /\ OneForm /\ Meant /\ Receipts /\ Answered /\ MadeOnce
      /\ mem \in [Keys -> Records] /\ store \in [Keys -> Records] /\ wire \subseteq Wires
  BY Given
<1>2. /\ UNCHANGED <<remote, paired, mem, store, wire, made, told, restores>>
      /\ lib' = newest + 1 /\ newest' = newest + 1 /\ newest < MaxLibs
      /\ era' = era + 1 /\ resets' = resets + 1
      /\ journal' = [b \in Batches |-> NoReceipt]
      /\ \/ remote /\ conf' = conf /\ gen' = gen
         \/ ~remote /\ conf' = newest + 1 /\ gen' = 0
  BY DEF Reset, Emptied, Replaced, target, history
<1>3. /\ era' \in Nat /\ era < era' /\ resets' \in Nat /\ resets' # 0
      /\ newest \in Nat /\ newest < lib' /\ lib' \in 1..MaxLibs
  BY <1>1, <1>2 DEF Typed
<1>4. Typed'
  BY <1>1, <1>2, <1>3 DEF Typed, NoReceipt
<1>5. \A k \in Keys : k.lib \in Nat
  BY DEF Keys
<1>6. Recorded' /\ Waiting' /\ Answered'
  BY <1>1, <1>2 DEF Recorded, Waiting, Answered, NothingForgotten
<1>7. OneForm'
  <2>1. \A r \in wire : r.key \in Keys
    BY <1>1, WiresAre
  <2>2. \A k \in Keys : k.lib <= newest => k.lib <= newest'
    BY <1>2, <1>3, <1>5
  <2> QED
    BY <1>1, <1>2, <2>1, <2>2 DEF OneForm
<1>8. Meant'
  <2>1. \A r \in wire : r.era \in Nat
    BY <1>1, WiresAre
  <2>2. \A r \in wire : r.era <= era' /\ r.era # era'
    BY <1>1, <1>2, <1>3, <2>1 DEF Meant, Typed
  <2> QED
    BY <1>1, <1>2, <2>2 DEF Meant
<1>9. Receipts'
  <2>1. \A b \in Batches : journal'[b] = NoReceipt
    BY <1>2
  <2>2. \A r \in wire : r.key.lib # lib'
    BY <1>1, <1>3, <1>5, WiresAre DEF OneForm
  <2>3. \A k \in Keys : mem[k].status # "none" => k.lib # lib'
    BY <1>1, <1>3, <1>5 DEF OneForm
  <2> QED
    BY <1>2, <1>3, <2>1, <2>2, <2>3 DEF Receipts, Known
<1>10. MadeOnce'
  BY <1>1, <1>2, <1>3 DEF MadeOnce
<1> QED
  BY <1>4, <1>6, <1>7, <1>8, <1>9, <1>10 DEF BatchInv

LEMMA RetargetStep ==
  ASSUME BatchInv, NEW l \in 1..MaxLibs, Retarget(l)
  PROVE  BatchInv'
<1>1. /\ Typed /\ Recorded /\ Waiting /\ OneForm /\ Meant /\ Receipts /\ Answered /\ MadeOnce
      /\ mem \in [Keys -> Records] /\ store \in [Keys -> Records] /\ wire \subseteq Wires
  BY Given
<1>2. /\ UNCHANGED <<lib, journal, era, remote, paired, mem, store, wire, made, told,
                     newest, restores, resets>>
      /\ gen' = gen + 1 /\ gen < MaxGen /\ l <= newest
      /\ IF remote THEN conf' = l ELSE conf' = conf
  BY DEF Retarget, history, counts
<1>3. Typed'
  BY <1>1, <1>2 DEF Typed
<1>4. /\ Recorded' /\ Waiting' /\ OneForm' /\ Meant' /\ Receipts' /\ Answered' /\ MadeOnce'
  BY <1>1, <1>2 DEF Recorded, Waiting, OneForm, Meant, Receipts, Known, Answered,
                    NothingForgotten, MadeOnce
<1> QED
  BY <1>3, <1>4 DEF BatchInv

LEMMA PairStep ==
  ASSUME BatchInv, Pair
  PROVE  BatchInv'
<1>1. /\ Typed /\ Recorded /\ Waiting /\ OneForm /\ Meant /\ Receipts /\ Answered /\ MadeOnce
      /\ mem \in [Keys -> Records] /\ store \in [Keys -> Records] /\ wire \subseteq Wires
  BY Given
<1>2. /\ UNCHANGED <<lib, journal, era, remote, conf, gen, mem, store, wire, made, told,
                     newest, restores, resets>>
      /\ paired' = era
  BY DEF Pair, library, history, counts
<1>3. Typed'
  BY <1>1, <1>2 DEF Typed
<1>4. /\ Recorded' /\ Waiting' /\ OneForm' /\ Meant' /\ Receipts' /\ Answered' /\ MadeOnce'
  BY <1>1, <1>2 DEF Recorded, Waiting, OneForm, Meant, Receipts, Known, Answered,
                    NothingForgotten, MadeOnce
<1> QED
  BY <1>3, <1>4 DEF BatchInv

-----------------------------------------------------------------------------
\* The invariant, and what follows from it.

LEMMA InitBatchInv == BatchesInit => BatchInv
<1> SUFFICES ASSUME BatchesInit PROVE BatchInv
  OBVIOUS
<1>1. /\ \A k \in Keys : mem[k] = NoRecord /\ store[k] = NoRecord
      /\ mem \in [Keys -> Records] /\ store \in [Keys -> Records]
  BY NoRecordIs DEF BatchesInit
<1>2. /\ \A k \in Keys : /\ mem[k].batch = "none" /\ mem[k].status = "none" /\ mem[k].first = FALSE
                         /\ store[k].batch = "none" /\ store[k].status = "none"
                         /\ store[k].first = FALSE
  BY <1>1, NoRecordIs
<1>3. /\ lib = 1 /\ conf = 1 /\ newest = 1 /\ gen = 0 /\ era = 0 /\ paired = 0
      /\ remote \in BOOLEAN /\ wire = {} /\ told = {} /\ restores = 0 /\ resets = 0
      /\ journal = [b \in Batches |-> NoReceipt] /\ made = [b \in Batches |-> 0]
  BY DEF BatchesInit
<1>4. Typed
  BY <1>1, <1>3 DEF Typed, NoReceipt
<1>5. Recorded /\ Waiting /\ OneForm
  <2>1. \A k \in Keys : k.lib \in Nat
    BY DEF Keys
  <2>2. Recorded /\ Waiting
    BY <1>2, <1>3 DEF Recorded, Waiting
  <2> QED
    BY <1>2, <1>3, <2>2 DEF OneForm
<1>6. Meant
  BY <1>3 DEF Meant
<1>7. \A b \in Batches : made[b] = 0 /\ ~Known(b)
  BY <1>3 DEF Known
<1>8. Receipts /\ Answered /\ MadeOnce
  BY <1>2, <1>3, <1>7 DEF Receipts, Answered, NothingForgotten, MadeOnce
<1> QED
  BY <1>4, <1>5, <1>6, <1>8 DEF BatchInv

LEMMA StepIInv == BatchInv /\ [BatchesNext]_batchVars => BatchInv'
<1> SUFFICES ASSUME BatchInv, [BatchesNext]_batchVars PROVE BatchInv'
  OBVIOUS
<1>1. CASE \E k \in Keys : Retry(k)
  BY <1>1, RetryStep
<1>2. CASE \E k \in Keys : NextDraft(k)
  BY <1>2, NextDraftStep
<1>3. CASE \E k \in Keys : \E b \in Batches : Start(k, b)
  BY <1>3, StartStep
<1>4. CASE Reload(wire) \/ Reload({r \in wire : r.at # "desktop"})
  <2>1. wire \in SUBSET wire /\ {r \in wire : r.at # "desktop"} \in SUBSET wire
    OBVIOUS
  <2> QED
    BY <1>4, <2>1, ReloadStep
<1>5. CASE \E r \in wire : Preflight(r)
  BY <1>5, PreflightStep
<1>6. CASE \E r \in wire : Timeout(r)
  BY <1>6, TimeoutStep
<1>7. CASE \E r \in wire : Authorized(r)
  BY <1>7, AuthorizedStep
<1>8. CASE \E r \in wire : Execute(r)
  BY <1>8, ExecuteStep
<1>9. CASE \E l \in 1..MaxLibs : Restore(l)
  BY <1>9, RestoreStep
<1>10. CASE \E l \in 1..MaxLibs : Retarget(l)
  BY <1>10, RetargetStep
<1>11. CASE Reset
  BY <1>11, ResetStep
<1>12. CASE Pair
  BY <1>12, PairStep
<1>13. CASE UNCHANGED batchVars
  <2>1. UNCHANGED <<lib, journal, era, remote, conf, gen, paired, mem, store, wire, made, told,
                    newest, restores, resets>>
    BY <1>13 DEF batchVars, library, target, history, counts
  <2> QED
    BY <2>1 DEF BatchInv, Typed, Recorded, Waiting, OneForm, Meant, Receipts, Known, Answered,
                NothingForgotten, MadeOnce
<1> QED
  BY <1>1, <1>2, <1>3, <1>4, <1>5, <1>6, <1>7, <1>8, <1>9, <1>10, <1>11, <1>12, <1>13 DEF BatchesNext

\* The inductive invariant holds in every state: where a request can be, what the
\* forms keep of it in memory and in storage, and what the journal knows.
THEOREM BatchInvariance == BatchesSpec => []BatchInv
<1>1. BatchesInit => BatchInv
  BY InitBatchInv
<1>2. BatchInv /\ [BatchesNext]_batchVars => BatchInv'
  BY StepIInv
<1> QED
  BY <1>1, <1>2, PTL DEF BatchesSpec

\* A batch is made at most once, however often it is sent again and however late a
\* copy arrives (commit_catalog_spool_batch and its journal), as long as the library
\* is not both reset and restored.
THEOREM OnceOnly == BatchesSpec => []MadeOnce
<1>1. BatchInv => MadeOnce
  BY DEF BatchInv
<1> QED
  BY <1>1, BatchInvariance, PTL

\* A form that waits has one live request under way, and one that does not has none.
LEMMA WaitsForOne ==
  ASSUME BatchInv, NEW k \in Keys
  PROVE  mem[k].status = "saving" <=>
           Cardinality({r \in wire : r.key = k /\ r.live /\ r.batch = mem[k].batch}) = 1
<1> DEFINE S == {r \in wire : r.key = k /\ r.live /\ r.batch = mem[k].batch}
<1>1. Waiting
  BY Given
<1>2. CASE mem[k].status = "saving"
  <2>1. PICK r \in wire : r.live /\ r.key = k
    BY <1>1, <1>2 DEF Waiting
  <2>2. S = {r}
    BY <1>1, <2>1 DEF Waiting
  <2>3. Cardinality(S) = 1
    BY <2>2, FS_Singleton
  <2> QED
    BY <1>2, <2>3
<1>3. CASE mem[k].status # "saving"
  <2>1. S = {}
    BY <1>1, <1>3 DEF Waiting
  <2>2. Cardinality(S) = 0
    BY <2>1, FS_EmptySet
  <2> QED
    BY <1>3, <2>2
<1> QED
  BY <1>2, <1>3

LEMMA TypesAre == BatchInv => BatchesTypeOK
<1> SUFFICES ASSUME BatchInv PROVE BatchesTypeOK
  OBVIOUS
<1>1. Typed
  BY Given
<1>2. \A k \in Keys : mem[k].status = "saving" <=>
        Cardinality({r \in wire : r.key = k /\ r.live /\ r.batch = mem[k].batch}) = 1
  BY WaitsForOne
<1> QED
  BY <1>1, <1>2 DEF BatchesTypeOK, Typed

\* What a form says is true, whatever was lost, late or repeated, and over crashes and
\* storage errors (BambuBatchRegistrationController): complete means made, rejected
\* means not made and never to be made, and a batch that was made is told or still kept.
THEOREM FormsSayTheTruth == BatchesSpec => []AnswersAreTrue
<1>1. BatchInv => AnswersAreTrue
  <2> SUFFICES ASSUME BatchInv PROVE AnswersAreTrue
    OBVIOUS
  <2>1. Typed /\ Recorded /\ Answered /\ BatchesTypeOK
    BY Given, TypesAre
  <2>2. ASSUME NEW k \in Keys
        PROVE  /\ mem[k].status = "complete" => made[mem[k].batch] > 0
               /\ mem[k].status = "rejected" =>
                    made[mem[k].batch] = 0 /\ \A r \in wire : r.batch # mem[k].batch
    BY <2>1 DEF Answered
  <2>3. ASSUME NEW k \in Keys
        PROVE  /\ store[k].batch = mem[k].batch
               /\ store[k].status \in {"complete", "rejected"} => mem[k].status = store[k].status
    BY <2>1 DEF Recorded
  <2>4. ASSUME NEW k \in Keys
        PROVE  /\ store[k].status = "complete" => made[store[k].batch] > 0
               /\ store[k].status = "rejected" =>
                    made[store[k].batch] = 0 /\ \A r \in wire : r.batch # store[k].batch
    BY <2>2, <2>3
  <2>5. ASSUME NEW k \in Keys, NEW c \in {mem[k], store[k]}
        PROVE  /\ c.status = "complete" => made[c.batch] > 0
               /\ c.status = "rejected" => made[c.batch] = 0 /\ \A r \in wire : r.batch # c.batch
    <3>1. CASE c = mem[k]
      BY <2>2, <3>1
    <3>2. CASE c = store[k]
      BY <2>4, <3>2
    <3> QED
      BY <2>5, <3>1, <3>2
  <2> QED
    BY <2>1, <2>5 DEF AnswersAreTrue, Answered
<1> QED
  BY <1>1, BatchInvariance, PTL
=============================================================================
