--------------------------- MODULE CatalogRefresh ---------------------------
(***************************************************************************)
(* What a catalog refresh job promises to the window or paired Client that *)
(* asked for it, with no process, worker, lock or restart in sight:        *)
(*                                                                         *)
(*   - a job is a one-shot transaction: the catalog receives the refreshed *)
(*     entries in the very step in which the job becomes "succeeded", and  *)
(*     a job that is "failed" or "interrupted" never changed the catalog;  *)
(*   - at most one job runs in a library;                                  *)
(*   - an outcome is final: only replacing the whole library (a restored   *)
(*     backup or an app reset) forgets it.                                 *)
(*                                                                         *)
(* CatalogJobs.tla is the mechanism that has to keep this promise.         *)
(***************************************************************************)

CONSTANTS JobIds,     \* ids a requester may choose
          Merges      \* identities of merges of refreshed entries

VARIABLES outcome,    \* JobIds -> outcome the requester can observe
          merged      \* merges the catalog currently contains

Outcomes == {"absent", "RUNNING", "SUCCEEDED", "FAILED", "INTERRUPTED"}

Init == /\ outcome = [j \in JobIds |-> "absent"]
        /\ merged = {}

\* A refresh that died is retired at the latest when the next one begins.
Begin(j) == /\ outcome[j] = "absent"
            /\ outcome' \in [JobIds -> Outcomes]
            /\ outcome'[j] = "RUNNING"
            /\ \A k \in JobIds \ {j} :
                  outcome'[k] = IF outcome[k] = "RUNNING"
                                THEN "INTERRUPTED" ELSE outcome[k]
            /\ UNCHANGED merged

Commit(j) == /\ outcome[j] = "RUNNING"
             /\ outcome' = [outcome EXCEPT ![j] = "SUCCEEDED"]
             /\ \E m \in merged' \ merged :
                   m \in Merges /\ merged' = merged \cup {m}

\* Running jobs end without a merge; several of them may end in one step.
Abandon == /\ outcome' \in [JobIds -> Outcomes]
           /\ \A j \in JobIds :
                 \/ outcome'[j] = outcome[j]
                 \/ /\ outcome[j] = "RUNNING"
                    /\ outcome'[j] \in {"FAILED", "INTERRUPTED"}
           /\ UNCHANGED merged

\* The user drops refreshed entries from the catalog, which also ends jobs.
ResetCatalog == /\ merged' \in SUBSET merged
                /\ outcome' = [j \in JobIds |->
                      IF outcome[j] = "RUNNING" THEN "INTERRUPTED" ELSE outcome[j]]

\* The library is replaced: the ledger starts over.
ReplaceLibrary == /\ merged' \in SUBSET merged
                  /\ outcome' = [j \in JobIds |-> "absent"]

Next == \/ \E j \in JobIds : Begin(j) \/ Commit(j)
        \/ Abandon
        \/ ResetCatalog
        \/ ReplaceLibrary

Spec == Init /\ [][Next]_<<outcome, merged>>
=============================================================================
