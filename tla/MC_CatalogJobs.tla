-------------------------- MODULE MC_CatalogJobs --------------------------
(* Two job ids and workers, changes of library, and a restart. *)
EXTENDS CatalogJobs, TLC
=============================================================================
