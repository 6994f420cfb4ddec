---------------------------- MODULE MC_HostRoutes ----------------------------
(* Threads of a Client on the route to one Host, which may be evicted. *)
EXTENDS HostRoutes, TLC
=============================================================================
