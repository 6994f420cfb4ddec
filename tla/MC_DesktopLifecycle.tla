------------------------ MODULE MC_DesktopLifecycle ------------------------
(* Every restart of the listener and two exit requests, one of each change. *)
EXTENDS DesktopLifecycle, TLC
=============================================================================
