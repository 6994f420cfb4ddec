------------------------- MODULE MC_CredentialVault -------------------------
(* Two codes of one printer, from whatever an older release left. *)
EXTENDS CredentialVault
=============================================================================
