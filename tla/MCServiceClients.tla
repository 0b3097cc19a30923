--------------------------- MODULE MCServiceClients ---------------------------
(* ServiceClients for TLC. *)
EXTENDS ServiceClients
=============================================================================
