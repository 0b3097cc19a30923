------------------------------ MODULE MCCollation ------------------------------
(* Collation for TLC. *)
EXTENDS Collation
=============================================================================
