---------------------------- MODULE MCOwnedRows ----------------------------
(* Instances of OwnedRows for TLC. *)
EXTENDS OwnedRows, MCUserAdmin
=============================================================================
