------------------------------ MODULE MCOutbox ------------------------------
(* An instance of MappingOutbox for TLC. *)
EXTENDS MappingOutbox
=============================================================================
