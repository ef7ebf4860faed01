------------------------------ MODULE MCSaves ------------------------------
(* An instance of RegisterOutbox for TLC. *)
EXTENDS RegisterOutbox
=============================================================================
