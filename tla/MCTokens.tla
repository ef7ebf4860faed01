------------------------------ MODULE MCTokens ------------------------------
(* Instance of TokenRefresh for TLC.                                       *)
EXTENDS TokenRefresh, TLC
=============================================================================
