----------------------------- MODULE MCBackups -----------------------------
(* A scheduler on one host, an admin's API on another. *)
EXTENDS BackupScheduler
CONSTANTS s1, a1, x1, h1, h2

Apart(p) == IF p = s1 THEN h1 ELSE h2
=============================================================================
