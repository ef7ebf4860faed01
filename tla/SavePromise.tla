---------------------------- MODULE SavePromise ----------------------------
(***************************************************************************)
(* What "Saved locally, will sync" promises of each row of the register:   *)
(* it reaches the server once the cashier has saved it, and only then, and *)
(* what the server has stored it keeps.  A row is released when the        *)
(* cashier takes it back or the client cannot keep the promise; what then  *)
(* becomes of it is left open.                                             *)
(***************************************************************************)
CONSTANT Ids

VARIABLE fate

fateVars == fate

Init == fate = [i \in Ids |-> "none"]

\* What one step may do to a row.
Judge(i) ==
  \/ fate'[i] = fate[i]
  \/ fate[i] = "none" /\ fate'[i] = "promised"
  \/ fate[i] = "promised" /\ fate'[i] = "stored"
  \/ fate[i] \in {"none", "promised"} /\ fate'[i] = "released"
  \/ fate[i] = "released" /\ fate'[i] = "stored"

Next == DOMAIN fate' = Ids /\ \A i \in Ids : Judge(i)

Settles(i) == (fate[i] = "promised") ~> (fate[i] # "promised")

Spec == Init /\ [][Next]_fateVars /\ \A i \in Ids : Settles(i)

=============================================================================
