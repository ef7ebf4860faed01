---------------------------- MODULE MappingJobs ----------------------------
(***************************************************************************)
(* What the mapping-apply outbox promises about a job, whatever happens to *)
(* the requests it sends: a job that was accepted ends (done, failed for   *)
(* good, or cancelled by Undo), a job that is called done has reached the  *)
(* register, and only a job that was sent reaches it.                      *)
(***************************************************************************)
CONSTANT JobIds

VARIABLES ledger,   \* what the outbox says of each job
          sent,     \* the jobs some request was sent for
          applied   \* the jobs the server has written onto the rows

ledgerVars == <<ledger, sent, applied>>

Init ==
  /\ ledger = [j \in JobIds |-> "none"]
  /\ sent = {}
  /\ applied = {}

\* What one step may say about a job that it did not say before.
Judge(j) ==
  \/ ledger'[j] = ledger[j]
  \/ ledger[j] = "none" /\ ledger'[j] = "open"
  \/ ledger[j] = "open" /\ j \in applied /\ ledger'[j] = "done"
  \/ ledger[j] = "open" /\ j \in sent /\ ledger'[j] = "failed"
  \/ ledger[j] \in {"open", "failed"} /\ ledger'[j] = "cancelled"

\* Nothing calls a request back: the server may write a job at any time after
\* it was sent, cancelled or not.
Next ==
  /\ DOMAIN ledger' = JobIds
  /\ \A j \in JobIds : Judge(j)
  /\ sent \subseteq sent' /\ \A j \in sent' \ sent : ledger[j] = "open"
  /\ applied \subseteq applied' /\ applied' \subseteq applied \cup sent

Settles(j) == (ledger[j] = "open") ~> (ledger[j] # "open")

Spec == Init /\ [][Next]_ledgerVars /\ \A j \in JobIds : Settles(j)

=============================================================================
