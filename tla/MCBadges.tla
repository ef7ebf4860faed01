------------------------------ MODULE MCBadges ------------------------------
(* Instances of BadgeCounters for TLC: which endpoints the clients call.   *)
EXTENDS BadgeCounters, RegisterSafety, TLC

(* Every endpoint that posts the transitions it makes on a row, and the    *)
(* two that post none because they may (see SilentDiscards).  The row is   *)
(* created with an issue flag: one without can do nothing that it cannot.  *)
CountedEndpoints ==
    ScopedOps \cup SaveOps \cup ManagerOps \cup
    {"create_flagged", "submit_day", "discard_day", "delete", "request_delete",
     "request_restore", "confirm_deletion", "discard_rejected",
     "restore_discarded"}

(* Bulk and single endpoints on two rows, and the life of a pending edit,  *)
(* for overlapping requests.                                               *)
SharedEndpoints ==
    {"create", "submit_day", "discard_drafts", "approve", "reject", "resubmit",
     "return_to_inbox", "request_delete", "confirm_deletion", "restore_own",
     "restore_trash", "pending_edit", "re_approve", "restore_deletion"}

(* A deletion confirmed from the list, in bulk.                            *)
BulkConfirmEndpoints ==
    {"create", "submit_day", "approve", "request_delete", "bulk_confirm_deletions"}

(* Without pending edits the issue flag decides only whether a row gets on *)
(* the Issues tab.                                                         *)
Unflagged(docs) ==
    [i \in TxIds |->
        IF docs[i] # NoDoc /\ <<i, "approve">> \in shown
        THEN [docs[i] EXCEPT !.issue = FALSE]
        ELSE docs[i]]

RowsView == <<Unflagged(db), issued, shown,
              [r \in Requests |-> [req[r] EXCEPT !.docs = Unflagged(@)]],
              badges, repair, drift>>

(* Nothing is claimed after a repair that somebody wrote beside, or after  *)
(* a worker took a delta with it and the repair failed.                    *)
RepairTells ==
    /\ Repairing => repair.alone
    /\ drift => Repairing

(* Rows are interchangeable, and so are requests and users.                *)
Symmetry == Permutations(TxIds) \cup Permutations(Requests) \cup Permutations(Cashiers)
=============================================================================
