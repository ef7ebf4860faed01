----------------------------- MODULE MCRegister -----------------------------
(* Instances of RegisterSafety for TLC. *)
EXTENDS RegisterSafety, TLC

(* Every endpoint the desktop client calls on a row without clones: all    *)
(* but DELETE by id, which cashier_service.py keeps out of the register    *)
(* screens ("no status guards"), and pending edits.  The row is created    *)
(* with an issue flag: one without can do nothing that it cannot.          *)
ClientEndpoints ==
    ScopedOps \cup ScopedUnnotedOps \cup SaveOps \cup ManagerOps \cup
    {"create_flagged", "submit_day", "discard_day", "request_delete",
     "request_restore", "confirm_deletion",
     "bulk_restore_deletions", "bulk_confirm_deletions"}

(* An accountant approving a row while its cashier deletes it.             *)
RaceEndpoints == {"create", "submit_day", "approve", "request_delete"}

(* Approving from the Issues tab.                                          *)
IssueEndpoints ==
    {"create_flagged", "submit_day", "save_edited", "approve", "re_approve",
     "pending_edit"}

(* The remembered documents decide the badge deltas, which RegisterSafety  *)
(* does not have; its steps only depend on which original a remembered     *)
(* clone belongs to, and a request in its last reply on nothing at all.    *)
(* States that agree on the rest are explored once.                        *)
OriginalOf(doc) == IF doc = NoDoc THEN NoOne ELSE doc.original

Ahead(q) ==
    IF q.pc = "note" /\ q.next.op = "none"
    THEN <<"last reply">>
    ELSE <<[q EXCEPT !.docs = NoDocs, !.next.docs = NoDocs],
           [i \in TxIds |-> OriginalOf(q.next.docs[i])]>>

(* The issue flag decides only whether a row gets on the Issues tab, and   *)
(* what a pending edit of it inherits.                                     *)
Flags ==
    [i \in TxIds |->
        IF db[i] # NoDoc /\ <<i, "approve">> \in shown /\ "pending_edit" \notin Endpoints
        THEN [db[i] EXCEPT !.issue = FALSE]
        ELSE db[i]]

(* What the grid showed as verified only matters for pending edits.        *)
Seen ==
    IF "pending_edit" \in Endpoints THEN shown
    ELSE {p \in shown : p[2] # "verified"}

View == <<Flags, issued, Seen, [r \in Requests |-> Ahead(req[r])]>>

Symmetry == Permutations(TxIds) \cup Permutations(Requests)
=============================================================================
