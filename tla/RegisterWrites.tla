--------------------------- MODULE RegisterWrites ---------------------------
(***************************************************************************)
(* What each endpoint writes: the filter of its update or delete, without  *)
(* the "_id" clause, and the document its $set leaves.  The filter is      *)
(* evaluated by MongoDB on the row as it is when the write reaches it.     *)
(***************************************************************************)
EXTENDS RegisterRows

(* The register's own drafts: submit, and the two hard deletes of drafts.  *)
SubmitFilter(row) ==
    row.status = "draft" /\ ~ (row.verified \/ row.rejected \/ row.discarded)
Submitted(row) == [row EXCEPT !.status = "submitted"]

DiscardDraftFilter(row, scope) ==
    DRAFT_BASE_MATCH(row) /\ scope \in {NoOne, row.cashier}

(* In-place saves of the grid: the status the grid computed; for a row it  *)
(* shows as submitted also the edited mark; for one it shows as rejected   *)
(* also the unreject.                                                      *)
Saved(row, s) == [row EXCEPT !.status = s]
SavedEdited(row, s) == [row EXCEPT !.status = s, !.edited = TRUE]
SavedRejected(row, s) ==
    [row EXCEPT !.status = s, !.edited = TRUE, !.rejected = FALSE, !.discarded = FALSE]

(* Accountant: the verify inbox. *)
ApproveFilter(row) == ~row.verified
Approved(row) == [row EXCEPT !.verified = TRUE, !.issue = FALSE]
RejectedBy(row) ==
    [row EXCEPT !.verified = FALSE, !.rejected = TRUE, !.discarded = FALSE]
ReApproved(row) ==
    [row EXCEPT !.verified = TRUE, !.rejected = FALSE, !.edited = FALSE]
ReturnFilter(row) == row.rejected
ReturnedOnly(row) == [row EXCEPT !.rejected = FALSE]   \* slip: still discarded
Returned(row) == [row EXCEPT !.rejected = FALSE, !.discarded = FALSE]

(* Cashier: the rejected list. *)
DiscardRejectedFilter(row, c) == row.cashier = c /\ row.rejected /\ ~row.discarded
Discarded(row) == [row EXCEPT !.discarded = TRUE]
DiscardedFilter(row, c) == row.cashier = c /\ row.discarded
Undiscarded(row) == [row EXCEPT !.discarded = FALSE]
ResubmitFilter(row, c) == row.cashier = c /\ row.rejected /\ ~row.discarded
Resubmitted(row) == [row EXCEPT !.rejected = FALSE, !.discarded = FALSE]

(* Pending edits of a verified row. *)
CloneUnmarked(row, o, s) ==     \* slip: inserted like a new row
    [row EXCEPT !.status = s, !.original = o, !.verified = FALSE,
                !.rejected = FALSE, !.discarded = FALSE]
CloneOf(row, o, s) ==
    [row EXCEPT !.status = s, !.original = o, !.edited = TRUE, !.verified = FALSE,
                !.rejected = FALSE, !.discarded = FALSE]
CloneEdited(row, s) ==
    [row EXCEPT !.status = s, !.edited = TRUE, !.verified = FALSE,
                !.rejected = FALSE, !.discarded = FALSE]

(* Deleting: unverified rows go to the trash, verified ones wait for an    *)
(* accountant.                                                             *)
TrashedBy(row, u) ==
    [row EXCEPT !.trashed = TRUE, !.trashed_by = u,
                !.deletion = FALSE, !.restore = FALSE]
DeletionAsked(row) == [row EXCEPT !.deletion = TRUE]
DeletionConfirmed(row, u) ==
    [row EXCEPT !.trashed = TRUE, !.trashed_by = u, !.deletion = FALSE]
DeletionRefused(row) == [row EXCEPT !.deletion = FALSE]

(* The trash. *)
OwnTrashFilter(row, u) == row.trashed /\ ~row.verified /\ InTrashScope(row, u)
RequestRestoreFilter(row, u) == row.trashed /\ row.verified /\ InTrashScope(row, u)
RestoreAsked(row) == [row EXCEPT !.restore = TRUE]
CancelRestoreFilter(row, u) == row.trashed /\ row.restore /\ InTrashScope(row, u)
RestoreCleared(row) == [row EXCEPT !.restore = FALSE]
TrashLeft(row) ==           \* slip: the restore request stays
    [row EXCEPT !.trashed = FALSE, !.trashed_by = NoOne]
TrashCleared(row) ==
    [row EXCEPT !.trashed = FALSE, !.trashed_by = NoOne, !.restore = FALSE]
=============================================================================
