--------------------------- MODULE RegisterSafety ---------------------------
(***************************************************************************)
(* Safety properties of the life cycle of register rows, for any number of *)
(* handlers interleaving on the same rows.                                 *)
(***************************************************************************)
EXTENDS RegisterLifecycle

Gone(i) == db[i] # NoDoc /\ db'[i] = NoDoc
Kept(i) == db[i] # NoDoc /\ db'[i] # NoDoc

(* A submitted row that waits in the verify inbox is never hard-deleted,   *)
(* only its pending-edit clones are: no handler that deletes drafts,       *)
(* discarded or trashed rows can hit it, whatever was submitted, restored  *)
(* or resubmitted since the handler looked (TRASH_DELETE_PLAN.md:          *)
(* "Submitted, unverified" is soft-trashed).  The inbox query has no       *)
(* "discarded" clause, so this rests on every handler that puts a row back *)
(* in the inbox clearing that flag.                                        *)
InboxRowsOutliveDeletes ==
    [][\A i \in TxIds :
         Gone(i) /\ inbox_base_query(db[i]) => db[i].original # NoOne]_vars

(* A row its cashier discarded is rejected, or approved since: the         *)
(* accountants do not see it as waiting, and no register screen does.      *)
DiscardedIsSettled ==
    \A i \in Stored : db[i].discarded => db[i].rejected \/ db[i].verified

(* The trash flags of a row agree: a restore request is always on a        *)
(* trashed row, so the restores list shows it, and every trashed row has   *)
(* someone in whose trash it appears, however trash, restore, clone and    *)
(* request handlers interleave.                                            *)
TrashFlagsAgree ==
    \A i \in Stored :
        /\ db[i].restore => db[i].trashed
        /\ db[i].trashed <=> db[i].trashed_by # NoOne

(* discard and restore-discarded post no delta: they may, because no write *)
(* of theirs ever changes a queue the badges count.  This rests on every   *)
(* other handler clearing "discarded" when it clears "rejected".           *)
SameQueues(row, row2) ==
    \A b \in Buckets : InBucket(b, row) <=> InBucket(b, row2)

Writing(r) == req[r].pc = "write" /\ req'[r].todo # req[r].todo

SilentDiscards ==
    [][\A r \in Requests :
         Writing(r) /\ req[r].op \in {"discard_rejected", "restore_discarded"}
           => \A i \in TxIds : SameQueues(db[i], db'[i])]_vars

(* The New tab never lists a pending edit: Approve there would leave it as *)
(* a second master row beside its original, where re-approve would have    *)
(* copied its values into the original and dropped it.  This rests on the  *)
(* edited mark of the clone, through all saves, rejections, resubmissions  *)
(* and restores of it, and on no cascade ever landing on a clone.          *)
NewTabListsNoEdits ==
    \A i \in Stored : db[i].original # NoOne => ~OnNewTab(db[i])

(* TRASH_DELETE_PLAN.md: a verified row is deleted by "Request delete      *)
(* only"; it leaves the collection from the trash, whatever deletes drafts *)
(* and discarded rows beside its approval.  The exception is a row that    *)
(* was rejected and discarded, and then approved from a page of the inbox  *)
(* listed before: approve leaves the discarded mark, and delete_discarded  *)
(* of transactions_api.py has no verified clause.  (A pending edit goes    *)
(* with its original, verified or not.)                                    *)
VerifiedLeavesThroughTrash ==
    [][\A i \in TxIds :
         Gone(i) /\ db[i].verified /\ db[i].original = NoOne
           => db[i].trashed \/ db[i].discarded]_vars

-----------------------------------------------------------------------------
(* What the documents say of the program and the code does not keep when   *)
(* handlers overlap or screens are stale; each is the property of one      *)
(* "violation" run.                                                        *)

(* transactions_api.py, request-delete: "Verified -> accountant must       *)
(* confirm (Verify -> Deleted), then Trash."  A verified row reaches the   *)
(* trash only while a deletion is requested for it.                        *)
VerifiedTrashedOnRequest ==
    [][\A i \in TxIds :
         Kept(i) /\ db[i].verified /\ ~db[i].trashed /\ db'[i].trashed
           => db[i].deletion]_vars

(* cashier_service.py, insert_pending_edit: "The pending doc carries       *)
(* original_transaction_id so the accountant's re_approve_transaction can  *)
(* cascade the new values back to the original."  A pending edit never     *)
(* becomes a verified row of its own.                                      *)
PendingEditsCascade ==
    [][\A i \in TxIds : Kept(i) /\ IsPendingClone(db[i]) => ~db'[i].verified]_vars
=============================================================================
