---------------------------- MODULE RegisterRows ----------------------------
(***************************************************************************)
(* The documents of the "transactions" collection, reduced to the fields   *)
(* that decide which queue a row is in, and the query predicates the API   *)
(* evaluates on them.  Amounts, dates, descriptions and plates are left    *)
(* out: no filter of the life cycle reads them.  All rows belong to one    *)
(* register day.                                                           *)
(***************************************************************************)
EXTENDS Naturals

CONSTANTS
    TxIds,        \* document ids (an ObjectId is never used twice)
    Cashiers,     \* users who own register rows
    Accountants,  \* users of the manager endpoints
    NoDoc,        \* what find_one returns when no document matches
    NoOne         \* an unset user or document reference

Users == Cashiers \cup Accountants

ASSUME RowConstants ==
    /\ Cashiers \cap Accountants = {}
    /\ NoOne \notin TxIds /\ NoOne \notin Users

Statuses == {"draft", "parked", "submitted"}

Row == [status       : Statuses,
        cashier      : Cashiers,
        original     : TxIds \cup {NoOne},    \* original_transaction_id
        edited       : BOOLEAN,               \* edited_after_verification
        issue        : BOOLEAN,               \* possible_duplicate or date_discrepancy
        verified     : BOOLEAN,
        rejected     : BOOLEAN,
        discarded    : BOOLEAN,
        deletion     : BOOLEAN,               \* deletion_requested
        trashed      : BOOLEAN,
        trashed_by   : Users \cup {NoOne},
        restore      : BOOLEAN]               \* restore_requested

ASSUME NoDocIsNoRow == NoDoc \notin Row

(* Definitions marked "slip" are wrong on purpose: each differs from the    *)
(* next definition by one plausible mistake, and the mutation tests of the *)
(* runs put it in that definition's place.                                 *)

NewRowUnowned(c, s, f) ==   \* slip: the owner is not stored
    [status |-> s, cashier |-> NoOne, original |-> NoOne, edited |-> FALSE,
     issue |-> f, verified |-> FALSE, rejected |-> FALSE, discarded |-> FALSE,
     deletion |-> FALSE, trashed |-> FALSE, trashed_by |-> NoOne,
     restore |-> FALSE]

(* A register row as POST /transactions stores it: every flag at its        *)
(* default, but for the issue the client saw when the row was typed.       *)
NewRow(c, s, f) ==
    [status |-> s, cashier |-> c, original |-> NoOne, edited |-> FALSE,
     issue |-> f, verified |-> FALSE, rejected |-> FALSE, discarded |-> FALSE,
     deletion |-> FALSE, trashed |-> FALSE, trashed_by |-> NoOne,
     restore |-> FALSE]

(* Membership in the six queues, as badge_counters.py decides it on a       *)
(* document in memory.  Note that "discarded" is not a clause of in_verify. *)

OpenRegister(row) ==
    ~ (row.verified \/ row.rejected \/ row.discarded \/ row.deletion \/ row.trashed)

InDrafts(row) == row.status = "draft" /\ OpenRegister(row)
InParked(row) == row.status = "parked" /\ OpenRegister(row)

InVerify(row) ==
    /\ row.status = "submitted"
    /\ ~ (row.verified \/ row.rejected \/ row.trashed \/ row.deletion)

InEdited(row) == InVerify(row) /\ row.edited

InDeletionRequests(row) == row.deletion /\ ~row.trashed
InRestoreRequests(row) == row.trashed /\ row.restore

(* The queries that list and count the same queues in the database; they    *)
(* are written apart from the functions above.                              *)

OPEN_REGISTER_MATCH(row) ==     \* slip: any status
    /\ ~row.verified /\ ~row.rejected
    /\ ~row.discarded /\ ~row.deletion /\ ~row.trashed
DRAFTS_OF_THE_GRID(row) ==      \* slip: an approved draft is not told apart
    /\ row.status = "draft" /\ ~row.rejected
    /\ ~row.discarded /\ ~row.deletion /\ ~row.trashed
DRAFT_BASE_MATCH(row) ==
    /\ row.status = "draft" /\ ~row.verified /\ ~row.rejected
    /\ ~row.discarded /\ ~row.deletion /\ ~row.trashed
PARKED_BASE_MATCH(row) ==
    /\ row.status = "parked" /\ ~row.verified /\ ~row.rejected
    /\ ~row.discarded /\ ~row.deletion /\ ~row.trashed
inbox_base_query(row) ==
    /\ row.status = "submitted" /\ ~row.verified /\ ~row.rejected
    /\ ~row.trashed /\ ~row.deletion
edited_count_query(row) == inbox_base_query(row) /\ row.edited
build_issue_query(row) == row.issue /\ ~row.verified /\ ~row.rejected
NotTrashed(row) == ~row.trashed     \* slip: the request is not checked
DELETION_BASE_MATCH(row) == row.deletion /\ ~row.trashed
RESTORE_COUNT_MATCH(row) == row.trashed /\ row.restore

(* A pending edit of a verified row, waiting for re-approval. *)
IsPendingClone(row) == row.original # NoOne /\ ~row.verified

(* _cashier_trash_scope: rows the cashier owns, or put in the trash. *)
InTrashScope(row, u) == row.cashier = u \/ row.trashed_by = u

(* What a screen shows a row as, where that decides which request a user   *)
(* sends for it: the tabs of the verify inbox, of which New and Issues     *)
(* approve a row and Edited re-approves it; and the register grid, which   *)
(* marks a save of a row it shows as submitted and sends a pending edit    *)
(* for one it shows as verified.                                           *)
Screens == {"approve", "edited", "submitted", "verified"}

OnNewTab(row) == inbox_base_query(row) /\ ~row.edited
OnApproveTab(row) == OnNewTab(row) \/ build_issue_query(row)

ShowsOn(row) ==
    {screen \in Screens :
        /\ row # NoDoc
        /\ CASE screen = "approve"   -> OnApproveTab(row)
             [] screen = "edited"    -> edited_count_query(row)
             [] screen = "submitted" -> row.status = "submitted"
             [] screen = "verified"  -> row.verified}

-----------------------------------------------------------------------------
(* The stored badges: six totals, and drafts and parked per cashier. *)

BadgeKeys == {"verify", "edited", "drafts", "parked",
              "deletion_requests", "restore_requests"}

Totals == NoOne     \* the owner under which a total is filed

Buckets == [owner : {Totals}, key : BadgeKeys]
           \cup [owner : Cashiers, key : {"drafts", "parked"}]

(* transition_delta: membership(doc)[key], and touch for the buckets of a   *)
(* cashier.                                                                *)
InBucket(bucket, row) ==
    /\ row # NoDoc
    /\ bucket.owner \in {Totals, row.cashier}
    /\ CASE bucket.key = "verify"            -> InVerify(row)
         [] bucket.key = "edited"            -> InEdited(row)
         [] bucket.key = "drafts"            -> InDrafts(row)
         [] bucket.key = "parked"            -> InParked(row)
         [] bucket.key = "deletion_requests" -> InDeletionRequests(row)
         [] bucket.key = "restore_requests"  -> InRestoreRequests(row)

(* repair_badge_counters and _cashier_buckets: the rows a full count finds. *)
Listed(bucket, row) ==
    /\ row # NoDoc
    /\ bucket.owner \in {Totals, row.cashier}
    /\ CASE bucket.key = "verify"            -> inbox_base_query(row)
         [] bucket.key = "edited"            -> edited_count_query(row)
         [] bucket.key = "drafts"            -> DRAFT_BASE_MATCH(row)
         [] bucket.key = "parked"            -> PARKED_BASE_MATCH(row)
         [] bucket.key = "deletion_requests" -> DELETION_BASE_MATCH(row)
         [] bucket.key = "restore_requests"  -> RESTORE_COUNT_MATCH(row)
=============================================================================
