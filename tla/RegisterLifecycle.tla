------------------------- MODULE RegisterLifecycle -------------------------
(***************************************************************************)
(* The endpoints that create, change and remove register rows, as request  *)
(* handlers that run concurrently (three API workers, many clients).  A    *)
(* handler awaits the database several times; between two awaits any other *)
(* handler may run.  Every handler has the same shape:                     *)
(*                                                                         *)
(*   load   read the rows it is about to change (load_badge_docs, find_one)*)
(*   write  update_one / update_many / delete_many with a filter; MongoDB  *)
(*          is atomic for one document, so a bulk write visits one row at  *)
(*          a time and evaluates its filter on the row as it is then       *)
(*   note   post the badge delta computed from the REMEMBERED rows         *)
(*                                                                         *)
(* Some handlers have a second find before the write, and two of them run  *)
(* a second stage (delete the clones, then the row; or the other way       *)
(* round).  What "note" does to the counters is in BadgeCounters.          *)
(***************************************************************************)
EXTENDS RegisterWrites, FiniteSets

CONSTANTS
    Requests,     \* slots for requests in flight
    Endpoints     \* the endpoints the clients of this instance call

VARIABLES
    db,           \* the transactions collection: id -> document or NoDoc
    issued,       \* ids ever given to a document
    shown,        \* the rows each screen has ever shown
    req           \* the requests in flight

vars == <<db, issued, shown, req>>

-----------------------------------------------------------------------------
(* Filters and updates, one line per endpoint or stage of an endpoint. *)

Inserts == {"create", "insert_clone"}

Deletes == {"discard_drafts", "discard_day", "delete_discarded", "purge_own",
            "delete", "drop_clone", "drop_clones_of", "purge_trash"}

(* Handlers that post their delta without looking at the write's result.   *)
Blind == {"trash", "ask_deletion", "drop_clone", "request_restore", "edit_clone"}

(* Bulk endpoints of the register whose filter is scoped to the cashier.   *)
ScopedOps == {"discard_drafts", "resubmit", "restore_own", "purge_own",
              "cancel_restore"}

(* Bulk endpoints of the register that never touch the badges.             *)
ScopedUnnotedOps == {"discard_rejected", "restore_discarded",
                     "delete_discarded", "bulk_request_restore"}

(* In-place saves of the grid: status only; status and the edited flag;    *)
(* and the same for a row the grid shows as rejected.                      *)
SaveOps == {"save_open", "save_edited", "save_rejected"}

(* Verify-inbox and trash endpoints of the accountants.                    *)
InboxOps == {"approve", "reject", "re_approve", "return_to_inbox"}
ManagerOps == InboxOps \cup {"restore_deletion", "confirm_restore",
                             "reject_restore", "restore_trash", "purge_trash"}

(* Stages that other endpoints lead to.                                    *)
StageOps == {"trash", "ask_deletion", "drop_clone", "edit_clone", "insert_clone",
             "cascade", "drop_clones_of", "confirm_deletion"}

WholeOps == {"create", "submit_day", "discard_day", "delete", "request_restore",
             "pending_edit"}

Ops == ScopedOps \cup ScopedUnnotedOps \cup SaveOps \cup ManagerOps
       \cup StageOps \cup WholeOps \cup {"none"}

(* The filter of the write, on the actor the request runs for. *)
Filter(q, row) ==
    CASE q.op \in {"approve", "re_approve"} -> ApproveFilter(row)
      [] q.op = "return_to_inbox" -> ReturnFilter(row)
      [] q.op = "submit_day" -> SubmitFilter(row)
      [] q.op \in {"discard_drafts", "discard_day"} -> DiscardDraftFilter(row, q.actor)
      [] q.op = "discard_rejected" -> DiscardRejectedFilter(row, q.actor)
      [] q.op = "resubmit" -> ResubmitFilter(row, q.actor)
      [] q.op \in {"restore_discarded", "delete_discarded"} -> DiscardedFilter(row, q.actor)
      [] q.op \in {"restore_own", "purge_own"} -> OwnTrashFilter(row, q.actor)
      [] q.op = "request_restore" -> RequestRestoreFilter(row, q.actor)
      [] q.op = "bulk_request_restore" ->
            RequestRestoreFilter(row, q.actor) /\ ~row.restore
      [] q.op = "cancel_restore" -> CancelRestoreFilter(row, q.actor)
      [] q.op \in {"confirm_deletion", "restore_deletion"} -> DELETION_BASE_MATCH(row)
      [] q.op \in {"confirm_restore", "reject_restore"} -> RESTORE_COUNT_MATCH(row)
      [] q.op \in {"restore_trash", "purge_trash"} -> row.trashed
      [] q.op = "drop_clones_of" -> row.original \in q.ids
      [] OTHER -> TRUE       \* addressed by _id alone

(* The document the write leaves; NoDoc when it deletes. *)
SetBy(q, row) ==
    CASE q.op \in Inserts -> q.new
      [] q.op \in Deletes -> NoDoc
      [] q.op = "approve" -> Approved(row)
      [] q.op = "reject" -> RejectedBy(row)
      [] q.op \in {"re_approve", "cascade"} -> ReApproved(row)
      [] q.op = "return_to_inbox" -> Returned(row)
      [] q.op = "resubmit" -> Resubmitted(row)
      [] q.op = "submit_day" -> Submitted(row)
      [] q.op = "discard_rejected" -> Discarded(row)
      [] q.op = "restore_discarded" -> Undiscarded(row)
      [] q.op = "save_open" -> Saved(row, q.status)
      [] q.op = "save_edited" -> SavedEdited(row, q.status)
      [] q.op = "save_rejected" -> SavedRejected(row, q.status)
      [] q.op = "edit_clone" -> CloneEdited(row, q.status)
      [] q.op = "trash" -> TrashedBy(row, q.actor)
      [] q.op = "ask_deletion" -> DeletionAsked(row)
      [] q.op = "confirm_deletion" -> DeletionConfirmed(row, q.actor)
      [] q.op = "restore_deletion" -> DeletionRefused(row)
      [] q.op \in {"request_restore", "bulk_request_restore"} -> RestoreAsked(row)
      [] q.op \in {"cancel_restore", "reject_restore"} -> RestoreCleared(row)
      [] q.op \in {"restore_own", "confirm_restore", "restore_trash"} -> TrashCleared(row)
      [] OTHER -> row

Matches(q, row) ==
    IF q.op \in Inserts THEN row = NoDoc ELSE row # NoDoc /\ Filter(q, row)

LoadsNamed(q, row) == row # NoDoc       \* slip: by _id, without the filter

(* What load_badge_docs reads: the write's own filter, except that         *)
(* resubmit loads every row the body names.                                *)
Loads(q, row) ==
    row # NoDoc /\ (q.op = "resubmit" \/ Filter(q, row))

-----------------------------------------------------------------------------
(* A request in flight. *)

NoDocs == [i \in TxIds |-> NoDoc]

NoStage == [op |-> "none", todo |-> {}, docs |-> NoDocs]

Idle == [pc      |-> "idle",
         op      |-> "none",
         actor   |-> NoOne,
         ids     |-> {},          \* the rows the request names
         status  |-> "draft",     \* register_status in the body
         new     |-> NoDoc,       \* the document to insert
         docs    |-> NoDocs,      \* the rows remembered before the write
         todo    |-> {},          \* rows the write has still to visit
         written |-> {},          \* rows the write changed
         next    |-> NoStage]     \* the stage to run after this one

Docs == [TxIds -> Row \cup {NoDoc}]

Stage == [op : Ops, todo : SUBSET TxIds, docs : Docs]

Request == [pc      : {"idle", "find", "write", "note"},
            op      : Ops,
            actor   : Users \cup {NoOne},
            ids     : SUBSET TxIds,
            status  : Statuses,
            new     : Row \cup {NoDoc},
            docs    : Docs,
            todo    : SUBSET TxIds,
            written : SUBSET TxIds,
            next    : Stage]

TypeOK ==
    /\ db \in Docs
    /\ issued \subseteq TxIds
    /\ shown \subseteq TxIds \X Screens
    /\ req \in [Requests -> Request]

Stored == {i \in TxIds : db[i] # NoDoc}

Loaded(q) == {i \in TxIds : q.docs[i] # NoDoc}

(* The request that names "ids", before and after its load.                *)
Call(op, u, ids, s) ==
    [Idle EXCEPT !.pc = "write", !.op = op, !.actor = u, !.ids = ids,
                 !.todo = ids, !.status = s]

Remember(q, S) ==
    [q EXCEPT !.docs = [i \in TxIds |-> IF i \in S THEN db[i] ELSE NoDoc]]

Load(q) == Remember(q, {i \in q.todo : Loads(q, db[i])})

(* Slot r takes request q. *)
Start(r, endpoint, q) ==
    /\ endpoint \in Endpoints
    /\ req' = [req EXCEPT ![r] = q]

NonEmpty(S) == SUBSET S \ {{}}

-----------------------------------------------------------------------------
(* Requests arriving.  The first await of each is its load. *)

(* POST /transactions, and one item of bulk-create: no document to         *)
(* remember, the id is allocated by the driver.  A row the grid warned     *)
(* about and the cashier saved anyway carries an issue flag.               *)
Create(r) ==
    \E c \in Cashiers, s \in {"draft", "parked"}, f \in BOOLEAN, i \in TxIds \ issued :
        /\ Start(r, IF f THEN "create_flagged" ELSE "create",
                 [Call("create", c, {i}, s) EXCEPT !.new = NewRow(c, s, f)])
        /\ issued' = issued \cup {i}
        /\ UNCHANGED <<db, shown>>

(* The rows each screen has shown: users act on pages listed long ago.     *)
ShownOn(screen) == {i \in TxIds : <<i, screen>> \in shown}

Clones == {i \in Stored : db[i].original # NoOne}

(* The rows for which the grid sends a save of each kind, from what it     *)
(* showed them as: those of a pending edit always carry the mark.          *)
Saveable(op) ==
    CASE op = "save_open"     -> Stored \ Clones
      [] op = "save_edited"   -> Stored \cap (ShownOn("submitted") \cup Clones)
      [] op = "save_rejected" -> (Stored \cap ShownOn("submitted")) \ Clones

(* The grid's in-place saves (bulk-patch, or PATCH one by one): the body   *)
(* carries the status the grid computed, whatever the row has become.      *)
SaveInPlace(r) ==
    \E op \in SaveOps, c \in Cashiers, s \in {"draft", "parked"} :
        \E ids \in NonEmpty(Saveable(op)) :
            /\ Start(r, op, Load(Call(op, c, ids, s)))
            /\ UNCHANGED <<db, issued, shown>>

(* Bulk endpoints scoped to a cashier that remember their rows ...         *)
CashierBulk(r) ==
    \E op \in ScopedOps, c \in Cashiers, ids \in NonEmpty(Stored) :
        /\ Start(r, op, Load(Call(op, c, ids, "draft")))
        /\ UNCHANGED <<db, issued, shown>>

(* ... drafts/discard with allow_any_cashier ...                           *)
DiscardAnyDrafts(r) ==
    \E ids \in NonEmpty(Stored) :
        /\ Start(r, "discard_drafts", Load(Call("discard_drafts", NoOne, ids, "draft")))
        /\ UNCHANGED <<db, issued, shown>>

(* ... and those that write without reading first and post no delta.       *)
CashierUnnoted(r) ==
    \E op \in ScopedUnnotedOps, c \in Cashiers, ids \in NonEmpty(Stored) :
        /\ Start(r, op, Call(op, c, ids, "draft"))
        /\ UNCHANGED <<db, issued, shown>>

(* submit-day loads the day's drafts and narrows its filter to their ids.  *)
SubmitDay(r) ==
    LET drafts == {i \in Stored : SubmitFilter(db[i])}
    IN /\ drafts # {}
       /\ Start(r, "submit_day", Load(Call("submit_day", NoOne, drafts, "draft")))
       /\ UNCHANGED <<db, issued, shown>>

(* discard-day loads the day's drafts, but its delete_many keeps the       *)
(* day-wide filter.                                                        *)
DiscardDay(r) ==
    \E c \in Cashiers \cup {NoOne} :
        /\ Start(r, "discard_day", Load(Call("discard_day", c, TxIds, "draft")))
        /\ UNCHANGED <<db, issued, shown>>

(* Verify-inbox endpoints name rows a page of the inbox once listed.  The  *)
(* tab decides between approve and re-approve (whose path for a row with   *)
(* an original is ReApproveEdited).  A row on the Rejected tab, which      *)
(* returns rows, was rejected from one of the two others.                  *)
Offers(tab, op) ==
    /\ op = "approve" => tab = "approve"
    /\ op = "re_approve" => tab = "edited"

InboxAction(r) ==
    \E op \in InboxOps, tab \in {"approve", "edited"}, u \in Accountants :
      \E ids \in NonEmpty(ShownOn(tab)) :
        /\ Offers(tab, op)
        /\ op = "re_approve" =>
              \A i \in ids : db[i] # NoDoc /\ ~db[i].verified /\ db[i].original = NoOne
        /\ Start(r, op, Load(Call(op, u, ids, "draft")))
        /\ UNCHANGED <<db, issued, shown>>

(* Accountant endpoints on the deletion, restore and trash lists.          *)
TrashAction(r) ==
    \E op \in ManagerOps \ InboxOps, u \in Accountants, ids \in NonEmpty(Stored) :
        /\ Start(r, op, Load(Call(op, u, ids, "draft")))
        /\ UNCHANGED <<db, issued, shown>>

(* deletions/bulk-restore: the same filter and update as restore, but no   *)
(* load and no delta.                                                      *)
BulkRestoreDeletions(r) ==
    \E u \in Accountants, ids \in NonEmpty(Stored) :
        /\ Start(r, "bulk_restore_deletions",
                 Call("restore_deletion", u, ids, "draft"))
        /\ UNCHANGED <<db, issued, shown>>

(* DELETE /transactions/{id}: the unguarded hard delete.                   *)
DeleteRow(r) ==
    \E c \in Cashiers, i \in Stored :
        /\ Start(r, "delete", Load(Call("delete", c, {i}, "draft")))
        /\ UNCHANGED <<db, issued, shown>>

(* request-delete decides from the document it read: a pending clone is    *)
(* dropped, an unverified row is trashed, a verified one waits for an      *)
(* accountant.  The write that follows is addressed by _id alone.          *)
RequestDelete(r) ==
    \E c \in Cashiers, i \in Stored :
        LET op == CASE IsPendingClone(db[i]) -> "drop_clone"
                    [] ~IsPendingClone(db[i]) /\ ~db[i].verified -> "trash"
                    [] OTHER -> "ask_deletion"
        IN /\ op = "trash" => ~db[i].trashed          \* already_trashed
           /\ Start(r, "request_delete", Remember(Call(op, c, {i}, "draft"), {i}))
           /\ UNCHANGED <<db, issued, shown>>

RequestRestore(r) ==
    \E c \in Cashiers, i \in Stored :
        LET q == Call("request_restore", c, {i}, "draft")
        IN /\ Filter(q, db[i]) /\ ~db[i].restore       \* not_found, already_requested
           /\ Start(r, "request_restore", Load(q))
           /\ UNCHANGED <<db, issued, shown>>

(* pending-edit first reads the original, and does not look at its state:  *)
(* a row the grid showed as verified may have been rejected or deleted     *)
(* since.  The grid never sends it for a clone.                            *)
PendingEdit(r) ==
    \E c \in Cashiers, s \in {"draft", "parked"}, i \in Stored \cap ShownOn("verified") :
        /\ db[i].original = NoOne
        /\ Start(r, "pending_edit",
                 [Call("pending_edit", c, {i}, s) EXCEPT
                    !.pc = "find", !.todo = {}, !.new = CloneOf(db[i], i, s)])
        /\ UNCHANGED <<db, issued, shown>>

(* ... then looks for a pending clone to update, and inserts one if there  *)
(* is none.  Nothing keeps a second request from doing the same.           *)
PendingClones(o) ==
    {j \in Stored : /\ IsPendingClone(db[j]) /\ db[j].original = o
                    /\ db[j].edited /\ ~db[j].rejected}

FindClone(r) ==
    LET q == req[r]
        clones == UNION {PendingClones(o) : o \in q.ids}
    IN /\ q.op = "pending_edit"
       /\ \/ \E j \in clones :
                /\ req' = [req EXCEPT ![r] =
                             Remember([Call("edit_clone", q.actor, q.ids, q.status)
                                         EXCEPT !.todo = {j}], {j})]
                /\ UNCHANGED issued
          \/ /\ clones = {}
             /\ \E j \in TxIds \ issued :
                   /\ req' = [req EXCEPT ![r] =
                                [q EXCEPT !.pc = "write", !.op = "insert_clone",
                                          !.todo = {j}]]
                   /\ issued' = issued \cup {j}
       /\ UNCHANGED <<db, shown>>

(* re-approve of a clone reads the clone, then its original; the original  *)
(* is updated first and the clone is deleted in a second stage.            *)
ReApproveEdited(r) ==
    \E u \in Accountants, i \in ShownOn("edited") :
        /\ db[i] # NoDoc /\ IsPendingClone(db[i])
        /\ Start(r, "re_approve",
                 [Call("cascade", u, {i}, "draft") EXCEPT
                    !.pc = "find", !.todo = {},
                    !.next = [op |-> "drop_clone", todo |-> {i},
                              docs |-> [NoDocs EXCEPT ![i] = db[i]]]])
        /\ UNCHANGED <<db, issued, shown>>

FindOriginal(r) ==
    LET q == req[r]
        o == {q.next.docs[i].original : i \in q.ids}
    IN /\ q.op = "cascade"
       /\ req' = [req EXCEPT ![r] =
                    Remember([q EXCEPT !.pc = "write", !.todo = o], o)]
       /\ UNCHANGED <<db, issued, shown>>

(* deletions/{id}/confirm reads the row, deletes its clones, then trashes  *)
(* the row if it still waits for deletion.                                 *)
ConfirmDeletion(r) ==
    \E u \in Accountants, i \in Stored :
        /\ DELETION_BASE_MATCH(db[i])
        /\ Start(r, "confirm_deletion",
                 [Call("drop_clones_of", u, {i}, "draft") EXCEPT
                    !.pc = "find", !.todo = TxIds,
                    !.next = [op |-> "confirm_deletion", todo |-> {i},
                              docs |-> [NoDocs EXCEPT ![i] = db[i]]]])
        /\ UNCHANGED <<db, issued, shown>>

LoadClones(r) ==
    LET q == req[r]
    IN /\ q.op = "drop_clones_of"
       /\ req' = [req EXCEPT ![r] = Load([q EXCEPT !.pc = "write"])]
       /\ UNCHANGED <<db, issued, shown>>

(* deletions/bulk-confirm deletes the clones of every id in the body       *)
(* first, whether or not the row still waits for deletion; no deltas.      *)
BulkConfirmDeletions(r) ==
    \E u \in Accountants, ids \in NonEmpty(Stored) :
        /\ Start(r, "bulk_confirm_deletions",
                 [Call("drop_clones_of", u, ids, "draft") EXCEPT
                    !.todo = TxIds,
                    !.next = [op |-> "confirm_deletion", todo |-> ids,
                              docs |-> NoDocs]])
        /\ UNCHANGED <<db, issued, shown>>

-----------------------------------------------------------------------------
(* The write and the reply, common to all handlers. *)

(* _re_approve_one gives up when its update modified nothing.              *)
AfterWrite(q) ==
    IF q.todo # {} THEN q
    ELSE IF q.op = "cascade" /\ q.written = {} THEN Idle
    ELSE [q EXCEPT !.pc = "note"]

WriteRow(r) ==
    \E i \in req[r].todo :
        LET q == req[r]
            hit == Matches(q, db[i])
            row == IF hit THEN SetBy(q, db[i]) ELSE db[i]
        IN /\ q.pc = "write"
           /\ db' = [db EXCEPT ![i] = row]
           /\ shown' = shown \cup {i} \X ShowsOn(row)
           /\ req' = [req EXCEPT ![r] =
                        AfterWrite([q EXCEPT !.todo = @ \ {i},
                                             !.written = IF hit THEN @ \cup {i} ELSE @])]
           /\ UNCHANGED issued

PostedUnchecked(q) ==       \* slip: the result of the write is not looked at
    IF q.op \in Inserts THEN q.written ELSE Loaded(q)

(* The rows whose transition the handler posts (apply_remembered): all     *)
(* remembered rows as soon as one was modified, except that resubmit pairs *)
(* only the rows its own update changed.                                   *)
Posted(q) ==
    CASE q.op \in Inserts -> q.written
      [] q.op = "resubmit" -> Loaded(q) \cap q.written
      [] OTHER -> IF q.op \in Blind \/ q.written # {} THEN Loaded(q) ELSE {}

Note(r) ==
    LET q == req[r]
    IN /\ q.pc = "note"
       /\ req' = [req EXCEPT ![r] =
                    IF q.next.op = "none" THEN Idle
                    ELSE [Call(q.next.op, q.actor, q.ids, "draft") EXCEPT
                            !.todo = q.next.todo, !.docs = q.next.docs]]
       /\ UNCHANGED <<db, issued, shown>>

-----------------------------------------------------------------------------
Init ==
    /\ db = NoDocs
    /\ issued = {}
    /\ shown = {}
    /\ req = [r \in Requests |-> Idle]

Arrive(r) ==
    /\ req[r].pc = "idle"
    /\ \/ Create(r) \/ SaveInPlace(r) \/ CashierBulk(r) \/ DiscardAnyDrafts(r)
       \/ CashierUnnoted(r) \/ SubmitDay(r) \/ DiscardDay(r) \/ InboxAction(r)
       \/ TrashAction(r) \/ BulkRestoreDeletions(r) \/ DeleteRow(r)
       \/ RequestDelete(r) \/ RequestRestore(r) \/ PendingEdit(r)
       \/ ReApproveEdited(r) \/ ConfirmDeletion(r) \/ BulkConfirmDeletions(r)

Find(r) ==
    /\ req[r].pc = "find"
    /\ FindClone(r) \/ FindOriginal(r) \/ LoadClones(r)

Step(r) == Find(r) \/ WriteRow(r)

Next == \E r \in Requests : Arrive(r) \/ Step(r) \/ Note(r)

Spec == Init /\ [][Next]_vars
=============================================================================
