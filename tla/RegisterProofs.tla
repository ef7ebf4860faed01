--------------------------- MODULE RegisterProofs ---------------------------
(***************************************************************************)
(* Proofs about the life cycle of register rows, for any sets of rows,     *)
(* users, endpoints and requests in flight.                                *)
(***************************************************************************)
EXTENDS RegisterSafety, TLAPS

(* One row of TrashFlagsAgree and of DiscardedIsSettled. *)
FlagsAgree(row) ==
    /\ row.restore => row.trashed
    /\ row.trashed <=> row.trashed_by # NoOne

Settled(row) == row.discarded => row.rejected \/ row.verified

RowOK(row) == FlagsAgree(row) /\ Settled(row)

(* What a request in flight must carry for its writes to keep rows so: a   *)
(* well-formed document to insert, a real user to trash in the name of,    *)
(* and for a cascade the clone that names its original.                    *)
TrashingOps == {"trash", "confirm_deletion"}

RequestOK(q) ==
    /\ q.new # NoDoc => RowOK(q.new)
    /\ q.op \in TrashingOps \/ q.next.op \in TrashingOps => q.actor \in Users
    /\ q.pc = "find" /\ q.op = "cascade" =>
          \A i \in q.ids : /\ q.next.docs[i] \in Row
                           /\ q.next.docs[i].original \in TxIds

IInv ==
    /\ TypeOK
    /\ \A i \in TxIds : db[i] # NoDoc => RowOK(db[i])
    /\ \A r \in Requests : RequestOK(req[r])

-----------------------------------------------------------------------------
(* Every update of RegisterWrites yields a row, and keeps a good row good  *)
(* when its filter held and its actor is a user.                           *)

LEMMA NewRowTyped ==
    ASSUME NEW c \in Cashiers, NEW s \in Statuses, NEW f \in BOOLEAN
    PROVE  NewRow(c, s, f) \in Row /\ RowOK(NewRow(c, s, f))
BY RowConstants DEF NewRow, Row, RowOK, FlagsAgree, Settled, Users

LEMMA CloneOfTyped ==
    ASSUME NEW row \in Row, NEW o \in TxIds, NEW s \in Statuses
    PROVE  /\ CloneOf(row, o, s) \in Row
           /\ RowOK(row) => RowOK(CloneOf(row, o, s))
BY DEF CloneOf, Row, RowOK, FlagsAgree, Settled

LEMMA UpdatesTyped ==
    ASSUME NEW row \in Row, NEW s \in Statuses, NEW u \in Users \cup {NoOne}
    PROVE  /\ Approved(row) \in Row /\ RejectedBy(row) \in Row
           /\ ReApproved(row) \in Row /\ Returned(row) \in Row
           /\ Resubmitted(row) \in Row /\ Submitted(row) \in Row
           /\ Discarded(row) \in Row /\ Undiscarded(row) \in Row
           /\ Saved(row, s) \in Row /\ SavedEdited(row, s) \in Row
           /\ SavedRejected(row, s) \in Row /\ CloneEdited(row, s) \in Row
           /\ TrashedBy(row, u) \in Row /\ DeletionConfirmed(row, u) \in Row
           /\ DeletionAsked(row) \in Row /\ DeletionRefused(row) \in Row
           /\ RestoreAsked(row) \in Row /\ RestoreCleared(row) \in Row
           /\ TrashCleared(row) \in Row
<1>1. Submitted(row) \in Row
  BY DEF Submitted, Row, Statuses
<1>2. Saved(row, s) \in Row /\ SavedEdited(row, s) \in Row
  BY DEF Saved, SavedEdited, Row
<1>3. SavedRejected(row, s) \in Row /\ CloneEdited(row, s) \in Row
  BY DEF SavedRejected, CloneEdited, Row
<1>4. Approved(row) \in Row /\ RejectedBy(row) \in Row /\ ReApproved(row) \in Row
  BY DEF Approved, RejectedBy, ReApproved, Row
<1>5. Returned(row) \in Row /\ Resubmitted(row) \in Row
  BY DEF Returned, Resubmitted, Row
<1>6. Discarded(row) \in Row /\ Undiscarded(row) \in Row
  BY DEF Discarded, Undiscarded, Row
<1>7. TrashedBy(row, u) \in Row /\ DeletionConfirmed(row, u) \in Row
  BY DEF TrashedBy, DeletionConfirmed, Row
<1>8. DeletionAsked(row) \in Row /\ DeletionRefused(row) \in Row
  BY DEF DeletionAsked, DeletionRefused, Row
<1>9. RestoreAsked(row) \in Row /\ RestoreCleared(row) \in Row
  BY DEF RestoreAsked, RestoreCleared, Row
<1>10. TrashCleared(row) \in Row
  BY DEF TrashCleared, Row
<1> QED
  BY <1>1, <1>2, <1>3, <1>4, <1>5, <1>6, <1>7, <1>8, <1>9, <1>10

LEMMA SetByTyped ==
    ASSUME NEW q \in Request, NEW row \in Row
    PROVE  SetBy(q, row) \in Row \cup {NoDoc}
<1>1. /\ q.new \in Row \cup {NoDoc} /\ q.status \in Statuses
      /\ q.actor \in Users \cup {NoOne}
  BY DEF Request
<1> QED
  BY <1>1, UpdatesTyped DEF SetBy

(* What each update needs of the row, by its filter, to keep it good: only *)
(* discarding and asking for a restore need anything.                      *)
LEMMA UpdatesKeepRows ==
    ASSUME NEW row \in Row, RowOK(row), NEW s \in Statuses, NEW u \in Users
    PROVE  /\ RowOK(Approved(row)) /\ RowOK(RejectedBy(row))
           /\ RowOK(ReApproved(row)) /\ RowOK(Returned(row))
           /\ RowOK(Resubmitted(row)) /\ RowOK(Submitted(row))
           /\ RowOK(Undiscarded(row)) /\ RowOK(Saved(row, s))
           /\ RowOK(SavedEdited(row, s)) /\ RowOK(SavedRejected(row, s))
           /\ RowOK(CloneEdited(row, s)) /\ RowOK(TrashedBy(row, u))
           /\ RowOK(DeletionConfirmed(row, u)) /\ RowOK(DeletionAsked(row))
           /\ RowOK(DeletionRefused(row)) /\ RowOK(RestoreCleared(row))
           /\ RowOK(TrashCleared(row))
           /\ row.rejected => RowOK(Discarded(row))
           /\ row.trashed => RowOK(RestoreAsked(row))
<1> USE DEF RowOK, FlagsAgree, Settled, Row
<1>1. RowOK(Approved(row)) /\ RowOK(RejectedBy(row)) /\ RowOK(ReApproved(row))
  BY DEF Approved, RejectedBy, ReApproved
<1>2. RowOK(Returned(row)) /\ RowOK(Resubmitted(row)) /\ RowOK(Submitted(row))
  BY DEF Returned, Resubmitted, Submitted
<1>3. RowOK(Undiscarded(row)) /\ (row.rejected => RowOK(Discarded(row)))
  BY DEF Undiscarded, Discarded
<1>4. RowOK(Saved(row, s)) /\ RowOK(SavedEdited(row, s))
  BY DEF Saved, SavedEdited
<1>5. RowOK(SavedRejected(row, s)) /\ RowOK(CloneEdited(row, s))
  BY DEF SavedRejected, CloneEdited
<1>6. RowOK(TrashedBy(row, u)) /\ RowOK(DeletionConfirmed(row, u))
  BY RowConstants DEF TrashedBy, DeletionConfirmed
<1>7. RowOK(DeletionAsked(row)) /\ RowOK(DeletionRefused(row))
  BY DEF DeletionAsked, DeletionRefused
<1>8. RowOK(RestoreCleared(row)) /\ (row.trashed => RowOK(RestoreAsked(row)))
  BY DEF RestoreCleared, RestoreAsked
<1>9. RowOK(TrashCleared(row))
  BY DEF TrashCleared
<1> QED
  BY <1>1, <1>2, <1>3, <1>4, <1>5, <1>6, <1>7, <1>8, <1>9

LEMMA SetByKeepsRows ==
    ASSUME NEW q \in Request, NEW row \in Row,
           RowOK(row), RequestOK(q), Filter(q, row), SetBy(q, row) # NoDoc
    PROVE  RowOK(SetBy(q, row))
<1>1. q.status \in Statuses /\ (q.new # NoDoc => RowOK(q.new))
  BY DEF Request, RequestOK
<1>2. q.op = "discard_rejected" => row.rejected
  BY DEF Filter, DiscardRejectedFilter
<1>3. q.op \in {"request_restore", "bulk_request_restore"} => row.trashed
  BY DEF Filter, RequestRestoreFilter
<1>4. q.op \in {"trash", "confirm_deletion"} => q.actor \in Users
  BY DEF RequestOK, TrashingOps
<1>5. CASE q.op \in {"trash", "confirm_deletion"}
  BY <1>1, <1>4, <1>5, UpdatesKeepRows DEF SetBy, Inserts, Deletes
<1>6. CASE q.op \notin {"trash", "confirm_deletion"}
  <2>1. PICK u \in Users : TRUE
    BY DEF Row, Users
  <2> QED
    BY <1>1, <1>2, <1>3, <1>6, <2>1, UpdatesKeepRows DEF SetBy
<1> QED
  BY <1>5, <1>6

-----------------------------------------------------------------------------
(* Requests as the actions build them. *)

LEMMA CallTyped ==
    ASSUME NEW op \in Ops, NEW u \in Users \cup {NoOne},
           NEW ids \in SUBSET TxIds, NEW s \in Statuses
    PROVE  /\ Call(op, u, ids, s) \in Request
           /\ op \notin TrashingOps \/ u \in Users => RequestOK(Call(op, u, ids, s))
<1>1. NoDocs \in Docs /\ NoStage \in Stage /\ "draft" \in Statuses
  BY DEF NoDocs, Docs, NoStage, Stage, Ops, Statuses
<1>2. Call(op, u, ids, s) \in Request
  BY <1>1 DEF Call, Idle, Request
<1>3. op \notin TrashingOps \/ u \in Users => RequestOK(Call(op, u, ids, s))
  BY DEF Call, Idle, RequestOK, NoStage, TrashingOps
<1> QED
  BY <1>2, <1>3

LEMMA IdleTyped == Idle \in Request /\ RequestOK(Idle)
<1>1. NoDocs \in Docs /\ NoStage \in Stage /\ "draft" \in Statuses /\ "none" \in Ops
  BY DEF NoDocs, Docs, NoStage, Stage, Ops, Statuses
<1> QED
  BY <1>1 DEF Idle, Request, RequestOK, NoStage, TrashingOps

LEMMA RememberTyped ==
    ASSUME NEW q \in Request, NEW S, db \in Docs
    PROVE  /\ Remember(q, S) \in Request
           /\ RequestOK(q) => RequestOK(Remember(q, S))
           /\ Load(q) \in Request
           /\ RequestOK(q) => RequestOK(Load(q))
<1>1. \A T : Remember(q, T) \in Request
  <2> TAKE T
  <2>1. [i \in TxIds |-> IF i \in T THEN db[i] ELSE NoDoc] \in Docs
    BY DEF Docs
  <2> QED
    BY <2>1 DEF Remember, Request
<1>2. \A T : RequestOK(q) => RequestOK(Remember(q, T))
  BY DEF Remember, RequestOK, Request
<1> QED
  BY <1>1, <1>2 DEF Load

LEMMA RequestKeepsInv ==
    ASSUME IInv, NEW r \in Requests, NEW q \in Request, RequestOK(q),
           req' = [req EXCEPT ![r] = q],
           UNCHANGED <<db, shown>>, issued' \subseteq TxIds
    PROVE  IInv'
<1>1. TypeOK'
  BY DEF IInv, TypeOK
<1>2. \A i \in TxIds : db'[i] # NoDoc => RowOK(db'[i])
  BY DEF IInv
<1>3. \A s \in Requests : RequestOK(req'[s])
  BY DEF IInv, TypeOK
<1> QED
  BY <1>1, <1>2, <1>3 DEF IInv

(* The requests that arrive with one write of their own and nothing to     *)
(* insert: what they may be, and what they name.                           *)
Plain(r) ==
    \/ SaveInPlace(r) \/ CashierBulk(r) \/ DiscardAnyDrafts(r) \/ CashierUnnoted(r)
    \/ SubmitDay(r) \/ DiscardDay(r) \/ InboxAction(r) \/ TrashAction(r)
    \/ BulkRestoreDeletions(r) \/ DeleteRow(r) \/ RequestRestore(r)

PlainOps == Ops \ (Inserts \cup TrashingOps \cup {"drop_clone", "cascade", "pending_edit"})

(* Of these, the ones that write without reading first.                    *)
Unread(op) ==
    \/ op \in ScopedUnnotedOps \cap Endpoints
    \/ op = "restore_deletion" /\ "bulk_restore_deletions" \in Endpoints

Arrives(r, op, u, ids, s) ==
    /\ \/ Unread(op) /\ req' = [req EXCEPT ![r] = Call(op, u, ids, s)]
       \/ /\ op \notin ScopedUnnotedOps
          /\ req' = [req EXCEPT ![r] = Load(Call(op, u, ids, s))]
    /\ op = "delete" => "delete" \in Endpoints
    /\ op = "re_approve" => ids \subseteq Stored \ Clones
    /\ UNCHANGED <<db, issued, shown>>

LEMMA PlainArrival ==
    ASSUME IInv, NEW r \in Requests, Plain(r)
    PROVE  \E op \in PlainOps, u \in Users \cup {NoOne},
              ids \in SUBSET TxIds, s \in Statuses : Arrives(r, op, u, ids, s)
<1>1. /\ \A i \in Stored : {i} \in SUBSET TxIds
      /\ \A ids \in NonEmpty(Stored) : ids \in SUBSET TxIds
      /\ \A op \in SaveOps : NonEmpty(Saveable(op)) \subseteq SUBSET TxIds
      /\ \A tab : NonEmpty(ShownOn(tab)) \subseteq SUBSET TxIds
  BY DEF Stored, NonEmpty, Saveable, SaveOps, ShownOn, Clones
<1>2. /\ {"draft", "parked"} \subseteq Statuses
      /\ Cashiers \subseteq Users /\ Accountants \subseteq Users
  BY DEF Statuses, Users
<1>3. /\ ScopedOps \cup ScopedUnnotedOps \cup SaveOps \cup ManagerOps
           \cup {"submit_day", "discard_day", "request_restore", "delete"} \subseteq PlainOps
      /\ {"delete", "re_approve"} \cap (ScopedOps \cup ScopedUnnotedOps \cup SaveOps) = {}
      /\ InboxOps \subseteq ManagerOps /\ "discard_drafts" \in ScopedOps
      /\ "delete" \notin ManagerOps /\ "re_approve" \notin ManagerOps \ InboxOps
      /\ "restore_deletion" \in ManagerOps
      /\ ScopedUnnotedOps \cap (ScopedOps \cup SaveOps \cup ManagerOps) = {}
      /\ {"submit_day", "discard_day", "request_restore", "delete"}
            \cap ScopedUnnotedOps = {}
  BY DEF PlainOps, Ops, ScopedOps, ScopedUnnotedOps, SaveOps, ManagerOps, InboxOps,
     StageOps, WholeOps, Inserts, TrashingOps
<1>4. CASE SaveInPlace(r)
  <2>1. PICK op \in SaveOps, c \in Cashiers, s \in {"draft", "parked"},
             ids \in SUBSET TxIds :
          /\ req' = [req EXCEPT ![r] = Load(Call(op, c, ids, s))]
          /\ UNCHANGED <<db, issued, shown>>
    BY <1>1, <1>4 DEF SaveInPlace, Start
  <2>2. Arrives(r, op, c, ids, s)
    BY <1>3, <2>1 DEF Arrives
  <2> QED
    BY <1>2, <1>3, <2>1, <2>2
<1>5. CASE CashierBulk(r)
  <2>1. PICK op \in ScopedOps, c \in Cashiers, ids \in SUBSET TxIds :
          /\ req' = [req EXCEPT ![r] = Load(Call(op, c, ids, "draft"))]
          /\ UNCHANGED <<db, issued, shown>>
    BY <1>1, <1>5 DEF CashierBulk, Start
  <2>2. Arrives(r, op, c, ids, "draft")
    BY <1>3, <2>1 DEF Arrives
  <2> QED
    BY <1>2, <1>3, <2>1, <2>2
<1>6. CASE DiscardAnyDrafts(r)
  <2>1. PICK ids \in SUBSET TxIds :
          /\ req' = [req EXCEPT ![r] = Load(Call("discard_drafts", NoOne, ids, "draft"))]
          /\ UNCHANGED <<db, issued, shown>>
    BY <1>1, <1>6 DEF DiscardAnyDrafts, Start
  <2>2. Arrives(r, "discard_drafts", NoOne, ids, "draft")
    BY <1>3, <2>1 DEF Arrives
  <2> QED
    BY <1>2, <1>3, <2>1, <2>2
<1>7. CASE CashierUnnoted(r)
  <2>1. PICK op \in ScopedUnnotedOps, c \in Cashiers, ids \in SUBSET TxIds :
          /\ op \in Endpoints
          /\ req' = [req EXCEPT ![r] = Call(op, c, ids, "draft")]
          /\ UNCHANGED <<db, issued, shown>>
    BY <1>1, <1>7 DEF CashierUnnoted, Start
  <2>2. Arrives(r, op, c, ids, "draft")
    BY <1>3, <2>1 DEF Arrives, Unread
  <2> QED
    BY <1>2, <1>3, <2>1, <2>2
<1>8. CASE SubmitDay(r)
  <2>1. PICK ids \in SUBSET TxIds :
          /\ req' = [req EXCEPT ![r] = Load(Call("submit_day", NoOne, ids, "draft"))]
          /\ UNCHANGED <<db, issued, shown>>
    BY <1>1, <1>8 DEF SubmitDay, Start
  <2>2. Arrives(r, "submit_day", NoOne, ids, "draft")
    BY <1>3, <2>1 DEF Arrives
  <2> QED
    BY <1>2, <1>3, <2>1, <2>2
<1>9. CASE DiscardDay(r)
  <2>1. PICK c \in Cashiers \cup {NoOne} :
          /\ req' = [req EXCEPT ![r] = Load(Call("discard_day", c, TxIds, "draft"))]
          /\ UNCHANGED <<db, issued, shown>>
    BY <1>1, <1>9 DEF DiscardDay, Start
  <2>2. Arrives(r, "discard_day", c, TxIds, "draft")
    BY <1>3, <2>1 DEF Arrives
  <2> QED
    BY <1>2, <1>3, <2>1, <2>2
<1>10. CASE InboxAction(r)
  <2>1. PICK op \in InboxOps, u \in Accountants, ids \in SUBSET TxIds :
          /\ op = "re_approve" =>
                \A i \in ids : db[i] # NoDoc /\ ~db[i].verified /\ db[i].original = NoOne
          /\ req' = [req EXCEPT ![r] = Load(Call(op, u, ids, "draft"))]
          /\ UNCHANGED <<db, issued, shown>>
    BY <1>1, <1>10 DEF InboxAction, Start
  <2>2. Arrives(r, op, u, ids, "draft")
    BY <1>3, <2>1 DEF Arrives, Stored, Clones
  <2> QED
    BY <1>2, <1>3, <2>1, <2>2
<1>11. CASE TrashAction(r)
  <2>1. PICK op \in ManagerOps \ InboxOps, u \in Accountants, ids \in SUBSET TxIds :
          /\ req' = [req EXCEPT ![r] = Load(Call(op, u, ids, "draft"))]
          /\ UNCHANGED <<db, issued, shown>>
    BY <1>1, <1>11 DEF TrashAction, Start
  <2>2. Arrives(r, op, u, ids, "draft")
    BY <1>3, <2>1 DEF Arrives
  <2> QED
    BY <1>2, <1>3, <2>1, <2>2
<1>12. CASE BulkRestoreDeletions(r)
  <2>1. PICK u \in Accountants, ids \in SUBSET TxIds :
          /\ "bulk_restore_deletions" \in Endpoints
          /\ req' = [req EXCEPT ![r] = Call("restore_deletion", u, ids, "draft")]
          /\ UNCHANGED <<db, issued, shown>>
    BY <1>1, <1>12 DEF BulkRestoreDeletions, Start
  <2>2. Arrives(r, "restore_deletion", u, ids, "draft")
    BY <1>3, <2>1 DEF Arrives, Unread
  <2> QED
    BY <1>2, <1>3, <2>1, <2>2
<1>13. CASE DeleteRow(r)
  <2>1. PICK c \in Cashiers, ids \in SUBSET TxIds :
          /\ req' = [req EXCEPT ![r] = Load(Call("delete", c, ids, "draft"))]
          /\ UNCHANGED <<db, issued, shown>>
          /\ "delete" \in Endpoints
    BY <1>1, <1>13 DEF DeleteRow, Start
  <2>2. Arrives(r, "delete", c, ids, "draft")
    BY <1>3, <2>1 DEF Arrives
  <2> QED
    BY <1>2, <1>3, <2>1, <2>2
<1>14. CASE RequestRestore(r)
  <2>1. PICK c \in Cashiers, ids \in SUBSET TxIds :
          /\ req' = [req EXCEPT ![r] = Load(Call("request_restore", c, ids, "draft"))]
          /\ UNCHANGED <<db, issued, shown>>
    BY <1>1, <1>14 DEF RequestRestore, Start
  <2>2. Arrives(r, "request_restore", c, ids, "draft")
    BY <1>3, <2>1 DEF Arrives
  <2> QED
    BY <1>2, <1>3, <2>1, <2>2
<1> QED
  BY <1>4, <1>5, <1>6, <1>7, <1>8, <1>9, <1>10, <1>11, <1>12, <1>13, <1>14 DEF Plain

LEMMA ArriveKeepsInv ==
    ASSUME IInv, NEW r \in Requests, Arrive(r)
    PROVE  IInv'
<1>1. /\ db \in Docs /\ issued \subseteq TxIds
      /\ Stored \subseteq TxIds /\ \A i \in Stored : db[i] \in Row /\ RowOK(db[i])
      /\ \A ids \in NonEmpty(Stored) : ids \in SUBSET TxIds
  BY DEF IInv, TypeOK, Stored, Docs, NonEmpty
<1>2. /\ {"draft", "parked"} \subseteq Statuses
      /\ Cashiers \subseteq Users /\ Accountants \subseteq Users
      /\ Inserts \cup ScopedOps \cup ScopedUnnotedOps \cup SaveOps \cup ManagerOps
         \cup StageOps \cup WholeOps \subseteq Ops
  BY DEF Statuses, Users, Ops, Inserts, WholeOps, StageOps
<1>3. \A ids \in SUBSET TxIds, op \in Ops, u \in Users \cup {NoOne}, s \in Statuses :
         op \notin TrashingOps \/ u \in Users
            => /\ Call(op, u, ids, s) \in Request /\ RequestOK(Call(op, u, ids, s))
               /\ Load(Call(op, u, ids, s)) \in Request
               /\ RequestOK(Load(Call(op, u, ids, s)))
  BY <1>1, CallTyped, RememberTyped
<1>4. CASE Create(r)
  <2>1. PICK c \in Cashiers, s \in {"draft", "parked"}, f \in BOOLEAN,
             i \in TxIds \ issued :
          /\ req' = [req EXCEPT ![r] =
                       [Call("create", c, {i}, s) EXCEPT !.new = NewRow(c, s, f)]]
          /\ issued' = issued \cup {i}
          /\ UNCHANGED <<db, shown>>
    BY <1>4 DEF Create, Start
  <2>2. Call("create", c, {i}, s) \in Request /\ RequestOK(Call("create", c, {i}, s))
    BY <1>2, <1>3 DEF TrashingOps, Inserts
  <2>3. NewRow(c, s, f) \in Row /\ RowOK(NewRow(c, s, f))
    BY <1>2, NewRowTyped
  <2>4. [Call("create", c, {i}, s) EXCEPT !.new = NewRow(c, s, f)] \in Request
    BY <2>2, <2>3 DEF Request
  <2>5. RequestOK([Call("create", c, {i}, s) EXCEPT !.new = NewRow(c, s, f)])
    BY <2>2, <2>3 DEF Request, RequestOK
  <2> QED
    BY <1>1, <2>1, <2>4, <2>5, RequestKeepsInv
<1>5. CASE Plain(r)
  <2>1. PICK op \in PlainOps, u \in Users \cup {NoOne}, ids \in SUBSET TxIds,
             s \in Statuses : Arrives(r, op, u, ids, s)
    BY <1>5, PlainArrival
  <2>2. Call(op, u, ids, s) \in Request /\ RequestOK(Call(op, u, ids, s))
    BY CallTyped DEF PlainOps
  <2>3. Load(Call(op, u, ids, s)) \in Request /\ RequestOK(Load(Call(op, u, ids, s)))
    BY <1>1, <2>2, RememberTyped
  <2> QED
    BY <1>1, <2>1, <2>2, <2>3, RequestKeepsInv DEF Arrives
<1>6. CASE RequestDelete(r)
  <2>1. PICK c \in Cashiers, i \in Stored, op \in {"drop_clone", "trash", "ask_deletion"} :
          /\ Start(r, "request_delete", Remember(Call(op, c, {i}, "draft"), {i}))
          /\ UNCHANGED <<db, issued, shown>>
    BY <1>6 DEF RequestDelete
  <2>2. Call(op, c, {i}, "draft") \in Request /\ RequestOK(Call(op, c, {i}, "draft"))
    BY <1>1, <1>2, <1>3 DEF StageOps
  <2>3. /\ Remember(Call(op, c, {i}, "draft"), {i}) \in Request
        /\ RequestOK(Remember(Call(op, c, {i}, "draft"), {i}))
    BY <1>1, <2>2, RememberTyped
  <2> QED
    BY <1>1, <2>1, <2>3, RequestKeepsInv DEF Start
<1>7. CASE PendingEdit(r)
  <2>1. PICK c \in Cashiers, s \in {"draft", "parked"}, i \in Stored :
          /\ Start(r, "pending_edit",
                   [Call("pending_edit", c, {i}, s) EXCEPT
                      !.pc = "find", !.todo = {}, !.new = CloneOf(db[i], i, s)])
          /\ UNCHANGED <<db, issued, shown>>
    BY <1>7 DEF PendingEdit
  <2> DEFINE q == [Call("pending_edit", c, {i}, s) EXCEPT
                     !.pc = "find", !.todo = {}, !.new = CloneOf(db[i], i, s)]
  <2>2. Call("pending_edit", c, {i}, s) \in Request /\ RequestOK(Call("pending_edit", c, {i}, s))
    BY <1>1, <1>2, <1>3 DEF WholeOps, TrashingOps
  <2>3. CloneOf(db[i], i, s) \in Row /\ RowOK(CloneOf(db[i], i, s))
    BY <1>1, <1>2, CloneOfTyped
  <2>4. q \in Request
    BY <2>2, <2>3 DEF Request
  <2>5. RequestOK(q)
    BY <2>2, <2>3 DEF RequestOK, Request, Call, Idle
  <2> QED
    BY <1>1, <2>1, <2>4, <2>5, RequestKeepsInv DEF Start
<1>8. CASE ReApproveEdited(r)
  <2>1. PICK u \in Accountants, i \in TxIds :
          /\ db[i] # NoDoc /\ IsPendingClone(db[i])
          /\ Start(r, "re_approve",
                   [Call("cascade", u, {i}, "draft") EXCEPT
                      !.pc = "find", !.todo = {},
                      !.next = [op |-> "drop_clone", todo |-> {i},
                                docs |-> [NoDocs EXCEPT ![i] = db[i]]]])
          /\ UNCHANGED <<db, issued, shown>>
    BY <1>8 DEF ReApproveEdited, ShownOn
  <2> DEFINE docs == [NoDocs EXCEPT ![i] = db[i]]
             next == [op |-> "drop_clone", todo |-> {i}, docs |-> docs]
             q == [Call("cascade", u, {i}, "draft") EXCEPT
                     !.pc = "find", !.todo = {}, !.next = next]
  <2>2. Call("cascade", u, {i}, "draft") \in Request
    BY <1>1, <1>2, <1>3 DEF StageOps, TrashingOps
  <2>3. db[i] \in Row /\ db[i].original \in TxIds
    BY <1>1, <2>1 DEF Stored, IsPendingClone, Row
  <2>4. docs \in Docs /\ docs[i] = db[i]
    BY <1>1, <2>3 DEF NoDocs, Docs
  <2>5. next \in Stage
    BY <1>1, <1>2, <2>4 DEF Stage, StageOps
  <2>6. q \in Request
    BY <2>2, <2>5 DEF Request
  <2>7. q.ids = {i} /\ q.next.docs[i] = db[i] /\ q.next.op = "drop_clone" /\ q.new = NoDoc
        /\ q.op = "cascade"
    BY <2>4 DEF Call, Idle
  <2>8. RequestOK(q)
    BY <2>3, <2>7 DEF RequestOK, TrashingOps
  <2> HIDE DEF q, next, docs
  <2>9. req' = [req EXCEPT ![r] = q]
    BY <2>1 DEF Start, q, next, docs
  <2> QED
    BY <1>1, <2>1, <2>6, <2>8, <2>9, RequestKeepsInv
<1>9. CASE ConfirmDeletion(r)
  <2>1. PICK u \in Accountants, i \in Stored :
          /\ Start(r, "confirm_deletion",
                   [Call("drop_clones_of", u, {i}, "draft") EXCEPT
                      !.pc = "find", !.todo = TxIds,
                      !.next = [op |-> "confirm_deletion", todo |-> {i},
                                docs |-> [NoDocs EXCEPT ![i] = db[i]]]])
          /\ UNCHANGED <<db, issued, shown>>
    BY <1>9 DEF ConfirmDeletion
  <2> DEFINE next == [op |-> "confirm_deletion", todo |-> {i},
                      docs |-> [NoDocs EXCEPT ![i] = db[i]]]
             q == [Call("drop_clones_of", u, {i}, "draft") EXCEPT
                     !.pc = "find", !.todo = TxIds, !.next = next]
  <2>2. Call("drop_clones_of", u, {i}, "draft") \in Request
    BY <1>1, <1>2, <1>3 DEF StageOps, TrashingOps
  <2>3. [NoDocs EXCEPT ![i] = db[i]] \in Docs
    BY <1>1 DEF NoDocs, Docs
  <2>4. next \in Stage
    BY <1>1, <1>2, <2>3 DEF Stage, StageOps
  <2>5. q \in Request
    BY <2>2, <2>4 DEF Request
  <2>6. q.new = NoDoc /\ q.op = "drop_clones_of" /\ q.actor \in Users
    BY <1>2 DEF Call, Idle
  <2>7. RequestOK(q)
    BY <2>6 DEF RequestOK
  <2> HIDE DEF q, next
  <2>8. req' = [req EXCEPT ![r] = q]
    BY <2>1 DEF Start, q, next
  <2> QED
    BY <1>1, <2>1, <2>5, <2>7, <2>8, RequestKeepsInv
<1>10. CASE BulkConfirmDeletions(r)
  <2>1. PICK u \in Accountants, ids \in NonEmpty(Stored) :
          /\ Start(r, "bulk_confirm_deletions",
                   [Call("drop_clones_of", u, ids, "draft") EXCEPT
                      !.todo = TxIds,
                      !.next = [op |-> "confirm_deletion", todo |-> ids,
                                docs |-> NoDocs]])
          /\ UNCHANGED <<db, issued, shown>>
    BY <1>10 DEF BulkConfirmDeletions
  <2> DEFINE next == [op |-> "confirm_deletion", todo |-> ids, docs |-> NoDocs]
             q == [Call("drop_clones_of", u, ids, "draft") EXCEPT
                     !.todo = TxIds, !.next = next]
  <2>2. Call("drop_clones_of", u, ids, "draft") \in Request
    BY <1>1, <1>2, <1>3 DEF StageOps, TrashingOps
  <2>3. next \in Stage
    BY <1>1, <1>2 DEF NoDocs, Docs, Stage, StageOps
  <2>4. q \in Request
    BY <2>2, <2>3 DEF Request
  <2>5. q.new = NoDoc /\ q.op = "drop_clones_of" /\ q.actor \in Users
    BY <1>2 DEF Call, Idle
  <2>6. RequestOK(q)
    BY <2>5 DEF RequestOK
  <2> HIDE DEF q, next
  <2>7. req' = [req EXCEPT ![r] = q]
    BY <2>1 DEF Start, q, next
  <2> QED
    BY <1>1, <2>1, <2>4, <2>6, <2>7, RequestKeepsInv
<1> QED
  BY <1>4, <1>5, <1>6, <1>7, <1>8, <1>9, <1>10 DEF Arrive, Plain

-----------------------------------------------------------------------------
(* The later steps of a request. *)

LEMMA FindCloneKeepsInv ==
    ASSUME IInv, NEW r \in Requests, Find(r), FindClone(r)
    PROVE  IInv'
<1> DEFINE q == req[r]
           edit(j) == [Call("edit_clone", q.actor, q.ids, q.status) EXCEPT !.todo = {j}]
           insert(j) == [q EXCEPT !.pc = "write", !.op = "insert_clone", !.todo = {j}]
<1>1. /\ q \in Request /\ RequestOK(q) /\ q.op = "pending_edit"
      /\ db \in Docs /\ issued \subseteq TxIds
  BY DEF Find, FindClone, IInv, TypeOK
<1>2. UNCHANGED <<db, shown>>
  BY DEF FindClone
<1>3. CASE \E j \in UNION {PendingClones(o) : o \in q.ids} :
             /\ req' = [req EXCEPT ![r] = Remember(edit(j), {j})]
             /\ UNCHANGED issued
  <2>1. PICK j \in TxIds : req' = [req EXCEPT ![r] = Remember(edit(j), {j})]
                           /\ UNCHANGED issued
    BY <1>3 DEF PendingClones, Stored
  <2>2. /\ Call("edit_clone", q.actor, q.ids, q.status) \in Request
        /\ RequestOK(Call("edit_clone", q.actor, q.ids, q.status))
    <3>1. /\ "edit_clone" \in Ops \ TrashingOps /\ q.actor \in Users \cup {NoOne}
          /\ q.ids \in SUBSET TxIds /\ q.status \in Statuses
      BY <1>1 DEF Request, Ops, StageOps, TrashingOps
    <3> QED
      BY <3>1, CallTyped
  <2>3. edit(j) \in Request
    BY <2>2 DEF Request
  <2>4. RequestOK(edit(j))
    BY <2>2 DEF RequestOK, Request
  <2> HIDE DEF edit
  <2>5. Remember(edit(j), {j}) \in Request /\ RequestOK(Remember(edit(j), {j}))
    BY <1>1, <2>3, <2>4, RememberTyped
  <2> QED
    BY <1>1, <1>2, <2>1, <2>5, RequestKeepsInv
<1>4. CASE \E j \in TxIds \ issued :
             /\ req' = [req EXCEPT ![r] = insert(j)]
             /\ issued' = issued \cup {j}
  <2>1. PICK j \in TxIds : req' = [req EXCEPT ![r] = insert(j)]
                           /\ issued' = issued \cup {j}
    BY <1>4
  <2>2. insert(j) \in Request
    BY <1>1 DEF Request, Ops, StageOps
  <2>3. RequestOK(insert(j))
    BY <1>1 DEF Request, RequestOK, TrashingOps
  <2> HIDE DEF insert
  <2> QED
    BY <1>1, <1>2, <2>1, <2>2, <2>3, RequestKeepsInv
<1> QED
  BY <1>3, <1>4 DEF FindClone

LEMMA FindOriginalKeepsInv ==
    ASSUME IInv, NEW r \in Requests, Find(r), FindOriginal(r)
    PROVE  IInv'
<1> DEFINE q == req[r]
           o == {q.next.docs[i].original : i \in q.ids}
           q2 == [q EXCEPT !.pc = "write", !.todo = o]
<1>1. /\ q \in Request /\ RequestOK(q) /\ q.pc = "find" /\ q.op = "cascade"
      /\ db \in Docs /\ issued \subseteq TxIds
  BY DEF Find, FindOriginal, IInv, TypeOK
<1>2. /\ UNCHANGED <<db, issued, shown>>
      /\ req' = [req EXCEPT ![r] = Remember(q2, o)]
  BY DEF FindOriginal
<1>3. o \subseteq TxIds
  BY <1>1 DEF RequestOK
<1>4. q2 \in Request
  BY <1>1, <1>3 DEF Request
<1>5. RequestOK(q2)
  BY <1>1 DEF RequestOK, Request
<1> HIDE DEF q2
<1>6. Remember(q2, o) \in Request /\ RequestOK(Remember(q2, o))
  BY <1>1, <1>4, <1>5, RememberTyped
<1> QED
  BY <1>1, <1>2, <1>6, RequestKeepsInv

LEMMA LoadClonesKeepsInv ==
    ASSUME IInv, NEW r \in Requests, Find(r), LoadClones(r)
    PROVE  IInv'
<1> DEFINE q2 == [req[r] EXCEPT !.pc = "write"]
<1>1. /\ req[r] \in Request /\ RequestOK(req[r])
      /\ db \in Docs /\ issued \subseteq TxIds
  BY DEF IInv, TypeOK
<1>2. UNCHANGED <<db, issued, shown>> /\ req' = [req EXCEPT ![r] = Load(q2)]
  BY DEF LoadClones
<1>3. q2 \in Request
  BY <1>1 DEF Request
<1>4. RequestOK(q2)
  BY <1>1 DEF RequestOK, Request
<1> HIDE DEF q2
<1>5. Load(q2) \in Request /\ RequestOK(Load(q2))
  BY <1>1, <1>3, <1>4, RememberTyped
<1> QED
  BY <1>1, <1>2, <1>5, RequestKeepsInv

LEMMA NoteKeepsInv ==
    ASSUME IInv, NEW r \in Requests, Note(r)
    PROVE  IInv'
<1> DEFINE q == req[r]
           stage == Call(q.next.op, q.actor, q.ids, "draft")
           q2 == [stage EXCEPT !.todo = q.next.todo, !.docs = q.next.docs]
<1>1. /\ q \in Request /\ RequestOK(q) /\ issued \subseteq TxIds
      /\ UNCHANGED <<db, issued, shown>>
  BY DEF IInv, TypeOK, Note
<1>2. CASE req' = [req EXCEPT ![r] = Idle]
  BY <1>1, <1>2, IdleTyped, RequestKeepsInv
<1>3. CASE req' = [req EXCEPT ![r] = q2]
  <2>1. /\ q.next \in Stage /\ q.actor \in Users \cup {NoOne}
        /\ q.ids \in SUBSET TxIds /\ "draft" \in Statuses
        /\ q.next.op \notin TrashingOps \/ q.actor \in Users
    BY <1>1 DEF Request, RequestOK, Statuses
  <2>2. stage \in Request /\ RequestOK(stage)
    BY <2>1, CallTyped DEF Stage
  <2>3. q2 \in Request
    BY <2>1, <2>2 DEF Request, Stage
  <2>4. RequestOK(q2)
    BY <2>2 DEF RequestOK, Request, Call, Idle
  <2> HIDE DEF q2
  <2> QED
    BY <1>1, <1>3, <2>3, <2>4, RequestKeepsInv
<1> QED
  BY <1>2, <1>3 DEF Note

LEMMA AfterWriteTyped ==
    ASSUME NEW q \in Request, RequestOK(q), q.pc = "write"
    PROVE  AfterWrite(q) \in Request /\ RequestOK(AfterWrite(q))
<1>1. [q EXCEPT !.pc = "note"] \in Request
  BY DEF Request
<1>2. RequestOK([q EXCEPT !.pc = "note"])
  BY DEF RequestOK, Request
<1> QED
  BY <1>1, <1>2, IdleTyped DEF AfterWrite

LEMMA WriteRowKeepsInv ==
    ASSUME IInv, NEW r \in Requests, WriteRow(r)
    PROVE  IInv'
<1> DEFINE q == req[r]
<1>1. PICK i \in q.todo :
        LET hit == Matches(q, db[i])
            row == IF hit THEN SetBy(q, db[i]) ELSE db[i]
        IN /\ q.pc = "write"
           /\ db' = [db EXCEPT ![i] = row]
           /\ shown' = shown \cup {i} \X ShowsOn(row)
           /\ req' = [req EXCEPT ![r] =
                        AfterWrite([q EXCEPT !.todo = @ \ {i},
                                             !.written = IF hit THEN @ \cup {i} ELSE @])]
           /\ UNCHANGED issued
  BY DEF WriteRow
<1> DEFINE hit == Matches(q, db[i])
           row == IF hit THEN SetBy(q, db[i]) ELSE db[i]
           q2 == [q EXCEPT !.todo = @ \ {i}, !.written = IF hit THEN @ \cup {i} ELSE @]
<1>2. /\ q \in Request /\ RequestOK(q) /\ i \in TxIds
      /\ db \in Docs /\ shown \subseteq TxIds \X Screens /\ issued \subseteq TxIds
      /\ req \in [Requests -> Request]
  BY DEF IInv, TypeOK, Request
<1>3. row \in Row \cup {NoDoc} /\ (row # NoDoc => RowOK(row))
  <2>1. db[i] \in Row \cup {NoDoc} /\ (db[i] # NoDoc => RowOK(db[i]))
    BY <1>2 DEF IInv, Docs
  <2>2. CASE ~hit
    BY <2>1, <2>2
  <2>3. CASE hit /\ q.op \in Inserts
    <3>1. SetBy(q, db[i]) = q.new
      BY <2>3 DEF SetBy, Inserts, Deletes
    <3> QED
      BY <1>2, <2>3, <3>1 DEF Request, RequestOK
  <2>4. CASE hit /\ q.op \notin Inserts
    <3>1. db[i] \in Row /\ RowOK(db[i]) /\ Filter(q, db[i])
      BY <2>1, <2>4 DEF Matches
    <3> QED
      BY <1>2, <2>4, <3>1, SetByTyped, SetByKeepsRows
  <2> QED
    BY <2>2, <2>3, <2>4
<1>4. AfterWrite(q2) \in Request /\ RequestOK(AfterWrite(q2))
  <2>1. q2 \in Request
    BY <1>2 DEF Request
  <2>2. RequestOK(q2) /\ q2.pc = "write"
    BY <1>1, <1>2 DEF RequestOK, Request
  <2> HIDE DEF q2
  <2> QED
    BY <2>1, <2>2, AfterWriteTyped
<1>5. /\ db' = [db EXCEPT ![i] = row] /\ req' = [req EXCEPT ![r] = AfterWrite(q2)]
      /\ shown' \subseteq TxIds \X Screens /\ issued' = issued
  BY <1>1, <1>2 DEF ShowsOn
<1> HIDE DEF row, q2
<1>6. TypeOK'
  BY <1>2, <1>3, <1>4, <1>5 DEF TypeOK, Docs
<1>7. \A j \in TxIds : db'[j] # NoDoc => RowOK(db'[j])
  BY <1>2, <1>3, <1>5 DEF IInv, Docs
<1>8. \A s \in Requests : RequestOK(req'[s])
  BY <1>2, <1>4, <1>5 DEF IInv
<1> QED
  BY <1>6, <1>7, <1>8 DEF IInv

-----------------------------------------------------------------------------
LEMMA InitInv ==
    ASSUME Init
    PROVE  IInv
<1>1. NoDocs \in Docs /\ \A i \in TxIds : NoDocs[i] = NoDoc
  BY DEF NoDocs, Docs
<1> QED
  BY <1>1, IdleTyped DEF Init, IInv, TypeOK

LEMMA StepKeepsInv ==
    ASSUME IInv, NEW r \in Requests, Arrive(r) \/ Step(r) \/ Note(r)
    PROVE  IInv'
BY ArriveKeepsInv, FindCloneKeepsInv, FindOriginalKeepsInv, LoadClonesKeepsInv,
   WriteRowKeepsInv, NoteKeepsInv DEF Step, Find

(* Rows and requests are well typed in every reachable state, and the      *)
(* strengthening that the theorems below rest on is inductive.             *)
THEOREM Invariance == Spec => []IInv
<1>1. Init => IInv
  BY InitInv
<1>2. IInv /\ [Next]_vars => IInv'
  <2> SUFFICES ASSUME IInv, [Next]_vars PROVE IInv'
    OBVIOUS
  <2>1. CASE UNCHANGED vars
    BY <2>1 DEF vars, IInv, TypeOK
  <2> QED
    BY <2>1, StepKeepsInv DEF Next
<1> QED
  BY <1>1, <1>2, PTL DEF Spec

(* Type correctness of the register, for any number of overlapping         *)
(* requests of any endpoints.                                              *)
THEOREM TypeCorrectness == Spec => []TypeOK
<1>1. IInv => TypeOK
  BY DEF IInv
<1> QED
  BY <1>1, Invariance, PTL

(* A restore request is only ever on a trashed row, and a trashed row      *)
(* always has someone in whose trash it is listed.                         *)
THEOREM TrashFlagsCorrect == Spec => []TrashFlagsAgree
<1>1. IInv => TrashFlagsAgree
  BY DEF IInv, TrashFlagsAgree, Stored, RowOK, FlagsAgree
<1> QED
  BY <1>1, Invariance, PTL

(* A discarded row is rejected or approved, so neither the inbox nor the   *)
(* register has it waiting.                                                *)
THEOREM DiscardedCorrect == Spec => []DiscardedIsSettled
<1>1. IInv => DiscardedIsSettled
  BY DEF IInv, DiscardedIsSettled, Stored, RowOK, Settled
<1> QED
  BY <1>1, Invariance, PTL

-----------------------------------------------------------------------------
(* Which request a step belongs to. *)

LEMMA OthersWait ==
    ASSUME IInv, NEW r \in Requests, NEW s \in Requests, s # r,
           Arrive(s) \/ Step(s) \/ Note(s)
    PROVE  req'[r] = req[r]
<1> SUFFICES ASSUME NEW q, req' = [req EXCEPT ![s] = q] PROVE req'[r] = req[r]
  BY DEF Arrive, Create, SaveInPlace, CashierBulk, DiscardAnyDrafts, CashierUnnoted,
     SubmitDay, DiscardDay, InboxAction, TrashAction, BulkRestoreDeletions, DeleteRow,
     RequestDelete, RequestRestore, PendingEdit, ReApproveEdited, ConfirmDeletion,
     BulkConfirmDeletions, Start, Step, Find, FindClone, FindOriginal, LoadClones, WriteRow,
     Note
<1> QED
  BY DEF IInv, TypeOK

LEMMA ArriveIdle ==
    ASSUME NEW r \in Requests, Arrive(r)
    PROVE  req[r].pc = "idle"
BY DEF Arrive

LEMMA WritingIsWriteRow ==
    ASSUME IInv, [Next]_vars, NEW r \in Requests, Writing(r)
    PROVE  WriteRow(r)
<1>1. req[r].pc = "write" /\ req'[r] # req[r]
  BY DEF Writing
<1>2. PICK s \in Requests : Arrive(s) \/ Step(s) \/ Note(s)
  BY <1>1 DEF vars, Next
<1>3. s = r
  BY <1>1, <1>2, OthersWait
<1> QED
  BY <1>1, <1>2, <1>3, ArriveIdle
  DEF Step, Find, FindClone, FindOriginal, LoadClones, Note

(* Discarding and restoring discarded rows posts no badge delta, and needs *)
(* none: no write of theirs changes a queue, at any bucket, whatever the   *)
(* other requests did since.                                               *)
LEMMA DiscardKeepsQueues ==
    ASSUME NEW row \in Row, RowOK(row)
    PROVE  /\ row.rejected => SameQueues(row, Discarded(row))
           /\ row.discarded => SameQueues(row, Undiscarded(row))
<1>1. ASSUME NEW row2 \in Row, NEW v \in BOOLEAN,
             row2 = [row EXCEPT !.discarded = v], row.rejected \/ row.verified
      PROVE  SameQueues(row, row2)
  <2>1. /\ row2.cashier = row.cashier
        /\ InVerify(row2) <=> InVerify(row)
        /\ InEdited(row2) <=> InEdited(row)
        /\ InDrafts(row2) <=> InDrafts(row)
        /\ InParked(row2) <=> InParked(row)
        /\ InDeletionRequests(row2) <=> InDeletionRequests(row)
        /\ InRestoreRequests(row2) <=> InRestoreRequests(row)
    BY <1>1 DEF Row, InVerify, InEdited, InDrafts, InParked, OpenRegister,
       InDeletionRequests, InRestoreRequests
  <2>2. row # NoDoc /\ row2 # NoDoc
    BY <1>1, NoDocIsNoRow
  <2> QED
    BY <2>1, <2>2 DEF SameQueues, Buckets, BadgeKeys, InBucket
<1> QED
  BY <1>1 DEF RowOK, Settled, Discarded, Undiscarded, Row

THEOREM DiscardsAreSilent == Spec => SilentDiscards
<1>1. ASSUME IInv, [Next]_vars, NEW r \in Requests, Writing(r),
             req[r].op \in {"discard_rejected", "restore_discarded"}, NEW j \in TxIds
      PROVE  SameQueues(db[j], db'[j])
  <2>1. WriteRow(r)
    BY <1>1, WritingIsWriteRow
  <2>2. PICK i \in TxIds :
          db' = [db EXCEPT ![i] = IF Matches(req[r], db[i]) THEN SetBy(req[r], db[i])
                                                          ELSE db[i]]
    BY <1>1, <2>1 DEF WriteRow, IInv, TypeOK, Request
  <2>3. CASE j # i \/ ~Matches(req[r], db[i])
    BY <1>1, <2>2, <2>3 DEF SameQueues, IInv, TypeOK, Docs
  <2>4. CASE j = i /\ Matches(req[r], db[i])
    <3>1. db'[i] = SetBy(req[r], db[i])
      BY <1>1, <2>2, <2>4 DEF IInv, TypeOK, Docs
    <3>2. db[i] \in Row /\ RowOK(db[i]) /\ Filter(req[r], db[i])
      BY <1>1, <2>4 DEF Matches, Inserts, IInv, TypeOK, Docs
    <3>3. CASE req[r].op = "discard_rejected"
      <4>1. SetBy(req[r], db[i]) = Discarded(db[i]) /\ db[i].rejected
        BY <3>2, <3>3 DEF SetBy, Inserts, Deletes, Filter, DiscardRejectedFilter
      <4> QED
        BY <2>4, <3>1, <3>2, <4>1, DiscardKeepsQueues
    <3>4. CASE req[r].op = "restore_discarded"
      <4>1. SetBy(req[r], db[i]) = Undiscarded(db[i]) /\ db[i].discarded
        BY <3>2, <3>4 DEF SetBy, Inserts, Deletes, Filter, DiscardedFilter
      <4> QED
        BY <2>4, <3>1, <3>2, <4>1, DiscardKeepsQueues
    <3> QED
      BY <1>1, <3>3, <3>4
  <2> QED
    BY <2>3, <2>4
<1>2. IInv /\ [Next]_vars
        => [\A r \in Requests :
              Writing(r) /\ req[r].op \in {"discard_rejected", "restore_discarded"}
                => \A i \in TxIds : SameQueues(db[i], db'[i])]_vars
  BY <1>1
<1> QED
  BY <1>2, Invariance, PTL DEF Spec, SilentDiscards

-----------------------------------------------------------------------------
(***************************************************************************)
(* What becomes of rows that wait, of verified rows and of pending edits.  *)
(* As long as no client calls DELETE by id, hard deletes leave the verify  *)
(* inbox and the verified rows alone; and a pending edit never shows on    *)
(* the New tab.                                                            *)
(*                                                                         *)
(* Most deletes filter on what makes a row deletable.  The one that does   *)
(* not is the delete of a pending clone, decided from a document read      *)
(* earlier and addressed by _id alone; it is right because "_id" never     *)
(* comes back: the document found there is still that clone.               *)
(***************************************************************************)

(* Ids given to documents that are not stored yet, and ids of the clones a *)
(* request is going to delete without a filter.                            *)
PendingInsert(q) ==
    IF q.pc = "write" /\ q.op \in Inserts THEN q.todo ELSE {}

CloneTargets(q) ==
    (IF q.pc = "write" /\ q.op = "drop_clone" THEN q.todo ELSE {})
    \cup (IF q.next.op = "drop_clone" THEN q.next.todo ELSE {})

Guarded(q) ==
    /\ q.op = "delete" => "delete" \in Endpoints
    /\ q.next.op \notin Inserts \cup {"delete"}

IdsInv ==
    /\ Stored \subseteq issued
    /\ \A r \in Requests : Guarded(req[r])
    /\ \A r \in Requests : PendingInsert(req[r]) \subseteq issued \ Stored
    /\ \A r \in Requests : CloneTargets(req[r]) \subseteq issued
    /\ \A r \in Requests : CloneTargets(req[r]) \cap Stored \subseteq Clones
    /\ \A r, s \in Requests : PendingInsert(req[r]) \cap CloneTargets(req[s]) = {}
    /\ \A r, s \in Requests :
          r # s => PendingInsert(req[r]) \cap PendingInsert(req[s]) = {}

-----------------------------------------------------------------------------
LEMMA RequestKeepsIds ==
    ASSUME IInv, IdsInv, NEW r \in Requests, NEW q,
           req' = [req EXCEPT ![r] = q], db' = db, issued \subseteq issued',
           Guarded(q),
           PendingInsert(q) \subseteq (issued' \ issued) \cup PendingInsert(req[r]),
           CloneTargets(q) \subseteq CloneTargets(req[r]) \cup Clones
    PROVE  IdsInv'
<1>1. /\ Stored' = Stored /\ Clones' = Clones /\ Stored \subseteq issued
      /\ Clones \subseteq Stored
  BY DEF Stored, Clones, IdsInv
<1>2. \A s \in Requests : req'[s] = IF s = r THEN q ELSE req[s]
  BY DEF IInv, TypeOK
<1>3. /\ Stored' \subseteq issued'
      /\ \A s \in Requests : Guarded(req'[s])
      /\ \A s \in Requests : PendingInsert(req'[s]) \subseteq issued' \ Stored'
      /\ \A s \in Requests : CloneTargets(req'[s]) \subseteq issued'
      /\ \A s \in Requests : CloneTargets(req'[s]) \cap Stored' \subseteq Clones'
  BY <1>1, <1>2 DEF IdsInv
<1>4. \A s, t \in Requests : PendingInsert(req'[s]) \cap CloneTargets(req'[t]) = {}
  BY <1>1, <1>2 DEF IdsInv
<1>5. \A s, t \in Requests :
         s # t => PendingInsert(req'[s]) \cap PendingInsert(req'[t]) = {}
  BY <1>1, <1>2 DEF IdsInv
<1>6. \A s \in Requests : /\ Guarded(req[s])' <=> Guarded(req'[s])
                          /\ PendingInsert(req[s])' = PendingInsert(req'[s])
                          /\ CloneTargets(req[s])' = CloneTargets(req'[s])
  BY DEF Guarded, PendingInsert, CloneTargets
<1> QED
  BY <1>3, <1>4, <1>5, <1>6 DEF IdsInv

LEMMA CallIds ==
    ASSUME NEW op \in Ops \ (Inserts \cup {"drop_clone"}),
           op = "delete" => "delete" \in Endpoints,
           NEW u, NEW ids, NEW s
    PROVE  /\ Guarded(Call(op, u, ids, s))
           /\ PendingInsert(Call(op, u, ids, s)) = {}
           /\ CloneTargets(Call(op, u, ids, s)) = {}
BY DEF Call, Idle, NoStage, Guarded, PendingInsert, CloneTargets, Inserts

LEMMA RememberIds ==
    ASSUME NEW q \in Request, NEW S
    PROVE  /\ Guarded(Remember(q, S)) <=> Guarded(q)
           /\ PendingInsert(Remember(q, S)) = PendingInsert(q)
           /\ CloneTargets(Remember(q, S)) = CloneTargets(q)
BY DEF Remember, Request, Guarded, PendingInsert, CloneTargets

LEMMA LoadIds ==
    ASSUME NEW q \in Request
    PROVE  /\ Guarded(Load(q)) <=> Guarded(q)
           /\ PendingInsert(Load(q)) = PendingInsert(q)
           /\ CloneTargets(Load(q)) = CloneTargets(q)
BY RememberIds DEF Load

LEMMA ArriveKeepsIds ==
    ASSUME IInv, IdsInv, NEW r \in Requests, Arrive(r)
    PROVE  IdsInv'
<1>1. Stored \subseteq TxIds /\ db \in Docs
  BY DEF IInv, TypeOK, Stored
<1>2. CASE Plain(r)
  <2>1. PICK op \in PlainOps, u \in Users \cup {NoOne}, ids \in SUBSET TxIds,
             s \in Statuses : Arrives(r, op, u, ids, s)
    BY <1>2, PlainArrival
  <2>2. /\ Call(op, u, ids, s) \in Request
        /\ Guarded(Call(op, u, ids, s)) /\ PendingInsert(Call(op, u, ids, s)) = {}
        /\ CloneTargets(Call(op, u, ids, s)) = {}
    BY <2>1, CallTyped, CallIds DEF PlainOps, Arrives
  <2>3. \A q \in {Call(op, u, ids, s), Load(Call(op, u, ids, s))} :
           Guarded(q) /\ PendingInsert(q) = {} /\ CloneTargets(q) = {}
    BY <2>2, LoadIds
  <2> QED
    BY <2>1, <2>3, RequestKeepsIds DEF Arrives
<1>3. CASE Create(r)
  <2>1. PICK c \in Cashiers, s \in {"draft", "parked"}, f \in BOOLEAN,
             i \in TxIds \ issued :
          /\ req' = [req EXCEPT ![r] =
                       [Call("create", c, {i}, s) EXCEPT !.new = NewRow(c, s, f)]]
          /\ issued' = issued \cup {i}
          /\ db' = db
    BY <1>3 DEF Create, Start
  <2> DEFINE q == [Call("create", c, {i}, s) EXCEPT !.new = NewRow(c, s, f)]
  <2>2. Guarded(q) /\ PendingInsert(q) = {i} /\ CloneTargets(q) = {}
    BY DEF Call, Idle, NoStage, Guarded, PendingInsert, CloneTargets, Inserts
  <2> HIDE DEF q
  <2>3. req' = [req EXCEPT ![r] = q]
    BY <2>1 DEF q
  <2> QED
    BY <2>1, <2>2, <2>3, RequestKeepsIds
<1>4. CASE RequestDelete(r)
  <2>1. PICK c \in Cashiers, i \in Stored, op \in {"drop_clone", "trash", "ask_deletion"} :
          /\ op = "drop_clone" => i \in Clones
          /\ req' = [req EXCEPT ![r] = Remember(Call(op, c, {i}, "draft"), {i})]
          /\ UNCHANGED <<db, issued>>
    BY <1>4 DEF RequestDelete, Start, IsPendingClone, Clones
  <2> DEFINE q == Remember(Call(op, c, {i}, "draft"), {i})
  <2>2. /\ Guarded(q) /\ PendingInsert(q) = {}
        /\ CloneTargets(q) \subseteq (IF op = "drop_clone" THEN {i} ELSE {})
    BY DEF Remember, Call, Idle, NoStage, Guarded, PendingInsert, CloneTargets, Inserts
  <2> HIDE DEF q
  <2>3. req' = [req EXCEPT ![r] = q] /\ CloneTargets(q) \subseteq Clones
    BY <2>1, <2>2 DEF q
  <2> QED
    BY <2>1, <2>2, <2>3, RequestKeepsIds
<1>5. CASE PendingEdit(r)
  <2>1. PICK c \in Cashiers, s \in {"draft", "parked"}, i \in Stored :
          /\ req' = [req EXCEPT ![r] =
                       [Call("pending_edit", c, {i}, s) EXCEPT
                          !.pc = "find", !.todo = {}, !.new = CloneOf(db[i], i, s)]]
          /\ UNCHANGED <<db, issued>>
    BY <1>5 DEF PendingEdit, Start
  <2> DEFINE q == [Call("pending_edit", c, {i}, s) EXCEPT
                     !.pc = "find", !.todo = {}, !.new = CloneOf(db[i], i, s)]
  <2>2. Guarded(q) /\ PendingInsert(q) = {} /\ CloneTargets(q) = {}
    BY DEF Call, Idle, NoStage, Guarded, PendingInsert, CloneTargets, Inserts
  <2> HIDE DEF q
  <2>3. req' = [req EXCEPT ![r] = q]
    BY <2>1 DEF q
  <2> QED
    BY <2>1, <2>2, <2>3, RequestKeepsIds
<1>6. CASE ReApproveEdited(r)
  <2>1. PICK u \in Accountants, i \in Clones :
          /\ req' = [req EXCEPT ![r] =
                       [Call("cascade", u, {i}, "draft") EXCEPT
                          !.pc = "find", !.todo = {},
                          !.next = [op |-> "drop_clone", todo |-> {i},
                                    docs |-> [NoDocs EXCEPT ![i] = db[i]]]]]
          /\ UNCHANGED <<db, issued>>
    BY <1>1, <1>6 DEF ReApproveEdited, Start, ShownOn, IsPendingClone, Clones, Stored
  <2> DEFINE q == [Call("cascade", u, {i}, "draft") EXCEPT
                     !.pc = "find", !.todo = {},
                     !.next = [op |-> "drop_clone", todo |-> {i},
                               docs |-> [NoDocs EXCEPT ![i] = db[i]]]]
  <2>2. Guarded(q) /\ PendingInsert(q) = {} /\ CloneTargets(q) = {i}
    BY DEF Call, Idle, Guarded, PendingInsert, CloneTargets, Inserts
  <2> HIDE DEF q
  <2>3. req' = [req EXCEPT ![r] = q]
    BY <2>1 DEF q
  <2> QED
    BY <2>1, <2>2, <2>3, RequestKeepsIds
<1>7. CASE ConfirmDeletion(r)
  <2>1. PICK u \in Accountants, i \in Stored :
          /\ req' = [req EXCEPT ![r] =
                       [Call("drop_clones_of", u, {i}, "draft") EXCEPT
                          !.pc = "find", !.todo = TxIds,
                          !.next = [op |-> "confirm_deletion", todo |-> {i},
                                    docs |-> [NoDocs EXCEPT ![i] = db[i]]]]]
          /\ UNCHANGED <<db, issued>>
    BY <1>7 DEF ConfirmDeletion, Start
  <2> DEFINE q == [Call("drop_clones_of", u, {i}, "draft") EXCEPT
                     !.pc = "find", !.todo = TxIds,
                     !.next = [op |-> "confirm_deletion", todo |-> {i},
                               docs |-> [NoDocs EXCEPT ![i] = db[i]]]]
  <2>2. Guarded(q) /\ PendingInsert(q) = {} /\ CloneTargets(q) = {}
    BY DEF Call, Idle, Guarded, PendingInsert, CloneTargets, Inserts
  <2> HIDE DEF q
  <2>3. req' = [req EXCEPT ![r] = q]
    BY <2>1 DEF q
  <2> QED
    BY <2>1, <2>2, <2>3, RequestKeepsIds
<1>8. CASE BulkConfirmDeletions(r)
  <2>1. PICK u \in Accountants, ids \in NonEmpty(Stored) :
          /\ req' = [req EXCEPT ![r] =
                       [Call("drop_clones_of", u, ids, "draft") EXCEPT
                          !.todo = TxIds,
                          !.next = [op |-> "confirm_deletion", todo |-> ids,
                                    docs |-> NoDocs]]]
          /\ UNCHANGED <<db, issued>>
    BY <1>8 DEF BulkConfirmDeletions, Start
  <2> DEFINE q == [Call("drop_clones_of", u, ids, "draft") EXCEPT
                     !.todo = TxIds,
                     !.next = [op |-> "confirm_deletion", todo |-> ids,
                               docs |-> NoDocs]]
  <2>2. Guarded(q) /\ PendingInsert(q) = {} /\ CloneTargets(q) = {}
    BY DEF Call, Idle, Guarded, PendingInsert, CloneTargets, Inserts
  <2> HIDE DEF q
  <2>3. req' = [req EXCEPT ![r] = q]
    BY <2>1 DEF q
  <2> QED
    BY <2>1, <2>2, <2>3, RequestKeepsIds
<1> QED
  BY <1>2, <1>3, <1>4, <1>5, <1>6, <1>7, <1>8 DEF Arrive, Plain

LEMMA FindCloneKeepsIds ==
    ASSUME IInv, IdsInv, NEW r \in Requests, Find(r), FindClone(r)
    PROVE  IdsInv'
<1> DEFINE q == req[r]
           edit(j) == [Call("edit_clone", q.actor, q.ids, q.status) EXCEPT !.todo = {j}]
           insert(j) == [q EXCEPT !.pc = "write", !.op = "insert_clone", !.todo = {j}]
<1>1. q \in Request /\ q.op = "pending_edit" /\ Guarded(q) /\ db' = db
  BY DEF Find, FindClone, IInv, TypeOK, IdsInv
<1>2. CASE \E j \in UNION {PendingClones(o) : o \in q.ids} :
             /\ req' = [req EXCEPT ![r] = Remember(edit(j), {j})]
             /\ UNCHANGED issued
  <2>1. PICK j : req' = [req EXCEPT ![r] = Remember(edit(j), {j})] /\ UNCHANGED issued
    BY <1>2
  <2>2. /\ Guarded(Remember(edit(j), {j})) /\ PendingInsert(Remember(edit(j), {j})) = {}
        /\ CloneTargets(Remember(edit(j), {j})) = {}
    BY DEF Remember, Call, Idle, NoStage, Guarded, PendingInsert, CloneTargets, Inserts
  <2> HIDE DEF edit
  <2> QED
    BY <1>1, <2>1, <2>2, RequestKeepsIds
<1>3. CASE \E j \in TxIds \ issued :
             /\ req' = [req EXCEPT ![r] = insert(j)]
             /\ issued' = issued \cup {j}
  <2>1. PICK j \in TxIds \ issued : /\ req' = [req EXCEPT ![r] = insert(j)]
                                   /\ issued' = issued \cup {j}
    BY <1>3
  <2>2. /\ Guarded(insert(j)) /\ PendingInsert(insert(j)) = {j}
        /\ CloneTargets(insert(j)) \subseteq CloneTargets(q)
    BY <1>1 DEF Request, Guarded, PendingInsert, CloneTargets, Inserts
  <2> HIDE DEF insert
  <2> QED
    BY <1>1, <2>1, <2>2, RequestKeepsIds
<1> QED
  BY <1>2, <1>3 DEF FindClone

LEMMA FindOriginalKeepsIds ==
    ASSUME IInv, IdsInv, NEW r \in Requests, Find(r), FindOriginal(r)
    PROVE  IdsInv'
<1> DEFINE q == req[r]
           o == {q.next.docs[i].original : i \in q.ids}
           q2 == Remember([q EXCEPT !.pc = "write", !.todo = o], o)
<1>1. q \in Request /\ q.op = "cascade" /\ Guarded(q)
  BY DEF Find, FindOriginal, IInv, TypeOK, IdsInv
<1>2. /\ UNCHANGED <<db, issued>> /\ req' = [req EXCEPT ![r] = q2]
  BY DEF FindOriginal
<1>3. Guarded(q2) /\ PendingInsert(q2) = {} /\ CloneTargets(q2) \subseteq CloneTargets(q)
  BY <1>1 DEF Remember, Request, Guarded, PendingInsert, CloneTargets, Inserts
<1> HIDE DEF q2
<1> QED
  BY <1>2, <1>3, RequestKeepsIds

LEMMA LoadClonesKeepsIds ==
    ASSUME IInv, IdsInv, NEW r \in Requests, Find(r), LoadClones(r)
    PROVE  IdsInv'
<1> DEFINE q == req[r]
           q2 == Load([q EXCEPT !.pc = "write"])
<1>1. q \in Request /\ q.op = "drop_clones_of" /\ Guarded(q)
  BY DEF Find, LoadClones, IInv, TypeOK, IdsInv
<1>2. /\ UNCHANGED <<db, issued>> /\ req' = [req EXCEPT ![r] = q2]
  BY DEF LoadClones
<1>3. Guarded(q2) /\ PendingInsert(q2) = {} /\ CloneTargets(q2) \subseteq CloneTargets(q)
  BY <1>1 DEF Load, Remember, Request, Guarded, PendingInsert, CloneTargets, Inserts
<1> HIDE DEF q2
<1> QED
  BY <1>2, <1>3, RequestKeepsIds

LEMMA NoteKeepsIds ==
    ASSUME IInv, IdsInv, NEW r \in Requests, Note(r)
    PROVE  IdsInv'
<1> DEFINE q == req[r]
           q2 == [Call(q.next.op, q.actor, q.ids, "draft") EXCEPT
                    !.todo = q.next.todo, !.docs = q.next.docs]
<1>1. q \in Request /\ Guarded(q) /\ UNCHANGED <<db, issued>>
  BY DEF Note, IInv, TypeOK, IdsInv
<1>2. Guarded(Idle) /\ PendingInsert(Idle) = {} /\ CloneTargets(Idle) = {}
  BY DEF Idle, NoStage, Guarded, PendingInsert, CloneTargets, Inserts
<1>3. Guarded(q2) /\ PendingInsert(q2) = {} /\ CloneTargets(q2) \subseteq CloneTargets(q)
  BY <1>1 DEF Call, Idle, NoStage, Guarded, PendingInsert, CloneTargets, Inserts
<1> HIDE DEF q2
<1>4. req' = [req EXCEPT ![r] = Idle] \/ req' = [req EXCEPT ![r] = q2]
  BY DEF Note, q2
<1> QED
  BY <1>1, <1>2, <1>3, <1>4, RequestKeepsIds

(* The writes.  No update moves a document to another original.            *)
LEMMA UpdatesKeepOriginal ==
    ASSUME NEW row \in Row, NEW s, NEW u
    PROVE  \A row2 \in {Approved(row), RejectedBy(row), ReApproved(row), Returned(row),
                        Resubmitted(row), Submitted(row), Discarded(row),
                        Undiscarded(row), Saved(row, s), SavedEdited(row, s),
                        SavedRejected(row, s), CloneEdited(row, s), TrashedBy(row, u),
                        DeletionAsked(row), DeletionConfirmed(row, u),
                        DeletionRefused(row), RestoreAsked(row), RestoreCleared(row),
                        TrashCleared(row), row} : row2.original = row.original
<1> USE DEF Row
<1>1. /\ Approved(row).original = row.original /\ RejectedBy(row).original = row.original
      /\ ReApproved(row).original = row.original /\ Returned(row).original = row.original
      /\ Resubmitted(row).original = row.original
      /\ Submitted(row).original = row.original
  BY DEF Approved, RejectedBy, ReApproved, Returned, Resubmitted, Submitted
<1>2. /\ Discarded(row).original = row.original /\ Undiscarded(row).original = row.original
      /\ Saved(row, s).original = row.original
      /\ SavedEdited(row, s).original = row.original
      /\ SavedRejected(row, s).original = row.original
      /\ CloneEdited(row, s).original = row.original
  BY DEF Discarded, Undiscarded, Saved, SavedEdited, SavedRejected, CloneEdited
<1>3. /\ TrashedBy(row, u).original = row.original
      /\ DeletionAsked(row).original = row.original
      /\ DeletionConfirmed(row, u).original = row.original
      /\ DeletionRefused(row).original = row.original
  BY DEF TrashedBy, DeletionAsked, DeletionConfirmed, DeletionRefused
<1>4. /\ RestoreAsked(row).original = row.original
      /\ RestoreCleared(row).original = row.original
      /\ TrashCleared(row).original = row.original
  BY DEF RestoreAsked, RestoreCleared, TrashCleared
<1> QED
  BY <1>1, <1>2, <1>3, <1>4

LEMMA SetByKeepsOriginal ==
    ASSUME NEW q, NEW row \in Row, q.op \notin Inserts, q.op \notin Deletes
    PROVE  SetBy(q, row).original = row.original
BY UpdatesKeepOriginal DEF SetBy

LEMMA AfterWriteIds ==
    ASSUME NEW q \in Request, q.pc = "write", Guarded(q)
    PROVE  /\ Guarded(AfterWrite(q))
           /\ PendingInsert(AfterWrite(q)) \subseteq PendingInsert(q)
           /\ CloneTargets(AfterWrite(q)) \subseteq CloneTargets(q)
BY DEF AfterWrite, Idle, NoStage, Request, Guarded, PendingInsert, CloneTargets, Inserts

LEMMA WriteRowKeepsIds ==
    ASSUME IInv, IdsInv, NEW r \in Requests, WriteRow(r)
    PROVE  IdsInv'
<1> DEFINE q == req[r]
<1>1. PICK i \in q.todo :
        LET hit == Matches(q, db[i])
            row == IF hit THEN SetBy(q, db[i]) ELSE db[i]
        IN /\ q.pc = "write"
           /\ db' = [db EXCEPT ![i] = row]
           /\ shown' = shown \cup {i} \X ShowsOn(row)
           /\ req' = [req EXCEPT ![r] =
                        AfterWrite([q EXCEPT !.todo = @ \ {i},
                                             !.written = IF hit THEN @ \cup {i} ELSE @])]
           /\ UNCHANGED issued
  BY DEF WriteRow
<1> DEFINE hit == Matches(q, db[i])
           row == IF hit THEN SetBy(q, db[i]) ELSE db[i]
           q2 == [q EXCEPT !.todo = @ \ {i}, !.written = IF hit THEN @ \cup {i} ELSE @]
           q3 == AfterWrite(q2)
           insert == q.op \in Inserts
<1>2. /\ q \in Request /\ Guarded(q) /\ q.pc = "write" /\ i \in TxIds
      /\ db \in Docs /\ issued' = issued /\ req \in [Requests -> Request]
      /\ db' = [db EXCEPT ![i] = row] /\ req' = [req EXCEPT ![r] = q3]
  BY <1>1 DEF IInv, IdsInv, TypeOK, Request
<1>3. /\ Guarded(q3)
      /\ PendingInsert(q3) \subseteq PendingInsert(q) \ {i}
      /\ CloneTargets(q3) \subseteq CloneTargets(q)
  <2>1. q2 \in Request /\ q2.pc = "write" /\ Guarded(q2)
    BY <1>2 DEF Request, Guarded
  <2>2. /\ PendingInsert(q2) \subseteq PendingInsert(q) \ {i}
        /\ CloneTargets(q2) \subseteq CloneTargets(q)
    BY <1>2 DEF Request, PendingInsert, CloneTargets
  <2> HIDE DEF q2
  <2> QED
    BY <2>1, <2>2, AfterWriteIds
<1>4. insert => i \in PendingInsert(q)
  BY <1>1 DEF PendingInsert
<1>5. ~insert /\ db[i] = NoDoc => row = NoDoc
  BY DEF Matches
<1>6. ~insert /\ db[i] # NoDoc /\ row # NoDoc => row.original = db[i].original
  <2> SUFFICES ASSUME ~insert, db[i] # NoDoc, row # NoDoc, hit
               PROVE  SetBy(q, db[i]).original = db[i].original
    OBVIOUS
  <2>1. db[i] \in Row
    BY <1>2 DEF Docs
  <2>2. q.op \notin Deletes
    BY DEF SetBy, Inserts, Deletes
  <2> QED
    BY <2>1, <2>2, SetByKeepsOriginal
<1> HIDE DEF row, q3
<1>7. \A j \in TxIds : db'[j] = IF j = i THEN row ELSE db[j]
  BY <1>2 DEF Docs
<1>8. /\ Stored' = {j \in TxIds : db'[j] # NoDoc}
      /\ Clones' = {j \in Stored' : db'[j].original # NoOne}
  BY DEF Stored, Clones
<1>9. Stored' \subseteq Stored \cup (IF insert THEN {i} ELSE {})
  BY <1>5, <1>7, <1>8 DEF Stored
<1>10. insert => i \notin Stored
  BY <1>4 DEF IdsInv
<1>11. Clones \cap Stored' \subseteq Clones'
  BY <1>6, <1>7, <1>8, <1>10 DEF Stored, Clones
<1>12. \A s \in Requests :
          /\ Guarded(req[s])' <=> Guarded(IF s = r THEN q3 ELSE req[s])
          /\ PendingInsert(req[s])' = PendingInsert(IF s = r THEN q3 ELSE req[s])
          /\ CloneTargets(req[s])' = CloneTargets(IF s = r THEN q3 ELSE req[s])
  BY <1>2 DEF Guarded, PendingInsert, CloneTargets
<1>13. \A s \in Requests :
          /\ Guarded(req[s])'
          /\ PendingInsert(req[s])' \subseteq PendingInsert(req[s])
          /\ CloneTargets(req[s])' \subseteq CloneTargets(req[s])
          /\ insert => i \notin PendingInsert(req[s])' /\ i \notin CloneTargets(req[s])'
  BY <1>3, <1>4, <1>12 DEF IdsInv
<1>14. (Stored \subseteq issued)'
  BY <1>2, <1>4, <1>9 DEF IdsInv
<1>15. \A s \in Requests : PendingInsert(req[s])' \subseteq issued' \ Stored'
  BY <1>2, <1>9, <1>13 DEF IdsInv
<1>16. \A s \in Requests : CloneTargets(req[s])' \subseteq issued'
  BY <1>2, <1>13 DEF IdsInv
<1>17. \A s \in Requests : CloneTargets(req[s])' \cap Stored' \subseteq Clones'
  BY <1>9, <1>11, <1>13 DEF IdsInv
<1>18. /\ \A s, t \in Requests : PendingInsert(req[s])' \cap CloneTargets(req[t])' = {}
       /\ \A s, t \in Requests :
             s # t => PendingInsert(req[s])' \cap PendingInsert(req[t])' = {}
  BY <1>13 DEF IdsInv
<1> QED
  BY <1>13, <1>14, <1>15, <1>16, <1>17, <1>18 DEF IdsInv

LEMMA IdleIds == Guarded(Idle) /\ PendingInsert(Idle) = {} /\ CloneTargets(Idle) = {}
BY DEF Idle, NoStage, Guarded, PendingInsert, CloneTargets, Inserts

LEMMA InitIds ==
    ASSUME Init
    PROVE  IdsInv
<1>1. Stored = {}
  BY DEF Init, Stored, NoDocs
<1>2. \A r \in Requests : req[r] = Idle
  BY DEF Init
<1> QED
  BY <1>1, <1>2, IdleIds DEF IdsInv

LEMMA StepKeepsIds ==
    ASSUME IInv, IdsInv, NEW r \in Requests, Arrive(r) \/ Step(r) \/ Note(r)
    PROVE  IdsInv'
BY ArriveKeepsIds, FindCloneKeepsIds, FindOriginalKeepsIds, LoadClonesKeepsIds,
   WriteRowKeepsIds, NoteKeepsIds DEF Step, Find

LEMMA IdsInvariance == Spec => [](IInv /\ IdsInv)
<1>1. Init => IdsInv
  BY InitIds
<1>2. IInv /\ IdsInv /\ [Next]_vars => IdsInv'
  <2> SUFFICES ASSUME IInv, IdsInv, [Next]_vars PROVE IdsInv'
    OBVIOUS
  <2>1. CASE UNCHANGED vars
    BY <2>1 DEF vars, IdsInv, Stored, Clones, Guarded, PendingInsert, CloneTargets
  <2> QED
    BY <2>1, StepKeepsIds DEF Next
<1> QED
  BY <1>1, <1>2, Invariance, PTL DEF Spec

(* What a hard delete may have hit, however the requests of all users      *)
(* overlap: a clone, a draft that nobody approved, or a row marked as      *)
(* discarded or trashed.                                                   *)
LEMMA DeletedRows ==
    ASSUME "delete" \notin Endpoints,
           IInv, IdsInv, [Next]_vars, NEW i \in TxIds, Gone(i)
    PROVE  /\ db[i] \in Row /\ RowOK(db[i])
           /\ \/ db[i].original # NoOne
              \/ DRAFT_BASE_MATCH(db[i])
              \/ db[i].discarded
              \/ db[i].trashed
<1>1. PICK r \in Requests : WriteRow(r)
  <2>1. db' # db
    BY DEF Gone
  <2> QED
    BY <2>1 DEF vars, Next, Arrive, Create, SaveInPlace, CashierBulk,
       DiscardAnyDrafts, CashierUnnoted, SubmitDay, DiscardDay, InboxAction,
       TrashAction, BulkRestoreDeletions, DeleteRow, RequestDelete, RequestRestore,
       PendingEdit, ReApproveEdited, ConfirmDeletion, BulkConfirmDeletions, Step,
       Find, FindClone, FindOriginal, LoadClones, Note
<1> DEFINE q == req[r]
<1>2. /\ i \in q.todo /\ q.pc = "write" /\ q \in Request
      /\ Matches(q, db[i]) /\ SetBy(q, db[i]) = NoDoc
  <2>1. PICK j \in q.todo :
          /\ q.pc = "write"
          /\ db' = [db EXCEPT ![j] = IF Matches(q, db[j]) THEN SetBy(q, db[j]) ELSE db[j]]
    BY <1>1 DEF WriteRow
  <2> QED
    BY <2>1 DEF Gone, IInv, TypeOK, Docs
<1>3. db[i] \in Row /\ RowOK(db[i]) /\ Filter(q, db[i]) /\ q.op \notin Inserts
  BY <1>2 DEF Gone, Matches, IInv, TypeOK, Docs
<1>4. q.op \in Deletes
  BY <1>2, <1>3, SetByTyped, NoDocIsNoRow, UpdatesTyped DEF SetBy, Request
<1>5. CASE q.op = "drop_clone"
  <2>1. i \in CloneTargets(q) /\ i \in Stored
    BY <1>2, <1>5 DEF CloneTargets, Gone, Stored
  <2> QED
    BY <1>3, <2>1 DEF IdsInv, Clones
<1>6. CASE q.op = "drop_clones_of"
  <2>1. db[i].original \in TxIds
    BY <1>2, <1>3, <1>6 DEF Filter, Request
  <2> QED
    BY <1>3, <2>1, RowConstants
<1>7. q.op # "delete"
  BY DEF IdsInv, Guarded
<1>8. CASE q.op \in {"discard_drafts", "discard_day"}
  BY <1>3, <1>8 DEF Filter, DiscardDraftFilter
<1>9. CASE q.op = "delete_discarded"
  BY <1>3, <1>9 DEF Filter, DiscardedFilter
<1>10. CASE q.op \in {"purge_own", "purge_trash"}
  BY <1>3, <1>10 DEF Filter, OwnTrashFilter
<1> QED
  BY <1>4, <1>5, <1>6, <1>7, <1>8, <1>9, <1>10 DEF Deletes

(* Hard deletes never reach a row that waits in the verify inbox, only its *)
(* pending clones, however the requests of all users overlap.              *)
THEOREM InboxRowsSafe ==
    ASSUME "delete" \notin Endpoints
    PROVE  Spec => InboxRowsOutliveDeletes
<1>1. ASSUME IInv, IdsInv, [Next]_vars, NEW i \in TxIds, Gone(i), inbox_base_query(db[i])
      PROVE  db[i].original # NoOne
  BY <1>1, DeletedRows DEF inbox_base_query, DRAFT_BASE_MATCH, RowOK, Settled
<1>2. IInv /\ IdsInv /\ [Next]_vars
        => [\A i \in TxIds :
              Gone(i) /\ inbox_base_query(db[i]) => db[i].original # NoOne]_vars
  BY <1>1
<1> QED
  BY <1>2, IdsInvariance, PTL DEF Spec, InboxRowsOutliveDeletes

(* A row that is approved while another request deletes drafts, clones or  *)
(* discarded rows is hit by none of them unless it was discarded itself:   *)
(* a verified row that is no pending edit is removed from the trash.       *)
THEOREM VerifiedRowsSafe ==
    ASSUME "delete" \notin Endpoints
    PROVE  Spec => VerifiedLeavesThroughTrash
<1>1. ASSUME IInv, IdsInv, [Next]_vars, NEW i \in TxIds, Gone(i),
             db[i].verified, db[i].original = NoOne
      PROVE  db[i].trashed \/ db[i].discarded
  BY <1>1, DeletedRows DEF DRAFT_BASE_MATCH
<1>2. IInv /\ IdsInv /\ [Next]_vars
        => [\A i \in TxIds :
              Gone(i) /\ db[i].verified /\ db[i].original = NoOne
                => db[i].trashed \/ db[i].discarded]_vars
  BY <1>1
<1> QED
  BY <1>2, IdsInvariance, PTL DEF Spec, VerifiedLeavesThroughTrash

-----------------------------------------------------------------------------
(* Pending edits and the New tab, for any endpoints, DELETE by id included.*)
(* What keeps a pending edit off that tab is its edited mark.  Only        *)
(* re-approval clears the mark, of the row itself or of the original of a  *)
(* clone, so the rows it is about to write must be roots: ids of documents *)
(* that are not clones and never will be.                                  *)

Inserting == UNION {PendingInsert(req[r]) : r \in Requests}

Root(j) == j \in issued /\ j \notin Clones /\ j \notin Inserting

ReApprovals == {"re_approve", "cascade"}

EditOK(q) ==
    /\ q.new # NoDoc /\ q.new.original # NoOne =>
          q.new.edited /\ Root(q.new.original)
    /\ q.op \in ReApprovals /\ q.pc = "write" => \A j \in q.todo : Root(j)
    /\ q.op = "cascade" /\ q.pc = "find" =>
          \A i \in q.ids : Root(q.next.docs[i].original)
    /\ q.next.op \notin ReApprovals

EditsInv ==
    /\ \A i \in Clones : db[i].edited /\ Root(db[i].original)
    /\ \A r \in Requests : EditOK(req[r])

-----------------------------------------------------------------------------
LEMMA RequestKeepsEdits ==
    ASSUME IInv, EditsInv, NEW r \in Requests, NEW q,
           req' = [req EXCEPT ![r] = q], db' = db, issued \subseteq issued',
           PendingInsert(q) \subseteq (issued' \ issued) \cup PendingInsert(req[r]),
           EditOK(q)
    PROVE  EditsInv'
<1>1. \A s \in Requests : req'[s] = IF s = r THEN q ELSE req[s]
  BY DEF IInv, TypeOK
<1>2. Clones' = Clones
  BY DEF Clones, Stored
<1>3. Inserting' \subseteq Inserting \cup (issued' \ issued)
  <2>1. \A s \in Requests : PendingInsert(req[s])' = PendingInsert(req'[s])
    BY DEF PendingInsert
  <2> QED
    BY <1>1, <2>1 DEF Inserting
<1>4. \A i \in Clones' : db'[i].edited /\ Root(db[i].original)'
  BY <1>2, <1>3 DEF EditsInv, Root
<1>5. ASSUME NEW s \in Requests PROVE EditOK(req[s])'
  <2>1. EditOK(req'[s])
    BY <1>1 DEF EditsInv
  <2> QED
    BY <1>2, <1>3, <2>1 DEF EditOK, Root
<1> QED
  BY <1>4, <1>5 DEF EditsInv

LEMMA RememberEdits ==
    ASSUME NEW q \in Request, NEW S
    PROVE  EditOK(Remember(q, S)) <=> EditOK(q)
BY DEF Remember, Request, EditOK

LEMMA CallEdits ==
    ASSUME NEW op, NEW u, NEW ids, NEW s,
           op = "re_approve" => \A j \in ids : Root(j),
           op # "cascade"
    PROVE  EditOK(Call(op, u, ids, s))
BY DEF Call, Idle, NoStage, EditOK, ReApprovals

(* Stored rows that are no clones are roots.                               *)
LEMMA StoredRoots ==
    ASSUME IdsInv
    PROVE  \A i \in Stored \ Clones : Root(i)
BY DEF IdsInv, Root, Inserting

LEMMA ArriveKeepsEdits ==
    ASSUME IInv, IdsInv, EditsInv, NEW r \in Requests, Arrive(r)
    PROVE  EditsInv'
<1>1. /\ Stored \subseteq TxIds /\ \A i \in Stored : db[i] \in Row
      /\ {"draft", "parked"} \subseteq Statuses
      /\ Cashiers \subseteq Users /\ Accountants \subseteq Users
      /\ StageOps \subseteq Ops
  BY DEF IInv, TypeOK, Docs, Stored, Statuses, Users, Ops
<1>2. CASE Plain(r)
  <2>1. PICK op \in PlainOps, u \in Users \cup {NoOne}, ids \in SUBSET TxIds,
             s \in Statuses : Arrives(r, op, u, ids, s)
    BY <1>2, PlainArrival
  <2> DEFINE q == Call(op, u, ids, s)
  <2>2. q \in Request /\ EditOK(q) /\ PendingInsert(q) = {}
    <3>1. op = "re_approve" => \A j \in ids : Root(j)
      BY <2>1, StoredRoots DEF Arrives
    <3>2. PendingInsert(q) = {}
      BY DEF Call, Idle, PendingInsert, PlainOps
    <3> QED
      BY <3>1, <3>2, CallTyped, CallEdits DEF PlainOps
  <2> HIDE DEF q
  <2>3. EditOK(Load(q)) /\ PendingInsert(Load(q)) = {}
    BY <2>2, RememberEdits, LoadIds DEF Load
  <2>4. /\ req' = [req EXCEPT ![r] = q] \/ req' = [req EXCEPT ![r] = Load(q)]
        /\ UNCHANGED <<db, issued>>
    BY <2>1 DEF Arrives, q
  <2> QED
    BY <2>2, <2>3, <2>4, RequestKeepsEdits
<1>3. CASE Create(r)
  <2>1. PICK c \in Cashiers, s \in {"draft", "parked"}, f \in BOOLEAN,
             i \in TxIds \ issued :
          /\ req' = [req EXCEPT ![r] =
                       [Call("create", c, {i}, s) EXCEPT !.new = NewRow(c, s, f)]]
          /\ issued' = issued \cup {i}
          /\ db' = db
    BY <1>3 DEF Create, Start
  <2> DEFINE q == [Call("create", c, {i}, s) EXCEPT !.new = NewRow(c, s, f)]
  <2>2. PendingInsert(q) = {i}
    BY DEF Call, Idle, PendingInsert, Inserts
  <2>3. EditOK(q)
    BY DEF Call, Idle, NoStage, NewRow, EditOK, ReApprovals
  <2> HIDE DEF q
  <2>4. req' = [req EXCEPT ![r] = q]
    BY <2>1 DEF q
  <2> QED
    BY <2>1, <2>2, <2>3, <2>4, RequestKeepsEdits
<1>4. CASE RequestDelete(r)
  <2>1. PICK c \in Cashiers, i \in Stored, op \in {"drop_clone", "trash", "ask_deletion"} :
          /\ req' = [req EXCEPT ![r] = Remember(Call(op, c, {i}, "draft"), {i})]
          /\ UNCHANGED <<db, issued>>
    BY <1>4 DEF RequestDelete, Start
  <2> DEFINE q == Remember(Call(op, c, {i}, "draft"), {i})
  <2>2. PendingInsert(q) = {}
    BY DEF Remember, Call, Idle, PendingInsert, Inserts
  <2>3. EditOK(q)
    BY DEF Remember, Call, Idle, NoStage, EditOK, ReApprovals
  <2> HIDE DEF q
  <2>4. req' = [req EXCEPT ![r] = q]
    BY <2>1 DEF q
  <2> QED
    BY <2>1, <2>2, <2>3, <2>4, RequestKeepsEdits
<1>5. CASE PendingEdit(r)
  <2>1. PICK c \in Cashiers, s \in {"draft", "parked"}, i \in Stored :
          /\ db[i].original = NoOne
          /\ req' = [req EXCEPT ![r] =
                       [Call("pending_edit", c, {i}, s) EXCEPT
                          !.pc = "find", !.todo = {}, !.new = CloneOf(db[i], i, s)]]
          /\ UNCHANGED <<db, issued>>
    BY <1>5 DEF PendingEdit, Start
  <2> DEFINE q == [Call("pending_edit", c, {i}, s) EXCEPT
                     !.pc = "find", !.todo = {}, !.new = CloneOf(db[i], i, s)]
  <2>2. PendingInsert(q) = {}
    BY DEF Call, Idle, PendingInsert
  <2>3. EditOK(q)
    <3>1. Root(i)
      BY <2>1, StoredRoots DEF Clones
    <3>2. CloneOf(db[i], i, s).edited /\ CloneOf(db[i], i, s).original = i
      BY <1>1 DEF CloneOf, Row
    <3> QED
      BY <3>1, <3>2 DEF Call, Idle, NoStage, EditOK, ReApprovals
  <2> HIDE DEF q
  <2>4. req' = [req EXCEPT ![r] = q]
    BY <2>1 DEF q
  <2> QED
    BY <2>1, <2>2, <2>3, <2>4, RequestKeepsEdits
<1>6. CASE ReApproveEdited(r)
  <2>1. PICK u \in Accountants, i \in Clones :
          /\ req' = [req EXCEPT ![r] =
                       [Call("cascade", u, {i}, "draft") EXCEPT
                          !.pc = "find", !.todo = {},
                          !.next = [op |-> "drop_clone", todo |-> {i},
                                    docs |-> [NoDocs EXCEPT ![i] = db[i]]]]]
          /\ UNCHANGED <<db, issued>>
    BY <1>1, <1>6 DEF ReApproveEdited, Start, ShownOn, IsPendingClone, Clones, Stored
  <2> DEFINE docs == [NoDocs EXCEPT ![i] = db[i]]
             q == [Call("cascade", u, {i}, "draft") EXCEPT
                     !.pc = "find", !.todo = {},
                     !.next = [op |-> "drop_clone", todo |-> {i}, docs |-> docs]]
  <2>2. PendingInsert(q) = {}
    BY DEF Call, Idle, PendingInsert
  <2>3. EditOK(q)
    <3>1. docs[i] = db[i] /\ Root(db[i].original)
      BY <1>1 DEF NoDocs, EditsInv, Clones
    <3> HIDE DEF docs
    <3> QED
      BY <3>1 DEF Call, Idle, EditOK, ReApprovals
  <2>4. req' = [req EXCEPT ![r] = q]
    BY <2>1
  <2> HIDE DEF q
  <2> QED
    BY <2>1, <2>2, <2>3, <2>4, RequestKeepsEdits
<1>7. ASSUME NEW q, q.new = NoDoc, q.op = "drop_clones_of", q.next.op = "confirm_deletion",
             req' = [req EXCEPT ![r] = q], UNCHANGED <<db, issued>>
      PROVE  EditsInv'
  <2>1. PendingInsert(q) = {} /\ EditOK(q)
    BY <1>7 DEF PendingInsert, Inserts, EditOK, ReApprovals
  <2> QED
    BY <1>7, <2>1, RequestKeepsEdits
<1>8. CASE ConfirmDeletion(r)
  <2>1. PICK u \in Accountants, i \in Stored :
          /\ req' = [req EXCEPT ![r] =
                       [Call("drop_clones_of", u, {i}, "draft") EXCEPT
                          !.pc = "find", !.todo = TxIds,
                          !.next = [op |-> "confirm_deletion", todo |-> {i},
                                    docs |-> [NoDocs EXCEPT ![i] = db[i]]]]]
          /\ UNCHANGED <<db, issued>>
    BY <1>8 DEF ConfirmDeletion, Start
  <2> QED
    BY <1>7, <2>1 DEF Call, Idle
<1>9. CASE BulkConfirmDeletions(r)
  <2>1. PICK u \in Accountants, ids \in NonEmpty(Stored) :
          /\ req' = [req EXCEPT ![r] =
                       [Call("drop_clones_of", u, ids, "draft") EXCEPT
                          !.todo = TxIds,
                          !.next = [op |-> "confirm_deletion", todo |-> ids,
                                    docs |-> NoDocs]]]
          /\ UNCHANGED <<db, issued>>
    BY <1>9 DEF BulkConfirmDeletions, Start
  <2> QED
    BY <1>7, <2>1 DEF Call, Idle
<1> QED
  BY <1>2, <1>3, <1>4, <1>5, <1>6, <1>8, <1>9 DEF Arrive, Plain

-----------------------------------------------------------------------------
(* The later steps of a request. *)

LEMMA FindCloneKeepsEdits ==
    ASSUME IInv, EditsInv, NEW r \in Requests, Find(r), FindClone(r)
    PROVE  EditsInv'
<1> DEFINE q == req[r]
           edit(j) == [Call("edit_clone", q.actor, q.ids, q.status) EXCEPT !.todo = {j}]
           insert(j) == [q EXCEPT !.pc = "write", !.op = "insert_clone", !.todo = {j}]
<1>1. q \in Request /\ EditOK(q) /\ q.op = "pending_edit" /\ db' = db
  BY DEF Find, FindClone, IInv, TypeOK, EditsInv
<1>2. CASE \E j \in UNION {PendingClones(o) : o \in q.ids} :
             /\ req' = [req EXCEPT ![r] = Remember(edit(j), {j})]
             /\ UNCHANGED issued
  <2>1. PICK j : req' = [req EXCEPT ![r] = Remember(edit(j), {j})] /\ UNCHANGED issued
    BY <1>2
  <2>2. /\ PendingInsert(Remember(edit(j), {j})) = {} /\ EditOK(Remember(edit(j), {j}))
    BY DEF Remember, Call, Idle, NoStage, PendingInsert, Inserts, EditOK, ReApprovals
  <2> HIDE DEF edit
  <2> QED
    BY <1>1, <2>1, <2>2, RequestKeepsEdits
<1>3. CASE \E j \in TxIds \ issued :
             /\ req' = [req EXCEPT ![r] = insert(j)]
             /\ issued' = issued \cup {j}
  <2>1. PICK j \in TxIds \ issued : /\ req' = [req EXCEPT ![r] = insert(j)]
                                   /\ issued' = issued \cup {j}
    BY <1>3
  <2>2. PendingInsert(insert(j)) = {j} /\ EditOK(insert(j))
    BY <1>1 DEF Request, PendingInsert, Inserts, EditOK, ReApprovals
  <2> HIDE DEF insert
  <2> QED
    BY <1>1, <2>1, <2>2, RequestKeepsEdits
<1> QED
  BY <1>2, <1>3 DEF FindClone

LEMMA FindOriginalKeepsEdits ==
    ASSUME IInv, EditsInv, NEW r \in Requests, Find(r), FindOriginal(r)
    PROVE  EditsInv'
<1> DEFINE q == req[r]
           o == {q.next.docs[i].original : i \in q.ids}
           q2 == Remember([q EXCEPT !.pc = "write", !.todo = o], o)
<1>1. q \in Request /\ EditOK(q) /\ q.op = "cascade" /\ q.pc = "find"
  BY DEF Find, FindOriginal, IInv, TypeOK, EditsInv
<1>2. UNCHANGED <<db, issued>> /\ req' = [req EXCEPT ![r] = q2]
  BY DEF FindOriginal
<1>3. \A j \in o : Root(j)
  BY <1>1 DEF EditOK
<1>4. PendingInsert(q2) = {} /\ EditOK(q2)
  BY <1>1, <1>3 DEF Remember, Request, PendingInsert, Inserts, EditOK
<1> HIDE DEF q2
<1> QED
  BY <1>2, <1>4, RequestKeepsEdits

LEMMA LoadClonesKeepsEdits ==
    ASSUME IInv, EditsInv, NEW r \in Requests, Find(r), LoadClones(r)
    PROVE  EditsInv'
<1> DEFINE q == req[r]
           q2 == Load([q EXCEPT !.pc = "write"])
<1>1. q \in Request /\ EditOK(q) /\ q.op = "drop_clones_of"
  BY DEF Find, LoadClones, IInv, TypeOK, EditsInv
<1>2. UNCHANGED <<db, issued>> /\ req' = [req EXCEPT ![r] = q2]
  BY DEF LoadClones
<1>3. PendingInsert(q2) = {} /\ EditOK(q2)
  BY <1>1 DEF Load, Remember, Request, PendingInsert, Inserts, EditOK, ReApprovals
<1> HIDE DEF q2
<1> QED
  BY <1>2, <1>3, RequestKeepsEdits

LEMMA NoteKeepsEdits ==
    ASSUME IInv, IdsInv, EditsInv, NEW r \in Requests, Note(r)
    PROVE  EditsInv'
<1> DEFINE q == req[r]
           q2 == [Call(q.next.op, q.actor, q.ids, "draft") EXCEPT
                    !.todo = q.next.todo, !.docs = q.next.docs]
<1>1. q \in Request /\ EditOK(q) /\ Guarded(q) /\ UNCHANGED <<db, issued>>
  BY DEF Note, IInv, TypeOK, EditsInv, IdsInv
<1>2. PendingInsert(Idle) = {} /\ EditOK(Idle)
  BY DEF Idle, NoStage, PendingInsert, EditOK, ReApprovals
<1>3. PendingInsert(q2) = {} /\ EditOK(q2)
  BY <1>1 DEF Call, Idle, NoStage, Guarded, PendingInsert, EditOK, ReApprovals
<1> HIDE DEF q2
<1>4. req' = [req EXCEPT ![r] = Idle] \/ req' = [req EXCEPT ![r] = q2]
  BY DEF Note, q2
<1> QED
  BY <1>1, <1>2, <1>3, <1>4, RequestKeepsEdits

(* Only re-approval takes the mark from a row.                             *)
LEMMA SetByKeepsMark ==
    ASSUME NEW q, NEW row \in Row, row.edited,
           q.op \notin Inserts \cup Deletes \cup ReApprovals
    PROVE  SetBy(q, row).edited
<1> USE DEF Row
<1>1. \A s : /\ Saved(row, s).edited /\ SavedEdited(row, s).edited
             /\ SavedRejected(row, s).edited /\ CloneEdited(row, s).edited
  BY DEF Saved, SavedEdited, SavedRejected, CloneEdited
<1>2. /\ Approved(row).edited /\ RejectedBy(row).edited /\ Returned(row).edited
      /\ Resubmitted(row).edited /\ Submitted(row).edited
  BY DEF Approved, RejectedBy, Returned, Resubmitted, Submitted
<1>3. /\ Discarded(row).edited /\ Undiscarded(row).edited
      /\ RestoreAsked(row).edited /\ RestoreCleared(row).edited
      /\ TrashCleared(row).edited
  BY DEF Discarded, Undiscarded, RestoreAsked, RestoreCleared, TrashCleared
<1>4. \A u : /\ TrashedBy(row, u).edited /\ DeletionConfirmed(row, u).edited
             /\ DeletionAsked(row).edited /\ DeletionRefused(row).edited
  BY DEF TrashedBy, DeletionConfirmed, DeletionAsked, DeletionRefused
<1> QED
  BY <1>1, <1>2, <1>3, <1>4 DEF SetBy, ReApprovals

LEMMA WriteRowKeepsEdits ==
    ASSUME IInv, IdsInv, EditsInv, NEW r \in Requests, WriteRow(r)
    PROVE  EditsInv'
<1> DEFINE q == req[r]
<1>1. PICK i \in q.todo :
        LET hit == Matches(q, db[i])
            row == IF hit THEN SetBy(q, db[i]) ELSE db[i]
        IN /\ q.pc = "write"
           /\ db' = [db EXCEPT ![i] = row]
           /\ shown' = shown \cup {i} \X ShowsOn(row)
           /\ req' = [req EXCEPT ![r] =
                        AfterWrite([q EXCEPT !.todo = @ \ {i},
                                             !.written = IF hit THEN @ \cup {i} ELSE @])]
           /\ UNCHANGED issued
  BY DEF WriteRow
<1> DEFINE hit == Matches(q, db[i])
           row == IF hit THEN SetBy(q, db[i]) ELSE db[i]
           q2 == [q EXCEPT !.todo = @ \ {i}, !.written = IF hit THEN @ \cup {i} ELSE @]
           q3 == AfterWrite(q2)
           insert == q.op \in Inserts
<1>2. /\ q \in Request /\ EditOK(q) /\ q.pc = "write" /\ i \in TxIds
      /\ db \in Docs /\ issued' = issued /\ req \in [Requests -> Request]
      /\ db' = [db EXCEPT ![i] = row] /\ req' = [req EXCEPT ![r] = q3]
  BY <1>1 DEF IInv, EditsInv, TypeOK, Request
<1>3. EditOK(q3) /\ PendingInsert(q3) \subseteq PendingInsert(q)
  <2>1. q2 \in Request /\ EditOK(q2) /\ PendingInsert(q2) \subseteq PendingInsert(q)
    BY <1>2 DEF Request, EditOK, PendingInsert
  <2> HIDE DEF q2
  <2> QED
    BY <2>1 DEF AfterWrite, Request, Idle, NoStage, EditOK, PendingInsert, ReApprovals
<1>4. insert => i \in Inserting /\ i \notin Stored
  BY <1>1 DEF PendingInsert, Inserting, IdsInv
<1>5. ~insert /\ i \in Clones /\ row # NoDoc => row.edited /\ row.original = db[i].original
  <2> SUFFICES ASSUME ~insert, i \in Clones, hit, SetBy(q, db[i]) # NoDoc
               PROVE  /\ SetBy(q, db[i]).edited
                      /\ SetBy(q, db[i]).original = db[i].original
    BY DEF EditsInv
  <2>1. db[i] \in Row /\ db[i].edited
    BY <1>2 DEF Docs, EditsInv, Clones, Stored
  <2>2. q.op \notin Deletes
    BY DEF SetBy, Inserts, Deletes
  <2>3. q.op \notin ReApprovals
    BY <1>1, <1>2 DEF EditOK, Root
  <2> QED
    BY <2>1, <2>2, <2>3, SetByKeepsMark, SetByKeepsOriginal
<1>6. ~insert /\ i \notin Clones /\ row # NoDoc => row.original = NoOne
  <2> SUFFICES ASSUME ~insert, i \notin Clones, row # NoDoc
               PROVE  row.original = NoOne
    OBVIOUS
  <2>1. db[i] # NoDoc /\ db[i] \in Row /\ db[i].original = NoOne
    BY <1>2 DEF Matches, Docs, Clones, Stored
  <2>2. CASE hit
    <3>1. q.op \notin Deletes
      BY <2>2 DEF SetBy, Inserts, Deletes
    <3> QED
      BY <2>1, <2>2, <3>1, SetByKeepsOriginal
  <2> QED
    BY <2>1, <2>2
<1>7. insert /\ row # NoDoc /\ row.original # NoOne => row.edited /\ Root(row.original)
  <2>1. insert => row = q.new \/ row = db[i]
    BY DEF SetBy, Inserts, Deletes
  <2>2. insert => db[i] = NoDoc
    BY <1>2, <1>4 DEF Stored
  <2> QED
    BY <1>2, <2>1, <2>2 DEF EditOK
<1> HIDE DEF row, q3
<1>8. \A j \in TxIds : db'[j] = IF j = i THEN row ELSE db[j]
  BY <1>2 DEF Docs
<1>9. Clones' \subseteq TxIds /\ Clones' = {j \in TxIds : db'[j] # NoDoc /\ db'[j].original # NoOne}
  BY DEF Stored, Clones
<1>10. Clones' \subseteq Clones \cup (IF insert THEN {i} ELSE {})
  BY <1>6, <1>8, <1>9 DEF Stored, Clones
<1>11. Inserting' \subseteq Inserting
  <2>1. \A s \in Requests : PendingInsert(req[s])' = PendingInsert(IF s = r THEN q3 ELSE req[s])
    BY <1>2 DEF PendingInsert
  <2> QED
    BY <1>3, <2>1 DEF Inserting
<1>12. \A j : Root(j) => j \in issued' /\ j \notin Clones' /\ j \notin Inserting'
  BY <1>2, <1>4, <1>10, <1>11 DEF Root
<1>13. \A j \in Clones' : db'[j].edited /\ Root(db'[j].original)
  BY <1>5, <1>7, <1>8, <1>9, <1>10 DEF EditsInv, Stored, Clones
<1>14. \A s \in Requests : EditOK(req'[s])
  BY <1>2, <1>3 DEF EditsInv
<1>15. \A j \in Clones' : db'[j].edited /\ Root(db[j].original)'
  BY <1>12, <1>13 DEF Root
<1>16. \A s \in Requests : EditOK(req[s])'
  BY <1>12, <1>14 DEF EditOK, Root
<1> QED
  BY <1>15, <1>16 DEF EditsInv

-----------------------------------------------------------------------------
LEMMA IdleEdits == EditOK(Idle)
BY DEF EditOK, Idle, NoStage, ReApprovals

LEMMA InitEdits ==
    ASSUME Init
    PROVE  EditsInv
<1>1. Clones = {}
  BY DEF Init, Clones, Stored, NoDocs
<1>2. \A r \in Requests : req[r] = Idle
  BY DEF Init
<1> QED
  BY <1>1, <1>2, IdleEdits DEF EditsInv

LEMMA StepKeepsEdits ==
    ASSUME IInv, IdsInv, EditsInv, NEW r \in Requests, Arrive(r) \/ Step(r) \/ Note(r)
    PROVE  EditsInv'
BY ArriveKeepsEdits, FindCloneKeepsEdits, FindOriginalKeepsEdits, LoadClonesKeepsEdits,
   WriteRowKeepsEdits, NoteKeepsEdits DEF Step, Find

LEMMA EditsInvariance == Spec => [](IInv /\ IdsInv /\ EditsInv)
<1>1. Init => EditsInv
  BY InitEdits
<1>2. IInv /\ IdsInv /\ EditsInv /\ [Next]_vars => EditsInv'
  <2> SUFFICES ASSUME IInv, IdsInv, EditsInv, [Next]_vars PROVE EditsInv'
    OBVIOUS
  <2>1. CASE UNCHANGED vars
    BY <2>1 DEF vars, EditsInv, EditOK, Root, Inserting, PendingInsert, Clones, Stored
  <2> QED
    BY <2>1, StepKeepsEdits DEF Next
<1> QED
  BY <1>1, <1>2, IdsInvariance, PTL DEF Spec

(* The New tab of the verify inbox never lists a pending edit, whose       *)
(* approval there would leave it as a second master row.                   *)
THEOREM NewTabSafe == Spec => []NewTabListsNoEdits
<1>1. EditsInv => NewTabListsNoEdits
  BY DEF EditsInv, NewTabListsNoEdits, OnNewTab, Clones, Stored
<1> QED
  BY <1>1, EditsInvariance, PTL
=============================================================================
