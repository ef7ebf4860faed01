----------------------------- MODULE ImportPush -----------------------------
(***************************************************************************)
(* Bulk import of Excel lines into Master Expenses.  A manager's desktop   *)
(* holds an import session: the lines of a workbook, the item (and truck)  *)
(* each description resolves to, and the days marked pushed.  A push sends *)
(* each upload of a day in batches of POST imports/daily/commit, one after *)
(* the other, and marks the day when all of them were answered.  A request *)
(* waits for the batch lock of its API process and inserts its rows one by *)
(* one; the unique index on upload id and row key tells which are there.   *)
(* A request that the desktop gives up on goes on at the server.           *)
(***************************************************************************)
EXTENDS Naturals, FiniteSets, Sequences

CONSTANTS
    Managers,       \* desktops, each with a session of the same workbook
    Book,           \* the lines of each upload, in the order of the push
    DayOf,          \* the day of each upload
    Descriptions, DescriptionOf,
    Items, NoItem,
    Workers,        \* API processes
    Calls,          \* requests that may be at the server at once
    NoOne,
    BatchSize       \* COMMIT_BATCH_SIZE; IMPORT_BATCH_SIZE is the same

Uploads == DOMAIN Book
LinesOf(u) == {Book[u][n] : n \in DOMAIN Book[u]}
Lines == UNION {LinesOf(u) : u \in Uploads}
Days == {DayOf[u] : u \in Uploads}

ASSUME ImportConstants ==
    /\ BatchSize \in Nat \ {0}
    /\ Book \in Seq(Seq(Lines)) \ {<<>>}
    /\ \A u \in Uploads : Book[u] # <<>>
    /\ \A u, v \in Uploads : \A n \in DOMAIN Book[u], m \in DOMAIN Book[v] :
          Book[u][n] = Book[v][m] => u = v /\ n = m
    \* push_groups takes the days in order
    /\ DayOf \in [Uploads -> Nat]
    /\ \A u, v \in Uploads : u < v => DayOf[u] <= DayOf[v]
    /\ DescriptionOf \in [Lines -> Descriptions]
    /\ NoItem \notin Items /\ NoOne \notin Managers

VARIABLES
    item,       \* per session: what a description resolves to
    pushed,     \* per session and day: the rows the day was marked pushed with
    push,       \* per desktop: the push under way
    call,       \* commit requests at the server
    tried,      \* _indexes_ensured of each API process
    indexed,    \* the unique index uniq_daily_import_row exists
    stored,     \* imported rows of the transactions collection
    doubled,    \* those of them that are stored more than once
    lost        \* history: per session, uploads deleted since it pushed their day

vars == <<item, pushed, push, call, tried, indexed, stored, doubled, lost>>

(* An imported row: two are the same for the unique index when upload id   *)
(* and row key agree; the key hashes the line's own text and its item.     *)
Row == [upload : Uploads, line : Lines, item : Items]

(* slip: a fresh upload id for each round of commit_daily_to_master.       *)
upload_id_per_round(m, u) == IF push[m].begin \in Uploads THEN push[m].begin ELSE u

(* upload_id_for: derived from the upload's name and day, not drawn.       *)
upload_id_for(m, u) == u

RowOf(m, u, l) ==
    [upload |-> upload_id_for(m, u), line |-> l, item |-> item[m][DescriptionOf[l]]]

UploadRows(m, u) == {RowOf(m, u, l) : l \in LinesOf(u)}
UploadsOf(d) == {u \in Uploads : DayOf[u] = d}
DayRows(m, d) == UNION {UploadRows(m, u) : u \in UploadsOf(d)}

(* commit_batches.                                                         *)
Batch(u, b) == {n \in DOMAIN Book[u] : (b - 1) * BatchSize < n /\ n <= b * BatchSize}
AllSent(u, b) == Len(Book[u]) <= b * BatchSize
BatchRows(m, u, b) == {RowOf(m, u, Book[u][n]) : n \in Batch(u, b)}

(* The days left, the upload and the batch sent now; `begin` is the batch  *)
(* that the last round of commit_daily_to_master began with.               *)
Push == [at : {"idle", "day", "send", "wait"}, days : SUBSET Days,
         u : Uploads, b : Nat \ {0}, begin : Nat \ {0}]
IdlePush == [at |-> "idle", days |-> {}, u |-> 1, b |-> 1, begin |-> 1]

(* A commit request: who waits for its answer, the process that has it and *)
(* the rows it has still to insert.                                        *)
Call == [at : {"none", "queued", "locked"}, by : Managers \cup {NoOne},
         worker : Workers \cup {NoOne}, rows : SUBSET Row]
NoCall == [at |-> "none", by |-> NoOne, worker |-> NoOne, rows |-> {}]

TypeOK ==
    /\ item \in [Managers -> [Descriptions -> Items \cup {NoItem}]]
    /\ pushed \in [Managers -> [Days -> SUBSET Row]]
    /\ push \in [Managers -> Push]
    /\ call \in [Calls -> Call]
    /\ tried \in [Workers -> BOOLEAN]
    /\ indexed \in BOOLEAN
    /\ stored \in SUBSET Row /\ doubled \in SUBSET stored
    /\ lost \in [Managers -> SUBSET Uploads]
    \* a push waits for one request, and a request is waited for by one push
    /\ \A m \in Managers : push[m].at = "wait" <=> \E c \in Calls : call[c].by = m
    /\ \A c, c2 \in Calls : call[c].by = call[c2].by /\ call[c].by # NoOne => c = c2

Init ==
    /\ item = [m \in Managers |-> [s \in Descriptions |-> NoItem]]
    /\ pushed = [m \in Managers |-> [d \in Days |-> {}]]
    /\ push = [m \in Managers |-> IdlePush]
    /\ call = [c \in Calls |-> NoCall]
    /\ tried = [w \in Workers |-> FALSE]
    /\ indexed \in BOOLEAN
    /\ stored = {} /\ doubled = {}
    /\ lost = [m \in Managers |-> {}]

-----------------------------------------------------------------------------
(* The manager, at the session's tabs; a dialog covers them during a push. *)

Idle(m) == push[m].at = "idle"

Register == <<tried, indexed, stored, doubled>>

(* A description is mapped or its mapping changed, by typing, another      *)
(* mapping mode, a pack, or the Description Maps read anew.                *)
Map(m, s, i) ==
    /\ Idle(m)
    /\ item' = [item EXCEPT ![m][s] = i]
    /\ UNCHANGED <<pushed, push, call, lost, Register>>

(* Unmark Pushed.                                                          *)
unmark_day_pushed(m, d) ==
    /\ Idle(m) /\ pushed[m][d] # {}
    /\ pushed' = [pushed EXCEPT ![m][d] = {}]
    /\ lost' = [lost EXCEPT ![m] = @ \ UploadsOf(d)]
    /\ UNCHANGED <<item, push, call, Register>>

(* Finish or delete the session and read the workbook into a new one.      *)
NewSession(m) ==
    /\ Idle(m)
    /\ pushed' = [pushed EXCEPT ![m] = [d \in Days |-> {}]]
    /\ item' = [item EXCEPT ![m] = [s \in Descriptions |-> NoItem]]
    /\ lost' = [lost EXCEPT ![m] = {}]
    /\ UNCHANGED <<push, call, Register>>

(* validate_session: every line resolves, and the day is not pushed.       *)
Ready(m, d) ==
    /\ pushed[m][d] = {}
    /\ \A u \in UploadsOf(d) : \A l \in LinesOf(u) : item[m][DescriptionOf[l]] # NoItem

(* Push to Master of the Ready days among those ticked, without those the  *)
(* manager leaves out when asked.                                          *)
StartPush(m) ==
    /\ Idle(m)
    /\ \E days \in SUBSET {d \in Days : Ready(m, d)} :
          /\ days # {}
          /\ push' = [push EXCEPT ![m] = [IdlePush EXCEPT !.at = "day", !.days = days]]
          /\ lost' = [lost EXCEPT ![m] = @ \ UNION {UploadsOf(d) : d \in days}]
    /\ UNCHANGED <<item, pushed, call, Register>>

-----------------------------------------------------------------------------
(* push_groups and commit_daily_to_master, on the desktop.                 *)

(* The first upload of the earliest day left.                              *)
NextUpload(days) ==
    CHOOSE u \in Uploads : DayOf[u] \in days /\ \A v \in Uploads : DayOf[v] \in days => u <= v

StartDay(m) ==
    /\ push[m].at = "day" /\ push[m].days # {}
    /\ push' = [push EXCEPT ![m] = [IdlePush EXCEPT !.at = "send", !.days = push[m].days,
                                                    !.u = NextUpload(push[m].days)]]
    /\ UNCHANGED <<item, pushed, call, lost, Register>>

(* All days pushed, or Cancel, which is looked at between two days.        *)
EndPush(m) ==
    /\ push[m].at = "day"
    /\ push' = [push EXCEPT ![m] = IdlePush]
    /\ UNCHANGED <<item, pushed, call, lost, Register>>

SendBatch(m) ==
    /\ push[m].at = "send"
    /\ \E c \in Calls, w \in Workers :
          /\ call[c].at = "none"
          /\ call' = [call EXCEPT ![c] =
                         [at |-> "queued", by |-> m, worker |-> w,
                          rows |-> BatchRows(m, push[m].u, push[m].b)]]
    /\ push' = [push EXCEPT ![m].at = "wait"]
    /\ UNCHANGED <<item, pushed, lost, Register>>

DayEnds(u) == \A v \in Uploads : DayOf[v] = DayOf[u] => v <= u

(* slip: a day is marked when the first of its uploads is through.         *)
LastBatchOfUpload(p) == AllSent(p.u, p.b)

LastBatch(p) == AllSent(p.u, p.b) /\ DayEnds(p.u)

(* slip: the upload after the last is looked for in the list.              *)
AdvancedPastEnd(p) ==
    IF ~AllSent(p.u, p.b) THEN [p EXCEPT !.at = "send", !.b = p.b + 1]
    ELSE [p EXCEPT !.at = "send", !.u = p.u + 1, !.b = 1, !.begin = 1]

(* After an answer: the next batch, the next upload of the day, or the     *)
(* next day.                                                               *)
Advanced(p) ==
    IF ~AllSent(p.u, p.b) THEN [p EXCEPT !.at = "send", !.b = p.b + 1]
    ELSE IF ~DayEnds(p.u) THEN [p EXCEPT !.at = "send", !.u = p.u + 1, !.b = 1, !.begin = 1]
    ELSE [IdlePush EXCEPT !.at = "day", !.days = p.days \ {DayOf[p.u]}]

(* After a failure: the batch is sent once more, unless the round began    *)
(* with it; then the push stops at this day.                               *)
Failed(p) ==
    IF p.begin = p.b THEN IdlePush
    ELSE [p EXCEPT !.at = "send", !.begin = p.b]

(* mark_day_pushed and save_session, without an await in between.          *)
Marked(m) ==
    IF LastBatch(push[m])
    THEN [pushed EXCEPT ![m][DayOf[push[m].u]] = DayRows(m, DayOf[push[m].u])]
    ELSE pushed

(* The request timed out; it goes on without its sender.                   *)
GiveUp(m) ==
    /\ push[m].at = "wait"
    /\ call' = [c \in Calls |-> IF call[c].by = m THEN [call[c] EXCEPT !.by = NoOne] ELSE call[c]]
    /\ push' = [push EXCEPT ![m] = Failed(@)]
    /\ UNCHANGED <<item, pushed, lost, Register>>

(* The desktop stops during a push and is started again; the session file  *)
(* has all it had.                                                         *)
Restart(m) ==
    /\ ~Idle(m)
    /\ call' = [c \in Calls |-> IF call[c].by = m THEN [call[c] EXCEPT !.by = NoOne] ELSE call[c]]
    /\ push' = [push EXCEPT ![m] = IdlePush]
    /\ UNCHANGED <<item, pushed, lost, Register>>

-----------------------------------------------------------------------------
(* POST imports/daily/commit and DELETE imports/daily/uploads.             *)

(* ensure_import_indexes, once per process: the build may fail, always     *)
(* does when rows are stored twice, and nobody is told.                    *)
ensure_import_indexes(w) ==
    /\ tried' = [tried EXCEPT ![w] = TRUE]
    /\ indexed' \in {indexed} \cup IF tried[w] \/ doubled # {} THEN {} ELSE {TRUE}

(* serialized_batch lets one commit in at a time per process.              *)
StartCommit(c) ==
    /\ call[c].at = "queued"
    /\ ~ \E c2 \in Calls : call[c2].at = "locked" /\ call[c2].worker = call[c].worker
    /\ call' = [call EXCEPT ![c].at = "locked"]
    /\ ensure_import_indexes(call[c].worker)
    /\ UNCHANGED <<item, pushed, push, stored, doubled, lost>>

(* insert_many_idempotent, unordered: each row is inserted, or is a        *)
(* duplicate where the index stands.                                       *)
InsertRow(c) ==
    /\ call[c].at = "locked"
    /\ \E k \in call[c].rows :
          /\ call' = [call EXCEPT ![c].rows = @ \ {k}]
          /\ stored' = stored \cup {k}
          /\ doubled' = IF k \in stored /\ ~indexed THEN doubled \cup {k} ELSE doubled
    /\ UNCHANGED <<item, pushed, push, tried, indexed, lost>>

Answer(c) ==
    /\ call[c].at = "locked" /\ call[c].rows = {}
    /\ call' = [call EXCEPT ![c] = NoCall]
    /\ LET m == call[c].by IN
       IF m = NoOne THEN UNCHANGED <<push, pushed>>
       ELSE push' = [push EXCEPT ![m] = Advanced(@)] /\ pushed' = Marked(m)
    /\ UNCHANGED <<item, lost, Register>>

(* The request is lost, its process stops, or the database fails: rows     *)
(* inserted so far stay, and its sender is told.                           *)
CommitFails(c) ==
    /\ call[c].at # "none"
    /\ call' = [call EXCEPT ![c] = NoCall]
    /\ push' = IF call[c].by = NoOne THEN push
               ELSE [push EXCEPT ![call[c].by] = Failed(@)]
    /\ UNCHANGED <<item, pushed, lost, Register>>

(* A process that stopped starts again.                                    *)
StartWorker(w) ==
    /\ tried[w] /\ \A c \in Calls : call[c].at # "none" => call[c].worker # w
    /\ tried' = [tried EXCEPT ![w] = FALSE]
    /\ UNCHANGED <<item, pushed, push, call, indexed, stored, doubled, lost>>

(* Browse, Uploads, Delete: by a manager, at any time.                     *)
Claims(m, u) == pushed[m][DayOf[u]] # {} \/ DayOf[u] \in push[m].days

delete_daily_upload(u) ==
    LET rows == {k \in stored : k.upload = u} IN
    /\ rows # {}
    /\ stored' = stored \ rows
    /\ doubled' = doubled \ rows
    /\ lost' = [m \in Managers |->
                 IF Claims(m, u) THEN lost[m] \cup {u} ELSE lost[m]]
    /\ UNCHANGED <<item, pushed, push, call, tried, indexed>>

-----------------------------------------------------------------------------
Next ==
    \/ \E m \in Managers, s \in Descriptions, i \in Items : Map(m, s, i)
    \/ \E m \in Managers, d \in Days : unmark_day_pushed(m, d)
    \/ \E m \in Managers : \/ NewSession(m) \/ StartPush(m) \/ StartDay(m) \/ EndPush(m)
                           \/ SendBatch(m) \/ GiveUp(m) \/ Restart(m)
    \/ \E c \in Calls : \/ StartCommit(c) \/ InsertRow(c) \/ Answer(c) \/ CommitFails(c)
    \/ \E w \in Workers : StartWorker(w)
    \/ \E u \in Uploads : delete_daily_upload(u)

Spec == Init /\ [][Next]_vars

-----------------------------------------------------------------------------
(* A line is stored once under one item, whichever desktop pushes it, from *)
(* whichever session, however often its requests are repeated, given up on *)
(* or run beside each other in several processes: the upload id and the    *)
(* row key of import_ops.py come out the same each time.  Only where the   *)
(* unique index could not be built nothing tells a row that is there.      *)
StoredOnce ==
    indexed => /\ doubled = {}
               /\ \A j, k \in stored : j.line = k.line /\ j.item = k.item => j = k

(* Every row of a day marked pushed, as it was sent, is in the register or *)
(* was deleted with its upload: the mark of mark_day_pushed tells that no  *)
(* batch of the day failed for good, after all retries, time-outs and      *)
(* requests that ended half-way.                                           *)
MarkedDaysAreStored ==
    \A m \in Managers, d \in Days : \A k \in pushed[m][d] :
        k \in stored \/ k.upload \in lost[m]

(* import_session_push.py: "pushing the same day again lands in the same   *)
(* batch and the server skips the rows it already holds."  An imported     *)
(* line is one row of Master Expenses, where the index stands.             *)
RepushSkipsLines ==
    indexed => \A j, k \in stored : j.line = k.line => j = k
=============================================================================
