# Tahmeed expense register: TLA+ models and proofs

Tahmeed is a desktop client (`src/tahmeed`, PySide6) over an HTTP API
(`src/backend/app`, FastAPI on MongoDB). Cashiers keep a *daily register* of
expenses; accountants verify them; deletions, restores, rejections and edits of
verified rows move a row between half a dozen queues. The API runs as several
worker processes, so any two requests may interleave at every `await`.

Around it the client keeps two queues of its own, new rows and description
mappings that wait for the server, and one token pair that all its requests
share; a scheduler dumps, uploads and prunes backups from any number of hosts; and
managers push days of old workbooks into the register in batches.

This directory holds a model of each of these, the TLC instances that check
them, and TLAPS proofs of what matters most for any number of rows, users,
requests, jobs, hosts, coroutines and uploads.

## Inventory

| Component | State | Operations | What is hard | What must hold |
|---|---|---|---|---|
| **Transaction life cycle** (`transactions_api.py`, `accountant_actions_api.py`, `accountant_deletions_api.py`, `accountant_restores_api.py`, `accountant_trash_api.py`) | one document per row: register status, verified, rejected, discarded, deletion requested, trashed, restore requested, clone of | create, save, submit a day, approve, reject, return, resubmit, discard, trash, request/confirm/refuse deletion, request/confirm/refuse restore, purge, pending edit, re-approve | each handler reads, then writes, then posts a delta; most writes are addressed by `_id` alone; bulk writes visit row after row; screens are stale | rows leave only through the paths the trash plan allows; flags agree |
| **Sidebar badges** (`badge_counters.py`) | one counter document: six totals, drafts and parked per cashier | `$inc` after each write, repair at startup, long-poll | delta computed from remembered rows; some handlers post none; crash before the `$inc`; repair against live workers | badges equal the counts |
| **New rows and their draft outbox** (`excel_grid.py`, `register_draft_service.py`, `bulk-create`) | grid, local draft file, drain timer, rows in flight; `client_row_id` of the stored rows | type, Save, drain in chunks, replay after a timeout, autosave, reload after a crash | the drain remembers positions and the cashier goes on; lost replies; best-effort index; a failed load | a row reported as saved is in the file or on the server, once, with the text shown |
| **Mapping-apply outbox** (`mapping_apply_outbox.py`, `day_issues.py`) | job list, drain lock, scheduled flag | map, enqueue, drain, retry, Undo, refresh | a job in flight during Undo; a drain that finds another running; requests that finish late | no stamp after Undo; older mappings never over newer ones; every job ends |
| **Backup scheduler** (`cli/scheduler.py`, `cli/backup.py`) | slots and claims, jobs, lock file, lease, archives on disk and in the bucket | claim, dump, upload, prune, restore, heartbeat | two hosts, a crash or a stall in any step, threads and children that outlive a cancelled coroutine and its lease, the owner not checked on finish, a restore of the scheduler's own collections | one dump per slot; nothing unsent is lost; the last good backup is kept |
| **Tokens and sessions** (`api_client.py`, `api.py`, `main.py`) | token pair, refresh lock; sessions with a rotating secret | sign in, request, refresh, sign out, revoke | requests rejected together; a coroutine cancelled in its refresh; a refresh that outlives a sign-out | one refresh for all; the client is never its own thief; nobody uses another user's pair |
| **Imports** (`import_session_*.py`, `daily_import_service.py`, `import_ops.py`, `imports_api.py`, `batch_lock.py`) | session with mappings and marks of pushed days; upload ids, row keys, best-effort unique index; a lock per process | map, push a day in batches, repeat a failed batch, unmark, commit, delete an upload | a request given up on goes on beside its repetition; the lock is per process; a push stops half-way; the key holds what the mapping said | a line is stored once; a marked day is in the register |
| **Feeds, reconciliation, attachments, connectivity, day issues, reports, updates, UI** | see `PROJECT.json` | | mostly queries, I/O or layout | |

How they interact: the client's screens list rows through the queries of the
API and later send requests for what they listed; all handlers share the one
`transactions` collection; badges are written by the handlers of the life cycle
and read by every client; the outbox and the imports write rows past the
register's own handlers. The two client outboxes run on the client's one event
loop beside its dialogs; every request of theirs goes through the token pair.
The backup scheduler shares only the database and the bucket with the rest.

## Modules

| Module | Role |
|---|---|
| `RegisterRows` | the row, queue membership in Python (`InDrafts`, `InVerify`, ...) and, separately, the database queries (`DRAFT_BASE_MATCH`, `inbox_base_query`, ...); buckets of the badges |
| `RegisterWrites` | per endpoint: the filter of its write and the document its `$set` leaves |
| `RegisterLifecycle` | the state machine: requests in flight, each `load`, `write` row by row, `note` |
| `RegisterSafety` | the safety and action properties of the life cycle |
| `BadgeCounters` | `RegisterLifecycle` plus the stored counters adjusted at each `note`, workers that stop, and the repair at the start of a worker |
| `MCRegister`, `MCBadges` | TLC instances: sets of endpoints, symmetry, views, and the constraint of the badge run |
| `RegisterProofs` | types, the inductive invariant, and the theorems on flags, hard deletes, pending edits and the New tab |
| `BadgeProofs` | what the badges and the trash promise while nobody shares an expense |
| `SavePromise` | abstract: what "Saved locally, will sync" promises of a row |
| `RegisterOutbox`, `MCSaves` | new rows from the keyboard to the server; implements `SavePromise` |
| `SavesProofs` | its inductive invariant, every safety property of its run, and the safety half of the refinement |
| `MappingJobs` | abstract: what the outbox promises of a job |
| `MappingOutbox`, `MCOutbox` | mapping commits, their jobs, Undo and refresh; implements `MappingJobs` |
| `OutboxProofs` | its inductive invariant, five safety theorems, and the safety half of the refinement |
| `BackupScheduler`, `MCBackups` | schedulers and admins on several hosts, and what of theirs runs on by itself |
| `BackupProofs` | its inductive invariant and three safety theorems beside types |
| `RetentionProofs` | what completed slots, uploads and pruning keep: four more |
| `TokenRefresh`, `MCTokens` | the token pair of one client and the server's sessions |
| `TokenProofs` | its inductive invariants and every safety property of its run |
| `ImportPush`, `MCImports` | import sessions of several desktops, their pushes and the commits at the API |
| `ImportProofs` | its inductive invariant, and both safety theorems beside types |

### State and code: the register

* `db` is the `transactions` collection, a document or `NoDoc` per id. `issued`
  keeps an ObjectId from being used twice.
* `shown` holds, per row, what screens have shown it as: on a tab of the verify
  inbox that approves (New, or Issues, which lists rows with an issue flag by
  `build_issue_query` of `import_ops.py`), on the Edited tab, or as submitted or
  verified in the register grid. Users act on pages listed long ago, so an entry is
  never withdrawn.
* A row's `issue` is `possible_duplicate` or `date_discrepancy`: set when a row is
  saved despite the grid's warning, inherited by a pending edit with the rest of the
  document, cleared by approval only.
* `req[r]` is a handler in flight: the endpoint, its actor, the ids of the body,
  the remembered documents (`docs`, from `load_badge_docs` or `find_one`), the
  rows its write has still to visit (`todo`) and those it changed (`written`),
  and a second stage where the handler has one (`next`).
* `badges` is the counter document. `StopWorker(S)` ends the requests of a
  worker where they are, what they had still to post included; the worker that
  takes its place runs `CountAll` and `Overwrite` (`repair_badge_counters`, from the
  lifespan of `main.py:20-34`) while the others go on serving
  (`backend/Dockerfile:40` starts three). `drift` records that a delta was lost,
  or that a repair overlapped a write or a delta on its way.

An arriving request performs its first read (`Arrive`). `FindClone`,
`FindOriginal` and `LoadClones` are second reads. `WriteRow` visits one row:
MongoDB is atomic per document, so `update_many` is a sequence of such steps
in any order, each evaluating the filter on the row as it is then. `Note` is the
badge post and the reply, or the start of the second stage. The order of
the stages is the code's: confirm-deletion deletes clones, posts, then trashes;
re-approve of a clone updates the original, posts, then deletes the clone.

Abstractions, all in the data: one register day; no amounts, items, payees or
descriptions (hence not the check that an approved row has an item and a payee,
nor apply-description-mapping, which writes only these); rows carry a
`register_status` (documents from before that field are left out); audit
events are left out. `written` counts the rows a filter matched where the code
reads `modified_count`: they differ only for a write that changes nothing,
whose delta is zero as well unless another request changed the row since the
load. What the desktop client guarantees is part of the guards: a row
is re-approved from the Edited tab and approved from New or Issues (`Offers`);
a pending edit is sent for a row the grid showed as verified and that is no
clone (whatever state it has reached since); a save (`Saveable`) carries the
status the grid computed, draft or parked, also for a row shown as submitted,
which gets the edited mark; a save of a clone always carries it. Return-to-inbox
is offered on the Rejected tab; the model admits it for every row once shown on
another tab, for a rejected row was rejected from one. `POST
daily/issues/{id}/clear` is left out: no screen calls it.

### State and code: new rows (`RegisterOutbox`)

One cashier, one day, one event loop: an action is the code from one `await` to the
next. `grid` holds the editable rows (`client_row_id`, text, whether
`sync_status` is set), `file` the draft file, `docs` what the server has stored
for each id. A drain takes a `batch` of positions, sends it in chunks (`call`), and
marks or clears *those positions* when it ends, whatever stands there by then
(`excel_grid.py:8367`). Save (`BeginSave` .. `EndSave`) flushes, creates, and
defers what it could not send to the drain. A request given up on joins
`strays` and may run on at the server. `bulk-create` is two steps, `Lookup` by
`client_row_id` and `Insert`; the unique index is created best-effort only
(`transactions_api.py:119`), so `Indexed` is a constant. `StartLoad`/`EndLoad`
read the file back and drop rows the server has, by id or, if the id is unknown there,
by equal content (`Claimed`, line 8731). `promised`, `excused`, `edited` and
`abandoned` are histories: rows reported as saved; rows the cashier took back
and rows the code itself loses (below); rows changed while a request may hold
them; rows of requests given up on.

What is left out: parked rows and Submit's own synchronous create, edits of rows the
server has already, the Parked and Merged views, undo and redo, the 180 s limit
of the wait for a drain, rows that cannot be built (they are tried again every 100 ms,
line 8306), several days or cashiers.

### State and code: mappings (`MappingOutbox`)

`status`, `keys`, `attempts` are the job list, in the order of its numbers; `current` and
`reply` the drain's job and request; `scheduled` and `queued` a kick and a drain on
their way; `pc` and `picked` the mapping coroutines of Day Issues, each of
which may go on to its Undo; `rows` the job that stamped a description's rows
last; `late` and `lateClears` requests that timed out at the client and still run.
There is one remembered Undo for the page (`_last_mapping_undo`): after two commits
the first dialog's Undo undoes the later one. Jobs outlive a sign-out. Left out: dropping
finished jobs, stamps on rows not saved yet, commits that make several jobs,
what a description map says.

### State and code: backups (`BackupScheduler`)

Time is counted in half hours. `slots` and `tasks` are the claims, `jobs` the
`backup_jobs`, `lease` the distributed lease, `files` and `objects` the
archives on disk and in the bucket, `archive[j]` what a dump holds of the scheduler's own
collections (a restore brings *those* back too), `work[p]` where each process is
and what it has in hand. A crash, an error, a missed heartbeat (`Tick(late)`) may hit any
step. `stalled`, `restored`, `misplaced`, `sent` are histories.

A failed heartbeat cancels the coroutine only (`backup.py:246-249`). `mongodump` and `mongorestore`, killed only
on their own time-outs, and the bucket calls in their threads run on, while the `finally`
(258-261) gives back the lease and the context managers the lock file. `Cancel` frees the process at once and
may leave what it waited for to one of the `Strays` (`Drop`): of an upload or a prune the one call under way (`Alone`), of
a dump or a restore the child. A stray has its one effect on disk, bucket or database, or none, at any
later time, and records nothing. The release in the `finally` may fail as well; then its error takes the
cancellation's place, the lease runs out by itself (`Forsaken`) and a scheduler marks the slot failed (`Failed`). After
`Crash` a child, or a request that has reached the bucket, may be carried out in the same way. Reading calls (checksums,
`head_object`, a download for a restore) leave nothing behind and have no stray. The model lets a process whose coroutine was cancelled
go on at once, although the real one waits for its threads before it exits and is started again: it shows more than
can happen.
Left out: a restore that fails half-way, changes of mode or of the number kept, running
without a bucket, manifests.

### State and code: tokens (`TokenRefresh`)

`tokens` is the client's pair, `task[t]` a coroutine inside `_send`, `lock` the
holder of `_refresh_lock`, `calls` the requests of `POST auth/refresh` with the
handler's two database calls apart, `sessions` the documents of
`auth_sessions`: the number of rotations (`gen`), how many of its access tokens are past
expiry, whether it is revoked. `window` is the sign-in whose dashboard is open. An answer and
its arrival are one step except for refresh and logout, where other
coroutines can tell them apart. `Cancel` ends a coroutine where it stands: the
badge stream is cancelled whenever a dialog opens (`dashboard.py:784`), an
upload when its user asks. `cut` and `crossed` are histories of the two things the
properties excuse. Left out: failed-login counting (`security_policy.py:185` reads,
adds and writes back, so failures at the same time count once and the lockout comes
late), allowlists, limits on sessions, user administration, requests that a
dashboard's jobs start after its sign-out.

### State and code: imports (`ImportPush`)

Every manager's desktop has a session of the same workbook. `item[m]` is what a
description resolves to (`resolve_description`; `NoItem` where it does not), `pushed[m][d]` the
mark of a day with the rows that were sent for it, `push[m]` the locals of `push_groups` and
`commit_daily_to_master` on the desktop: the days left, the upload (one per day and
file), the batch, and the batch the current round began with. A failed batch is sent once more
by a new round; if that round fails where it began the push stops (`Failed`). `call[c]` is a
request at the API, with the process that has it and the rows it has still to
insert; it waits for the process's batch lock (`StartCommit`), inserts row after row in any
order (`InsertRow`: `insert_many` unordered), and is answered, or fails half-way. `GiveUp` is the
client's time-out: the request goes on without its sender. `upload_id_for` is derived from the
file's name and the day, so it is the same on every desktop and in every round; the unique index is on
upload id and row key, and the key hashes the line *and its item*. `ensure_import_indexes` tries to
build that index once per process and is silent when it cannot. `lost` is a history: uploads of days a
session has pushed or is pushing that somebody deleted.

What is left out: the master import and its serials, the classic single-file import, the backfill of payees of
rows that are there, the question about prior uploads, chart-of-accounts and payee imports, reading a
changed workbook into the session, single rows that leave through the trash (which the unique index still sees until
they are purged), two lines of a day with the same serial and text, and truck fixes, which are part of the key as
the item is.

Operators marked *slip* in the modules are plausible mistakes used to test that
each property can fail; no specification uses them.

## Runs

The register and badge runs set `CHECK_DEADLOCK FALSE`: an instance has a fixed number of
document ids, and when they are used up and every row is gone nothing is left
to do. So does `tokens`: sign-ins and faults are bounded, and a user who has
left for the last time is the end. `outbox`, `saves`, `backups` and `imports` never stop.
Symmetry is over rows, requests and (in `MCBadges`) cashiers, which no
definition tells apart, and is used in no run with a liveness property.

| Run | Instance | Shows |
|---|---|---|
| `badges_rows` | 1 row, 2 cashiers, 1 request, all endpoints that post or may leave out their deltas, workers that stop, repairs | `BadgesTrackRows`: every sequence of calls on a row leaves every total and per-cashier counter equal to the query's count, up to what is still to be posted, and a repair nobody wrote beside makes up for lost deltas |
| `badges_shared` | 2 rows, 2 requests on different expenses | the same for bulk requests over two rows, for requests that overlap in time, and through insert, update, re-approve, drop and cascade of a pending edit, which stays off the New tab (`NewTabListsNoEdits`); `VerifiedTrashedOnRequest` |
| `register_overlap` | 1 row, 2 requests on it, every client endpoint | types, `TrashFlagsAgree`, `DiscardedIsSettled`, `InboxRowsOutliveDeletes`, `VerifiedLeavesThroughTrash` under every interleaving |
| `badges_bulk_confirm` (violation) | bulk-confirm of a requested deletion | badges are wrong at rest |
| `register_race` (violation) | approve against request-delete | a verified row is trashed without a request |
| `register_issues` (violation) | a flagged row edited, re-approved and edited again | a pending edit becomes a verified row of its own |
| `saves` | 2 rows, 2 texts, 2 grid rows, chunks of 1, no index, 2 acts of the cashier besides typing, 2 faults | `PromiseKept`, `OneDocPerRow`, `AckKeepsText`, and that the client implements `SavePromise`, liveness included |
| `outbox` | 1 description, 2 commits, 2 jobs, 2 attempts, 1 late request | no job is forgotten, hidden descriptions, one job in flight, Undo sticks, stamps in order, every Undo ends, and `MappingJobs` is implemented, liveness included |
| `backups` | a scheduler and an admin on two hosts, 1 stray, 2 ticks of a slot, stale after 1, lease of 1, 1 backup kept, 3 jobs, 1 fault | exclusion of all but strays, no delete of an archive being sent, one dump per slot, a completed slot has its backup, nothing unsent leaves the disk, the last restorable backup stays, pruning keeps the newer ones |
| `tokens` | 2 coroutines, 2 sign-ins, 2 access tokens each, 2 refresh calls, 1 fault | one refresh serves all, no self-made reuse, newest pair, own pair, no sign-out without a cause, every request ends |
| `imports` | 2 desktops, a day of 2 files with 2 lines and 1, batches of 1, 2 processes, 2 requests, 1 item | `StoredOnce` and `MarkedDaysAreStored`, with and without the index |
| `imports_again` (violation) | 1 desktop, 1 file of 2 lines, 2 items | a line is stored twice, under two items |

**Bounds.** The flags of a row are finite and none is bounded, so one row visits
every reachable combination of them. Handlers relate at most an original and its clone, so
two rows show a clone's whole life, and two rows suffice for a bulk request
whose rows meet different fates. Two requests show every race between a read and a
write; each re-reads everything when it starts. A row is created once per id, so
a run ends when its ids are spent: one life of a row is as long as
the clients like, since all other calls repeat.

In `saves` two rows are what it takes for one to stand where another was; a chunk of one
makes a drain of two requests; `MaxFaults` of 2 lets a crash follow a
timeout, and a request that runs on unattended counts twice, because it takes its own
step and a retry to do harm (with single cost the instance, 596,827 states, passes as
well). In `outbox` two commits on one description are what a newer
mapping, an Undo of the wrong one and a retry need; with two descriptions the safety
properties hold as well (6.3 million states). In `backups` one dump slot is due
for two ticks and maintenance in each: in the second a claim has gone stale and a lease run out
while a dump or an upload of the first is under way; the numbers of the defaults matter only
through these orders, and the theorems leave them open. One stray is what one cancelled coroutine leaves; a
stray acts alone on disk, bucket or database, and the theorems are for any number of them. With two faults (7.2 million states), with slots of
one tick (2.9 million) and with both processes on one host (0.3 million) the properties hold as
well; a random simulation with two schedulers, two admins, two strays and three faults visited 7.9 million states and found nothing. In `tokens` two coroutines make one wait for the
other's refresh; a third would wait behind it in the same way. A second
sign-in is needed for a pair to be replaced, a second access token for a
rotation and a repeated secret, and the one fault is a cancelled coroutine, a lost
answer or neither.

In `imports` two files of one day make a day end with its last file, a file of two batches of one line
makes a batch follow another and a round begin in the middle, two requests let one that was given up on run beside its
repetition, and two processes let both hold a batch lock. One description is enough, as
lines do not share rows; with one item the rows of all pushes are equal, the
case in which repetitions collide, while `imports_again` and the theorems cover more. The view
forgets whether a process has tried the index that stands, which of an upload's rows are
stored twice (they leave together only), and uploads lost to pushes that are over without a mark.

**The constraint and the view of `badges_rows`.** After a repair that somebody wrote beside,
or a delta lost with no repair to follow, nothing is claimed until the next
repair, so these states are not followed (`RepairTells`). What is cut off this way are
rows and requests that do not depend on the badges, and every later repair starts
from them as it would without the drift. `RowsView` drops the issue flag of a row that is on an approving
tab already: without pending edits nothing else reads it.

**Disjoint users.** `BadgesTrackRows` says that the stored badge is the count of the
rows as the counters know them (`Known`: a row written and not yet posted still
counts as its writer remembers it). With several requests it is checked under
`DisjointSpec`, where no two requests in flight hold the same expense (a row with its
clones). Without it the property fails: two requests that remember the same row
and both change it post overlapping transitions. That is a hazard of the code,
listed in `PROJECT.json`, and the reason for the startup repair.

`register_overlap` creates its row with an issue flag: a row without one is listed on
fewer screens and can do nothing that a flagged row cannot.

**The view of `register_overlap`.** `RegisterSafety` has no badges, and the remembered
documents only feed badge deltas: no later step reads them, except the original
of a remembered clone, which the view keeps, and a request in its last
reply does nothing but free its slot. The run makes no pending edits, so the view also
drops the issue flag of a row that is on the approving tabs already, and which rows the
grid showed as verified: nothing else reads either. States equal under the view have the same
successors under the view and the same truth of every listed property, except
`TypeOK`, whose part on remembered documents is proved.

## What the violations mean

* `badges_bulk_confirm`: `bulk_confirm_deletions`
  (`accountant_deletions_api.py:239`) posts no delta, although
  `docs/immediate-actions-phases.md:155,162` asks every path that changes
  membership to do so. The same holds for `bulk_restore_deletions`, for
  `trash/bulk-request-restore` and, for a verified discarded row, for `delete-discarded`; these are left
  out of the passing badge runs.
* `register_race`: request-delete (`transactions_api.py:2379`) chooses between trash
  and deletion request from the row it read; the write names only the `_id`.
  Against the comment at line 2466 and `TRASH_DELETE_PLAN.md:13`.
* `register_issues`: the Issues tab (`import_ops.py:440`) does not leave out pending
  edits, and the inbox approves on every tab but Edited
  (`verify_inbox.py:2751`). A flagged row that is edited while submitted is re-approved with
  its flag, a pending edit of it inherits the flag, and Approve on Issues
  makes the edit a second verified row beside its original. Against
  `cashier_service.py:1724`: a pending edit is there so that re-approval "can
  cascade the new values back to the original".
* `imports_again`: the key that tells an imported row hashes its item (`import_ops.py:81`). A push that
  fails after the first batch leaves its rows; the mapping is changed, the day pushed again, and the same line
  goes in a second time, verified, in the same upload. Unmarking a pushed day does
  the same. Against `import_session_push.py:4-7` and `:296` ("skips the rows that already
  went in") and `import_daily_master.py:1156`.

## What the model shows beside the violations

These are disagreements with what a reader of the code would expect. Each is reachable in
a passing run; the property it would break names it as an exception, so that the
property says nothing *else* goes wrong.

*Register.* `delete-discarded` (`transactions_api.py:1165`) has no `verified` clause and approve clears
neither `rejected` nor `discarded`: a row that is rejected, discarded and then approved from a page
listed before is hard-deleted while verified. `VerifiedLeavesThroughTrash` names such rows
(`discarded`) beside those that leave from the trash.

*Imports.* An upload deleted while it is pushed leaves a day marked with rows missing, or rows that
come back afterwards. The comment at `import_ops.py:338` says that inserts still use soft dedupe where the
index could not be built; daily imports have none.

*New rows.* A row that is inserted, copied or deleted during a drain makes the drain clear
the wrong row, typed and never sent (`excel_grid.py:8367`; Save's row numbers captured
at 9186 likewise). A row edited in flight is cleared with its new text. Two equal expenses
typed on purpose become one after a crash (8731). After a failed load the next
autosave overwrites the file, though the message at 9055 says the rows are kept. A
Save cancelled during a drain wakes nothing: only the probe every 8 s does
(`connectivity_service.py:227-259`). The drain scheduled at 2507 is inert, the load being in
flight until 2518, and no backoff is ever armed, the drain being in flight when it asks.

*Mappings.* The docstring at `mapping_apply_outbox.py:72` says that cancelling and then waiting
is enough; a job in flight that fails while the Undo runs goes back to pending,
escapes the cancelling, and stamps the rows again. A request that timed out at the client may
stamp later still. `_clear_saved_rows` swallows errors, and Undo reports success.

*Backups.* After a failed heartbeat a dump, an upload, a delete or a restore runs on outside the lease beside the next owner's work,
though the docstring at `backup.py:192` ("Serialize backup activity across hosts") and
`deployment/v1/README.md:215-217` promise one at a time: `ExclusiveBackups` excepts strays, and `SentNotRemoved`
and the retention properties say that the archives come to no harm by them. After a crash in a dump, or a lease lost during one, the job stays
`dumping`: every later claim of its slot is refused and the slot never gets a
backup, though `scheduler.py:131` and `deployment/docker/README.md:106-110` say that expired claims are
recovered; with the defaults an hourly claim (60 or 90 min) is over before it is
stale (120 min). `finish_slot` asks for no owner. `upload_failed` is no success, so a
slot whose dump is intact on disk can be marked failed. Maintenance on another host
marks jobs failed whose archives are not on *its* disk. A restore replaces the
scheduler's own collections.

*Tokens.* A badge stream cancelled in its refresh leaves the old pair in place while the server
may have rotated it; the next refresh is taken for a stolen one
(`SECURITY_IMPLEMENTATION.md:122`) and revokes the session. A lost refresh answer signs the
user out although the session is alive. The pair belongs to the process: a request
of the previous user that outlives a sign-out is repeated with the next user's
token, and a late refresh overwrites or clears the next user's pair.

## Fairness

The register, the badges, the backups and the imports state safety only, without fairness: the proofs also
cover clients that stop, replies that are never read, and hosts that stand
still for ever. (That a slot gets its backup in the end is not true of the code.)

* `RegisterOutbox`: timers fire, a request is looked up, inserted and answered *or*
  fails, the probe goes on every 8 s, a Save's wait ends, and a cashier opens the day
  again after a crash. Nothing is assumed of typing, of going offline or of requests given up on.
* `MappingOutbox`: kicks and drains that the event loop holds run, a request ends in one of its
  three ways (its timeout is 15 s), and each coroutine goes on. Nothing is
  assumed of the user, or of the server beyond the client's own timeout.
* `TokenRefresh`: every coroutine that can go on does, one weak fairness per coroutine, and
  the server answers. `asyncio.Lock` serves in turn, which is more. `RequestsEnd` under weak
  fairness rests on a finite number of refreshes (`MaxGen`); with unboundedly
  many it would need that order.

## Proofs

### The register

Every statement in `RegisterProofs` is checked by tlapm
from `RowConstants` (the two groups of users are disjoint, the null values are
no members) and `NoDocIsNoRow` alone. The sets of rows, users, requests and
endpoints are arbitrary, so the theorems hold for any number of concurrent handlers.

* `TypeCorrectness`: `Spec => []TypeOK`.
* `Invariance`: `Spec => []IInv`. `TrashFlagsAgree` and `DiscardedIsSettled` are not inductive:
  a pending edit copies flags from a document read earlier, and request-delete
  writes after its read. `IInv` adds to `TypeOK` that every stored row *and every
  document a request is about to insert* has consistent flags, and which actor a
  request of each kind runs for.
* `TrashFlagsCorrect`, `DiscardedCorrect`: the two invariants, from `IInv`.
* `DiscardsAreSilent`: `Spec => SilentDiscards`. A row the discard filter matches is
  rejected, and a row the restore filter matches is rejected or verified, by
  `IInv`; either way its `discarded` flag is no part of any bucket. No run states this apart: `badges_rows`
  includes both endpoints, and `BadgesTrackRows` would fail there if they moved a row between queues.
* `InboxRowsSafe`: if DELETE by id is not among the endpoints, `Spec => InboxRowsOutliveDeletes`.
  Deletes with a filter cannot match an inbox row (draft status, trashed, or
  discarded, hence settled by `IInv`). Deletes addressed by `_id` alone are
  those of clones: `IdsInv` says that an id a request holds for dropping stands for a
  row whose `original` was already set when it was read, that the id is issued,
  and that `original` never changes while an id is never used again.
  (`IdsInvariance` itself holds for all endpoints; only the theorem needs the assumption,
  because DELETE by id has no guard and removes an inbox row when called on one.)
* `VerifiedRowsSafe`: under the same assumption, `Spec => VerifiedLeavesThroughTrash`. Both
  theorems rest on one lemma, `DeletedRows`: what a write that deletes finds is a draft,
  discarded, trashed, or a clone.
* `NewTabSafe`: `Spec => []NewTabListsNoEdits`, for every set of endpoints. It is
  not inductive by itself: a save or a restore of a clone keeps its edited mark only
  if it had one, and re-approval clears the mark of the row it lands on.
  `EditsInv` says that every clone, stored or about to be inserted, carries the
  mark, and that whatever a clone names as its original and whatever row a
  re-approval is about to write is a *root*: an issued id under which no clone is stored or
  being inserted, so no cascade lands on a clone. Roots stay roots, as `original` is
  written by the insert alone and ids are not used again, even when DELETE by
  id removes one.

Since a request may stop anywhere and never step again, these theorems cover workers that stop.

### Badges (`BadgeProofs`)

From the same assumptions and `FiniteRows` (an ObjectId has twelve bytes, so the rows can be counted).

* `BadgesTypeCorrect`: `BSpec => []BadgesTypeOK`, with workers that stop, repairs and every endpoint.
* `BadgesCorrect`: `OwnSpec => []BadgesTrackRows`, for any number of rows, users and requests in flight. `OwnSpec` lets
  requests overlap in time, each on expenses of its own, workers stop at any point with what they had still to post, and
  repairs run beside the others. The hypothesis `Endpoints \subseteq Noting` leaves out the four endpoints that write behind
  the counters' back (`delete-discarded`, `bulk-request-restore`, `bulk-restore-deletions` and
  `bulk-confirm-deletions`; for the last, `badges_bulk_confirm` shows why).
  `BadgesOfDisjointRequests` and `BadgesOfOneRequest` are its corollaries for the specifications of the two runs: `DisjointSpec`, and `BSpec`
  with one request.

  The counters are no invariant of their own: whether a delta is right depends on what its handler remembered, read and
  wrote steps before. `TrackInv` adds to the register's `IInv`, `IdsInv` and `EditsInv`, request by request, that a row still to be
  written is as it is remembered, and every row about to be changed *is* remembered
  (`Fresh`); that nothing is remembered which will not be changed (`LoadedOK`: the filters of load
  and write agree); that a row changed is in the queues that will be reported for it
  (`WrittenOK`: re-approve, for one, reports a document it did not write); and that a second stage starts from the row as it is
  (`NextOK`). Two requests never hold one row, so a step of one leaves all of this standing for
  the others (`OthersTracked`). `Balance` is the property itself: a write changes neither a badge nor
  `Known` (`WritesBalance`), a note moves both by the same amount (`NoteBalance`), and the arithmetic is `DeltaMakesUp`, on
  sets that agree outside the written rows. That the queries and the deltas' own
  classification agree on every document is `ListedIsIn`. `FoundOK` carries a repair from its count to its `$set`: what it found
  alone is the count of the rows as they are, and where nothing is pending that is the count of `Known`.
  TLC had confirmed `TrackInv` on the instance of `badges_shared`, without stops, before it was proved.
* `VerifiedTrashCorrect`: `OwnSpec => VerifiedTrashedOnRequest`, for every endpoint. request-delete chooses from the row
  it read, and only disjointness keeps that row as it was (`TrashInv`); `register_race` refutes it without.

### New rows (`SavesProofs`)

From `SavesAssumption` (the bounds are natural numbers, an empty row has no text): any number of rows,
texts, actions of the cashier and faults, any chunk, with and without the unique index. `PromiseKept`
speaks of the file and the server only, and is lost as soon as the grid that overwrites the file lacks a row. `SInv` adds:

* `Rows`: ids are unique in the grid and in the file, and only a row somebody asked to save, or one that
  is excused, is marked for sending. Without it Save would mark, and the drain clear, a row that is not the one they took.
* `Captures`: Save covers the grid, so what it captured has its text until it ends, and no load begins beside it.
* `Held`: once the file was read, the grid holds every promised row that the server lacks, so it may
  overwrite the file; and the rows a load fetched are stored.
* `Sending`: what the drain calls saved is stored, what it requests stands in its batch, and nothing is
  sent or stored that nobody asked to save.
* `Alone`: a row that an insert is about to store although it is stored since the lookup, or that a
  request nobody waits for may store, was abandoned.
* `Agree`: a text that has left the client, in the batch, in a request or in a document, is what the
  row says in the grid and in the file, unless it was edited since.

`PromiseKeptCorrect` and `OneDocPerRowCorrect` follow, and the action property `AckKeepsTextCorrect`: a finished
drain clears rows by position, and a position that holds another row than the one sent excuses it. `SavesKeepPromise`
is the safety half of `SavesArePromised`, for the specification as a whole: every step is a step of `SavePromise` or a stutter.
It needs that nothing is stored unless somebody asked to save it, and that promises, excuses and documents
only grow (`Grows`). That a promised row eventually reaches the server is model-checked.

### The mapping outbox (`OutboxProofs`)

From `OutboxAssumption` (the bounds are natural numbers): any number of descriptions, jobs, commits, attempts and late requests.
`OutboxInvariance` proves the inductive invariant, the conjunction of what attempts and statuses
say of each other (`AttemptsTell`), what the request in flight may have done
(`RequestsTell`), that the drain takes jobs in order (`InOrder`), what an Undo under way
still finds (`UndoHolds`), and that nothing is left to stamp a description that was
cleared (`NothingLeft`). From it: `OutboxTypeCorrect`, `OneInFlightCorrect`, `NoJobForgotten`,
`HiddenCorrect`, `UndoCorrect`, and the action property `NewestStampCorrect`. `LedgerKept` (from `LedgerInit` and
`LedgerStep`) is the safety half of the refinement: every step is a step of `MappingJobs` or a stutter.
Its liveness half, and `UndoFinishes`, are model-checked.

### The backup scheduler (`BackupProofs`, `RetentionProofs`)

For any hosts, durations, crashes and faults, from `BackupAssumption`. The invariant is built in layers: the
state and what each process has in hand (`StateSound`, `WorkSound`), jobs and the
archives made of them (`SoundJobs`, `ArchivesSound`), who may be inside the lease
(`LeaseInUse`, `LockHeld`, `LeaseHeld`), and the disk (`DiskHeld`). The first two hold of strays too: what a stray has in hand its coroutine had. Layers are needed
because a restore may bring back *any* archived state, so archives must satisfy
what the database does. `ExclusiveBackupsCorrect` (of two at a time one stood still or is a stray, or there was a restore), `OneDumpPerSlotCorrect` and
`UnsentStaysOnDiskCorrect` follow.

`RetentionProofs` adds two layers that hold until a restore.
`SlotsHeld`: whoever is about to mark a slot completed has a backup to show for it (`Promises`), which is
why `finish_slot` may do without asking for the owner of the claim; a job says `dumping` exactly as long as the one
process that dumps it, so no upload or prune touches a job that was not dumped; and a job that was dumped has an archive
from then on, or was set down as missing by an upload. Strays touch neither jobs nor slots, short of a restore (`LooseEffect`).
`BucketHeld`: several processes and strays may upload and prune at once, each from a list made before. Whatever a list still names
has a status that says so (`SendsFresh`, `RemovesOld`), what one may send no other removes
(`Apart`), and everything on a list of prunes, and everything marked uploaded that is gone already, has
`backup_keep_count` newer backups in the bucket (`RemovesSpare`). That a second prune whose count includes objects the first has
deleted still spares enough is the step `PruneSpares`: such an object had its newer ones itself. A
stray takes over no more than what its coroutine was removing (`NoMoreRemoved`). A stray upload may put back an object that a
prune has deleted and is about to mark, so `RemovesSpare` speaks of that one too, and taking it
out again costs nothing (`LosesOne`). Two
uploads of one archive are excluded by the lock file of its host. Hence
`CompletedSlotHasBackupCorrect`, `SentNotRemovedCorrect` (from `Apart`), `RestorableKeptCorrect` and `PruneKeepsNewerCorrect`: every safety
property of the run is proved.

### Tokens (`TokenProofs`)

For any number of coroutines, sign-ins, rotations, calls and faults, from `TokenConstants`. That
no secret is sent twice is not inductive. `TokenInv` adds: every pair anywhere was issued by the
server; a pair the server has answered is nowhere else yet (`AnswersFresh`); and, unless a
refresh was cut off, the client's secret is with the server at most once, in the call of the
lock's holder (`OnlyHolder`), no secret is there twice (`SentOnce`), and an
unread one is current. The steps that send, receive and rotate nothing share
one lemma (`QuietStep`). `TokensTypeCorrect` includes that the lock is held
exactly while its holder waits; `NoSelfReuseCorrect` and `NewestPairCorrect` follow.

`HomeInv` adds who works for which sign-in. One sign-in or sign-out runs at a time, and whoever its user has not left
behind works for the open dashboard (`Doors`); the call of the lock's holder asks for the pair that
was rejected, and its answer is of the same session (`CallsOwned`); beside a refresh the pair stays, unless the
refresh can only fail (`Beside`: a revoked session stays revoked, and a rotation needs one that is not);
and the server refuses nobody whose session is not revoked, unless a refresh was cut off
(`RefusalsDue`: the secret that was read is still the newest when it is rotated, because it is there once).
`OwnTokensCorrect` and the action property `StaysSignedInCorrect` follow. TLC only: `RequestsEnd`.

### Imports (`ImportProofs`)

From `ImportConstants`: any desktops, workbook, days, descriptions, items, processes, requests and batch size. `IInv`
adds to `TypeOK`: every row that is stored, marked, or in a request sits in the upload of its line
(`Rows`), so the unique index sees two copies as one; every row of a marked day is stored or lost (`Marks`); and
for a push under way (`Pushes`), what it sent in the batches before is stored or
lost, what is missing of the batch on its way is still in the rows of the one request that answers to
it, and every line of its days resolves to an item. The last is what makes the answer to the last batch
mean that the whole day is in. `StoredOnceCorrect` and `MarkedDaysCorrect` follow; that nothing is
`doubled` where the index stands is proved with the index built at any time by any process.

### Only model-checked

All liveness, which is out of the prover's reach: that jobs, promised rows, undos and requests come to an end. Every invariant and
every safety action property of a passing run is stated by a theorem, those of the badges and the trash while
no two requests share an expense, as in their runs.

## Not modelled

`PROJECT.json` gives the reason for every component. In short: feeds, reconciliation, attachments, reports, client
updates and the widgets. The values of an expense are not in the register
modules, so a lost edit under two pending edits is a hazard without a property. The
part of the client that a model covers is its queues and its tokens, a small share of its
lines: most of the rest is layout, tables and dialogs.

## Plan

Done: the register with its badges, workers and repair; new rows; mappings; backups; tokens; imports; and the
proofs above. What remains, in this order:

1. The register's abstract life cycle of one expense (draft, waiting, verified, trash, gone), with the register shown to implement it
   step by step: `InboxRowsOutliveDeletes`, `VerifiedLeavesThroughTrash` and `VerifiedTrashedOnRequest` as one refinement.
2. Properties for the hazards in `PROJECT.json` that none covers yet, as far as the data they need is in the model.
