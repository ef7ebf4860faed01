--------------------------- MODULE MappingOutbox ---------------------------
(***************************************************************************)
(* The Day Issues page and the mapping-apply outbox of the desktop client. *)
(* Mapping a description saves a description map and queues a job; a drain *)
(* sends the jobs one at a time, with retries; Undo cancels what is still  *)
(* queued, waits for the drain and clears the rows; a refresh rescans the  *)
(* rows and hides what is still being applied.  The client is one event    *)
(* loop: a step below is the code from one await to the next.  A request   *)
(* the client has given up waiting for may still be running on the server. *)
(***************************************************************************)
EXTENDS Naturals

CONSTANTS Keys,         \* description keys; each has one open register row
          MaxCommits,   \* bound: the mapping coroutines ever started
          MaxJobs,      \* bound: how many jobs are ever queued
          MaxLate,      \* bound: abandoned requests on the server at once
          MaxAttempts   \* _MAX_ATTEMPTS

ASSUME OutboxAssumption ==
  /\ MaxCommits \in Nat /\ MaxJobs \in Nat
  /\ MaxAttempts \in Nat \ {0}
  /\ MaxLate \in Nat

JobIds == 1..MaxJobs    \* in the order of _jobs
NoJob == 0
Tasks == 1..MaxCommits  \* in the order they were started

VARIABLES status,      \* MappingApplyJob.status, "new" before it is queued
          keys,        \* MappingApplyJob.description_keys
          attempts,    \* MappingApplyJob.attempts
          scheduled,   \* _drain_scheduled: a _kick is on its way
          queued,      \* a drain task was created and has not begun
          current,     \* the job the holder of _drain_lock waits for
          reply,       \* its request: "none", "sent", or "written" on the server
          pc,          \* where each mapping coroutine stands
          picked,      \* the keys it maps, or undoes
          snapshot,    \* the keys of _last_mapping_undo, {} for None
          listed,      \* _issues_all: the keys the page shows
          rows,        \* the job that stamped each key's row, NoJob when blank
          late,        \* late[j]: requests of j given up on and still running
          lateClears,  \* clear requests given up on and still running
          written,     \* history: the jobs the server has stamped
          cleared,     \* history: keys an Undo has cleared since they were mapped
          outran       \* history: keys an Undo could not keep clear, see below

jobVars == <<status, keys, attempts>>
drainVars == <<scheduled, queued, current, reply>>
taskVars == <<pc, picked, snapshot>>
serverVars == <<rows, late, lateClears>>
historyVars == <<written, cleared, outran>>
vars == <<jobVars, drainVars, taskVars, listed, serverVars, historyVars>>

Live(j) == status[j] \in {"pending", "in_flight"}
Touches(j, ks) == status[j] # "new" /\ keys[j] \cap ks # {}

Init ==
  /\ status = [j \in JobIds |-> "new"]
  /\ keys = [j \in JobIds |-> {}]
  /\ attempts = [j \in JobIds |-> 0]
  /\ scheduled = FALSE /\ queued = FALSE
  /\ current = NoJob /\ reply = "none"
  /\ pc = [t \in Tasks |-> "ready"]
  /\ picked = [t \in Tasks |-> {}]
  /\ snapshot = {}
  /\ listed = Keys
  /\ rows = [k \in Keys |-> NoJob]
  /\ late = [j \in JobIds |-> 0] /\ lateClears = {}
  /\ written = {} /\ cleared = {} /\ outran = {}

Goto(t, from, to) ==
  /\ pc[t] = from
  /\ pc' = [pc EXCEPT ![t] = to]
  /\ UNCHANGED picked

\* What it mapped or cleared is of no further use.
Finish(t, from, to) ==
  /\ pc[t] = from
  /\ pc' = [pc EXCEPT ![t] = to]
  /\ picked' = [picked EXCEPT ![t] = {}]

Return(t, from) == Finish(t, from, "returned")

-----------------------------------------------------------------------------
(* Mapping descriptions and queueing the job *)

\* The keys are read off the page; the map is saved after an await.  The header
\* buttons stay live meanwhile, a modal dialog blocks them.
BeginCommit(t, ks) ==
  /\ pc[t] = "ready" /\ \A u \in Tasks : u < t => pc[u] # "ready"
  /\ \A u \in Tasks : pc[u] # "offered"
  /\ ks \subseteq listed
  /\ pc' = [pc EXCEPT ![t] = "saving"]
  /\ picked' = [picked EXCEPT ![t] = ks]
  /\ UNCHANGED <<snapshot, jobVars, drainVars, listed, serverVars, historyVars>>

\* enqueue_mapping_apply.  A live job of the same keys may have the same payee,
\* item, dates and cashier, or others.
Enqueue(ks) ==
  \/ /\ \E j \in JobIds : Live(j) /\ keys[j] = ks
     /\ UNCHANGED <<status, keys, scheduled>>
  \/ /\ \E j \in JobIds :
          /\ status[j] = "new" /\ \A i \in JobIds : i < j => status[i] # "new"
          /\ status' = [status EXCEPT ![j] = "pending"]
          /\ keys' = [keys EXCEPT ![j] = ks]
     /\ scheduled' = TRUE

\* The keys an Undo is about to clear.  Three things it cannot help, and outran
\* remembers them: the key is mapped again meanwhile, the job that was in flight
\* fails and goes back to pending, a request given up on is still running.
Undoing == UNION {picked[t] : t \in {u \in Tasks : pc[u] \in {"waiting", "maps", "clearing"}}}

\* The reply to the save: remember the Undo, queue the job, take the keys off
\* the page and offer the Undo, with no await in between.
CommitSaved(t) ==
  /\ Finish(t, "saving", "offered")
  /\ Enqueue(picked[t])
  /\ snapshot' = picked[t]
  /\ listed' = listed \ picked[t]
  /\ cleared' = cleared \ picked[t]
  /\ outran' = (outran \ picked[t]) \cup (picked[t] \cap Undoing)
  /\ UNCHANGED <<attempts, queued, current, reply, serverVars, written>>

CommitFailed(t) ==
  /\ Return(t, "saving")
  /\ snapshot' = {}
  /\ UNCHANGED <<jobVars, drainVars, listed, serverVars, historyVars>>

\* The success dialog is closed with OK, or offers no Undo any more.
DeclineUndo(t) ==
  /\ Return(t, "offered")
  /\ UNCHANGED <<snapshot, jobVars, drainVars, listed, serverVars, historyVars>>

-----------------------------------------------------------------------------
(* The drain *)

\* Slip: a job out of attempts is runnable still.
TakeAnyFailed(st) ==
  \E j \in JobIds :
    /\ st[j] \in {"pending", "failed"}
    /\ status' = [st EXCEPT ![j] = "in_flight"]
    /\ attempts' = [attempts EXCEPT ![j] = @ + 1]
    /\ current' = j /\ reply' = "sent"

\* Slip: the last runnable job goes first.
TakeLast(st) ==
  \E j \in JobIds :
    /\ st[j] = "pending" /\ \A i \in JobIds : st[i] = "pending" => i <= j
    /\ status' = [st EXCEPT ![j] = "in_flight"]
    /\ attempts' = [attempts EXCEPT ![j] = @ + 1]
    /\ current' = j /\ reply' = "sent"

\* With statuses st, the lock holder sends the first runnable job; with none
\* left it releases the lock.  (The done and cancelled jobs it then drops from
\* the list are read by nobody.)
TakeNext(st) ==
  LET ready == {j \in JobIds : st[j] \in {"pending", "failed"}
                               /\ attempts[j] < MaxAttempts}
  IN \/ /\ ready = {}
        /\ status' = st /\ current' = NoJob /\ reply' = "none"
        /\ UNCHANGED attempts
     \/ \E j \in ready :
          /\ \A i \in ready : j <= i
          /\ status' = [st EXCEPT ![j] = "in_flight"]
          /\ attempts' = [attempts EXCEPT ![j] = @ + 1]
          /\ current' = j /\ reply' = "sent"

Kick ==
  /\ scheduled
  /\ scheduled' = FALSE /\ queued' = TRUE
  /\ UNCHANGED <<current, reply, jobVars, taskVars, listed, serverVars, historyVars>>

\* Slip: the drain takes a job whether or not another drain holds the lock.
StartDrainUnlocked ==
  /\ queued /\ queued' = FALSE
  /\ TakeNext(status)
  /\ UNCHANGED <<keys, scheduled, taskVars, listed, serverVars, historyVars>>

\* A drain that finds the lock held returns.  A lock that is free goes first to
\* an Undo that waits for it.
StartDrain ==
  /\ queued /\ queued' = FALSE
  /\ \/ /\ current # NoJob
        /\ UNCHANGED <<status, attempts, current, reply>>
     \/ /\ current = NoJob /\ \A t \in Tasks : pc[t] # "waiting"
        /\ TakeNext(status)
  /\ UNCHANGED <<keys, scheduled, taskVars, listed, serverVars, historyVars>>

AttemptSucceeds ==
  /\ reply = "written"
  /\ TakeNext([status EXCEPT ![current] = "done"])
  /\ UNCHANGED <<keys, scheduled, queued, taskVars, listed, serverVars,
                 historyVars>>

\* The client sees an error or its timeout.  The request may never have arrived,
\* be refused, have been carried out with its reply lost, or still be running.
Abandon ==
  \/ UNCHANGED late
  \/ /\ reply = "sent" /\ \A j \in JobIds : late[j] < MaxLate
     /\ late' = [late EXCEPT ![current] = @ + 1]

\* Slip: nothing is scheduled for the retry.
AttemptFailsQuietly ==
  /\ current # NoJob
  /\ attempts[current] < MaxAttempts
  /\ Abandon
  /\ status' = [status EXCEPT ![current] = "pending"]
  /\ current' = NoJob /\ reply' = "none"
  /\ outran' = outran \cup (keys[current] \cap Undoing)
  /\ UNCHANGED <<keys, attempts, scheduled, queued, taskVars, listed, rows, lateClears,
                 written, cleared>>

AttemptFails ==
  /\ current # NoJob
  /\ attempts[current] < MaxAttempts
  /\ Abandon
  /\ status' = [status EXCEPT ![current] = "pending"]
  /\ scheduled' = TRUE
  /\ current' = NoJob /\ reply' = "none"
  /\ outran' = outran \cup (keys[current] \cap Undoing)
  /\ UNCHANGED <<keys, attempts, queued, taskVars, listed, rows, lateClears,
                 written, cleared>>

\* Out of attempts: the failure handler asks for a refresh.
AttemptGivesUp ==
  /\ current # NoJob
  /\ attempts[current] >= MaxAttempts
  /\ Abandon
  /\ TakeNext([status EXCEPT ![current] = "failed"])
  /\ UNCHANGED <<keys, scheduled, queued, taskVars, listed, rows, lateClears,
                 historyVars>>

-----------------------------------------------------------------------------
(* The server: apply-description-mapping *)

Stamp(j) ==
  /\ rows' = [k \in Keys |-> IF k \in keys[j] THEN j ELSE rows[k]]
  /\ written' = written \cup {j}

ServerStamps ==
  /\ reply = "sent"
  /\ reply' = "written"
  /\ Stamp(current)
  /\ UNCHANGED <<jobVars, scheduled, queued, current, taskVars, listed, late,
                 lateClears, cleared, outran>>

LateStamp(j) ==
  /\ late[j] > 0
  /\ late' = [late EXCEPT ![j] = @ - 1]
  /\ Stamp(j)
  /\ UNCHANGED <<jobVars, drainVars, taskVars, listed, lateClears, cleared, outran>>

LateClear(ks) ==
  /\ ks \in lateClears
  /\ lateClears' = lateClears \ {ks}
  /\ rows' = [k \in Keys |-> IF k \in ks THEN NoJob ELSE rows[k]]
  /\ UNCHANGED <<jobVars, drainVars, taskVars, listed, late, historyVars>>

-----------------------------------------------------------------------------
(* Undo *)

\* cancel_pending_jobs_for_keys leaves the job in flight alone.  One snapshot is
\* kept: with two dialogs open the first Undo takes the later commit back.
StartUndo(t) ==
  /\ pc[t] = "offered" /\ snapshot # {}
  /\ pc' = [pc EXCEPT ![t] = "waiting"]
  /\ picked' = [picked EXCEPT ![t] = snapshot]
  /\ snapshot' = {}
  /\ status' = [j \in JobIds |->
                  IF status[j] \in {"pending", "failed"} /\ Touches(j, snapshot)
                    THEN "cancelled" ELSE status[j]]
  /\ UNCHANGED <<keys, attempts, drainVars, listed, serverVars,
                 historyVars>>

\* Slip: Undo does not wait for the drain.
OutboxNotAwaited(t) ==
  /\ Goto(t, "waiting", "maps")
  /\ UNCHANGED <<snapshot, jobVars, drainVars, listed, serverVars, historyVars>>

\* Slip: Undo holds the lock until no job is left.
OutboxEmpty(t) ==
  /\ Goto(t, "waiting", "maps") /\ \A j \in JobIds : ~Live(j)
  /\ UNCHANGED <<snapshot, jobVars, drainVars, listed, serverVars, historyVars>>

\* wait_outbox_idle gets the lock and lets it go.
OutboxIdle(t) ==
  /\ Goto(t, "waiting", "maps") /\ current = NoJob
  /\ UNCHANGED <<snapshot, jobVars, drainVars, listed, serverVars, historyVars>>

\* The maps are deleted or put back; on an error ("Undo Failed") the rows keep
\* their stamps.
MapsUndone(t) ==
  /\ Goto(t, "maps", "clearing") \/ Return(t, "maps")
  /\ UNCHANGED <<snapshot, jobVars, drainVars, listed, serverVars, historyVars>>

ServerClears(t) ==
  /\ Finish(t, "clearing", "cleared")
  /\ rows' = [k \in Keys |-> IF k \in picked[t] THEN NoJob ELSE rows[k]]
  /\ cleared' = cleared \cup picked[t]
  /\ outran' = outran \cup
       {k \in picked[t] : \E j \in JobIds : Touches(j, {k}) /\ late[j] > 0}
  /\ UNCHANGED <<snapshot, jobVars, drainVars, listed, late, lateClears, written>>

\* _clear_saved_rows swallows an error: Undo ends as if the rows were cleared.
UndoEnds(t) ==
  /\ \/ Return(t, "cleared") /\ UNCHANGED lateClears
     \/ /\ Return(t, "clearing")
        /\ lateClears' \in {lateClears, lateClears \cup {picked[t]}}
  /\ UNCHANGED <<snapshot, jobVars, drainVars, listed, rows, late, historyVars>>

-----------------------------------------------------------------------------
(* The page *)

\* A refresh starts a drain of its own.
StartRefresh ==
  /\ ~queued /\ queued' = TRUE
  /\ UNCHANGED <<scheduled, current, reply, jobVars, taskVars, listed, serverVars,
                 historyVars>>

\* Slip: the job in flight is forgotten.
Pending == UNION {keys[j] : j \in {i \in JobIds : status[i] = "pending"}}

Applying == UNION {keys[j] : j \in {i \in JobIds : Live(i)}}

\* What the scan finds to be an issue is anyone's doing and may be out of date
\* by now; _hide_applying_issues comes last.
EndRefresh(issues) ==
  /\ listed' = issues \ Applying
  /\ UNCHANGED <<jobVars, drainVars, taskVars, serverVars, historyVars>>

-----------------------------------------------------------------------------
MapSteps(t) ==
  \/ \E ks \in SUBSET listed \ {{}} : BeginCommit(t, ks)
  \/ CommitSaved(t) \/ CommitFailed(t) \/ DeclineUndo(t)

UndoSteps(t) ==
  \/ StartUndo(t) \/ OutboxIdle(t) \/ MapsUndone(t) \/ ServerClears(t) \/ UndoEnds(t)

DrainSteps == Kick \/ StartDrain \/ AttemptSucceeds \/ AttemptFails \/ AttemptGivesUp

ServerSteps ==
  \/ ServerStamps
  \/ \E j \in JobIds : LateStamp(j)
  \/ \E ks \in lateClears : LateClear(ks)

PageSteps == StartRefresh \/ \E issues \in SUBSET Keys : EndRefresh(issues)

Next ==
  \/ \E t \in Tasks : MapSteps(t) \/ UndoSteps(t)
  \/ DrainSteps \/ ServerSteps \/ PageSteps

\* Timers fire, created tasks run, and every request of the client is answered
\* or times out (15 s).  Nothing is assumed of the user or of the server.
Fairness ==
  /\ WF_vars(Kick)
  /\ WF_vars(StartDrain)
  /\ WF_vars(AttemptSucceeds \/ AttemptFails \/ AttemptGivesUp)
  /\ \A t \in Tasks : WF_vars(OutboxIdle(t) \/ MapsUndone(t) \/ UndoEnds(t))

Spec == Init /\ [][Next]_vars /\ Fairness

-----------------------------------------------------------------------------
(* Properties *)

Statuses == {"new", "pending", "in_flight", "done", "failed", "cancelled"}

OutboxTypeOK ==
  /\ status \in [JobIds -> Statuses]
  /\ keys \in [JobIds -> SUBSET Keys]
  /\ attempts \in [JobIds -> 0..MaxAttempts]
  /\ scheduled \in BOOLEAN /\ queued \in BOOLEAN
  /\ current \in JobIds \cup {NoJob}
  /\ reply \in {"none", "sent", "written"}
  /\ pc \in [Tasks -> {"ready", "saving", "returned", "offered", "waiting", "maps", "clearing", "cleared"}]
  /\ picked \in [Tasks -> SUBSET Keys]
  /\ snapshot \subseteq Keys /\ listed \subseteq Keys
  /\ rows \in [Keys -> JobIds \cup {NoJob}]
  /\ late \in [JobIds -> 0..MaxLate]
  /\ lateClears \subseteq SUBSET Keys
  /\ written \subseteq JobIds /\ cleared \subseteq Keys /\ outran \subseteq Keys

\* A queued job is never forgotten: while one is pending, a kick is on its way,
\* a drain is about to start or one is running.  Kicks that find a drain
\* scheduled, and drains that find the lock held, are dropped on that ground.
PendingIsDrained ==
  \A j \in JobIds : status[j] = "pending" => scheduled \/ queued \/ current # NoJob

\* A description whose job is still pending or in flight is not on the page, so
\* nobody maps it again while its rows wait to be written.
HiddenWhileApplying == listed \cap Applying = {}

\* One job is in flight at a time, and it is the one the drain waits for.
OneInFlight == \A j \in JobIds : status[j] = "in_flight" <=> j = current /\ j # NoJob

\* The drain writes the jobs in the order they were queued, retries included:
\* its own request never puts an earlier mapping over a later one.
NewestStampWins ==
  [][ServerStamps => \A k \in keys[current] : rows[k] <= current]_vars

\* What an Undo has cleared stays clear until it is mapped again: neither a
\* queued job nor the one it waited for stamps it after all.  The exemptions are
\* those of outran, and each of them does happen.
UndoSticks == \A k \in cleared \ outran : rows[k] = NoJob

\* No Undo waits for ever for the drain, or for another Undo.
UndoFinishes == (\E t \in Tasks : pc[t] = "waiting") ~> (\A t \in Tasks : pc[t] # "waiting")

\* The outbox keeps what MappingJobs promises of every job.
Ledger ==
  INSTANCE MappingJobs WITH
    ledger <- [j \in JobIds |-> CASE status[j] = "new" -> "none"
                                  [] Live(j) -> "open"
                                  [] OTHER -> status[j]],
    sent <- {j \in JobIds : attempts[j] > 0},
    applied <- written

JobsArePromised == Ledger!Spec

=============================================================================
