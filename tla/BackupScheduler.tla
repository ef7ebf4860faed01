-------------------------- MODULE BackupScheduler --------------------------
(***************************************************************************)
(* Scheduled database backups.  A scheduler per host claims the dump slot  *)
(* and the maintenance slot that are due and, under a lock file of its     *)
(* host and a lease in the database, dumps the database to a local archive *)
(* or uploads the archives that wait and prunes old ones.  An admin may    *)
(* ask for a backup at once, or restore one, under the same lock and       *)
(* lease.  A restore replaces the whole database, the scheduler's own      *)
(* collections included, by what the archive holds.  Any of the processes  *)
(* may stop, or stand still for longer than its lease.  A call to the      *)
(* bucket, a dump or a restore runs in a thread or a process of its own    *)
(* and outlives the coroutine that waits for it: a stray.                  *)
(* Time is counted in steps of half an hour, the interval of maintenance   *)
(* slots; the heartbeat of a lease beats at least once in a step.          *)
(***************************************************************************)
EXTENDS Naturals, FiniteSets

CONSTANTS Schedulers, Admins,
          Strays,       \* bound: calls and children that run on by themselves
          HostOf(_),    \* the host a process runs on: its disk, its lock file
          Nobody,
          SlotTicks,    \* how long a dump slot stays due
          Stale,        \* backup_schedule_stale_minutes
          Lease,        \* backup_lease_minutes
          UploadStale,  \* backup_upload_stale_minutes
          Keep,         \* backup_keep_count
          MaxClock,     \* bound: the time
          MaxJobs,      \* bound: backups ever started
          MaxRequests,  \* bound: what the admins ask for
          MaxFaults     \* bound: crashes, errors and heartbeats that come late

Workers == Schedulers \cup Admins
Hands == Workers \cup Strays

ASSUME BackupAssumption ==
  /\ Schedulers \cap Admins = {} /\ Workers \cap Strays = {} /\ Nobody \notin Hands
  /\ SlotTicks \in Nat \ {0} /\ Stale \in Nat \ {0} /\ Lease \in Nat \ {0}
  /\ UploadStale \in Nat /\ Keep \in Nat \ {0}
  /\ {MaxClock, MaxJobs, MaxRequests, MaxFaults} \subseteq Nat

JobIds == 1..MaxJobs    \* in the order of created_at
NoJob == 0
Times == 0..MaxClock
Asked == MaxClock + 1   \* stands for the slot of a backup an admin asked for

SlotAt(t) == t \div SlotTicks

VARIABLES clock,
          jobs,      \* backup_jobs: status ("none" when absent), and since when,
                     \* for an upload under way; whether it is local_available
          slots,     \* backup_schedules, the dump slots
          tasks,     \* backup_schedules, the maintenance slots
          lease,     \* backup_leases: the owner, and when it runs out
          birth,     \* the slot and the host of each archive
          made,      \* how many archives were begun
          files,     \* the archives on disk
          objects,   \* the archives in the bucket
          archive,   \* what each archive holds of the collections above
          work,      \* where each process stands, and each stray
          faults, requests,
          stalled,   \* history: who missed a heartbeat under its lease
          sent,      \* history: some backup was uploaded and verified
          misplaced, \* history: archives an upload did not find on its disk
          restored   \* history: the database was restored

database == <<jobs, slots, tasks, lease>>
storage == <<birth, made, files, objects, archive>>
budget == <<faults, requests>>
history == <<stalled, sent, misplaced, restored>>
vars == <<clock, database, storage, work, budget, history>>

NoSlot == [status |-> "none", until |-> 0]
Absent == [status |-> "none", since |-> 0, here |-> FALSE]
Stands(pc, what, t, j) == [pc |-> pc, what |-> what, at |-> t, job |-> j, todo |-> {}]
Idle == Stands("idle", "none", 0, NoJob)

Successful == {"pending_upload", "uploading", "uploaded", "pruned"}
Unsent == {"pending_upload", "uploading", "upload_failed"}
JobStatus == {"none", "dumping", "failed"} \cup Successful \cup Unsent

Init ==
  /\ clock = 0
  /\ jobs = [j \in JobIds |-> Absent]
  /\ slots = [s \in Times |-> NoSlot] /\ tasks = [t \in Times |-> NoSlot]
  /\ lease = [owner |-> Nobody, until |-> 0]
  /\ birth = [j \in JobIds |-> [slot |-> Asked, host |-> Nobody]] /\ made = 0
  /\ files = {} /\ objects = {}
  /\ archive = [j \in JobIds |-> <<>>]
  /\ work = [p \in Hands |-> Idle]
  /\ faults = 0 /\ requests = 0
  /\ stalled = {} /\ sent = FALSE /\ misplaced = {} /\ restored = FALSE

Present(j) == jobs[j].status # "none"
Inside(p) == work[p].pc \notin {"idle", "next", "claimed", "failing"}
Fault == faults < MaxFaults /\ faults' = faults + 1 /\ UNCHANGED requests

At(p, pc) == work[p].pc = pc
Goto(p, pc) == work' = [work EXCEPT ![p].pc = pc]

\* j is the newest of a set of jobs; the n newest of them.
Newest(js, j) == \A k \in js : k <= j
TopOf(js, n) == {j \in js : Cardinality({k \in js : k > j}) < n}

\* An error inside: leave, then mark the slot failed.
Abandon(p) == work' = [work EXCEPT ![p].pc = "erring", ![p].todo = {}]

-----------------------------------------------------------------------------
(* Claiming a slot *)

Claimable(c, t) ==
  \/ c.status \in {"none", "failed"}
  \/ c.status = "running" /\ c.until <= t

Claimed(t) == [status |-> "running", until |-> t + Stale]

\* One poll: the dump slot first, then maintenance, both with the time at
\* which the poll began.  A poll that can claim neither changes nothing.
PollDump(p) ==
  /\ At(p, "idle") /\ Claimable(slots[SlotAt(clock)], clock)
  /\ slots' = [slots EXCEPT ![SlotAt(clock)] = Claimed(clock)]
  /\ work' = [work EXCEPT ![p] = Stands("claimed", "dump", clock, NoJob)]
  /\ UNCHANGED <<clock, jobs, tasks, lease, storage, budget, history>>

PollTask(p) ==
  /\ \/ At(p, "next")
     \/ At(p, "idle") /\ ~Claimable(slots[SlotAt(clock)], clock)
  /\ LET t == IF At(p, "next") THEN work[p].at ELSE clock
     IN  IF Claimable(tasks[t], t)
         THEN /\ tasks' = [tasks EXCEPT ![t] = Claimed(t)]
              /\ work' = [work EXCEPT ![p] = Stands("claimed", "maintain", t, NoJob)]
         ELSE /\ work' = [work EXCEPT ![p] = Idle]
              /\ UNCHANGED tasks
  /\ UNCHANGED <<clock, jobs, slots, lease, storage, budget, history>>

\* What follows the work on a slot in the same poll.
Onward(p) == IF work[p].what = "dump"
             THEN Stands("next", "none", work[p].at, NoJob)
             ELSE Idle

\* finish_slot: by the slot alone, whoever claimed it since.
Finished(c, status) ==
  IF c.status = "none" THEN c ELSE [status |-> status, until |-> 0]

FinishSlot(p, status) ==
  IF work[p].what = "dump"
  THEN LET s == SlotAt(work[p].at)
       IN  slots' = [slots EXCEPT ![s] = Finished(@, status)] /\ UNCHANGED tasks
  ELSE LET t == work[p].at
       IN  tasks' = [tasks EXCEPT ![t] = Finished(@, status)] /\ UNCHANGED slots

FinishFailed(p) ==
  /\ At(p, "failing")
  /\ FinishSlot(p, "failed")
  /\ work' = [work EXCEPT ![p] = Onward(p)]
  /\ UNCHANGED <<clock, jobs, lease, storage, budget, history>>

FinishDone(p) ==
  /\ At(p, "finishing")
  /\ FinishSlot(p, "completed")
  /\ Goto(p, "leaving")
  /\ UNCHANGED <<clock, jobs, lease, storage, budget, history>>

-----------------------------------------------------------------------------
(* The lock file and the lease *)

\* exclusive_lock: flock, so a process that ends gives it up.
Locked(p) == \E q \in Workers \ {p} : HostOf(q) = HostOf(p) /\ Inside(q)

\* Slip: whether the lease has run out is not asked.
NotLeased == FALSE

\* distributed_lease: whoever finds it run out takes it over.
Leased == lease.until > clock

\* The way on after an error: a scheduler marks the slot failed.
Failed(p) == IF p \in Admins THEN Idle ELSE [work[p] EXCEPT !.pc = "failing", !.todo = {}]

\* Where the work inside begins.
Start(what) ==
  CASE what = "dump" -> "looking"     [] what = "run" -> "inserting"
    [] what = "maintain" -> "listing" [] what = "restore" -> "checking"

Enter(p) ==
  /\ At(p, "claimed")
  /\ IF Locked(p) \/ Leased
     THEN /\ work' = [work EXCEPT ![p] = Failed(p)]
          /\ UNCHANGED <<lease, stalled>>
     ELSE /\ lease' = [owner |-> p, until |-> clock + Lease]
          /\ stalled' = stalled \ {p}
          /\ Goto(p, Start(work[p].what))
  /\ UNCHANGED <<clock, jobs, slots, tasks, storage, budget, sent, misplaced, restored>>

\* Slip: the lease is left to run out.
NotReleased(p) == lease

\* Release on the way out, only of a lease still owned.
Released(p) == IF lease.owner = p THEN [lease EXCEPT !.until = clock] ELSE lease

Leave(p) ==
  /\ work[p].pc \in {"leaving", "erring"}
  /\ lease' = Released(p)
  /\ work' = [work EXCEPT ![p] =
                IF At(p, "leaving") /\ p \in Schedulers THEN Onward(p) ELSE Failed(p)]
  /\ UNCHANGED <<clock, jobs, slots, tasks, storage, budget, history>>

\* Time passes.  The heartbeat of every process under the lease renews it,
\* unless the process stands still; renewal asks for the owner only.
Renewed(p, late) == Inside(p) /\ lease.owner = p /\ p \notin late

Tick(late) ==
  /\ clock < MaxClock
  /\ \A p \in late : Inside(p)
  /\ faults + Cardinality(late) <= MaxFaults
  /\ faults' = faults + Cardinality(late)
  /\ clock' = clock + 1
  /\ stalled' = stalled \cup late
  /\ lease' = IF \E p \in Workers : Renewed(p, late)
              THEN [lease EXCEPT !.until = clock + 1 + Lease]
              ELSE lease
  /\ UNCHANGED <<jobs, slots, tasks, storage, work, requests, sent, misplaced, restored>>

\* What runs on although the coroutine that waits for it ends: mongodump and
\* mongorestore, and in their threads the calls to the bucket.
RunsOn(w) ==
  \/ w.pc \in {"dumping", "sending", "restoring"}
  \/ w.pc = "pruning" /\ w.todo # {}

\* Of a list only the call that is under way.
Alone(w) == [w EXCEPT !.todo = {j \in w.todo : w.pc = "pruning" /\ Newest(w.todo, j)}]

\* p goes on with w; what it waited for ends with the coroutine, or runs on.
Drop(p, w) ==
  \/ work' = [work EXCEPT ![p] = w]
  \/ /\ RunsOn(work[p])
     /\ \E x \in Strays :
          At(x, "idle") /\ work' = [work EXCEPT ![p] = w, ![x] = Alone(work[p])]

\* A lease nobody renews or releases any more.
Forsaken(p) == IF lease.owner = p THEN [lease EXCEPT !.owner = Nobody] ELSE lease

\* The heartbeat fails, or finds the lease lost: the coroutine is cancelled.
\* The lease is released if it is still owned, and nothing is marked failed;
\* or the release fails as well, and its error takes the cancellation's place.
Cancel(p) ==
  /\ Inside(p)
  /\ IF lease.owner = p THEN Fault ELSE UNCHANGED budget
  /\ \/ lease' = Released(p) /\ Drop(p, Idle)
     \/ lease' = Forsaken(p) /\ Drop(p, Failed(p))
  /\ UNCHANGED <<clock, jobs, slots, tasks, storage, history>>

\* The process is killed; the next one has another owner's name.  Its child,
\* or a request that has reached the bucket, may be carried out all the same.
Crash(p) ==
  /\ ~At(p, "idle") /\ Fault
  /\ lease' = Forsaken(p)
  /\ Drop(p, Idle)
  /\ UNCHANGED <<clock, jobs, slots, tasks, storage, history>>

-----------------------------------------------------------------------------
(* A dump *)

\* Slip: a dump that failed does not count.
JobsOfLive(s) ==
  {j \in 1..made : Present(j) /\ jobs[j].status # "failed" /\ birth[j].slot = s}

JobsOf(s) == {j \in 1..made : Present(j) /\ birth[j].slot = s}

\* Slip: a dump that another process began counts as a backup.
SettledByDumping(s) ==
  \E j \in JobsOf(s) : jobs[j].status \in Successful \cup {"dumping"}

Settled(s) == \E j \in JobsOf(s) : jobs[j].status \in Successful

Look(p) ==
  /\ At(p, "looking")
  /\ LET s == SlotAt(work[p].at)
     IN  IF Settled(s) THEN Goto(p, "finishing")
         ELSE IF JobsOf(s) # {} THEN Abandon(p)
         ELSE Goto(p, "inserting")
  /\ UNCHANGED <<clock, database, storage, budget, history>>

Free(s) == s = Asked \/ JobsOf(s) = {}

InsertJob(p) ==
  /\ At(p, "inserting") /\ made < MaxJobs
  /\ LET s == IF work[p].what = "run" THEN Asked ELSE SlotAt(work[p].at)
         j == made + 1
     IN  IF Free(s)
         THEN /\ made' = j
              /\ birth' = [birth EXCEPT ![j] = [slot |-> s, host |-> HostOf(p)]]
              /\ jobs' = [jobs EXCEPT ![j] = [status |-> "dumping", since |-> 0, here |-> FALSE]]
              /\ work' = [work EXCEPT ![p].pc = "dumping", ![p].job = j]
         ELSE /\ Abandon(p)
              /\ UNCHANGED <<made, birth, jobs>>
  /\ UNCHANGED <<clock, slots, tasks, lease, files, objects, archive, budget, history>>

\* An update by _id or by filename, which finds nothing after a restore that
\* took the job away.
Put(j, status) ==
  IF Present(j)
  THEN [jobs EXCEPT ![j].status = status,
                    ![j].since = IF status = "uploading" THEN clock ELSE 0]
  ELSE jobs

\* The archive holds the collections as they are while its job says dumping.
Snapshot == [jobs |-> jobs, slots |-> slots, tasks |-> tasks,
             lease |-> [lease EXCEPT !.owner = Nobody]]

DumpDone(p) ==
  /\ At(p, "dumping")
  /\ files' = files \cup {work[p].job}
  /\ archive' = [archive EXCEPT ![work[p].job] = Snapshot]
  /\ jobs' = Put(work[p].job, "pending_upload")
  /\ Goto(p, IF work[p].what = "run" THEN "listing" ELSE "finishing")
  /\ UNCHANGED <<clock, slots, tasks, lease, birth, made, objects, budget, history>>

DumpFails(p) ==
  /\ At(p, "dumping") /\ Fault
  /\ jobs' = Put(work[p].job, "failed")
  /\ Abandon(p)
  /\ UNCHANGED <<clock, slots, tasks, lease, storage, history>>

\* No space, no mongodump, no replica set: before the job is inserted.
DumpRefused(p) ==
  /\ At(p, "inserting") /\ Fault
  /\ Abandon(p)
  /\ UNCHANGED <<clock, database, storage, history>>

-----------------------------------------------------------------------------
(* Upload *)

Waiting(j) ==
  \/ jobs[j].status \in {"pending_upload", "upload_failed"}
  \/ jobs[j].status = "uploading" /\ jobs[j].since + UploadStale < clock

ListUploads(p) ==
  /\ At(p, "listing")
  /\ work' = [work EXCEPT ![p].pc = "uploading", ![p].todo = {j \in 1..made : Waiting(j)}]
  /\ UNCHANGED <<clock, database, storage, budget, history>>

OnDisk(p, j) == j \in files /\ birth[j].host = HostOf(p)

\* The archive is missing on this host, or the upload begins.
TakeUpload(p) ==
  /\ At(p, "uploading")
  /\ \E j \in work[p].todo :
       /\ \A k \in work[p].todo : j <= k
       /\ IF OnDisk(p, j)
          THEN /\ jobs' = Put(j, "uploading")
               /\ work' = [work EXCEPT ![p].pc = "sending", ![p].job = j,
                                       ![p].todo = @ \ {j}]
               /\ UNCHANGED misplaced
          ELSE /\ jobs' = Put(j, "failed")
               /\ work' = [work EXCEPT ![p].todo = @ \ {j}]
               /\ misplaced' = misplaced \cup {j}
  /\ UNCHANGED <<clock, slots, tasks, lease, storage, budget, stalled, sent, restored>>

Send(p) ==
  /\ At(p, "sending")
  /\ objects' = objects \cup {work[p].job}
  /\ Goto(p, "sent")
  /\ UNCHANGED <<clock, database, birth, made, files, archive, budget, history>>

\* Slip: marked once the upload is under way, before it is verified.
MarkedEarly == {"sending", "sent"}

Verified == {"sent"}

MarkUploaded(p) ==
  /\ work[p].pc \in Verified
  /\ LET j == work[p].job
     IN  /\ jobs' = IF Present(j)
                    THEN [jobs EXCEPT ![j] = [status |-> "uploaded", since |-> 0,
                                              here |-> TRUE]]
                    ELSE jobs
         /\ sent' = (sent \/ Present(j))
  /\ Goto(p, "uploading")
  /\ UNCHANGED <<clock, slots, tasks, lease, storage, budget, stalled, misplaced, restored>>

SendFails(p) ==
  /\ work[p].pc \in {"sending", "sent"} /\ Fault
  /\ jobs' = Put(work[p].job, "upload_failed")
  /\ Goto(p, "uploading")
  /\ UNCHANGED <<clock, slots, tasks, lease, storage, history>>

-----------------------------------------------------------------------------
(* Pruning, on disk and in the bucket *)

\* Slip: every archive counts, sent or not.
KeptHereAll == {j \in 1..made : jobs[j].status \in Successful}

KeptHere == {j \in 1..made : jobs[j].status \in {"uploaded", "pruned"} /\ jobs[j].here}

ListLocal(p) ==
  /\ At(p, "uploading") /\ work[p].todo = {}
  /\ work' = [work EXCEPT ![p].pc = "unlinking", ![p].todo = KeptHere \ TopOf(KeptHere, Keep)]
  /\ UNCHANGED <<clock, database, storage, budget, history>>

Unlink(p) ==
  /\ At(p, "unlinking")
  /\ \E j \in work[p].todo :
       /\ Newest(work[p].todo, j)
       /\ files' = IF birth[j].host = HostOf(p) THEN files \ {j} ELSE files
       /\ jobs' = IF Present(j) THEN [jobs EXCEPT ![j].here = FALSE] ELSE jobs
       /\ work' = [work EXCEPT ![p].todo = @ \ {j}]
  /\ UNCHANGED <<clock, slots, tasks, lease, birth, made, objects, archive, budget, history>>

\* Slip: an upload under way counts as one that is done.
UploadedEarly == {j \in 1..made : jobs[j].status \in {"uploading", "uploaded"}}

Uploaded == {j \in 1..made : jobs[j].status = "uploaded"}

\* Slip: the newest of all jobs are kept, whatever became of them.
RetainedOfAll == TopOf({j \in 1..made : Present(j)}, Keep)

Retained == TopOf(Uploaded, Keep)

ListPrune(p) ==
  /\ At(p, "unlinking") /\ work[p].todo = {}
  /\ work' = [work EXCEPT ![p].pc = "pruning", ![p].todo = Uploaded \ Retained]
  /\ UNCHANGED <<clock, database, storage, budget, history>>

DeleteObject(p) ==
  /\ At(p, "pruning")
  /\ \E j \in work[p].todo :
       /\ Newest(work[p].todo, j)
       /\ objects' = objects \ {j}
       /\ work' = [work EXCEPT ![p].pc = "deleted", ![p].job = j, ![p].todo = @ \ {j}]
  /\ UNCHANGED <<clock, database, birth, made, files, archive, budget, history>>

DeleteFails(p) ==
  /\ At(p, "pruning") /\ work[p].todo # {} /\ Fault
  /\ Abandon(p)
  /\ UNCHANGED <<clock, database, storage, history>>

MarkPruned(p) ==
  /\ At(p, "deleted")
  /\ jobs' = Put(work[p].job, "pruned")
  /\ Goto(p, "pruning")
  /\ UNCHANGED <<clock, slots, tasks, lease, storage, budget, history>>

Pruned(p) ==
  /\ At(p, "pruning") /\ work[p].todo = {}
  /\ Goto(p, IF work[p].what = "maintain" THEN "finishing" ELSE "leaving")
  /\ UNCHANGED <<clock, database, storage, budget, history>>

-----------------------------------------------------------------------------
(* An admin's request *)

AskRun(p) ==
  /\ At(p, "idle") /\ requests < MaxRequests
  /\ requests' = requests + 1
  /\ work' = [work EXCEPT ![p] = Stands("claimed", "run", clock, NoJob)]
  /\ UNCHANGED <<clock, database, storage, faults, history>>

AskRestore(p, j) ==
  /\ At(p, "idle") /\ requests < MaxRequests /\ Present(j)
  /\ requests' = requests + 1
  /\ work' = [work EXCEPT ![p] = Stands("claimed", "restore", clock, j)]
  /\ UNCHANGED <<clock, database, storage, faults, history>>

\* Only an uploaded backup, and one whose archive can still be had.
CheckRestore(p) ==
  /\ At(p, "checking")
  /\ LET j == work[p].job
     IN  IF jobs[j].status = "uploaded" /\ (OnDisk(p, j) \/ j \in objects)
         THEN Goto(p, "restoring")
         ELSE Abandon(p)
  /\ UNCHANGED <<clock, database, storage, budget, history>>

\* mongorestore --drop replaces every collection, these too.
Replace(a) ==
  /\ jobs' = a.jobs /\ slots' = a.slots /\ tasks' = a.tasks /\ lease' = a.lease
  /\ restored' = TRUE

Restore(p) ==
  /\ At(p, "restoring")
  /\ Replace(archive[work[p].job])
  /\ Goto(p, "leaving")
  /\ UNCHANGED <<clock, storage, budget, stalled, sent, misplaced>>

-----------------------------------------------------------------------------
(* Strays: their effect is all that is left, nobody records it *)

StrayDumps(x) ==
  /\ At(x, "dumping")
  /\ files' = files \cup {work[x].job}
  /\ archive' = [archive EXCEPT ![work[x].job] = Snapshot]
  /\ work' = [work EXCEPT ![x] = Idle]
  /\ UNCHANGED <<clock, database, birth, made, objects, budget, history>>

StraySends(x) ==
  /\ At(x, "sending")
  /\ objects' = objects \cup {work[x].job}
  /\ work' = [work EXCEPT ![x] = Idle]
  /\ UNCHANGED <<clock, database, birth, made, files, archive, budget, history>>

StrayDeletes(x) ==
  /\ At(x, "pruning")
  /\ \E j \in work[x].todo : objects' = objects \ {j}
  /\ work' = [work EXCEPT ![x] = Idle]
  /\ UNCHANGED <<clock, database, birth, made, files, archive, budget, history>>

StrayRestores(x) ==
  /\ At(x, "restoring")
  /\ Replace(archive[work[x].job])
  /\ work' = [work EXCEPT ![x] = Idle]
  /\ UNCHANGED <<clock, storage, budget, stalled, sent, misplaced>>

\* The call fails, or the child is killed.
StrayStops(x) ==
  /\ ~At(x, "idle")
  /\ work' = [work EXCEPT ![x] = Idle]
  /\ UNCHANGED <<clock, database, storage, budget, history>>

-----------------------------------------------------------------------------

Scheduling(p) == PollDump(p) \/ PollTask(p) \/ FinishFailed(p) \/ FinishDone(p)

Dumping(p) ==
  \/ Look(p) \/ InsertJob(p) \/ DumpDone(p) \/ DumpFails(p) \/ DumpRefused(p)

Uploading(p) ==
  ListUploads(p) \/ TakeUpload(p) \/ Send(p) \/ MarkUploaded(p) \/ SendFails(p)

Pruning(p) ==
  \/ ListLocal(p) \/ Unlink(p)
  \/ ListPrune(p) \/ DeleteObject(p) \/ DeleteFails(p) \/ MarkPruned(p) \/ Pruned(p)

Straying(x) ==
  StrayDumps(x) \/ StraySends(x) \/ StrayDeletes(x) \/ StrayRestores(x) \/ StrayStops(x)

Asking(p) == AskRun(p) \/ (\E j \in 1..made : AskRestore(p, j))

Next ==
  \/ \E p \in Schedulers : Scheduling(p)
  \/ \E p \in Admins : Asking(p) \/ CheckRestore(p) \/ Restore(p)
  \/ \E p \in Workers :
       \/ Enter(p) \/ Leave(p) \/ Cancel(p) \/ Crash(p)
       \/ Dumping(p) \/ Uploading(p) \/ Pruning(p)
  \/ \E x \in Strays : Straying(x)
  \/ \E late \in SUBSET Workers : Tick(late)

Spec == Init /\ [][Next]_vars

-----------------------------------------------------------------------------

\* The shape of the state: a process outside the lease has nothing in hand.
BackupsTypeOK ==
  /\ clock \in Times /\ made \in 0..MaxJobs
  /\ \A j \in JobIds : jobs[j].status \in JobStatus /\ jobs[j].since <= clock
  /\ \A j \in JobIds : Present(j) => j <= made
  /\ files \subseteq 1..made /\ objects \subseteq 1..made
  /\ \A p \in Hands : work[p].todo \subseteq 1..made /\ work[p].job \in 0..made
  /\ \A p \in Hands : ~Inside(p) => work[p].todo = {}
  /\ lease.owner \in Workers => Inside(lease.owner) \/ lease.until <= clock

\* A dump, an upload, a prune and a restore go on at the same time only after
\* a process stood still past a heartbeat, or after a restore replaced the
\* lease they share, or when one of them is a stray, which runs on outside the
\* lease and the lock file that its coroutine gave back (exclusive_lock,
\* distributed_lease).
ExclusiveBackups ==
  \A p, q \in Hands :
    p # q /\ Inside(p) /\ Inside(q) => {p, q} \cap (stalled \cup Strays) # {} \/ restored

\* However late, a delete in the bucket never hits the archive a process is
\* sending or has yet to mark as uploaded: not that of a process that stood
\* still, and not a stray one (prune lists uploaded jobs, upload_pending others).
SentNotRemoved ==
  \A p \in Workers, q \in Hands :
    work[p].pc \in {"sending", "sent"} /\ At(q, "pruning") /\ ~restored
      => work[p].job \notin work[q].todo

\* backup_jobs never holds two dumps of one slot, however its claims went:
\* the schedule_id index, and an existing job being looked for first.
OneDumpPerSlot ==
  \A j, k \in 1..made :
    Present(j) /\ Present(k) /\ birth[j].slot = birth[k].slot /\ birth[j].slot # Asked => j = k

\* A dump slot marked completed has the backup it promises, whichever process
\* marked it, unless an upload set the archive down as missing: that of
\* another host, or one whose list was made before it stood still.
CompletedSlotHasBackup ==
  \A s \in Times :
    slots[s].status = "completed" /\ ~restored =>
      \E j \in JobsOf(s) : jobs[j].status \in Successful \cup Unsent \/ j \in misplaced

\* An archive that is not in the bucket yet stays on its disk, whatever
\* uploads and prunes overlap.
UnsentStaysOnDisk ==
  \A j \in 1..made : jobs[j].status \in Unsent /\ ~restored => j \in files

\* Once a backup was uploaded there always is one that can be restored; only
\* an upload that did not find its archive may have set it down as failed.
RestorableKept ==
  sent /\ ~restored => \E j \in objects : jobs[j].status = "uploaded" \/ j \in misplaced

\* The bucket loses an object only when it holds Keep newer backups.
PruneKeepsNewer ==
  [][\A j \in objects \ objects' :
       ~restored => Cardinality({k \in (Uploaded \cup misplaced) \cap objects' : k > j})
                      >= Keep]_vars
=============================================================================
