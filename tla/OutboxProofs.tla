---------------------------- MODULE OutboxProofs ----------------------------
(***************************************************************************)
(* The safety of the mapping-apply outbox for any keys, any number of      *)
(* mapping coroutines, jobs, attempts and abandoned requests, and the      *)
(* step simulation of MappingJobs.  Liveness stays with TLC.               *)
(***************************************************************************)
EXTENDS MappingOutbox, TLAPS

(***************************************************************************)
(* The inductive invariant, in layers: each is proved from those before.   *)
(***************************************************************************)

\* What the status of a job says of its attempts.
AttemptsTell ==
  \A j \in JobIds :
    /\ status[j] = "new" => attempts[j] = 0 /\ keys[j] = {}
    /\ status[j] = "pending" => attempts[j] < MaxAttempts
    /\ status[j] \in {"in_flight", "done", "failed"} => attempts[j] > 0
    /\ status[j] = "failed" => attempts[j] >= MaxAttempts

\* The lock holder's request, and the requests it gave up on.
RequestsTell ==
  /\ current = NoJob <=> reply = "none"
  /\ reply = "written" => current \in written
  /\ \A j \in JobIds : late[j] > 0 => attempts[j] > 0
  /\ \A j \in JobIds : status[j] = "done" => j \in written
  /\ \A j \in written : attempts[j] > 0
  /\ \A k \in Keys : rows[k] # NoJob => rows[k] \in written

\* Jobs are queued in order, and none is started before the earlier ones ended.
InOrder ==
  \A i, j \in JobIds : i < j =>
    /\ status[i] = "new" => status[j] = "new"
    /\ attempts[j] > 0 => status[i] \in {"done", "failed", "cancelled"}

\* While an Undo is under way no job for its keys is queued, and once it has
\* waited none is in flight, unless outran has the key.
UndoHolds ==
  \A t \in Tasks : \A k \in picked[t] \ outran : \A j \in JobIds :
    k \in keys[j] => /\ pc[t] \in {"waiting", "maps", "clearing"} => status[j] # "pending"
                     /\ pc[t] \in {"maps", "clearing"} => status[j] # "in_flight"

\* For a key that was cleared nothing is left to stamp it.
NothingLeft ==
  \A k \in cleared \ outran : \A j \in JobIds :
    k \in keys[j] => ~Live(j) /\ late[j] = 0

OutboxInv ==
  /\ OutboxTypeOK /\ OneInFlight
  /\ AttemptsTell
  /\ RequestsTell
  /\ InOrder
  /\ PendingIsDrained
  /\ HiddenWhileApplying
  /\ UndoHolds
  /\ NothingLeft /\ UndoSticks

\* What TakeNext does, job by job.
LEMMA Taken ==
  ASSUME OutboxTypeOK, NEW st \in [JobIds -> Statuses], TakeNext(st)
  PROVE  /\ status' \in [JobIds -> Statuses]
         /\ attempts' \in [JobIds -> 0..MaxAttempts]
         /\ current' \in JobIds \cup {NoJob}
         /\ current' = NoJob <=> reply' = "none"
         /\ reply' \in {"none", "sent"}
         /\ \A i \in JobIds : i # current' => status'[i] = st[i] /\ attempts'[i] = attempts[i]
         /\ current' \in JobIds =>
              /\ st[current'] \in {"pending", "failed"} /\ status'[current'] = "in_flight"
              /\ attempts[current'] < MaxAttempts
              /\ attempts'[current'] = attempts[current'] + 1
              /\ \A i \in JobIds : i < current' =>
                    ~(st[i] \in {"pending", "failed"} /\ attempts[i] < MaxAttempts)
         /\ current' = NoJob =>
              \A i \in JobIds : ~(st[i] \in {"pending", "failed"} /\ attempts[i] < MaxAttempts)
<1>1. CASE /\ \A i \in JobIds : ~(st[i] \in {"pending", "failed"} /\ attempts[i] < MaxAttempts)
           /\ status' = st /\ current' = NoJob /\ reply' = "none" /\ attempts' = attempts
  BY <1>1 DEF OutboxTypeOK, JobIds, NoJob
<1>2. ASSUME NEW j \in JobIds, st[j] \in {"pending", "failed"}, attempts[j] < MaxAttempts,
             \A i \in JobIds : st[i] \in {"pending", "failed"} /\ attempts[i] < MaxAttempts => j <= i,
             status' = [st EXCEPT ![j] = "in_flight"],
             attempts' = [attempts EXCEPT ![j] = @ + 1],
             current' = j, reply' = "sent"
      PROVE  /\ status' \in [JobIds -> Statuses]
             /\ attempts' \in [JobIds -> 0..MaxAttempts]
             /\ \A i \in JobIds : i # j => status'[i] = st[i] /\ attempts'[i] = attempts[i]
             /\ status'[j] = "in_flight" /\ attempts'[j] = attempts[j] + 1 /\ j # NoJob
             /\ \A i \in JobIds : i < j =>
                    ~(st[i] \in {"pending", "failed"} /\ attempts[i] < MaxAttempts)
  <2>1. status' \in [JobIds -> Statuses]
    BY <1>2 DEF Statuses
  <2>2. attempts[j] \in 0..MaxAttempts /\ attempts[j] + 1 \in 0..MaxAttempts
    BY <1>2, OutboxAssumption DEF OutboxTypeOK
  <2>3. attempts' \in [JobIds -> 0..MaxAttempts]
    BY <1>2, <2>2 DEF OutboxTypeOK
  <2>4. \A i \in JobIds : i < j => ~(st[i] \in {"pending", "failed"} /\ attempts[i] < MaxAttempts)
    BY <1>2, OutboxAssumption DEF JobIds
  <2> QED
    BY <1>2, <2>1, <2>3, <2>4, OutboxAssumption DEF OutboxTypeOK, JobIds, NoJob
<1> DEFINE ready == {j \in JobIds : st[j] \in {"pending", "failed"} /\ attempts[j] < MaxAttempts}
<1>3. \/ ready = {} /\ status' = st /\ current' = NoJob /\ reply' = "none" /\ attempts' = attempts
      \/ \E j \in ready : /\ \A i \in ready : j <= i
                           /\ status' = [st EXCEPT ![j] = "in_flight"]
                           /\ attempts' = [attempts EXCEPT ![j] = @ + 1]
                           /\ current' = j /\ reply' = "sent"
  BY DEF TakeNext
<1>4. CASE ready = {} /\ status' = st /\ current' = NoJob /\ reply' = "none" /\ attempts' = attempts
  BY <1>1, <1>4
<1>5. ASSUME NEW j \in ready, \A i \in ready : j <= i,
             status' = [st EXCEPT ![j] = "in_flight"], attempts' = [attempts EXCEPT ![j] = @ + 1],
             current' = j, reply' = "sent"
      PROVE  current' \in JobIds /\ current' # NoJob
  BY <1>5, <1>2
<1> QED
  BY <1>2, <1>3, <1>4, <1>5 DEF NoJob

\* A request the client gives up on is counted within the bound.
LEMMA LateCounts ==
  ASSUME OutboxTypeOK, current # NoJob, Abandon
  PROVE  /\ current \in JobIds /\ late' \in [JobIds -> 0..MaxLate]
         /\ \A j \in JobIds : late'[j] > 0 => late[j] > 0 \/ j = current
<1>1. current \in JobIds
  BY DEF OutboxTypeOK
<1>2. CASE UNCHANGED late
  BY <1>1, <1>2 DEF OutboxTypeOK
<1>3. CASE late[current] < MaxLate /\ late' = [late EXCEPT ![current] = @ + 1]
  <2>1. late[current] + 1 \in 0..MaxLate
    BY <1>1, <1>3, OutboxAssumption DEF OutboxTypeOK
  <2> QED
    BY <1>1, <1>3, <2>1 DEF OutboxTypeOK
<1> QED
  BY <1>1, <1>2, <1>3 DEF Abandon

\* Types.
LEMMA TypeStep ==
  ASSUME OutboxTypeOK, RequestsTell, [Next]_vars
  PROVE  OutboxTypeOK'
<1>1. ASSUME NEW t \in Tasks, NEW ks \in SUBSET listed, BeginCommit(t, ks) PROVE OutboxTypeOK'
  BY OutboxAssumption, <1>1 DEF OutboxTypeOK, Statuses, JobIds, NoJob, vars, jobVars,
     drainVars, taskVars, serverVars, historyVars, BeginCommit
<1>2. ASSUME NEW t \in Tasks, CommitSaved(t) PROVE OutboxTypeOK'
  BY OutboxAssumption, <1>2 DEF OutboxTypeOK, Statuses, JobIds, NoJob, vars, jobVars,
     drainVars, taskVars, serverVars, historyVars, CommitSaved, Enqueue, Finish
<1>3. ASSUME NEW t \in Tasks, CommitFailed(t) PROVE OutboxTypeOK'
  BY OutboxAssumption, <1>3 DEF OutboxTypeOK, Statuses, JobIds, NoJob, vars, jobVars,
     drainVars, taskVars, serverVars, historyVars, CommitFailed, Return, Finish
<1>4. ASSUME NEW t \in Tasks, DeclineUndo(t) PROVE OutboxTypeOK'
  BY OutboxAssumption, <1>4 DEF OutboxTypeOK, Statuses, JobIds, NoJob, vars, jobVars,
     drainVars, taskVars, serverVars, historyVars, DeclineUndo, Return, Finish
<1>5. ASSUME NEW t \in Tasks, StartUndo(t) PROVE OutboxTypeOK'
  BY OutboxAssumption, <1>5 DEF OutboxTypeOK, Statuses, JobIds, NoJob, vars, jobVars,
     drainVars, taskVars, serverVars, historyVars, StartUndo
<1>6. ASSUME NEW t \in Tasks, OutboxIdle(t) PROVE OutboxTypeOK'
  BY OutboxAssumption, <1>6 DEF OutboxTypeOK, Statuses, JobIds, NoJob, vars, jobVars,
     drainVars, taskVars, serverVars, historyVars, OutboxIdle, Goto
<1>7. ASSUME NEW t \in Tasks, MapsUndone(t) PROVE OutboxTypeOK'
  BY OutboxAssumption, <1>7 DEF OutboxTypeOK, Statuses, JobIds, NoJob, vars, jobVars,
     drainVars, taskVars, serverVars, historyVars, MapsUndone, Goto, Return, Finish
<1>8. ASSUME NEW t \in Tasks, ServerClears(t) PROVE OutboxTypeOK'
  BY OutboxAssumption, <1>8 DEF OutboxTypeOK, Statuses, JobIds, NoJob, vars, jobVars,
     drainVars, taskVars, serverVars, historyVars, ServerClears, Finish
<1>9. ASSUME NEW t \in Tasks, UndoEnds(t) PROVE OutboxTypeOK'
  BY OutboxAssumption, <1>9 DEF OutboxTypeOK, Statuses, JobIds, NoJob, vars, jobVars,
     drainVars, taskVars, serverVars, historyVars, UndoEnds, Return, Finish
<1>10. ASSUME Kick PROVE OutboxTypeOK'
  BY OutboxAssumption, <1>10 DEF OutboxTypeOK, Statuses, JobIds, NoJob, vars, jobVars,
     drainVars, taskVars, serverVars, historyVars, Kick
<1>11. ASSUME StartDrain PROVE OutboxTypeOK'
  <2>1. CASE TakeNext(status)
    BY <2>1, <1>11, Taken DEF OutboxTypeOK, vars, jobVars, drainVars, taskVars, serverVars, historyVars, StartDrain
  <2>2. CASE UNCHANGED <<status, attempts, current, reply>>
    BY <2>2, <1>11 DEF OutboxTypeOK, vars, jobVars, drainVars, taskVars, serverVars, historyVars, StartDrain
  <2> QED
    BY <2>1, <2>2, <1>11 DEF StartDrain
<1>12. ASSUME AttemptSucceeds PROVE OutboxTypeOK'
  <2>1. [status EXCEPT ![current] = "done"] \in [JobIds -> Statuses]
    BY DEF OutboxTypeOK, Statuses
  <2> QED
    BY <2>1, <1>12, Taken DEF OutboxTypeOK, vars, jobVars, drainVars, taskVars, serverVars, historyVars, AttemptSucceeds
<1>13. ASSUME AttemptFails PROVE OutboxTypeOK'
  <2>1. current \in JobIds /\ late' \in [JobIds -> 0..MaxLate]
    BY <1>13, LateCounts DEF AttemptFails, OutboxTypeOK
  <2>2. status' \in [JobIds -> Statuses]
    BY <1>13 DEF AttemptFails, OutboxTypeOK, Statuses
  <2>3. outran' \subseteq Keys
    BY <1>13, <2>1 DEF AttemptFails, OutboxTypeOK
  <2> QED
    BY <1>13, <2>1, <2>2, <2>3 DEF OutboxTypeOK, vars, jobVars, drainVars, taskVars, serverVars, historyVars, AttemptFails
<1>14. ASSUME AttemptGivesUp PROVE OutboxTypeOK'
  <2>1. [status EXCEPT ![current] = "failed"] \in [JobIds -> Statuses]
    BY DEF OutboxTypeOK, Statuses
  <2>2. late' \in [JobIds -> 0..MaxLate]
    BY <1>14, LateCounts DEF AttemptGivesUp
  <2> QED
    BY <2>1, <2>2, <1>14, Taken DEF OutboxTypeOK, vars, jobVars, drainVars, taskVars, serverVars, historyVars, AttemptGivesUp
<1>15. ASSUME ServerStamps PROVE OutboxTypeOK'
  <2>1. current \in JobIds
    BY <1>15 DEF ServerStamps, OutboxTypeOK, RequestsTell
  <2> QED
    BY <2>1, <1>15 DEF OutboxTypeOK, vars, jobVars, drainVars, taskVars, serverVars, historyVars, ServerStamps, Stamp
<1>16. ASSUME NEW j \in JobIds, LateStamp(j) PROVE OutboxTypeOK'
  <2>1. late' \in [JobIds -> 0..MaxLate]
    BY <1>16, OutboxAssumption DEF LateStamp, OutboxTypeOK
  <2> QED
    BY <2>1, <1>16 DEF OutboxTypeOK, vars, jobVars, drainVars, taskVars, serverVars, historyVars, LateStamp, Stamp
<1>17. ASSUME NEW ks \in lateClears, LateClear(ks) PROVE OutboxTypeOK'
  BY OutboxAssumption, <1>17 DEF OutboxTypeOK, Statuses, JobIds, NoJob, vars, jobVars,
     drainVars, taskVars, serverVars, historyVars, LateClear
<1>18. ASSUME StartRefresh PROVE OutboxTypeOK'
  BY OutboxAssumption, <1>18 DEF OutboxTypeOK, Statuses, JobIds, NoJob, vars, jobVars,
     drainVars, taskVars, serverVars, historyVars, StartRefresh
<1>19. ASSUME NEW issues \in SUBSET Keys, EndRefresh(issues) PROVE OutboxTypeOK'
  BY OutboxAssumption, <1>19 DEF OutboxTypeOK, Statuses, JobIds, NoJob, vars, jobVars,
     drainVars, taskVars, serverVars, historyVars, EndRefresh
<1>20. CASE UNCHANGED vars
  BY <1>20 DEF OutboxTypeOK, Statuses, JobIds, NoJob, vars, jobVars, drainVars, taskVars,
     serverVars, historyVars
<1> QED
  BY <1>1, <1>2, <1>3, <1>4, <1>5, <1>6, <1>7, <1>8, <1>9, <1>10, <1>11, <1>12, <1>13,
     <1>14, <1>15, <1>16, <1>17, <1>18, <1>19, <1>20
     DEF Next, MapSteps, UndoSteps, DrainSteps, ServerSteps, PageSteps

(***************************************************************************)
(* The steps that change what the outbox says of its jobs.                 *)
(***************************************************************************)

\* The lock holder's job has ended, if it has one, and it goes for the next.
Drains ==
  \E st \in [JobIds -> Statuses] :
    /\ \A i \in JobIds : i # current => st[i] = status[i]
    /\ current # NoJob => \/ st[current] = "done" /\ reply = "written"
                          \/ st[current] = "failed" /\ attempts[current] >= MaxAttempts
    /\ TakeNext(st)

\* A job is queued, or nothing is because an identical one is alive.
Queues(ks) ==
  \/ UNCHANGED <<status, keys, scheduled>>
  \/ \E j \in JobIds :
       /\ status[j] = "new" /\ \A i \in JobIds : i < j => status[i] # "new"
       /\ status' = [status EXCEPT ![j] = "pending"]
       /\ keys' = [keys EXCEPT ![j] = ks]
       /\ scheduled' = TRUE

LEMMA DrainActions ==
  ASSUME OutboxTypeOK, (StartDrain /\ current = NoJob) \/ AttemptSucceeds \/ AttemptGivesUp
  PROVE  Drains /\ UNCHANGED keys
<1>1. CASE StartDrain /\ current = NoJob
  BY <1>1 DEF Drains, StartDrain, OutboxTypeOK
<1>2. CASE AttemptSucceeds
  <2> DEFINE st == [status EXCEPT ![current] = "done"]
  <2>1. st \in [JobIds -> Statuses] /\ \A i \in JobIds : i # current => st[i] = status[i]
    BY DEF OutboxTypeOK, Statuses
  <2>2. current # NoJob => st[current] = "done"
    BY DEF OutboxTypeOK
  <2>3. TakeNext(st) /\ reply = "written" /\ UNCHANGED keys
    BY <1>2 DEF AttemptSucceeds
  <2> QED
    BY <2>1, <2>2, <2>3 DEF Drains
<1>3. CASE AttemptGivesUp
  <2> DEFINE st == [status EXCEPT ![current] = "failed"]
  <2>1. st \in [JobIds -> Statuses] /\ \A i \in JobIds : i # current => st[i] = status[i]
    BY DEF OutboxTypeOK, Statuses
  <2>2. current # NoJob => st[current] = "failed"
    BY DEF OutboxTypeOK
  <2>3. TakeNext(st) /\ attempts[current] >= MaxAttempts /\ UNCHANGED keys
    BY <1>3 DEF AttemptGivesUp
  <2> QED
    BY <2>1, <2>2, <2>3 DEF Drains
<1> QED
  BY <1>1, <1>2, <1>3

LEMMA JobSteps ==
  ASSUME OutboxTypeOK, [Next]_vars
  PROVE  \/ UNCHANGED <<status, keys, attempts, current>>
         \/ \E t \in Tasks : CommitSaved(t) /\ Queues(picked[t]) /\ UNCHANGED <<attempts, current>>
         \/ \E t \in Tasks : StartUndo(t) /\ UNCHANGED <<keys, attempts, current>>
         \/ Drains /\ UNCHANGED keys
         \/ AttemptFails /\ current \in JobIds /\ UNCHANGED <<keys, attempts>>
<1>1. ASSUME NEW t \in Tasks, MapSteps(t)
      PROVE  \/ CommitSaved(t) /\ Queues(picked[t]) /\ UNCHANGED <<attempts, current>>
             \/ UNCHANGED <<status, keys, attempts, current>>
  BY <1>1 DEF MapSteps, BeginCommit, CommitSaved, Enqueue, Queues, CommitFailed, DeclineUndo,
              jobVars, drainVars
<1>2. ASSUME NEW t \in Tasks, UndoSteps(t)
      PROVE  \/ StartUndo(t) /\ UNCHANGED <<keys, attempts, current>>
             \/ UNCHANGED <<status, keys, attempts, current>>
  BY <1>2 DEF UndoSteps, StartUndo, OutboxIdle, MapsUndone, ServerClears, UndoEnds,
              jobVars, drainVars
<1>3. CASE Kick
  BY <1>3 DEF Kick, jobVars
<1>4. CASE StartDrain
  <2>1. CASE current # NoJob /\ UNCHANGED <<status, attempts, current, reply>>
    BY <1>4, <2>1 DEF StartDrain
  <2> QED
    BY <1>4, <2>1, DrainActions DEF StartDrain
<1>5. CASE AttemptSucceeds \/ AttemptGivesUp
  BY <1>5, DrainActions
<1>6. CASE AttemptFails
  BY <1>6 DEF AttemptFails, OutboxTypeOK
<1>7. CASE ServerSteps
  BY <1>7 DEF ServerSteps, ServerStamps, LateStamp, LateClear, jobVars, drainVars
<1>8. CASE PageSteps
  BY <1>8 DEF PageSteps, StartRefresh, EndRefresh, jobVars, drainVars
<1>9. CASE UNCHANGED vars
  BY <1>9 DEF vars, jobVars, drainVars
<1> QED
  BY <1>1, <1>2, <1>3, <1>4, <1>5, <1>6, <1>7, <1>8, <1>9 DEF Next, DrainSteps

\* The same, job by job: the current job ends, the first pending one starts.
LEMMA DrainsTell ==
  ASSUME OutboxTypeOK, OneInFlight, AttemptsTell, RequestsTell, Drains
  PROVE  /\ \A i \in JobIds :
              \/ /\ i = current' /\ i # current /\ status[i] = "pending"
                 /\ status'[i] = "in_flight" /\ attempts'[i] = attempts[i] + 1
              \/ /\ i = current /\ i # current' /\ status[i] = "in_flight"
                 /\ attempts'[i] = attempts[i]
                 /\ \/ status'[i] = "done" /\ reply = "written"
                    \/ status'[i] = "failed" /\ attempts[i] >= MaxAttempts
              \/ /\ i # current /\ i # current' /\ status'[i] = status[i]
                 /\ attempts'[i] = attempts[i]
         /\ current' \in JobIds \cup {NoJob}
         /\ \A i \in JobIds : status'[i] = "pending" => current' # NoJob /\ current' < i
         /\ current' = NoJob <=> reply' = "none"
         /\ reply' \in {"none", "sent"}
<1>1. PICK st \in [JobIds -> Statuses] :
             /\ \A i \in JobIds : i # current => st[i] = status[i]
             /\ current # NoJob => \/ st[current] = "done" /\ reply = "written"
                                   \/ st[current] = "failed" /\ attempts[current] >= MaxAttempts
             /\ TakeNext(st)
  BY DEF Drains
<1> DEFINE runnable(i) == st[i] \in {"pending", "failed"} /\ attempts[i] < MaxAttempts
<1>2. /\ current' \in JobIds \cup {NoJob}
      /\ current' = NoJob <=> reply' = "none"
      /\ reply' \in {"none", "sent"}
      /\ \A i \in JobIds : i # current' => status'[i] = st[i] /\ attempts'[i] = attempts[i]
      /\ current' \in JobIds => /\ runnable(current')
                                /\ status'[current'] = "in_flight"
                                /\ attempts'[current'] = attempts[current'] + 1
                                /\ \A i \in JobIds : i < current' => ~runnable(i)
      /\ current' = NoJob => \A i \in JobIds : ~runnable(i)
  BY <1>1, Taken
<1>3. \A i \in JobIds : attempts[i] \in Nat /\ i \in Nat
  BY OutboxAssumption DEF OutboxTypeOK, JobIds
<1>4. \A i \in JobIds : runnable(i) => i # current /\ status[i] = "pending"
  BY <1>1, <1>3, OutboxAssumption DEF AttemptsTell, JobIds, NoJob
<1>5. current \in JobIds => status[current] = "in_flight"
  BY OutboxAssumption DEF OneInFlight, JobIds, NoJob
<1>6. \A i \in JobIds : i = current =>
        /\ i # current' /\ attempts'[i] = attempts[i]
        /\ \/ status'[i] = "done" /\ reply = "written"
           \/ status'[i] = "failed" /\ attempts[i] >= MaxAttempts
  BY <1>1, <1>2, <1>3, <1>4, OutboxAssumption DEF JobIds, NoJob
<1>7. \A i \in JobIds : i # current /\ i # current' =>
        status'[i] = status[i] /\ attempts'[i] = attempts[i]
  BY <1>1, <1>2
<1>8. \A i \in JobIds : i = current' =>
        /\ i # current /\ status[i] = "pending"
        /\ status'[i] = "in_flight" /\ attempts'[i] = attempts[i] + 1
  BY <1>2, <1>4
<1>9. ASSUME NEW i \in JobIds, status'[i] = "pending" PROVE current' # NoJob /\ current' < i
  <2>1. i # current' /\ i # current /\ status[i] = "pending" /\ st[i] = "pending"
    BY <1>1, <1>6, <1>7, <1>8, <1>9
  <2>2. runnable(i)
    BY <2>1 DEF AttemptsTell
  <2> QED
    BY <1>2, <1>3, <2>1, <2>2
<1> QED
  BY <1>2, <1>5, <1>6, <1>7, <1>8, <1>9

\* One job in flight at a time, the one the lock holder waits for.
LEMMA OneInFlightStep ==
  ASSUME OutboxTypeOK, OutboxTypeOK', OneInFlight, AttemptsTell, RequestsTell, [Next]_vars
  PROVE  OneInFlight'
<1>1. CASE UNCHANGED <<status, keys, attempts, current>>
  BY <1>1 DEF OneInFlight
<1>2. ASSUME NEW t \in Tasks, CommitSaved(t), Queues(picked[t]), UNCHANGED <<attempts, current>>
      PROVE  OneInFlight'
  BY <1>2 DEF OneInFlight, Queues, OutboxTypeOK
<1>3. ASSUME NEW t \in Tasks, StartUndo(t), UNCHANGED <<keys, attempts, current>>
      PROVE  OneInFlight'
  BY <1>3 DEF OneInFlight, StartUndo, OutboxTypeOK
<1>4. CASE Drains /\ UNCHANGED keys
  BY <1>4, DrainsTell DEF OneInFlight, OutboxTypeOK, JobIds, NoJob
<1>5. CASE AttemptFails /\ current \in JobIds /\ UNCHANGED <<keys, attempts>>
  BY <1>5 DEF OneInFlight, AttemptFails, OutboxTypeOK
<1> QED
  BY <1>1, <1>2, <1>3, <1>4, <1>5, JobSteps

\* Statuses and attempts.
LEMMA AttemptsTellStep ==
  ASSUME OutboxTypeOK, OutboxTypeOK', OneInFlight, RequestsTell, AttemptsTell, [Next]_vars
  PROVE  AttemptsTell'
<1>1. CASE UNCHANGED <<status, keys, attempts, current>>
  BY <1>1 DEF AttemptsTell
<1>2. ASSUME NEW t \in Tasks, CommitSaved(t), Queues(picked[t]), UNCHANGED <<attempts, current>>
      PROVE  AttemptsTell'
  <2>1. CASE UNCHANGED <<status, keys, attempts>>
    BY <2>1 DEF AttemptsTell
  <2>2. ASSUME NEW j \in JobIds, status[j] = "new", status' = [status EXCEPT ![j] = "pending"],
               keys' = [keys EXCEPT ![j] = picked[t]]
        PROVE  AttemptsTell'
    BY <1>2, <2>2, OutboxAssumption DEF AttemptsTell, OutboxTypeOK
  <2> QED
    BY <1>2, <2>1, <2>2 DEF Queues
<1>3. ASSUME NEW t \in Tasks, StartUndo(t), UNCHANGED <<keys, attempts, current>>
      PROVE  AttemptsTell'
  BY <1>3 DEF AttemptsTell, StartUndo, OutboxTypeOK
<1>4. CASE Drains /\ UNCHANGED keys
  <2>1. \A i \in JobIds : attempts[i] \in Nat
    BY OutboxAssumption DEF OutboxTypeOK
  <2> QED
    BY <1>4, <2>1, DrainsTell DEF AttemptsTell
<1>5. CASE AttemptFails /\ current \in JobIds /\ UNCHANGED <<keys, attempts>>
  BY <1>5 DEF AttemptsTell, AttemptFails, OneInFlight, OutboxTypeOK
<1> QED
  BY <1>1, <1>2, <1>3, <1>4, <1>5, JobSteps

\* Jobs are queued and started in order.
LEMMA InOrderStep ==
  ASSUME OutboxTypeOK, OutboxTypeOK', OneInFlight, AttemptsTell, RequestsTell, InOrder,
     [Next]_vars
  PROVE  InOrder'
<1>1. CASE UNCHANGED <<status, keys, attempts, current>>
  BY <1>1 DEF InOrder
<1>2. ASSUME NEW t \in Tasks, CommitSaved(t), Queues(picked[t]), UNCHANGED <<attempts, current>>
      PROVE  InOrder'
  <2>1. CASE UNCHANGED <<status, keys, attempts>>
    BY <2>1 DEF InOrder
  <2>2. ASSUME NEW n \in JobIds, status[n] = "new", \A i \in JobIds : i < n => status[i] # "new",
               status' = [status EXCEPT ![n] = "pending"]
        PROVE  InOrder'
    <3>1. \A i \in JobIds : status'[i] = IF i = n THEN "pending" ELSE status[i]
      BY <2>2 DEF OutboxTypeOK
    <3> QED
      BY <1>2, <2>2, <3>1 DEF InOrder, JobIds
  <2> QED
    BY <1>2, <2>1, <2>2 DEF Queues
<1>3. ASSUME NEW t \in Tasks, StartUndo(t), UNCHANGED <<keys, attempts, current>>
      PROVE  InOrder'
  <2>1. \A i \in JobIds : \/ status'[i] = status[i]
                          \/ status[i] \in {"pending", "failed"} /\ status'[i] = "cancelled"
    BY <1>3 DEF StartUndo, OutboxTypeOK
  <2> QED
    BY <1>3, <2>1 DEF InOrder
<1>4. CASE Drains /\ UNCHANGED keys
  <2>1. ASSUME NEW i \in JobIds, NEW j \in JobIds, i < j
        PROVE  status'[i] = "new" => status'[j] = "new"
    BY <1>4, <2>1, DrainsTell DEF InOrder
  <2>2. ASSUME NEW i \in JobIds, NEW j \in JobIds, i < j, attempts'[j] > 0
        PROVE  status'[i] \in {"done", "failed", "cancelled"}
    <3>1. CASE attempts[j] > 0
      BY <1>4, <2>2, <3>1, DrainsTell DEF InOrder
    <3>2. CASE j = current' /\ status[j] = "pending"
      <4>1. status'[i] # "pending" /\ status'[i] # "in_flight"
        BY <1>4, <2>2, <3>2, DrainsTell DEF OneInFlight, JobIds
      <4>2. status[i] # "new"
        BY <2>2, <3>2 DEF InOrder
      <4> QED
        BY <1>4, <4>1, <4>2, DrainsTell DEF OutboxTypeOK, Statuses
    <3> QED
      BY <1>4, <2>2, <3>1, <3>2, DrainsTell
  <2> QED
    BY <2>1, <2>2 DEF InOrder
<1>5. CASE AttemptFails /\ current \in JobIds /\ UNCHANGED <<keys, attempts>>
  BY <1>5 DEF InOrder, AttemptFails, OneInFlight, OutboxTypeOK, JobIds, NoJob
<1> QED
  BY <1>1, <1>2, <1>3, <1>4, <1>5, JobSteps

\* What a step does to the requests and to what they have written.
LEMMA RequestSteps ==
  ASSUME OutboxTypeOK, [Next]_vars
  PROVE  \/ ServerStamps
         \/ \E j \in JobIds : LateStamp(j)
         \/ /\ UNCHANGED written
            /\ \A k \in Keys : rows'[k] \in {rows[k], NoJob}
            /\ \A j \in JobIds : late'[j] > 0 => late[j] > 0 \/ j = current
            /\ \/ UNCHANGED <<current, reply>>
               \/ Drains
               \/ current' = NoJob /\ reply' = "none"
<1> USE DEF vars, jobVars, drainVars, taskVars, serverVars, historyVars
<1>1. ASSUME NEW t \in Tasks, MapSteps(t)
      PROVE  UNCHANGED <<written, rows, late, current, reply>>
  BY <1>1 DEF MapSteps, BeginCommit, CommitSaved, CommitFailed, DeclineUndo
<1>2. ASSUME NEW t \in Tasks, UndoSteps(t)
      PROVE  /\ UNCHANGED <<written, late, current, reply>>
             /\ \A k \in Keys : rows'[k] \in {rows[k], NoJob}
  BY <1>2 DEF UndoSteps, StartUndo, OutboxIdle, MapsUndone, ServerClears, UndoEnds
<1>3. CASE Kick
  BY <1>3 DEF Kick
<1>4. CASE StartDrain
  <2>1. UNCHANGED <<written, rows, late>>
    BY <1>4 DEF StartDrain
  <2>2. CASE UNCHANGED <<current, reply>>
    BY <2>1, <2>2
  <2> QED
    BY <1>4, <2>1, <2>2, DrainActions DEF StartDrain
<1>5. CASE AttemptSucceeds \/ AttemptGivesUp
  <2>1. UNCHANGED <<written, rows>>
    BY <1>5 DEF AttemptSucceeds, AttemptGivesUp
  <2>2. \A j \in JobIds : late'[j] > 0 => late[j] > 0 \/ j = current
    BY <1>5, LateCounts DEF AttemptSucceeds, AttemptGivesUp
  <2> QED
    BY <1>5, <2>1, <2>2, DrainActions
<1>6. CASE AttemptFails
  BY <1>6, LateCounts DEF AttemptFails
<1>7. ASSUME NEW ks \in lateClears, LateClear(ks)
      PROVE  /\ UNCHANGED <<written, late, current, reply>>
             /\ \A k \in Keys : rows'[k] \in {rows[k], NoJob}
  BY <1>7 DEF LateClear
<1>8. CASE PageSteps
  BY <1>8 DEF PageSteps, StartRefresh, EndRefresh
<1>9. CASE UNCHANGED vars
  BY <1>9
<1> QED
  BY <1>1, <1>2, <1>3, <1>4, <1>5, <1>6, <1>7, <1>8, <1>9 DEF Next, DrainSteps, ServerSteps

\* No step takes an attempt back, and only a written request makes its job done.
LEMMA Progress ==
  ASSUME OutboxTypeOK, OneInFlight, AttemptsTell, RequestsTell, [Next]_vars
  PROVE  \A j \in JobIds : /\ attempts[j] > 0 => attempts'[j] > 0
                           /\ status'[j] = "done" => status[j] = "done" \/ (j = current /\ reply = "written")
<1> SUFFICES ASSUME NEW j \in JobIds
             PROVE  /\ attempts[j] > 0 => attempts'[j] > 0
                    /\ status'[j] = "done" => status[j] = "done" \/ (j = current /\ reply = "written")
  OBVIOUS
<1>1. CASE UNCHANGED <<status, keys, attempts, current>>
  BY <1>1
<1>2. ASSUME NEW t \in Tasks, CommitSaved(t), Queues(picked[t]), UNCHANGED <<attempts, current>>
      PROVE  /\ UNCHANGED attempts
             /\ status'[j] = "done" => status[j] = "done"
  BY <1>2 DEF Queues, OutboxTypeOK
<1>3. ASSUME NEW t \in Tasks, StartUndo(t), UNCHANGED <<keys, attempts, current>>
      PROVE  /\ UNCHANGED attempts
             /\ status'[j] = "done" => status[j] = "done"
  BY <1>3 DEF StartUndo, OutboxTypeOK
<1>4. CASE Drains /\ UNCHANGED keys
  <2>1. attempts[j] \in Nat
    BY OutboxAssumption DEF OutboxTypeOK
  <2> QED
    BY <1>4, <2>1, DrainsTell
<1>5. CASE AttemptFails /\ current \in JobIds /\ UNCHANGED <<keys, attempts>>
  BY <1>5 DEF AttemptFails, OutboxTypeOK
<1> QED
  BY <1>1, <1>2, <1>3, <1>4, <1>5, JobSteps

\* Requests, and what they have written.
LEMMA RequestsTellStep ==
  ASSUME OutboxTypeOK, OutboxTypeOK', OneInFlight, AttemptsTell, RequestsTell, [Next]_vars
  PROVE  RequestsTell'
<1>1. \A j \in JobIds : /\ attempts[j] > 0 => attempts'[j] > 0
                        /\ status'[j] = "done" => status[j] = "done" \/ (j = current /\ reply = "written")
  BY Progress
<1>2. current \in JobIds => attempts[current] > 0
  BY OutboxAssumption DEF OneInFlight, AttemptsTell, JobIds, NoJob
<1>3. CASE ServerStamps
  BY <1>2, <1>3 DEF ServerStamps, Stamp, RequestsTell, OutboxTypeOK, jobVars, NoJob
<1>4. ASSUME NEW j \in JobIds, LateStamp(j) PROVE RequestsTell'
  <2>1. \A i \in JobIds : late'[i] > 0 => late[i] > 0
    BY <1>4, OutboxAssumption DEF LateStamp, OutboxTypeOK
  <2> QED
    BY <1>4, <2>1 DEF LateStamp, Stamp, RequestsTell, OutboxTypeOK, jobVars, drainVars
<1>5. ASSUME UNCHANGED written,
             \A k \in Keys : rows'[k] \in {rows[k], NoJob},
             \A j \in JobIds : late'[j] > 0 => late[j] > 0 \/ j = current,
             \/ UNCHANGED <<current, reply>> \/ Drains \/ (current' = NoJob /\ reply' = "none")
      PROVE  RequestsTell'
  <2>1. /\ current' = NoJob <=> reply' = "none"
        /\ reply' = "written" => current' \in written'
    BY <1>5, DrainsTell DEF RequestsTell
  <2>2. \A j \in JobIds : late'[j] > 0 => attempts'[j] > 0
    BY <1>1, <1>2, <1>5 DEF RequestsTell
  <2> QED
    BY <1>1, <1>5, <2>1, <2>2 DEF RequestsTell, OutboxTypeOK
<1> QED
  BY <1>3, <1>4, <1>5, RequestSteps

\* A pending job has a drain to come, or one at work.
LEMMA PendingIsDrainedStep ==
  ASSUME OutboxTypeOK, OneInFlight, AttemptsTell, RequestsTell, PendingIsDrained, [Next]_vars
  PROVE  PendingIsDrained'
<1> USE DEF vars, jobVars, drainVars
<1>1. ASSUME NEW t \in Tasks, MapSteps(t) PROVE PendingIsDrained'
  <2>1. CASE UNCHANGED <<status, scheduled, queued, current>>
    BY <2>1 DEF PendingIsDrained
  <2>2. CASE scheduled' = TRUE
    BY <2>2 DEF PendingIsDrained
  <2> QED
    BY <1>1, <2>1, <2>2 DEF MapSteps, BeginCommit, CommitSaved, Enqueue, CommitFailed, DeclineUndo
<1>2. ASSUME NEW t \in Tasks, UndoSteps(t) PROVE PendingIsDrained'
  <2>1. UNCHANGED <<scheduled, queued, current>>
    BY <1>2 DEF UndoSteps, StartUndo, OutboxIdle, MapsUndone, ServerClears, UndoEnds
  <2>2. \A j \in JobIds : status'[j] = "pending" => status[j] = "pending"
    BY <1>2 DEF UndoSteps, StartUndo, OutboxIdle, MapsUndone, ServerClears, UndoEnds
  <2> QED
    BY <2>1, <2>2 DEF PendingIsDrained
<1>3. CASE Kick \/ AttemptFails
  BY <1>3 DEF PendingIsDrained, Kick, AttemptFails
<1>4. CASE StartDrain /\ current # NoJob
  BY <1>4 DEF PendingIsDrained, StartDrain
<1>5. CASE (StartDrain /\ current = NoJob) \/ AttemptSucceeds \/ AttemptGivesUp
  BY <1>5, DrainActions, DrainsTell DEF PendingIsDrained
<1>6. CASE ServerSteps
  BY <1>6 DEF PendingIsDrained, ServerSteps, ServerStamps, LateStamp, LateClear
<1>7. CASE PageSteps
  BY <1>7 DEF PendingIsDrained, PageSteps, StartRefresh, EndRefresh
<1>8. CASE UNCHANGED vars
  BY <1>8 DEF PendingIsDrained
<1> QED
  BY <1>1, <1>2, <1>3, <1>4, <1>5, <1>6, <1>7, <1>8 DEF Next, DrainSteps

\* The page shows no description that is being applied.
LEMMA HiddenWhileApplyingStep ==
  ASSUME OutboxTypeOK, OneInFlight, AttemptsTell, RequestsTell, HiddenWhileApplying, [Next]_vars
  PROVE  HiddenWhileApplying'
<1>1. CASE listed' \subseteq listed
  <2> SUFFICES ASSUME NEW j \in JobIds, Live(j)', NEW k \in keys'[j] PROVE k \notin listed'
    BY DEF HiddenWhileApplying, Applying
  <2>1. CASE Live(j) /\ keys'[j] = keys[j]
    BY <1>1, <2>1 DEF HiddenWhileApplying, Applying
  <2>2. CASE UNCHANGED <<status, keys, attempts, current>>
    BY <2>1, <2>2 DEF Live
  <2>3. ASSUME NEW t \in Tasks, CommitSaved(t), Queues(picked[t]) PROVE k \notin listed'
    <3>1. listed' = listed \ picked[t]
      BY <2>3 DEF CommitSaved
    <3>2. CASE keys'[j] = picked[t]
      BY <3>1, <3>2
    <3> QED
      BY <2>1, <2>3, <3>2 DEF Queues, Live, OutboxTypeOK
  <2>4. ASSUME NEW t \in Tasks, StartUndo(t), UNCHANGED keys PROVE k \notin listed'
    BY <2>1, <2>4 DEF StartUndo, Live
  <2>5. CASE Drains /\ UNCHANGED keys
    BY <2>1, <2>5, DrainsTell DEF Live
  <2>6. CASE AttemptFails /\ current \in JobIds /\ UNCHANGED keys
    BY <2>1, <2>6 DEF AttemptFails, OneInFlight, Live, OutboxTypeOK, JobIds, NoJob
  <2> QED
    BY <2>2, <2>3, <2>4, <2>5, <2>6, JobSteps
<1>2. ASSUME NEW issues \in SUBSET Keys, EndRefresh(issues) PROVE HiddenWhileApplying'
  BY <1>2 DEF EndRefresh, HiddenWhileApplying, Applying, Live, jobVars
<1>3. (\E issues \in SUBSET Keys : EndRefresh(issues)) \/ listed' \subseteq listed
  <2>1. ASSUME NEW t \in Tasks, MapSteps(t) \/ UndoSteps(t) PROVE listed' \subseteq listed
    BY <2>1 DEF MapSteps, BeginCommit, CommitSaved, CommitFailed, DeclineUndo,
                UndoSteps, StartUndo, OutboxIdle, MapsUndone, ServerClears, UndoEnds
  <2>2. CASE DrainSteps
    BY <2>2 DEF DrainSteps, Kick, StartDrain, AttemptSucceeds, AttemptFails, AttemptGivesUp
  <2>3. CASE ServerSteps
    BY <2>3 DEF ServerSteps, ServerStamps, LateStamp, LateClear
  <2>4. CASE StartRefresh \/ UNCHANGED vars
    BY <2>4 DEF StartRefresh, vars
  <2> QED
    BY <2>1, <2>2, <2>3, <2>4 DEF Next, PageSteps
<1> QED
  BY <1>1, <1>2, <1>3

\* What the drain and the server leave alone.
LEMMA UndoAlone ==
  ASSUME OutboxTypeOK, [Next]_vars
  PROVE  \/ UNCHANGED <<pc, picked, cleared, outran>>
         \/ \E t \in Tasks : MapSteps(t) \/ UndoSteps(t)
         \/ /\ AttemptFails /\ current \in JobIds
            /\ UNCHANGED <<pc, picked, cleared, keys>>
            /\ outran' = outran \cup (keys[current] \cap Undoing)
<1> USE DEF vars, taskVars, historyVars, jobVars
<1>1. CASE Kick \/ StartDrain \/ AttemptSucceeds \/ AttemptGivesUp
  BY <1>1 DEF Kick, StartDrain, AttemptSucceeds, AttemptGivesUp
<1>2. CASE AttemptFails
  BY <1>2 DEF AttemptFails, OutboxTypeOK
<1>3. CASE ServerSteps
  BY <1>3 DEF ServerSteps, ServerStamps, LateStamp, LateClear, Stamp
<1>4. CASE PageSteps \/ UNCHANGED vars
  BY <1>4 DEF PageSteps, StartRefresh, EndRefresh
<1> QED
  BY <1>1, <1>2, <1>3, <1>4 DEF Next, DrainSteps

\* A job is alive after a step only if it was before or has just been queued,
\* and pending only if it was or its attempt has failed.
LEMMA LiveSteps ==
  ASSUME OutboxTypeOK, OneInFlight, AttemptsTell, RequestsTell, [Next]_vars,
         ~ \E t \in Tasks : CommitSaved(t)
  PROVE  /\ UNCHANGED keys
         /\ \A j \in JobIds :
              /\ Live(j)' => Live(j)
              /\ status'[j] = "pending" => status[j] = "pending" \/ (AttemptFails /\ j = current)
<1>1. CASE UNCHANGED <<status, keys, attempts, current>>
  BY <1>1 DEF Live
<1>2. ASSUME NEW t \in Tasks, StartUndo(t), UNCHANGED keys
      PROVE  \A j \in JobIds : /\ Live(j)' => Live(j)
                               /\ status'[j] = "pending" => status[j] = "pending"
  BY <1>2 DEF StartUndo, Live
<1>3. CASE Drains /\ UNCHANGED keys
  BY <1>3, DrainsTell DEF Live
<1>4. CASE AttemptFails /\ current \in JobIds /\ UNCHANGED keys
  BY <1>4 DEF AttemptFails, OneInFlight, Live, OutboxTypeOK, JobIds, NoJob
<1> QED
  BY <1>1, <1>2, <1>3, <1>4, JobSteps

\* An Undo under way keeps its keys out of the queue.
LEMMA UndoHoldsStep ==
  ASSUME OutboxTypeOK, OneInFlight, AttemptsTell, RequestsTell, UndoHolds, [Next]_vars
  PROVE  UndoHolds'
<1> SUFFICES ASSUME NEW t \in Tasks, NEW k \in picked'[t], k \notin outran',
                    NEW j \in JobIds, k \in keys'[j]
             PROVE  /\ pc'[t] \in {"waiting", "maps", "clearing"} => status'[j] # "pending"
                    /\ pc'[t] \in {"maps", "clearing"} => status'[j] # "in_flight"
  BY DEF UndoHolds
<1>1. ASSUME k \in picked[t], k \notin outran, k \in keys[j], pc'[t] = pc[t],
             status'[j] = "pending" => status[j] = "pending", Live(j)' => Live(j)
      PROVE  /\ pc'[t] \in {"waiting", "maps", "clearing"} => status'[j] # "pending"
             /\ pc'[t] \in {"maps", "clearing"} => status'[j] # "in_flight"
  BY <1>1 DEF UndoHolds, Live
<1>2. ASSUME NEW u \in Tasks, CommitSaved(u)
      PROVE  /\ pc'[t] \in {"waiting", "maps", "clearing"} => status'[j] # "pending"
             /\ pc'[t] \in {"maps", "clearing"} => status'[j] # "in_flight"
  <2>1. CASE t = u
    BY <1>2, <2>1 DEF CommitSaved, Finish, OutboxTypeOK
  <2>2. CASE t # u /\ pc[t] \in {"waiting", "maps", "clearing"}
    <3>1. pc'[t] = pc[t] /\ picked'[t] = picked[t]
      BY <1>2, <2>2 DEF CommitSaved, Finish, OutboxTypeOK
    <3>2. k \in Undoing
      BY <2>2, <3>1 DEF Undoing
    <3>3. k \notin picked[u] /\ k \notin outran
      BY <1>2, <3>2 DEF CommitSaved
    <3>4. k \in keys[j] /\ status'[j] = status[j]
      BY <1>2, <3>3, JobSteps DEF CommitSaved, Enqueue, OutboxTypeOK
    <3> QED
      BY <1>1, <3>1, <3>3, <3>4 DEF Live
  <2>3. CASE t # u /\ pc[t] \notin {"waiting", "maps", "clearing"}
    BY <1>2, <2>3 DEF CommitSaved, Finish, OutboxTypeOK
  <2> QED
    BY <2>1, <2>2, <2>3
<1>3. CASE ~ \E u \in Tasks : CommitSaved(u)
  <2>1. k \in keys[j] /\ (Live(j)' => Live(j))
        /\ (status'[j] = "pending" => status[j] = "pending" \/ (AttemptFails /\ j = current))
    BY <1>3, LiveSteps
  <2>2. CASE UNCHANGED <<pc, picked, cleared, outran>> /\ ~AttemptFails
    BY <1>1, <2>1, <2>2
  <2>3. CASE /\ AttemptFails /\ UNCHANGED <<pc, picked, cleared, keys>>
             /\ outran' = outran \cup (keys[current] \cap Undoing)
    <3>1. CASE j = current
      BY <2>1, <2>3, <3>1 DEF Undoing
    <3> QED
      BY <1>1, <2>1, <2>3, <3>1
  <2>4. ASSUME NEW u \in Tasks, MapSteps(u), ~AttemptFails
        PROVE  /\ pc'[t] \in {"waiting", "maps", "clearing"} => status'[j] # "pending"
               /\ pc'[t] \in {"maps", "clearing"} => status'[j] # "in_flight"
    <3>1. \/ pc'[t] = pc[t] /\ picked'[t] = picked[t] /\ outran' = outran
          \/ pc'[t] \notin {"waiting", "maps", "clearing"}
      BY <1>3, <2>4 DEF MapSteps, BeginCommit, CommitFailed, DeclineUndo, Return, Finish,
                        OutboxTypeOK, historyVars
    <3> QED
      BY <1>1, <2>1, <2>4, <3>1
  <2>5. ASSUME NEW u \in Tasks, UndoSteps(u), ~AttemptFails
        PROVE  /\ pc'[t] \in {"waiting", "maps", "clearing"} => status'[j] # "pending"
               /\ pc'[t] \in {"maps", "clearing"} => status'[j] # "in_flight"
    <3>1. outran \subseteq outran'
      BY <2>5 DEF UndoSteps, StartUndo, OutboxIdle, MapsUndone, ServerClears, UndoEnds, historyVars
    <3>2. CASE t # u
      <4>1. pc'[t] = pc[t] /\ picked'[t] = picked[t]
        BY <2>5, <3>2 DEF UndoSteps, StartUndo, OutboxIdle, MapsUndone, ServerClears, UndoEnds,
                          Goto, Return, Finish, OutboxTypeOK
      <4> QED
        BY <1>1, <2>1, <2>5, <3>1, <4>1
    <3>3. CASE t = u /\ StartUndo(u)
      <4>1. picked'[t] = snapshot /\ pc'[t] = "waiting"
        BY <3>3 DEF StartUndo, OutboxTypeOK
      <4> QED
        BY <2>1, <3>3, <4>1 DEF StartUndo, Touches
    <3>4. CASE t = u /\ OutboxIdle(u)
      <4>1. /\ picked'[t] = picked[t] /\ pc[t] = "waiting" /\ pc'[t] = "maps"
            /\ current = NoJob /\ UNCHANGED <<status, outran>>
        BY <3>4 DEF OutboxIdle, Goto, OutboxTypeOK, jobVars, historyVars
      <4> QED
        BY <2>1, <4>1 DEF UndoHolds, OneInFlight
    <3>5. CASE t = u /\ MapsUndone(u)
      <4>1. \/ /\ picked'[t] = picked[t] /\ pc[t] = "maps" /\ pc'[t] = "clearing"
               /\ UNCHANGED <<status, outran>>
            \/ pc'[t] = "returned"
        BY <3>5 DEF MapsUndone, Goto, Return, Finish, OutboxTypeOK, jobVars, historyVars
      <4> QED
        BY <2>1, <4>1 DEF UndoHolds
    <3>6. CASE t = u /\ (ServerClears(u) \/ UndoEnds(u))
      BY <3>6 DEF ServerClears, UndoEnds, Return, Finish, OutboxTypeOK
    <3> QED
      BY <2>5, <3>2, <3>3, <3>4, <3>5, <3>6 DEF UndoSteps
  <2>6. ASSUME NEW u \in Tasks, MapSteps(u) \/ UndoSteps(u) PROVE ~AttemptFails
    <3>1. current # NoJob /\ AttemptFails => current' # current
      BY DEF AttemptFails
    <3>2. UNCHANGED current
      BY <2>6 DEF MapSteps, BeginCommit, CommitSaved, CommitFailed, DeclineUndo, drainVars,
                  UndoSteps, StartUndo, OutboxIdle, MapsUndone, ServerClears, UndoEnds
    <3> QED
      BY <3>1, <3>2 DEF AttemptFails
  <2> QED
    BY <2>2, <2>3, <2>4, <2>5, <2>6, UndoAlone DEF AttemptFails
<1> QED
  BY <1>2, <1>3

\* When the rows are cleared nothing is left that could stamp them.
LEMMA NothingLeftStep ==
  ASSUME OutboxTypeOK, OutboxTypeOK', OneInFlight, AttemptsTell, RequestsTell, UndoHolds,
         NothingLeft, [Next]_vars
  PROVE  NothingLeft'
<1> SUFFICES ASSUME NEW k \in cleared', k \notin outran', NEW j \in JobIds, k \in keys'[j]
             PROVE  ~Live(j)' /\ late'[j] = 0
  BY DEF NothingLeft
<1>1. \A i \in JobIds : late[i] \in Nat /\ late'[i] \in Nat
  BY OutboxAssumption DEF OutboxTypeOK
<1>2. ASSUME NEW u \in Tasks, CommitSaved(u) PROVE ~Live(j)' /\ late'[j] = 0
  <2>1. k \in cleared /\ k \notin outran /\ k \notin picked[u] /\ late' = late
    BY <1>2 DEF CommitSaved, serverVars
  <2>2. k \in keys[j] /\ status'[j] = status[j]
    BY <1>2, <2>1 DEF CommitSaved, Enqueue, OutboxTypeOK
  <2> QED
    BY <2>1, <2>2 DEF NothingLeft, Live
<1>3. ASSUME ~ \E u \in Tasks : CommitSaved(u), k \in cleared, k \notin outran
      PROVE  ~Live(j)' /\ late'[j] = 0
  <2>1. k \in keys[j] /\ ~Live(j) /\ ~Live(j)' /\ late[j] = 0
    BY <1>3, LiveSteps DEF NothingLeft
  <2>2. j # current
    BY <2>1, OutboxAssumption DEF OneInFlight, Live, JobIds, NoJob
  <2>3. late'[j] > 0 => late[j] > 0
    <3>1. CASE ServerStamps
      BY <3>1 DEF ServerStamps
    <3>2. ASSUME NEW i \in JobIds, LateStamp(i) PROVE late'[j] > 0 => late[j] > 0
      BY <3>2, <1>1 DEF LateStamp, OutboxTypeOK
    <3> QED
      BY <2>2, <3>1, <3>2, RequestSteps
  <2> QED
    BY <1>1, <2>1, <2>3
<1>4. ASSUME NEW u \in Tasks, ServerClears(u) PROVE ~Live(j)' /\ late'[j] = 0
  <2>1. UNCHANGED <<status, keys, attempts, late>> /\ outran \subseteq outran'
    BY <1>4 DEF ServerClears, jobVars
  <2>2. CASE k \in cleared
    BY <2>1, <2>2 DEF NothingLeft, Live
  <2>3. CASE k \in picked[u]
    <3>1. ~Live(j)
      BY <1>4, <2>1, <2>3 DEF UndoHolds, ServerClears, Finish, Live
    <3>2. status[j] # "new"
      BY <2>1 DEF AttemptsTell
    <3>3. Touches(j, {k})
      BY <2>1, <3>2 DEF Touches
    <3>4. ~(late[j] > 0)
      BY <1>4, <2>3, <3>3 DEF ServerClears
    <3> QED
      BY <1>1, <2>1, <3>1, <3>4 DEF Live
  <2> QED
    BY <1>4, <2>2, <2>3 DEF ServerClears
<1>5. \/ \E u \in Tasks : CommitSaved(u)
      \/ \E u \in Tasks : ServerClears(u)
      \/ cleared' = cleared /\ outran \subseteq outran'
  <2>1. ASSUME NEW u \in Tasks, MapSteps(u) \/ UndoSteps(u), ~CommitSaved(u), ~ServerClears(u)
        PROVE  UNCHANGED <<cleared, outran>>
    BY <2>1 DEF MapSteps, BeginCommit, CommitFailed, DeclineUndo, UndoSteps, StartUndo,
                OutboxIdle, MapsUndone, UndoEnds, historyVars
  <2> QED
    BY <2>1, UndoAlone
<1> QED
  BY <1>2, <1>3, <1>4, <1>5

\* What was cleared stays clear.
LEMMA UndoSticksStep ==
  ASSUME OutboxTypeOK, OneInFlight, AttemptsTell, RequestsTell, UndoHolds, NothingLeft,
         UndoSticks, [Next]_vars
  PROVE  UndoSticks'
<1> SUFFICES ASSUME NEW k \in cleared', k \notin outran' PROVE rows'[k] = NoJob
  BY DEF UndoSticks
<1>1. CASE k \in cleared /\ k \notin outran
  <2>1. rows[k] = NoJob /\ k \in Keys
    BY <1>1 DEF UndoSticks, OutboxTypeOK
  <2>2. CASE ServerStamps
    <3>1. current \in JobIds
      BY <2>2 DEF ServerStamps, RequestsTell, OutboxTypeOK
    <3>2. Live(current)
      BY <3>1, OutboxAssumption DEF OneInFlight, Live, JobIds, NoJob
    <3>3. k \notin keys[current]
      BY <1>1, <3>1, <3>2 DEF NothingLeft
    <3> QED
      BY <2>1, <2>2, <3>3 DEF ServerStamps, Stamp
  <2>3. ASSUME NEW j \in JobIds, LateStamp(j) PROVE rows'[k] = NoJob
    <3>1. k \notin keys[j]
      BY <1>1, <2>3 DEF NothingLeft, LateStamp
    <3> QED
      BY <2>1, <2>3, <3>1 DEF LateStamp, Stamp
  <2> QED
    BY <2>1, <2>2, <2>3, RequestSteps
<1>2. ASSUME NEW u \in Tasks, ServerClears(u) PROVE rows'[k] = NoJob
  BY <1>1, <1>2 DEF ServerClears, OutboxTypeOK
<1>3. ASSUME NEW u \in Tasks, CommitSaved(u) PROVE k \in cleared /\ k \notin outran
  BY <1>3 DEF CommitSaved
<1>4. ASSUME NEW u \in Tasks, MapSteps(u) \/ UndoSteps(u), ~CommitSaved(u), ~ServerClears(u)
      PROVE  UNCHANGED <<cleared, outran>>
  BY <1>4 DEF MapSteps, BeginCommit, CommitFailed, DeclineUndo, UndoSteps, StartUndo,
              OutboxIdle, MapsUndone, UndoEnds, historyVars
<1> QED
  BY <1>1, <1>2, <1>3, <1>4, UndoAlone

-----------------------------------------------------------------------------
LEMMA OutboxInit == Init => OutboxInv
<1> SUFFICES ASSUME Init PROVE OutboxInv
  OBVIOUS
<1>1. OutboxTypeOK
  <2>1. 0 \in 0..MaxAttempts /\ 0 \in 0..MaxLate
    BY OutboxAssumption
  <2>2. /\ status \in [JobIds -> Statuses] /\ keys \in [JobIds -> SUBSET Keys]
        /\ attempts \in [JobIds -> 0..MaxAttempts] /\ late \in [JobIds -> 0..MaxLate]
        /\ rows \in [Keys -> JobIds \cup {NoJob}] /\ picked \in [Tasks -> SUBSET Keys]
    BY <2>1 DEF Init, Statuses
  <2>3. scheduled \in BOOLEAN /\ queued \in BOOLEAN
    BY DEF Init
  <2> QED
    BY <2>2, <2>3 DEF Init, OutboxTypeOK
<1>2. OneInFlight /\ AttemptsTell /\ PendingIsDrained
  BY OutboxAssumption DEF Init, OneInFlight, AttemptsTell, PendingIsDrained, JobIds, NoJob
<1>3. RequestsTell /\ InOrder
  BY OutboxAssumption DEF Init, RequestsTell, InOrder, JobIds, NoJob
<1>4. HiddenWhileApplying
  BY DEF Init, HiddenWhileApplying, Applying, Live
<1>5. UndoHolds /\ NothingLeft /\ UndoSticks
  BY DEF Init, UndoHolds, NothingLeft, UndoSticks
<1> QED
  BY <1>1, <1>2, <1>3, <1>4, <1>5 DEF OutboxInv

LEMMA OutboxStep == OutboxInv /\ [Next]_vars => OutboxInv'
<1> SUFFICES ASSUME OutboxInv, [Next]_vars PROVE OutboxInv'
  OBVIOUS
<1> USE DEF OutboxInv
<1>1. OutboxTypeOK'
  BY TypeStep
<1>2. OneInFlight' /\ AttemptsTell' /\ RequestsTell' /\ InOrder'
  BY <1>1, OneInFlightStep, AttemptsTellStep, RequestsTellStep, InOrderStep
<1>3. PendingIsDrained' /\ HiddenWhileApplying'
  BY PendingIsDrainedStep, HiddenWhileApplyingStep
<1>4. UndoHolds' /\ NothingLeft' /\ UndoSticks'
  BY <1>1, UndoHoldsStep, NothingLeftStep, UndoSticksStep
<1> QED
  BY <1>1, <1>2, <1>3, <1>4

\* The inductive invariant of the outbox holds in every reachable state.
THEOREM OutboxInvariance == Spec => []OutboxInv
<1> QED
  BY OutboxInit, OutboxStep, PTL DEF Spec

\* Every state is well typed; attempts and abandoned requests stay in their bounds.
THEOREM OutboxTypeCorrect == Spec => []OutboxTypeOK
  BY OutboxInvariance, PTL DEF OutboxInv

\* drain_mapping_apply_outbox never has two jobs in flight.
THEOREM OneInFlightCorrect == Spec => []OneInFlight
  BY OutboxInvariance, PTL DEF OutboxInv

\* No pending job is ever left without a drain on its way or at work.
THEOREM NoJobForgotten == Spec => []PendingIsDrained
  BY OutboxInvariance, PTL DEF OutboxInv

\* _hide_applying_issues and the commit keep the page and the queue disjoint.
THEOREM HiddenCorrect == Spec => []HiddenWhileApplying
  BY OutboxInvariance, PTL DEF OutboxInv

\* What Undo cleared stays clear but for the three exemptions of outran.
THEOREM UndoCorrect == Spec => []UndoSticks
  BY OutboxInvariance, PTL DEF OutboxInv

\* The drain's own requests reach the rows in the order of the queue.
THEOREM NewestStampCorrect == Spec => NewestStampWins
<1>1. OutboxInv /\ [Next]_vars => [ServerStamps => \A k \in keys[current] : rows[k] <= current]_vars
  <2> SUFFICES ASSUME OutboxInv, ServerStamps, NEW k \in keys[current] PROVE rows[k] <= current
    OBVIOUS
  <2>1. current \in JobIds /\ k \in Keys
    BY DEF OutboxInv, ServerStamps, RequestsTell, OutboxTypeOK
  <2>2. status[current] = "in_flight" /\ rows[k] \in JobIds \cup {NoJob}
    BY <2>1, OutboxAssumption DEF OutboxInv, OneInFlight, OutboxTypeOK, JobIds, NoJob
  <2>3. CASE rows[k] = NoJob
    BY <2>1, <2>3, OutboxAssumption DEF JobIds, NoJob
  <2>4. CASE rows[k] # NoJob
    <3>1. rows[k] \in JobIds /\ attempts[rows[k]] > 0
      BY <2>1, <2>2, <2>4 DEF OutboxInv, RequestsTell
    <3>2. ~(current < rows[k])
      BY <2>1, <2>2, <3>1 DEF OutboxInv, InOrder
    <3> QED
      BY <2>1, <3>1, <3>2, OutboxAssumption DEF JobIds
  <2> QED
    BY <2>3, <2>4
<1> QED
  BY <1>1, OutboxInvariance, PTL DEF Spec, NewestStampWins

-----------------------------------------------------------------------------
(* The outbox implements MappingJobs: initial states and steps. *)

LedgerOf == [j \in JobIds |-> CASE status[j] = "new" -> "none"
                                [] Live(j) -> "open"
                                [] OTHER -> status[j]]
SentOf == {j \in JobIds : attempts[j] > 0}

\* The mapping, status by status.
LedgerReads ==
  \A j \in JobIds :
    /\ status[j] = "new" => LedgerOf[j] = "none"
    /\ Live(j) => LedgerOf[j] = "open"
    /\ status[j] \in {"done", "failed", "cancelled"} => LedgerOf[j] = status[j]

LEMMA LedgerMeans == LedgerReads
<1> SUFFICES ASSUME NEW j \in JobIds
             PROVE  /\ status[j] = "new" => LedgerOf[j] = "none"
                    /\ Live(j) => LedgerOf[j] = "open"
                    /\ status[j] \in {"done", "failed", "cancelled"} => LedgerOf[j] = status[j]
  BY DEF LedgerReads
<1>1. CASE status[j] = "new"
  BY <1>1 DEF LedgerOf, Live
<1>2. CASE Live(j)
  BY <1>2 DEF LedgerOf, Live
<1>3. CASE status[j] \in {"done", "failed", "cancelled"}
  BY <1>3 DEF LedgerOf, Live
<1> QED
  BY <1>1, <1>2, <1>3 DEF Live

\* The outbox starts with an empty ledger.
THEOREM LedgerInit == Init => Ledger!Init
<1> SUFFICES ASSUME Init PROVE Ledger!Init
  OBVIOUS
<1>1. LedgerOf = [j \in JobIds |-> "none"]
  <2>1. \A j \in JobIds : LedgerOf[j] = "none"
    BY LedgerMeans DEF Init, LedgerReads
  <2> QED
    BY <2>1 DEF LedgerOf
<1>2. SentOf = {}
  BY DEF Init, SentOf
<1> QED
  BY <1>1, <1>2 DEF Init, Ledger!Init, LedgerOf, SentOf

\* Every step of the outbox, of the server and of Undo is a step of the ledger.
THEOREM LedgerStep == OutboxInv /\ [Next]_vars => [Ledger!Next]_(Ledger!ledgerVars)
<1> SUFFICES ASSUME OutboxInv, [Next]_vars PROVE Ledger!Next
  OBVIOUS
<1> USE DEF OutboxInv
<1>1. OutboxTypeOK'
  BY TypeStep
<1>2. ASSUME NEW j \in JobIds
      PROVE  \/ LedgerOf'[j] = LedgerOf[j]
             \/ LedgerOf[j] = "none" /\ LedgerOf'[j] = "open"
             \/ LedgerOf[j] = "open" /\ j \in written /\ LedgerOf'[j] = "done"
             \/ LedgerOf[j] = "open" /\ j \in SentOf /\ LedgerOf'[j] = "failed"
             \/ LedgerOf[j] \in {"open", "failed"} /\ LedgerOf'[j] = "cancelled"
  <2>1. /\ status[j] = "new" => LedgerOf[j] = "none"
        /\ Live(j) => LedgerOf[j] = "open"
        /\ status[j] \in {"done", "failed", "cancelled"} => LedgerOf[j] = status[j]
        /\ status'[j] = "new" => LedgerOf'[j] = "none"
        /\ Live(j)' => LedgerOf'[j] = "open"
        /\ status'[j] \in {"done", "failed", "cancelled"} => LedgerOf'[j] = status'[j]
    <3>1. LedgerReads'
      BY LedgerMeans, PTL
    <3> QED
      BY <3>1, LedgerMeans DEF LedgerReads
  <2>2. \/ status'[j] = status[j]
        \/ status[j] = "new" /\ status'[j] = "pending"
        \/ status[j] \in {"pending", "failed"} /\ status'[j] = "cancelled"
        \/ status[j] = "pending" /\ status'[j] = "in_flight"
        \/ status[j] = "in_flight" /\ status'[j] = "pending"
        \/ status[j] = "in_flight" /\ status'[j] = "done" /\ j \in written
        \/ status[j] = "in_flight" /\ status'[j] = "failed" /\ attempts[j] > 0
    <3>1. CASE UNCHANGED <<status, keys, attempts, current>>
      BY <3>1
    <3>2. ASSUME NEW t \in Tasks, Queues(picked[t])
          PROVE  status'[j] = status[j] \/ (status[j] = "new" /\ status'[j] = "pending")
      BY <3>2 DEF Queues, OutboxTypeOK
    <3>3. ASSUME NEW t \in Tasks, StartUndo(t)
          PROVE  status'[j] = status[j] \/ (status[j] \in {"pending", "failed"} /\ status'[j] = "cancelled")
      BY <3>3 DEF StartUndo
    <3>4. CASE Drains
      BY <3>4, DrainsTell DEF RequestsTell, AttemptsTell
    <3>5. CASE AttemptFails /\ current \in JobIds
      BY <3>5 DEF AttemptFails, OneInFlight, OutboxTypeOK
    <3> QED
      BY <3>1, <3>2, <3>3, <3>4, <3>5, JobSteps
  <2>3. status[j] \in Statuses /\ status'[j] \in Statuses
    BY <1>1 DEF OutboxTypeOK
  <2> QED
    BY <2>1, <2>2, <2>3 DEF Live, Statuses, SentOf
<1>3. SentOf \subseteq SentOf' /\ \A j \in SentOf' \ SentOf : LedgerOf[j] = "open"
  <2>1. ASSUME NEW j \in JobIds
        PROVE  /\ attempts[j] > 0 => attempts'[j] > 0
               /\ attempts'[j] > 0 /\ ~(attempts[j] > 0) => status[j] = "pending"
    <3>1. CASE Drains
      BY <3>1, DrainsTell, Progress
    <3> QED
      BY <3>1, JobSteps
  <2> QED
    BY <2>1, LedgerMeans DEF SentOf, Live, LedgerReads
<1>4. written \subseteq written' /\ written' \subseteq written \cup SentOf
  <2>1. CASE ServerStamps
    BY <2>1, OutboxAssumption
       DEF ServerStamps, Stamp, RequestsTell, OneInFlight, AttemptsTell, OutboxTypeOK, SentOf, NoJob, JobIds
  <2>2. ASSUME NEW j \in JobIds, LateStamp(j) PROVE written' = written \cup {j} /\ j \in SentOf
    BY <2>2 DEF LateStamp, Stamp, RequestsTell, SentOf
  <2> QED
    BY <2>1, <2>2, RequestSteps
<1>5. DOMAIN LedgerOf' = JobIds
  BY DEF LedgerOf
<1> QED
  BY <1>2, <1>3, <1>4, <1>5 DEF Ledger!Next, Ledger!Judge, LedgerOf, SentOf

(* The outbox keeps the ledger: what it says of its jobs, and what reaches *)
(* the register, only ever moves as MappingJobs allows.                    *)
THEOREM LedgerKept == Spec => Ledger!Init /\ [][Ledger!Next]_(Ledger!ledgerVars)
  BY LedgerInit, LedgerStep, OutboxInvariance, PTL DEF Spec
=============================================================================
