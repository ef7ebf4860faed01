---------------------------- MODULE BackupProofs ----------------------------
(***************************************************************************)
(* The safety of scheduled backups for any workers and hosts, any times    *)
(* and number of faults: types, the exclusion that lock file and lease     *)
(* give, one dump per slot, and that no archive leaves its disk unsent.    *)
(***************************************************************************)
EXTENDS BackupScheduler, TLAPS

\* Processes and strays alike are hands at work.
USE DEF Hands

(***************************************************************************)
(* The inductive invariant, in layers: each is proved from those before.   *)
(***************************************************************************)

Steps == {"idle", "next", "claimed", "failing", "finishing", "leaving", "erring",
          "looking", "inserting", "dumping", "listing", "uploading", "sending",
          "sent", "unlinking", "pruning", "deleted", "checking", "restoring"}
Listed == {"uploading", "sending", "sent", "unlinking", "pruning", "deleted"}
Whats == {"dump", "run", "maintain", "restore"}

Job == [status : JobStatus, since : Nat, here : BOOLEAN]
Lent == [owner : Workers \cup {Nobody}, until : Nat]
Stand == [pc : Steps, what : Whats \cup {"none"}, at : Nat, job : Nat, todo : SUBSET Nat]

\* What backup_jobs holds, now or in an archive: jobs that were begun, and of
\* each slot at most one.
SoundJobs(js) ==
  /\ js \in [JobIds -> Job]
  /\ \A j \in JobIds : js[j].since <= clock
  /\ \A j \in JobIds : js[j].status # "none" => j <= made
  /\ \A j, k \in JobIds :
       /\ js[j].status # "none" /\ js[k].status # "none"
       /\ birth[j].slot = birth[k].slot /\ birth[j].slot # Asked
       => j = k

\* What a restore can rely on.
SoundArchive(j) ==
  /\ SoundJobs(archive[j].jobs)
  /\ archive[j].lease \in Lent /\ archive[j].lease.owner = Nobody

StateSound ==
  /\ clock \in Times /\ made \in 0..MaxJobs
  /\ DOMAIN birth = JobIds /\ DOMAIN archive = JobIds
  /\ files \subseteq 1..made /\ objects \subseteq 1..made
  /\ lease \in Lent
  /\ restored \in BOOLEAN

\* What a process or a stray may have in hand when m archives were begun.
SoundStand(w, m) ==
  /\ w \in Stand
  /\ w.job <= m /\ w.todo \subseteq 1..m
  /\ w.todo # {} => w.pc \in Listed
  /\ w.pc = "claimed" => w.what # "none"
  /\ w.pc \in {"dumping", "sending", "sent", "deleted"} => w.job \in 1..m

WorkSound ==
  work \in [Hands -> Stand] /\ \A p \in Hands : SoundStand(work[p], made)

\* An archive that a process reads from, or that it sends to the bucket.
Held(w) == w.pc \in {"sending", "sent", "restoring"}

InUse(j) == j \in files \cup objects \/ \E p \in Hands : Held(work[p]) /\ work[p].job = j

ArchivesSound ==
  /\ \A p \in Hands : Held(work[p]) => work[p].job \in 1..made
  /\ \A j \in JobIds : InUse(j) => SoundArchive(j)

\* The lease, if it runs, is that of a process at work.
LeaseInUse == lease.owner \in Workers => Inside(lease.owner) \/ lease.until <= clock

\* The lock file: one process of a host.
LockHeld ==
  \A p, q \in Workers : p # q /\ HostOf(p) = HostOf(q) => ~(Inside(p) /\ Inside(q))

\* The lease: whoever is at work and did not miss a heartbeat has it.
LeaseHeld ==
  ~restored => \A p \in Workers : Inside(p) /\ p \notin stalled =>
                 lease.owner = p /\ lease.until > clock

\* What is being dumped or sent is on this host's disk, and what is being
\* removed from it was sent.
OwnDump(p) == At(p, "dumping") => birth[work[p].job].host = HostOf(p)
OwnSend(p) == work[p].pc \in {"sending", "sent"} => OnDisk(p, work[p].job)
OwnUnlink(p) ==
  At(p, "unlinking") =>
    \A j \in work[p].todo : birth[j].host = HostOf(p) => jobs[j].status \notin Unsent

DiskHeld ==
  ~restored => /\ UnsentStaysOnDisk
               /\ \A p \in Workers : OwnDump(p) /\ OwnSend(p) /\ OwnUnlink(p)

BackupsInv ==
  /\ StateSound /\ SoundJobs(jobs) /\ WorkSound /\ ArchivesSound
  /\ LeaseInUse /\ LockHeld /\ LeaseHeld /\ DiskHeld

-----------------------------------------------------------------------------

\* One process moves, the others stand where they were.
Moves(p) == work' = [work EXCEPT ![p] = work'[p]] /\ SoundStand(work'[p], made')

\* Time and the number of archives only grow; where an archive came from stays.
Grows ==
  /\ clock <= clock' /\ made <= made'
  /\ \A j \in 1..made : birth'[j] = birth[j]

\* Whoever moves, all stay sound.
Moving ==
  work' \in [Hands -> Stand] /\ \A q \in Hands : work'[q] = work[q] \/ SoundStand(work'[q], made')

\* What a coroutine leaves running is a sound stand of a stray.
LEMMA AloneSound ==
  ASSUME NEW m, NEW w, SoundStand(w, m), RunsOn(w)
  PROVE /\ SoundStand(Alone(w), m) /\ Alone(w).pc = w.pc /\ Alone(w).job = w.job
        /\ Alone(w).todo \subseteq w.todo
<1> DEFINE v == Alone(w)
           S == {j \in w.todo : w.pc = "pruning" /\ Newest(w.todo, j)}
<1>1. S \subseteq w.todo /\ (S # {} => w.pc = "pruning")
  OBVIOUS
<1>2. v = [w EXCEPT !.todo = S]
  BY DEF Alone
<1> HIDE DEF S, v
<1>3. v \in Stand /\ v.pc = w.pc /\ v.job = w.job /\ v.what = w.what /\ v.todo = S
  BY <1>1, <1>2 DEF SoundStand, Stand
<1>4. SoundStand(v, m)
  BY <1>1, <1>3 DEF SoundStand, Listed
<1> QED
  BY <1>1, <1>3, <1>4 DEF v

\* A coroutine ends: its process goes on, and at most one stray takes over.
LEMMA Dropped ==
  ASSUME WorkSound, NEW p \in Workers, NEW w \in Stand, Drop(p, w)
  PROVE /\ work' \in [Hands -> Stand] /\ work'[p] = w
        /\ \A q \in Workers \ {p} : work'[q] = work[q]
        /\ \A x \in Strays : work'[x] = work[x] \/ (RunsOn(work[p]) /\ work'[x] = Alone(work[p]))
<1>1. work \in [Hands -> Stand] /\ \A x \in Strays : x # p
  BY BackupAssumption DEF WorkSound
<1>2. CASE work' = [work EXCEPT ![p] = w]
  BY <1>1, <1>2
<1>3. CASE work' # [work EXCEPT ![p] = w]
  <2> DEFINE v == Alone(work[p])
  <2>1. PICK x \in Strays : work' = [work EXCEPT ![p] = w, ![x] = v]
    BY <1>3 DEF Drop
  <2>2. RunsOn(work[p])
    BY <1>3 DEF Drop
  <2>3. v \in Stand
    BY <2>2, AloneSound DEF WorkSound, SoundStand
  <2> HIDE DEF v
  <2>4. work' \in [Hands -> Stand] /\ work'[p] = w
    BY <1>1, <2>1, <2>3
  <2>5. \A q \in Hands \ {p, x} : work'[q] = work[q]
    BY <1>1, <2>1
  <2>6. work'[x] = v
    BY <1>1, <2>1
  <2>7. \A q \in Workers \ {p} : q # x
    BY BackupAssumption
  <2> QED
    BY <1>1, <2>2, <2>4, <2>5, <2>6, <2>7 DEF v
<1> QED
  BY <1>2, <1>3

\* p's work is cut off, and the database knows nothing of it but the lease.
CutOff(p) ==
  /\ UNCHANGED <<clock, jobs, slots, tasks, birth, made, files, objects, archive>>
  /\ UNCHANGED <<stalled, sent, misplaced, restored>>
  /\ lease' \in {Released(p), Forsaken(p)}
  /\ work' \in [Hands -> Stand]
  /\ SoundStand(work'[p], made) /\ work'[p].pc \in {"idle", "failing"}
  /\ \A q \in Workers \ {p} : work'[q] = work[q]
  /\ \A x \in Strays : work'[x] = work[x] \/ (RunsOn(work[p]) /\ work'[x] = Alone(work[p]))

LEMMA FailedSound ==
  ASSUME WorkSound, NEW p \in Workers, made \in Nat
  PROVE /\ SoundStand(Idle, made) /\ Idle \in Stand /\ Idle.pc = "idle"
        /\ SoundStand(Failed(p), made) /\ Failed(p) \in Stand /\ Failed(p).pc \in {"idle", "failing"}
<1>1. SoundStand(Idle, made) /\ Idle.pc = "idle"
  BY DEF SoundStand, Stand, Steps, Listed, Idle, Stands, NoJob
<1> DEFINE w == [work[p] EXCEPT !.pc = "failing", !.todo = {}]
<1>2. SoundStand(w, made) /\ w.pc = "failing"
  BY DEF WorkSound, SoundStand, Stand, Steps, Listed
<1> QED
  BY <1>1, <1>2 DEF Failed, SoundStand

LEMMA Ended ==
  ASSUME StateSound, WorkSound, NEW p \in Workers, Cancel(p) \/ Crash(p)
  PROVE CutOff(p)
<1>1. /\ UNCHANGED <<clock, jobs, slots, tasks, birth, made, files, objects, archive>>
      /\ UNCHANGED <<stalled, sent, misplaced, restored>>
      /\ lease' \in {Released(p), Forsaken(p)}
  BY DEF Cancel, Crash, storage, history
<1>2. PICK w \in {Idle, Failed(p)} : Drop(p, w)
  BY DEF Cancel, Crash
<1>3. SoundStand(w, made) /\ w \in Stand /\ w.pc \in {"idle", "failing"}
  BY FailedSound, BackupAssumption DEF StateSound
<1> QED
  BY <1>1, <1>2, <1>3, Dropped DEF CutOff

\* Only x moves when a stray ends.
LEMMA Parted ==
  ASSUME WorkSound, NEW x \in Strays, work' = [work EXCEPT ![x] = Idle]
  PROVE /\ work'[x] = Idle /\ ~Held(work'[x])
        /\ \A q \in Hands \ {x} : work'[q] = work[q]
        /\ \A p \in Workers : work'[p] = work[p]
BY BackupAssumption DEF WorkSound, Held, Idle, Stands

\* Only one process moves at a time, but for what a cancelled one leaves.
LEMMA WorkMoves ==
  ASSUME StateSound, WorkSound, Next
  PROVE (\E p \in Hands : Moves(p)) \/ Moving
<1> USE BackupAssumption DEF StateSound, WorkSound, SoundStand, Stand, Steps, Listed, Whats, Times, Stands, At, Goto, Idle, Inside, Fault, database, storage, budget, history, NoJob
<1>1. ASSUME NEW p \in Workers, PollDump(p) PROVE Moves(p)
  <2> DEFINE w == Stands("claimed", "dump", clock, NoJob)
  <2>1. work' = [work EXCEPT ![p] = w]
    BY <1>1 DEF PollDump
  <2>2. SoundStand(w, made')
    BY <1>1 DEF PollDump
  <2> HIDE DEF w
  <2> QED
    BY <2>1, <2>2 DEF Moves
<1>2. ASSUME NEW p \in Workers, PollTask(p) PROVE Moves(p)
  <2>1. CASE work' = [work EXCEPT ![p] = Idle]
    <3> DEFINE w == Idle
    <3>1. work' = [work EXCEPT ![p] = w]
      BY <1>2, <2>1 DEF PollTask
    <3>2. SoundStand(w, made')
      BY <1>2, <2>1 DEF PollTask
    <3> HIDE DEF w
    <3> QED
      BY <3>1, <3>2 DEF Moves
  <2>2. CASE work' # [work EXCEPT ![p] = Idle]
    <3> DEFINE w == Stands("claimed", "maintain", IF At(p, "next") THEN work[p].at ELSE clock, NoJob)
    <3>1. work' = [work EXCEPT ![p] = w]
      BY <1>2, <2>2 DEF PollTask
    <3>2. SoundStand(w, made')
      BY <1>2, <2>2 DEF PollTask
    <3> HIDE DEF w
    <3> QED
      BY <3>1, <3>2 DEF Moves
  <2> QED
    BY <2>1, <2>2
<1>3. ASSUME NEW p \in Workers, FinishFailed(p) PROVE Moves(p)
  <2>1. CASE work[p].what = "dump"
    <3> DEFINE w == Stands("next", "none", work[p].at, NoJob)
    <3>1. work' = [work EXCEPT ![p] = w]
      BY <1>3, <2>1 DEF FinishFailed, FinishSlot, Onward
    <3>2. SoundStand(w, made')
      BY <1>3, <2>1 DEF FinishFailed, FinishSlot, Onward
    <3> HIDE DEF w
    <3> QED
      BY <3>1, <3>2 DEF Moves
  <2>2. CASE work[p].what # "dump"
    <3> DEFINE w == Idle
    <3>1. work' = [work EXCEPT ![p] = w]
      BY <1>3, <2>2 DEF FinishFailed, FinishSlot, Onward
    <3>2. SoundStand(w, made')
      BY <1>3, <2>2 DEF FinishFailed, FinishSlot, Onward
    <3> HIDE DEF w
    <3> QED
      BY <3>1, <3>2 DEF Moves
  <2> QED
    BY <2>1, <2>2
<1>4. ASSUME NEW p \in Workers, FinishDone(p) PROVE Moves(p)
  BY <1>4 DEF FinishDone, FinishSlot, Moves
<1>5. ASSUME NEW p \in Workers, AskRun(p) PROVE Moves(p)
  <2> DEFINE w == Stands("claimed", "run", clock, NoJob)
  <2>1. work' = [work EXCEPT ![p] = w]
    BY <1>5 DEF AskRun
  <2>2. SoundStand(w, made')
    BY <1>5 DEF AskRun
  <2> HIDE DEF w
  <2> QED
    BY <2>1, <2>2 DEF Moves
<1>6. ASSUME NEW p \in Workers, NEW j \in 1..made, AskRestore(p, j) PROVE Moves(p)
  <2> DEFINE w == Stands("claimed", "restore", clock, j)
  <2>1. work' = [work EXCEPT ![p] = w]
    BY <1>6 DEF AskRestore
  <2>2. SoundStand(w, made')
    BY <1>6 DEF AskRestore
  <2> HIDE DEF w
  <2> QED
    BY <2>1, <2>2 DEF Moves
<1>7. ASSUME NEW p \in Workers, CheckRestore(p) PROVE Moves(p)
  <2>1. CASE work' = [work EXCEPT ![p].pc = "restoring"]
    <3> DEFINE w == [work[p] EXCEPT !.pc = "restoring"]
    <3>1. work' = [work EXCEPT ![p] = w]
      BY <1>7, <2>1 DEF CheckRestore, Abandon
    <3>2. SoundStand(w, made')
      BY <1>7, <2>1 DEF CheckRestore, Abandon
    <3> HIDE DEF w
    <3> QED
      BY <3>1, <3>2 DEF Moves
  <2>2. CASE work' # [work EXCEPT ![p].pc = "restoring"]
    <3> DEFINE w == [work[p] EXCEPT !.pc = "erring", !.todo = {}]
    <3>1. work' = [work EXCEPT ![p] = w]
      BY <1>7, <2>2 DEF CheckRestore, Abandon
    <3>2. SoundStand(w, made')
      BY <1>7, <2>2 DEF CheckRestore, Abandon
    <3> HIDE DEF w
    <3> QED
      BY <3>1, <3>2 DEF Moves
  <2> QED
    BY <2>1, <2>2
<1>8. ASSUME NEW p \in Workers, Restore(p) PROVE Moves(p)
  BY <1>8 DEF Restore, Moves
<1>9. ASSUME NEW p \in Workers, Enter(p) PROVE Moves(p)
  <2>1. CASE ~(Locked(p) \/ Leased)
    <3> DEFINE w == [work[p] EXCEPT !.pc = Start(work[p].what)]
    <3>1. work' = [work EXCEPT ![p] = w]
      BY <1>9, <2>1 DEF Enter, Start
    <3>2. SoundStand(w, made')
      BY <1>9, <2>1 DEF Enter, Start
    <3> HIDE DEF w
    <3> QED
      BY <3>1, <3>2 DEF Moves
  <2>2. CASE (Locked(p) \/ Leased) /\ p \in Admins
    <3> DEFINE w == Idle
    <3>1. work' = [work EXCEPT ![p] = w]
      BY <1>9, <2>2 DEF Enter, Failed
    <3>2. SoundStand(w, made')
      BY <1>9, <2>2 DEF Enter, Start
    <3> HIDE DEF w
    <3> QED
      BY <3>1, <3>2 DEF Moves
  <2>3. CASE (Locked(p) \/ Leased) /\ p \notin Admins
    <3> DEFINE w == [work[p] EXCEPT !.pc = "failing", !.todo = {}]
    <3>1. work' = [work EXCEPT ![p] = w]
      BY <1>9, <2>3 DEF Enter, Failed
    <3>2. SoundStand(w, made')
      BY <1>9, <2>3 DEF Enter
    <3> HIDE DEF w
    <3> QED
      BY <3>1, <3>2 DEF Moves
  <2> QED
    BY <2>1, <2>2, <2>3
<1>10. ASSUME NEW p \in Workers, Leave(p) PROVE Moves(p)
  <2>1. CASE p \in Admins \/ (At(p, "leaving") /\ work[p].what # "dump")
    <3> DEFINE w == Idle
    <3>1. work' = [work EXCEPT ![p] = w]
      BY <1>10, <2>1 DEF Leave, Onward, Failed, Workers
    <3>2. SoundStand(w, made')
      BY <1>10, <2>1 DEF Leave, Onward, Failed, Workers
    <3> HIDE DEF w
    <3> QED
      BY <3>1, <3>2 DEF Moves
  <2>2. CASE p \notin Admins /\ At(p, "leaving") /\ work[p].what = "dump"
    <3> DEFINE w == Stands("next", "none", work[p].at, NoJob)
    <3>1. work' = [work EXCEPT ![p] = w]
      BY <1>10, <2>2 DEF Leave, Onward, Workers
    <3>2. SoundStand(w, made')
      BY <1>10, <2>2 DEF Leave, Onward, Workers
    <3> HIDE DEF w
    <3> QED
      BY <3>1, <3>2 DEF Moves
  <2>3. CASE p \notin Admins /\ ~At(p, "leaving")
    <3> DEFINE w == [work[p] EXCEPT !.pc = "failing", !.todo = {}]
    <3>1. work' = [work EXCEPT ![p] = w]
      BY <1>10, <2>3 DEF Leave, Failed
    <3>2. SoundStand(w, made')
      BY <1>10, <2>3 DEF Leave
    <3> HIDE DEF w
    <3> QED
      BY <3>1, <3>2 DEF Moves
  <2> QED
    BY <2>1, <2>2, <2>3
<1>11. ASSUME NEW p \in Workers, Cancel(p) \/ Crash(p) PROVE Moving
  <2>1. CutOff(p)
    BY <1>11, Ended
  <2>2. made' = made /\ work' \in [Hands -> Stand]
    BY <2>1 DEF CutOff
  <2>3. ASSUME NEW x \in Strays PROVE work'[x] = work[x] \/ SoundStand(work'[x], made')
    BY <2>1, <2>2, AloneSound DEF CutOff
  <2> QED
    BY <2>1, <2>2, <2>3 DEF CutOff, Moving
<1>13. ASSUME NEW p \in Workers, Look(p) PROVE Moves(p)
  <2>1. CASE Settled(SlotAt(work[p].at))
    <3> DEFINE w == [work[p] EXCEPT !.pc = "finishing"]
    <3>1. work' = [work EXCEPT ![p] = w]
      BY <1>13, <2>1 DEF Look, Abandon
    <3>2. SoundStand(w, made')
      BY <1>13, <2>1 DEF Look, Abandon
    <3> HIDE DEF w
    <3> QED
      BY <3>1, <3>2 DEF Moves
  <2>2. CASE ~Settled(SlotAt(work[p].at)) /\ JobsOf(SlotAt(work[p].at)) # {}
    <3> DEFINE w == [work[p] EXCEPT !.pc = "erring", !.todo = {}]
    <3>1. work' = [work EXCEPT ![p] = w]
      BY <1>13, <2>2 DEF Look, Abandon
    <3>2. SoundStand(w, made')
      BY <1>13, <2>2 DEF Look, Abandon
    <3> HIDE DEF w
    <3> QED
      BY <3>1, <3>2 DEF Moves
  <2>3. CASE ~Settled(SlotAt(work[p].at)) /\ JobsOf(SlotAt(work[p].at)) = {}
    <3> DEFINE w == [work[p] EXCEPT !.pc = "inserting"]
    <3>1. work' = [work EXCEPT ![p] = w]
      BY <1>13, <2>3 DEF Look, Abandon
    <3>2. SoundStand(w, made')
      BY <1>13, <2>3 DEF Look, Abandon
    <3> HIDE DEF w
    <3> QED
      BY <3>1, <3>2 DEF Moves
  <2> QED
    BY <2>1, <2>2, <2>3
<1>14. ASSUME NEW p \in Workers, InsertJob(p) PROVE Moves(p)
  <2>1. CASE made' = made + 1
    <3> DEFINE w == [work[p] EXCEPT !.pc = "dumping", !.job = made + 1]
    <3>1. work' = [work EXCEPT ![p] = w]
      BY <1>14, <2>1 DEF InsertJob, Abandon
    <3>2. SoundStand(w, made')
      BY <1>14, <2>1 DEF InsertJob, Abandon
    <3> HIDE DEF w
    <3> QED
      BY <3>1, <3>2 DEF Moves
  <2>2. CASE made' # made + 1
    <3> DEFINE w == [work[p] EXCEPT !.pc = "erring", !.todo = {}]
    <3>1. work' = [work EXCEPT ![p] = w]
      BY <1>14, <2>2 DEF InsertJob, Abandon
    <3>2. SoundStand(w, made')
      BY <1>14, <2>2 DEF InsertJob, Abandon
    <3> HIDE DEF w
    <3> QED
      BY <3>1, <3>2 DEF Moves
  <2> QED
    BY <2>1, <2>2
<1>15. ASSUME NEW p \in Workers, DumpDone(p) PROVE Moves(p)
  BY <1>15 DEF DumpDone, Moves
<1>16. ASSUME NEW p \in Workers, DumpFails(p) PROVE Moves(p)
  BY <1>16 DEF DumpFails, Abandon, Put, Moves
<1>17. ASSUME NEW p \in Workers, DumpRefused(p) PROVE Moves(p)
  BY <1>17 DEF DumpRefused, Abandon, Moves
<1>18. ASSUME NEW p \in Workers, ListUploads(p) PROVE Moves(p)
  <2> DEFINE S == {j \in 1..made : Waiting(j)}
             w == [work[p] EXCEPT !.pc = "uploading", !.todo = S]
  <2>1. S \in SUBSET Nat /\ S \subseteq 1..made'
    BY <1>18 DEF ListUploads
  <2>2. work' = [work EXCEPT ![p] = w]
    BY <1>18 DEF ListUploads
  <2> HIDE DEF S
  <2>3. SoundStand(w, made')
    BY <1>18, <2>1 DEF ListUploads
  <2> HIDE DEF w
  <2> QED
    BY <2>2, <2>3 DEF Moves
<1>19. ASSUME NEW p \in Workers, TakeUpload(p) PROVE Moves(p)
  <2>1. PICK j \in work[p].todo :
          IF OnDisk(p, j)
          THEN work' = [work EXCEPT ![p].pc = "sending", ![p].job = j, ![p].todo = @ \ {j}]
          ELSE work' = [work EXCEPT ![p].todo = @ \ {j}]
    BY <1>19 DEF TakeUpload
  <2>2. CASE OnDisk(p, j)
    <3> DEFINE w == [work[p] EXCEPT !.pc = "sending", !.job = j, !.todo = @ \ {j}]
    <3>1. work' = [work EXCEPT ![p] = w]
      BY <2>1, <2>2
    <3>2. made' = made /\ At(p, "uploading")
      BY <1>19 DEF TakeUpload
    <3>3. j \in 1..made /\ made \in Nat
      OBVIOUS
    <3>4. w \in Stand
      BY <3>3
    <3>5. w.job = j /\ w.pc = "sending" /\ w.todo = work[p].todo \ {j} /\ w.what = work[p].what
      OBVIOUS
    <3> HIDE DEF w
    <3>6. SoundStand(w, made')
      BY <3>2, <3>3, <3>4, <3>5
    <3> QED
      BY <3>1, <3>6 DEF Moves
  <2>3. CASE ~OnDisk(p, j)
    <3> DEFINE w == [work[p] EXCEPT !.todo = @ \ {j}]
    <3>1. work' = [work EXCEPT ![p] = w]
      BY <2>1, <2>3
    <3>2. SoundStand(w, made')
      BY <1>19, <2>1 DEF TakeUpload
    <3> HIDE DEF w
    <3> QED
      BY <3>1, <3>2 DEF Moves
  <2> QED
    BY <2>2, <2>3
<1>20. ASSUME NEW p \in Workers, Send(p) PROVE Moves(p)
  BY <1>20 DEF Send, Moves
<1>21. ASSUME NEW p \in Workers, MarkUploaded(p) PROVE Moves(p)
  BY <1>21 DEF MarkUploaded, Moves
<1>22. ASSUME NEW p \in Workers, SendFails(p) PROVE Moves(p)
  BY <1>22 DEF SendFails, Moves
<1>23. ASSUME NEW p \in Workers, ListLocal(p) PROVE Moves(p)
  <2> DEFINE S == KeptHere \ TopOf(KeptHere, Keep)
             w == [work[p] EXCEPT !.pc = "unlinking", !.todo = S]
  <2>1. S \in SUBSET Nat /\ S \subseteq 1..made'
    BY <1>23 DEF ListLocal, KeptHere
  <2>2. work' = [work EXCEPT ![p] = w]
    BY <1>23 DEF ListLocal
  <2> HIDE DEF S
  <2>3. SoundStand(w, made')
    BY <1>23, <2>1 DEF ListLocal
  <2> HIDE DEF w
  <2> QED
    BY <2>2, <2>3 DEF Moves
<1>24. ASSUME NEW p \in Workers, Unlink(p) PROVE Moves(p)
  <2>1. PICK j \in work[p].todo :
            work' = [work EXCEPT ![p].todo = @ \ {j}]
    BY <1>24 DEF Unlink
  <2> DEFINE w == [work[p] EXCEPT !.todo = @ \ {j}]
  <2>2. work' = [work EXCEPT ![p] = w]
    BY <2>1
  <2>3. SoundStand(w, made')
    BY <1>24, <2>1 DEF Unlink
  <2> HIDE DEF w
  <2> QED
    BY <2>2, <2>3 DEF Moves
<1>25. ASSUME NEW p \in Workers, ListPrune(p) PROVE Moves(p)
  <2> DEFINE S == Uploaded \ Retained
             w == [work[p] EXCEPT !.pc = "pruning", !.todo = S]
  <2>1. S \in SUBSET Nat /\ S \subseteq 1..made'
    BY <1>25 DEF ListPrune, Uploaded
  <2>2. work' = [work EXCEPT ![p] = w]
    BY <1>25 DEF ListPrune
  <2> HIDE DEF S
  <2>3. SoundStand(w, made')
    BY <1>25, <2>1 DEF ListPrune
  <2> HIDE DEF w
  <2> QED
    BY <2>2, <2>3 DEF Moves
<1>26. ASSUME NEW p \in Workers, DeleteObject(p) PROVE Moves(p)
  <2>1. PICK j \in work[p].todo :
            work' = [work EXCEPT ![p].pc = "deleted", ![p].job = j, ![p].todo = @ \ {j}]
    BY <1>26 DEF DeleteObject
  <2> DEFINE w == [work[p] EXCEPT !.pc = "deleted", !.job = j, !.todo = @ \ {j}]
  <2>2. work' = [work EXCEPT ![p] = w]
    BY <2>1
  <2>3. SoundStand(w, made')
    BY <1>26, <2>1 DEF DeleteObject
  <2> HIDE DEF w
  <2> QED
    BY <2>2, <2>3 DEF Moves
<1>27. ASSUME NEW p \in Workers, DeleteFails(p) PROVE Moves(p)
  BY <1>27 DEF DeleteFails, Abandon, Moves
<1>28. ASSUME NEW p \in Workers, MarkPruned(p) PROVE Moves(p)
  BY <1>28 DEF MarkPruned, Moves
<1>29. ASSUME NEW p \in Workers, Pruned(p) PROVE Moves(p)
  BY <1>29 DEF Pruned, Moves
<1>30. ASSUME NEW late \in SUBSET Workers, Tick(late) PROVE Moving
  BY <1>30 DEF Tick, Moving
<1>31. ASSUME NEW x \in Strays, Straying(x) PROVE Moves(x)
  <2> DEFINE w == Idle
  <2>1. work' = [work EXCEPT ![x] = w] /\ made' = made
    BY <1>31 DEF Straying, StrayDumps, StraySends, StrayDeletes, StrayRestores, StrayStops
  <2>2. SoundStand(w, made')
    BY <2>1
  <2> HIDE DEF w
  <2> QED
    BY <2>1, <2>2 DEF Moves
<1> QED
  BY <1>1, <1>2, <1>3, <1>4, <1>5, <1>6, <1>7, <1>8, <1>9, <1>10, <1>11, <1>13, <1>14, <1>15, <1>16, <1>17, <1>18, <1>19, <1>20, <1>21, <1>22, <1>23, <1>24, <1>25, <1>26, <1>27, <1>28, <1>29, <1>30, <1>31
  DEF Next, Workers, Scheduling, Dumping, Uploading, Pruning, Asking, Straying

\* The jobs a process has in hand were begun.
LEMMA InHand ==
  ASSUME StateSound, WorkSound, NEW p \in Hands
  PROVE /\ 1..made \subseteq JobIds /\ work[p].todo \subseteq JobIds
        /\ work[p].pc \in {"dumping", "sending", "sent", "deleted"} =>
             work[p].job \in JobIds /\ work[p].job \in 1..made
<1>1. 1..made \subseteq JobIds
  BY BackupAssumption DEF StateSound, JobIds
<1> QED
  BY <1>1 DEF WorkSound, SoundStand

LEMMA LeaseTyped ==
  ASSUME clock \in Nat, lease \in Lent, NEW p \in Workers
  PROVE /\ Released(p) \in Lent /\ Forsaken(p) \in Lent /\ [owner |-> p, until |-> clock + Lease] \in Lent
        /\ [lease EXCEPT !.owner = Nobody] \in Lent
  BY BackupAssumption DEF Lent, Released, Forsaken

\* The archive that a process reads from is a sound one.
LEMMA HeldSound ==
  ASSUME StateSound, ArchivesSound, NEW p \in Hands, Held(work[p])
  PROVE work[p].job \in JobIds /\ SoundArchive(work[p].job)
<1>1. work[p].job \in JobIds
  BY BackupAssumption DEF StateSound, ArchivesSound, JobIds
<1> QED
  BY <1>1 DEF ArchivesSound, InUse

LEMMA RenewalTyped ==
  ASSUME clock \in Nat, lease \in Lent
  PROVE [lease EXCEPT !.until = clock + 1 + Lease] \in Lent
  BY BackupAssumption DEF Lent

\* The shape of the state is kept, and it grows.
LEMMA StateStep ==
  ASSUME StateSound, WorkSound, ArchivesSound, Next
  PROVE StateSound' /\ Grows
<1> USE BackupAssumption DEF StateSound, Lent, Times, JobIds, Grows, At, Goto, Inside, Fault, database, storage, budget, history
<1>1. ASSUME NEW p \in Workers, PollDump(p) PROVE StateSound' /\ Grows
  <2>1. UNCHANGED <<clock, storage, lease, restored>>
    BY <1>1 DEF PollDump
  <2> QED
    BY <2>1
<1>2. ASSUME NEW p \in Workers, PollTask(p) PROVE StateSound' /\ Grows
  <2>1. UNCHANGED <<clock, storage, lease, restored>>
    BY <1>2 DEF PollTask
  <2> QED
    BY <2>1
<1>3. ASSUME NEW p \in Workers, FinishFailed(p) PROVE StateSound' /\ Grows
  <2>1. UNCHANGED <<clock, storage, lease, restored>>
    BY <1>3 DEF FinishFailed
  <2> QED
    BY <2>1
<1>4. ASSUME NEW p \in Workers, FinishDone(p) PROVE StateSound' /\ Grows
  <2>1. UNCHANGED <<clock, storage, lease, restored>>
    BY <1>4 DEF FinishDone
  <2> QED
    BY <2>1
<1>5. ASSUME NEW p \in Workers, AskRun(p) PROVE StateSound' /\ Grows
  <2>1. UNCHANGED <<clock, storage, lease, restored>>
    BY <1>5 DEF AskRun
  <2> QED
    BY <2>1
<1>6. ASSUME NEW p \in Workers, NEW j \in 1..made, AskRestore(p, j) PROVE StateSound' /\ Grows
  <2>1. UNCHANGED <<clock, storage, lease, restored>>
    BY <1>6 DEF AskRestore
  <2> QED
    BY <2>1
<1>7. ASSUME NEW p \in Workers, CheckRestore(p) PROVE StateSound' /\ Grows
  <2>1. UNCHANGED <<clock, storage, lease, restored>>
    BY <1>7 DEF CheckRestore
  <2> QED
    BY <2>1
<1>8. ASSUME NEW p \in Workers, Restore(p) PROVE StateSound' /\ Grows
  <2>1. UNCHANGED <<clock, storage>> /\ restored' = TRUE /\ Held(work[p])
    BY <1>8 DEF Restore, Replace, Held
  <2>2. lease' \in Lent
    BY <1>8, <2>1, HeldSound DEF Restore, Replace, SoundArchive
  <2> QED
    BY <2>1, <2>2
<1>9. ASSUME NEW p \in Workers, Enter(p) PROVE StateSound' /\ Grows
  <2>1. UNCHANGED <<clock, storage, restored>> /\ lease' \in {lease, [owner |-> p, until |-> clock + Lease]}
    BY <1>9 DEF Enter
  <2>2. lease' \in Lent
    BY <2>1, LeaseTyped
  <2> QED
    BY <2>1, <2>2
<1>10. ASSUME NEW p \in Workers, Leave(p) PROVE StateSound' /\ Grows
  <2>1. lease' \in Lent /\ UNCHANGED <<clock, storage, restored>>
    BY <1>10, LeaseTyped DEF Leave
  <2> QED
    BY <2>1
<1>11. ASSUME NEW p \in Workers, Cancel(p) \/ Crash(p) PROVE StateSound' /\ Grows
  <2>1. lease' \in Lent /\ UNCHANGED <<clock, storage, restored>>
    BY <1>11, Ended, LeaseTyped DEF CutOff
  <2> QED
    BY <2>1
<1>13. ASSUME NEW p \in Workers, Look(p) PROVE StateSound' /\ Grows
  <2>1. UNCHANGED <<clock, storage, lease, restored>>
    BY <1>13 DEF Look
  <2> QED
    BY <2>1
<1>14. ASSUME NEW p \in Workers, InsertJob(p) PROVE StateSound' /\ Grows
  <2>1. /\ made' \in {made, made + 1} /\ made' \in 0..MaxJobs
        /\ DOMAIN birth' = JobIds /\ \A j \in 1..made : birth'[j] = birth[j]
    BY <1>14 DEF InsertJob
  <2>2. UNCHANGED <<clock, files, objects, archive, lease, restored>>
    BY <1>14 DEF InsertJob
  <2> QED
    BY <2>1, <2>2
<1>15. ASSUME NEW p \in Workers, DumpDone(p) PROVE StateSound' /\ Grows
  <2>1. /\ UNCHANGED <<clock, made, birth, objects, lease, restored>>
        /\ files' = files \cup {work[p].job} /\ DOMAIN archive' = DOMAIN archive
    BY <1>15 DEF DumpDone
  <2>2. work[p].job \in 1..made
    BY <1>15, InHand DEF DumpDone
  <2>3. files' \subseteq 1..made
    BY <2>1, <2>2
  <2> QED
    BY <2>1, <2>3
<1>16. ASSUME NEW p \in Workers, DumpFails(p) PROVE StateSound' /\ Grows
  <2>1. UNCHANGED <<clock, storage, lease, restored>>
    BY <1>16 DEF DumpFails
  <2> QED
    BY <2>1
<1>17. ASSUME NEW p \in Workers, DumpRefused(p) PROVE StateSound' /\ Grows
  <2>1. UNCHANGED <<clock, storage, lease, restored>>
    BY <1>17 DEF DumpRefused
  <2> QED
    BY <2>1
<1>18. ASSUME NEW p \in Workers, ListUploads(p) PROVE StateSound' /\ Grows
  <2>1. UNCHANGED <<clock, storage, lease, restored>>
    BY <1>18 DEF ListUploads
  <2> QED
    BY <2>1
<1>19. ASSUME NEW p \in Workers, TakeUpload(p) PROVE StateSound' /\ Grows
  <2>1. UNCHANGED <<clock, storage, lease, restored>>
    BY <1>19 DEF TakeUpload
  <2> QED
    BY <2>1
<1>20. ASSUME NEW p \in Workers, Send(p) PROVE StateSound' /\ Grows
  <2>1. /\ UNCHANGED <<clock, made, birth, files, archive, lease, restored>>
        /\ objects' = objects \cup {work[p].job}
    BY <1>20 DEF Send
  <2>2. work[p].job \in 1..made
    BY <1>20, InHand DEF Send
  <2>3. objects' \subseteq 1..made
    BY <2>1, <2>2
  <2> QED
    BY <2>1, <2>3
<1>21. ASSUME NEW p \in Workers, MarkUploaded(p) PROVE StateSound' /\ Grows
  <2>1. UNCHANGED <<clock, storage, lease, restored>>
    BY <1>21 DEF MarkUploaded
  <2> QED
    BY <2>1
<1>22. ASSUME NEW p \in Workers, SendFails(p) PROVE StateSound' /\ Grows
  <2>1. UNCHANGED <<clock, storage, lease, restored>>
    BY <1>22 DEF SendFails
  <2> QED
    BY <2>1
<1>23. ASSUME NEW p \in Workers, ListLocal(p) PROVE StateSound' /\ Grows
  <2>1. UNCHANGED <<clock, storage, lease, restored>>
    BY <1>23 DEF ListLocal
  <2> QED
    BY <2>1
<1>24. ASSUME NEW p \in Workers, Unlink(p) PROVE StateSound' /\ Grows
  <2>1. files' \subseteq files /\ UNCHANGED <<clock, made, birth, objects, archive, lease, restored>>
    BY <1>24 DEF Unlink
  <2> QED
    BY <2>1
<1>25. ASSUME NEW p \in Workers, ListPrune(p) PROVE StateSound' /\ Grows
  <2>1. UNCHANGED <<clock, storage, lease, restored>>
    BY <1>25 DEF ListPrune
  <2> QED
    BY <2>1
<1>26. ASSUME NEW p \in Workers, DeleteObject(p) PROVE StateSound' /\ Grows
  <2>1. objects' \subseteq objects /\ UNCHANGED <<clock, made, birth, files, archive, lease, restored>>
    BY <1>26 DEF DeleteObject
  <2> QED
    BY <2>1
<1>27. ASSUME NEW p \in Workers, DeleteFails(p) PROVE StateSound' /\ Grows
  <2>1. UNCHANGED <<clock, storage, lease, restored>>
    BY <1>27 DEF DeleteFails
  <2> QED
    BY <2>1
<1>28. ASSUME NEW p \in Workers, MarkPruned(p) PROVE StateSound' /\ Grows
  <2>1. UNCHANGED <<clock, storage, lease, restored>>
    BY <1>28 DEF MarkPruned
  <2> QED
    BY <2>1
<1>29. ASSUME NEW p \in Workers, Pruned(p) PROVE StateSound' /\ Grows
  <2>1. UNCHANGED <<clock, storage, lease, restored>>
    BY <1>29 DEF Pruned
  <2> QED
    BY <2>1
<1>30. ASSUME NEW late \in SUBSET Workers, Tick(late) PROVE StateSound' /\ Grows
  <2>1. lease' \in Lent
    BY <1>30, RenewalTyped DEF Tick
  <2> QED
    BY <1>30, <2>1 DEF Tick
<1>31. ASSUME NEW x \in Strays, StrayDumps(x) PROVE StateSound' /\ Grows
  <2>1. /\ UNCHANGED <<clock, made, birth, objects, lease, restored>>
        /\ files' = files \cup {work[x].job} /\ DOMAIN archive' = DOMAIN archive
    BY <1>31 DEF StrayDumps
  <2>2. work[x].job \in 1..made
    BY <1>31, InHand DEF StrayDumps
  <2>3. files' \subseteq 1..made
    BY <2>1, <2>2
  <2> QED
    BY <2>1, <2>3
<1>32. ASSUME NEW x \in Strays, StraySends(x) PROVE StateSound' /\ Grows
  <2>1. UNCHANGED <<clock, made, birth, files, archive, lease, restored>> /\ objects' = objects \cup {work[x].job}
    BY <1>32 DEF StraySends
  <2>2. work[x].job \in 1..made
    BY <1>32, InHand DEF StraySends
  <2>3. objects' \subseteq 1..made
    BY <2>1, <2>2
  <2> QED
    BY <2>1, <2>3
<1>33. ASSUME NEW x \in Strays, StrayDeletes(x) PROVE StateSound' /\ Grows
  <2>1. objects' \subseteq objects /\ UNCHANGED <<clock, made, birth, files, archive, lease, restored>>
    BY <1>33 DEF StrayDeletes
  <2> QED
    BY <2>1
<1>34. ASSUME NEW x \in Strays, StrayRestores(x) PROVE StateSound' /\ Grows
  <2>1. UNCHANGED <<clock, storage>> /\ restored' = TRUE /\ Held(work[x])
    BY <1>34 DEF StrayRestores, Replace, Held
  <2>2. lease' \in Lent
    BY <1>34, <2>1, HeldSound DEF StrayRestores, Replace, SoundArchive
  <2> QED
    BY <2>1, <2>2
<1>35. ASSUME NEW x \in Strays, StrayStops(x) PROVE StateSound' /\ Grows
  <2>1. UNCHANGED <<clock, storage, lease, restored>>
    BY <1>35 DEF StrayStops
  <2> QED
    BY <2>1
<1> QED
  BY <1>1, <1>2, <1>3, <1>4, <1>5, <1>6, <1>7, <1>8, <1>9, <1>10, <1>11, <1>13, <1>14, <1>15, <1>16, <1>17, <1>18, <1>19, <1>20, <1>21, <1>22, <1>23, <1>24, <1>25, <1>26, <1>27, <1>28, <1>29, <1>30, <1>31, <1>32, <1>33, <1>34, <1>35
  DEF Next, Workers, Scheduling, Dumping, Uploading, Pruning, Asking, Straying

LEMMA WorkStep ==
  ASSUME StateSound, WorkSound, Next, made' \in Nat, made <= made'
  PROVE WorkSound'
<1>1. made \in Nat
  BY BackupAssumption DEF StateSound
<1>2. ASSUME NEW q \in Hands, SoundStand(work[q], made) PROVE SoundStand(work[q], made')
  BY <1>1, <1>2 DEF SoundStand, Stand
<1>3. CASE \E p \in Hands : Moves(p)
  <2>1. PICK p \in Hands : Moves(p)
    BY <1>3
  <2>2. work' \in [Hands -> Stand]
    BY <2>1 DEF Moves, WorkSound, SoundStand
  <2>3. ASSUME NEW q \in Hands PROVE SoundStand(work'[q], made')
    <3>1. CASE q = p
      BY <2>1, <3>1 DEF Moves
    <3>2. CASE q # p
      <4>1. work'[q] = work[q]
        BY <2>1, <3>2 DEF Moves, WorkSound
      <4> QED
        BY <4>1, <1>2 DEF WorkSound
    <3> QED
      BY <3>1, <3>2
  <2> QED
    BY <2>2, <2>3 DEF WorkSound
<1>4. CASE Moving
  BY <1>2, <1>4 DEF Moving, WorkSound
<1> QED
  BY <1>3, <1>4, WorkMoves

\* A status written to one job leaves the jobs sound.
LEMMA PutSound ==
  ASSUME StateSound, SoundJobs(jobs), NEW j \in JobIds, NEW s \in JobStatus, s # "none"
  PROVE SoundJobs(Put(j, s))
<1>1. CASE ~Present(j)
  BY <1>1 DEF Put
<1>2. CASE Present(j)
  <2> DEFINE new == Put(j, s)
  <2>1. clock \in Nat
    BY BackupAssumption DEF StateSound, Times
  <2>2. new \in [JobIds -> Job]
    BY <1>2, <2>1 DEF Put, SoundJobs, Job
  <2>3. \A k \in JobIds : new[k].since <= clock /\ (new[k].status # "none" => jobs[k].status # "none")
    BY <1>2, <2>1 DEF Put, SoundJobs, Job, Present
  <2> HIDE DEF new
  <2>4. SoundJobs(new)
    BY <2>2, <2>3 DEF SoundJobs
  <2> QED
    BY <2>4 DEF new
<1> QED
  BY <1>1, <1>2

LEMMA FlagSound ==
  ASSUME StateSound, SoundJobs(jobs), NEW j \in JobIds, Present(j)
  PROVE /\ SoundJobs([jobs EXCEPT ![j] = [status |-> "uploaded", since |-> 0, here |-> TRUE]])
        /\ SoundJobs([jobs EXCEPT ![j].here = FALSE])
<1>1. clock \in Nat
  BY BackupAssumption DEF StateSound, Times
<1>2. ASSUME NEW new \in [JobIds -> Job], NEW r \in Job, new = [jobs EXCEPT ![j] = r], r.since <= clock
      PROVE SoundJobs(new)
  BY <1>2 DEF SoundJobs, Job, Present
<1>3. [status |-> "uploaded", since |-> 0, here |-> TRUE] \in Job
  BY DEF Job, JobStatus, Successful, Unsent
<1>4. [jobs[j] EXCEPT !.here = FALSE] \in Job /\ [jobs[j] EXCEPT !.here = FALSE].since <= clock
  BY DEF SoundJobs, Job
<1>5. [jobs EXCEPT ![j].here = FALSE] = [jobs EXCEPT ![j] = [jobs[j] EXCEPT !.here = FALSE]]
  OBVIOUS
<1>6. \A r \in Job : [jobs EXCEPT ![j] = r] \in [JobIds -> Job]
  BY DEF SoundJobs
<1>7. ASSUME NEW r \in Job, r.since <= clock PROVE SoundJobs([jobs EXCEPT ![j] = r])
  BY <1>2, <1>6, <1>7
<1>8. SoundJobs([jobs EXCEPT ![j] = [status |-> "uploaded", since |-> 0, here |-> TRUE]])
  <2> DEFINE r == [status |-> "uploaded", since |-> 0, here |-> TRUE]
  <2>1. r \in Job /\ r.since <= clock
    BY <1>1, <1>3
  <2> HIDE DEF r
  <2>2. SoundJobs([jobs EXCEPT ![j] = r])
    BY <2>1, <1>7
  <2> QED
    BY <2>2 DEF r
<1>9. SoundJobs([jobs EXCEPT ![j] = [jobs[j] EXCEPT !.here = FALSE]])
  BY <1>4, <1>7
<1> QED
  BY <1>5, <1>8, <1>9

\* backup_jobs stays sound: the index lets no second dump of a slot in.
LEMMA JobsStep ==
  ASSUME StateSound, WorkSound, ArchivesSound, SoundJobs(jobs), Next
  PROVE SoundJobs(jobs)'
<1>1. ASSUME NEW p \in Workers, PollDump(p) PROVE SoundJobs(jobs)'
  <2> UNCHANGED <<clock, jobs, made, birth>>
    BY <1>1 DEF PollDump, database, storage
  <2> QED
    BY DEF SoundJobs
<1>2. ASSUME NEW p \in Workers, PollTask(p) PROVE SoundJobs(jobs)'
  <2> UNCHANGED <<clock, jobs, made, birth>>
    BY <1>2 DEF PollTask, database, storage
  <2> QED
    BY DEF SoundJobs
<1>3. ASSUME NEW p \in Workers, FinishFailed(p) PROVE SoundJobs(jobs)'
  <2> UNCHANGED <<clock, jobs, made, birth>>
    BY <1>3 DEF FinishFailed, database, storage
  <2> QED
    BY DEF SoundJobs
<1>4. ASSUME NEW p \in Workers, FinishDone(p) PROVE SoundJobs(jobs)'
  <2> UNCHANGED <<clock, jobs, made, birth>>
    BY <1>4 DEF FinishDone, database, storage
  <2> QED
    BY DEF SoundJobs
<1>5. ASSUME NEW p \in Workers, AskRun(p) PROVE SoundJobs(jobs)'
  <2> UNCHANGED <<clock, jobs, made, birth>>
    BY <1>5 DEF AskRun, database, storage
  <2> QED
    BY DEF SoundJobs
<1>6. ASSUME NEW p \in Workers, NEW j \in 1..made, AskRestore(p, j) PROVE SoundJobs(jobs)'
  <2> UNCHANGED <<clock, jobs, made, birth>>
    BY <1>6 DEF AskRestore, database, storage
  <2> QED
    BY DEF SoundJobs
<1>7. ASSUME NEW p \in Workers, CheckRestore(p) PROVE SoundJobs(jobs)'
  <2> UNCHANGED <<clock, jobs, made, birth>>
    BY <1>7 DEF CheckRestore, database, storage
  <2> QED
    BY DEF SoundJobs
<1>8. ASSUME NEW p \in Workers, Restore(p) PROVE SoundJobs(jobs)'
  <2>1. jobs' = archive[work[p].job].jobs /\ UNCHANGED <<clock, made, birth>>
    BY <1>8 DEF Restore, Replace, storage
  <2>2. SoundJobs(archive[work[p].job].jobs)
    BY <1>8, HeldSound DEF Restore, At, Held, SoundArchive
  <2> QED
    BY <2>1, <2>2 DEF SoundJobs
<1>9. ASSUME NEW p \in Workers, Enter(p) PROVE SoundJobs(jobs)'
  <2> UNCHANGED <<clock, jobs, made, birth>>
    BY <1>9 DEF Enter, database, storage
  <2> QED
    BY DEF SoundJobs
<1>10. ASSUME NEW p \in Workers, Leave(p) PROVE SoundJobs(jobs)'
  <2> UNCHANGED <<clock, jobs, made, birth>>
    BY <1>10 DEF Leave, database, storage
  <2> QED
    BY DEF SoundJobs
<1>11. ASSUME NEW p \in Workers, Cancel(p) \/ Crash(p) PROVE SoundJobs(jobs)'
  <2> UNCHANGED <<clock, jobs, made, birth>>
    BY <1>11 DEF Cancel, Crash, storage
  <2> QED
    BY DEF SoundJobs
<1>13. ASSUME NEW p \in Workers, Look(p) PROVE SoundJobs(jobs)'
  <2> UNCHANGED <<clock, jobs, made, birth>>
    BY <1>13 DEF Look, database, storage
  <2> QED
    BY DEF SoundJobs
<1>14. ASSUME NEW p \in Workers, InsertJob(p) PROVE SoundJobs(jobs)'
  <2> DEFINE s == IF work[p].what = "run" THEN Asked ELSE SlotAt(work[p].at)
             j == made + 1
             r == [status |-> "dumping", since |-> 0, here |-> FALSE]
  <2>1. CASE Free(s)
    <3>1. /\ jobs' = [jobs EXCEPT ![j] = r]
          /\ birth' = [birth EXCEPT ![j] = [slot |-> s, host |-> HostOf(p)]]
          /\ made' = j /\ clock' = clock
      BY <1>14, <2>1 DEF InsertJob
    <3>2. j \in JobIds
      BY <1>14, BackupAssumption DEF InsertJob, StateSound, JobIds
    <3>3. r \in Job /\ clock \in Nat /\ made \in Nat
      BY BackupAssumption DEF Job, JobStatus, StateSound, Times
    <3>4. jobs' \in [JobIds -> Job]
      BY <3>1, <3>2, <3>3 DEF SoundJobs
    <3>5. \A k \in JobIds : k # j => jobs'[k] = jobs[k] /\ birth'[k] = birth[k]
      BY <3>1, <3>2 DEF SoundJobs, StateSound
    <3>6. jobs'[j] = r /\ birth'[j].slot = s
      BY <3>1, <3>2 DEF SoundJobs, StateSound
    <3>7. \A k \in JobIds : jobs'[k].since <= clock'
      BY <3>1, <3>3, <3>5, <3>6 DEF SoundJobs
    <3>8. \A k \in JobIds : jobs'[k].status # "none" => k <= made'
      BY <3>1, <3>3, <3>5, <3>6 DEF SoundJobs, JobIds
    <3>9. \A k \in JobIds : k # j /\ jobs[k].status # "none" /\ birth[k].slot = s => s = Asked
      BY <2>1 DEF Free, JobsOf, Present, SoundJobs, JobIds
    <3> HIDE DEF s
    <3> QED
      BY <3>1, <3>4, <3>5, <3>6, <3>7, <3>8, <3>9 DEF SoundJobs
  <2>2. CASE ~Free(s)
    <3> UNCHANGED <<clock, jobs, made, birth>>
      BY <1>14, <2>2 DEF InsertJob
    <3> QED
      BY DEF SoundJobs
  <2> QED
    BY <2>1, <2>2
<1>15. ASSUME NEW p \in Workers, DumpDone(p) PROVE SoundJobs(jobs)'
  <2>1. work[p].job \in JobIds
    BY <1>15, InHand DEF DumpDone, At
  <2>2. UNCHANGED <<clock, made, birth>>
    BY <1>15 DEF DumpDone, storage
  <2>3. jobs' = Put(work[p].job, "pending_upload")
    BY <1>15 DEF DumpDone
  <2>4. SoundJobs(Put(work[p].job, "pending_upload"))
    BY <2>1, PutSound DEF JobStatus, Successful, Unsent
  <2> QED
    BY <2>2, <2>3, <2>4 DEF SoundJobs
<1>16. ASSUME NEW p \in Workers, DumpFails(p) PROVE SoundJobs(jobs)'
  <2>1. work[p].job \in JobIds
    BY <1>16, InHand DEF DumpFails, At
  <2>2. UNCHANGED <<clock, made, birth>>
    BY <1>16 DEF DumpFails, storage
  <2>3. jobs' = Put(work[p].job, "failed")
    BY <1>16 DEF DumpFails
  <2>4. SoundJobs(Put(work[p].job, "failed"))
    BY <2>1, PutSound DEF JobStatus, Successful, Unsent
  <2> QED
    BY <2>2, <2>3, <2>4 DEF SoundJobs
<1>17. ASSUME NEW p \in Workers, DumpRefused(p) PROVE SoundJobs(jobs)'
  <2> UNCHANGED <<clock, jobs, made, birth>>
    BY <1>17 DEF DumpRefused, database, storage
  <2> QED
    BY DEF SoundJobs
<1>18. ASSUME NEW p \in Workers, ListUploads(p) PROVE SoundJobs(jobs)'
  <2> UNCHANGED <<clock, jobs, made, birth>>
    BY <1>18 DEF ListUploads, database, storage
  <2> QED
    BY DEF SoundJobs
<1>19. ASSUME NEW p \in Workers, TakeUpload(p) PROVE SoundJobs(jobs)'
  <2>1. PICK j \in work[p].todo : jobs' \in {Put(j, "uploading"), Put(j, "failed")}
    BY <1>19 DEF TakeUpload
  <2>2. j \in JobIds
    BY InHand
  <2>3. UNCHANGED <<clock, made, birth>>
    BY <1>19 DEF TakeUpload, storage
  <2>4. SoundJobs(Put(j, "uploading"))
    BY <2>2, PutSound DEF JobStatus, Successful, Unsent
  <2>5. SoundJobs(Put(j, "failed"))
    BY <2>2, PutSound DEF JobStatus
  <2> QED
    BY <2>1, <2>3, <2>4, <2>5 DEF SoundJobs
<1>20. ASSUME NEW p \in Workers, Send(p) PROVE SoundJobs(jobs)'
  <2> UNCHANGED <<clock, jobs, made, birth>>
    BY <1>20 DEF Send, database, storage
  <2> QED
    BY DEF SoundJobs
<1>21. ASSUME NEW p \in Workers, MarkUploaded(p) PROVE SoundJobs(jobs)'
  <2> DEFINE j == work[p].job
  <2>1. j \in JobIds
    BY <1>21, InHand DEF MarkUploaded, Verified
  <2>4. UNCHANGED <<clock, made, birth>>
    BY <1>21 DEF MarkUploaded, storage
  <2>2. CASE Present(j)
    <3>1. jobs' = [jobs EXCEPT ![j] = [status |-> "uploaded", since |-> 0, here |-> TRUE]]
      BY <1>21, <2>2 DEF MarkUploaded
    <3>2. SoundJobs(jobs')
      BY <2>1, <2>2, <3>1, FlagSound
    <3> QED
      BY <2>4, <3>2 DEF SoundJobs
  <2>3. CASE ~Present(j)
    <3>1. jobs' = jobs
      BY <1>21, <2>3 DEF MarkUploaded
    <3> QED
      BY <2>4, <3>1 DEF SoundJobs
  <2> QED
    BY <2>2, <2>3
<1>22. ASSUME NEW p \in Workers, SendFails(p) PROVE SoundJobs(jobs)'
  <2>1. work[p].job \in JobIds
    BY <1>22, InHand DEF SendFails, At
  <2>2. UNCHANGED <<clock, made, birth>>
    BY <1>22 DEF SendFails, storage
  <2>3. jobs' = Put(work[p].job, "upload_failed")
    BY <1>22 DEF SendFails
  <2>4. SoundJobs(Put(work[p].job, "upload_failed"))
    BY <2>1, PutSound DEF JobStatus, Successful, Unsent
  <2> QED
    BY <2>2, <2>3, <2>4 DEF SoundJobs
<1>23. ASSUME NEW p \in Workers, ListLocal(p) PROVE SoundJobs(jobs)'
  <2> UNCHANGED <<clock, jobs, made, birth>>
    BY <1>23 DEF ListLocal, database, storage
  <2> QED
    BY DEF SoundJobs
<1>24. ASSUME NEW p \in Workers, Unlink(p) PROVE SoundJobs(jobs)'
  <2>1. PICK j \in work[p].todo : jobs' = IF Present(j) THEN [jobs EXCEPT ![j].here = FALSE] ELSE jobs
    BY <1>24 DEF Unlink
  <2>2. j \in JobIds
    BY InHand
  <2>3. UNCHANGED <<clock, made, birth>>
    BY <1>24 DEF Unlink
  <2>4. SoundJobs(jobs')
    BY <2>1, <2>2, FlagSound
  <2> QED
    BY <2>3, <2>4 DEF SoundJobs
<1>25. ASSUME NEW p \in Workers, ListPrune(p) PROVE SoundJobs(jobs)'
  <2> UNCHANGED <<clock, jobs, made, birth>>
    BY <1>25 DEF ListPrune, database, storage
  <2> QED
    BY DEF SoundJobs
<1>26. ASSUME NEW p \in Workers, DeleteObject(p) PROVE SoundJobs(jobs)'
  <2> UNCHANGED <<clock, jobs, made, birth>>
    BY <1>26 DEF DeleteObject, database, storage
  <2> QED
    BY DEF SoundJobs
<1>27. ASSUME NEW p \in Workers, DeleteFails(p) PROVE SoundJobs(jobs)'
  <2> UNCHANGED <<clock, jobs, made, birth>>
    BY <1>27 DEF DeleteFails, database, storage
  <2> QED
    BY DEF SoundJobs
<1>28. ASSUME NEW p \in Workers, MarkPruned(p) PROVE SoundJobs(jobs)'
  <2>1. work[p].job \in JobIds
    BY <1>28, InHand DEF MarkPruned, At
  <2>2. UNCHANGED <<clock, made, birth>>
    BY <1>28 DEF MarkPruned, storage
  <2>3. jobs' = Put(work[p].job, "pruned")
    BY <1>28 DEF MarkPruned
  <2>4. SoundJobs(Put(work[p].job, "pruned"))
    BY <2>1, PutSound DEF JobStatus, Successful, Unsent
  <2> QED
    BY <2>2, <2>3, <2>4 DEF SoundJobs
<1>29. ASSUME NEW p \in Workers, Pruned(p) PROVE SoundJobs(jobs)'
  <2> UNCHANGED <<clock, jobs, made, birth>>
    BY <1>29 DEF Pruned, database, storage
  <2> QED
    BY DEF SoundJobs
<1>30. ASSUME NEW late \in SUBSET Workers, Tick(late) PROVE SoundJobs(jobs)'
  <2>1. clock' = clock + 1 /\ UNCHANGED <<jobs, made, birth>> /\ clock \in Nat
    BY <1>30, BackupAssumption DEF Tick, storage, StateSound, Times
  <2> QED
    BY <2>1 DEF SoundJobs, Job
<1>31. ASSUME NEW x \in Strays, StrayDumps(x) \/ StraySends(x) \/ StrayDeletes(x) \/ StrayStops(x)
       PROVE SoundJobs(jobs)'
  <2> UNCHANGED <<clock, jobs, made, birth>>
    BY <1>31 DEF StrayDumps, StraySends, StrayDeletes, StrayStops, database, storage
  <2> QED
    BY DEF SoundJobs
<1>34. ASSUME NEW x \in Strays, StrayRestores(x) PROVE SoundJobs(jobs)'
  <2>1. jobs' = archive[work[x].job].jobs /\ UNCHANGED <<clock, made, birth>>
    BY <1>34 DEF StrayRestores, Replace, storage
  <2>2. SoundJobs(archive[work[x].job].jobs)
    BY <1>34, HeldSound DEF StrayRestores, At, Held, SoundArchive
  <2> QED
    BY <2>1, <2>2 DEF SoundJobs
<1> QED
  BY <1>1, <1>2, <1>3, <1>4, <1>5, <1>6, <1>7, <1>8, <1>9, <1>10, <1>11, <1>13, <1>14, <1>15, <1>16, <1>17, <1>18, <1>19, <1>20, <1>21, <1>22, <1>23, <1>24, <1>25, <1>26, <1>27, <1>28, <1>29, <1>30, <1>31, <1>34
  DEF Next, Workers, Scheduling, Dumping, Uploading, Pruning, Asking, Straying


\* p takes up no other archive, and none is written.
Keeps(p) ==
  /\ archive' = archive /\ files' \subseteq files /\ objects' \subseteq objects
  /\ \A q \in Hands : Held(work'[q]) => Held(work[q]) /\ work'[q].job = work[q].job

\* An archive that is not written again stays sound while the state grows.
LEMMA ArchiveKept ==
  ASSUME StateSound, Grows, made' \in Nat, clock' \in Nat,
         NEW j, SoundArchive(j), archive'[j] = archive[j]
  PROVE SoundArchive(j)'
<1>1. clock \in Nat /\ made \in Nat
  BY BackupAssumption DEF StateSound, Times
<1>2. ASSUME NEW js, SoundJobs(js) PROVE SoundJobs(js)'
  <2>1. \A k \in JobIds : js[k].status # "none" => birth'[k] = birth[k]
    BY <1>1, <1>2 DEF SoundJobs, JobIds, Grows
  <2>2. \A k \in JobIds : js[k].since <= clock'
    BY <1>1, <1>2 DEF SoundJobs, Job, Grows
  <2>3. \A k \in JobIds : js[k].status # "none" => k <= made'
    BY <1>1, <1>2 DEF SoundJobs, JobIds, Grows
  <2> QED
    BY <1>2, <2>1, <2>2, <2>3 DEF SoundJobs
<1> QED
  BY <1>2 DEF SoundArchive

\* When no archive is written and no other comes into use.
LEMMA OldArchives ==
  ASSUME StateSound, StateSound', Grows, ArchivesSound, archive' = archive,
         \A q \in Hands : Held(work'[q]) => work'[q].job \in 1..made,
         \A j \in JobIds : InUse(j)' => InUse(j)
  PROVE ArchivesSound'
<1>1. made \in Nat /\ made' \in Nat /\ clock' \in Nat
  BY BackupAssumption DEF StateSound, Times
<1>2. ASSUME NEW j \in JobIds, InUse(j)' PROVE SoundArchive(j)'
  BY <1>1, <1>2, ArchiveKept DEF ArchivesSound
<1>3. ASSUME NEW q \in Hands, Held(work'[q]) PROVE work'[q].job \in 1..made'
  BY <1>1, <1>3 DEF Grows
<1> QED
  BY <1>2, <1>3 DEF ArchivesSound

LEMMA QuietArchives ==
  ASSUME StateSound, StateSound', Grows, ArchivesSound, NEW p \in Hands, Keeps(p)
  PROVE ArchivesSound'
<1>1. \A j \in JobIds : InUse(j)' => InUse(j)
  BY DEF Keeps, InUse
<1>2. \A q \in Hands : Held(work'[q]) => work'[q].job \in 1..made
  BY DEF Keeps, ArchivesSound
<1> QED
  BY <1>1, <1>2, OldArchives DEF Keeps

\* A dump that ends has written an archive that a restore can rely on.
LEMMA DumpedArchives ==
  ASSUME StateSound, WorkSound, ArchivesSound, SoundJobs(jobs), Grows,
         NEW p \in Hands, work[p].pc = "dumping",
         clock' = clock, made' = made, birth' = birth,
         files' = files \cup {work[p].job}, objects' = objects,
         archive' = [archive EXCEPT ![work[p].job] = Snapshot],
         \A q \in Hands : Held(work'[q]) => Held(work[q]) /\ work'[q].job = work[q].job
  PROVE ArchivesSound'
<1>1. PICK j : j = work[p].job
  OBVIOUS
<1>2. made \in Nat /\ clock \in Nat
  BY BackupAssumption DEF StateSound, Times
<1>3. j \in JobIds
  BY <1>1, InHand
<1>4. archive' = [archive EXCEPT ![j] = Snapshot] /\ DOMAIN archive = JobIds
  BY <1>1 DEF StateSound
<1>5. SoundArchive(j)'
  <2>1. archive'[j].jobs = jobs /\ archive'[j].lease = [lease EXCEPT !.owner = Nobody]
    BY <1>3, <1>4 DEF Snapshot
  <2>2. SoundJobs(archive[j].jobs)'
    BY <1>2, <2>1 DEF SoundJobs
  <2>3. archive'[j].lease \in Lent /\ archive'[j].lease.owner = Nobody
    BY <2>1 DEF StateSound, Lent
  <2> QED
    BY <2>2, <2>3 DEF SoundArchive
<1>6. ASSUME NEW k \in JobIds, k # j, SoundArchive(k) PROVE SoundArchive(k)'
  <2>1. archive'[k] = archive[k]
    BY <1>4, <1>6
  <2> QED
    BY <1>2, <1>6, <2>1, ArchiveKept
<1>8. \A k \in JobIds : InUse(k)' => InUse(k) \/ k = j
  BY <1>1 DEF InUse
<1>9. \A k \in JobIds : InUse(k)' => SoundArchive(k)'
  BY <1>5, <1>6, <1>8 DEF ArchivesSound
<1>10. \A q \in Hands : Held(work'[q]) => work'[q].job \in 1..made'
  BY <1>2 DEF ArchivesSound
<1> QED
  BY <1>9, <1>10 DEF ArchivesSound

\* The archives stay sound: those that processes have in hand as well.
LEMMA ArchivesStep ==
  ASSUME StateSound, WorkSound, ArchivesSound, SoundJobs(jobs),
         StateSound', Grows, Next
  PROVE ArchivesSound'
<1>1. ASSUME NEW p \in Workers, PollDump(p) PROVE ArchivesSound'
  <2>1. Keeps(p)
    BY <1>1 DEF PollDump, Abandon, WorkSound, Stand, Held, Keeps, Stands, At, Goto, Idle, Inside, Fault, database, storage, budget, history, NoJob
  <2> QED
    BY <2>1, QuietArchives
<1>2. ASSUME NEW p \in Workers, PollTask(p) PROVE ArchivesSound'
  <2>1. Keeps(p)
    BY <1>2 DEF PollTask, Abandon, WorkSound, Stand, Held, Keeps, Stands, At, Goto, Idle, Inside, Fault, database, storage, budget, history, NoJob
  <2> QED
    BY <2>1, QuietArchives
<1>3. ASSUME NEW p \in Workers, FinishFailed(p) PROVE ArchivesSound'
  <2>1. Keeps(p)
    BY <1>3 DEF FinishFailed, FinishSlot, Onward, Abandon, WorkSound, Stand, Held, Keeps, Stands, At, Goto, Idle, Inside, Fault, database, storage, budget, history, NoJob
  <2> QED
    BY <2>1, QuietArchives
<1>4. ASSUME NEW p \in Workers, FinishDone(p) PROVE ArchivesSound'
  <2>1. Keeps(p)
    BY <1>4 DEF FinishDone, Abandon, WorkSound, Stand, Held, Keeps, Stands, At, Goto, Idle, Inside, Fault, database, storage, budget, history, NoJob
  <2> QED
    BY <2>1, QuietArchives
<1>5. ASSUME NEW p \in Workers, AskRun(p) PROVE ArchivesSound'
  <2>1. Keeps(p)
    BY <1>5 DEF AskRun, Abandon, WorkSound, Stand, Held, Keeps, Stands, At, Goto, Idle, Inside, Fault, database, storage, budget, history, NoJob
  <2> QED
    BY <2>1, QuietArchives
<1>6. ASSUME NEW p \in Workers, NEW j \in 1..made, AskRestore(p, j) PROVE ArchivesSound'
  <2>1. Keeps(p)
    BY <1>6 DEF AskRestore, Abandon, WorkSound, Stand, Held, Keeps, Stands, At, Goto, Idle, Inside, Fault, database, storage, budget, history, NoJob
  <2> QED
    BY <2>1, QuietArchives
<1>7. ASSUME NEW p \in Workers, CheckRestore(p) PROVE ArchivesSound'
  <2>1. ASSUME NEW q \in Hands, Held(work'[q])
        PROVE /\ work'[q].job = work[q].job
              /\ Held(work[q]) \/ work[q].job \in files \cup objects
    BY <1>7, <2>1 DEF CheckRestore, Goto, Abandon, OnDisk, WorkSound, Stand, Held
  <2>3. archive' = archive /\ files' = files /\ objects' = objects
    BY <1>7 DEF CheckRestore, storage
  <2>4. \A q \in Hands : Held(work'[q]) => work'[q].job \in 1..made
    BY <2>1 DEF ArchivesSound, StateSound
  <2>5. \A k \in JobIds : InUse(k)' => InUse(k)
    BY <2>1, <2>3 DEF InUse
  <2> QED
    BY <2>3, <2>4, <2>5, OldArchives
<1>8. ASSUME NEW p \in Workers, Restore(p) PROVE ArchivesSound'
  <2>1. Keeps(p)
    BY <1>8 DEF Restore, Replace, Abandon, WorkSound, Stand, Held, Keeps, Stands, At, Goto, Idle, Inside, Fault, database, storage, budget, history, NoJob
  <2> QED
    BY <2>1, QuietArchives
<1>9. ASSUME NEW p \in Workers, Enter(p) PROVE ArchivesSound'
  <2>1. /\ work' \in {[work EXCEPT ![p] = Failed(p)],
                     [work EXCEPT ![p].pc = Start(work[p].what)]}
        /\ UNCHANGED storage
    BY <1>9 DEF Enter, Goto
  <2>2. Start(work[p].what) \in {"looking", "inserting", "listing", "checking"}
    BY <1>9 DEF Enter, At, WorkSound, SoundStand, Stand, Whats, Start
  <2>3. Failed(p).pc \in {"idle", "failing"}
    BY FailedSound DEF StateSound
  <2>4. ASSUME NEW q \in Hands, Held(work'[q]) PROVE work'[q] = work[q]
    BY <2>1, <2>2, <2>3, <2>4 DEF WorkSound, Stand, Held
  <2> QED
    BY <2>1, <2>4, QuietArchives DEF Keeps, storage
<1>10. ASSUME NEW p \in Workers, Leave(p) PROVE ArchivesSound'
  <2>1. Keeps(p)
    BY <1>10 DEF Leave, Onward, Failed, Abandon, WorkSound, Stand, Held, Keeps, Stands, At, Goto, Idle, Inside, Fault, database, storage, budget, history, NoJob
  <2> QED
    BY <2>1, QuietArchives
<1>11. ASSUME NEW p \in Workers, Cancel(p) \/ Crash(p) PROVE ArchivesSound'
  <2>1. CutOff(p)
    BY <1>11, Ended
  <2>2. \A x \in Strays : work'[x] # work[x] => work'[x].pc = work[p].pc /\ work'[x].job = work[p].job
    BY <2>1, AloneSound DEF CutOff, WorkSound
  <2>3. ASSUME NEW q \in Hands, Held(work'[q])
        PROVE \E h \in Hands : Held(work[h]) /\ work'[q].job = work[h].job
    BY <2>1, <2>2, <2>3 DEF CutOff, Held
  <2>4. archive' = archive /\ files' = files /\ objects' = objects
    BY <2>1 DEF CutOff
  <2>5. \A q \in Hands : Held(work'[q]) => work'[q].job \in 1..made
    BY <2>3 DEF ArchivesSound
  <2>6. \A j \in JobIds : InUse(j)' => InUse(j)
    BY <2>3, <2>4 DEF InUse
  <2> QED
    BY <2>4, <2>5, <2>6, OldArchives
<1>13. ASSUME NEW p \in Workers, Look(p) PROVE ArchivesSound'
  <2>1. Keeps(p)
    BY <1>13 DEF Look, Abandon, WorkSound, Stand, Held, Keeps, Stands, At, Goto, Idle, Inside, Fault, database, storage, budget, history, NoJob
  <2> QED
    BY <2>1, QuietArchives
<1>14. ASSUME NEW p \in Workers, InsertJob(p) PROVE ArchivesSound'
  <2>1. Keeps(p)
    BY <1>14 DEF InsertJob, Abandon, WorkSound, Stand, Held, Keeps, Stands, At, Goto, Idle, Inside, Fault, database, storage, budget, history, NoJob
  <2> QED
    BY <2>1, QuietArchives
<1>15. ASSUME NEW p \in Workers, DumpDone(p) PROVE ArchivesSound'
  <2>1. /\ work[p].pc = "dumping" /\ files' = files \cup {work[p].job} /\ objects' = objects
        /\ archive' = [archive EXCEPT ![work[p].job] = Snapshot]
        /\ clock' = clock /\ made' = made /\ birth' = birth
    BY <1>15 DEF DumpDone, At
  <2>2. \A q \in Hands : Held(work'[q]) => Held(work[q]) /\ work'[q].job = work[q].job
    BY <1>15 DEF DumpDone, Goto, WorkSound, Stand, Held
  <2> QED
    BY <2>1, <2>2, DumpedArchives
<1>16. ASSUME NEW p \in Workers, DumpFails(p) PROVE ArchivesSound'
  <2>1. Keeps(p)
    BY <1>16 DEF DumpFails, Abandon, WorkSound, Stand, Held, Keeps, Stands, At, Goto, Idle, Inside, Fault, database, storage, budget, history, NoJob
  <2> QED
    BY <2>1, QuietArchives
<1>17. ASSUME NEW p \in Workers, DumpRefused(p) PROVE ArchivesSound'
  <2>1. Keeps(p)
    BY <1>17 DEF DumpRefused, Abandon, WorkSound, Stand, Held, Keeps, Stands, At, Goto, Idle, Inside, Fault, database, storage, budget, history, NoJob
  <2> QED
    BY <2>1, QuietArchives
<1>18. ASSUME NEW p \in Workers, ListUploads(p) PROVE ArchivesSound'
  <2>1. Keeps(p)
    BY <1>18 DEF ListUploads, Abandon, WorkSound, Stand, Held, Keeps, Stands, At, Goto, Idle, Inside, Fault, database, storage, budget, history, NoJob
  <2> QED
    BY <2>1, QuietArchives
<1>19. ASSUME NEW p \in Workers, TakeUpload(p) PROVE ArchivesSound'
  <2>1. PICK j \in work[p].todo :
          IF OnDisk(p, j)
          THEN work' = [work EXCEPT ![p].pc = "sending", ![p].job = j, ![p].todo = @ \ {j}]
          ELSE work' = [work EXCEPT ![p].todo = @ \ {j}]
    BY <1>19 DEF TakeUpload
  <2>2. ASSUME NEW q \in Hands, Held(work'[q])
        PROVE \/ Held(work[q]) /\ work'[q].job = work[q].job
              \/ work'[q].job = j /\ j \in files
    BY <2>1, <2>2 DEF WorkSound, Stand, Held, OnDisk
  <2>3. archive' = archive /\ files' = files /\ objects' = objects
    BY <1>19 DEF TakeUpload, storage
  <2>4. \A q \in Hands : Held(work'[q]) => work'[q].job \in 1..made
    BY <2>2 DEF ArchivesSound, StateSound
  <2>5. \A k \in JobIds : InUse(k)' => InUse(k)
    BY <2>2, <2>3 DEF InUse
  <2> QED
    BY <2>3, <2>4, <2>5, OldArchives
<1>20. ASSUME NEW p \in Workers, Send(p) PROVE ArchivesSound'
  <2>1. /\ archive' = archive /\ files' = files /\ objects' = objects \cup {work[p].job}
        /\ work' = [work EXCEPT ![p].pc = "sent"] /\ Held(work[p])
    BY <1>20 DEF Send, Goto, At, Held
  <2>2. \A q \in Hands : Held(work'[q]) => Held(work[q]) /\ work'[q].job = work[q].job
    BY <2>1 DEF WorkSound, Stand, Held
  <2>3. archive' = archive
    BY <2>1
  <2>4. \A q \in Hands : Held(work'[q]) => work'[q].job \in 1..made
    BY <2>2 DEF ArchivesSound
  <2>5. \A j \in JobIds : InUse(j)' => InUse(j)
    BY <2>1, <2>2 DEF InUse
  <2> QED
    BY <2>3, <2>4, <2>5, OldArchives
<1>21. ASSUME NEW p \in Workers, MarkUploaded(p) PROVE ArchivesSound'
  <2>1. Keeps(p)
    BY <1>21 DEF MarkUploaded, Abandon, WorkSound, Stand, Held, Keeps, Stands, At, Goto, Idle, Inside, Fault, database, storage, budget, history, NoJob
  <2> QED
    BY <2>1, QuietArchives
<1>22. ASSUME NEW p \in Workers, SendFails(p) PROVE ArchivesSound'
  <2>1. Keeps(p)
    BY <1>22 DEF SendFails, Abandon, WorkSound, Stand, Held, Keeps, Stands, At, Goto, Idle, Inside, Fault, database, storage, budget, history, NoJob
  <2> QED
    BY <2>1, QuietArchives
<1>23. ASSUME NEW p \in Workers, ListLocal(p) PROVE ArchivesSound'
  <2>1. Keeps(p)
    BY <1>23 DEF ListLocal, Abandon, WorkSound, Stand, Held, Keeps, Stands, At, Goto, Idle, Inside, Fault, database, storage, budget, history, NoJob
  <2> QED
    BY <2>1, QuietArchives
<1>24. ASSUME NEW p \in Workers, Unlink(p) PROVE ArchivesSound'
  <2>1. Keeps(p)
    BY <1>24 DEF Unlink, Abandon, WorkSound, Stand, Held, Keeps, Stands, At, Goto, Idle, Inside, Fault, database, storage, budget, history, NoJob
  <2> QED
    BY <2>1, QuietArchives
<1>25. ASSUME NEW p \in Workers, ListPrune(p) PROVE ArchivesSound'
  <2>1. Keeps(p)
    BY <1>25 DEF ListPrune, Abandon, WorkSound, Stand, Held, Keeps, Stands, At, Goto, Idle, Inside, Fault, database, storage, budget, history, NoJob
  <2> QED
    BY <2>1, QuietArchives
<1>26. ASSUME NEW p \in Workers, DeleteObject(p) PROVE ArchivesSound'
  <2>1. Keeps(p)
    BY <1>26 DEF DeleteObject, Abandon, WorkSound, Stand, Held, Keeps, Stands, At, Goto, Idle, Inside, Fault, database, storage, budget, history, NoJob
  <2> QED
    BY <2>1, QuietArchives
<1>27. ASSUME NEW p \in Workers, DeleteFails(p) PROVE ArchivesSound'
  <2>1. Keeps(p)
    BY <1>27 DEF DeleteFails, Abandon, WorkSound, Stand, Held, Keeps, Stands, At, Goto, Idle, Inside, Fault, database, storage, budget, history, NoJob
  <2> QED
    BY <2>1, QuietArchives
<1>28. ASSUME NEW p \in Workers, MarkPruned(p) PROVE ArchivesSound'
  <2>1. Keeps(p)
    BY <1>28 DEF MarkPruned, Abandon, WorkSound, Stand, Held, Keeps, Stands, At, Goto, Idle, Inside, Fault, database, storage, budget, history, NoJob
  <2> QED
    BY <2>1, QuietArchives
<1>29. ASSUME NEW p \in Workers, Pruned(p) PROVE ArchivesSound'
  <2>1. Keeps(p)
    BY <1>29 DEF Pruned, Abandon, WorkSound, Stand, Held, Keeps, Stands, At, Goto, Idle, Inside, Fault, database, storage, budget, history, NoJob
  <2> QED
    BY <2>1, QuietArchives
<1>30. ASSUME NEW late \in SUBSET Workers, Tick(late) PROVE ArchivesSound'
  <2>3. archive' = archive /\ files' = files /\ objects' = objects /\ work' = work
    BY <1>30 DEF Tick, storage
  <2>4. \A q \in Hands : Held(work'[q]) => work'[q].job \in 1..made
    BY <2>3 DEF ArchivesSound
  <2>5. \A k \in JobIds : InUse(k)' => InUse(k)
    BY <2>3 DEF InUse
  <2> QED
    BY <2>3, <2>4, <2>5, OldArchives
<1>31. ASSUME NEW x \in Strays, StrayDumps(x) PROVE ArchivesSound'
  <2>1. /\ work[x].pc = "dumping" /\ files' = files \cup {work[x].job} /\ objects' = objects
        /\ archive' = [archive EXCEPT ![work[x].job] = Snapshot]
        /\ clock' = clock /\ made' = made /\ birth' = birth
    BY <1>31 DEF StrayDumps, At
  <2>2. \A q \in Hands : Held(work'[q]) => Held(work[q]) /\ work'[q].job = work[q].job
    BY <1>31, Parted DEF StrayDumps
  <2> QED
    BY <2>1, <2>2, DumpedArchives
<1>32. ASSUME NEW x \in Strays, StraySends(x) PROVE ArchivesSound'
  <2>1. /\ archive' = archive /\ files' = files /\ objects' = objects \cup {work[x].job}
        /\ Held(work[x])
    BY <1>32 DEF StraySends, At, Held
  <2>2. \A q \in Hands : Held(work'[q]) => Held(work[q]) /\ work'[q].job = work[q].job
    BY <1>32, Parted DEF StraySends
  <2>3. \A q \in Hands : Held(work'[q]) => work'[q].job \in 1..made
    BY <2>2 DEF ArchivesSound
  <2>4. \A j \in JobIds : InUse(j)' => InUse(j)
    BY <2>1, <2>2 DEF InUse
  <2> QED
    BY <2>1, <2>3, <2>4, OldArchives
<1>33. ASSUME NEW x \in Strays, StrayDeletes(x) \/ StrayRestores(x) \/ StrayStops(x) PROVE ArchivesSound'
  <2>1. \A q \in Hands : Held(work'[q]) => Held(work[q]) /\ work'[q].job = work[q].job
    BY <1>33, Parted DEF StrayDeletes, StrayRestores, StrayStops
  <2>2. archive' = archive /\ files' \subseteq files /\ objects' \subseteq objects
    BY <1>33 DEF StrayDeletes, StrayRestores, StrayStops, storage
  <2>3. Keeps(x)
    BY <2>1, <2>2 DEF Keeps
  <2> QED
    BY <2>3, QuietArchives
<1> QED
  BY <1>1, <1>2, <1>3, <1>4, <1>5, <1>6, <1>7, <1>8, <1>9, <1>10, <1>11, <1>13, <1>14, <1>15, <1>16, <1>17, <1>18, <1>19, <1>20, <1>21, <1>22, <1>23, <1>24, <1>25, <1>26, <1>27, <1>28, <1>29, <1>30, <1>31, <1>32, <1>33
  DEF Next, Workers, Scheduling, Dumping, Uploading, Pruning, Asking, Straying

\* What lock file and lease give together.
Exclusion == LeaseInUse /\ LockHeld /\ LeaseHeld

\* Nobody comes in or goes, and nothing happens to the lease.
QuietLease ==
  UNCHANGED <<clock, lease, stalled, restored>> /\ \A q \in Workers : Inside(q)' <=> Inside(q)

LEMMA QuietExclusion ==
  ASSUME Exclusion, QuietLease
  PROVE Exclusion'
<1>1. LeaseInUse'
  BY DEF Exclusion, QuietLease, LeaseInUse
<1>2. LockHeld'
  BY DEF Exclusion, QuietLease, LockHeld
<1>3. LeaseHeld'
  BY DEF Exclusion, QuietLease, LeaseHeld
<1> QED
  BY <1>1, <1>2, <1>3 DEF Exclusion

\* p goes out, and with it the lease if it is p's.
LEMMA GoesOut ==
  ASSUME StateSound, Exclusion, NEW p \in Workers,
         UNCHANGED <<clock, stalled, restored>>, ~Inside(p)',
         \A q \in Workers \ {p} : Inside(q)' <=> Inside(q),
         lease.owner # p => lease' = lease,
         lease.owner = p => lease'.owner \notin Workers \/ lease'.until <= clock
  PROVE Exclusion'
<1>1. LeaseInUse'
  BY DEF Exclusion, LeaseInUse
<1>2. LockHeld'
  BY DEF Exclusion, LockHeld
<1>3. LeaseHeld'
  BY DEF Exclusion, LeaseHeld
<1> QED
  BY <1>1, <1>2, <1>3 DEF Exclusion

\* Coming in and going out, time and crashes leave lock and lease right.
LEMMA ExclusionStep ==
  ASSUME StateSound, WorkSound, ArchivesSound, Exclusion, Next
  PROVE Exclusion'
<1>1. ASSUME NEW p \in Workers, PollDump(p) PROVE Exclusion'
  <2>1. QuietLease
    BY <1>1 DEF PollDump, Abandon, WorkSound, Stand, QuietLease, Stands, At, Goto, Idle, Inside, Fault, database, storage, budget, history, NoJob
  <2> QED
    BY <2>1, QuietExclusion
<1>2. ASSUME NEW p \in Workers, PollTask(p) PROVE Exclusion'
  <2>1. QuietLease
    BY <1>2 DEF PollTask, Abandon, WorkSound, Stand, QuietLease, Stands, At, Goto, Idle, Inside, Fault, database, storage, budget, history, NoJob
  <2> QED
    BY <2>1, QuietExclusion
<1>3. ASSUME NEW p \in Workers, FinishFailed(p) PROVE Exclusion'
  <2>1. QuietLease
    BY <1>3 DEF FinishFailed, FinishSlot, Onward, Abandon, WorkSound, Stand, QuietLease, Stands, At, Goto, Idle, Inside, Fault, database, storage, budget, history, NoJob
  <2> QED
    BY <2>1, QuietExclusion
<1>4. ASSUME NEW p \in Workers, FinishDone(p) PROVE Exclusion'
  <2>1. QuietLease
    BY <1>4 DEF FinishDone, Abandon, WorkSound, Stand, QuietLease, Stands, At, Goto, Idle, Inside, Fault, database, storage, budget, history, NoJob
  <2> QED
    BY <2>1, QuietExclusion
<1>5. ASSUME NEW p \in Workers, AskRun(p) PROVE Exclusion'
  <2>1. QuietLease
    BY <1>5 DEF AskRun, Abandon, WorkSound, Stand, QuietLease, Stands, At, Goto, Idle, Inside, Fault, database, storage, budget, history, NoJob
  <2> QED
    BY <2>1, QuietExclusion
<1>6. ASSUME NEW p \in Workers, NEW j \in 1..made, AskRestore(p, j) PROVE Exclusion'
  <2>1. QuietLease
    BY <1>6 DEF AskRestore, Abandon, WorkSound, Stand, QuietLease, Stands, At, Goto, Idle, Inside, Fault, database, storage, budget, history, NoJob
  <2> QED
    BY <2>1, QuietExclusion
<1>7. ASSUME NEW p \in Workers, CheckRestore(p) PROVE Exclusion'
  <2>1. QuietLease
    BY <1>7 DEF CheckRestore, Abandon, WorkSound, Stand, QuietLease, Stands, At, Goto, Idle, Inside, Fault, database, storage, budget, history, NoJob
  <2> QED
    BY <2>1, QuietExclusion
<1>8. ASSUME NEW p \in Workers, Restore(p) PROVE Exclusion'
  <2>1. restored' /\ lease' = archive[work[p].job].lease /\ Held(work[p])
    BY <1>8 DEF Restore, Replace, At, Held
  <2>2. lease'.owner \notin Workers
    BY <2>1, HeldSound, BackupAssumption DEF SoundArchive
  <2>3. \A q \in Workers : Inside(q)' <=> Inside(q)
    BY <1>8 DEF Restore, WorkSound, Stand, QuietLease, Stands, At, Goto, Idle, Inside, Fault, database, storage, budget, history, NoJob
  <2>4. LeaseInUse' /\ LeaseHeld'
    BY <2>1, <2>2 DEF LeaseInUse, LeaseHeld
  <2>5. LockHeld'
    BY <2>3 DEF Exclusion, LockHeld
  <2> QED
    BY <2>4, <2>5 DEF Exclusion
<1>9. ASSUME NEW p \in Workers, Enter(p) PROVE Exclusion'
  <2>1. CASE Locked(p) \/ Leased
    <3>1. /\ At(p, "claimed") /\ UNCHANGED <<clock, lease, stalled, restored>>
          /\ work' = [work EXCEPT ![p] = Failed(p)]
      BY <1>9, <2>1 DEF Enter
    <3>2. Failed(p).pc \in {"idle", "failing"}
      BY FailedSound DEF StateSound
    <3>3. \A q \in Workers : Inside(q)' <=> Inside(q)
      BY <3>1, <3>2 DEF WorkSound, Inside, At
    <3>4. QuietLease
      BY <3>1, <3>3 DEF QuietLease
    <3> QED
      BY <3>4, QuietExclusion
  <2>2. CASE ~(Locked(p) \/ Leased)
    <3>1. /\ work' = [work EXCEPT ![p].pc = Start(work[p].what)]
          /\ lease' = [owner |-> p, until |-> clock + Lease]
          /\ stalled' = stalled \ {p} /\ UNCHANGED <<clock, restored>>
      BY <1>9, <2>2 DEF Enter, Goto
    <3>2. Start(work[p].what) \in {"looking", "inserting", "listing", "checking"}
      BY <1>9 DEF Enter, At, WorkSound, SoundStand, Stand, Whats, Start
    <3>3. Inside(p)' /\ ~Inside(p) /\ \A q \in Workers \ {p} : Inside(q)' <=> Inside(q)
      BY <1>9, <3>1, <3>2 DEF Enter, At, WorkSound, Stand, Inside
    <3>4. clock \in Nat /\ clock + Lease > clock
      BY BackupAssumption DEF StateSound, Times
    <3>5. LeaseInUse'
      BY <3>1, <3>3 DEF LeaseInUse
    <3>6. LockHeld'
      BY <2>2, <3>3 DEF Exclusion, LockHeld, Locked
    <3>7. LeaseHeld'
      BY <2>2, <3>1, <3>3, <3>4 DEF Exclusion, LeaseHeld, Leased
    <3> QED
      BY <3>5, <3>6, <3>7 DEF Exclusion
  <2> QED
    BY <2>1, <2>2
<1>10. ASSUME NEW p \in Workers, Leave(p) PROVE Exclusion'
  <2>1. UNCHANGED <<clock, stalled, restored>> /\ lease' = Released(p)
    BY <1>10 DEF Leave, history
  <2>2. ~Inside(p)' /\ \A q \in Workers \ {p} : Inside(q)' <=> Inside(q)
    BY <1>10 DEF Leave, Onward, Failed, WorkSound, Stand, QuietLease, Stands, At, Goto, Idle, Inside, Fault, database, storage, budget, history, NoJob
  <2>3. lease.owner # p => lease' = lease
    BY <2>1 DEF Released
  <2>4. lease.owner = p => lease'.until <= clock
    BY <2>1, BackupAssumption DEF Released, StateSound, Lent, Times
  <2> QED
    BY <2>1, <2>2, <2>3, <2>4, GoesOut
<1>11. ASSUME NEW p \in Workers, Cancel(p) \/ Crash(p) PROVE Exclusion'
  <2>1. CutOff(p)
    BY <1>11, Ended
  <2>2. ~Inside(p)' /\ \A q \in Workers \ {p} : Inside(q)' <=> Inside(q)
    BY <2>1 DEF CutOff, Inside
  <2>3. lease.owner # p => lease' = lease
    BY <2>1 DEF CutOff, Released, Forsaken
  <2>4. lease.owner = p => lease'.owner \notin Workers \/ lease'.until <= clock
    BY <2>1, BackupAssumption DEF CutOff, Released, Forsaken, StateSound, Lent, Times
  <2> QED
    BY <2>1, <2>2, <2>3, <2>4, GoesOut DEF CutOff
<1>13. ASSUME NEW p \in Workers, Look(p) PROVE Exclusion'
  <2>1. QuietLease
    BY <1>13 DEF Look, Abandon, WorkSound, Stand, QuietLease, Stands, At, Goto, Idle, Inside, Fault, database, storage, budget, history, NoJob
  <2> QED
    BY <2>1, QuietExclusion
<1>14. ASSUME NEW p \in Workers, InsertJob(p) PROVE Exclusion'
  <2>1. QuietLease
    BY <1>14 DEF InsertJob, Abandon, WorkSound, Stand, QuietLease, Stands, At, Goto, Idle, Inside, Fault, database, storage, budget, history, NoJob
  <2> QED
    BY <2>1, QuietExclusion
<1>15. ASSUME NEW p \in Workers, DumpDone(p) PROVE Exclusion'
  <2>1. QuietLease
    BY <1>15 DEF DumpDone, Abandon, WorkSound, Stand, QuietLease, Stands, At, Goto, Idle, Inside, Fault, database, storage, budget, history, NoJob
  <2> QED
    BY <2>1, QuietExclusion
<1>16. ASSUME NEW p \in Workers, DumpFails(p) PROVE Exclusion'
  <2>1. QuietLease
    BY <1>16 DEF DumpFails, Abandon, WorkSound, Stand, QuietLease, Stands, At, Goto, Idle, Inside, Fault, database, storage, budget, history, NoJob
  <2> QED
    BY <2>1, QuietExclusion
<1>17. ASSUME NEW p \in Workers, DumpRefused(p) PROVE Exclusion'
  <2>1. QuietLease
    BY <1>17 DEF DumpRefused, Abandon, WorkSound, Stand, QuietLease, Stands, At, Goto, Idle, Inside, Fault, database, storage, budget, history, NoJob
  <2> QED
    BY <2>1, QuietExclusion
<1>18. ASSUME NEW p \in Workers, ListUploads(p) PROVE Exclusion'
  <2>1. QuietLease
    BY <1>18 DEF ListUploads, Abandon, WorkSound, Stand, QuietLease, Stands, At, Goto, Idle, Inside, Fault, database, storage, budget, history, NoJob
  <2> QED
    BY <2>1, QuietExclusion
<1>19. ASSUME NEW p \in Workers, TakeUpload(p) PROVE Exclusion'
  <2>1. QuietLease
    BY <1>19 DEF TakeUpload, Abandon, WorkSound, Stand, QuietLease, Stands, At, Goto, Idle, Inside, Fault, database, storage, budget, history, NoJob
  <2> QED
    BY <2>1, QuietExclusion
<1>20. ASSUME NEW p \in Workers, Send(p) PROVE Exclusion'
  <2>1. QuietLease
    BY <1>20 DEF Send, Abandon, WorkSound, Stand, QuietLease, Stands, At, Goto, Idle, Inside, Fault, database, storage, budget, history, NoJob
  <2> QED
    BY <2>1, QuietExclusion
<1>21. ASSUME NEW p \in Workers, MarkUploaded(p) PROVE Exclusion'
  <2>1. QuietLease
    BY <1>21 DEF MarkUploaded, Verified, Abandon, WorkSound, Stand, QuietLease, Stands, At, Goto, Idle, Inside, Fault, database, storage, budget, history, NoJob
  <2> QED
    BY <2>1, QuietExclusion
<1>22. ASSUME NEW p \in Workers, SendFails(p) PROVE Exclusion'
  <2>1. QuietLease
    BY <1>22 DEF SendFails, Abandon, WorkSound, Stand, QuietLease, Stands, At, Goto, Idle, Inside, Fault, database, storage, budget, history, NoJob
  <2> QED
    BY <2>1, QuietExclusion
<1>23. ASSUME NEW p \in Workers, ListLocal(p) PROVE Exclusion'
  <2>1. QuietLease
    BY <1>23 DEF ListLocal, Abandon, WorkSound, Stand, QuietLease, Stands, At, Goto, Idle, Inside, Fault, database, storage, budget, history, NoJob
  <2> QED
    BY <2>1, QuietExclusion
<1>24. ASSUME NEW p \in Workers, Unlink(p) PROVE Exclusion'
  <2>1. QuietLease
    BY <1>24 DEF Unlink, Abandon, WorkSound, Stand, QuietLease, Stands, At, Goto, Idle, Inside, Fault, database, storage, budget, history, NoJob
  <2> QED
    BY <2>1, QuietExclusion
<1>25. ASSUME NEW p \in Workers, ListPrune(p) PROVE Exclusion'
  <2>1. QuietLease
    BY <1>25 DEF ListPrune, Abandon, WorkSound, Stand, QuietLease, Stands, At, Goto, Idle, Inside, Fault, database, storage, budget, history, NoJob
  <2> QED
    BY <2>1, QuietExclusion
<1>26. ASSUME NEW p \in Workers, DeleteObject(p) PROVE Exclusion'
  <2>1. QuietLease
    BY <1>26 DEF DeleteObject, Abandon, WorkSound, Stand, QuietLease, Stands, At, Goto, Idle, Inside, Fault, database, storage, budget, history, NoJob
  <2> QED
    BY <2>1, QuietExclusion
<1>27. ASSUME NEW p \in Workers, DeleteFails(p) PROVE Exclusion'
  <2>1. QuietLease
    BY <1>27 DEF DeleteFails, Abandon, WorkSound, Stand, QuietLease, Stands, At, Goto, Idle, Inside, Fault, database, storage, budget, history, NoJob
  <2> QED
    BY <2>1, QuietExclusion
<1>28. ASSUME NEW p \in Workers, MarkPruned(p) PROVE Exclusion'
  <2>1. QuietLease
    BY <1>28 DEF MarkPruned, Abandon, WorkSound, Stand, QuietLease, Stands, At, Goto, Idle, Inside, Fault, database, storage, budget, history, NoJob
  <2> QED
    BY <2>1, QuietExclusion
<1>29. ASSUME NEW p \in Workers, Pruned(p) PROVE Exclusion'
  <2>1. QuietLease
    BY <1>29 DEF Pruned, Abandon, WorkSound, Stand, QuietLease, Stands, At, Goto, Idle, Inside, Fault, database, storage, budget, history, NoJob
  <2> QED
    BY <2>1, QuietExclusion
<1>30. ASSUME NEW late \in SUBSET Workers, Tick(late) PROVE Exclusion'
  <2>1. /\ clock' = clock + 1 /\ stalled' = stalled \cup late /\ UNCHANGED <<work, restored>>
        /\ lease' = IF \E p \in Workers : Renewed(p, late)
                    THEN [lease EXCEPT !.until = clock + 1 + Lease]
                    ELSE lease
    BY <1>30 DEF Tick
  <2>2. clock \in Nat /\ lease \in Lent /\ clock + 1 + Lease > clock + 1
    BY BackupAssumption DEF StateSound, Times
  <2>3. lease'.owner = lease.owner
    BY <2>1, <2>2 DEF Lent
  <2>4. \A q \in Workers : Inside(q)' <=> Inside(q)
    BY <2>1 DEF Inside
  <2>5. LockHeld'
    BY <2>4 DEF Exclusion, LockHeld
  <2>6. LeaseInUse'
    <3>1. CASE \E q \in Workers : Renewed(q, late)
      BY <2>3, <2>4, <3>1 DEF LeaseInUse, Renewed
    <3>2. CASE ~\E q \in Workers : Renewed(q, late)
      BY <2>1, <2>2, <2>4, <3>2 DEF Exclusion, LeaseInUse, Lent
    <3> QED
      BY <3>1, <3>2
  <2>7. LeaseHeld'
    <3> SUFFICES ASSUME ~restored', NEW q \in Workers, Inside(q)', q \notin stalled'
                 PROVE lease'.owner = q /\ lease'.until > clock'
      BY DEF LeaseHeld
    <3>1. Renewed(q, late) /\ lease.owner = q
      BY <2>1, <2>4 DEF Exclusion, LeaseHeld, Renewed
    <3> QED
      BY <2>1, <2>2, <2>3, <3>1 DEF Lent
  <2> QED
    BY <2>5, <2>6, <2>7 DEF Exclusion
<1>31. ASSUME NEW x \in Strays, StrayDumps(x) \/ StraySends(x) \/ StrayDeletes(x) \/ StrayStops(x)
       PROVE Exclusion'
  <2>1. work' = [work EXCEPT ![x] = Idle] /\ UNCHANGED <<clock, lease, stalled, restored>>
    BY <1>31 DEF StrayDumps, StraySends, StrayDeletes, StrayStops, database, history
  <2>2. QuietLease
    BY <2>1, Parted DEF QuietLease, Inside
  <2> QED
    BY <2>2, QuietExclusion
<1>34. ASSUME NEW x \in Strays, StrayRestores(x) PROVE Exclusion'
  <2>1. restored' /\ lease' = archive[work[x].job].lease /\ Held(work[x])
    BY <1>34 DEF StrayRestores, Replace, At, Held
  <2>2. lease'.owner \notin Workers
    BY <2>1, HeldSound, BackupAssumption DEF SoundArchive
  <2>3. \A q \in Workers : Inside(q)' <=> Inside(q)
    BY <1>34, Parted DEF StrayRestores, Inside
  <2>4. LeaseInUse' /\ LeaseHeld'
    BY <2>1, <2>2 DEF LeaseInUse, LeaseHeld
  <2>5. LockHeld'
    BY <2>3 DEF Exclusion, LockHeld
  <2> QED
    BY <2>4, <2>5 DEF Exclusion
<1> QED
  BY <1>1, <1>2, <1>3, <1>4, <1>5, <1>6, <1>7, <1>8, <1>9, <1>10, <1>11, <1>13, <1>14, <1>15, <1>16, <1>17, <1>18, <1>19, <1>20, <1>21, <1>22, <1>23, <1>24, <1>25, <1>26, <1>27, <1>28, <1>29, <1>30, <1>31, <1>34
  DEF Next, Workers, Scheduling, Dumping, Uploading, Pruning, Asking, Straying

\* A process has no more in hand, for its disk, than it had.
SameHands(w, v) ==
  /\ v.pc = "dumping" => w.pc = "dumping" /\ v.job = w.job
  /\ v.pc \in {"sending", "sent"} => w.pc \in {"sending", "sent"} /\ v.job = w.job
  /\ v.pc = "unlinking" => w.pc = "unlinking" /\ v.todo \subseteq w.todo

\* No file is removed, and no more archives wait to be sent.
QuietDisk ==
  /\ restored' = restored /\ files \subseteq files'
  /\ \A k \in 1..made' : jobs'[k].status \in Unsent => k <= made /\ jobs[k].status \in Unsent
  /\ \A q \in Workers : SameHands(work[q], work'[q])

LEMMA QuietDiskHeld ==
  ASSUME StateSound, WorkSound, Grows, made' \in Nat, DiskHeld, QuietDisk
  PROVE DiskHeld'
<1> SUFFICES ASSUME ~restored'
             PROVE UnsentStaysOnDisk' /\ \A q \in Workers : OwnDump(q)' /\ OwnSend(q)' /\ OwnUnlink(q)'
  BY DEF DiskHeld
<1>1. ~restored /\ files \subseteq files' /\ made \in Nat /\ \A k \in 1..made : birth'[k] = birth[k]
  BY BackupAssumption DEF QuietDisk, StateSound, Grows
<1>2. UnsentStaysOnDisk /\ \A q \in Workers : OwnDump(q) /\ OwnSend(q) /\ OwnUnlink(q)
  BY <1>1 DEF DiskHeld
<1>3. UnsentStaysOnDisk'
  BY <1>1, <1>2 DEF QuietDisk, UnsentStaysOnDisk
<1>4. ASSUME NEW q \in Workers PROVE OwnDump(q)'
  BY <1>1, <1>2, InHand DEF QuietDisk, SameHands, OwnDump, At
<1>5. ASSUME NEW q \in Workers PROVE OwnSend(q)'
  BY <1>1, <1>2, InHand DEF QuietDisk, SameHands, OwnSend, OnDisk
<1>6. ASSUME NEW q \in Workers PROVE OwnUnlink(q)'
  <2> SUFFICES ASSUME At(q, "unlinking")', NEW k \in work'[q].todo, birth'[k].host = HostOf(q)
               PROVE jobs'[k].status \notin Unsent
    BY DEF OwnUnlink
  <2>1. At(q, "unlinking") /\ k \in work[q].todo
    BY DEF QuietDisk, SameHands, At
  <2>2. k \in 1..made /\ made <= made'
    BY <2>1 DEF WorkSound, SoundStand, Grows
  <2> QED
    BY <1>1, <1>2, <2>1, <2>2 DEF QuietDisk, OwnUnlink
<1> QED
  BY <1>3, <1>4, <1>5, <1>6

\* A process works on the archive j of its own disk, which is not sent: no
\* other process of its host is at work, so none removes it.
LEMMA WorkOnDisk ==
  ASSUME StateSound, WorkSound, LockHeld, Grows, DiskHeld,
         NEW p \in Workers, NEW j \in 1..made, Inside(p), birth[j].host = HostOf(p),
         restored' = restored, made' = made, files \subseteq files', j \in files',
         \A k \in 1..made : k # j /\ jobs'[k].status \in Unsent => jobs[k].status \in Unsent,
         \A q \in Workers \ {p} : work'[q] = work[q],
         work'[p].pc \notin {"dumping", "unlinking"},
         work'[p].pc \in {"sending", "sent"} => work'[p].job = j
  PROVE DiskHeld'
<1> SUFFICES ASSUME ~restored'
             PROVE UnsentStaysOnDisk' /\ \A q \in Workers : OwnDump(q)' /\ OwnSend(q)' /\ OwnUnlink(q)'
  BY DEF DiskHeld
<1>1. ~restored /\ made \in Nat /\ \A k \in 1..made : birth'[k] = birth[k]
  BY BackupAssumption DEF StateSound, Grows
<1>2. UnsentStaysOnDisk /\ \A q \in Workers : OwnDump(q) /\ OwnSend(q) /\ OwnUnlink(q)
  BY <1>1 DEF DiskHeld
<1>3. UnsentStaysOnDisk'
  BY <1>1, <1>2 DEF UnsentStaysOnDisk
<1>4. ASSUME NEW q \in Workers PROVE OwnDump(q)'
  BY <1>1, <1>2, InHand DEF OwnDump, At
<1>5. ASSUME NEW q \in Workers PROVE OwnSend(q)'
  BY <1>1, <1>2, InHand DEF OwnSend, OnDisk
<1>6. ASSUME NEW q \in Workers PROVE OwnUnlink(q)'
  <2> SUFFICES ASSUME At(q, "unlinking")', NEW k \in work'[q].todo, birth'[k].host = HostOf(q)
               PROVE jobs'[k].status \notin Unsent
    BY DEF OwnUnlink
  <2>1. q # p /\ At(q, "unlinking") /\ k \in work[q].todo
    BY DEF At
  <2>2. k \in 1..made
    BY <2>1 DEF WorkSound, SoundStand
  <2>3. k # j
    BY <1>1, <2>1 DEF LockHeld, Inside, At
  <2> QED
    BY <1>1, <1>2, <2>1, <2>2, <2>3 DEF OwnUnlink
<1> QED
  BY <1>3, <1>4, <1>5, <1>6

\* What a status written to a job changes.
LEMMA PutStatus ==
  ASSUME SoundJobs(jobs), NEW j \in JobIds, NEW s, NEW k \in JobIds
  PROVE Put(j, s)[k].status = jobs[k].status \/ (k = j /\ Put(j, s)[k].status = s)
BY DEF Put, SoundJobs, Job, Present

\* Nothing leaves its disk before it is sent: the lock file keeps the process
\* that removes from the one that dumps or sends.
LEMMA DiskStep ==
  ASSUME StateSound, WorkSound, SoundJobs(jobs), LockHeld, DiskHeld,
         made' \in Nat, Grows, Next
  PROVE DiskHeld'
<1>1. ASSUME NEW p \in Workers, PollDump(p) PROVE DiskHeld'
  <2>1. UNCHANGED <<restored, files, jobs, made>>
    BY <1>1 DEF PollDump, database, storage, history
  <2>2. \A q \in Workers : SameHands(work[q], work'[q])
    BY <1>1 DEF PollDump, Abandon, WorkSound, Stand, QuietDisk, SameHands, Stands, At, Goto, Idle, Inside, Fault, database, storage, budget, history, NoJob
  <2>3. QuietDisk
    BY <2>1, <2>2 DEF QuietDisk
  <2> QED
    BY <2>3, QuietDiskHeld DEF StateSound
<1>2. ASSUME NEW p \in Workers, PollTask(p) PROVE DiskHeld'
  <2>1. UNCHANGED <<restored, files, jobs, made>>
    BY <1>2 DEF PollTask, database, storage, history
  <2>2. \A q \in Workers : SameHands(work[q], work'[q])
    BY <1>2 DEF PollTask, Abandon, WorkSound, Stand, QuietDisk, SameHands, Stands, At, Goto, Idle, Inside, Fault, database, storage, budget, history, NoJob
  <2>3. QuietDisk
    BY <2>1, <2>2 DEF QuietDisk
  <2> QED
    BY <2>3, QuietDiskHeld DEF StateSound
<1>3. ASSUME NEW p \in Workers, FinishFailed(p) PROVE DiskHeld'
  <2>1. UNCHANGED <<restored, files, jobs, made>>
    BY <1>3 DEF FinishFailed, database, storage, history
  <2>2. \A q \in Workers : SameHands(work[q], work'[q])
    BY <1>3 DEF FinishFailed, FinishSlot, Onward, Abandon, WorkSound, Stand, QuietDisk, SameHands, Stands, At, Goto, Idle, Inside, Fault, database, storage, budget, history, NoJob
  <2>3. QuietDisk
    BY <2>1, <2>2 DEF QuietDisk
  <2> QED
    BY <2>3, QuietDiskHeld DEF StateSound
<1>4. ASSUME NEW p \in Workers, FinishDone(p) PROVE DiskHeld'
  <2>1. UNCHANGED <<restored, files, jobs, made>>
    BY <1>4 DEF FinishDone, database, storage, history
  <2>2. \A q \in Workers : SameHands(work[q], work'[q])
    BY <1>4 DEF FinishDone, Abandon, WorkSound, Stand, QuietDisk, SameHands, Stands, At, Goto, Idle, Inside, Fault, database, storage, budget, history, NoJob
  <2>3. QuietDisk
    BY <2>1, <2>2 DEF QuietDisk
  <2> QED
    BY <2>3, QuietDiskHeld DEF StateSound
<1>5. ASSUME NEW p \in Workers, AskRun(p) PROVE DiskHeld'
  <2>1. UNCHANGED <<restored, files, jobs, made>>
    BY <1>5 DEF AskRun, database, storage, history
  <2>2. \A q \in Workers : SameHands(work[q], work'[q])
    BY <1>5 DEF AskRun, Abandon, WorkSound, Stand, QuietDisk, SameHands, Stands, At, Goto, Idle, Inside, Fault, database, storage, budget, history, NoJob
  <2>3. QuietDisk
    BY <2>1, <2>2 DEF QuietDisk
  <2> QED
    BY <2>3, QuietDiskHeld DEF StateSound
<1>6. ASSUME NEW p \in Workers, NEW j \in 1..made, AskRestore(p, j) PROVE DiskHeld'
  <2>1. UNCHANGED <<restored, files, jobs, made>>
    BY <1>6 DEF AskRestore, database, storage, history
  <2>2. \A q \in Workers : SameHands(work[q], work'[q])
    BY <1>6 DEF AskRestore, Abandon, WorkSound, Stand, QuietDisk, SameHands, Stands, At, Goto, Idle, Inside, Fault, database, storage, budget, history, NoJob
  <2>3. QuietDisk
    BY <2>1, <2>2 DEF QuietDisk
  <2> QED
    BY <2>3, QuietDiskHeld DEF StateSound
<1>7. ASSUME NEW p \in Workers, CheckRestore(p) PROVE DiskHeld'
  <2>1. UNCHANGED <<restored, files, jobs, made>>
    BY <1>7 DEF CheckRestore, database, storage, history
  <2>2. \A q \in Workers : SameHands(work[q], work'[q])
    BY <1>7 DEF CheckRestore, Abandon, WorkSound, Stand, QuietDisk, SameHands, Stands, At, Goto, Idle, Inside, Fault, database, storage, budget, history, NoJob
  <2>3. QuietDisk
    BY <2>1, <2>2 DEF QuietDisk
  <2> QED
    BY <2>3, QuietDiskHeld DEF StateSound
<1>8. ASSUME NEW p \in Workers, Restore(p) PROVE DiskHeld'
  BY <1>8 DEF Restore, Replace, DiskHeld
<1>9. ASSUME NEW p \in Workers, Enter(p) PROVE DiskHeld'
  <2>1. UNCHANGED <<restored, files, jobs, made>>
    BY <1>9 DEF Enter, storage
  <2>2. work' \in {[work EXCEPT ![p] = Failed(p)],
                   [work EXCEPT ![p].pc = Start(work[p].what)]}
    BY <1>9 DEF Enter, Goto
  <2>3. Start(work[p].what) \in {"looking", "inserting", "listing", "checking"}
    BY <1>9 DEF Enter, At, WorkSound, SoundStand, Stand, Whats, Start
  <2>4. Failed(p).pc \in {"idle", "failing"}
    BY FailedSound DEF StateSound
  <2>5. \A q \in Workers : SameHands(work[q], work'[q])
    BY <2>2, <2>3, <2>4 DEF WorkSound, Stand, SameHands
  <2>6. QuietDisk
    BY <2>1, <2>5 DEF QuietDisk
  <2> QED
    BY <2>6, QuietDiskHeld
<1>10. ASSUME NEW p \in Workers, Leave(p) PROVE DiskHeld'
  <2>1. UNCHANGED <<restored, files, jobs, made>>
    BY <1>10 DEF Leave, database, storage, history
  <2>2. \A q \in Workers : SameHands(work[q], work'[q])
    BY <1>10 DEF Leave, Onward, Failed, Abandon, WorkSound, Stand, QuietDisk, SameHands, Stands, At, Goto, Idle, Inside, Fault, database, storage, budget, history, NoJob
  <2>3. QuietDisk
    BY <2>1, <2>2 DEF QuietDisk
  <2> QED
    BY <2>3, QuietDiskHeld DEF StateSound
<1>11. ASSUME NEW p \in Workers, Cancel(p) \/ Crash(p) PROVE DiskHeld'
  <2>1. CutOff(p)
    BY <1>11, Ended
  <2>2. UNCHANGED <<restored, files, jobs, made>>
    BY <2>1 DEF CutOff
  <2>3. \A q \in Workers : SameHands(work[q], work'[q])
    BY <2>1 DEF CutOff, SameHands
  <2>4. QuietDisk
    BY <2>2, <2>3 DEF QuietDisk
  <2> QED
    BY <2>4, QuietDiskHeld DEF StateSound
<1>13. ASSUME NEW p \in Workers, Look(p) PROVE DiskHeld'
  <2>1. UNCHANGED <<restored, files, jobs, made>>
    BY <1>13 DEF Look, database, storage, history
  <2>2. \A q \in Workers : SameHands(work[q], work'[q])
    BY <1>13 DEF Look, Abandon, WorkSound, Stand, QuietDisk, SameHands, Stands, At, Goto, Idle, Inside, Fault, database, storage, budget, history, NoJob
  <2>3. QuietDisk
    BY <2>1, <2>2 DEF QuietDisk
  <2> QED
    BY <2>3, QuietDiskHeld DEF StateSound
<1>14. ASSUME NEW p \in Workers, InsertJob(p) PROVE DiskHeld'
  <2> DEFINE s == IF work[p].what = "run" THEN Asked ELSE SlotAt(work[p].at)
             j == made + 1
             r == [status |-> "dumping", since |-> 0, here |-> FALSE]
  <2>1. UNCHANGED <<restored, files>>
    BY <1>14 DEF InsertJob, history
  <2>2. CASE ~Free(s)
    <3>1. UNCHANGED <<jobs, made, birth>> /\ work' = [work EXCEPT ![p].pc = "erring", ![p].todo = {}]
      BY <1>14, <2>2 DEF InsertJob, Abandon
    <3>2. \A q \in Workers : SameHands(work[q], work'[q])
      BY <3>1 DEF WorkSound, Stand, SameHands
    <3>3. \A k \in 1..made' : jobs'[k].status \in Unsent => k <= made /\ jobs[k].status \in Unsent
      BY <3>1 DEF StateSound
    <3>4. QuietDisk
      BY <2>1, <3>2, <3>3 DEF QuietDisk
    <3> QED
      BY <3>4, QuietDiskHeld
  <2>3. CASE Free(s) /\ ~restored
    <3>1. /\ made' = j /\ jobs' = [jobs EXCEPT ![j] = r]
          /\ birth' = [birth EXCEPT ![j] = [slot |-> s, host |-> HostOf(p)]]
          /\ work' = [work EXCEPT ![p].pc = "dumping", ![p].job = j]
      BY <1>14, <2>3 DEF InsertJob
    <3>2. j \in JobIds /\ made \in Nat /\ 1..made \subseteq JobIds /\ j \notin 1..made
      BY <1>14, InHand, BackupAssumption DEF InsertJob, StateSound, JobIds
    <3>3. \A q \in Workers \ {p} : work'[q] = work[q]
      BY <3>1 DEF WorkSound
    <3>4. work'[p].pc = "dumping" /\ work'[p].job = j
      BY <3>1 DEF WorkSound, Stand
    <3>5. birth'[j].host = HostOf(p) /\ \A k \in 1..made : birth'[k] = birth[k]
      BY <3>1, <3>2 DEF StateSound
    <3>6. jobs'[j].status \notin Unsent /\ \A k \in 1..made : jobs'[k] = jobs[k]
      BY <3>1, <3>2 DEF SoundJobs, Unsent
    <3>7. \A k \in 1..made' : k = j \/ k \in 1..made
      BY <3>1, <3>2
    <3>8. UnsentStaysOnDisk'
      BY <2>1, <2>3, <3>6, <3>7 DEF DiskHeld, UnsentStaysOnDisk
    <3>9. ASSUME NEW q \in Workers PROVE OwnDump(q)' /\ OwnSend(q)' /\ OwnUnlink(q)'
      <4>1. CASE q = p
        BY <3>4, <3>5, <4>1 DEF OwnDump, OwnSend, OwnUnlink, At
      <4>2. CASE q # p
        <5>1. work'[q] = work[q] /\ work[q].todo \subseteq 1..made
          BY <3>3, <4>2 DEF WorkSound, SoundStand
        <5>2. OwnDump(q)' /\ OwnSend(q)'
          BY <2>1, <2>3, <3>5, <5>1, InHand DEF DiskHeld, OwnDump, OwnSend, At, OnDisk
        <5>3. OwnUnlink(q)'
          BY <2>3, <3>5, <3>6, <5>1 DEF DiskHeld, OwnUnlink, At
        <5> QED
          BY <5>2, <5>3
      <4> QED
        BY <4>1, <4>2
    <3> QED
      BY <3>8, <3>9 DEF DiskHeld
  <2>4. CASE restored
    BY <2>1, <2>4 DEF DiskHeld
  <2> QED
    BY <2>2, <2>3, <2>4
<1>15. ASSUME NEW p \in Workers, DumpDone(p) PROVE DiskHeld'
  <2> DEFINE j == work[p].job
  <2>1. CASE restored
    BY <1>15, <2>1 DEF DumpDone, history, DiskHeld
  <2>2. CASE ~restored
    <3>1. j \in JobIds /\ j \in 1..made /\ 1..made \subseteq JobIds
      BY <1>15, InHand DEF DumpDone, At
    <3>2. birth[j].host = HostOf(p) /\ Inside(p)
      BY <1>15, <2>2 DEF DumpDone, At, Inside, DiskHeld, OwnDump
    <3>3. restored' = restored /\ made' = made /\ files \subseteq files' /\ j \in files'
      BY <1>15 DEF DumpDone, history
    <3>4. jobs' = Put(j, "pending_upload")
      BY <1>15 DEF DumpDone
    <3>5. \A k \in 1..made : k # j /\ jobs'[k].status \in Unsent => jobs[k].status \in Unsent
      BY <3>1, <3>4, PutStatus
    <3>6. (\A q \in Workers \ {p} : work'[q] = work[q]) /\ work'[p].pc \in {"listing", "finishing"}
      BY <1>15 DEF DumpDone, Goto, WorkSound, Stand
    <3> HIDE DEF j
    <3> QED
      BY <3>1, <3>2, <3>3, <3>5, <3>6, WorkOnDisk
  <2> QED
    BY <2>1, <2>2
<1>16. ASSUME NEW p \in Workers, DumpFails(p) PROVE DiskHeld'
  <2>1. UNCHANGED <<restored, files, made>> /\ jobs' = Put(work[p].job, "failed")
    BY <1>16 DEF DumpFails, storage, history
  <2>2. \A q \in Workers : SameHands(work[q], work'[q])
    BY <1>16 DEF DumpFails, Abandon, WorkSound, Stand, QuietDisk, SameHands, Stands, At, Goto, Idle, Inside, Fault, database, storage, budget, history, NoJob
  <2>3. work[p].job \in JobIds /\ 1..made \subseteq JobIds
    BY <1>16, InHand DEF DumpFails, At
  <2>4. \A k \in 1..made : jobs'[k].status \in Unsent => jobs[k].status \in Unsent
    BY <2>1, <2>3, PutStatus DEF Unsent
  <2>5. QuietDisk
    BY <2>1, <2>2, <2>4 DEF QuietDisk, StateSound
  <2> QED
    BY <2>5, QuietDiskHeld
<1>17. ASSUME NEW p \in Workers, DumpRefused(p) PROVE DiskHeld'
  <2>1. UNCHANGED <<restored, files, jobs, made>>
    BY <1>17 DEF DumpRefused, database, storage, history
  <2>2. \A q \in Workers : SameHands(work[q], work'[q])
    BY <1>17 DEF DumpRefused, Abandon, WorkSound, Stand, QuietDisk, SameHands, Stands, At, Goto, Idle, Inside, Fault, database, storage, budget, history, NoJob
  <2>3. QuietDisk
    BY <2>1, <2>2 DEF QuietDisk
  <2> QED
    BY <2>3, QuietDiskHeld DEF StateSound
<1>18. ASSUME NEW p \in Workers, ListUploads(p) PROVE DiskHeld'
  <2>1. UNCHANGED <<restored, files, jobs, made>>
    BY <1>18 DEF ListUploads, database, storage, history
  <2>2. \A q \in Workers : SameHands(work[q], work'[q])
    BY <1>18 DEF ListUploads, Abandon, WorkSound, Stand, QuietDisk, SameHands, Stands, At, Goto, Idle, Inside, Fault, database, storage, budget, history, NoJob
  <2>3. QuietDisk
    BY <2>1, <2>2 DEF QuietDisk
  <2> QED
    BY <2>3, QuietDiskHeld DEF StateSound
<1>19. ASSUME NEW p \in Workers, TakeUpload(p) PROVE DiskHeld'
  <2>1. PICK j \in work[p].todo :
          IF OnDisk(p, j)
          THEN /\ jobs' = Put(j, "uploading")
               /\ work' = [work EXCEPT ![p].pc = "sending", ![p].job = j, ![p].todo = @ \ {j}]
          ELSE /\ jobs' = Put(j, "failed")
               /\ work' = [work EXCEPT ![p].todo = @ \ {j}]
    BY <1>19 DEF TakeUpload
  <2>2. restored' = restored /\ made' = made /\ files' = files /\ At(p, "uploading")
    BY <1>19 DEF TakeUpload, storage
  <2>3. j \in JobIds /\ j \in 1..made /\ 1..made \subseteq JobIds
    BY InHand DEF WorkSound, SoundStand
  <2>4. CASE OnDisk(p, j)
    <3>1. Inside(p) /\ birth[j].host = HostOf(p) /\ j \in files'
      BY <2>2, <2>4 DEF Inside, At, OnDisk
    <3>2. \A k \in 1..made : k # j /\ jobs'[k].status \in Unsent => jobs[k].status \in Unsent
      BY <2>1, <2>3, <2>4, PutStatus
    <3>3. \A q \in Workers \ {p} : work'[q] = work[q]
      BY <2>1, <2>4 DEF WorkSound
    <3>4. work'[p].pc = "sending" /\ work'[p].job = j
      BY <2>1, <2>4 DEF WorkSound, Stand
    <3> QED
      BY <2>2, <2>3, <3>1, <3>2, <3>3, <3>4, WorkOnDisk
  <2>5. CASE ~OnDisk(p, j)
    <3>1. \A k \in 1..made : jobs'[k].status \in Unsent => jobs[k].status \in Unsent
      BY <2>1, <2>3, <2>5, PutStatus DEF Unsent
    <3>2. \A q \in Workers : SameHands(work[q], work'[q])
      BY <2>1, <2>5 DEF WorkSound, Stand, SameHands
    <3>3. QuietDisk
      BY <2>2, <3>1, <3>2 DEF QuietDisk, StateSound
    <3> QED
      BY <3>3, QuietDiskHeld
  <2> QED
    BY <2>4, <2>5
<1>20. ASSUME NEW p \in Workers, Send(p) PROVE DiskHeld'
  <2>1. UNCHANGED <<restored, files, jobs, made>>
    BY <1>20 DEF Send, database, storage, history
  <2>2. \A q \in Workers : SameHands(work[q], work'[q])
    BY <1>20 DEF Send, Abandon, WorkSound, Stand, QuietDisk, SameHands, Stands, At, Goto, Idle, Inside, Fault, database, storage, budget, history, NoJob
  <2>3. QuietDisk
    BY <2>1, <2>2 DEF QuietDisk
  <2> QED
    BY <2>3, QuietDiskHeld DEF StateSound
<1>21. ASSUME NEW p \in Workers, MarkUploaded(p) PROVE DiskHeld'
  <2>1. UNCHANGED <<restored, files, made>>
    BY <1>21 DEF MarkUploaded, storage
  <2>2. \A q \in Workers : SameHands(work[q], work'[q])
    BY <1>21 DEF MarkUploaded, Verified, WorkSound, Stand, QuietDisk, SameHands, Stands, At, Goto, Idle, Inside, Fault, database, storage, budget, history, NoJob
  <2>3. work[p].job \in JobIds /\ 1..made \subseteq JobIds
    BY <1>21, InHand DEF MarkUploaded, Verified
  <2>4. \A k \in 1..made : jobs'[k].status \in Unsent => jobs[k].status \in Unsent
    BY <1>21, <2>3 DEF MarkUploaded, SoundJobs, Unsent
  <2>5. QuietDisk
    BY <2>1, <2>2, <2>4 DEF QuietDisk, StateSound
  <2> QED
    BY <2>5, QuietDiskHeld
<1>22. ASSUME NEW p \in Workers, SendFails(p) PROVE DiskHeld'
  <2> DEFINE j == work[p].job
  <2>1. CASE restored
    BY <1>22, <2>1 DEF SendFails, history, DiskHeld
  <2>2. CASE ~restored
    <3>1. j \in JobIds /\ j \in 1..made /\ 1..made \subseteq JobIds
      BY <1>22, InHand DEF SendFails
    <3>2. birth[j].host = HostOf(p) /\ j \in files /\ Inside(p)
      BY <1>22, <2>2 DEF SendFails, Inside, DiskHeld, OwnSend, OnDisk
    <3>3. restored' = restored /\ made' = made /\ files' = files
      BY <1>22 DEF SendFails, history, storage
    <3>4. jobs' = Put(j, "upload_failed")
      BY <1>22 DEF SendFails
    <3>5. \A k \in 1..made : k # j /\ jobs'[k].status \in Unsent => jobs[k].status \in Unsent
      BY <3>1, <3>4, PutStatus
    <3>6. (\A q \in Workers \ {p} : work'[q] = work[q]) /\ work'[p].pc = "uploading"
      BY <1>22 DEF SendFails, Goto, WorkSound, Stand
    <3> HIDE DEF j
    <3> QED
      BY <3>1, <3>2, <3>3, <3>5, <3>6, WorkOnDisk
  <2> QED
    BY <2>1, <2>2
<1>23. ASSUME NEW p \in Workers, ListLocal(p) PROVE DiskHeld'
  <2> SUFFICES ASSUME ~restored
               PROVE DiskHeld'
    BY <1>23 DEF ListLocal, history, DiskHeld
  <2> DEFINE S == KeptHere \ TopOf(KeptHere, Keep)
  <2>1. UNCHANGED <<restored, files, jobs, made, birth>>
    BY <1>23 DEF ListLocal, database, storage, history
  <2>2. work' = [work EXCEPT ![p].pc = "unlinking", ![p].todo = S]
    BY <1>23 DEF ListLocal
  <2>3. \A k \in S : jobs[k].status \notin Unsent
    BY DEF KeptHere, Unsent
  <2> HIDE DEF S
  <2>4. \A q \in Workers \ {p} : work'[q] = work[q]
    BY <2>2 DEF WorkSound
  <2>5. work'[p].pc = "unlinking" /\ work'[p].todo = S
    BY <2>2 DEF WorkSound, Stand
  <2>6. UnsentStaysOnDisk'
    BY <2>1 DEF DiskHeld, UnsentStaysOnDisk
  <2>7. ASSUME NEW q \in Workers PROVE OwnDump(q)' /\ OwnSend(q)' /\ OwnUnlink(q)'
    <3>1. CASE q = p
      BY <2>1, <2>3, <2>5, <3>1 DEF OwnDump, OwnSend, OwnUnlink, At
    <3>2. CASE q # p
      BY <2>1, <2>4, <3>2 DEF DiskHeld, OwnDump, OwnSend, OwnUnlink, At, OnDisk
    <3> QED
      BY <3>1, <3>2
  <2> QED
    BY <2>6, <2>7 DEF DiskHeld
<1>24. ASSUME NEW p \in Workers, Unlink(p) PROVE DiskHeld'
  <2> SUFFICES ASSUME ~restored
               PROVE DiskHeld'
    BY <1>24 DEF Unlink, history, DiskHeld
  <2>1. PICK j \in work[p].todo :
          /\ files' = IF birth[j].host = HostOf(p) THEN files \ {j} ELSE files
          /\ jobs' = IF Present(j) THEN [jobs EXCEPT ![j].here = FALSE] ELSE jobs
          /\ work' = [work EXCEPT ![p].todo = @ \ {j}]
    BY <1>24 DEF Unlink
  <2>2. UNCHANGED <<restored, made, birth>> /\ At(p, "unlinking")
    BY <1>24 DEF Unlink, history
  <2>3. \A k \in 1..made : jobs'[k].status = jobs[k].status
    BY <2>1, InHand DEF SoundJobs, Job
  <2>4. \A q \in Workers \ {p} : work'[q] = work[q]
    BY <2>1 DEF WorkSound
  <2>5. work'[p].pc = "unlinking" /\ work'[p].todo \subseteq work[p].todo
    BY <2>1, <2>2 DEF WorkSound, Stand, At
  <2>6. birth[j].host = HostOf(p) => jobs[j].status \notin Unsent
    BY <2>1, <2>2 DEF DiskHeld, OwnUnlink
  <2>7. UnsentStaysOnDisk'
    BY <2>1, <2>2, <2>3, <2>6 DEF DiskHeld, UnsentStaysOnDisk
  <2>8. ASSUME NEW q \in Workers PROVE OwnDump(q)'
    BY <2>2, <2>4, <2>5 DEF DiskHeld, OwnDump, At
  <2>9. ASSUME NEW q \in Workers PROVE OwnSend(q)'
    <3>1. CASE q = p
      BY <2>5, <3>1 DEF OwnSend
    <3>2. CASE q # p /\ HostOf(q) = HostOf(p)
      BY <2>2, <2>4, <3>2 DEF LockHeld, Inside, At, OwnSend
    <3>3. CASE q # p /\ HostOf(q) # HostOf(p)
      BY <2>1, <2>2, <2>4, <3>3 DEF DiskHeld, OwnSend, OnDisk
    <3> QED
      BY <3>1, <3>2, <3>3
  <2>10. ASSUME NEW q \in Workers PROVE OwnUnlink(q)'
    <3>1. At(q, "unlinking")' => At(q, "unlinking") /\ work'[q].todo \subseteq work[q].todo
      BY <2>2, <2>4, <2>5 DEF At
    <3>2. work[q].todo \subseteq 1..made
      BY DEF WorkSound, SoundStand
    <3> QED
      BY <2>2, <2>3, <3>1, <3>2 DEF DiskHeld, OwnUnlink
  <2> QED
    BY <2>7, <2>8, <2>9, <2>10 DEF DiskHeld
<1>25. ASSUME NEW p \in Workers, ListPrune(p) PROVE DiskHeld'
  <2>1. UNCHANGED <<restored, files, jobs, made>>
    BY <1>25 DEF ListPrune, database, storage, history
  <2>2. \A q \in Workers : SameHands(work[q], work'[q])
    BY <1>25 DEF ListPrune, Abandon, WorkSound, Stand, QuietDisk, SameHands, Stands, At, Goto, Idle, Inside, Fault, database, storage, budget, history, NoJob
  <2>3. QuietDisk
    BY <2>1, <2>2 DEF QuietDisk
  <2> QED
    BY <2>3, QuietDiskHeld DEF StateSound
<1>26. ASSUME NEW p \in Workers, DeleteObject(p) PROVE DiskHeld'
  <2>1. UNCHANGED <<restored, files, jobs, made>>
    BY <1>26 DEF DeleteObject, database, storage, history
  <2>2. \A q \in Workers : SameHands(work[q], work'[q])
    BY <1>26 DEF DeleteObject, Abandon, WorkSound, Stand, QuietDisk, SameHands, Stands, At, Goto, Idle, Inside, Fault, database, storage, budget, history, NoJob
  <2>3. QuietDisk
    BY <2>1, <2>2 DEF QuietDisk
  <2> QED
    BY <2>3, QuietDiskHeld DEF StateSound
<1>27. ASSUME NEW p \in Workers, DeleteFails(p) PROVE DiskHeld'
  <2>1. UNCHANGED <<restored, files, jobs, made>>
    BY <1>27 DEF DeleteFails, database, storage, history
  <2>2. \A q \in Workers : SameHands(work[q], work'[q])
    BY <1>27 DEF DeleteFails, Abandon, WorkSound, Stand, QuietDisk, SameHands, Stands, At, Goto, Idle, Inside, Fault, database, storage, budget, history, NoJob
  <2>3. QuietDisk
    BY <2>1, <2>2 DEF QuietDisk
  <2> QED
    BY <2>3, QuietDiskHeld DEF StateSound
<1>28. ASSUME NEW p \in Workers, MarkPruned(p) PROVE DiskHeld'
  <2>1. UNCHANGED <<restored, files, made>> /\ jobs' = Put(work[p].job, "pruned")
    BY <1>28 DEF MarkPruned, storage, history
  <2>2. \A q \in Workers : SameHands(work[q], work'[q])
    BY <1>28 DEF MarkPruned, Abandon, WorkSound, Stand, QuietDisk, SameHands, Stands, At, Goto, Idle, Inside, Fault, database, storage, budget, history, NoJob
  <2>3. work[p].job \in JobIds /\ 1..made \subseteq JobIds
    BY <1>28, InHand DEF MarkPruned, At
  <2>4. \A k \in 1..made : jobs'[k].status \in Unsent => jobs[k].status \in Unsent
    BY <2>1, <2>3, PutStatus DEF Unsent
  <2>5. QuietDisk
    BY <2>1, <2>2, <2>4 DEF QuietDisk, StateSound
  <2> QED
    BY <2>5, QuietDiskHeld
<1>29. ASSUME NEW p \in Workers, Pruned(p) PROVE DiskHeld'
  <2>1. UNCHANGED <<restored, files, jobs, made>>
    BY <1>29 DEF Pruned, database, storage, history
  <2>2. \A q \in Workers : SameHands(work[q], work'[q])
    BY <1>29 DEF Pruned, Abandon, WorkSound, Stand, QuietDisk, SameHands, Stands, At, Goto, Idle, Inside, Fault, database, storage, budget, history, NoJob
  <2>3. QuietDisk
    BY <2>1, <2>2 DEF QuietDisk
  <2> QED
    BY <2>3, QuietDiskHeld DEF StateSound
<1>30. ASSUME NEW late \in SUBSET Workers, Tick(late) PROVE DiskHeld'
  <2>1. UNCHANGED <<restored, files, jobs, made, work>>
    BY <1>30 DEF Tick, storage
  <2>2. QuietDisk
    BY <2>1 DEF QuietDisk, SameHands, StateSound
  <2> QED
    BY <2>2, QuietDiskHeld
<1>31. ASSUME NEW x \in Strays, StrayDumps(x) \/ StraySends(x) \/ StrayDeletes(x) \/ StrayStops(x)
       PROVE DiskHeld'
  <2>1. /\ work' = [work EXCEPT ![x] = Idle] /\ UNCHANGED <<restored, jobs, made>>
        /\ files \subseteq files'
    BY <1>31 DEF StrayDumps, StraySends, StrayDeletes, StrayStops, database, storage, history
  <2>2. \A q \in Workers : work'[q] = work[q]
    BY <2>1, Parted
  <2>3. QuietDisk
    BY <2>1, <2>2 DEF QuietDisk, SameHands, StateSound
  <2> QED
    BY <2>3, QuietDiskHeld
<1>34. ASSUME NEW x \in Strays, StrayRestores(x) PROVE DiskHeld'
  BY <1>34 DEF StrayRestores, Replace, DiskHeld
<1> QED
  BY <1>1, <1>2, <1>3, <1>4, <1>5, <1>6, <1>7, <1>8, <1>9, <1>10, <1>11, <1>13, <1>14, <1>15, <1>16, <1>17, <1>18, <1>19, <1>20, <1>21, <1>22, <1>23, <1>24, <1>25, <1>26, <1>27, <1>28, <1>29, <1>30, <1>31, <1>34
  DEF Next, Workers, Scheduling, Dumping, Uploading, Pruning, Asking, Straying

-----------------------------------------------------------------------------

LEMMA BackupsInit == Init => BackupsInv
<1> SUFFICES ASSUME Init PROVE BackupsInv
  OBVIOUS
<1>1. StateSound
  <2>1. MaxClock \in Nat /\ MaxJobs \in Nat
    BY BackupAssumption
  <2>2. lease \in Lent
    BY DEF Init, Lent
  <2>3. clock \in Times /\ made \in 0..MaxJobs
    BY <2>1 DEF Init, Times
  <2>4. DOMAIN birth = JobIds /\ DOMAIN archive = JobIds
    BY DEF Init
  <2>5. files \subseteq 1..made /\ objects \subseteq 1..made /\ restored \in BOOLEAN
    BY DEF Init
  <2> QED
    BY <2>2, <2>3, <2>4, <2>5 DEF StateSound
<1>2. SoundJobs(jobs)
  BY DEF Init, SoundJobs, Absent, Job, JobStatus
<1>3. WorkSound
  BY DEF Init, WorkSound, SoundStand, Stand, Steps, Listed, Idle, Stands, NoJob
<1>4. ArchivesSound
  BY DEF Init, ArchivesSound, InUse, Held, Idle, Stands
<1>5. \A p \in Workers : ~Inside(p) /\ work[p].pc = "idle"
  BY DEF Init, Inside, Idle, Stands
<1>6. Exclusion
  BY <1>5, BackupAssumption DEF Init, Exclusion, LeaseInUse, LockHeld, LeaseHeld
<1>7. UnsentStaysOnDisk
  BY BackupAssumption DEF Init, UnsentStaysOnDisk, JobIds
<1>8. DiskHeld
  BY <1>5, <1>7 DEF DiskHeld, OwnDump, OwnSend, OwnUnlink, At
<1> QED
  BY <1>1, <1>2, <1>3, <1>4, <1>6, <1>8 DEF BackupsInv, Exclusion

LEMMA BackupsStep == BackupsInv /\ [Next]_vars => BackupsInv'
<1> SUFFICES ASSUME BackupsInv, [Next]_vars PROVE BackupsInv'
  OBVIOUS
<1> USE DEF BackupsInv
<1>1. CASE Next
  <2>1. StateSound' /\ Grows
    BY <1>1, StateStep
  <2>2. made' \in Nat /\ made <= made'
    BY <2>1, BackupAssumption DEF StateSound, Grows
  <2>3. WorkSound'
    BY <1>1, <2>2, WorkStep
  <2>4. SoundJobs(jobs)'
    BY <1>1, JobsStep
  <2>5. ArchivesSound'
    BY <1>1, <2>1, ArchivesStep
  <2>6. Exclusion'
    BY <1>1, ExclusionStep DEF Exclusion
  <2>7. DiskHeld'
    BY <1>1, <2>1, <2>2, DiskStep
  <2> QED
    BY <2>1, <2>3, <2>4, <2>5, <2>6, <2>7 DEF Exclusion
<1>2. CASE UNCHANGED vars
  <2> USE <1>2 DEF vars, database, storage, budget, history
  <2>1. StateSound' /\ SoundJobs(jobs)'
    BY DEF StateSound, SoundJobs
  <2>2. WorkSound' /\ ArchivesSound'
    BY DEF WorkSound, ArchivesSound, InUse, SoundArchive, SoundJobs
  <2>3. LeaseInUse' /\ LockHeld' /\ LeaseHeld'
    BY DEF LeaseInUse, LockHeld, LeaseHeld, Inside
  <2>4. DiskHeld'
    BY DEF DiskHeld, UnsentStaysOnDisk, OwnDump, OwnSend, OwnUnlink, OnDisk, At
  <2> QED
    BY <2>1, <2>2, <2>3, <2>4
<1> QED
  BY <1>1, <1>2

\* The invariant holds in every state: what the jobs, archives, lock file and
\* lease are while processes of any hosts dump, upload, prune and crash.
THEOREM BackupsInvariance == Spec => []BackupsInv
  BY BackupsInit, BackupsStep, PTL DEF Spec

\* Every state of the backup scheduler has the shape its runs are checked
\* for: jobs that were begun, files and objects of them, and a process
\* outside the lease has nothing in hand.
THEOREM BackupsTypeCorrect == Spec => []BackupsTypeOK
<1>1. BackupsInv => BackupsTypeOK
  <2> SUFFICES ASSUME BackupsInv PROVE BackupsTypeOK
    OBVIOUS
  <2>1. clock \in Times /\ made \in 0..MaxJobs /\ files \subseteq 1..made /\ objects \subseteq 1..made
    BY DEF BackupsInv, StateSound
  <2>2. \A j \in JobIds : /\ jobs[j].status \in JobStatus /\ jobs[j].since <= clock
                          /\ Present(j) => j <= made
    BY DEF BackupsInv, SoundJobs, Job, Present
  <2>3. \A p \in Hands : work[p].todo \subseteq 1..made /\ work[p].job \in 0..made
    BY <2>1, BackupAssumption DEF BackupsInv, WorkSound, SoundStand, Stand
  <2>4. \A p \in Hands : ~Inside(p) => work[p].todo = {}
    BY DEF BackupsInv, WorkSound, SoundStand, Inside, Listed
  <2> QED
    BY <2>1, <2>2, <2>3, <2>4 DEF BackupsTypeOK, BackupsInv, LeaseInUse
<1> QED
  BY <1>1, BackupsInvariance, PTL

\* Two are at work at the same time only after one of them stood still past a
\* heartbeat, or a restore replaced the lease, or when one of them is a stray
\* that its cancelled or killed coroutine left behind, whatever the hosts, the
\* durations and the crashes (exclusive_lock, distributed_lease).
THEOREM ExclusiveBackupsCorrect == Spec => []ExclusiveBackups
<1>1. BackupsInv => ExclusiveBackups
  BY DEF BackupsInv, LeaseHeld, ExclusiveBackups
<1> QED
  BY <1>1, BackupsInvariance, PTL

\* backup_jobs never holds two dumps of one slot: run_slot's look for one
\* that is there, and the unique index on schedule_id.
THEOREM OneDumpPerSlotCorrect == Spec => []OneDumpPerSlot
<1>1. BackupsInv => OneDumpPerSlot
  <2> SUFFICES ASSUME BackupsInv PROVE OneDumpPerSlot
    OBVIOUS
  <2>1. 1..made \subseteq JobIds
    BY InHand, BackupAssumption DEF BackupsInv, StateSound, JobIds
  <2> QED
    BY <2>1 DEF BackupsInv, SoundJobs, OneDumpPerSlot, Present
<1> QED
  BY <1>1, BackupsInvariance, PTL

\* An archive that is not in the bucket yet stays on its disk while the
\* database is not restored: prune_local unlinks only what was uploaded, and
\* the lock file of the host keeps it from running beside a dump or an upload.
THEOREM UnsentStaysOnDiskCorrect == Spec => []UnsentStaysOnDisk
<1>1. BackupsInv => UnsentStaysOnDisk
  BY DEF BackupsInv, DiskHeld, UnsentStaysOnDisk
<1> QED
  BY <1>1, BackupsInvariance, PTL

=============================================================================
