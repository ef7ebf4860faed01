-------------------------- MODULE RetentionProofs --------------------------
(***************************************************************************)
(* What the scheduled backups keep, for any workers, hosts, times, number  *)
(* of backups and of faults: a completed slot has its backup, and pruning  *)
(* leaves one that can be restored.                                        *)
(***************************************************************************)
EXTENDS BackupProofs, FiniteSetTheorems

USE DEF Hands

(***************************************************************************)
(* The slots.  A job says "dumping" as long as the one process that dumps  *)
(* it does; once dumped it has an archive, unless an upload missed it.     *)
(***************************************************************************)

Slot == [status : {"none", "running", "failed", "completed"}, until : Nat]

Carried(j) == jobs[j].status \notin {"none", "dumping"}

HasArchive(j) ==
  Present(j) /\ (jobs[j].status \in Successful \cup Unsent \/ j \in misplaced)

Backed(s) == \E j \in 1..made : birth[j].slot = s /\ HasArchive(j)

Completed(s) == slots[s].status = "completed"

OwnJob(p) ==
  At(p, "dumping") =>
    /\ jobs[work[p].job].status = "dumping"
    /\ work[p].what # "run" => birth[work[p].job].slot = SlotAt(work[p].at)

DumpsApart(p, q) ==
  p # q /\ At(p, "dumping") /\ At(q, "dumping") => work[p].job # work[q].job

CarriesDumped(p) ==
  /\ \A j \in work[p].todo : Carried(j)
  /\ work[p].pc \in {"sending", "sent", "deleted"} => Carried(work[p].job)

Promises(p) == At(p, "finishing") /\ work[p].what = "dump" => Backed(SlotAt(work[p].at))

SlotsHeld ==
  ~restored =>
    /\ slots \in [Times -> Slot]
    /\ \A s \in Times : Completed(s) => Backed(s)
    /\ \A p \in Workers : OwnJob(p) /\ CarriesDumped(p) /\ Promises(p)
    /\ \A p, q \in Workers : DumpsApart(p, q)

(***************************************************************************)
(* The bucket.  What a process may still send was not uploaded before, and *)
(* whatever a process or a stray removes from the bucket, or is marked as  *)
(* uploaded although it is not there any more, has Keep newer backups.     *)
(***************************************************************************)

Safe == (Uploaded \cup misplaced) \cap objects
Newer(j) == {k \in Safe : k > j}
KeepNewer(j) == Cardinality(Newer(j)) >= Keep

\* What p sends or, its archive being on its disk, may come to send.
Sending(p) ==
  {j \in work[p].todo : work[p].pc \in {"uploading", "sending", "sent"} /\ birth[j].host = HostOf(p)}
    \cup {j \in {work[p].job} : work[p].pc \in {"sending", "sent"}}

\* What p removes from the bucket, or is about to mark as pruned.
Removing(p) ==
  {j \in work[p].todo : work[p].pc \in {"pruning", "deleted"}}
    \cup {j \in {work[p].job} : At(p, "deleted")}

SendsFresh(p) == \A j \in Sending(p) : jobs[j].status \notin {"uploaded", "pruned"}
RemovesOld(p) == \A j \in Removing(p) : jobs[j].status \in {"uploaded", "pruned", "failed"}
SendsOnce(p) == work[p].pc \in {"sending", "sent"} => work[p].job \notin work[p].todo
RemovesSpare(p) == \A j \in Removing(p) : KeepNewer(j)
Delivered(p) == At(p, "sent") => work[p].job \in objects

Apart == \A p \in Workers, q \in Hands : Sending(p) \cap Removing(q) = {}

BucketHeld ==
  ~restored =>
    /\ misplaced \subseteq 1..made
    /\ \A j \in Uploaded \ objects : KeepNewer(j)
    /\ sent => Safe # {}
    /\ \A p \in Workers : SendsFresh(p) /\ SendsOnce(p) /\ Delivered(p)
    /\ \A q \in Hands : RemovesOld(q) /\ RemovesSpare(q)
    /\ Apart

RetentionInv == BackupsInv /\ SlotsHeld /\ BucketHeld

-----------------------------------------------------------------------------
(* Steps that touch no job and no object. *)

\* A stray only takes over what somebody was removing.
NoMoreRemoved == \A x \in Strays : \E q \in Hands : Removing(x)' \subseteq Removing(q)

\* Who moves holds no job afterwards, or did not change what it holds.
Resting ==
  /\ UNCHANGED <<jobs, objects, misplaced, sent, made, birth, restored>>
  /\ slots' \in [Times -> Slot]
  /\ \A s \in Times : Completed(s)' => Completed(s) \/ Backed(s)
  /\ \A q \in Workers :
       \/ work'[q] = work[q]
       \/ /\ work'[q].pc \notin Listed \cup {"dumping"}
          /\ work'[q].pc = "finishing" /\ work'[q].what = "dump" => Backed(SlotAt(work'[q].at))
  /\ NoMoreRemoved

\* The steps that do.
Busy(p) ==
  \/ InsertJob(p) /\ made' # made
  \/ DumpDone(p) \/ DumpFails(p)
  \/ Uploading(p)
  \/ ListLocal(p) \/ Unlink(p) \/ ListPrune(p) \/ DeleteObject(p) \/ MarkPruned(p)

\* Calls to the bucket that nobody waits for any more.
Loose(x) == StraySends(x) \/ StrayDeletes(x)

\* A slot marked while or after it was worked on.
LEMMA SlotMarked ==
  ASSUME slots \in [Times -> Slot], NEW s, NEW c \in Slot,
         slots' = [slots EXCEPT ![s] = c]
  PROVE /\ slots' \in [Times -> Slot]
        /\ \A t \in Times : Completed(t)' => Completed(t) \/ (t = s /\ c.status = "completed")
BY DEF Completed

LEMMA FinishTyped ==
  ASSUME slots \in [Times -> Slot], NEW p \in Workers,
         NEW status \in {"failed", "completed"}, FinishSlot(p, status)
  PROVE /\ slots' \in [Times -> Slot]
        /\ \A t \in Times :
             Completed(t)' => \/ Completed(t)
                              \/ /\ status = "completed" /\ work[p].what = "dump"
                                 /\ t = SlotAt(work[p].at)
<1> DEFINE s == SlotAt(work[p].at)
<1>1. CASE work[p].what = "dump"
  <2>1. slots' = [slots EXCEPT ![s] = Finished(@, status)]
    BY <1>1 DEF FinishSlot
  <2>2. CASE s \in Times
    <3> DEFINE c == Finished(slots[s], status)
    <3>1. c \in Slot /\ (c.status = "completed" => status = "completed" \/ Completed(s))
      BY <2>2 DEF Finished, Slot, Completed
    <3>2. slots' = [slots EXCEPT ![s] = c]
      BY <2>1
    <3> HIDE DEF c, s
    <3>3. /\ slots' \in [Times -> Slot]
          /\ \A t \in Times : Completed(t)' => Completed(t) \/ (t = s /\ c.status = "completed")
      BY <3>1, <3>2, SlotMarked
    <3> QED
      BY <1>1, <3>1, <3>3 DEF s
  <2>3. CASE s \notin Times
    BY <2>1, <2>3 DEF Completed
  <2> QED
    BY <2>2, <2>3
<1>2. CASE work[p].what # "dump"
  BY <1>2 DEF FinishSlot, Completed
<1> QED
  BY <1>1, <1>2

\* p holds no job and has no backup to answer for.
EmptyHanded(p) ==
  /\ work[p].pc \notin Listed \cup {"dumping"}
  /\ At(p, "finishing") => work[p].what # "dump"

LEMMA SettledBacked ==
  ASSUME NEW s, Settled(s)
  PROVE Backed(s)
BY DEF Settled, JobsOf, Backed, HasArchive

LEMMA StraysStay ==
  ASSUME \A x \in Strays : work'[x] = work[x]
  PROVE NoMoreRemoved
<1>1. \A x \in Strays : Removing(x)' = Removing(x)
  BY DEF Removing, At
<1> QED
  BY <1>1 DEF NoMoreRemoved

LEMMA StrayEnds ==
  ASSUME NEW x \in Strays, work'[x] = Idle, \A q \in Hands \ {x} : work'[q] = work[q]
  PROVE NoMoreRemoved
<1>1. \A y \in Strays \ {x} : Removing(y)' = Removing(y)
  BY DEF Removing, At
<1>2. Removing(x)' = {}
  BY DEF Removing, At, Idle, Stands
<1> QED
  BY <1>1, <1>2 DEF NoMoreRemoved

LEMMA StrayTakesOver ==
  ASSUME BackupsInv, NEW p \in Workers, CutOff(p)
  PROVE NoMoreRemoved
<1> SUFFICES ASSUME NEW x \in Strays PROVE \E q \in Hands : Removing(x)' \subseteq Removing(q)
  BY DEF NoMoreRemoved
<1>1. CASE work'[x] = work[x]
  BY <1>1 DEF Removing, At
<1>2. CASE RunsOn(work[p]) /\ work'[x] = Alone(work[p])
  <2>1. work'[x].pc = work[p].pc /\ work'[x].todo \subseteq work[p].todo
    BY <1>2, AloneSound DEF BackupsInv, WorkSound
  <2>2. work[p].pc # "deleted"
    BY <1>2 DEF RunsOn
  <2>3. Removing(x)' \subseteq Removing(p)
    BY <2>1, <2>2 DEF Removing, At
  <2> QED
    BY <2>3
<1> QED
  BY <1>1, <1>2 DEF CutOff

\* A step either touches jobs or objects in one of the ways below, or rests.
LEMMA RestingStep ==
  ASSUME BackupsInv, SlotsHeld, Next, ~restored'
  PROVE Resting \/ (\E p \in Workers : Busy(p)) \/ (\E x \in Strays : Loose(x))
<1> SUFFICES ASSUME \A p \in Workers : ~Busy(p), \A x \in Strays : ~Loose(x) PROVE Resting
  OBVIOUS
<1> USE BackupAssumption
    DEF BackupsInv, WorkSound, Stand, Stands, At, Goto, Idle, Fault, database, storage, budget, history
<1>1. restored \in BOOLEAN /\ clock \in Nat
  BY DEF StateSound, Times
<1>2. ASSUME ~restored PROVE slots \in [Times -> Slot] /\ \A p \in Workers : Promises(p)
  BY <1>2 DEF SlotsHeld
<1>11. ASSUME NEW p \in Workers, PollDump(p) PROVE Resting
  <2>1. UNCHANGED <<jobs, objects, misplaced, sent, made, birth, restored>> /\ ~restored
    BY <1>11 DEF PollDump
  <2>2. \A q \in Hands : q # p => work'[q] = work[q]
    BY <1>11 DEF PollDump
  <2>3. EmptyHanded(p)'
    BY <1>11 DEF EmptyHanded, PollDump, Listed
  <2>4. slots' \in [Times -> Slot] /\ \A s \in Times : Completed(s)' => Completed(s)
    <3>1. slots' = [slots EXCEPT ![SlotAt(clock)] = Claimed(clock)]
      BY <1>11 DEF PollDump
    <3>2. Claimed(clock) \in Slot /\ Claimed(clock).status # "completed"
      BY <1>1 DEF Claimed, Slot
    <3> QED
      BY <1>2, <2>1, <3>1, <3>2, SlotMarked
  <2> QED
    BY <2>1, <2>2, <2>3, <2>4, StraysStay DEF Resting, EmptyHanded
<1>12. ASSUME NEW p \in Workers, PollTask(p) PROVE Resting
  <2>1. UNCHANGED <<jobs, objects, misplaced, sent, made, birth, restored>> /\ ~restored
    BY <1>12 DEF PollTask
  <2>2. \A q \in Hands : q # p => work'[q] = work[q]
    BY <1>12 DEF PollTask
  <2>3. EmptyHanded(p)'
    BY <1>12 DEF EmptyHanded, PollTask, Listed
  <2>4. slots' \in [Times -> Slot] /\ \A s \in Times : Completed(s)' => Completed(s)
    BY <1>12, <1>2, <2>1 DEF PollTask, Completed
  <2> QED
    BY <2>1, <2>2, <2>3, <2>4, StraysStay DEF Resting, EmptyHanded
<1>13. ASSUME NEW p \in Workers, FinishFailed(p) PROVE Resting
  <2>1. UNCHANGED <<jobs, objects, misplaced, sent, made, birth, restored>> /\ ~restored
    BY <1>13 DEF FinishFailed
  <2>2. \A q \in Hands : q # p => work'[q] = work[q]
    BY <1>13 DEF FinishFailed, Onward
  <2>3. EmptyHanded(p)'
    BY <1>13 DEF EmptyHanded, FinishFailed, Onward, Listed
  <2>4. slots' \in [Times -> Slot] /\ \A s \in Times : Completed(s)' => Completed(s)
    <3>1. FinishSlot(p, "failed")
      BY <1>13 DEF FinishFailed
    <3> QED
      BY <1>2, <2>1, <3>1, FinishTyped
  <2> QED
    BY <2>1, <2>2, <2>3, <2>4, StraysStay DEF Resting, EmptyHanded
<1>14. ASSUME NEW p \in Workers, FinishDone(p) PROVE Resting
  <2>1. UNCHANGED <<jobs, objects, misplaced, sent, made, birth, restored>> /\ ~restored
    BY <1>14 DEF FinishDone
  <2>2. \A q \in Hands : q # p => work'[q] = work[q]
    BY <1>14 DEF FinishDone
  <2>3. work'[p].pc = "leaving"
    BY <1>14 DEF FinishDone, Listed
  <2>4. slots' \in [Times -> Slot] /\ \A s \in Times : Completed(s)' => Completed(s) \/ Backed(s)
    <3>1. FinishSlot(p, "completed") /\ At(p, "finishing")
      BY <1>14 DEF FinishDone
    <3> QED
      BY <1>2, <2>1, <3>1, FinishTyped DEF Promises
  <2> QED
    BY <2>1, <2>2, <2>3, <2>4, StraysStay DEF Resting, Listed
<1>15. ASSUME NEW p \in Workers, AskRun(p) PROVE Resting
  <2>1. UNCHANGED <<jobs, objects, misplaced, sent, made, birth, restored>> /\ ~restored
    BY <1>15 DEF AskRun
  <2>2. \A q \in Hands : q # p => work'[q] = work[q]
    BY <1>15 DEF AskRun
  <2>3. EmptyHanded(p)'
    BY <1>15 DEF EmptyHanded, AskRun, Listed
  <2>4. slots' \in [Times -> Slot] /\ \A s \in Times : Completed(s)' => Completed(s)
    BY <1>15, <1>2, <2>1 DEF AskRun, Completed
  <2> QED
    BY <2>1, <2>2, <2>3, <2>4, StraysStay DEF Resting, EmptyHanded
<1>16. ASSUME NEW p \in Workers, NEW j \in 1..made, AskRestore(p, j) PROVE Resting
  <2>1. UNCHANGED <<jobs, objects, misplaced, sent, made, birth, restored>> /\ ~restored
    BY <1>16 DEF AskRestore
  <2>2. \A q \in Hands : q # p => work'[q] = work[q]
    BY <1>16 DEF AskRestore
  <2>3. EmptyHanded(p)'
    BY <1>16 DEF EmptyHanded, AskRestore, Listed
  <2>4. slots' \in [Times -> Slot] /\ \A s \in Times : Completed(s)' => Completed(s)
    BY <1>16, <1>2, <2>1 DEF AskRestore, Completed
  <2> QED
    BY <2>1, <2>2, <2>3, <2>4, StraysStay DEF Resting, EmptyHanded
<1>17. ASSUME NEW p \in Workers, CheckRestore(p) PROVE Resting
  <2>1. UNCHANGED <<jobs, objects, misplaced, sent, made, birth, restored>> /\ ~restored
    BY <1>17 DEF CheckRestore
  <2>2. \A q \in Hands : q # p => work'[q] = work[q]
    BY <1>17 DEF CheckRestore, Abandon
  <2>3. EmptyHanded(p)'
    BY <1>17 DEF EmptyHanded, CheckRestore, Abandon, Listed
  <2>4. slots' \in [Times -> Slot] /\ \A s \in Times : Completed(s)' => Completed(s)
    BY <1>17, <1>2, <2>1 DEF CheckRestore, Completed
  <2> QED
    BY <2>1, <2>2, <2>3, <2>4, StraysStay DEF Resting, EmptyHanded
<1>18. ASSUME NEW p \in Workers, Restore(p) PROVE Resting
  BY <1>18 DEF Restore, Replace
<1>19. ASSUME NEW p \in Workers, Enter(p) PROVE Resting
  <2>1. UNCHANGED <<jobs, objects, misplaced, sent, made, birth, restored>> /\ ~restored
    BY <1>19 DEF Enter
  <2>2. Failed(p).pc \in {"idle", "failing"}
    BY FailedSound DEF StateSound
  <2>3. Start(work[p].what) \in {"looking", "inserting", "listing", "checking"}
    BY <1>19 DEF Enter, Start, SoundStand, Whats
  <2>4. \A q \in Hands : q # p => work'[q] = work[q]
    BY <1>19 DEF Enter
  <2>5. EmptyHanded(p)'
    BY <1>19, <2>2, <2>3 DEF EmptyHanded, Enter, Listed
  <2>6. slots' \in [Times -> Slot] /\ \A s \in Times : Completed(s)' => Completed(s)
    BY <1>19, <1>2, <2>1 DEF Enter, Completed
  <2> QED
    BY <2>1, <2>4, <2>5, <2>6, StraysStay DEF Resting, EmptyHanded
<1>20. ASSUME NEW p \in Workers, Leave(p) PROVE Resting
  <2>1. UNCHANGED <<jobs, objects, misplaced, sent, made, birth, restored>> /\ ~restored
    BY <1>20 DEF Leave
  <2>2. \A q \in Hands : q # p => work'[q] = work[q]
    BY <1>20 DEF Leave
  <2>3. EmptyHanded(p)'
    <3>1. Failed(p).pc \in {"idle", "failing"} /\ Onward(p).pc \in {"idle", "next"}
      BY FailedSound DEF StateSound, Onward
    <3> QED
      BY <1>20, <3>1 DEF EmptyHanded, Leave, Listed
  <2>4. slots' \in [Times -> Slot] /\ \A s \in Times : Completed(s)' => Completed(s)
    BY <1>20, <1>2, <2>1 DEF Leave, Completed
  <2> QED
    BY <2>1, <2>2, <2>3, <2>4, StraysStay DEF Resting, EmptyHanded
<1>21. ASSUME NEW p \in Workers, Cancel(p) \/ Crash(p) PROVE Resting
  <2>1. CutOff(p)
    BY <1>21, Ended
  <2>2. UNCHANGED <<jobs, slots, objects, misplaced, sent, made, birth, restored>> /\ ~restored
    BY <2>1 DEF CutOff
  <2>3. \A q \in Workers : q # p => work'[q] = work[q]
    BY <2>1 DEF CutOff
  <2>4. EmptyHanded(p)'
    BY <2>1 DEF CutOff, EmptyHanded, Listed
  <2>5. NoMoreRemoved
    BY <2>1, StrayTakesOver
  <2> QED
    BY <1>2, <2>2, <2>3, <2>4, <2>5 DEF Resting, EmptyHanded, Completed
<1>23. ASSUME NEW p \in Workers, Look(p) PROVE Resting
  <2>1. UNCHANGED <<jobs, objects, misplaced, sent, made, birth, restored>> /\ ~restored
    BY <1>23 DEF Look
  <2>2. \A q \in Hands : q # p => work'[q] = work[q]
    BY <1>23 DEF Look, Abandon
  <2>3. work'[p].pc \notin Listed \cup {"dumping"}
    BY <1>23 DEF Look, Abandon, Listed
  <2>4. work'[p].pc = "finishing" => Backed(SlotAt(work'[p].at))
    BY <1>23, SettledBacked DEF Look, Abandon
  <2>5. slots' = slots
    BY <1>23 DEF Look
  <2> QED
    BY <1>2, <2>1, <2>2, <2>3, <2>4, <2>5, StraysStay DEF Resting, Completed
<1>24. ASSUME NEW p \in Workers, InsertJob(p) PROVE Resting
  <2>1. made \in Nat /\ made' = made
    BY <1>24 DEF StateSound, Busy
  <2>2. made' = made + 1 \/ (Abandon(p) /\ UNCHANGED <<birth, jobs>>)
    BY <1>24, Zenon DEF InsertJob
  <2>3. Abandon(p) /\ UNCHANGED <<birth, jobs>>
    <3> HIDE DEF Abandon
    <3> QED
      BY <2>1, <2>2
  <2>4. UNCHANGED <<jobs, objects, misplaced, sent, made, birth, restored>> /\ ~restored
    BY <1>24, <2>1, <2>3 DEF InsertJob
  <2>5. \A q \in Hands : q # p => work'[q] = work[q]
    BY <2>3 DEF Abandon
  <2>6. EmptyHanded(p)'
    BY <2>3 DEF EmptyHanded, Abandon, Listed
  <2>7. slots' \in [Times -> Slot] /\ \A s \in Times : Completed(s)' => Completed(s)
    BY <1>24, <1>2, <2>4 DEF InsertJob, Completed
  <2> QED
    BY <2>4, <2>5, <2>6, <2>7, StraysStay DEF Resting, EmptyHanded
<1>25. ASSUME NEW p \in Workers, DumpRefused(p) PROVE Resting
  <2>1. UNCHANGED <<jobs, objects, misplaced, sent, made, birth, restored>> /\ ~restored
    BY <1>25 DEF DumpRefused
  <2>2. \A q \in Hands : q # p => work'[q] = work[q]
    BY <1>25 DEF DumpRefused, Abandon
  <2>3. EmptyHanded(p)'
    BY <1>25 DEF EmptyHanded, DumpRefused, Abandon, Listed
  <2>4. slots' \in [Times -> Slot] /\ \A s \in Times : Completed(s)' => Completed(s)
    BY <1>25, <1>2, <2>1 DEF DumpRefused, Completed
  <2> QED
    BY <2>1, <2>2, <2>3, <2>4, StraysStay DEF Resting, EmptyHanded
<1>26. ASSUME NEW p \in Workers, DeleteFails(p) PROVE Resting
  <2>1. UNCHANGED <<jobs, objects, misplaced, sent, made, birth, restored>> /\ ~restored
    BY <1>26 DEF DeleteFails
  <2>2. \A q \in Hands : q # p => work'[q] = work[q]
    BY <1>26 DEF DeleteFails, Abandon
  <2>3. EmptyHanded(p)'
    BY <1>26 DEF EmptyHanded, DeleteFails, Abandon, Listed
  <2>4. slots' \in [Times -> Slot] /\ \A s \in Times : Completed(s)' => Completed(s)
    BY <1>26, <1>2, <2>1 DEF DeleteFails, Completed
  <2> QED
    BY <2>1, <2>2, <2>3, <2>4, StraysStay DEF Resting, EmptyHanded
<1>27. ASSUME NEW p \in Workers, Pruned(p) PROVE Resting
  <2>1. UNCHANGED <<jobs, objects, misplaced, sent, made, birth, restored>> /\ ~restored
    BY <1>27 DEF Pruned
  <2>2. \A q \in Hands : q # p => work'[q] = work[q]
    BY <1>27 DEF Pruned
  <2>3. EmptyHanded(p)'
    BY <1>27 DEF EmptyHanded, Pruned, Listed
  <2>4. slots' \in [Times -> Slot] /\ \A s \in Times : Completed(s)' => Completed(s)
    BY <1>27, <1>2, <2>1 DEF Pruned, Completed
  <2> QED
    BY <2>1, <2>2, <2>3, <2>4, StraysStay DEF Resting, EmptyHanded
<1>28. ASSUME NEW late \in SUBSET Workers, Tick(late) PROVE Resting
  <2>1. UNCHANGED <<jobs, objects, misplaced, sent, made, birth, restored>> /\ ~restored
    BY <1>28 DEF Tick
  <2>2. work' = work /\ slots' = slots
    BY <1>28 DEF Tick
  <2> QED
    BY <1>2, <2>1, <2>2, StraysStay DEF Resting, Completed
<1>31. ASSUME NEW x \in Strays, StrayDumps(x) \/ StrayStops(x) PROVE Resting
  <2>1. UNCHANGED <<jobs, slots, objects, misplaced, sent, made, birth, restored>> /\ ~restored
    BY <1>31 DEF StrayDumps, StrayStops
  <2>2. work'[x] = Idle /\ \A q \in Hands \ {x} : work'[q] = work[q]
    BY <1>31, Parted DEF StrayDumps, StrayStops
  <2>3. NoMoreRemoved
    BY <2>2, StrayEnds
  <2> QED
    BY <1>2, <2>1, <2>2, <2>3 DEF Resting, Completed
<1>32. ASSUME NEW x \in Strays, StrayRestores(x) PROVE Resting
  BY <1>32 DEF StrayRestores, Replace
<1> QED
  BY <1>11, <1>12, <1>13, <1>14, <1>15, <1>16, <1>17, <1>18, <1>19, <1>20, <1>21, <1>23, <1>24, <1>25, <1>26, <1>27, <1>28, <1>31, <1>32
  DEF Next, Workers, Scheduling, Dumping, Uploading, Pruning, Asking, Straying, Busy, Loose

-----------------------------------------------------------------------------
(* What the other steps change: the status of one job, the hands of one    *)
(* process.                                                                *)

OneStatus(j, s) ==
  /\ \A k \in 1..made : k # j => jobs'[k].status = jobs[k].status
  /\ jobs'[j].status = s

OthersStay(p) == \A q \in Hands : q # p => work'[q] = work[q]

\* What stays as it is while a job changes.
Around == UNCHANGED <<slots, birth, made, restored>>

LEMMA PutOne ==
  ASSUME SoundJobs(jobs), NEW j \in JobIds, 1..made \subseteq JobIds, Present(j),
         NEW s, jobs' = Put(j, s)
  PROVE OneStatus(j, s)
BY DEF Put, SoundJobs, Job, OneStatus

LEMMA HandsKnown ==
  ASSUME BackupsInv, NEW p \in Hands
  PROVE /\ 1..made \subseteq JobIds /\ work[p].todo \subseteq JobIds
        /\ work[p].todo \subseteq 1..made
        /\ work[p].pc \in {"dumping", "sending", "sent", "deleted"} =>
             work[p].job \in JobIds /\ work[p].job \in 1..made
        /\ work[p] \in Stand
        /\ made \in Nat
<1>1. made \in Nat
  BY BackupAssumption DEF BackupsInv, StateSound
<1> QED
  BY <1>1, InHand DEF BackupsInv, WorkSound, SoundStand

LEMMA DumpDoneEffect ==
  ASSUME BackupsInv, SlotsHeld, ~restored, NEW p \in Workers, DumpDone(p)
  PROVE /\ OthersStay(p) /\ Around /\ UNCHANGED <<objects, misplaced, sent>>
        /\ OneStatus(work[p].job, "pending_upload") /\ jobs[work[p].job].status = "dumping"
        /\ At(p, "dumping")
        /\ work'[p] = [work[p] EXCEPT !.pc = IF work[p].what = "run" THEN "listing" ELSE "finishing"]
<1>1. work[p].job \in JobIds /\ 1..made \subseteq JobIds /\ At(p, "dumping")
  BY HandsKnown DEF DumpDone, At
<1>2. jobs[work[p].job].status = "dumping"
  BY <1>1 DEF SlotsHeld, OwnJob
<1>3. OneStatus(work[p].job, "pending_upload")
  BY <1>1, <1>2, PutOne DEF DumpDone, Present, BackupsInv
<1> QED
  BY <1>1, <1>2, <1>3 DEF DumpDone, OthersStay, Around, Goto, history, BackupsInv, WorkSound, Stand

LEMMA DumpFailsEffect ==
  ASSUME BackupsInv, SlotsHeld, ~restored, NEW p \in Workers, DumpFails(p)
  PROVE /\ OthersStay(p) /\ Around /\ UNCHANGED <<objects, misplaced, sent>>
        /\ OneStatus(work[p].job, "failed") /\ jobs[work[p].job].status = "dumping"
        /\ At(p, "dumping")
        /\ work'[p].pc = "erring" /\ work'[p].todo = {}
<1>1. work[p].job \in JobIds /\ 1..made \subseteq JobIds /\ At(p, "dumping")
  BY HandsKnown DEF DumpFails, At
<1>2. jobs[work[p].job].status = "dumping"
  BY <1>1 DEF SlotsHeld, OwnJob
<1>3. OneStatus(work[p].job, "failed")
  BY <1>1, <1>2, PutOne DEF DumpFails, Present, BackupsInv
<1> QED
  BY <1>1, <1>2, <1>3 DEF DumpFails, Abandon, OthersStay, Around, history, storage, BackupsInv, WorkSound, Stand

LEMMA InsertEffect ==
  ASSUME BackupsInv, NEW p \in Workers, InsertJob(p), made' # made
  PROVE /\ OthersStay(p) /\ UNCHANGED <<slots, restored, objects, misplaced, sent>>
        /\ made' = made + 1
        /\ \A k \in 1..made : jobs'[k].status = jobs[k].status /\ birth'[k] = birth[k]
        /\ jobs'[made + 1].status = "dumping"
        /\ work[p].what # "run" => birth'[made + 1].slot = SlotAt(work[p].at)
        /\ work'[p] = [work[p] EXCEPT !.pc = "dumping", !.job = made + 1]
<1>1. /\ made' = made + 1 /\ UNCHANGED <<slots, restored, objects, misplaced, sent>>
      /\ work' = [work EXCEPT ![p].pc = "dumping", ![p].job = made + 1]
      /\ jobs' = [jobs EXCEPT ![made + 1] = [status |-> "dumping", since |-> 0, here |-> FALSE]]
      /\ birth' = [birth EXCEPT ![made + 1] =
                     [slot |-> IF work[p].what = "run" THEN Asked ELSE SlotAt(work[p].at),
                      host |-> HostOf(p)]]
  BY DEF InsertJob, history
<1>2. made + 1 \in JobIds
  BY HandsKnown, BackupAssumption DEF InsertJob, JobIds
<1>3. \A k \in 1..made : k # made + 1
  BY HandsKnown
<1> QED
  BY <1>1, <1>2, <1>3 DEF OthersStay, BackupsInv, StateSound, SoundJobs, WorkSound, Stand

LEMMA TakeEffect ==
  ASSUME BackupsInv, SlotsHeld, ~restored, NEW p \in Workers, TakeUpload(p)
  PROVE \E j \in work[p].todo :
          /\ OthersStay(p) /\ Around /\ UNCHANGED <<objects, sent>>
          /\ At(p, "uploading")
          /\ \/ /\ OnDisk(p, j) /\ OneStatus(j, "uploading") /\ misplaced' = misplaced
                /\ work'[p] = [work[p] EXCEPT !.pc = "sending", !.job = j, !.todo = @ \ {j}]
             \/ /\ OneStatus(j, "failed") /\ misplaced' = misplaced \cup {j}
                /\ work'[p] = [work[p] EXCEPT !.todo = @ \ {j}]
<1>1. PICK j \in work[p].todo :
        IF OnDisk(p, j)
        THEN /\ jobs' = Put(j, "uploading")
             /\ work' = [work EXCEPT ![p].pc = "sending", ![p].job = j, ![p].todo = @ \ {j}]
             /\ UNCHANGED misplaced
        ELSE /\ jobs' = Put(j, "failed")
             /\ work' = [work EXCEPT ![p].todo = @ \ {j}]
             /\ misplaced' = misplaced \cup {j}
  BY DEF TakeUpload
<1>2. At(p, "uploading") /\ Around /\ UNCHANGED <<objects, sent>>
  BY DEF TakeUpload, Around, storage
<1>3. j \in JobIds /\ 1..made \subseteq JobIds
  BY HandsKnown
<1>4. Present(j)
  BY <1>2 DEF SlotsHeld, CarriesDumped, Carried, Present
<1>5. jobs' = Put(j, "uploading") => OneStatus(j, "uploading")
  BY <1>3, <1>4, PutOne DEF BackupsInv
<1>6. jobs' = Put(j, "failed") => OneStatus(j, "failed")
  BY <1>3, <1>4, PutOne DEF BackupsInv
<1>7. OthersStay(p)
  BY <1>1 DEF OthersStay, BackupsInv, WorkSound
<1>8. \/ /\ OnDisk(p, j) /\ OneStatus(j, "uploading") /\ misplaced' = misplaced
         /\ work'[p] = [work[p] EXCEPT !.pc = "sending", !.job = j, !.todo = @ \ {j}]
      \/ /\ OneStatus(j, "failed") /\ misplaced' = misplaced \cup {j}
         /\ work'[p] = [work[p] EXCEPT !.todo = @ \ {j}]
  BY <1>1, <1>5, <1>6 DEF BackupsInv, WorkSound, Stand
<1> QED
  BY <1>2, <1>7, <1>8

LEMMA MarkUploadedEffect ==
  ASSUME BackupsInv, SlotsHeld, ~restored, NEW p \in Workers, MarkUploaded(p)
  PROVE /\ OthersStay(p) /\ Around /\ UNCHANGED <<objects, misplaced>>
        /\ At(p, "sent") /\ OneStatus(work[p].job, "uploaded") /\ Carried(work[p].job)
        /\ work'[p] = [work[p] EXCEPT !.pc = "uploading"]
<1> DEFINE j == work[p].job
<1>1. At(p, "sent") /\ Around /\ UNCHANGED <<objects, misplaced>>
  BY DEF MarkUploaded, Verified, Around, storage, At
<1>2. j \in JobIds /\ 1..made \subseteq JobIds
  BY <1>1, HandsKnown DEF At
<1>3. Carried(j) /\ Present(j)
  BY <1>1 DEF SlotsHeld, CarriesDumped, Carried, Present, At
<1>4. jobs' = [jobs EXCEPT ![j] = [status |-> "uploaded", since |-> 0, here |-> TRUE]]
  BY <1>3 DEF MarkUploaded
<1>5. OneStatus(j, "uploaded")
  BY <1>2, <1>4 DEF OneStatus, BackupsInv, SoundJobs
<1> HIDE DEF j
<1>6. OthersStay(p) /\ work'[p] = [work[p] EXCEPT !.pc = "uploading"]
  BY DEF MarkUploaded, Goto, OthersStay, BackupsInv, WorkSound, Stand
<1> QED
  BY <1>1, <1>3, <1>5, <1>6 DEF j

LEMMA SendFailsEffect ==
  ASSUME BackupsInv, SlotsHeld, ~restored, NEW p \in Workers, SendFails(p)
  PROVE /\ OthersStay(p) /\ Around /\ UNCHANGED <<objects, misplaced, sent>>
        /\ work[p].pc \in {"sending", "sent"}
        /\ OneStatus(work[p].job, "upload_failed") /\ Carried(work[p].job)
        /\ work'[p] = [work[p] EXCEPT !.pc = "uploading"]
<1> DEFINE j == work[p].job
<1>1. work[p].pc \in {"sending", "sent"} /\ Around /\ UNCHANGED <<objects, misplaced, sent>>
  BY DEF SendFails, Around, storage, history
<1>2. j \in JobIds /\ 1..made \subseteq JobIds
  BY <1>1, HandsKnown
<1>3. Carried(j) /\ Present(j)
  BY <1>1 DEF SlotsHeld, CarriesDumped, Carried, Present
<1>4. OneStatus(j, "upload_failed")
  BY <1>2, <1>3, PutOne DEF SendFails, BackupsInv
<1> HIDE DEF j
<1>5. OthersStay(p) /\ work'[p] = [work[p] EXCEPT !.pc = "uploading"]
  BY DEF SendFails, Goto, OthersStay, BackupsInv, WorkSound, Stand
<1> QED
  BY <1>1, <1>3, <1>4, <1>5 DEF j

LEMMA MarkPrunedEffect ==
  ASSUME BackupsInv, SlotsHeld, ~restored, NEW p \in Workers, MarkPruned(p)
  PROVE /\ OthersStay(p) /\ Around /\ UNCHANGED <<objects, misplaced, sent>>
        /\ At(p, "deleted") /\ OneStatus(work[p].job, "pruned") /\ Carried(work[p].job)
        /\ work'[p] = [work[p] EXCEPT !.pc = "pruning"]
<1> DEFINE j == work[p].job
<1>1. At(p, "deleted") /\ Around /\ UNCHANGED <<objects, misplaced, sent>>
  BY DEF MarkPruned, Around, storage, history
<1>2. j \in JobIds /\ 1..made \subseteq JobIds
  BY <1>1, HandsKnown DEF At
<1>3. Carried(j) /\ Present(j)
  BY <1>1 DEF SlotsHeld, CarriesDumped, Carried, Present, At
<1>4. OneStatus(j, "pruned")
  BY <1>2, <1>3, PutOne DEF MarkPruned, BackupsInv
<1> HIDE DEF j
<1>5. OthersStay(p) /\ work'[p] = [work[p] EXCEPT !.pc = "pruning"]
  BY DEF MarkPruned, Goto, OthersStay, BackupsInv, WorkSound, Stand
<1> QED
  BY <1>1, <1>3, <1>4, <1>5 DEF j

\* The steps that only list jobs, or touch files and objects alone.
SameStatus == \A k \in 1..made : jobs'[k].status = jobs[k].status

LEMMA UnlinkEffect ==
  ASSUME BackupsInv, NEW p \in Workers, Unlink(p)
  PROVE /\ OthersStay(p) /\ Around /\ UNCHANGED <<objects, misplaced, sent>> /\ SameStatus
        /\ work'[p].pc = "unlinking" /\ work'[p].todo \subseteq work[p].todo
<1>1. PICK j \in work[p].todo :
        /\ jobs' = IF Present(j) THEN [jobs EXCEPT ![j].here = FALSE] ELSE jobs
        /\ work' = [work EXCEPT ![p].todo = @ \ {j}]
  BY DEF Unlink
<1>2. At(p, "unlinking") /\ Around /\ UNCHANGED <<objects, misplaced, sent>>
  BY DEF Unlink, Around, history
<1>3. SameStatus
  BY <1>1, HandsKnown DEF SameStatus, BackupsInv, SoundJobs, Job
<1>4. OthersStay(p)
  BY <1>1 DEF OthersStay, BackupsInv, WorkSound
<1>5. work'[p].pc = "unlinking" /\ work'[p].todo \subseteq work[p].todo
  BY <1>1, <1>2 DEF At, BackupsInv, WorkSound, Stand
<1> QED
  BY <1>2, <1>3, <1>4, <1>5

LEMMA DeleteEffect ==
  ASSUME BackupsInv, NEW p \in Workers, DeleteObject(p)
  PROVE \E j \in work[p].todo :
          /\ OthersStay(p) /\ Around /\ UNCHANGED <<jobs, misplaced, sent>> /\ At(p, "pruning")
          /\ Newest(work[p].todo, j) /\ objects' = objects \ {j}
          /\ work'[p] = [work[p] EXCEPT !.pc = "deleted", !.job = j, !.todo = @ \ {j}]
<1>1. PICK j \in work[p].todo :
        /\ Newest(work[p].todo, j)
        /\ objects' = objects \ {j}
        /\ work' = [work EXCEPT ![p].pc = "deleted", ![p].job = j, ![p].todo = @ \ {j}]
  BY DEF DeleteObject
<1>2. At(p, "pruning") /\ Around /\ UNCHANGED <<jobs, misplaced, sent>>
  BY DEF DeleteObject, Around, database, history
<1>3. OthersStay(p)
  BY <1>1 DEF OthersStay, BackupsInv, WorkSound
<1>4. work'[p] = [work[p] EXCEPT !.pc = "deleted", !.job = j, !.todo = @ \ {j}]
  BY <1>1 DEF BackupsInv, WorkSound, Stand
<1> QED
  BY <1>1, <1>2, <1>3, <1>4

LEMMA ListUploadsEffect ==
  ASSUME BackupsInv, NEW p \in Workers, ListUploads(p)
  PROVE /\ OthersStay(p) /\ Around /\ UNCHANGED <<jobs, objects, misplaced, sent>>
        /\ work'[p].pc = "uploading"
        /\ work'[p].todo = {j \in 1..made : Waiting(j)}
BY DEF ListUploads, OthersStay, Around, database, storage, history, BackupsInv, WorkSound, Stand

LEMMA ListLocalEffect ==
  ASSUME BackupsInv, NEW p \in Workers, ListLocal(p)
  PROVE /\ OthersStay(p) /\ Around /\ UNCHANGED <<jobs, objects, misplaced, sent>>
        /\ work'[p].pc = "unlinking" /\ work'[p].todo \subseteq KeptHere
<1> DEFINE S == KeptHere \ TopOf(KeptHere, Keep)
<1>1. work' = [work EXCEPT ![p].pc = "unlinking", ![p].todo = S]
  BY DEF ListLocal
<1>2. S \subseteq KeptHere
  OBVIOUS
<1> HIDE DEF S
<1> QED
  BY <1>1, <1>2 DEF ListLocal, OthersStay, Around, database, storage, history, BackupsInv, WorkSound, Stand

LEMMA ListPruneEffect ==
  ASSUME BackupsInv, NEW p \in Workers, ListPrune(p)
  PROVE /\ OthersStay(p) /\ Around /\ UNCHANGED <<jobs, objects, misplaced, sent>>
        /\ work'[p].pc = "pruning" /\ work'[p].todo = Uploaded \ Retained
<1> DEFINE S == Uploaded \ Retained
<1>1. work' = [work EXCEPT ![p].pc = "pruning", ![p].todo = S]
  BY DEF ListPrune
<1> HIDE DEF S
<1>2. OthersStay(p) /\ Around /\ UNCHANGED <<jobs, objects, misplaced, sent>>
      /\ work'[p].pc = "pruning" /\ work'[p].todo = S
  BY <1>1 DEF ListPrune, OthersStay, Around, database, storage, history, BackupsInv, WorkSound, Stand
<1> QED
  BY <1>2 DEF S

LEMMA SendEffect ==
  ASSUME BackupsInv, NEW p \in Workers, Send(p)
  PROVE /\ OthersStay(p) /\ Around /\ UNCHANGED <<jobs, misplaced, sent>>
        /\ At(p, "sending") /\ objects' = objects \cup {work[p].job}
        /\ work'[p] = [work[p] EXCEPT !.pc = "sent"]
BY DEF Send, Goto, OthersStay, Around, database, history, BackupsInv, WorkSound, Stand

-----------------------------------------------------------------------------
(* Slots keep their backups. *)

LEMMA BackedKept ==
  ASSUME made \in Nat, made' \in Nat, Grows, NEW s, Backed(s),
         \A k \in 1..made : HasArchive(k) => HasArchive(k)'
  PROVE Backed(s)'
<1>1. PICK k \in 1..made : birth[k].slot = s /\ HasArchive(k)
  BY DEF Backed
<1>2. k \in 1..made' /\ birth'[k].slot = s /\ HasArchive(k)'
  BY <1>1 DEF Grows
<1> QED
  BY <1>2 DEF Backed

LEMMA RestingSlots ==
  ASSUME BackupsInv, SlotsHeld, Grows, WorkSound', made \in Nat, Resting
  PROVE SlotsHeld'
<1> SUFFICES ASSUME ~restored
             PROVE SlotsHeld'
  BY DEF Resting, SlotsHeld
<1>1. made' = made /\ UNCHANGED <<jobs, misplaced, birth>>
  BY DEF Resting
<1>2. \A k \in 1..made : HasArchive(k) => HasArchive(k)'
  BY <1>1 DEF HasArchive, Present
<1>3. ASSUME NEW s, Backed(s) PROVE Backed(s)'
  BY <1>1, <1>2, <1>3, BackedKept
<1>4. slots' \in [Times -> Slot] /\ \A s \in Times : Completed(s)' => Backed(s)'
  BY <1>3 DEF Resting, SlotsHeld
<1>5. ASSUME NEW q \in Workers PROVE OwnJob(q)' /\ CarriesDumped(q)' /\ Promises(q)'
  <2>1. CASE work'[q] = work[q]
    <3>1. OwnJob(q)' /\ CarriesDumped(q)'
      BY <1>1, <2>1 DEF SlotsHeld, OwnJob, CarriesDumped, Carried, At
    <3>2. Promises(q)'
      BY <1>3, <2>1 DEF SlotsHeld, Promises, At
    <3> QED
      BY <3>1, <3>2
  <2>2. CASE /\ work'[q].pc \notin Listed \cup {"dumping"}
             /\ work'[q].pc = "finishing" /\ work'[q].what = "dump" => Backed(SlotAt(work'[q].at))
    <3>1. work'[q].todo = {}
      BY <2>2 DEF WorkSound, SoundStand
    <3>2. PICK t : t = SlotAt(work'[q].at)
      OBVIOUS
    <3>3. Promises(q)'
      BY <1>3, <2>2, <3>2 DEF Promises, At
    <3> QED
      BY <2>2, <3>1, <3>3 DEF OwnJob, CarriesDumped, At, Listed
  <2> QED
    BY <2>1, <2>2 DEF Resting
<1>6. ASSUME NEW q \in Workers, NEW r \in Workers PROVE DumpsApart(q, r)'
  <2>1. ASSUME NEW p \in Workers, At(p, "dumping")' PROVE work'[p] = work[p]
    BY <2>1 DEF Resting, At
  <2> QED
    BY <2>1 DEF SlotsHeld, DumpsApart, At
<1> QED
  BY <1>4, <1>5, <1>6 DEF SlotsHeld

\* One process moves, and jobs change as jobs do.
LEMMA MovedSlots ==
  ASSUME BackupsInv, SlotsHeld, Grows, made \in Nat, made' \in Nat, ~restored,
         slots' = slots, NEW p \in Workers, OthersStay(p),
         \A k \in 1..made : (Carried(k) => Carried(k)') /\ (HasArchive(k) => HasArchive(k)'),
         \A q \in Workers : q # p /\ At(q, "dumping") => jobs'[work[q].job].status = "dumping",
         OwnJob(p)', CarriesDumped(p)', Promises(p)',
         \A q \in Workers : q # p /\ At(q, "dumping") /\ At(p, "dumping")' =>
                              work[q].job # work'[p].job
  PROVE SlotsHeld'
<1>1. ASSUME NEW s, Backed(s) PROVE Backed(s)'
  BY <1>1, BackedKept
<1>2. slots' \in [Times -> Slot] /\ \A s \in Times : Completed(s)' => Backed(s)'
  BY <1>1 DEF SlotsHeld, Completed
<1>3. ASSUME NEW q \in Workers, q # p PROVE OwnJob(q)' /\ CarriesDumped(q)' /\ Promises(q)'
  <2>1. work'[q] = work[q]
    BY <1>3 DEF OthersStay
  <2>2. OwnJob(q)'
    <3> SUFFICES ASSUME At(q, "dumping")
                 PROVE /\ jobs'[work[q].job].status = "dumping"
                       /\ work[q].what # "run" =>
                            birth'[work[q].job].slot = SlotAt(work[q].at)
      BY <2>1 DEF OwnJob, At
    <3>1. work[q].job \in 1..made
      BY HandsKnown DEF At
    <3> QED
      BY <1>3, <3>1 DEF SlotsHeld, OwnJob, Grows
  <2>3. CarriesDumped(q)'
    <3>1. \A k \in work[q].todo : Carried(k)'
      BY HandsKnown DEF SlotsHeld, CarriesDumped
    <3>2. work[q].pc \in {"sending", "sent", "deleted"} => Carried(work[q].job)'
      <4> SUFFICES ASSUME NEW j, j = work[q].job, work[q].pc \in {"sending", "sent", "deleted"}
                   PROVE work[q].pc \in {"sending", "sent", "deleted"} => jobs'[j].status \notin {"none", "dumping"}
        BY <2>1 DEF Carried
      <4>1. j \in 1..made /\ Carried(j)
        BY HandsKnown DEF SlotsHeld, CarriesDumped
      <4> QED
        BY <4>1 DEF Carried
    <3> QED
      BY <2>1, <3>1, <3>2 DEF CarriesDumped, Carried
  <2>4. Promises(q)'
    BY <1>1, <2>1 DEF SlotsHeld, Promises, At
  <2> QED
    BY <2>2, <2>3, <2>4
<1>4. ASSUME NEW q \in Workers, NEW r \in Workers PROVE DumpsApart(q, r)'
  BY <1>4 DEF SlotsHeld, DumpsApart, At, OthersStay
<1> QED
  BY <1>2, <1>3, <1>4 DEF SlotsHeld

\* A job that was dumped goes from one status to another.
LEMMA StatusSlots ==
  ASSUME BackupsInv, SlotsHeld, Grows, made \in Nat, ~restored, Around,
         NEW p \in Workers, OthersStay(p), NEW j \in 1..made, NEW s, Carried(j), OneStatus(j, s),
         s \in Successful \cup Unsent \/ (s = "failed" /\ j \in misplaced'),
         misplaced \subseteq misplaced',
         work'[p].pc \in Listed, work'[p].todo \subseteq work[p].todo,
         work'[p].job \in {j, work[p].job},
         work'[p].pc \in {"sending", "sent", "deleted"} => work'[p].job = j
  PROVE SlotsHeld'
<1>1. made' = made /\ slots' = slots
  BY DEF Around
<1>2. s \notin {"none", "dumping"}
  BY DEF Successful, Unsent
<1>3. ASSUME NEW k \in 1..made
      PROVE (Carried(k) => Carried(k)') /\ (HasArchive(k) => HasArchive(k)')
  <2>1. CASE k = j
    BY <1>2, <2>1 DEF OneStatus, Carried, HasArchive, Present
  <2>2. CASE k # j
    BY <2>2 DEF OneStatus, Carried, HasArchive, Present
  <2> QED
    BY <2>1, <2>2
<1>4. ASSUME NEW q \in Workers, q # p, At(q, "dumping")
      PROVE jobs'[work[q].job].status = "dumping"
  <2>1. work[q].job \in 1..made /\ jobs[work[q].job].status = "dumping"
    BY <1>4, HandsKnown DEF SlotsHeld, OwnJob, At
  <2> QED
    BY <2>1 DEF OneStatus, Carried
<1>5. ~At(p, "dumping")' /\ ~At(p, "finishing")'
  BY DEF At, Listed
<1>6. CarriesDumped(p)'
  <2>1. \A k \in work[p].todo : Carried(k) /\ k \in 1..made
    BY HandsKnown DEF SlotsHeld, CarriesDumped
  <2>2. \A k \in work'[p].todo : Carried(k)'
    BY <1>3, <2>1
  <2>3. Carried(j)'
    BY <1>3
  <2> QED
    BY <2>2, <2>3 DEF CarriesDumped, Carried
<1> QED
  BY <1>1, <1>3, <1>4, <1>5, <1>6, MovedSlots DEF OwnJob, Promises

\* No job changes its status.
LEMMA ListedSlots ==
  ASSUME BackupsInv, SlotsHeld, Grows, made \in Nat, ~restored, Around,
         NEW p \in Workers, OthersStay(p), SameStatus, misplaced' = misplaced,
         work'[p].pc \in Listed,
         \A k \in work'[p].todo : k \in 1..made /\ Carried(k),
         work'[p].pc \in {"sending", "sent", "deleted"} =>
           work'[p].job \in 1..made /\ Carried(work'[p].job)
  PROVE SlotsHeld'
<1>1. made' = made /\ slots' = slots
  BY DEF Around
<1>2. \A k \in 1..made : (Carried(k) => Carried(k)') /\ (HasArchive(k) => HasArchive(k)')
  BY DEF SameStatus, Carried, HasArchive, Present
<1>3. ASSUME NEW q \in Workers, q # p, At(q, "dumping")
      PROVE jobs'[work[q].job].status = "dumping"
  BY <1>3, HandsKnown DEF SlotsHeld, OwnJob, At, SameStatus
<1>4. ~At(p, "dumping")' /\ ~At(p, "finishing")'
  BY DEF At, Listed
<1>5. CarriesDumped(p)'
  BY DEF CarriesDumped, Carried, SameStatus
<1> QED
  BY <1>1, <1>2, <1>3, <1>4, <1>5, MovedSlots DEF OwnJob, Promises

\* Nothing moves that the slots look at.
LEMMA SameSlots ==
  ASSUME SlotsHeld, UNCHANGED <<jobs, slots, misplaced, made, birth, restored>>,
         \A p \in Workers : work'[p] = work[p]
  PROVE SlotsHeld'
BY DEF SlotsHeld, OwnJob, CarriesDumped, Promises, DumpsApart, Completed, Backed,
   HasArchive, Present, Carried, At

\* A call to the bucket changes the bucket and itself.
LEMMA LooseEffect ==
  ASSUME BackupsInv, NEW x \in Strays, Loose(x)
  PROVE /\ OthersStay(x) /\ Around /\ UNCHANGED <<jobs, misplaced, sent>> /\ work'[x] = Idle
        /\ \A p \in Workers : work'[p] = work[p]
        /\ \/ objects' = objects \cup {work[x].job}
           \/ At(x, "pruning") /\ \E j \in work[x].todo : objects' = objects \ {j}
<1>1. work' = [work EXCEPT ![x] = Idle]
  BY DEF Loose, StraySends, StrayDeletes
<1> QED
  BY <1>1, Parted
  DEF Loose, StraySends, StrayDeletes, OthersStay, Around, database, history, BackupsInv

LEMMA SlotsStep ==
  ASSUME BackupsInv, SlotsHeld, Grows, WorkSound', made' \in Nat, ~restored', Next
  PROVE SlotsHeld'
<1>1. made \in Nat /\ restored \in BOOLEAN
  BY BackupAssumption DEF BackupsInv, StateSound
<1>2. CASE Resting
  BY <1>1, <1>2, RestingSlots
<1>14. ASSUME NEW x \in Strays, Loose(x) PROVE SlotsHeld'
  BY <1>14, LooseEffect, SameSlots DEF Around
<1> SUFFICES ASSUME NEW p \in Workers, Busy(p) PROVE SlotsHeld'
  BY <1>2, <1>14, RestingStep
<1>3. ~restored
  BY DEF Busy, Uploading, InsertJob, DumpDone, DumpFails, ListUploads, TakeUpload, Send,
     MarkUploaded, SendFails, ListLocal, Unlink, ListPrune, DeleteObject, MarkPruned, history
<1>4. CASE InsertJob(p) /\ made' # made
  <2>1. /\ OthersStay(p) /\ UNCHANGED <<slots, restored, misplaced>>
        /\ made' = made + 1
        /\ \A k \in 1..made : jobs'[k].status = jobs[k].status /\ birth'[k] = birth[k]
        /\ jobs'[made + 1].status = "dumping"
        /\ work[p].what # "run" => birth'[made + 1].slot = SlotAt(work[p].at)
        /\ work'[p] = [work[p] EXCEPT !.pc = "dumping", !.job = made + 1]
    BY <1>4, InsertEffect
  <2>2. /\ work'[p].pc = "dumping" /\ work'[p].job = made + 1
        /\ work'[p].what = work[p].what /\ work'[p].at = work[p].at
    BY <2>1, HandsKnown DEF Stand
  <2>3. work'[p].todo = {}
    BY <2>2 DEF WorkSound, SoundStand, Listed
  <2>4. \A k \in 1..made : (Carried(k) => Carried(k)') /\ (HasArchive(k) => HasArchive(k)')
    BY <2>1 DEF Carried, HasArchive, Present
  <2>5. ASSUME NEW q \in Workers, q # p, At(q, "dumping")
        PROVE jobs'[work[q].job].status = "dumping" /\ work[q].job # made + 1
    BY <1>1, <2>1, <2>5, HandsKnown DEF SlotsHeld, OwnJob, At
  <2>6. OwnJob(p)' /\ CarriesDumped(p)' /\ Promises(p)'
    BY <2>1, <2>2, <2>3 DEF OwnJob, CarriesDumped, Promises, At
  <2>7. \A q \in Workers : q # p /\ At(q, "dumping") => work[q].job # work'[p].job
    BY <2>2, <2>5
  <2>8. slots' = slots
    BY <2>1
  <2> QED
    BY <1>1, <1>3, <2>1, <2>4, <2>5, <2>6, <2>7, <2>8, MovedSlots
<1>5. CASE DumpDone(p) \/ DumpFails(p)
  <2>0. PICK j \in 1..made : j = work[p].job
    BY <1>5, HandsKnown DEF DumpDone, DumpFails, At
  <2>1. PICK s \in {"pending_upload", "failed"} :
          /\ OthersStay(p) /\ Around /\ misplaced' = misplaced
          /\ OneStatus(j, s) /\ jobs[j].status = "dumping" /\ At(p, "dumping")
    BY <1>3, <1>5, <2>0, DumpDoneEffect, DumpFailsEffect
  <2>2. work[p].todo = {}
    BY <2>1 DEF At, BackupsInv, WorkSound, SoundStand, Listed
  <2>3. \A k \in 1..made : (Carried(k) => Carried(k)') /\ (HasArchive(k) => HasArchive(k)')
    BY <2>1 DEF OneStatus, Carried, HasArchive, Present, Successful, Unsent
  <2>4. ASSUME NEW q \in Workers, q # p, At(q, "dumping")
        PROVE jobs'[work[q].job].status = "dumping"
    <3>1. work[q].job \in 1..made /\ work[q].job # j /\ jobs[work[q].job].status = "dumping"
      BY <1>3, <2>0, <2>1, <2>4, HandsKnown DEF SlotsHeld, OwnJob, DumpsApart, At
    <3> QED
      BY <2>1, <3>1 DEF OneStatus
  <2>5. CASE DumpFails(p)
    <3>1. work'[p].pc = "erring" /\ work'[p].todo = {}
      BY <1>3, <2>5, DumpFailsEffect
    <3>2. OwnJob(p)' /\ CarriesDumped(p)' /\ Promises(p)' /\ ~At(p, "dumping")'
      BY <3>1 DEF OwnJob, CarriesDumped, Promises, At
    <3> QED
      BY <1>1, <1>3, <2>1, <2>3, <2>4, <3>2, MovedSlots DEF Around
  <2>6. CASE DumpDone(p)
    <3>1. /\ work'[p] = [work[p] EXCEPT !.pc = IF work[p].what = "run" THEN "listing" ELSE "finishing"]
          /\ jobs'[j].status = "pending_upload"
      BY <1>3, <2>0, <2>6, DumpDoneEffect DEF OneStatus
    <3>2. /\ work'[p].pc \in {"listing", "finishing"} /\ work'[p].todo = {}
          /\ work'[p].what = work[p].what /\ work'[p].at = work[p].at
          /\ work'[p].pc = "finishing" => work[p].what # "run"
      BY <2>2, <3>1, HandsKnown DEF Stand
    <3>3. work[p].what # "run" => birth[j].slot = SlotAt(work[p].at)
      BY <1>3, <2>0, <2>1 DEF SlotsHeld, OwnJob
    <3>4. HasArchive(j)'
      BY <3>1 DEF HasArchive, Present, Successful, Unsent
    <3>5. Promises(p)'
      <4>1. birth[j].slot = SlotAt(work[p].at) => Backed(SlotAt(work[p].at))'
        BY <2>1, <3>2, <3>4 DEF Around, Backed
      <4> QED
        BY <3>2, <3>3, <4>1 DEF Promises, At
    <3>6. OwnJob(p)' /\ CarriesDumped(p)' /\ ~At(p, "dumping")'
      BY <3>2 DEF OwnJob, CarriesDumped, At
    <3> QED
      BY <1>1, <1>3, <2>1, <2>3, <2>4, <3>5, <3>6, MovedSlots DEF Around
  <2> QED
    BY <1>5, <2>5, <2>6
<1>6. CASE ListUploads(p)
  <2>1. /\ OthersStay(p) /\ Around /\ UNCHANGED <<jobs, misplaced>> /\ work'[p].pc = "uploading"
        /\ work'[p].todo = {j \in 1..made : Waiting(j)}
    BY <1>6, ListUploadsEffect
  <2>2. \A k \in work'[p].todo : k \in 1..made /\ Carried(k)
    BY <2>1 DEF Waiting, Carried
  <2> QED
    BY <1>1, <1>3, <2>1, <2>2, ListedSlots DEF SameStatus, Listed
<1>7. CASE TakeUpload(p)
  <2>1. PICK j \in work[p].todo :
          /\ OthersStay(p) /\ Around /\ At(p, "uploading")
          /\ \/ /\ OneStatus(j, "uploading") /\ misplaced' = misplaced
                /\ work'[p] = [work[p] EXCEPT !.pc = "sending", !.job = j, !.todo = @ \ {j}]
             \/ /\ OneStatus(j, "failed") /\ misplaced' = misplaced \cup {j}
                /\ work'[p] = [work[p] EXCEPT !.todo = @ \ {j}]
    BY <1>3, <1>7, TakeEffect
  <2>2. j \in 1..made /\ Carried(j)
    BY <1>3, <2>1, HandsKnown DEF SlotsHeld, CarriesDumped
  <2>3. work'[p].todo \subseteq work[p].todo /\ work'[p].job \in {j, work[p].job}
        /\ (work'[p].pc = "uploading" \/ (work'[p].pc = "sending" /\ work'[p].job = j))
    BY <2>1, HandsKnown DEF Stand, At
  <2>4. PICK s \in {"uploading", "failed"} :
          OneStatus(j, s) /\ (s = "failed" => j \in misplaced') /\ misplaced \subseteq misplaced'
    BY <2>1
  <2> QED
    BY <1>1, <1>3, <2>1, <2>2, <2>3, <2>4, StatusSlots DEF Listed, Successful, Unsent
<1>8. CASE Send(p)
  <2>1. /\ OthersStay(p) /\ Around /\ UNCHANGED <<jobs, misplaced>>
        /\ At(p, "sending") /\ work'[p] = [work[p] EXCEPT !.pc = "sent"]
    BY <1>8, SendEffect
  <2>2. work'[p].pc = "sent" /\ work'[p].job = work[p].job /\ work'[p].todo = work[p].todo
    BY <2>1, HandsKnown DEF Stand
  <2>3. \A k \in work'[p].todo : k \in 1..made /\ Carried(k)
    BY <1>3, <2>2, HandsKnown DEF SlotsHeld, CarriesDumped
  <2>4. work'[p].job \in 1..made /\ Carried(work'[p].job)
    BY <1>3, <2>1, <2>2, HandsKnown DEF SlotsHeld, CarriesDumped, At
  <2> QED
    BY <1>1, <1>3, <2>1, <2>2, <2>3, <2>4, ListedSlots DEF SameStatus, Listed
<1>9. CASE MarkUploaded(p) \/ SendFails(p) \/ MarkPruned(p)
  <2> DEFINE j == work[p].job
  <2>1. PICK s \in {"uploaded", "upload_failed", "pruned"}, pc \in {"uploading", "pruning"} :
          /\ OthersStay(p) /\ Around /\ misplaced' = misplaced
          /\ work[p].pc \in {"sending", "sent", "deleted"}
          /\ OneStatus(j, s) /\ Carried(j)
          /\ work'[p] = [work[p] EXCEPT !.pc = pc]
    BY <1>3, <1>9, MarkUploadedEffect, SendFailsEffect, MarkPrunedEffect DEF At
  <2>2. j \in 1..made
    BY <2>1, HandsKnown
  <2>3. work'[p].pc = pc /\ work'[p].todo = work[p].todo /\ work'[p].job = j
    BY <2>1, HandsKnown DEF Stand
  <2> QED
    BY <1>1, <1>3, <2>1, <2>2, <2>3, StatusSlots DEF Listed, Successful, Unsent
<1>10. CASE ListLocal(p)
  <2>1. /\ OthersStay(p) /\ Around /\ UNCHANGED <<jobs, misplaced>>
        /\ work'[p].pc = "unlinking" /\ work'[p].todo \subseteq KeptHere
    BY <1>10, ListLocalEffect
  <2>2. \A k \in work'[p].todo : k \in 1..made /\ Carried(k)
    BY <2>1 DEF KeptHere, Carried
  <2> QED
    BY <1>1, <1>3, <2>1, <2>2, ListedSlots DEF SameStatus, Listed
<1>11. CASE Unlink(p)
  <2>1. /\ OthersStay(p) /\ Around /\ misplaced' = misplaced /\ SameStatus
        /\ work'[p].pc = "unlinking" /\ work'[p].todo \subseteq work[p].todo
    BY <1>11, UnlinkEffect
  <2>2. \A k \in work'[p].todo : k \in 1..made /\ Carried(k)
    BY <1>3, <2>1, HandsKnown DEF SlotsHeld, CarriesDumped
  <2> QED
    BY <1>1, <1>3, <2>1, <2>2, ListedSlots DEF Listed
<1>12. CASE ListPrune(p)
  <2>1. /\ OthersStay(p) /\ Around /\ UNCHANGED <<jobs, misplaced>>
        /\ work'[p].pc = "pruning" /\ work'[p].todo = Uploaded \ Retained
    BY <1>12, ListPruneEffect
  <2>2. \A k \in work'[p].todo : k \in 1..made /\ Carried(k)
    BY <2>1 DEF Uploaded, Carried
  <2> QED
    BY <1>1, <1>3, <2>1, <2>2, ListedSlots DEF SameStatus, Listed
<1>13. CASE DeleteObject(p)
  <2>1. PICK j \in work[p].todo :
          /\ OthersStay(p) /\ Around /\ UNCHANGED <<jobs, misplaced>>
          /\ work'[p] = [work[p] EXCEPT !.pc = "deleted", !.job = j, !.todo = @ \ {j}]
    BY <1>13, DeleteEffect
  <2>2. work'[p].pc = "deleted" /\ work'[p].job = j /\ work'[p].todo \subseteq work[p].todo
    BY <2>1, HandsKnown DEF Stand
  <2>3. \A k \in work[p].todo : k \in 1..made /\ Carried(k)
    BY <1>3, HandsKnown DEF SlotsHeld, CarriesDumped
  <2> QED
    BY <1>1, <1>3, <2>1, <2>2, <2>3, ListedSlots DEF SameStatus, Listed
<1> QED
  BY <1>4, <1>5, <1>6, <1>7, <1>8, <1>9, <1>10, <1>11, <1>12, <1>13 DEF Busy, Uploading

-----------------------------------------------------------------------------
(* The bucket keeps enough. *)

LEMMA MoreIsEnough ==
  ASSUME NEW T, IsFiniteSet(T), NEW S \in SUBSET T, Cardinality(S) >= Keep
  PROVE Cardinality(T) >= Keep
<1>1. Cardinality(S) <= Cardinality(T) /\ IsFiniteSet(S)
  BY FS_Subset
<1>2. Cardinality(S) \in Nat /\ Cardinality(T) \in Nat /\ Keep \in Nat
  BY <1>1, FS_CardinalityType, BackupAssumption
<1> QED
  BY <1>1, <1>2

LEMMA BeginningsFinite ==
  ASSUME NEW n \in Nat, NEW S \in SUBSET (1..n)
  PROVE IsFiniteSet(S)
<1>1. IsFiniteSet(1..n)
  BY FS_Interval
<1> QED
  BY <1>1, FS_Subset

LEMMA NewerFinite ==
  ASSUME StateSound, made \in Nat, NEW j
  PROVE IsFiniteSet(Newer(j))
<1>1. Newer(j) \in SUBSET (1..made)
  BY DEF Newer, Safe, StateSound
<1> QED
  BY <1>1, BeginningsFinite

LEMMA NewerFiniteNext ==
  ASSUME StateSound', made' \in Nat, NEW j
  PROVE IsFiniteSet(Newer(j)')
<1>1. Newer(j)' \in SUBSET (1..made')
  BY DEF Newer, Safe, StateSound
<1> QED
  BY <1>1, BeginningsFinite

LEMMA KeepNewerKept ==
  ASSUME StateSound', made' \in Nat, NEW j, NEW i, KeepNewer(j), Newer(j) \subseteq Newer(i)'
  PROVE KeepNewer(i)'
<1>1. IsFiniteSet(Newer(i)')
  BY NewerFiniteNext
<1>2. Cardinality(Newer(i)') >= Keep
  BY <1>1, MoreIsEnough DEF KeepNewer
<1> QED
  BY <1>2 DEF KeepNewer

\* More in the bucket, or one less that had enough newer ones.
LEMMA GainsOnly ==
  ASSUME StateSound', made' \in Nat, Safe \subseteq Safe', NEW k, KeepNewer(k)
  PROVE KeepNewer(k)'
<1>1. Newer(k) \subseteq Newer(k)'
  BY DEF Newer
<1> QED
  BY <1>1, KeepNewerKept

LEMMA LosesOne ==
  ASSUME StateSound, StateSound', made \in Nat, made' \in Nat, NEW j \in 1..made,
         KeepNewer(j), Safe \ {j} \subseteq Safe'
  PROVE /\ \A k \in 1..made : KeepNewer(k) \/ k <= j => KeepNewer(k)'
        /\ Safe' # {}
<1>1. Safe \subseteq 1..made
  BY DEF Safe, StateSound
<1>2. ASSUME NEW k \in 1..made, KeepNewer(k) \/ k <= j PROVE KeepNewer(k)'
  <2>1. CASE k <= j
    <3>1. ASSUME NEW i \in Safe, i > j PROVE i > k /\ i \in Safe'
      <4>1. i \in Nat /\ j \in Nat /\ k \in Nat
        BY <1>1
      <4> QED
        BY <2>1, <3>1, <4>1
    <3>2. Newer(j) \subseteq Newer(k)'
      BY <3>1 DEF Newer
    <3> QED
      BY <3>2, KeepNewerKept
  <2>2. CASE ~(k <= j)
    <3>1. ASSUME NEW i \in Safe, i > k PROVE i \in Safe'
      <4>1. i \in Nat /\ j \in Nat /\ k \in Nat
        BY <1>1
      <4>2. i # j
        BY <2>2, <3>1, <4>1
      <4> QED
        BY <4>2
    <3>2. Newer(k) \subseteq Newer(k)'
      BY <3>1 DEF Newer
    <3> QED
      BY <1>2, <2>2, <3>2, KeepNewerKept
  <2> QED
    BY <2>1, <2>2
<1>3. Newer(j)' # {}
  <2>1. KeepNewer(j)'
    BY <1>2
  <2>2. Cardinality(Newer(j)') >= Keep /\ Keep \in Nat \ {0}
    BY <2>1, BackupAssumption DEF KeepNewer
  <2> QED
    BY <2>2, FS_EmptySet
<1> QED
  BY <1>2, <1>3 DEF Newer

LEMMA HandsInBounds ==
  ASSUME BackupsInv, NEW p \in Hands
  PROVE Sending(p) \subseteq 1..made /\ Removing(p) \subseteq 1..made
BY HandsKnown DEF Sending, Removing, At

LEMMA SameHold ==
  ASSUME BackupsInv, Grows, NEW q \in Hands, work'[q] = work[q]
  PROVE Sending(q)' = Sending(q) /\ Removing(q)' = Removing(q)
<1>1. \A j \in work[q].todo : birth'[j] = birth[j]
  BY HandsKnown DEF Grows
<1> QED
  BY <1>1 DEF Sending, Removing, At

\* What may be sent and what may be removed stay apart, and keep the statuses
\* they have, whoever takes up more of either.
LEMMA HandsApart ==
  ASSUME BackupsInv, BucketHeld, ~restored,
         \A q \in Workers : \A k \in Sending(q)' :
           k \in Sending(q) \/ jobs[k].status \in Unsent,
         \A q \in Hands : \A k \in Removing(q)' :
           k \in Removing(q) \/ jobs[k].status = "uploaded",
         \A q \in Workers : \A k \in Sending(q)' :
           jobs'[k].status \in {"uploaded", "pruned"} => jobs[k].status \in {"uploaded", "pruned"},
         \A q \in Hands : \A k \in Removing(q)' :
           jobs[k].status \in {"uploaded", "pruned", "failed"} =>
             jobs'[k].status \in {"uploaded", "pruned", "failed"}
  PROVE /\ Apart' /\ \A q \in Workers : SendsFresh(q)'
        /\ \A q \in Hands : RemovesOld(q)'
<1>1. \A q \in Workers : \A k \in Sending(q) : jobs[k].status \notin {"uploaded", "pruned"}
  BY DEF BucketHeld, SendsFresh
<1>2. \A q \in Hands : \A k \in Removing(q) : jobs[k].status \in {"uploaded", "pruned", "failed"}
  BY DEF BucketHeld, RemovesOld
<1>3. ASSUME NEW q \in Workers PROVE SendsFresh(q)'
  <2>1. \A k \in Sending(q)' : jobs[k].status \notin {"uploaded", "pruned"}
    BY <1>1 DEF Unsent
  <2>2. \A k \in Sending(q)' : jobs'[k].status \notin {"uploaded", "pruned"}
    BY <2>1
  <2> QED
    BY <2>2 DEF SendsFresh
<1>4. ASSUME NEW q \in Hands PROVE RemovesOld(q)'
  <2>1. \A k \in Removing(q)' : jobs'[k].status \in {"uploaded", "pruned", "failed"}
    BY <1>2
  <2> QED
    BY <2>1 DEF RemovesOld
<1>5. ASSUME NEW q \in Workers, NEW r \in Hands, NEW k, k \in Sending(q)', k \in Removing(r)'
      PROVE FALSE
  <2>1. k \in Sending(q) \/ jobs[k].status \in Unsent
    BY <1>5
  <2>2. k \in Removing(r) \/ jobs[k].status = "uploaded"
    BY <1>5
  <2>3. ~(k \in Sending(q) /\ k \in Removing(r))
    BY DEF BucketHeld, Apart
  <2> QED
    BY <1>1, <1>2, <2>1, <2>2, <2>3 DEF Unsent
<1>6. Apart'
  BY <1>5 DEF Apart
<1> QED
  BY <1>3, <1>4, <1>6

LEMMA RestingBucket ==
  ASSUME BackupsInv, BucketHeld, Grows, WorkSound', StateSound', made \in Nat, made' \in Nat, Resting
  PROVE BucketHeld'
<1> SUFFICES ASSUME ~restored
             PROVE BucketHeld'
  BY DEF Resting, BucketHeld
<1>1. UNCHANGED <<jobs, objects, misplaced, sent, made, birth>>
  BY DEF Resting
<1>2. Safe' = Safe /\ Uploaded' = Uploaded
  BY <1>1 DEF Safe, Uploaded
<1>3. ASSUME NEW k PROVE KeepNewer(k)' <=> KeepNewer(k)
  BY <1>2 DEF KeepNewer, Newer
<1>4. ASSUME NEW q \in Workers
      PROVE /\ Sending(q)' \subseteq Sending(q) /\ Removing(q)' \subseteq Removing(q)
            /\ SendsOnce(q)' /\ Delivered(q)'
  <2>1. CASE work'[q] = work[q]
    <3>1. Sending(q)' = Sending(q) /\ Removing(q)' = Removing(q)
      BY <2>1, SameHold
    <3>2. SendsOnce(q)' /\ Delivered(q)'
      BY <1>1, <2>1 DEF BucketHeld, SendsOnce, Delivered, At
    <3> QED
      BY <3>1, <3>2
  <2>2. CASE work'[q].pc \notin Listed \cup {"dumping"}
    <3>1. work'[q].todo = {}
      BY <2>2 DEF WorkSound, SoundStand
    <3> QED
      BY <2>2, <3>1 DEF Sending, Removing, SendsOnce, Delivered, At, Listed
  <2> QED
    BY <2>1, <2>2 DEF Resting
<1>5. \A q \in Hands : \E r \in Hands : Removing(q)' \subseteq Removing(r)
  BY <1>4 DEF Resting, NoMoreRemoved
<1>6. ASSUME NEW q \in Hands, NEW k \in Removing(q)'
      PROVE jobs[k].status \in {"uploaded", "pruned", "failed"} /\ KeepNewer(k)
  BY <1>5, <1>6 DEF BucketHeld, RemovesOld, RemovesSpare
<1>7. \A q \in Hands : RemovesOld(q)' /\ RemovesSpare(q)'
  BY <1>1, <1>3, <1>6 DEF RemovesOld, RemovesSpare
<1>8. \A q \in Workers : SendsFresh(q)'
  BY <1>1, <1>4 DEF BucketHeld, SendsFresh
<1>9. Apart'
  BY <1>4, <1>5 DEF BucketHeld, Apart
<1> QED
  BY <1>1, <1>2, <1>3, <1>4, <1>7, <1>8, <1>9 DEF BucketHeld

\* One process moves; what it comes to remove can be spared.
LEMMA MovedBucket ==
  ASSUME BackupsInv, BucketHeld, Grows, StateSound', made \in Nat, made' \in Nat, ~restored,
         NEW p \in Workers, OthersStay(p),
         \A k \in Sending(p)' : k \in Sending(p) \/ (k \in 1..made /\ jobs[k].status \in Unsent),
         \A k \in Removing(p)' :
           k \in Removing(p) \/ (k \in 1..made /\ jobs[k].status = "uploaded" /\ KeepNewer(k)),
         \A k \in 1..made :
           jobs'[k].status \in {"uploaded", "pruned"} /\ jobs[k].status \notin {"uploaded", "pruned"}
             => k \notin Sending(p)' /\ \A q \in Workers : q # p => k \notin Sending(q),
         \A k \in 1..made :
           jobs[k].status \in {"uploaded", "pruned", "failed"} =>
             jobs'[k].status \in {"uploaded", "pruned", "failed"} \/ k \in Sending(p),
         objects \subseteq objects', misplaced' \subseteq 1..made',
         \A k \in 1..made : KeepNewer(k) => KeepNewer(k)',
         \A k \in Uploaded' \ objects' : k \in Uploaded \ objects,
         sent' => Safe' # {},
         SendsOnce(p)', Delivered(p)'
  PROVE BucketHeld'
<1>2. /\ \A q \in Workers : q # p => Sending(q)' = Sending(q)
      /\ \A q \in Hands : q # p => Removing(q)' = Removing(q)
  BY SameHold DEF OthersStay
<1>3. \A q \in Hands : Sending(q) \subseteq 1..made /\ Removing(q) \subseteq 1..made
  BY HandsInBounds
<1>4. \A q \in Workers : \A k \in Sending(q)' :
        k \in 1..made /\ (k \in Sending(q) \/ jobs[k].status \in Unsent)
  BY <1>2, <1>3
<1>5. \A q \in Hands : \A k \in Removing(q)' :
        k \in 1..made /\ (k \in Removing(q) \/ (jobs[k].status = "uploaded" /\ KeepNewer(k)))
  BY <1>2, <1>3
<1>6. \A q \in Workers : \A k \in Sending(q)' :
        jobs'[k].status \in {"uploaded", "pruned"} => jobs[k].status \in {"uploaded", "pruned"}
  BY <1>2, <1>4
<1>7. ASSUME NEW q \in Hands, NEW k \in Removing(q)',
             jobs[k].status \in {"uploaded", "pruned", "failed"},
             jobs'[k].status \notin {"uploaded", "pruned", "failed"}
      PROVE FALSE
  <2>1. k \in Sending(p)
    BY <1>5, <1>7
  <2>2. k \in Removing(q) \/ jobs[k].status = "uploaded"
    BY <1>5
  <2> QED
    BY <2>1, <2>2 DEF BucketHeld, Apart, SendsFresh
<1>8. /\ Apart' /\ \A q \in Workers : SendsFresh(q)'
      /\ \A q \in Hands : RemovesOld(q)'
  BY <1>4, <1>5, <1>6, <1>7, HandsApart
<1>9. ASSUME NEW q \in Hands PROVE RemovesSpare(q)'
  <2>1. \A k \in Removing(q)' : k \in 1..made /\ KeepNewer(k)
    BY <1>5 DEF BucketHeld, RemovesSpare
  <2> QED
    BY <2>1 DEF RemovesSpare
<1>10. ASSUME NEW q \in Workers, q # p PROVE SendsOnce(q)' /\ Delivered(q)'
  <2>1. work'[q] = work[q]
    BY <1>10 DEF OthersStay
  <2> QED
    BY <2>1 DEF BucketHeld, SendsOnce, Delivered, At
<1>11. \A k \in Uploaded' \ objects' : KeepNewer(k)'
  <2>1. \A k \in Uploaded \ objects : k \in 1..made /\ KeepNewer(k)
    BY DEF BucketHeld, Uploaded
  <2> QED
    BY <2>1
<1> QED
  BY <1>8, <1>9, <1>10, <1>11 DEF BucketHeld

\* What ListPrune leaves out of the Keep newest has as many newer in the
\* bucket: should one of those be gone, it had them itself.
LEMMA PruneSpares ==
  ASSUME BackupsInv, BucketHeld, ~restored, made \in Nat, NEW j \in Uploaded \ Retained
  PROVE KeepNewer(j)
<1> DEFINE U == {k \in Uploaded : k > j}
<1>1. IsFiniteSet(Newer(j)) /\ IsFiniteSet(U)
  <2>1. U \in SUBSET (1..made)
    BY DEF Uploaded
  <2> QED
    BY <2>1, BeginningsFinite, NewerFinite DEF BackupsInv
<1>2. ~(Cardinality(U) < Keep)
  BY DEF Retained, TopOf
<1>3. Cardinality(U) >= Keep
  BY <1>1, <1>2, FS_CardinalityType, BackupAssumption
<1>4. CASE U \subseteq objects
  <2>1. U \subseteq Newer(j)
    BY <1>4 DEF Newer, Safe
  <2> QED
    BY <1>1, <1>3, <2>1, MoreIsEnough DEF KeepNewer
<1>5. CASE ~(U \subseteq objects)
  <2>1. PICK k \in Uploaded \ objects : k > j
    BY <1>5
  <2>2. Cardinality(Newer(k)) >= Keep
    BY <2>1 DEF BucketHeld, KeepNewer
  <2>3. Safe \subseteq 1..made /\ k \in 1..made /\ j \in 1..made
    BY <2>1 DEF Safe, Uploaded, BackupsInv, StateSound
  <2>4. ASSUME NEW i \in Safe, i > k PROVE i > j
    <3>1. i \in Nat /\ j \in Nat /\ k \in Nat
      BY <2>3
    <3> QED
      BY <2>1, <2>4, <3>1
  <2>5. Newer(k) \subseteq Newer(j)
    BY <2>4 DEF Newer
  <2> QED
    BY <1>1, <2>2, <2>5, MoreIsEnough DEF KeepNewer
<1> QED
  BY <1>4, <1>5

\* A process or a stray takes out of the bucket what it had to remove.
LEMMA TakenOut ==
  ASSUME BackupsInv, BucketHeld, Grows, StateSound', made \in Nat, made' \in Nat, ~restored,
         Around, UNCHANGED <<jobs, misplaced, sent>>,
         NEW p \in Hands, OthersStay(p), NEW j \in Removing(p), objects' = objects \ {j},
         Removing(p)' \subseteq Removing(p),
         p \in Workers => Sending(p)' = {} /\ SendsOnce(p)' /\ Delivered(p)'
  PROVE BucketHeld'
<1>1. j \in 1..made /\ KeepNewer(j)
  BY HandsInBounds DEF BucketHeld, RemovesSpare
<1>2. Uploaded' = Uploaded /\ Safe' = Safe \ {j}
  BY DEF Safe, Uploaded, Around
<1>3. (\A k \in 1..made : KeepNewer(k) \/ k <= j => KeepNewer(k)') /\ Safe' # {}
  BY <1>1, <1>2, LosesOne DEF BackupsInv
<1>4. /\ \A q \in Workers : Sending(q)' \subseteq Sending(q)
      /\ \A q \in Hands : Removing(q)' \subseteq Removing(q) /\ Removing(q) \subseteq 1..made
  BY SameHold, HandsInBounds DEF OthersStay
<1>5. /\ Apart' /\ \A q \in Workers : SendsFresh(q)'
      /\ \A q \in Hands : RemovesOld(q)'
  BY <1>4, HandsApart
<1>6. \A q \in Hands : RemovesSpare(q)'
  BY <1>3, <1>4 DEF BucketHeld, RemovesSpare
<1>7. ASSUME NEW k \in Uploaded' \ objects' PROVE KeepNewer(k)'
  <2>1. k \in 1..made /\ (k = j \/ k \in Uploaded \ objects)
    BY <1>2, <1>7 DEF Uploaded
  <2> QED
    BY <1>1, <1>3, <2>1 DEF BucketHeld
<1>8. ASSUME NEW q \in Workers PROVE SendsOnce(q)' /\ Delivered(q)'
  <2>1. CASE q = p
    BY <2>1
  <2>2. CASE q # p
    <3>1. work'[q] = work[q]
      BY <2>2 DEF OthersStay
    <3>2. At(q, "sent") => work[q].job \in Sending(q)
      BY DEF Sending, At
    <3>3. At(q, "sent") => work[q].job # j
      BY <3>2 DEF BucketHeld, Apart
    <3> QED
      BY <3>1, <3>3 DEF BucketHeld, SendsOnce, Delivered, At
  <2> QED
    BY <2>1, <2>2
<1> QED
  BY <1>3, <1>5, <1>6, <1>7, <1>8 DEF BucketHeld, Around

LEMMA DeletedBucket ==
  ASSUME BackupsInv, BucketHeld, Grows, StateSound', made \in Nat, made' \in Nat, ~restored,
         NEW p \in Workers, DeleteObject(p)
  PROVE BucketHeld'
<1>1. PICK j \in work[p].todo :
        /\ OthersStay(p) /\ Around /\ UNCHANGED <<jobs, misplaced, sent>> /\ At(p, "pruning")
        /\ Newest(work[p].todo, j) /\ objects' = objects \ {j}
        /\ work'[p] = [work[p] EXCEPT !.pc = "deleted", !.job = j, !.todo = @ \ {j}]
  BY DeleteEffect
<1>2. work'[p].pc = "deleted" /\ work'[p].job = j /\ work'[p].todo = work[p].todo \ {j}
  BY <1>1, HandsKnown DEF Stand
<1>3. j \in Removing(p)
  BY <1>1 DEF Removing, At
<1>4. Sending(p)' = {} /\ Removing(p)' \subseteq Removing(p) /\ SendsOnce(p)' /\ Delivered(p)'
  BY <1>1, <1>2 DEF Sending, Removing, SendsOnce, Delivered, At
<1> QED
  BY <1>1, <1>3, <1>4, TakenOut

\* What nobody waits for any more puts an archive into the bucket again, or
\* takes out one that can be spared.
LEMMA LooseBucket ==
  ASSUME BackupsInv, BucketHeld, Grows, StateSound', made \in Nat, made' \in Nat, ~restored,
         NEW x \in Strays, Loose(x)
  PROVE BucketHeld'
<1>1. /\ OthersStay(x) /\ Around /\ UNCHANGED <<jobs, misplaced, sent>> /\ work'[x] = Idle
      /\ \A p \in Workers : work'[p] = work[p]
  BY LooseEffect
<1>2. x \notin Workers
  BY BackupAssumption
<1>3. Removing(x)' = {}
  BY <1>1 DEF Removing, At, Idle, Stands
<1>4. CASE objects' = objects \cup {work[x].job}
  <2>1. Uploaded' = Uploaded /\ Safe \subseteq Safe'
    BY <1>1, <1>4 DEF Safe, Uploaded, Around
  <2>2. \A k : KeepNewer(k) => KeepNewer(k)'
    BY <2>1, GainsOnly
  <2>3. /\ \A q \in Workers : Sending(q)' \subseteq Sending(q)
        /\ \A q \in Hands : Removing(q)' \subseteq Removing(q)
    BY <1>1, <1>3, SameHold DEF OthersStay
  <2>4. /\ Apart' /\ \A q \in Workers : SendsFresh(q)'
        /\ \A q \in Hands : RemovesOld(q)'
    BY <1>1, <2>3, HandsApart
  <2>5. \A q \in Hands : RemovesSpare(q)'
    BY <2>2, <2>3 DEF BucketHeld, RemovesSpare
  <2>6. \A q \in Workers : SendsOnce(q)' /\ Delivered(q)'
    BY <1>1, <1>4 DEF BucketHeld, SendsOnce, Delivered, At
  <2>7. \A k \in Uploaded' \ objects' : KeepNewer(k)'
    BY <1>4, <2>1, <2>2 DEF BucketHeld
  <2>8. sent' => Safe' # {}
    BY <1>1, <2>1 DEF BucketHeld
  <2> QED
    BY <1>1, <2>4, <2>5, <2>6, <2>7, <2>8 DEF BucketHeld, Around
<1>5. CASE At(x, "pruning") /\ \E j \in work[x].todo : objects' = objects \ {j}
  <2>1. PICK j \in work[x].todo : objects' = objects \ {j}
    BY <1>5
  <2>2. j \in Removing(x)
    BY <1>5 DEF Removing, At
  <2> QED
    BY <1>1, <1>2, <1>3, <2>1, <2>2, TakenOut
<1> QED
  BY <1>4, <1>5, LooseEffect

\* A job goes from one status to another; what is uploaded is in the bucket.
LEMMA StatusBucket ==
  ASSUME BackupsInv, BucketHeld, Grows, StateSound', made \in Nat, ~restored, Around,
         objects' = objects, NEW p \in Workers, OthersStay(p),
         NEW j \in 1..made, NEW s, OneStatus(j, s),
         misplaced \subseteq misplaced', misplaced' \subseteq misplaced \cup {j},
         Sending(p)' \subseteq Sending(p), Removing(p)' \subseteq Removing(p),
         s \in {"uploaded", "pruned"} =>
           \/ jobs[j].status \in {"uploaded", "pruned"}
           \/ j \notin Sending(p)' /\ \A q \in Workers : q # p => j \notin Sending(q),
         s \in {"uploaded", "pruned", "failed"} \/ j \in Sending(p),
         jobs[j].status = "uploaded" => s = "uploaded" \/ j \in misplaced' \/ j \in Removing(p),
         s = "uploaded" => j \in objects,
         sent' => sent \/ s = "uploaded",
         SendsOnce(p)', Delivered(p)'
  PROVE BucketHeld'
<1>1. made' = made
  BY DEF Around
<1>2. s = "uploaded" => j \in Safe'
  BY <1>1 DEF Safe, Uploaded, OneStatus
<1>3. Uploaded' \ objects' \subseteq Uploaded \ objects
  BY <1>1 DEF Uploaded, OneStatus
<1>4. misplaced' \subseteq 1..made'
  BY <1>1 DEF BucketHeld
<1>5. (\A k \in 1..made : KeepNewer(k) => KeepNewer(k)') /\ (Safe # {} => Safe' # {})
  <2>1. CASE Safe \subseteq Safe'
    BY <1>1, <2>1, GainsOnly
  <2>2. CASE ~(Safe \subseteq Safe')
    <3>1. Safe \ {j} \subseteq Safe'
      BY <1>1 DEF Safe, Uploaded, OneStatus
    <3>2. j \in Uploaded /\ s # "uploaded" /\ j \notin misplaced'
      BY <1>1, <2>2 DEF Safe, Uploaded, OneStatus
    <3>3. KeepNewer(j)
      BY <3>2 DEF Uploaded, BucketHeld, RemovesSpare
    <3> QED
      BY <1>1, <3>1, <3>3, LosesOne DEF BackupsInv
  <2> QED
    BY <2>1, <2>2
<1>6. \A k \in 1..made :
        jobs'[k].status \in {"uploaded", "pruned"} /\ jobs[k].status \notin {"uploaded", "pruned"}
          => k \notin Sending(p)' /\ \A q \in Workers : q # p => k \notin Sending(q)
  BY DEF OneStatus
<1>7. \A k \in 1..made :
        jobs[k].status \in {"uploaded", "pruned", "failed"} =>
          jobs'[k].status \in {"uploaded", "pruned", "failed"} \/ k \in Sending(p)
  <2>1. \A k \in 1..made : k # j => jobs'[k].status = jobs[k].status
    BY DEF OneStatus
  <2>2. jobs'[j].status = s
    BY DEF OneStatus
  <2> QED
    BY <2>1, <2>2
<1>8. sent' => Safe' # {}
  BY <1>2, <1>5 DEF BucketHeld
<1> QED
  BY <1>1, <1>3, <1>4, <1>5, <1>6, <1>7, <1>8, MovedBucket

\* No job changes its status; the bucket may gain what is being sent.
LEMMA ListedBucket ==
  ASSUME BackupsInv, BucketHeld, Grows, StateSound', made \in Nat, ~restored, Around,
         NEW p \in Workers, OthersStay(p), SameStatus, UNCHANGED <<misplaced, sent>>,
         objects \subseteq objects',
         \A k \in Sending(p)' : k \in Sending(p) \/ (k \in 1..made /\ jobs[k].status \in Unsent),
         \A k \in Removing(p)' :
           k \in Removing(p) \/ (k \in 1..made /\ jobs[k].status = "uploaded" /\ KeepNewer(k)),
         SendsOnce(p)', Delivered(p)'
  PROVE BucketHeld'
<1>1. made' = made /\ misplaced' \subseteq 1..made'
  BY DEF Around, BucketHeld
<1>2. Uploaded' = Uploaded /\ Safe \subseteq Safe'
  BY <1>1 DEF Safe, Uploaded, SameStatus
<1>3. (\A k \in 1..made : KeepNewer(k) => KeepNewer(k)') /\ (sent' => Safe' # {})
  BY <1>1, <1>2, GainsOnly DEF BucketHeld
<1>4. \A k \in Uploaded' \ objects' : k \in Uploaded \ objects
  BY <1>2
<1>5. \A k \in 1..made : jobs'[k].status = jobs[k].status
  BY DEF SameStatus
<1>6. \A k \in 1..made :
        jobs'[k].status \in {"uploaded", "pruned"} /\ jobs[k].status \notin {"uploaded", "pruned"}
          => k \notin Sending(p)' /\ \A q \in Workers : q # p => k \notin Sending(q)
  BY <1>5
<1>7. \A k \in 1..made :
        jobs[k].status \in {"uploaded", "pruned", "failed"} =>
          jobs'[k].status \in {"uploaded", "pruned", "failed"} \/ k \in Sending(p)
  BY <1>5
<1> QED
  BY <1>1, <1>2, <1>3, <1>4, <1>6, <1>7, MovedBucket

LEMMA BucketStep ==
  ASSUME BackupsInv, SlotsHeld, BucketHeld, Grows, WorkSound', StateSound', made' \in Nat,
         ~restored', Next
  PROVE BucketHeld'
<1>1. made \in Nat /\ restored \in BOOLEAN
  BY BackupAssumption DEF BackupsInv, StateSound
<1>2. CASE Resting
  BY <1>1, <1>2, RestingBucket
<1>15. ASSUME NEW x \in Strays, Loose(x) PROVE BucketHeld'
  <2>1. ~restored
    BY <1>15, LooseEffect DEF Around
  <2> QED
    BY <1>1, <1>15, <2>1, LooseBucket
<1> SUFFICES ASSUME NEW p \in Workers, Busy(p) PROVE BucketHeld'
  BY <1>2, <1>15, RestingStep
<1>3. ~restored
  BY DEF Busy, Uploading, InsertJob, DumpDone, DumpFails, ListUploads, TakeUpload, Send,
     MarkUploaded, SendFails, ListLocal, Unlink, ListPrune, DeleteObject, MarkPruned, history
<1>4. CASE InsertJob(p) /\ made' # made
  <2>1. /\ OthersStay(p) /\ UNCHANGED <<objects, misplaced, sent>> /\ made' = made + 1
        /\ \A k \in 1..made : jobs'[k].status = jobs[k].status
        /\ jobs'[made + 1].status = "dumping"
        /\ work'[p] = [work[p] EXCEPT !.pc = "dumping", !.job = made + 1]
    BY <1>4, InsertEffect
  <2>2. work'[p].pc = "dumping"
    BY <2>1, HandsKnown DEF Stand
  <2>3. Sending(p)' = {} /\ Removing(p)' = {} /\ SendsOnce(p)' /\ Delivered(p)'
    BY <2>2 DEF Sending, Removing, SendsOnce, Delivered, At
  <2>4. Uploaded' = Uploaded
    BY <1>1, <2>1 DEF Uploaded
  <2>5. Safe' = Safe /\ misplaced' \subseteq 1..made'
    BY <1>1, <1>3, <2>1, <2>4 DEF Safe, BucketHeld
  <2>6. \A k \in 1..made :
          jobs'[k].status \in {"uploaded", "pruned"} /\ jobs[k].status \notin {"uploaded", "pruned"}
            => k \notin Sending(p)' /\ \A q \in Workers : q # p => k \notin Sending(q)
    BY <2>1
  <2>7. \A k \in 1..made :
          jobs[k].status \in {"uploaded", "pruned", "failed"} =>
            jobs'[k].status \in {"uploaded", "pruned", "failed"} \/ k \in Sending(p)
    BY <2>1
  <2>8. /\ objects \subseteq objects'
        /\ \A k \in Uploaded' \ objects' : k \in Uploaded \ objects
        /\ sent' => Safe' # {}
    BY <1>3, <2>1, <2>4, <2>5 DEF BucketHeld
  <2>9. \A k \in 1..made : KeepNewer(k) => KeepNewer(k)'
    BY <2>5, GainsOnly
  <2> QED
    BY <1>1, <1>3, <2>1, <2>3, <2>5, <2>6, <2>7, <2>8, <2>9, MovedBucket
<1>5. CASE DumpDone(p) \/ DumpFails(p)
  <2>0. PICK j \in 1..made : j = work[p].job
    BY <1>5, HandsKnown DEF DumpDone, DumpFails, At
  <2>1. PICK s \in {"pending_upload", "failed"} :
          /\ OthersStay(p) /\ Around /\ UNCHANGED <<objects, misplaced, sent>>
          /\ OneStatus(j, s) /\ jobs[j].status = "dumping"
    BY <1>3, <1>5, <2>0, DumpDoneEffect, DumpFailsEffect
  <2>2. work'[p].pc \in {"erring", "listing", "finishing"}
    <3>1. CASE DumpFails(p)
      BY <1>3, <3>1, DumpFailsEffect
    <3>2. CASE DumpDone(p)
      BY <1>3, <3>2, DumpDoneEffect, HandsKnown DEF Stand
    <3> QED
      BY <1>5, <3>1, <3>2
  <2>3. Sending(p)' = {} /\ Removing(p)' = {} /\ SendsOnce(p)' /\ Delivered(p)'
    BY <2>2 DEF Sending, Removing, SendsOnce, Delivered, At
  <2>4. Uploaded' = Uploaded /\ made' = made
    BY <2>1 DEF Uploaded, OneStatus, Around
  <2>5. Safe' = Safe /\ misplaced' \subseteq 1..made'
    BY <1>3, <2>1, <2>4 DEF Safe, BucketHeld
  <2>6. \A k \in 1..made : k # j => jobs'[k].status = jobs[k].status
    BY <2>1 DEF OneStatus
  <2>7. jobs'[j].status \notin {"uploaded", "pruned"} /\ jobs[j].status = "dumping"
    BY <2>1 DEF OneStatus
  <2>8. \A k \in 1..made :
          jobs'[k].status \in {"uploaded", "pruned"} /\ jobs[k].status \notin {"uploaded", "pruned"}
            => k \notin Sending(p)' /\ \A q \in Workers : q # p => k \notin Sending(q)
    BY <2>6, <2>7
  <2>9. \A k \in 1..made :
          jobs[k].status \in {"uploaded", "pruned", "failed"} =>
            jobs'[k].status \in {"uploaded", "pruned", "failed"} \/ k \in Sending(p)
    BY <2>6, <2>7
  <2>10. /\ objects \subseteq objects'
         /\ \A k \in Uploaded' \ objects' : k \in Uploaded \ objects
         /\ sent' => Safe' # {}
    BY <1>3, <2>1, <2>4, <2>5 DEF BucketHeld
  <2>11. \A k \in 1..made : KeepNewer(k) => KeepNewer(k)'
    BY <2>5, GainsOnly
  <2> QED
    BY <1>1, <1>3, <2>1, <2>3, <2>4, <2>5, <2>8, <2>9, <2>10, <2>11, MovedBucket
<1>6. CASE ListUploads(p)
  <2>1. /\ OthersStay(p) /\ Around /\ UNCHANGED <<jobs, objects, misplaced, sent>>
        /\ work'[p].pc = "uploading" /\ work'[p].todo = {j \in 1..made : Waiting(j)}
    BY <1>6, ListUploadsEffect
  <2>2. \A k \in Sending(p)' : k \in 1..made /\ jobs[k].status \in Unsent
    BY <2>1 DEF Sending, Waiting, Unsent
  <2>3. Removing(p)' = {} /\ SendsOnce(p)' /\ Delivered(p)'
    BY <2>1 DEF Removing, SendsOnce, Delivered, At
  <2>4. SameStatus
    BY <2>1 DEF SameStatus
  <2> QED
    BY <1>1, <1>3, <2>1, <2>2, <2>3, <2>4, ListedBucket
<1>7. CASE TakeUpload(p)
  <2>1. PICK j \in work[p].todo :
          /\ OthersStay(p) /\ Around /\ UNCHANGED <<objects, sent>> /\ At(p, "uploading")
          /\ \/ /\ OnDisk(p, j) /\ OneStatus(j, "uploading") /\ misplaced' = misplaced
                /\ work'[p] = [work[p] EXCEPT !.pc = "sending", !.job = j, !.todo = @ \ {j}]
             \/ /\ OneStatus(j, "failed") /\ misplaced' = misplaced \cup {j}
                /\ work'[p] = [work[p] EXCEPT !.todo = @ \ {j}]
    BY <1>3, <1>7, TakeEffect
  <2>2. j \in 1..made /\ work[p].pc = "uploading"
    BY <2>1, HandsKnown DEF At
  <2>3. /\ work'[p].todo = work[p].todo \ {j}
        /\ \/ work'[p].pc = "uploading"
           \/ OnDisk(p, j) /\ work'[p].pc = "sending" /\ work'[p].job = j
    BY <2>1, <2>2, HandsKnown DEF Stand
  <2>4. Sending(p)' \subseteq Sending(p)
    BY <2>1, <2>2, <2>3 DEF Sending, OnDisk, Around
  <2>5. Removing(p)' = {} /\ SendsOnce(p)' /\ Delivered(p)'
    BY <2>3 DEF Removing, SendsOnce, Delivered, At
  <2>6. CASE OnDisk(p, j) /\ OneStatus(j, "uploading") /\ misplaced' = misplaced
    <3>1. j \in Sending(p)
      BY <2>2, <2>6 DEF Sending, OnDisk
    <3>2. jobs[j].status # "uploaded"
      BY <1>3, <3>1 DEF BucketHeld, SendsFresh
    <3> QED
      BY <1>1, <1>3, <2>1, <2>2, <2>3, <2>4, <2>5, <2>6, <3>1, <3>2, StatusBucket
  <2>7. CASE OneStatus(j, "failed") /\ misplaced' = misplaced \cup {j}
    BY <1>1, <1>3, <2>1, <2>2, <2>3, <2>4, <2>5, <2>7, StatusBucket
  <2> QED
    BY <2>1, <2>6, <2>7
<1>8. CASE Send(p)
  <2>1. /\ OthersStay(p) /\ Around /\ UNCHANGED <<jobs, misplaced, sent>>
        /\ At(p, "sending") /\ objects' = objects \cup {work[p].job}
        /\ work'[p] = [work[p] EXCEPT !.pc = "sent"]
    BY <1>8, SendEffect
  <2>2. work'[p].pc = "sent" /\ work'[p].job = work[p].job /\ work'[p].todo = work[p].todo
    BY <2>1, HandsKnown DEF Stand
  <2>3. work[p].job \in Sending(p) /\ Sending(p)' \subseteq Sending(p) /\ Removing(p)' = {}
    BY <2>1, <2>2 DEF Sending, Removing, At, Around
  <2>4. SendsOnce(p)' /\ Delivered(p)'
    BY <1>3, <2>1, <2>2 DEF BucketHeld, SendsOnce, Delivered, At
  <2>5. SameStatus
    BY <2>1 DEF SameStatus
  <2> QED
    BY <1>1, <1>3, <2>1, <2>2, <2>3, <2>4, <2>5, ListedBucket
<1>9. CASE MarkUploaded(p)
  <2>0. PICK j : j = work[p].job
    OBVIOUS
  <2>1. /\ OthersStay(p) /\ Around /\ UNCHANGED <<objects, misplaced>>
        /\ work[p].pc = "sent" /\ OneStatus(j, "uploaded")
        /\ work'[p] = [work[p] EXCEPT !.pc = "uploading"]
    BY <1>3, <1>9, <2>0, MarkUploadedEffect DEF At
  <2>2. work'[p].pc = "uploading" /\ work'[p].todo = work[p].todo
    BY <2>1, HandsKnown DEF Stand
  <2>3. j \in 1..made /\ j \in objects /\ j \notin work[p].todo
    BY <1>3, <2>0, <2>1, HandsKnown DEF BucketHeld, Delivered, SendsOnce, At
  <2>4. Sending(p)' \subseteq Sending(p) /\ j \notin Sending(p)' /\ Removing(p)' = {}
    BY <2>1, <2>2, <2>3 DEF Sending, Removing, At, Around
  <2>5. SendsOnce(p)' /\ Delivered(p)'
    BY <2>2 DEF SendsOnce, Delivered, At
  <2>6. ASSUME NEW q \in Workers, q # p, j \in Sending(q) PROVE FALSE
    <3>1. birth[j].host = HostOf(p)
      BY <1>3, <2>0, <2>1 DEF BackupsInv, DiskHeld, OwnSend, OnDisk
    <3>2. birth[j].host = HostOf(q) /\ work[q].pc \in {"uploading", "sending", "sent"}
      BY <1>3, <2>6 DEF BackupsInv, DiskHeld, OwnSend, OnDisk, Sending
    <3> QED
      BY <2>1, <2>6, <3>1, <3>2 DEF BackupsInv, LockHeld, Inside
  <2> QED
    BY <1>1, <1>3, <2>1, <2>2, <2>3, <2>4, <2>5, <2>6, StatusBucket
<1>10. CASE SendFails(p)
  <2>0. PICK j : j = work[p].job
    OBVIOUS
  <2>1. /\ OthersStay(p) /\ Around /\ UNCHANGED <<objects, misplaced, sent>>
        /\ work[p].pc \in {"sending", "sent"} /\ OneStatus(j, "upload_failed")
        /\ work'[p] = [work[p] EXCEPT !.pc = "uploading"]
    BY <1>3, <1>10, <2>0, SendFailsEffect
  <2>2. work'[p].pc = "uploading" /\ work'[p].todo = work[p].todo
    BY <2>1, HandsKnown DEF Stand
  <2>3. j \in 1..made /\ j \in Sending(p)
    BY <2>0, <2>1, HandsKnown DEF Sending
  <2>4. Sending(p)' \subseteq Sending(p) /\ Removing(p)' = {}
    BY <2>1, <2>2 DEF Sending, Removing, At, Around
  <2>5. SendsOnce(p)' /\ Delivered(p)'
    BY <2>2 DEF SendsOnce, Delivered, At
  <2>6. jobs[j].status # "uploaded"
    BY <1>3, <2>3 DEF BucketHeld, SendsFresh
  <2> QED
    BY <1>1, <1>3, <2>1, <2>2, <2>3, <2>4, <2>5, <2>6, StatusBucket
<1>11. CASE ListLocal(p) \/ Unlink(p)
  <2>1. /\ OthersStay(p) /\ Around /\ UNCHANGED <<objects, misplaced, sent>> /\ SameStatus
        /\ work'[p].pc = "unlinking"
    BY <1>11, ListLocalEffect, UnlinkEffect DEF SameStatus
  <2>2. Sending(p)' = {} /\ Removing(p)' = {} /\ SendsOnce(p)' /\ Delivered(p)'
    BY <2>1 DEF Sending, Removing, SendsOnce, Delivered, At
  <2> QED
    BY <1>1, <1>3, <2>1, <2>2, ListedBucket
<1>12. CASE ListPrune(p)
  <2>1. /\ OthersStay(p) /\ Around /\ UNCHANGED <<jobs, objects, misplaced, sent>>
        /\ work'[p].pc = "pruning" /\ work'[p].todo = Uploaded \ Retained
    BY <1>12, ListPruneEffect
  <2>2. \A k \in work'[p].todo : KeepNewer(k)
    BY <1>1, <1>3, <2>1, PruneSpares
  <2>3. Sending(p)' = {} /\ SendsOnce(p)' /\ Delivered(p)'
    BY <2>1 DEF Sending, SendsOnce, Delivered, At
  <2>4. \A k \in Removing(p)' : k \in 1..made /\ jobs[k].status = "uploaded" /\ KeepNewer(k)
    BY <2>1, <2>2 DEF Removing, At, Uploaded
  <2>5. SameStatus
    BY <2>1 DEF SameStatus
  <2> QED
    BY <1>1, <1>3, <2>1, <2>2, <2>3, <2>4, <2>5, ListedBucket
<1>13. CASE DeleteObject(p)
  BY <1>1, <1>3, <1>13, DeletedBucket
<1>14. CASE MarkPruned(p)
  <2>0. PICK j : j = work[p].job
    OBVIOUS
  <2>1. /\ OthersStay(p) /\ Around /\ UNCHANGED <<objects, misplaced, sent>>
        /\ work[p].pc = "deleted" /\ OneStatus(j, "pruned")
        /\ work'[p] = [work[p] EXCEPT !.pc = "pruning"]
    BY <1>3, <1>14, <2>0, MarkPrunedEffect DEF At
  <2>2. work'[p].pc = "pruning" /\ work'[p].todo = work[p].todo
    BY <2>1, HandsKnown DEF Stand
  <2>3. j \in 1..made /\ j \in Removing(p)
    BY <2>0, <2>1, HandsKnown DEF Removing, At
  <2>4. Sending(p)' = {} /\ Removing(p)' \subseteq Removing(p)
    BY <2>1, <2>2 DEF Sending, Removing, At
  <2>5. SendsOnce(p)' /\ Delivered(p)'
    BY <2>2 DEF SendsOnce, Delivered, At
  <2>6. \A q \in Workers : j \notin Sending(q)
    BY <1>3, <2>3 DEF BucketHeld, Apart
  <2> QED
    BY <1>1, <1>3, <2>1, <2>2, <2>3, <2>4, <2>5, <2>6, StatusBucket
<1> QED
  BY <1>4, <1>5, <1>6, <1>7, <1>8, <1>9, <1>10, <1>11, <1>12, <1>13, <1>14 DEF Busy, Uploading

-----------------------------------------------------------------------------

LEMMA RetentionInit == Init => RetentionInv
<1> SUFFICES ASSUME Init PROVE RetentionInv
  OBVIOUS
<1>1. BackupsInv
  BY BackupsInit
<1>2. \A p \in Hands : work[p].pc = "idle" /\ work[p].todo = {}
  BY DEF Init, Idle, Stands
<1>3. SlotsHeld
  <2>1. slots \in [Times -> Slot] /\ \A s \in Times : ~Completed(s)
    BY DEF Init, Slot, NoSlot, Completed
  <2> QED
    BY <1>2, <2>1 DEF SlotsHeld, OwnJob, CarriesDumped, Promises, DumpsApart, At
<1>4. BucketHeld
  <2>1. made = 0 /\ misplaced = {} /\ sent = FALSE /\ Uploaded = {}
    BY DEF Init, Uploaded
  <2>2. \A p \in Hands : Sending(p) = {} /\ Removing(p) = {}
    BY <1>2 DEF Sending, Removing, At
  <2> QED
    BY <1>2, <2>1, <2>2
    DEF BucketHeld, SendsFresh, RemovesOld, SendsOnce, RemovesSpare, Delivered, Apart, At
<1> QED
  BY <1>1, <1>3, <1>4 DEF RetentionInv

LEMMA RetentionStep == RetentionInv /\ [Next]_vars => RetentionInv'
<1> SUFFICES ASSUME BackupsInv, SlotsHeld, BucketHeld, [Next]_vars PROVE RetentionInv'
  BY DEF RetentionInv
<1>1. BackupsInv' /\ WorkSound' /\ StateSound'
  <2>1. BackupsInv'
    BY BackupsStep
  <2> QED
    BY <2>1 DEF BackupsInv
<1>2. CASE Next
  <2>1. Grows
    BY <1>2, StateStep DEF BackupsInv
  <2>2. made' \in Nat
    BY <1>1, BackupAssumption DEF StateSound
  <2>3. SlotsHeld' /\ BucketHeld'
    <3>1. CASE restored'
      BY <3>1 DEF SlotsHeld, BucketHeld
    <3>2. CASE ~restored'
      BY <1>1, <1>2, <2>1, <2>2, <3>2, SlotsStep, BucketStep
    <3> QED
      BY <3>1, <3>2
  <2> QED
    BY <1>1, <2>3 DEF RetentionInv
<1>3. CASE UNCHANGED vars
  <2>1. UNCHANGED <<jobs, slots, objects, misplaced, sent, made, birth, restored, work>>
    BY <1>3 DEF vars, database, storage, history
  <2>2. SlotsHeld'
    BY <2>1, SameSlots
  <2>3. Safe' = Safe /\ Uploaded' = Uploaded
    BY <2>1 DEF Safe, Uploaded
  <2>4. \A k : KeepNewer(k)' <=> KeepNewer(k)
    BY <2>3 DEF KeepNewer, Newer
  <2>5. \A p \in Hands : Sending(p)' = Sending(p) /\ Removing(p)' = Removing(p)
    BY <2>1 DEF Sending, Removing, At
  <2>6. BucketHeld'
    BY <2>1, <2>3, <2>4, <2>5
    DEF BucketHeld, SendsFresh, RemovesOld, SendsOnce, RemovesSpare, Delivered, Apart, At
  <2> QED
    BY <1>1, <2>2, <2>6 DEF RetentionInv
<1> QED
  BY <1>2, <1>3

\* The layers above hold in every state, whichever processes of whichever
\* hosts dump, upload and prune over one another (run_slot, upload_pending,
\* prune_local, prune_remote).
THEOREM RetentionInvariance == Spec => []RetentionInv
  BY RetentionInit, RetentionStep, PTL DEF Spec

\* A dump slot marked completed has a backup, also when another process
\* marked it, until a restore replaces the collections; finish_slot itself
\* looks at the slot alone, so it is run_slot that has to know.
THEOREM CompletedSlotHasBackupCorrect == Spec => []CompletedSlotHasBackup
<1>1. RetentionInv => CompletedSlotHasBackup
  <2> SUFFICES ASSUME RetentionInv, NEW s \in Times, Completed(s), ~restored
               PROVE \E j \in JobsOf(s) : jobs[j].status \in Successful \cup Unsent \/ j \in misplaced
    BY DEF CompletedSlotHasBackup, Completed
  <2>1. Backed(s)
    BY DEF RetentionInv, SlotsHeld
  <2> QED
    BY <2>1 DEF Backed, HasArchive, JobsOf
<1> QED
  BY <1>1, RetentionInvariance, PTL

\* Once upload_pending verified a backup, one in the bucket can be restored at
\* any later time, however often prune_remote runs and is interrupted.
THEOREM RestorableKeptCorrect == Spec => []RestorableKept
<1>1. RetentionInv => RestorableKept
  <2> SUFFICES ASSUME RetentionInv, sent, ~restored
               PROVE \E j \in objects : jobs[j].status = "uploaded" \/ j \in misplaced
    BY DEF RestorableKept
  <2>1. Safe # {}
    BY DEF RetentionInv, BucketHeld
  <2> QED
    BY <2>1 DEF Safe, Uploaded
<1> QED
  BY <1>1, RetentionInvariance, PTL

\* No archive that is being sent, or is sent and not yet marked, is one that
\* prune_remote or a delete left over from it is about to take away.
THEOREM SentNotRemovedCorrect == Spec => []SentNotRemoved
<1>1. RetentionInv => SentNotRemoved
  <2> SUFFICES ASSUME RetentionInv, NEW p \in Workers, NEW q \in Hands, ~restored,
                      work[p].pc \in {"sending", "sent"}, At(q, "pruning"),
                      work[p].job \in work[q].todo
               PROVE FALSE
    BY DEF SentNotRemoved
  <2>1. work[p].job \in Sending(p) /\ work[p].job \in Removing(q)
    BY DEF Sending, Removing, At
  <2> QED
    BY <2>1 DEF RetentionInv, BucketHeld, Apart
<1> QED
  BY <1>1, RetentionInvariance, PTL

\* Nothing else replaces the collections.
LEMMA OnlyRestores ==
  ASSUME Next, ~restored, restored'
  PROVE (\E p \in Workers : Restore(p)) \/ (\E x \in Strays : StrayRestores(x))
BY DEF Next, Straying, StrayDumps, StraySends, StrayDeletes, StrayStops,
   Workers, Scheduling, PollDump, PollTask, FinishFailed, FinishDone, FinishSlot,
   Asking, AskRun, AskRestore, CheckRestore, Enter, Leave, Cancel, Crash, Tick,
   Dumping, Look, InsertJob, DumpDone, DumpFails, DumpRefused,
   Uploading, ListUploads, TakeUpload, Send, MarkUploaded, SendFails,
   Pruning, ListLocal, Unlink, ListPrune, DeleteObject, DeleteFails, MarkPruned, Pruned, history

\* Whenever prune_remote takes an object out of the bucket, backup_keep_count
\* newer ones are in it, those counted by a list that is no longer true
\* included.
THEOREM PruneKeepsNewerCorrect == Spec => PruneKeepsNewer
<1> DEFINE Step == \A j \in objects \ objects' :
                     ~restored => Cardinality({k \in (Uploaded \cup misplaced) \cap objects' : k > j})
                                    >= Keep
<1>1. RetentionInv /\ [Next]_vars => [Step]_vars
  <2> SUFFICES ASSUME RetentionInv, Next, NEW j \in objects \ objects', ~restored
               PROVE Cardinality({k \in (Uploaded \cup misplaced) \cap objects' : k > j}) >= Keep
    OBVIOUS
  <2>0. BackupsInv /\ SlotsHeld /\ BucketHeld
    BY DEF RetentionInv
  <2>1. PICK q \in Hands : j \in Removing(q) /\ objects' = objects \ {j}
    <3>1. ~Resting
      BY DEF Resting
    <3>2. CASE restored'
      BY <3>2, OnlyRestores DEF Restore, StrayRestores, storage
    <3>3. ASSUME NEW p \in Workers, Busy(p), ~restored'
          PROVE j \in Removing(p) /\ objects' = objects \ {j}
      <4>1. DeleteObject(p)
        BY <3>3 DEF Busy, Uploading, InsertJob, DumpDone, DumpFails, ListUploads, TakeUpload, Send,
           MarkUploaded, SendFails, ListLocal, Unlink, ListPrune, MarkPruned, storage, database
      <4>2. PICK i \in work[p].todo : At(p, "pruning") /\ objects' = objects \ {i}
        BY <2>0, <4>1, DeleteEffect
      <4> QED
        BY <4>2 DEF Removing, At
    <3>4. ASSUME NEW x \in Strays, Loose(x)
          PROVE j \in Removing(x) /\ objects' = objects \ {j}
      <4>1. PICK i \in work[x].todo : At(x, "pruning") /\ objects' = objects \ {i}
        BY <2>0, <3>4, LooseEffect
      <4> QED
        BY <4>1 DEF Removing, At
    <3> QED
      BY <2>0, <3>1, <3>2, <3>3, <3>4, RestingStep
  <2>2. KeepNewer(j) /\ j \in Nat
    BY <2>0, <2>1, HandsInBounds DEF BucketHeld, RemovesSpare
  <2>3. Newer(j) = {k \in (Uploaded \cup misplaced) \cap objects' : k > j}
    BY <2>1, <2>2 DEF Newer, Safe
  <2> QED
    BY <2>2, <2>3 DEF KeepNewer
<1> QED
  BY <1>1, RetentionInvariance, PTL DEF Spec, PruneKeepsNewer

=============================================================================
