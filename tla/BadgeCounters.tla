--------------------------- MODULE BadgeCounters ---------------------------
(***************************************************************************)
(* The stored sidebar badges: one document of counters, read by every      *)
(* client instead of counting rows, and adjusted with $inc by the handler  *)
(* that changed a row, AFTER its write and from the rows it remembered.    *)
(* This module runs RegisterLifecycle and adds the counters to its replies.*)
(* A worker may stop at any time; the one that replaces it counts all rows *)
(* and overwrites the document before it serves, while the others go on.   *)
(***************************************************************************)
EXTENDS RegisterLifecycle, Integers

(* An ObjectId has twelve bytes. *)
ASSUME FiniteRows == IsFiniteSet(TxIds)

VARIABLES badges,      \* system_counters["badges"], flattened to buckets
          repair,      \* the repair of a worker that starts: what it found, and
                       \* that no row was written since it began
          drift        \* history: a delta was lost, or a repair overlapped a write

bvars == <<vars, badges, repair, drift>>

(* The changes a handler reports: its own $set, except that bulk-re-approve *)
(* and re-approve of a row without an original leave out the edited mark.  *)
Reported(q, row) ==
    IF q.op = "re_approve"
    THEN [row EXCEPT !.verified = TRUE, !.rejected = FALSE]
    ELSE SetBy(q, row)

(* The documents after the update, as note_mutations computes them from    *)
(* the remembered ones: the rows the request does not post are unchanged.  *)
Noted(q) == [i \in TxIds |-> IF i \in Posted(q) THEN Reported(q, q.docs[i])
                                                ELSE q.docs[i]]

Members(bucket, docs) == {i \in TxIds : InBucket(bucket, docs[i])}

(* note_many: how many of the noted rows entered the bucket, less how many *)
(* left it; adjust_badges adds it atomically.                              *)
Delta(q, bucket) ==
    Cardinality(Members(bucket, Noted(q))) - Cardinality(Members(bucket, q.docs))

Adjust(q) == badges' = [b \in Buckets |-> badges[b] + Delta(q, b)]

(* What a full count of the collection would find.                         *)
Count(bucket, docs) == Cardinality({i \in TxIds : Listed(bucket, docs[i])})

(* The rows that were written and whose transition is still to be posted.  *)
Unposted(q) == IF q.op \in Inserts THEN q.written ELSE q.written \cap Loaded(q)

Pending == \E r \in Requests : Unposted(req[r]) # {}

-----------------------------------------------------------------------------
(* A worker that stops, and the repair by the one that takes its place.    *)

NoRepair == [pc |-> "off", found |-> [b \in Buckets |-> 0], alone |-> FALSE]

Repairing == repair.pc # "off"

(* Its requests end where they are: what they wrote and did not post yet   *)
(* is lost to the badges.                                                  *)
StopWorker(S) ==
    /\ ~Repairing
    /\ req' = [r \in Requests |-> IF r \in S THEN Idle ELSE req[r]]
    /\ drift' = (drift \/ \E r \in S : Unposted(req[r]) # {})
    /\ repair' = [NoRepair EXCEPT !.pc = "counting", !.alone = TRUE]
    /\ UNCHANGED <<db, issued, shown, badges>>

(* Six queries for the totals, then one pass for the cashiers.  They are   *)
(* one step: when a row is written between two of them nothing is asked of *)
(* what was found.                                                         *)
CountAll ==
    /\ repair.pc = "counting"
    /\ repair' = [repair EXCEPT !.pc = "found", !.found = [b \in Buckets |-> Count(b, db)]]
    /\ UNCHANGED <<vars, badges, drift>>

(* The $set puts an end to any drift, unless a row was written since the   *)
(* first count or a delta is still on its way.                             *)
Overwrite ==
    /\ repair.pc = "found"
    /\ badges' = repair.found
    /\ drift' = (Pending \/ ~repair.alone)
    /\ repair' = NoRepair
    /\ UNCHANGED vars

(* A repair that fails is logged, and the worker serves all the same.      *)
RepairFails ==
    /\ Repairing
    /\ repair' = NoRepair
    /\ UNCHANGED <<vars, badges, drift>>

-----------------------------------------------------------------------------

BInit ==
    /\ Init
    /\ badges = [b \in Buckets |-> 0]
    /\ repair = NoRepair
    /\ drift = FALSE

Handling(r) ==
    \/ (Arrive(r) \/ Step(r)) /\ UNCHANGED badges
    \/ Note(r) /\ Adjust(req[r])

Serving ==
    /\ \E r \in Requests : Handling(r)
    /\ repair' = IF db' # db THEN [repair EXCEPT !.alone = FALSE] ELSE repair
    /\ UNCHANGED drift

BNext ==
    \/ Serving
    \/ \E S \in SUBSET Requests : StopWorker(S)
    \/ CountAll \/ Overwrite \/ RepairFails

BSpec == BInit /\ [][BNext]_bvars

BadgesTypeOK ==
    /\ TypeOK /\ badges \in [Buckets -> Int]
    /\ repair \in [pc : {"off", "counting", "found"}, found : [Buckets -> Nat],
                   alone : BOOLEAN]
    /\ repair.alone => Repairing
    /\ drift \in BOOLEAN

-----------------------------------------------------------------------------
(* The rows as the counters know them: a row some request has written and  *)
(* not yet posted still counts as that request remembers it.               *)

Known == [i \in TxIds |->
            IF \E r \in Requests : i \in Unposted(req[r])
            THEN req[CHOOSE r \in Requests : i \in Unposted(req[r])].docs[i]
            ELSE db[i]]

(* Every stored badge is the number of rows its query would count, as soon *)
(* as the deltas of the requests in flight are posted: no handler forgets, *)
(* repeats or misjudges a transition, no request has to finish first for   *)
(* another one's count to be right, and a repair that nobody wrote beside  *)
(* makes up for whatever a worker took with it.                            *)
BadgesTrackRows == ~drift => \A b \in Buckets : badges[b] = Count(b, Known)

(* What a reader may rely on: when no request is in flight, and none was   *)
(* lost, the badges are the counts (badge_counters.py: "Stored sidebar     *)
(* badges").                                                               *)
BadgesExactAtRest ==
    ~drift /\ (\A r \in Requests : req[r].pc = "idle") =>
        \A b \in Buckets : badges[b] = Count(b, db)

-----------------------------------------------------------------------------
(* Users who never work on the same expense at the same time, on workers   *)
(* that do not stop.  An expense is a row with its pending clones.         *)

Family(i, docs) ==
    LET root(j) == IF docs[j] # NoDoc /\ docs[j].original # NoOne
                   THEN docs[j].original ELSE j
    IN {j \in TxIds : root(j) = root(i)}

Held(q) == q.ids \cup q.todo \cup Loaded(q) \cup q.next.todo

Claim(q) == UNION {Family(i, db) : i \in Held(q)}

Disjoint ==
    \A r, s \in Requests : r # s => Claim(req[r]) \cap Claim(req[s]) = {}

DisjointSpec == BInit /\ [][Serving /\ Disjoint']_bvars
=============================================================================
