---------------------------- MODULE BadgeProofs ----------------------------
(***************************************************************************)
(* Proofs about the stored badges, for any sets of rows, users and         *)
(* requests in flight.  While no two requests work on the same expense at  *)
(* the same time, every handler that posts its transitions posts exactly   *)
(* the ones it made: each counter is the number of rows its query finds,   *)
(* as soon as the deltas on their way are added.                           *)
(***************************************************************************)
EXTENDS BadgeCounters, RegisterProofs, FiniteSetTheorems

(* The two ways of deciding whether a row is in a queue agree.             *)
LEMMA ListedIsIn ==
    ASSUME NEW row \in Row \cup {NoDoc}, NEW b \in Buckets
    PROVE  Listed(b, row) <=> InBucket(b, row)
<1>1. CASE row = NoDoc
  BY <1>1 DEF Listed, InBucket
<1>2. CASE row \in Row
  <2>1. /\ inbox_base_query(row) <=> InVerify(row)
        /\ edited_count_query(row) <=> InEdited(row)
        /\ DRAFT_BASE_MATCH(row) <=> InDrafts(row)
        /\ PARKED_BASE_MATCH(row) <=> InParked(row)
        /\ DELETION_BASE_MATCH(row) <=> InDeletionRequests(row)
        /\ RESTORE_COUNT_MATCH(row) <=> InRestoreRequests(row)
    BY <1>2 DEF Row, inbox_base_query, edited_count_query, DRAFT_BASE_MATCH,
       PARKED_BASE_MATCH, DELETION_BASE_MATCH, RESTORE_COUNT_MATCH, InVerify, InEdited,
       InDrafts, InParked, OpenRegister, InDeletionRequests, InRestoreRequests
  <2> QED
    BY <2>1 DEF Listed, InBucket, Buckets, BadgeKeys
<1> QED
  BY <1>1, <1>2

(* What a handler reports of a row it changed is in the queues of what it  *)
(* wrote: re-approve leaves out the edited mark, which decides nothing on  *)
(* a verified row.                                                         *)
LEMMA ReportedTells ==
    ASSUME NEW q, NEW row \in Row
    PROVE  SameQueues(Reported(q, row), SetBy(q, row))
<1>1. CASE q.op # "re_approve"
  BY <1>1 DEF Reported, SameQueues
<1>2. CASE q.op = "re_approve"
  <2> DEFINE a == [row EXCEPT !.verified = TRUE, !.rejected = FALSE]
             b == ReApproved(row)
  <2>1. Reported(q, row) = a /\ SetBy(q, row) = b
    BY <1>2, Zenon DEF Reported, SetBy, Inserts, Deletes
  <2>2. a \in Row /\ b \in Row
    BY DEF Row, ReApproved
  <2>3. /\ a.cashier = b.cashier /\ a.verified = TRUE /\ b.verified = TRUE
        /\ a.deletion = b.deletion /\ a.trashed = b.trashed /\ a.restore = b.restore
    BY DEF Row, ReApproved
  <2> HIDE DEF a, b
  <2>4. a # NoDoc /\ b # NoDoc
    BY <2>2, NoDocIsNoRow
  <2>5. /\ InVerify(a) <=> InVerify(b)
        /\ InEdited(a) <=> InEdited(b)
        /\ InDrafts(a) <=> InDrafts(b)
        /\ InParked(a) <=> InParked(b)
        /\ InDeletionRequests(a) <=> InDeletionRequests(b)
        /\ InRestoreRequests(a) <=> InRestoreRequests(b)
    BY <2>3 DEF InVerify, InEdited, InDrafts, InParked, OpenRegister,
       InDeletionRequests, InRestoreRequests
  <2> QED
    BY <2>1, <2>3, <2>4, <2>5 DEF SameQueues, Buckets, BadgeKeys, InBucket
<1> QED
  BY <1>1, <1>2

(* A delta makes up, in a full count, for the rows of W: what counted as   *)
(* remembered before counts as reported after.                             *)
LEMMA DeltaMakesUp ==
    ASSUME NEW A \in SUBSET TxIds, NEW A2 \in SUBSET TxIds,
           NEW B \in SUBSET TxIds, NEW B2 \in SUBSET TxIds, NEW W,
           A2 \ W = A \ W, B2 \ W = B \ W,
           A \cap W = B \cap W, A2 \cap W = B2 \cap W
    PROVE  Cardinality(B2) = Cardinality(B) + (Cardinality(A2) - Cardinality(A))
<1>1. \A S \in SUBSET TxIds :
         /\ Cardinality(S) \in Nat /\ Cardinality(S \cap W) \in Nat
         /\ Cardinality(S \ W) \in Nat
         /\ Cardinality(S \ W) = Cardinality(S) - Cardinality(S \cap W)
  <2> TAKE S \in SUBSET TxIds
  <2>1. IsFiniteSet(S) /\ IsFiniteSet(S \cap W) /\ IsFiniteSet(S \ W)
    BY FiniteRows, FS_Subset
  <2> QED
    BY <2>1, FS_CardinalityType, FS_Difference
<1>2. /\ Cardinality(A2 \ W) = Cardinality(A \ W)
      /\ Cardinality(B2 \ W) = Cardinality(B \ W)
      /\ Cardinality(A \cap W) = Cardinality(B \cap W)
      /\ Cardinality(A2 \cap W) = Cardinality(B2 \cap W)
  BY Zenon
<1>3. /\ Cardinality(A \ W) = Cardinality(A) - Cardinality(A \cap W)
      /\ Cardinality(A2 \ W) = Cardinality(A2) - Cardinality(A2 \cap W)
      /\ Cardinality(B \ W) = Cardinality(B) - Cardinality(B \cap W)
      /\ Cardinality(B2 \ W) = Cardinality(B2) - Cardinality(B2 \cap W)
  BY <1>1
<1>4. /\ Cardinality(A) \in Nat /\ Cardinality(A2) \in Nat
      /\ Cardinality(B) \in Nat /\ Cardinality(B2) \in Nat
      /\ Cardinality(A \cap W) \in Nat /\ Cardinality(A2 \cap W) \in Nat
  BY <1>1
<1> QED
  <2> DEFINE a == Cardinality(A)
             a2 == Cardinality(A2)
             b == Cardinality(B)
             b2 == Cardinality(B2)
             aw == Cardinality(A \cap W)
             aw2 == Cardinality(A2 \cap W)
  <2>1. a2 - aw2 = a - aw /\ b2 - aw2 = b - aw
    BY <1>2, <1>3, Zenon
  <2>2. /\ a \in Nat /\ a2 \in Nat /\ b \in Nat /\ b2 \in Nat
        /\ aw \in Nat /\ aw2 \in Nat
    BY <1>4
  <2> HIDE DEF a, a2, b, b2, aw, aw2
  <2>3. b2 = b + (a2 - a)
    BY <2>1, <2>2
  <2> QED
    BY <2>3 DEF a, a2, b, b2

LEMMA CountsAreFinite ==
    ASSUME NEW b \in Buckets, NEW docs
    PROVE  /\ IsFiniteSet(Members(b, docs)) /\ Cardinality(Members(b, docs)) \in Nat
           /\ Count(b, docs) \in Nat
<1>1. /\ Members(b, docs) \subseteq TxIds
      /\ {i \in TxIds : Listed(b, docs[i])} \subseteq TxIds
  BY DEF Members
<1> QED
  BY <1>1, FiniteRows, FS_Subset, FS_CardinalityType DEF Count

-----------------------------------------------------------------------------
(* Type correctness, with workers that stop and repairs of the counters.   *)

BIInv == IInv /\ BadgesTypeOK

LEMMA ServingKeepsTypes ==
    ASSUME BIInv, Serving
    PROVE  BIInv'
<1>1. PICK r \in Requests : Handling(r)
  BY DEF Serving
<1>2. IInv' /\ TypeOK'
  BY <1>1, StepKeepsInv DEF BIInv, Handling, IInv
<1>3. badges' \in [Buckets -> Int]
  <2>1. CASE UNCHANGED badges
    BY <2>1 DEF BIInv, BadgesTypeOK
  <2>2. CASE Adjust(req[r])
    <3>1. \A b \in Buckets : Delta(req[r], b) \in Int
      BY CountsAreFinite DEF Delta
    <3>2. \A b \in Buckets : badges[b] + Delta(req[r], b) \in Int
      BY <3>1 DEF BIInv, BadgesTypeOK
    <3> QED
      BY <2>2, <3>2 DEF Adjust
  <2> QED
    BY <1>1, <2>1, <2>2 DEF Handling
<1>4. /\ repair' \in [pc : {"off", "counting", "found"}, found : [Buckets -> Nat],
                      alone : BOOLEAN]
      /\ repair'.alone => repair'.pc # "off"
  <2>1. repair' = repair \/ repair' = [repair EXCEPT !.alone = FALSE]
    BY DEF Serving
  <2> QED
    BY <2>1 DEF BIInv, BadgesTypeOK, Repairing
<1>5. drift' = drift
  BY DEF Serving
<1> QED
  BY <1>2, <1>3, <1>4, <1>5 DEF BIInv, BadgesTypeOK, Repairing

LEMMA RepairKeepsTypes ==
    ASSUME BIInv, CountAll \/ Overwrite \/ RepairFails
    PROVE  BIInv'
<1>1. vars' = vars /\ IInv' /\ TypeOK'
  BY DEF BIInv, CountAll, Overwrite, RepairFails, vars, IInv, TypeOK
<1>2. /\ NoRepair \in [pc : {"off", "counting", "found"}, found : [Buckets -> Nat],
                       alone : BOOLEAN]
      /\ NoRepair.alone = FALSE
  BY DEF NoRepair
<1>3. CASE CountAll
  <2>1. [b \in Buckets |-> Count(b, db)] \in [Buckets -> Nat]
    BY CountsAreFinite
  <2>2. PICK found \in [Buckets -> Nat] :
           repair' = [repair EXCEPT !.pc = "found", !.found = found]
    BY <1>3, <2>1 DEF CountAll
  <2>3. UNCHANGED <<badges, drift>>
    BY <1>3 DEF CountAll
  <2> QED
    BY <1>1, <2>2, <2>3 DEF BIInv, BadgesTypeOK, Repairing
<1>4. CASE Overwrite
  <2>1. badges' \in [Buckets -> Int] /\ repair' = NoRepair
    BY <1>4 DEF Overwrite, BIInv, BadgesTypeOK
  <2>2. PICK z \in BOOLEAN : drift' = z
    BY <1>4 DEF Overwrite
  <2> QED
    BY <1>1, <1>2, <2>1, <2>2 DEF BIInv, BadgesTypeOK, Repairing
<1>5. CASE RepairFails
  BY <1>1, <1>2, <1>5 DEF RepairFails, BIInv, BadgesTypeOK, Repairing
<1> QED
  BY <1>3, <1>4, <1>5

LEMMA StopKeepsTypes ==
    ASSUME BIInv, NEW S \in SUBSET Requests, StopWorker(S)
    PROVE  BIInv'
<1>1. IInv' /\ TypeOK'
  <2>1. \A r \in Requests : req'[r] = Idle \/ req'[r] = req[r]
    BY DEF StopWorker
  <2>2. req' \in [Requests -> Request] /\ UNCHANGED <<db, issued, shown>>
    BY IdleTyped DEF StopWorker, BIInv, IInv, TypeOK
  <2>3. \A r \in Requests : RequestOK(req'[r])
    BY <2>1, IdleTyped DEF BIInv, IInv
  <2> QED
    BY <2>2, <2>3 DEF BIInv, IInv, TypeOK
<1>2. PICK z \in BOOLEAN : drift' = z
  BY DEF StopWorker
<1>3. repair' = [pc |-> "counting", found |-> [b \in Buckets |-> 0], alone |-> TRUE]
  BY DEF StopWorker, NoRepair
<1>4. [b \in Buckets |-> 0] \in [Buckets -> Nat]
  OBVIOUS
<1>5. badges' = badges
  BY DEF StopWorker
<1> QED
  BY <1>1, <1>2, <1>3, <1>4, <1>5 DEF BIInv, BadgesTypeOK, Repairing

(* A badge is an integer and a repair has found numbers, whichever workers *)
(* stop and whatever they leave behind.                                    *)
THEOREM BadgesTypeCorrect == BSpec => []BadgesTypeOK
<1>1. BInit => BIInv
  <2> SUFFICES ASSUME BInit PROVE BIInv
    OBVIOUS
  <2>1. IInv /\ TypeOK
    BY InitInv DEF BInit, IInv
  <2>2. badges = [b \in Buckets |-> 0] /\ drift = FALSE /\ repair = NoRepair
    BY DEF BInit
  <2>3. /\ [b \in Buckets |-> 0] \in [Buckets -> Nat]
        /\ [b \in Buckets |-> 0] \in [Buckets -> Int]
    OBVIOUS
  <2> QED
    BY <2>1, <2>2, <2>3 DEF BIInv, BadgesTypeOK, NoRepair, Repairing
<1>2. BIInv /\ [BNext]_bvars => BIInv'
  <2> SUFFICES ASSUME BIInv, [BNext]_bvars PROVE BIInv'
    OBVIOUS
  <2>1. CASE UNCHANGED bvars
    BY <2>1 DEF bvars, vars, BIInv, IInv, BadgesTypeOK, TypeOK, Repairing
  <2> QED
    BY <2>1, ServingKeepsTypes, RepairKeepsTypes, StopKeepsTypes DEF BNext
<1>3. BIInv => BadgesTypeOK
  BY DEF BIInv
<1> QED
  BY <1>1, <1>2, <1>3, PTL DEF BSpec
-----------------------------------------------------------------------------
(* The endpoints that post every transition they make, or make none.  Left *)
(* out are the four that write behind the counters' back: purging from the *)
(* discarded list, bulk restore requests, and the two bulk decisions on    *)
(* deletion requests.                                                      *)
Noting ==
    ScopedOps \cup SaveOps \cup ManagerOps
    \cup {"create", "create_flagged", "submit_day", "discard_day", "delete",
          "request_delete", "request_restore", "confirm_deletion", "pending_edit",
          "discard_rejected", "restore_discarded"}

Silent == {"discard_rejected", "restore_discarded"}

(* What a request in flight knows of the rows "docs".  A row it has still  *)
(* to write is as it remembers it, and it remembers every row it is going  *)
(* to change, unless it inserts it or changes no queue of it ...           *)
Fresh(q, docs) ==
    q.pc = "write" => \A i \in q.todo :
        /\ i \notin q.written
        /\ q.docs[i] # NoDoc => q.docs[i] = docs[i]
        /\ Matches(q, docs[i]) => q.op \in Inserts \cup Silent \/ q.docs[i] = docs[i]

(* ... it remembers no row that it will not have changed ...               *)
LoadedOK(q) ==
    \A i \in Loaded(q) :
        /\ q.op \notin Inserts \cup Silent
        /\ q.op # "resubmit" => Filter(q, q.docs[i]) /\ i \in q.todo \cup q.written

(* ... a row it has changed is where it is going to report it ...          *)
WrittenOK(q, docs) ==
    \A i \in q.written :
        /\ q.op \in Inserts => docs[i] = q.new
        /\ q.op \notin Silent => SameQueues(Reported(q, q.docs[i]), docs[i])
        /\ q.op \notin Inserts \cup Silent => i \in Loaded(q)

(* ... a row it inserts is of the expense it names ...                     *)
InsertOK(q) ==
    /\ q.op = "create" => q.todo \cup q.written \subseteq q.ids
    /\ q.op \in {"pending_edit", "insert_clone"} =>
          q.new # NoDoc /\ q.new.original \in q.ids

(* ... and the row of its second stage is as that stage remembers it.      *)
NextOK(q, docs) ==
    q.next.op # "none" =>
        \E i \in TxIds :
            /\ docs[i] # NoDoc /\ q.ids = {i} /\ q.next.todo = {i}
            /\ q.next.docs = [j \in TxIds |-> IF j = i THEN docs[i] ELSE NoDoc]
            /\ \/ /\ q.op = "cascade" /\ q.next.op = "drop_clone"
                  /\ docs[i].original # NoOne
               \/ /\ q.op = "drop_clones_of" /\ q.next.op = "confirm_deletion"
                  /\ DELETION_BASE_MATCH(docs[i])

PhaseOK(q) ==
    /\ q.pc = "idle" => q = Idle
    /\ q.pc = "find" => q.written = {} /\ q.docs = NoDocs
    /\ q.pc = "note" => q.todo = {}

Tracked(q, docs) ==
    /\ Fresh(q, docs) /\ LoadedOK(q) /\ WrittenOK(q, docs)
    /\ InsertOK(q) /\ NextOK(q, docs) /\ PhaseOK(q)

Tracks == \A r \in Requests : Tracked(req[r], db)

Base == IInv /\ IdsInv /\ EditsInv /\ Disjoint /\ Tracks

-----------------------------------------------------------------------------
(* A request claims every row it names, writes or has to post.             *)

LEMMA HeldClaimed ==
    ASSUME NEW q \in Request
    PROVE  Held(q) \subseteq Claim(q) /\ Held(q) \subseteq TxIds
<1>1. Held(q) \subseteq TxIds
  BY DEF Held, Request, Stage, Loaded
<1>2. \A i \in TxIds : i \in Family(i, db)
  BY DEF Family
<1> QED
  BY <1>1, <1>2 DEF Claim

LEMMA WrittenClaimed ==
    ASSUME IInv, EditsInv, NEW q \in Request, Tracked(q, db)
    PROVE  /\ q.op \notin Silent => q.written \subseteq Claim(q)
           /\ Unposted(q) \subseteq Claim(q)
<1>1. Loaded(q) \subseteq Claim(q) /\ q.ids \subseteq Claim(q) /\ q.ids \subseteq TxIds
  BY HeldClaimed DEF Held
<1>2. CASE q.op \notin Inserts
  BY <1>1, <1>2 DEF Tracked, WrittenOK, Unposted
<1>3. CASE q.op = "create"
  BY <1>1, <1>3 DEF Tracked, InsertOK, Unposted
<1>4. CASE q.op = "insert_clone"
  <2>1. q.new # NoDoc /\ q.new.original \in q.ids
    BY <1>4 DEF Tracked, InsertOK
  <2>2. ASSUME NEW i \in q.written PROVE i \in Claim(q)
    <3>1. db[i] = q.new /\ i \in TxIds
      BY <1>4, <2>2 DEF Tracked, WrittenOK, Inserts, Request
    <3> DEFINE o == q.new.original
    <3>2. o \in TxIds /\ o # NoOne
      BY <1>1, <2>1, RowConstants
    <3>3. i \in Clones
      BY <2>1, <3>1, <3>2 DEF Clones, Stored
    <3>4. o \notin Clones
      BY <3>1, <3>3 DEF EditsInv, Root
    <3>5. ~(db[o] # NoDoc /\ db[o].original # NoOne)
      BY <3>2, <3>4 DEF Clones, Stored
    <3>6. i \in Family(o, db)
      BY <2>1, <3>1, <3>2, <3>5 DEF Family
    <3> QED
      BY <2>1, <3>6 DEF Claim, Held
  <2> QED
    BY <1>4, <2>2 DEF Unposted, Inserts
<1> QED
  BY <1>2, <1>3, <1>4 DEF Inserts

(* So what the other requests know does not change under them.             *)
LEMMA OthersTracked ==
    ASSUME Base, NEW r \in Requests, NEW s \in Requests, r # s,
           \A i \in TxIds : db'[i] = db[i] \/ i \in Claim(req[s])
    PROVE  Tracked(req[r], db')
<1> DEFINE q == req[r]
<1>1. q \in Request /\ Tracked(q, db)
  BY DEF Base, IInv, TypeOK, Tracks
<1>2. \A i \in Claim(q) \cap TxIds : db'[i] = db[i]
  BY DEF Base, Disjoint
<1>3. Held(q) \subseteq Claim(q) /\ Held(q) \subseteq TxIds
  BY <1>1, HeldClaimed
<1>4. q.op \notin Silent => q.written \subseteq Claim(q) \cap TxIds
  BY <1>1, WrittenClaimed DEF Base, Request
<1>5. /\ \A i \in q.todo \cup Loaded(q) : db'[i] = db[i]
      /\ q.op \notin Silent => \A i \in q.written : db'[i] = db[i]
      /\ \A i \in q.ids : db'[i] = db[i]
  BY <1>2, <1>3, <1>4 DEF Held
<1> HIDE DEF q
<1>6. Fresh(q, db')
  BY <1>1, <1>5 DEF Tracked, Fresh
<1>7. WrittenOK(q, db')
  BY <1>1, <1>5 DEF Tracked, WrittenOK, Silent, Inserts
<1>8. NextOK(q, db')
  BY <1>1, <1>5 DEF Tracked, NextOK
<1>9. Tracked(q, db')
  BY <1>1, <1>6, <1>7, <1>8 DEF Tracked
<1> QED
  BY <1>9 DEF q

-----------------------------------------------------------------------------
(* A request that has read its rows knows them.                            *)

LEMMA SameFilter ==
    ASSUME NEW q1, NEW q2, q1.op = q2.op, q1.actor = q2.actor, q1.ids = q2.ids, NEW row
    PROVE  Filter(q1, row) <=> Filter(q2, row)
BY DEF Filter

LEMMA ReadTracked ==
    ASSUME IInv, NEW q \in Request, q.pc = "write", q.written = {},
           q.op \notin Inserts \cup Silent \cup {"pending_edit"},
           \A i \in TxIds : q.docs[i] = IF i \in q.todo /\ Loads(q, db[i])
                                        THEN db[i] ELSE NoDoc,
           NextOK(q, db)
    PROVE  Tracked(q, db)
<1>1. q.todo \subseteq TxIds
  BY DEF Request
<1>2. Fresh(q, db)
  BY <1>1 DEF Fresh, Matches, Loads
<1>3. LoadedOK(q)
  BY DEF LoadedOK, Loaded, Loads
<1>4. WrittenOK(q, db) /\ InsertOK(q) /\ PhaseOK(q)
  BY DEF WrittenOK, InsertOK, PhaseOK, Inserts
<1> QED
  BY <1>2, <1>3, <1>4 DEF Tracked

LEMMA LoadTracked ==
    ASSUME IInv, NEW q \in Request, q.pc = "write", q.written = {},
           q.op \notin Inserts \cup Silent \cup {"pending_edit"}, NextOK(q, db)
    PROVE  Tracked(Load(q), db)
<1> DEFINE q2 == Load(q)
<1>1. q2 \in Request
  BY RememberTyped DEF IInv, TypeOK
<1>2. /\ q2.pc = q.pc /\ q2.op = q.op /\ q2.actor = q.actor /\ q2.ids = q.ids
      /\ q2.todo = q.todo /\ q2.written = q.written /\ q2.next = q.next
      /\ q2.docs = [i \in TxIds |-> IF i \in {j \in q.todo : Loads(q, db[j])}
                                    THEN db[i] ELSE NoDoc]
  BY DEF Load, Remember, Request
<1> HIDE DEF q2
<1>3. \A row : Loads(q2, row) <=> Loads(q, row)
  <2> TAKE row
  <2>1. Filter(q2, row) <=> Filter(q, row)
    BY <1>2, SameFilter
  <2> QED
    BY <1>2, <2>1 DEF Loads
<1>4. \A i \in TxIds : q2.docs[i] = IF i \in q2.todo /\ Loads(q2, db[i])
                                    THEN db[i] ELSE NoDoc
  BY <1>2, <1>3
<1>5. NextOK(q2, db)
  BY <1>2 DEF NextOK
<1>6. Tracked(q2, db)
  BY <1>1, <1>2, <1>4, <1>5, ReadTracked
<1> QED
  BY <1>6 DEF q2

(* A request that read what it writes, by _id alone.                       *)
LEMMA RememberTracked ==
    ASSUME IInv, NEW q \in Request, q.pc = "write", q.written = {},
           q.op \in {"trash", "ask_deletion", "drop_clone", "edit_clone", "cascade"},
           NextOK(q, db)
    PROVE  Tracked(Remember(q, q.todo), db)
<1> DEFINE q2 == Remember(q, q.todo)
<1>1. q2 \in Request
  BY RememberTyped DEF IInv, TypeOK
<1>2. /\ q2.pc = q.pc /\ q2.op = q.op /\ q2.ids = q.ids
      /\ q2.todo = q.todo /\ q2.written = q.written /\ q2.next = q.next
      /\ q2.docs = [i \in TxIds |-> IF i \in q.todo THEN db[i] ELSE NoDoc]
  BY DEF Remember, Request
<1> HIDE DEF q2
<1>3. \A row : Loads(q2, row) <=> row # NoDoc
  BY <1>2 DEF Loads, Filter
<1>4. \A i \in TxIds : q2.docs[i] = IF i \in q2.todo /\ Loads(q2, db[i])
                                    THEN db[i] ELSE NoDoc
  BY <1>2, <1>3
<1>5. NextOK(q2, db)
  BY <1>2 DEF NextOK
<1>6. Tracked(q2, db)
  BY <1>1, <1>2, <1>4, <1>5, ReadTracked DEF Inserts, Silent
<1> QED
  BY <1>6 DEF q2

LEMMA CallFields ==
    ASSUME NEW op, NEW u, NEW ids, NEW s
    PROVE  LET q == Call(op, u, ids, s)
           IN /\ q.pc = "write" /\ q.op = op /\ q.actor = u /\ q.ids = ids
              /\ q.todo = ids /\ q.written = {} /\ q.docs = NoDocs
              /\ q.next = NoStage /\ q.new = NoDoc /\ \A docs : NextOK(q, docs)
BY DEF Call, Idle, NextOK, NoStage

LEMMA IdleTracked ==
    ASSUME NEW docs
    PROVE  Tracked(Idle, docs) /\ Unposted(Idle) = {}
<1>1. /\ Idle.pc = "idle" /\ Idle.op = "none" /\ Idle.written = {} /\ Idle.todo = {}
      /\ Idle.next.op = "none" /\ Loaded(Idle) = {}
  BY DEF Idle, NoStage, Loaded, NoDocs
<1> QED
  BY <1>1 DEF Tracked, Fresh, LoadedOK, WrittenOK, InsertOK, NextOK, PhaseOK, Unposted

(* What an arriving request is, and what a step leaves that writes no row. *)
Takes(r, q) ==
    /\ req' = [req EXCEPT ![r] = q]
    /\ Tracked(q, db) /\ q.written = {}
    /\ UNCHANGED db

LEMMA PlainTracked ==
    ASSUME Base, Endpoints \subseteq Noting, NEW r \in Requests, Plain(r)
    PROVE  \E q : Takes(r, q)
<1>1. PICK op \in PlainOps, u \in Users \cup {NoOne}, ids \in SUBSET TxIds,
           s \in Statuses : Arrives(r, op, u, ids, s)
  BY PlainArrival DEF Base
<1> DEFINE q == Call(op, u, ids, s)
<1>2. q \in Request
  BY CallTyped DEF PlainOps
<1>3. /\ q.pc = "write" /\ q.op = op /\ q.ids = ids /\ q.todo = ids /\ q.written = {}
      /\ q.docs = NoDocs /\ NextOK(q, db)
  BY CallFields
<1> HIDE DEF q
<1>4. op \notin Inserts \cup {"pending_edit"}
  BY DEF PlainOps
<1>5. CASE Unread(op) /\ req' = [req EXCEPT ![r] = q]
  <2>1. op \in Silent
    BY <1>5 DEF Unread, Noting, Silent, ScopedUnnotedOps, ScopedOps, SaveOps,
       ManagerOps, InboxOps
  <2>2. Fresh(q, db) /\ LoadedOK(q)
    BY <1>3, <2>1 DEF Fresh, LoadedOK, Loaded, NoDocs
  <2>3. WrittenOK(q, db) /\ InsertOK(q) /\ PhaseOK(q)
    BY <1>3, <1>4 DEF WrittenOK, InsertOK, PhaseOK, Inserts
  <2> QED
    BY <1>1, <1>3, <1>5, <2>2, <2>3 DEF Takes, Tracked, Arrives
<1>6. CASE op \notin ScopedUnnotedOps /\ req' = [req EXCEPT ![r] = Load(q)]
  <2>1. op \notin Silent
    BY <1>6 DEF Silent, ScopedUnnotedOps
  <2>2. Tracked(Load(q), db)
    BY <1>2, <1>3, <1>4, <2>1, LoadTracked DEF Base
  <2>3. Load(q).written = {}
    BY <1>2, <1>3 DEF Load, Remember, Request
  <2> QED
    BY <1>1, <1>6, <2>2, <2>3 DEF Takes, Arrives
<1> QED
  BY <1>1, <1>5, <1>6 DEF Arrives, q

(* The second stage is remembered from the same read as the first.         *)
LEMMA OneDoc ==
    ASSUME NEW i \in TxIds, NEW row
    PROVE  [NoDocs EXCEPT ![i] = row] = [j \in TxIds |-> IF j = i THEN row ELSE NoDoc]
BY DEF NoDocs

LEMMA FindingTracked ==
    ASSUME NEW q, q.pc = "find", q.written = {}, q.docs = NoDocs, InsertOK(q),
           NextOK(q, db)
    PROVE  Tracked(q, db)
<1>1. Loaded(q) = {}
  BY DEF Loaded, NoDocs
<1> QED
  BY <1>1 DEF Tracked, Fresh, LoadedOK, WrittenOK, PhaseOK

LEMMA ArriveTracked ==
    ASSUME Base, Endpoints \subseteq Noting, NEW r \in Requests, Arrive(r)
    PROVE  \E q : Takes(r, q)
<1>1. /\ Stored \subseteq TxIds /\ \A i \in Stored : db[i] \in Row /\ db[i] # NoDoc
      /\ {"draft", "parked"} \subseteq Statuses
      /\ Cashiers \subseteq Users /\ Accountants \subseteq Users
      /\ StageOps \subseteq Ops /\ IInv
  BY DEF Base, IInv, TypeOK, Docs, Stored, Statuses, Users, Ops
<1>2. CASE Plain(r)
  BY <1>2, PlainTracked
<1>3. CASE Create(r)
  <2>1. PICK c \in Cashiers, s \in {"draft", "parked"}, f \in BOOLEAN, i \in TxIds :
          /\ req' = [req EXCEPT ![r] =
                       [Call("create", c, {i}, s) EXCEPT !.new = NewRow(c, s, f)]]
          /\ db' = db
    BY <1>3 DEF Create, Start
  <2> DEFINE q == [Call("create", c, {i}, s) EXCEPT !.new = NewRow(c, s, f)]
  <2>2. /\ q.pc = "write" /\ q.op = "create" /\ q.ids = {i} /\ q.todo = {i}
        /\ q.written = {} /\ q.docs = NoDocs /\ q.next.op = "none"
    BY DEF Call, Idle, NoStage
  <2>3. req' = [req EXCEPT ![r] = q]
    BY <2>1
  <2> HIDE DEF q
  <2>4. Tracked(q, db)
    BY <2>2 DEF Tracked, Fresh, LoadedOK, Loaded, NoDocs, WrittenOK, InsertOK, NextOK,
       PhaseOK, Inserts
  <2> QED
    BY <2>1, <2>2, <2>3, <2>4 DEF Takes
<1>4. CASE RequestDelete(r)
  <2>1. PICK c \in Cashiers, i \in Stored, op \in {"drop_clone", "trash", "ask_deletion"} :
          /\ req' = [req EXCEPT ![r] = Remember(Call(op, c, {i}, "draft"), {i})]
          /\ db' = db
    BY <1>4 DEF RequestDelete, Start
  <2> DEFINE q == Call(op, c, {i}, "draft")
  <2>2. q \in Request
    BY <1>1, CallTyped DEF StageOps
  <2>3. /\ q.pc = "write" /\ q.op = op /\ q.todo = {i} /\ q.written = {}
        /\ NextOK(q, db)
    BY CallFields
  <2>4. req' = [req EXCEPT ![r] = Remember(q, {i})]
    BY <2>1
  <2> HIDE DEF q
  <2>5. Tracked(Remember(q, {i}), db)
    BY <1>1, <2>2, <2>3, RememberTracked
  <2>6. Remember(q, {i}).written = {}
    BY <2>2, <2>3 DEF Remember, Request
  <2> QED
    BY <2>1, <2>4, <2>5, <2>6 DEF Takes
<1>5. CASE PendingEdit(r)
  <2>1. PICK c \in Cashiers, s \in {"draft", "parked"}, i \in Stored :
          /\ req' = [req EXCEPT ![r] =
                       [Call("pending_edit", c, {i}, s) EXCEPT
                          !.pc = "find", !.todo = {}, !.new = CloneOf(db[i], i, s)]]
          /\ db' = db
    BY <1>5 DEF PendingEdit, Start
  <2>2. PICK new \in Row : new = CloneOf(db[i], i, s) /\ new.original = i
    <3>1. CloneOf(db[i], i, s) \in Row
      BY <1>1, CloneOfTyped
    <3>2. CloneOf(db[i], i, s).original = i
      BY <1>1 DEF CloneOf, Row
    <3> QED
      BY <3>1, <3>2
  <2> DEFINE q == [Call("pending_edit", c, {i}, s) EXCEPT
                     !.pc = "find", !.todo = {}, !.new = new]
  <2>3. /\ q.pc = "find" /\ q.op = "pending_edit" /\ q.ids = {i} /\ q.written = {}
        /\ q.docs = NoDocs /\ q.next.op = "none" /\ q.new = new
    BY DEF Call, Idle, NoStage
  <2>4. req' = [req EXCEPT ![r] = q]
    BY <2>1, <2>2
  <2> HIDE DEF q
  <2>5. InsertOK(q) /\ NextOK(q, db)
    BY <2>2, <2>3, NoDocIsNoRow DEF InsertOK, NextOK
  <2>6. Tracked(q, db)
    BY <2>3, <2>5, FindingTracked
  <2> QED
    BY <2>1, <2>3, <2>4, <2>6 DEF Takes
<1>6. ASSUME NEW op \in {"cascade", "drop_clones_of"}, NEW u, NEW i \in Stored,
             NEW todo, NEW stage \in Ops,
             req' = [req EXCEPT ![r] =
                       [Call(op, u, {i}, "draft") EXCEPT
                          !.pc = "find", !.todo = todo,
                          !.next = [op |-> stage, todo |-> {i},
                                    docs |-> [NoDocs EXCEPT ![i] = db[i]]]]],
             \/ op = "cascade" /\ stage = "drop_clone" /\ db[i].original # NoOne
             \/ op = "drop_clones_of" /\ stage = "confirm_deletion"
                /\ DELETION_BASE_MATCH(db[i]),
             db' = db
      PROVE  \E q : Takes(r, q)
  <2> DEFINE docs == [NoDocs EXCEPT ![i] = db[i]]
             next == [op |-> stage, todo |-> {i}, docs |-> docs]
             q == [Call(op, u, {i}, "draft") EXCEPT
                     !.pc = "find", !.todo = todo, !.next = next]
  <2>1. docs = [j \in TxIds |-> IF j = i THEN db[i] ELSE NoDoc]
    BY <1>1, OneDoc
  <2>2. req' = [req EXCEPT ![r] = q]
    BY <1>6
  <2>3. next.op = stage /\ next.todo = {i} /\ next.docs = docs
    OBVIOUS
  <2> HIDE DEF docs, next
  <2>4. /\ q.pc = "find" /\ q.op = op /\ q.ids = {i} /\ q.written = {}
        /\ q.docs = NoDocs /\ q.next = next
    BY DEF Call, Idle
  <2> HIDE DEF q
  <2>5. InsertOK(q)
    BY <2>4 DEF InsertOK
  <2>6. NextOK(q, db)
    BY <1>1, <1>6, <2>1, <2>3, <2>4 DEF NextOK
  <2>7. Tracked(q, db)
    BY <2>4, <2>5, <2>6, FindingTracked
  <2> QED
    BY <1>6, <2>2, <2>4, <2>7 DEF Takes
<1>7. CASE ReApproveEdited(r)
  <2>1. PICK u \in Accountants, i \in Clones :
          /\ req' = [req EXCEPT ![r] =
                       [Call("cascade", u, {i}, "draft") EXCEPT
                          !.pc = "find", !.todo = {},
                          !.next = [op |-> "drop_clone", todo |-> {i},
                                    docs |-> [NoDocs EXCEPT ![i] = db[i]]]]]
          /\ db' = db
    <3>1. shown \subseteq TxIds \X Screens
      BY <1>1 DEF IInv, TypeOK
    <3> QED
      BY <1>7, <3>1 DEF ReApproveEdited, Start, ShownOn, IsPendingClone, Clones, Stored
  <2>2. i \in Stored /\ db[i].original # NoOne /\ "drop_clone" \in Ops
    BY <1>1 DEF Clones, StageOps
  <2> QED
    BY <1>6, <2>1, <2>2
<1>8. CASE ConfirmDeletion(r)
  <2>1. PICK u \in Accountants, i \in Stored :
          /\ DELETION_BASE_MATCH(db[i])
          /\ req' = [req EXCEPT ![r] =
                       [Call("drop_clones_of", u, {i}, "draft") EXCEPT
                          !.pc = "find", !.todo = TxIds,
                          !.next = [op |-> "confirm_deletion", todo |-> {i},
                                    docs |-> [NoDocs EXCEPT ![i] = db[i]]]]]
          /\ db' = db
    BY <1>8 DEF ConfirmDeletion, Start
  <2>2. "confirm_deletion" \in Ops
    BY <1>1 DEF StageOps
  <2> QED
    BY <1>6, <2>1, <2>2
<1>9. ~BulkConfirmDeletions(r)
  BY DEF BulkConfirmDeletions, Start, Noting, ScopedOps, SaveOps, ManagerOps, InboxOps
<1> QED
  BY <1>2, <1>3, <1>4, <1>5, <1>7, <1>8, <1>9 DEF Arrive, Plain

(* The second reads of a handler.                                          *)
LEMMA FindTracked ==
    ASSUME Base, NEW r \in Requests, Find(r)
    PROVE  \E q : Takes(r, q)
<1> DEFINE q == req[r]
<1>1. /\ q \in Request /\ Tracked(q, db) /\ q.pc = "find" /\ IInv /\ EditOK(q)
      /\ RequestOK(q)
  BY DEF Find, Base, IInv, TypeOK, Tracks, EditsInv
<1>2. q.written = {} /\ q.docs = NoDocs /\ InsertOK(q) /\ NextOK(q, db)
  BY <1>1 DEF Tracked, PhaseOK
<1>3. db' = db
  BY DEF Find, FindClone, FindOriginal, LoadClones
<1>4. CASE FindClone(r)
  <2> DEFINE call == Call("edit_clone", q.actor, q.ids, q.status)
             edit(j) == [call EXCEPT !.todo = {j}]
             insert(j) == [q EXCEPT !.pc = "write", !.op = "insert_clone", !.todo = {j}]
  <2>1. q.op = "pending_edit"
    BY <1>4 DEF FindClone
  <2>2. CASE \E j \in TxIds : req' = [req EXCEPT ![r] = Remember(edit(j), {j})]
    <3>1. PICK j \in TxIds : req' = [req EXCEPT ![r] = Remember(edit(j), {j})]
      BY <2>2
    <3>2. call \in Request
      BY <1>1, CallTyped DEF Request, Ops, StageOps
    <3>3. /\ call.pc = "write" /\ call.op = "edit_clone" /\ call.written = {}
          /\ call.next.op = "none"
      BY CallFields DEF NoStage
    <3> DEFINE e == edit(j)
    <3> HIDE DEF call
    <3>4. /\ e \in Request /\ e.pc = "write" /\ e.op = "edit_clone" /\ e.todo = {j}
          /\ e.written = {} /\ e.next.op = "none"
      BY <3>2, <3>3 DEF Request
    <3> HIDE DEF e
    <3>5. Tracked(Remember(e, {j}), db)
      BY <1>1, <3>4, RememberTracked DEF NextOK
    <3>6. Remember(e, {j}).written = {}
      BY <3>4 DEF Remember, Request
    <3>7. req' = [req EXCEPT ![r] = Remember(e, {j})]
      BY <3>1 DEF e, call
    <3> QED
      BY <1>3, <3>5, <3>6, <3>7 DEF Takes
  <2>3. CASE \E j \in TxIds : req' = [req EXCEPT ![r] = insert(j)]
    <3>1. PICK j \in TxIds : req' = [req EXCEPT ![r] = insert(j)]
      BY <2>3
    <3> DEFINE e == insert(j)
    <3>2. /\ e.pc = "write" /\ e.op = "insert_clone" /\ e.todo = {j} /\ e.ids = q.ids
          /\ e.written = {} /\ e.docs = NoDocs /\ e.next = q.next /\ e.new = q.new
      BY <1>1, <1>2 DEF Request
    <3> HIDE DEF e, q
    <3>3. Fresh(e, db) /\ LoadedOK(e) /\ WrittenOK(e, db) /\ PhaseOK(e)
      BY <3>2 DEF Fresh, LoadedOK, Loaded, NoDocs, WrittenOK, PhaseOK, Inserts
    <3>4. InsertOK(e)
      BY <1>2, <2>1, <3>2 DEF InsertOK
    <3>5. NextOK(e, db)
      BY <1>2, <2>1, <3>2 DEF NextOK
    <3>6. req' = [req EXCEPT ![r] = e]
      BY <3>1 DEF e, q
    <3> QED
      BY <1>3, <3>2, <3>3, <3>4, <3>5, <3>6 DEF Takes, Tracked
  <2> QED
    BY <1>4, <2>2, <2>3 DEF FindClone, PendingClones, Stored
<1>5. CASE FindOriginal(r)
  <2> DEFINE o == {q.next.docs[i].original : i \in q.ids}
             e == [q EXCEPT !.pc = "write", !.todo = o]
  <2>1. q.op = "cascade" /\ req' = [req EXCEPT ![r] = Remember(e, o)]
    BY <1>5 DEF FindOriginal
  <2>2. o \subseteq TxIds
    BY <1>1, <2>1 DEF RequestOK
  <2> HIDE DEF o
  <2>3. /\ e \in Request /\ e.pc = "write" /\ e.op = "cascade" /\ e.todo = o
        /\ e.written = {} /\ e.next = q.next /\ e.ids = q.ids
    BY <1>1, <1>2, <2>1, <2>2 DEF Request
  <2> HIDE DEF e, q
  <2>4. NextOK(e, db)
    BY <1>2, <2>1, <2>3 DEF NextOK
  <2>5. Tracked(Remember(e, o), db)
    BY <1>1, <2>3, <2>4, RememberTracked
  <2>6. Remember(e, o).written = {}
    BY <2>3 DEF Remember, Request
  <2> QED
    BY <1>3, <2>1, <2>5, <2>6 DEF Takes
<1>6. CASE LoadClones(r)
  <2> DEFINE e == [q EXCEPT !.pc = "write"]
  <2>1. q.op = "drop_clones_of" /\ req' = [req EXCEPT ![r] = Load(e)]
    BY <1>6 DEF LoadClones
  <2>2. /\ e \in Request /\ e.pc = "write" /\ e.op = "drop_clones_of"
        /\ e.written = {} /\ e.next = q.next /\ e.ids = q.ids
    BY <1>1, <1>2, <2>1 DEF Request
  <2> HIDE DEF e, q
  <2>3. NextOK(e, db)
    BY <1>2, <2>1, <2>2 DEF NextOK
  <2>4. Tracked(Load(e), db)
    BY <1>1, <2>2, <2>3, LoadTracked DEF Inserts, Silent
  <2>5. Load(e).written = {}
    BY <2>2 DEF Load, Remember, Request
  <2> QED
    BY <1>3, <2>1, <2>4, <2>5 DEF Takes
<1> QED
  BY <1>4, <1>5, <1>6 DEF Find

-----------------------------------------------------------------------------
(* A write.  The row it changes either becomes one more to post, which     *)
(* counts as remembered until then, or stays in its queues.                *)

LEMMA SameRequest ==
    ASSUME NEW q1, NEW q2, q1.op = q2.op, q1.actor = q2.actor, q1.ids = q2.ids,
           q1.status = q2.status, q1.new = q2.new, NEW row
    PROVE  /\ Filter(q1, row) <=> Filter(q2, row)
           /\ Matches(q1, row) <=> Matches(q2, row)
           /\ SetBy(q1, row) = SetBy(q2, row)
           /\ Reported(q1, row) = Reported(q2, row)
<1>1. Filter(q1, row) <=> Filter(q2, row)
  BY SameFilter
<1>2. Matches(q1, row) <=> Matches(q2, row)
  BY <1>1 DEF Matches
<1>3. SetBy(q1, row) = SetBy(q2, row)
  BY DEF SetBy
<1>4. Reported(q1, row) = Reported(q2, row)
  BY <1>3, Zenon DEF Reported
<1> QED
  BY <1>1, <1>2, <1>3, <1>4

(* A handler in the middle of its write: row i is visited and becomes      *)
(* docs[i], and is among the written ones if the filter held.              *)
LEMMA VisitTracked ==
    ASSUME Base, NEW q \in Request, EditOK(q), Tracked(q, db), q.pc = "write",
           NEW i \in q.todo, NEW docs,
           \A j \in TxIds : j # i => docs[j] = db[j],
           IF Matches(q, db[i]) THEN docs[i] = SetBy(q, db[i]) ELSE docs[i] = db[i],
           NEW q2 \in Request,
           q2.pc = "write", q2.op = q.op, q2.actor = q.actor, q2.ids = q.ids,
           q2.status = q.status, q2.new = q.new, q2.docs = q.docs, q2.next = q.next,
           q2.todo = q.todo \ {i},
           q2.written = IF Matches(q, db[i]) THEN q.written \cup {i} ELSE q.written
    PROVE  /\ Tracked(q2, docs)
           /\ SameQueues(db[i], IF i \in Unposted(q2) THEN q.docs[i] ELSE docs[i])
<1>1. \A row : /\ Filter(q2, row) <=> Filter(q, row)
               /\ Matches(q2, row) <=> Matches(q, row)
               /\ SetBy(q2, row) = SetBy(q, row)
               /\ Reported(q2, row) = Reported(q, row)
  BY SameRequest
<1>2. /\ i \in TxIds /\ q.todo \subseteq TxIds /\ q.written \subseteq TxIds
      /\ Loaded(q) \subseteq TxIds /\ q.ids \subseteq TxIds /\ Loaded(q2) = Loaded(q)
      /\ db[i] \in Row \cup {NoDoc} /\ IInv /\ EditsInv
  BY DEF Request, Loaded, Base, IInv, TypeOK, Docs
<1>3. /\ i \notin q.written
      /\ Matches(q, db[i]) => q.op \in Inserts \cup Silent \/ q.docs[i] = db[i]
      /\ q.docs[i] # NoDoc => q.docs[i] = db[i]
      /\ q.op \in Inserts \cup Silent => q.docs[i] = NoDoc
  BY <1>2 DEF Tracked, Fresh, LoadedOK, Loaded
<1>4. Fresh(q2, docs)
  <2> SUFFICES ASSUME NEW j \in q2.todo
               PROVE  /\ j \notin q2.written
                      /\ q2.docs[j] # NoDoc => q2.docs[j] = docs[j]
                      /\ Matches(q2, docs[j]) =>
                           q2.op \in Inserts \cup Silent \/ q2.docs[j] = docs[j]
    BY DEF Fresh
  <2>1. j \in q.todo /\ j # i /\ docs[j] = db[j]
    BY <1>2
  <2> QED
    BY <1>1, <2>1 DEF Tracked, Fresh
<1>5. LoadedOK(q2)
  <2> SUFFICES ASSUME NEW j \in Loaded(q2)
               PROVE  /\ q2.op \notin Inserts \cup Silent
                      /\ q2.op # "resubmit" => /\ Filter(q2, q2.docs[j])
                                               /\ j \in q2.todo \cup q2.written
    BY DEF LoadedOK
  <2>1. /\ q.op \notin Inserts \cup Silent
        /\ q.op # "resubmit" => Filter(q, q.docs[j]) /\ j \in q.todo \cup q.written
    BY <1>2 DEF Tracked, LoadedOK
  <2>2. q.op # "resubmit" /\ j = i => Matches(q, db[i])
    BY <1>2, <1>3, <2>1 DEF Matches, Loaded
  <2> QED
    BY <1>1, <2>1, <2>2
<1>6. /\ Matches(q, db[i]) /\ q.op \notin Silent =>
            SameQueues(Reported(q, q.docs[i]), docs[i])
      /\ Matches(q, db[i]) /\ q.op \in Silent => SameQueues(db[i], docs[i])
  <2>1. CASE q.op \in Inserts
    <3>1. \A row : SetBy(q, row) = q.new
      BY <2>1 DEF SetBy, Inserts, Deletes
    <3>2. Reported(q, q.docs[i]) = SetBy(q, q.docs[i])
      BY <2>1, Zenon DEF Reported, Inserts
    <3> QED
      BY <2>1, <3>1, <3>2 DEF SameQueues, Inserts, Silent
  <2>2. CASE q.op \notin Inserts \cup Silent /\ Matches(q, db[i])
    <3>1. q.docs[i] = db[i] /\ db[i] \in Row
      BY <1>2, <1>3, <2>2 DEF Matches
    <3> QED
      BY <2>2, <3>1, ReportedTells
  <2>3. CASE q.op \in Silent /\ Matches(q, db[i])
    <3>1. db[i] \in Row /\ RowOK(db[i]) /\ Filter(q, db[i]) /\ docs[i] = SetBy(q, db[i])
      BY <1>2, <2>3 DEF Matches, Inserts, Silent, IInv
    <3>2. CASE q.op = "discard_rejected"
      <4>1. docs[i] = Discarded(db[i]) /\ db[i].rejected
        BY <3>1, <3>2 DEF SetBy, Inserts, Deletes, Filter, DiscardRejectedFilter
      <4> QED
        BY <2>3, <3>1, <4>1, DiscardKeepsQueues
    <3>3. CASE q.op = "restore_discarded"
      <4>1. docs[i] = Undiscarded(db[i]) /\ db[i].discarded
        BY <3>1, <3>3 DEF SetBy, Inserts, Deletes, Filter, DiscardedFilter
      <4> QED
        BY <2>3, <3>1, <4>1, DiscardKeepsQueues
    <3> QED
      BY <2>3, <3>2, <3>3 DEF Silent
  <2> QED
    BY <2>1, <2>2, <2>3
<1>7. WrittenOK(q2, docs)
  <2> SUFFICES ASSUME NEW j \in q2.written
               PROVE  /\ q2.op \in Inserts => docs[j] = q2.new
                      /\ q2.op \notin Silent =>
                            SameQueues(Reported(q2, q2.docs[j]), docs[j])
                      /\ q2.op \notin Inserts \cup Silent => j \in Loaded(q2)
    BY DEF WrittenOK
  <2>1. CASE j # i
    <3>1. j \in q.written /\ docs[j] = db[j]
      BY <1>2, <2>1
    <3> QED
      BY <1>1, <1>2, <3>1 DEF Tracked, WrittenOK
  <2>2. CASE j = i
    <3>1. Matches(q, db[i])
      BY <1>3, <2>2
    <3>2. q.op \in Inserts => docs[i] = q.new
      BY <3>1 DEF SetBy, Inserts, Deletes
    <3>3. q.op \notin Inserts \cup Silent => i \in Loaded(q)
      BY <1>2, <1>3, <3>1 DEF Matches, Loaded
    <3> QED
      BY <1>1, <1>2, <1>6, <2>2, <3>1, <3>2, <3>3
  <2> QED
    BY <2>1, <2>2
<1>8. InsertOK(q2) /\ PhaseOK(q2)
  BY DEF Tracked, InsertOK, PhaseOK
<1>9. NextOK(q2, docs)
  <2> SUFFICES ASSUME q.next.op # "none" PROVE NextOK(q2, docs)
    BY DEF NextOK
  <2>1. PICK k \in TxIds :
          /\ db[k] # NoDoc /\ q.ids = {k} /\ q.next.todo = {k}
          /\ q.next.docs = [j \in TxIds |-> IF j = k THEN db[k] ELSE NoDoc]
          /\ \/ /\ q.op = "cascade" /\ q.next.op = "drop_clone"
                /\ db[k].original # NoOne
             \/ /\ q.op = "drop_clones_of" /\ q.next.op = "confirm_deletion"
                /\ DELETION_BASE_MATCH(db[k])
    BY DEF Tracked, NextOK
  <2>2. docs[k] = db[k]
    <3>1. CASE k # i
      BY <3>1
    <3>2. CASE q.op = "cascade"
      <4>1. k \in Clones
        BY <2>1, <3>2 DEF Clones, Stored
      <4>2. i \notin Clones
        BY <3>2 DEF EditOK, ReApprovals, Root
      <4> QED
        BY <3>1, <4>1, <4>2
    <3>3. CASE q.op = "drop_clones_of" /\ Matches(q, db[i]) /\ k = i
      <4>1. db[i] # NoDoc /\ db[i].original = i
        BY <2>1, <3>3 DEF Matches, Filter, Inserts
      <4>2. i \in Clones
        BY <1>2, <4>1, RowConstants DEF Clones, Stored
      <4> QED
        BY <1>2, <4>1, <4>2 DEF EditsInv, Root
    <3> QED
      BY <2>1, <3>1, <3>2, <3>3
  <2> QED
    BY <2>1, <2>2 DEF NextOK
<1>10. SameQueues(db[i], IF i \in Unposted(q2) THEN q.docs[i] ELSE docs[i])
  <2>1. \A row : SameQueues(row, row)
    BY DEF SameQueues
  <2>2. i \in Unposted(q2) => i \in q2.written
    BY DEF Unposted
  <2>3. CASE ~Matches(q, db[i])
    BY <1>3, <2>1, <2>2, <2>3
  <2>4. CASE Matches(q, db[i]) /\ q.op \in Inserts
    <3>1. i \in Unposted(q2) /\ db[i] = NoDoc /\ q.docs[i] = NoDoc
      BY <1>3, <2>4 DEF Unposted, Matches
    <3> QED
      BY <2>1, <3>1
  <2>5. CASE Matches(q, db[i]) /\ q.op \in Silent
    <3>1. i \notin Unposted(q2)
      BY <1>2, <1>3, <2>5 DEF Unposted, Loaded, Inserts, Silent
    <3> QED
      BY <1>6, <2>5, <3>1
  <2>6. CASE Matches(q, db[i]) /\ q.op \notin Inserts \cup Silent
    <3>1. q.docs[i] = db[i] /\ i \in Loaded(q)
      BY <1>2, <1>3, <2>6 DEF Matches, Loaded
    <3>2. i \in Unposted(q2)
      BY <1>2, <2>6, <3>1 DEF Unposted
    <3> QED
      BY <2>1, <3>1, <3>2
  <2> QED
    BY <2>3, <2>4, <2>5, <2>6
<1> QED
  BY <1>4, <1>5, <1>7, <1>8, <1>9, <1>10 DEF Tracked

(* When no row is left to visit the handler goes on to its reply, or gives *)
(* up with nothing to post.                                                *)
LEMMA AfterWriteTracked ==
    ASSUME NEW q \in Request, NEW docs, Tracked(q, docs), q.pc = "write"
    PROVE  /\ Tracked(AfterWrite(q), docs)
           /\ Unposted(AfterWrite(q)) = Unposted(q)
           /\ Unposted(q) # {} => AfterWrite(q).docs = q.docs
<1>1. CASE q.todo # {}
  BY <1>1 DEF AfterWrite
<1>2. CASE q.todo = {} /\ q.op = "cascade" /\ q.written = {}
  <2>1. AfterWrite(q) = Idle /\ Unposted(q) = {}
    BY <1>2 DEF AfterWrite, Unposted, Inserts
  <2> QED
    BY <2>1, IdleTracked
<1>3. CASE q.todo = {} /\ ~(q.op = "cascade" /\ q.written = {})
  <2> DEFINE q2 == [q EXCEPT !.pc = "note"]
  <2>1. AfterWrite(q) = q2
    BY <1>3 DEF AfterWrite
  <2>2. /\ q2.pc = "note" /\ q2.op = q.op /\ q2.actor = q.actor /\ q2.ids = q.ids
        /\ q2.status = q.status /\ q2.new = q.new /\ q2.docs = q.docs
        /\ q2.next = q.next /\ q2.todo = q.todo /\ q2.written = q.written
        /\ Loaded(q2) = Loaded(q)
    BY DEF Request, Loaded
  <2> HIDE DEF q2
  <2>3. \A row : /\ Filter(q2, row) <=> Filter(q, row)
                 /\ Reported(q2, row) = Reported(q, row)
    BY <2>2, SameRequest
  <2>4. Fresh(q2, docs) /\ PhaseOK(q2)
    BY <1>3, <2>2 DEF Fresh, PhaseOK
  <2>5. LoadedOK(q2)
    BY <2>2, <2>3 DEF Tracked, LoadedOK
  <2>6. WrittenOK(q2, docs)
    <3> SUFFICES ASSUME NEW j \in q.written
                 PROVE  /\ q.op \in Inserts => docs[j] = q.new
                        /\ q.op \notin Silent =>
                              SameQueues(Reported(q2, q.docs[j]), docs[j])
                        /\ q.op \notin Inserts \cup Silent => j \in Loaded(q)
      BY <2>2 DEF WrittenOK
    <3>1. Reported(q2, q.docs[j]) = Reported(q, q.docs[j])
      BY <2>3
    <3> QED
      BY <3>1 DEF Tracked, WrittenOK
  <2>7. InsertOK(q2) /\ NextOK(q2, docs)
    BY <2>2 DEF Tracked, InsertOK, NextOK
  <2>8. Unposted(q2) = Unposted(q)
    BY <2>2 DEF Unposted
  <2> QED
    BY <2>1, <2>2, <2>4, <2>5, <2>6, <2>7, <2>8 DEF Tracked
<1> QED
  BY <1>1, <1>2, <1>3

Writes(r, i, q) ==
    /\ req' = [req EXCEPT ![r] = q]
    /\ i \in req[r].todo
    /\ \A j \in TxIds : j # i => db'[j] = db[j]
    /\ Tracked(q, db')
    /\ i \notin Unposted(req[r])
    /\ \A j \in TxIds : j # i => (j \in Unposted(q) <=> j \in Unposted(req[r]))
    /\ Unposted(q) # {} => q.docs = req[r].docs
    /\ SameQueues(db[i], IF i \in Unposted(q) THEN q.docs[i] ELSE db'[i])

LEMMA WriteRowTracked ==
    ASSUME Base, NEW r \in Requests, WriteRow(r)
    PROVE  \E i \in TxIds : \E q : Writes(r, i, q)
<1> DEFINE q == req[r]
<1>1. PICK i \in q.todo :
        LET hit == Matches(q, db[i])
            row == IF hit THEN SetBy(q, db[i]) ELSE db[i]
        IN /\ q.pc = "write"
           /\ db' = [db EXCEPT ![i] = row]
           /\ req' = [req EXCEPT ![r] =
                        AfterWrite([q EXCEPT !.todo = @ \ {i},
                                             !.written = IF hit THEN @ \cup {i} ELSE @])]
  BY DEF WriteRow
<1> DEFINE q2 == [q EXCEPT !.todo = @ \ {i},
                           !.written = IF Matches(q, db[i]) THEN @ \cup {i} ELSE @]
<1>2. /\ q \in Request /\ Tracked(q, db) /\ EditOK(q) /\ i \in TxIds /\ db \in Docs
  BY DEF Base, IInv, TypeOK, Tracks, EditsInv, Request
<1>3. /\ q2 \in Request /\ q2.pc = "write" /\ q2.op = q.op /\ q2.actor = q.actor
      /\ q2.ids = q.ids /\ q2.status = q.status /\ q2.new = q.new /\ q2.docs = q.docs
      /\ q2.next = q.next /\ q2.todo = q.todo \ {i}
      /\ q2.written = IF Matches(q, db[i]) THEN q.written \cup {i} ELSE q.written
  BY <1>1, <1>2 DEF Request
<1>4. req' = [req EXCEPT ![r] = AfterWrite(q2)]
  BY <1>1
<1>5. /\ \A j \in TxIds : j # i => db'[j] = db[j]
      /\ IF Matches(q, db[i]) THEN db'[i] = SetBy(q, db[i]) ELSE db'[i] = db[i]
  BY <1>1, <1>2 DEF Docs
<1>6. q.pc = "write"
  BY <1>1
<1>7. i \notin q.written /\ i \notin Unposted(q)
  BY <1>2, <1>6 DEF Tracked, Fresh, Unposted
<1> HIDE DEF q, q2
<1>8. /\ Tracked(q2, db')
      /\ SameQueues(db[i], IF i \in Unposted(q2) THEN q.docs[i] ELSE db'[i])
  BY <1>2, <1>3, <1>5, <1>6, VisitTracked
<1>9. /\ Tracked(AfterWrite(q2), db') /\ Unposted(AfterWrite(q2)) = Unposted(q2)
      /\ Unposted(q2) # {} => AfterWrite(q2).docs = q2.docs
  BY <1>3, <1>8, AfterWriteTracked
<1>10. \A j \in TxIds : j # i => (j \in Unposted(q2) <=> j \in Unposted(q))
  BY <1>3 DEF Unposted, Loaded
<1> DEFINE q3 == AfterWrite(q2)
<1> HIDE DEF q3
<1>11. SameQueues(db[i], IF i \in Unposted(q3) THEN q3.docs[i] ELSE db'[i])
  BY <1>3, <1>8, <1>9 DEF q3
<1>12. Writes(r, i, q3)
  BY <1>1, <1>2, <1>3, <1>4, <1>5, <1>7, <1>9, <1>10, <1>11 DEF Writes, q3, q
<1> QED
  BY <1>2, <1>12

(* A reply.  The rows it posts are the rows it had still to post.          *)
LEMMA NoteTracked ==
    ASSUME Base, NEW r \in Requests, Note(r)
    PROVE  \E q : Takes(r, q)
<1> DEFINE q == req[r]
           call == Call(q.next.op, q.actor, q.ids, "draft")
           e == [call EXCEPT !.todo = q.next.todo, !.docs = q.next.docs]
<1>1. /\ q \in Request /\ Tracked(q, db) /\ RequestOK(q) /\ db' = db /\ IInv
  BY DEF Note, Base, IInv, TypeOK, Tracks
<1>2. CASE req' = [req EXCEPT ![r] = Idle]
  <2>1. Idle.written = {}
    BY DEF Idle
  <2> QED
    BY <1>1, <1>2, <2>1, IdleTracked DEF Takes
<1>3. CASE q.next.op # "none" /\ req' = [req EXCEPT ![r] = e]
  <2>1. PICK k \in TxIds :
          /\ db[k] # NoDoc /\ q.ids = {k} /\ q.next.todo = {k}
          /\ q.next.docs = [j \in TxIds |-> IF j = k THEN db[k] ELSE NoDoc]
          /\ \/ q.next.op = "drop_clone"
             \/ q.next.op = "confirm_deletion" /\ DELETION_BASE_MATCH(db[k])
    BY <1>1, <1>3 DEF Tracked, NextOK
  <2>2. call \in Request
    <3>1. /\ q.next.op \in Ops /\ q.actor \in Users \cup {NoOne}
          /\ q.ids \in SUBSET TxIds /\ "draft" \in Statuses
      BY <1>1 DEF Request, Stage, Statuses
    <3> QED
      BY <3>1, CallTyped
  <2>3. /\ call.pc = "write" /\ call.op = q.next.op /\ call.written = {}
        /\ call.next.op = "none"
    BY CallFields DEF NoStage
  <2>4. q.next.todo \in SUBSET TxIds /\ q.next.docs \in Docs
    BY <1>1 DEF Request, Stage
  <2> HIDE DEF call
  <2>5. /\ e \in Request /\ e.pc = "write" /\ e.op = q.next.op /\ e.written = {}
        /\ e.next.op = "none" /\ e.todo = q.next.todo /\ e.docs = q.next.docs
    BY <2>2, <2>3, <2>4 DEF Request
  <2> HIDE DEF e, q
  <2>6. Loads(e, db[k])
    BY <2>1, <2>5 DEF Loads, Filter
  <2>7. \A i \in TxIds : e.docs[i] = IF i \in e.todo /\ Loads(e, db[i])
                                     THEN db[i] ELSE NoDoc
    BY <2>1, <2>5, <2>6
  <2>8. e.op \notin Inserts \cup Silent \cup {"pending_edit"} /\ NextOK(e, db)
    BY <2>1, <2>5 DEF Inserts, Silent, NextOK
  <2>9. Tracked(e, db)
    BY <1>1, <2>5, <2>7, <2>8, ReadTracked
  <2> QED
    BY <1>1, <1>3, <2>5, <2>9 DEF Takes
<1> QED
  BY <1>2, <1>3 DEF Note

LEMMA PostsUnposted ==
    ASSUME NEW q \in Request, NEW docs, Tracked(q, docs), q.pc = "note"
    PROVE  Posted(q) = Unposted(q)
<1>1. q.todo = {}
  BY DEF Tracked, PhaseOK
<1>2. CASE q.op \in Inserts
  BY <1>2 DEF Posted, Unposted, Inserts
<1>3. CASE q.op = "resubmit"
  BY <1>3 DEF Posted, Unposted, Inserts
<1>4. CASE q.op \notin Inserts \cup {"resubmit"}
  <2>1. Loaded(q) \subseteq q.written
    BY <1>1, <1>4 DEF Tracked, LoadedOK
  <2>2. Unposted(q) = Loaded(q)
    BY <1>4, <2>1 DEF Unposted
  <2>3. Posted(q) = IF q.op \in Blind \/ q.written # {} THEN Loaded(q) ELSE {}
    BY <1>4 DEF Posted
  <2> QED
    BY <2>1, <2>2, <2>3
<1> QED
  BY <1>2, <1>3, <1>4

-----------------------------------------------------------------------------
(* The rows as the counters know them, and the counts of them.             *)

KnownTo(reqs, docs) ==
    [i \in TxIds |->
        IF \E r \in Requests : i \in Unposted(reqs[r])
        THEN reqs[CHOOSE r \in Requests : i \in Unposted(reqs[r])].docs[i]
        ELSE docs[i]]

Separate(reqs) ==
    \A r, s \in Requests : r # s => Unposted(reqs[r]) \cap Unposted(reqs[s]) = {}

LEMMA KnownIs ==
    ASSUME NEW reqs, NEW docs, Separate(reqs), NEW i \in TxIds
    PROVE  /\ \A r \in Requests : i \in Unposted(reqs[r]) =>
                                    KnownTo(reqs, docs)[i] = reqs[r].docs[i]
           /\ (\A r \in Requests : i \notin Unposted(reqs[r])) =>
                                    KnownTo(reqs, docs)[i] = docs[i]
<1>1. ASSUME NEW r \in Requests, i \in Unposted(reqs[r])
      PROVE  KnownTo(reqs, docs)[i] = reqs[r].docs[i]
  <2> DEFINE s == CHOOSE s \in Requests : i \in Unposted(reqs[s])
  <2>1. s \in Requests /\ i \in Unposted(reqs[s])
    BY <1>1
  <2>2. s = r
    BY <1>1, <2>1 DEF Separate
  <2>3. KnownTo(reqs, docs)[i] = reqs[s].docs[i]
    BY <1>1 DEF KnownTo
  <2> QED
    BY <2>2, <2>3
<1>2. (\A r \in Requests : i \notin Unposted(reqs[r])) => KnownTo(reqs, docs)[i] = docs[i]
  BY DEF KnownTo
<1> QED
  BY <1>1, <1>2

LEMMA KnownTyped ==
    ASSUME NEW reqs \in [Requests -> Request], NEW docs \in Docs
    PROVE  KnownTo(reqs, docs) \in Docs
<1>1. \A r \in Requests : reqs[r].docs \in Docs
  BY DEF Request
<1>2. ASSUME NEW i \in TxIds
      PROVE  (IF \E r \in Requests : i \in Unposted(reqs[r])
              THEN reqs[CHOOSE r \in Requests : i \in Unposted(reqs[r])].docs[i]
              ELSE docs[i]) \in Row \cup {NoDoc}
  <2>1. CASE \E r \in Requests : i \in Unposted(reqs[r])
    <3>1. PICK s \in Requests : s = CHOOSE r \in Requests : i \in Unposted(reqs[r])
      BY <2>1
    <3> QED
      BY <1>1, <2>1, <3>1 DEF Docs
  <2>2. CASE ~ \E r \in Requests : i \in Unposted(reqs[r])
    BY <2>2 DEF Docs
  <2> QED
    BY <2>1, <2>2
<1> QED
  BY <1>2 DEF KnownTo, Docs

(* Rows in the same queues are counted the same.                           *)
LEMMA CountsAgree ==
    ASSUME NEW d1 \in Docs, NEW d2 \in Docs,
           \A i \in TxIds : SameQueues(d1[i], d2[i]), NEW b \in Buckets
    PROVE  Count(b, d1) = Count(b, d2)
<1>1. \A i \in TxIds : Listed(b, d1[i]) <=> Listed(b, d2[i])
  BY ListedIsIn DEF Docs, SameQueues
<1>2. {i \in TxIds : Listed(b, d1[i])} = {i \in TxIds : Listed(b, d2[i])}
  BY <1>1
<1> QED
  BY <1>2 DEF Count

LEMMA ClaimedApart ==
    ASSUME Base, NEW r \in Requests, NEW s \in Requests, r # s
    PROVE  /\ Unposted(req[r]) \cap Unposted(req[s]) = {}
           /\ Unposted(req[r]) \cap req[s].todo = {}
<1>1. \A t \in Requests : req[t] \in Request /\ Tracked(req[t], db)
  BY DEF Base, IInv, TypeOK, Tracks
<1>2. \A t \in Requests : /\ Unposted(req[t]) \subseteq Claim(req[t])
                          /\ req[t].todo \subseteq Claim(req[t])
  BY <1>1, HeldClaimed, WrittenClaimed DEF Base, Held
<1> QED
  BY <1>2 DEF Base, Disjoint

Balance == \A b \in Buckets : badges[b] = Count(b, Known)

(* A step that writes no row and posts nothing.                            *)
LEMMA TakesBalance ==
    ASSUME Base, Balance, IInv', NEW r \in Requests, NEW q, Takes(r, q),
           Unposted(req[r]) = {}, UNCHANGED badges
    PROVE  Balance'
<1>1. Unposted(q) = {} /\ db' = db
  BY DEF Takes, Unposted
<1>2. \A s \in Requests : req'[s] = IF s = r THEN q ELSE req[s]
  BY DEF Takes, Base, IInv, TypeOK
<1>3. /\ req \in [Requests -> Request] /\ db \in Docs
      /\ req' \in [Requests -> Request] /\ db' \in Docs
  BY DEF Base, IInv, TypeOK
<1>4. Separate(req) /\ Separate(req')
  BY <1>1, <1>2, ClaimedApart DEF Separate
<1>5. Known = KnownTo(req, db) /\ Known' = KnownTo(req', db')
  BY DEF Known, KnownTo
<1>6. KnownTo(req, db) \in Docs /\ KnownTo(req', db') \in Docs
  BY <1>3, KnownTyped
<1>7. ASSUME NEW i \in TxIds
      PROVE  KnownTo(req', db')[i] = KnownTo(req, db)[i]
  <2>1. CASE \E s \in Requests : i \in Unposted(req[s])
    <3>1. PICK s \in Requests : i \in Unposted(req[s])
      BY <2>1
    <3>2. s # r /\ req'[s] = req[s]
      BY <1>2, <3>1
    <3> QED
      BY <1>4, <3>1, <3>2, KnownIs
  <2>2. CASE \A s \in Requests : i \notin Unposted(req[s])
    <3>1. \A s \in Requests : i \notin Unposted(req'[s])
      BY <1>1, <1>2, <2>2
    <3> QED
      BY <1>1, <1>4, <2>2, <3>1, KnownIs
  <2> QED
    BY <2>1, <2>2
<1>8. \A i \in TxIds : SameQueues(KnownTo(req', db')[i], KnownTo(req, db)[i])
  BY <1>7 DEF SameQueues
<1>9. \A b \in Buckets : Count(b, KnownTo(req', db')) = Count(b, KnownTo(req, db))
  BY <1>6, <1>8, CountsAgree
<1>10. \A b \in Buckets : badges'[b] = Count(b, Known')
  BY <1>5, <1>9 DEF Balance
<1> QED
  BY <1>10 DEF Balance, Count

(* A write, before its transition is posted.                               *)
LEMMA WritesBalance ==
    ASSUME Base, Balance, IInv', NEW r \in Requests, NEW i \in TxIds, NEW q,
           Writes(r, i, q), UNCHANGED badges
    PROVE  Balance'
<1>1. \A s \in Requests : req'[s] = IF s = r THEN q ELSE req[s]
  BY DEF Writes, Base, IInv, TypeOK
<1>2. /\ req \in [Requests -> Request] /\ db \in Docs
      /\ req' \in [Requests -> Request] /\ db' \in Docs
  BY DEF Base, IInv, TypeOK
<1>3. \A s \in Requests : i \notin Unposted(req[s])
  <2> TAKE s \in Requests
  <2>1. s # r => Unposted(req[s]) \cap req[r].todo = {}
    BY ClaimedApart
  <2> QED
    BY <2>1 DEF Writes
<1>4. \A j \in TxIds, s \in Requests :
         j # i => (j \in Unposted(req'[s]) <=> j \in Unposted(req[s]))
  BY <1>1 DEF Writes
<1>5. Separate(req)
  BY ClaimedApart DEF Separate
<1>6. \A s \in Requests : Unposted(req[s]) \subseteq TxIds /\ Unposted(req'[s]) \subseteq TxIds
  BY <1>2 DEF Unposted, Request
<1>7. Separate(req')
  <2> SUFFICES ASSUME NEW s \in Requests, NEW t \in Requests, s # t,
                      NEW j \in Unposted(req'[s]) \cap Unposted(req'[t])
               PROVE  FALSE
    BY DEF Separate
  <2>1. CASE j = i
    BY <1>1, <1>3, <2>1
  <2>2. CASE j # i
    BY <1>4, <1>5, <1>6, <2>2 DEF Separate
  <2> QED
    BY <2>1, <2>2
<1>8. Known = KnownTo(req, db) /\ Known' = KnownTo(req', db')
  BY DEF Known, KnownTo
<1>9. KnownTo(req, db) \in Docs /\ KnownTo(req', db') \in Docs
  BY <1>2, KnownTyped
<1>10. ASSUME NEW j \in TxIds
       PROVE  SameQueues(KnownTo(req, db)[j], KnownTo(req', db')[j])
  <2>1. CASE j = i
    <3>1. KnownTo(req, db)[i] = db[i]
      BY <1>3, <1>5, KnownIs
    <3>2. CASE i \in Unposted(q)
      <4>1. KnownTo(req', db')[i] = q.docs[i]
        BY <1>1, <1>7, <3>2, KnownIs
      <4> QED
        BY <2>1, <3>1, <3>2, <4>1 DEF Writes
    <3>3. CASE i \notin Unposted(q)
      <4>1. \A s \in Requests : i \notin Unposted(req'[s])
        BY <1>1, <1>3, <3>3
      <4>2. KnownTo(req', db')[i] = db'[i]
        BY <1>7, <4>1, KnownIs
      <4> QED
        BY <2>1, <3>1, <3>3, <4>2 DEF Writes
    <3> QED
      BY <3>2, <3>3
  <2>2. CASE j # i /\ \E s \in Requests : j \in Unposted(req[s])
    <3>1. PICK s \in Requests : j \in Unposted(req[s])
      BY <2>2
    <3>2. j \in Unposted(req'[s]) /\ req'[s].docs = req[s].docs
      BY <1>1, <1>4, <2>2, <3>1 DEF Writes
    <3>3. /\ KnownTo(req, db)[j] = req[s].docs[j]
          /\ KnownTo(req', db')[j] = req'[s].docs[j]
      BY <1>5, <1>7, <3>1, <3>2, KnownIs
    <3> QED
      BY <3>2, <3>3 DEF SameQueues
  <2>3. CASE j # i /\ \A s \in Requests : j \notin Unposted(req[s])
    <3>1. (\A s \in Requests : j \notin Unposted(req'[s])) /\ db'[j] = db[j]
      BY <1>4, <2>3 DEF Writes
    <3>2. KnownTo(req, db)[j] = db[j] /\ KnownTo(req', db')[j] = db'[j]
      BY <1>5, <1>7, <2>3, <3>1, KnownIs
    <3> QED
      BY <3>1, <3>2 DEF SameQueues
  <2> QED
    BY <2>1, <2>2, <2>3
<1>11. \A b \in Buckets : Count(b, KnownTo(req, db)) = Count(b, KnownTo(req', db'))
  BY <1>9, <1>10, CountsAgree
<1>12. \A b \in Buckets : badges'[b] = Count(b, Known')
  BY <1>8, <1>11 DEF Balance
<1> QED
  BY <1>12 DEF Balance, Count

(* A reply: what it posts is the difference between the rows as remembered *)
(* and the rows as they are.                                               *)
LEMMA NoteBalance ==
    ASSUME Base, Balance, IInv', NEW r \in Requests, NEW q, Takes(r, q),
           Note(r), Adjust(req[r])
    PROVE  Balance'
<1> DEFINE p == req[r]
           W == Unposted(p)
           K == KnownTo(req, db)
           K2 == KnownTo(req', db')
<1>1. Unposted(q) = {} /\ db' = db /\ q.written = {}
  BY DEF Takes, Unposted
<1>2. \A s \in Requests : req'[s] = IF s = r THEN q ELSE req[s]
  BY DEF Takes, Base, IInv, TypeOK
<1>3. /\ req \in [Requests -> Request] /\ db \in Docs
      /\ req' \in [Requests -> Request] /\ db' \in Docs
      /\ p \in Request /\ Tracked(p, db) /\ p.pc = "note"
  BY DEF Base, IInv, TypeOK, Tracks, Note
<1>4. Separate(req) /\ Separate(req')
  BY <1>1, <1>2, ClaimedApart DEF Separate
<1>5. Known = K /\ Known' = K2
  BY DEF Known, KnownTo
<1>6. K \in Docs /\ K2 \in Docs
  BY <1>3, KnownTyped
<1>7. Posted(p) = W
  BY <1>3, PostsUnposted
<1>8. W \subseteq p.written /\ W \subseteq TxIds /\ (W # {} => p.op \notin Silent)
  BY <1>3 DEF Unposted, Request, Tracked, LoadedOK, Inserts, Silent
<1>9. \A j \in W : K[j] = p.docs[j] /\ K2[j] = db[j]
  <2> TAKE j \in W
  <2>1. K[j] = p.docs[j]
    BY <1>4, <1>8, KnownIs
  <2>2. \A s \in Requests : j \notin Unposted(req'[s])
    BY <1>1, <1>2, <1>4 DEF Separate
  <2>3. K2[j] = db'[j]
    BY <1>4, <1>8, <2>2, KnownIs
  <2> QED
    BY <1>1, <2>1, <2>3
<1>10. \A j \in TxIds \ W : K2[j] = K[j]
  <2> TAKE j \in TxIds \ W
  <2>1. CASE \E s \in Requests : j \in Unposted(req[s])
    <3>1. PICK s \in Requests : j \in Unposted(req[s])
      BY <2>1
    <3>2. s # r /\ req'[s] = req[s]
      BY <1>2, <3>1
    <3> QED
      BY <1>4, <3>1, <3>2, KnownIs
  <2>2. CASE \A s \in Requests : j \notin Unposted(req[s])
    <3>1. \A s \in Requests : j \notin Unposted(req'[s])
      BY <1>1, <1>2, <2>2
    <3>2. K[j] = db[j] /\ K2[j] = db'[j]
      BY <1>4, <2>2, <3>1, KnownIs
    <3> QED
      BY <1>1, <3>2
  <2> QED
    BY <2>1, <2>2
<1>11. /\ \A j \in W : Noted(p)[j] = Reported(p, p.docs[j])
       /\ \A j \in TxIds \ W : Noted(p)[j] = p.docs[j]
  BY <1>7, <1>8 DEF Noted
<1>12. \A j \in W : SameQueues(Noted(p)[j], db[j])
  BY <1>3, <1>8, <1>11 DEF Tracked, WrittenOK
<1> HIDE DEF p, W, K, K2
<1>13. ASSUME NEW b \in Buckets
       PROVE  Count(b, K2) = Count(b, K) + Delta(p, b)
  <2> DEFINE A == Members(b, p.docs)
             A2 == Members(b, Noted(p))
             B == {i \in TxIds : Listed(b, K[i])}
             B2 == {i \in TxIds : Listed(b, K2[i])}
  <2>1. \A j \in TxIds : /\ Listed(b, K[j]) <=> InBucket(b, K[j])
                         /\ Listed(b, K2[j]) <=> InBucket(b, K2[j])
    BY <1>6, ListedIsIn DEF Docs
  <2>2. A2 \ W = A \ W
    BY <1>11 DEF Members
  <2>3. B2 \ W = B \ W
    BY <1>10
  <2>4. A \cap W = B \cap W
    BY <1>8, <1>9, <2>1 DEF Members
  <2>5. A2 \cap W = B2 \cap W
    BY <1>8, <1>9, <1>12, <2>1 DEF Members, SameQueues
  <2>6. /\ A \in SUBSET TxIds /\ A2 \in SUBSET TxIds
        /\ B \in SUBSET TxIds /\ B2 \in SUBSET TxIds
    BY DEF Members
  <2>7. /\ Count(b, K2) = Cardinality(B2) /\ Count(b, K) = Cardinality(B)
        /\ Delta(p, b) = Cardinality(A2) - Cardinality(A)
    BY DEF Count, Delta
  <2> HIDE DEF A, A2, B, B2
  <2>8. Cardinality(B2) = Cardinality(B) + (Cardinality(A2) - Cardinality(A))
    BY <2>2, <2>3, <2>4, <2>5, <2>6, DeltaMakesUp
  <2> QED
    BY <2>7, <2>8
<1>14. \A b \in Buckets : badges'[b] = badges[b] + Delta(p, b)
  BY DEF Adjust, p
<1>15. \A b \in Buckets : badges'[b] = Count(b, Known')
  BY <1>5, <1>13, <1>14 DEF Balance
<1> QED
  BY <1>15 DEF Balance, Count

-----------------------------------------------------------------------------
LEMMA HandlingKeepsTrack ==
    ASSUME Base, IInv', Endpoints \subseteq Noting, NEW s \in Requests, Handling(s)
    PROVE  Tracks' /\ (Balance => Balance')
<1>1. \A r \in Requests : req[r] \in Request /\ Tracked(req[r], db)
  BY DEF Base, IInv, TypeOK, Tracks
<1>2. ASSUME NEW q, req' = [req EXCEPT ![s] = q], Tracked(q, db'),
             \A i \in TxIds : db'[i] = db[i] \/ i \in Claim(req[s])
      PROVE  Tracks'
  <2>1. \A r \in Requests : r # s => Tracked(req[r], db')
    BY <1>2, OthersTracked
  <2>2. \A r \in Requests : req'[r] = IF r = s THEN q ELSE req[r]
    BY <1>2 DEF Base, IInv, TypeOK
  <2>3. \A r \in Requests : Tracked(req'[r], db')
    BY <1>2, <2>1, <2>2
  <2> QED
    BY <2>3 DEF Tracks
<1>3. ASSUME NEW q, Takes(s, q)
      PROVE  Tracks'
  BY <1>2, <1>3 DEF Takes
<1>4. CASE (Arrive(s) \/ Find(s)) /\ UNCHANGED badges
  <2>1. PICK q : Takes(s, q)
    BY <1>4, ArriveTracked, FindTracked
  <2>2. req[s].written = {}
    <3>1. req[s].pc \in {"idle", "find"}
      BY <1>4 DEF Arrive, Find
    <3> QED
      BY <1>1, <3>1 DEF Tracked, PhaseOK, Idle
  <2>3. Unposted(req[s]) = {}
    BY <2>2 DEF Unposted
  <2> QED
    BY <1>3, <1>4, <2>1, <2>3, TakesBalance
<1>5. CASE WriteRow(s) /\ UNCHANGED badges
  <2>1. PICK i \in TxIds : \E q : Writes(s, i, q)
    BY <1>5, WriteRowTracked
  <2>2. PICK q : Writes(s, i, q)
    BY <2>1
  <2>3. i \in Claim(req[s])
    BY <1>1, <2>2, HeldClaimed DEF Writes, Held
  <2>4. Tracks'
    BY <1>2, <2>2, <2>3 DEF Writes
  <2> QED
    BY <1>5, <2>2, <2>4, WritesBalance
<1>6. CASE Note(s) /\ Adjust(req[s])
  <2>1. PICK q : Takes(s, q)
    BY <1>6, NoteTracked
  <2> QED
    BY <1>3, <1>6, <2>1, NoteBalance
<1> QED
  BY <1>4, <1>5, <1>6 DEF Handling, Step

-----------------------------------------------------------------------------
(* Users who never work on the same expense at the same time, on workers   *)
(* that may stop, with the repairs of those that take their place.         *)
OwnSpec == BInit /\ [][BNext /\ Disjoint']_bvars

LEMMA DisjointIsOwn == DisjointSpec => OwnSpec
<1>1. [Serving /\ Disjoint']_bvars => [BNext /\ Disjoint']_bvars
  BY DEF BNext
<1> QED
  BY <1>1, PTL DEF DisjointSpec, OwnSpec

LEMMA OwnIsBadges == OwnSpec => BSpec
  BY PTL DEF OwnSpec, BSpec

(* The life cycle's own invariants survive a worker that stops.            *)
RegisterInv == IInv /\ IdsInv /\ EditsInv

LEMMA StopKeepsRegister ==
    ASSUME RegisterInv, NEW S \in SUBSET Requests, StopWorker(S)
    PROVE  IdsInv' /\ EditsInv'
<1>1. /\ db' = db /\ issued' = issued
      /\ \A r \in Requests : req'[r] = Idle \/ req'[r] = req[r]
  BY DEF StopWorker
<1>2. Stored' = Stored /\ Clones' = Clones
  BY <1>1 DEF Stored, Clones
<1>3. /\ \A r \in Requests : Guarded(req[r])' <=> Guarded(req'[r])
      /\ \A r \in Requests : PendingInsert(req[r])' = PendingInsert(req'[r])
      /\ \A r \in Requests : CloneTargets(req[r])' = CloneTargets(req'[r])
  BY DEF Guarded, PendingInsert, CloneTargets
<1>4. \A r \in Requests : /\ Guarded(req[r]) => Guarded(req'[r])
                          /\ PendingInsert(req'[r]) \subseteq PendingInsert(req[r])
                          /\ CloneTargets(req'[r]) \subseteq CloneTargets(req[r])
  BY <1>1, IdleIds
<1>5. /\ Stored \subseteq issued
      /\ \A r \in Requests : Guarded(req[r])
      /\ \A r \in Requests : PendingInsert(req[r]) \subseteq issued \ Stored
      /\ \A r \in Requests : CloneTargets(req[r]) \subseteq issued
      /\ \A r \in Requests : CloneTargets(req[r]) \cap Stored \subseteq Clones
  BY DEF RegisterInv, IdsInv
<1>6. \A r, s \in Requests : PendingInsert(req'[r]) \cap CloneTargets(req'[s]) = {}
  <2> TAKE r, s \in Requests
  <2>1. PendingInsert(req[r]) \cap CloneTargets(req[s]) = {}
    BY DEF RegisterInv, IdsInv
  <2> QED
    BY <1>4, <2>1
<1>7. \A r, s \in Requests :
         r # s => PendingInsert(req'[r]) \cap PendingInsert(req'[s]) = {}
  <2> TAKE r, s \in Requests
  <2>1. r # s => PendingInsert(req[r]) \cap PendingInsert(req[s]) = {}
    BY DEF RegisterInv, IdsInv
  <2> QED
    BY <1>4, <2>1
<1>8. /\ \A r \in Requests : Guarded(req'[r])
      /\ \A r \in Requests : PendingInsert(req'[r]) \subseteq issued' \ Stored'
      /\ \A r \in Requests : CloneTargets(req'[r]) \subseteq issued'
      /\ \A r \in Requests : CloneTargets(req'[r]) \cap Stored' \subseteq Clones'
  BY <1>1, <1>2, <1>4, <1>5
<1>9. IdsInv'
  BY <1>1, <1>2, <1>3, <1>5, <1>6, <1>7, <1>8 DEF IdsInv
<1>10. Inserting' \subseteq Inserting
  BY <1>3, <1>4 DEF Inserting
<1>11. \A i \in Clones' : db'[i].edited /\ Root(db[i].original)'
  BY <1>1, <1>2, <1>10 DEF RegisterInv, EditsInv, Root
<1>12. ASSUME NEW r \in Requests PROVE EditOK(req[r])'
  <2>1. EditOK(req'[r])
    BY <1>1, IdleEdits DEF RegisterInv, EditsInv
  <2> QED
    BY <1>1, <1>2, <1>10, <2>1 DEF EditOK, Root
<1> QED
  BY <1>9, <1>11, <1>12 DEF EditsInv

LEMMA RegisterInvariance == BSpec => [](RegisterInv /\ BadgesTypeOK)
<1>1. BInit => RegisterInv
  BY InitInv, InitIds, InitEdits DEF BInit, RegisterInv
<1>2. RegisterInv /\ BadgesTypeOK /\ [BNext]_bvars => RegisterInv'
  <2> SUFFICES ASSUME RegisterInv, BadgesTypeOK, [BNext]_bvars PROVE RegisterInv'
    OBVIOUS
  <2>1. CASE UNCHANGED vars
    BY <2>1 DEF vars, RegisterInv, IInv, TypeOK, IdsInv, EditsInv, EditOK, Root,
       Inserting, Guarded, PendingInsert, CloneTargets, Clones, Stored
  <2>2. ASSUME NEW r \in Requests, Handling(r) PROVE RegisterInv'
    BY <2>2, StepKeepsInv, StepKeepsIds, StepKeepsEdits DEF RegisterInv, Handling
  <2>3. ASSUME NEW S \in SUBSET Requests, StopWorker(S) PROVE RegisterInv'
    BY <2>3, StopKeepsTypes, StopKeepsRegister DEF RegisterInv, BIInv
  <2> QED
    BY <2>1, <2>2, <2>3 DEF BNext, bvars, Serving, CountAll, Overwrite, RepairFails
<1> QED
  BY <1>1, <1>2, BadgesTypeCorrect, PTL DEF BSpec

-----------------------------------------------------------------------------
(* What holds through stops and repairs.  Until a delta is lost the        *)
(* counters balance; a repair that nobody wrote beside has found the       *)
(* counts of the rows as they still are.                                   *)

FoundOK ==
    repair.alone /\ repair.pc = "found" => \A b \in Buckets : repair.found[b] = Count(b, db)

TrackInv == Disjoint /\ Tracks /\ (~drift => Balance) /\ FoundOK

LEMMA SameDisjoint ==
    ASSUME Disjoint, db' = db, req' = req
    PROVE  Disjoint'
<1>1. \A r \in Requests : Claim(req[r])' = Claim(req[r])
  BY DEF Claim, Held, Loaded, Family
<1> QED
  BY <1>1 DEF Disjoint

(* When nothing is pending the counters know the rows as they are.         *)
LEMMA NothingPending ==
    ASSUME ~Pending
    PROVE  \A b \in Buckets : Count(b, Known) = Count(b, db)
<1>1. \A i \in TxIds : Known[i] = db[i]
  BY DEF Pending, Known
<1>2. \A b \in Buckets : {i \in TxIds : Listed(b, Known[i])} = {i \in TxIds : Listed(b, db[i])}
  BY <1>1
<1> QED
  BY <1>2 DEF Count

LEMMA StopKeepsTrack ==
    ASSUME RegisterInv, TrackInv, NEW S \in SUBSET Requests, StopWorker(S), Disjoint'
    PROVE  TrackInv'
<1>1. /\ db' = db /\ badges' = badges
      /\ \A r \in Requests : req'[r] = IF r \in S THEN Idle ELSE req[r]
  BY DEF StopWorker
<1>2. Tracks'
  <2>1. \A r \in Requests : Tracked(req'[r], db)
    BY <1>1, IdleTracked DEF TrackInv, Tracks
  <2> QED
    BY <1>1, <2>1 DEF Tracks
<1>3. ASSUME ~drift' PROVE Balance'
  <2>1. ~drift /\ \A r \in S : Unposted(req[r]) = {}
    BY <1>3 DEF StopWorker
  <2>2. \A r \in Requests : Unposted(req'[r]) = Unposted(req[r])
    BY <1>1, <2>1, IdleTracked
  <2>3. \A r \in Requests : Unposted(req[r]) # {} => req'[r] = req[r]
    BY <1>1, <2>1
  <2>4. Separate(req)
    BY ClaimedApart DEF Separate, Base, RegisterInv, TrackInv
  <2>5. Separate(req')
    BY <2>2, <2>4 DEF Separate
  <2>6. ASSUME NEW i \in TxIds PROVE KnownTo(req', db)[i] = KnownTo(req, db)[i]
    <3>1. CASE \E r \in Requests : i \in Unposted(req[r])
      BY <2>2, <2>3, <2>4, <2>5, <3>1, KnownIs
    <3>2. CASE \A r \in Requests : i \notin Unposted(req[r])
      BY <2>2, <2>4, <2>5, <3>2, KnownIs
    <3> QED
      BY <3>1, <3>2
  <2>7. Known = KnownTo(req, db) /\ Known' = KnownTo(req', db)
    BY <1>1 DEF Known, KnownTo
  <2>8. \A b \in Buckets : {i \in TxIds : Listed(b, Known[i])}
                             = {i \in TxIds : Listed(b, Known'[i])}
    BY <2>6, <2>7
  <2>9. \A b \in Buckets : Count(b, Known) = Count(b, Known')
    BY <2>8 DEF Count
  <2>10. \A b \in Buckets : badges'[b] = Count(b, Known')
    BY <1>1, <2>1, <2>9 DEF TrackInv, Balance
  <2> QED
    BY <2>10 DEF Balance, Count
<1>4. FoundOK'
  <2>1. repair'.pc = "counting"
    BY DEF StopWorker, NoRepair
  <2> QED
    BY <2>1 DEF FoundOK
<1> QED
  BY <1>2, <1>3, <1>4 DEF TrackInv

LEMMA RepairKeepsTrack ==
    ASSUME BadgesTypeOK, TrackInv, CountAll \/ Overwrite \/ RepairFails
    PROVE  TrackInv'
<1>1. db' = db /\ req' = req
  BY DEF CountAll, Overwrite, RepairFails, vars
<1>2. Disjoint' /\ Tracks'
  BY <1>1, SameDisjoint DEF TrackInv, Tracks
<1>3. Known' = Known /\ \A b \in Buckets : Count(b, db)' = Count(b, db)
  BY <1>1 DEF Known, Count
<1>4. \A b \in Buckets : Count(b, Known)' = Count(b, Known)
  BY <1>3 DEF Count
<1>5. ASSUME UNCHANGED <<badges, drift>>, ~drift'
      PROVE  Balance'
  BY <1>4, <1>5 DEF TrackInv, Balance
<1>6. ASSUME Overwrite, ~drift'
      PROVE  Balance'
  <2>1. /\ ~Pending /\ repair.alone /\ repair.pc = "found"
        /\ badges' = repair.found
    BY <1>6 DEF Overwrite
  <2>2. \A b \in Buckets : badges'[b] = Count(b, Known)
    BY <2>1, NothingPending DEF TrackInv, FoundOK
  <2> QED
    BY <1>4, <2>2 DEF Balance
<1>7. ~drift' => Balance'
  BY <1>5, <1>6 DEF CountAll, RepairFails
<1>8. FoundOK'
  <2>1. CASE CountAll
    <3> DEFINE found == [b \in Buckets |-> Count(b, db)]
    <3>1. repair'.found = found
      BY <2>1 DEF CountAll, BadgesTypeOK
    <3>2. \A b \in Buckets : repair'.found[b] = Count(b, db)
      BY <3>1
    <3> QED
      BY <1>3, <3>2 DEF FoundOK
  <2>2. CASE Overwrite \/ RepairFails
    <3>1. repair'.pc = "off"
      BY <2>2 DEF Overwrite, RepairFails, NoRepair
    <3> QED
      BY <3>1 DEF FoundOK
  <2> QED
    BY <2>1, <2>2
<1> QED
  BY <1>2, <1>7, <1>8 DEF TrackInv

LEMMA ServingKeepsTrack ==
    ASSUME Endpoints \subseteq Noting, RegisterInv, BadgesTypeOK, TrackInv, IInv',
           Serving, Disjoint'
    PROVE  TrackInv'
<1>1. PICK s \in Requests : Handling(s)
  BY DEF Serving
<1>2. Tracks' /\ (Balance => Balance')
  BY <1>1, HandlingKeepsTrack DEF Base, RegisterInv, TrackInv
<1>3. drift' = drift
  BY DEF Serving
<1>4. FoundOK'
  <2>1. CASE db' = db
    <3>1. repair' = repair /\ \A b \in Buckets : Count(b, db)' = Count(b, db)
      BY <2>1 DEF Serving, Count
    <3> QED
      BY <3>1 DEF TrackInv, FoundOK
  <2>2. CASE db' # db
    <3>1. repair' = [repair EXCEPT !.alone = FALSE]
      BY <2>2 DEF Serving
    <3>2. ~repair'.alone
      BY <3>1 DEF BadgesTypeOK
    <3> QED
      BY <3>2 DEF FoundOK
  <2> QED
    BY <2>1, <2>2
<1> QED
  BY <1>2, <1>3, <1>4 DEF TrackInv

(* While no two requests work on the same expense and every endpoint that  *)
(* is called posts its transitions, each stored badge is the number of     *)
(* rows its query counts once the deltas on their way are added: no        *)
(* handler forgets, repeats or misjudges a transition, however the         *)
(* requests interleave, and a repair that nobody wrote beside makes up for *)
(* what a worker took with it when it stopped.                             *)
THEOREM BadgesCorrect ==
    ASSUME Endpoints \subseteq Noting
    PROVE  OwnSpec => []BadgesTrackRows
<1>1. BInit => TrackInv
  <2> SUFFICES ASSUME BInit PROVE TrackInv
    OBVIOUS
  <2>1. /\ db = NoDocs /\ badges = [b \in Buckets |-> 0] /\ repair = NoRepair
        /\ \A r \in Requests : req[r] = Idle
    BY DEF BInit, Init
  <2>2. Claim(Idle) = {}
    BY DEF Claim, Held, Idle, NoStage, Loaded, NoDocs
  <2>3. Disjoint /\ Tracks
    BY <2>1, <2>2, IdleTracked DEF Disjoint, Tracks
  <2>4. ~Pending
    BY <2>1, IdleTracked DEF Pending
  <2>5. \A b \in Buckets : Count(b, db) = 0
    <3>1. \A b \in Buckets : {i \in TxIds : Listed(b, db[i])} = {}
      BY <2>1 DEF Listed, NoDocs
    <3> QED
      BY <3>1, FS_EmptySet DEF Count
  <2>6. Balance
    BY <2>1, <2>4, <2>5, NothingPending DEF Balance
  <2>7. FoundOK
    BY <2>1 DEF FoundOK, NoRepair
  <2> QED
    BY <2>3, <2>6, <2>7 DEF TrackInv
<1>2. RegisterInv /\ BadgesTypeOK /\ TrackInv /\ RegisterInv'
        /\ [BNext /\ Disjoint']_bvars => TrackInv'
  <2> SUFFICES ASSUME RegisterInv, BadgesTypeOK, TrackInv, IInv',
                      [BNext /\ Disjoint']_bvars
               PROVE  TrackInv'
    BY DEF RegisterInv
  <2>1. CASE UNCHANGED bvars
    <3>1. db' = db /\ req' = req /\ badges' = badges /\ drift' = drift /\ repair' = repair
      BY <2>1 DEF bvars, vars
    <3>2. Known' = Known
      BY <3>1 DEF Known
    <3>3. Disjoint' /\ Tracks'
      BY <3>1, SameDisjoint DEF TrackInv, Tracks
    <3> QED
      BY <3>1, <3>2, <3>3 DEF TrackInv, Balance, FoundOK, Count
  <2> QED
    BY <2>1, ServingKeepsTrack, StopKeepsTrack, RepairKeepsTrack DEF BNext
<1>3. TrackInv => BadgesTrackRows
  BY DEF TrackInv, Balance, BadgesTrackRows
<1> QED
  BY <1>1, <1>2, <1>3, OwnIsBadges, RegisterInvariance, PTL DEF OwnSpec

(* The badges while requests on different expenses overlap and no worker   *)
(* stops, as one run checks them.                                          *)
THEOREM BadgesOfDisjointRequests ==
    ASSUME Endpoints \subseteq Noting
    PROVE  DisjointSpec => []BadgesTrackRows
  BY BadgesCorrect, DisjointIsOwn, PTL

(* The badges while requests come one at a time, on workers that may stop  *)
(* in the middle of one, as another run checks them.                       *)
THEOREM BadgesOfOneRequest ==
    ASSUME Endpoints \subseteq Noting, \A r, s \in Requests : r = s
    PROVE  BSpec => []BadgesTrackRows
<1>1. [BNext]_bvars => [BNext /\ Disjoint']_bvars
  BY DEF Disjoint
<1> QED
  BY <1>1, BadgesCorrect, PTL DEF BSpec, OwnSpec

-----------------------------------------------------------------------------
(* Verified rows and the trash.  request-delete decides from the row it    *)
(* read and writes by _id alone; when nobody else works on the expense the *)
(* row is still as it was read.                                            *)

TrashOK(q, docs) ==
    /\ q.op = "trash" /\ q.pc = "write" =>
          \A i \in q.todo : docs[i] # NoDoc => ~docs[i].verified
    /\ q.next.op # "trash"

TrashInv == \A r \in Requests : TrashOK(req[r], db)

Becomes(r, q) ==
    /\ req' = [req EXCEPT ![r] = q]
    /\ TrashOK(q, db')
    /\ \A i \in TxIds : db'[i] = db[i] \/ i \in Claim(req[r])

LEMMA ArriveTrashOK ==
    ASSUME IInv, NEW r \in Requests, Arrive(r)
    PROVE  \E q : Becomes(r, q)
<1>1. db' = db
  BY DEF Arrive, Create, SaveInPlace, CashierBulk, DiscardAnyDrafts, CashierUnnoted,
     SubmitDay, DiscardDay, InboxAction, TrashAction, BulkRestoreDeletions, DeleteRow,
     RequestDelete, RequestRestore, PendingEdit, ReApproveEdited, ConfirmDeletion,
     BulkConfirmDeletions
<1>2. ASSUME NEW q, req' = [req EXCEPT ![r] = q], TrashOK(q, db)
      PROVE  \E p : Becomes(r, p)
  BY <1>1, <1>2 DEF Becomes
<1>3. CASE Plain(r)
  <2>1. PICK op \in PlainOps, u \in Users \cup {NoOne}, ids \in SUBSET TxIds,
             s \in Statuses : Arrives(r, op, u, ids, s)
    BY <1>3, PlainArrival
  <2> DEFINE q == Call(op, u, ids, s)
  <2>2. q \in Request /\ q.op = op /\ op # "trash" /\ q.next.op = "none"
    BY CallTyped, CallFields DEF PlainOps, TrashingOps, NoStage
  <2> HIDE DEF q
  <2>3. Load(q).op = q.op /\ Load(q).next = q.next
    BY <2>2 DEF Load, Remember, Request
  <2>4. TrashOK(q, db) /\ TrashOK(Load(q), db)
    BY <2>2, <2>3 DEF TrashOK
  <2>5. req' = [req EXCEPT ![r] = q] \/ req' = [req EXCEPT ![r] = Load(q)]
    BY <2>1 DEF Arrives, q
  <2> QED
    BY <1>2, <2>4, <2>5
<1>4. CASE Create(r)
  <2>1. PICK c, s, f, i :
          req' = [req EXCEPT ![r] =
                    [Call("create", c, {i}, s) EXCEPT !.new = NewRow(c, s, f)]]
    BY <1>4 DEF Create, Start
  <2> DEFINE q == [Call("create", c, {i}, s) EXCEPT !.new = NewRow(c, s, f)]
  <2>2. q.op = "create" /\ q.next.op = "none"
    BY DEF Call, Idle, NoStage
  <2> QED
    BY <1>2, <2>1, <2>2 DEF TrashOK
<1>5. CASE RequestDelete(r)
  <2>1. PICK c \in Cashiers, i \in Stored, op \in {"drop_clone", "trash", "ask_deletion"} :
          /\ op = "trash" => ~db[i].verified
          /\ req' = [req EXCEPT ![r] = Remember(Call(op, c, {i}, "draft"), {i})]
    BY <1>5 DEF RequestDelete, Start
  <2> DEFINE q == Remember(Call(op, c, {i}, "draft"), {i})
  <2>2. q.op = op /\ q.todo = {i} /\ q.next.op = "none"
    BY DEF Remember, Call, Idle, NoStage
  <2> HIDE DEF q
  <2>3. TrashOK(q, db)
    BY <2>1, <2>2 DEF TrashOK
  <2> QED
    BY <1>2, <2>1, <2>3 DEF q
<1>6. CASE PendingEdit(r)
  <2>1. PICK c, s, i :
          req' = [req EXCEPT ![r] =
                    [Call("pending_edit", c, {i}, s) EXCEPT
                       !.pc = "find", !.todo = {}, !.new = CloneOf(db[i], i, s)]]
    BY <1>6 DEF PendingEdit, Start
  <2> DEFINE q == [Call("pending_edit", c, {i}, s) EXCEPT
                     !.pc = "find", !.todo = {}, !.new = CloneOf(db[i], i, s)]
  <2>2. q.op = "pending_edit" /\ q.next.op = "none"
    BY DEF Call, Idle, NoStage
  <2> QED
    BY <1>2, <2>1, <2>2 DEF TrashOK
<1>7. ASSUME NEW op, NEW q, op # "trash", q.op = op, q.next.op # "trash",
             req' = [req EXCEPT ![r] = q]
      PROVE  \E p : Becomes(r, p)
  BY <1>2, <1>7 DEF TrashOK
<1>8. CASE ReApproveEdited(r)
  <2>1. PICK u, i :
          req' = [req EXCEPT ![r] =
                    [Call("cascade", u, {i}, "draft") EXCEPT
                       !.pc = "find", !.todo = {},
                       !.next = [op |-> "drop_clone", todo |-> {i},
                                 docs |-> [NoDocs EXCEPT ![i] = db[i]]]]]
    BY <1>8 DEF ReApproveEdited, Start
  <2> DEFINE next == [op |-> "drop_clone", todo |-> {i},
                      docs |-> [NoDocs EXCEPT ![i] = db[i]]]
             q    == [Call("cascade", u, {i}, "draft") EXCEPT
                        !.pc = "find", !.todo = {}, !.next = next]
  <2>2. req' = [req EXCEPT ![r] = q]
    BY <2>1
  <2>3. next.op = "drop_clone"
    OBVIOUS
  <2> HIDE DEF next
  <2>4. q.op = "cascade" /\ q.next = next
    BY DEF Call, Idle
  <2> HIDE DEF q
  <2> QED
    BY <1>7, <2>2, <2>3, <2>4
<1>9. CASE ConfirmDeletion(r)
  <2>1. PICK u, i :
          req' = [req EXCEPT ![r] =
                    [Call("drop_clones_of", u, {i}, "draft") EXCEPT
                       !.pc = "find", !.todo = TxIds,
                       !.next = [op |-> "confirm_deletion", todo |-> {i},
                                 docs |-> [NoDocs EXCEPT ![i] = db[i]]]]]
    BY <1>9 DEF ConfirmDeletion, Start
  <2> DEFINE next == [op |-> "confirm_deletion", todo |-> {i},
                      docs |-> [NoDocs EXCEPT ![i] = db[i]]]
             q    == [Call("drop_clones_of", u, {i}, "draft") EXCEPT
                        !.pc = "find", !.todo = TxIds, !.next = next]
  <2>2. req' = [req EXCEPT ![r] = q]
    BY <2>1
  <2>3. next.op = "confirm_deletion"
    OBVIOUS
  <2> HIDE DEF next
  <2>4. q.op = "drop_clones_of" /\ q.next = next
    BY DEF Call, Idle
  <2> HIDE DEF q
  <2> QED
    BY <1>7, <2>2, <2>3, <2>4
<1>10. CASE BulkConfirmDeletions(r)
  <2>1. PICK u, ids :
          req' = [req EXCEPT ![r] =
                    [Call("drop_clones_of", u, ids, "draft") EXCEPT
                       !.todo = TxIds,
                       !.next = [op |-> "confirm_deletion", todo |-> ids,
                                 docs |-> NoDocs]]]
    BY <1>10 DEF BulkConfirmDeletions, Start
  <2> DEFINE next == [op |-> "confirm_deletion", todo |-> ids, docs |-> NoDocs]
             q    == [Call("drop_clones_of", u, ids, "draft") EXCEPT
                        !.todo = TxIds, !.next = next]
  <2>2. req' = [req EXCEPT ![r] = q]
    BY <2>1
  <2>3. next.op = "confirm_deletion"
    OBVIOUS
  <2> HIDE DEF next
  <2>4. q.op = "drop_clones_of" /\ q.next = next
    BY DEF Call, Idle
  <2> HIDE DEF q
  <2> QED
    BY <1>7, <2>2, <2>3, <2>4
<1> QED
  BY <1>3, <1>4, <1>5, <1>6, <1>8, <1>9, <1>10 DEF Arrive, Plain

LEMMA LaterTrashOK ==
    ASSUME IInv, TrashInv, NEW r \in Requests, Step(r) \/ Note(r)
    PROVE  \E q : Becomes(r, q)
<1> DEFINE q == req[r]
<1>1. q \in Request /\ q.next.op # "trash" /\ TrashOK(q, db) /\ q.todo \subseteq TxIds
  BY DEF IInv, TypeOK, TrashInv, TrashOK, Request
<1>2. ASSUME NEW p, p.op # "trash", p.next.op # "trash", db' = db,
             req' = [req EXCEPT ![r] = p]
      PROVE  \E e : Becomes(r, e)
  BY <1>2 DEF Becomes, TrashOK
<1>3. CASE Find(r) /\ FindClone(r)
  <2>1. q.op = "pending_edit" /\ db' = db
    BY <1>3 DEF FindClone
  <2>2. CASE \E j : req' = [req EXCEPT ![r] =
                       Remember([Call("edit_clone", q.actor, q.ids, q.status)
                                   EXCEPT !.todo = {j}], {j})]
    <3>1. PICK j : req' = [req EXCEPT ![r] =
                       Remember([Call("edit_clone", q.actor, q.ids, q.status)
                                   EXCEPT !.todo = {j}], {j})]
      BY <2>2
    <3> DEFINE p == Remember([Call("edit_clone", q.actor, q.ids, q.status)
                                EXCEPT !.todo = {j}], {j})
    <3>2. p.op = "edit_clone" /\ p.next.op = "none"
      BY DEF Remember, Call, Idle, NoStage
    <3> HIDE DEF p
    <3> QED
      BY <1>2, <2>1, <3>1, <3>2 DEF p
  <2>3. CASE \E j : req' = [req EXCEPT ![r] =
                       [q EXCEPT !.pc = "write", !.op = "insert_clone", !.todo = {j}]]
    <3>1. PICK j : req' = [req EXCEPT ![r] =
                       [q EXCEPT !.pc = "write", !.op = "insert_clone", !.todo = {j}]]
      BY <2>3
    <3> DEFINE p == [q EXCEPT !.pc = "write", !.op = "insert_clone", !.todo = {j}]
    <3>2. p.op = "insert_clone" /\ p.next = q.next
      BY <1>1 DEF Request
    <3> HIDE DEF p
    <3> QED
      BY <1>1, <1>2, <2>1, <3>1, <3>2 DEF p
  <2> QED
    BY <1>3, <2>2, <2>3 DEF FindClone
<1>4. CASE Find(r) /\ FindOriginal(r)
  <2> DEFINE o == {q.next.docs[i].original : i \in q.ids}
             p == Remember([q EXCEPT !.pc = "write", !.todo = o], o)
  <2>1. q.op = "cascade" /\ db' = db /\ req' = [req EXCEPT ![r] = p]
    BY <1>4 DEF FindOriginal
  <2>2. p.op = q.op /\ p.next = q.next
    BY <1>1 DEF Remember, Request
  <2> HIDE DEF p
  <2> QED
    BY <1>1, <1>2, <2>1, <2>2
<1>5. CASE Find(r) /\ LoadClones(r)
  <2> DEFINE p == Load([q EXCEPT !.pc = "write"])
  <2>1. q.op = "drop_clones_of" /\ db' = db /\ req' = [req EXCEPT ![r] = p]
    BY <1>5 DEF LoadClones
  <2>2. p.op = q.op /\ p.next = q.next
    BY <1>1 DEF Load, Remember, Request
  <2> HIDE DEF p
  <2> QED
    BY <1>1, <1>2, <2>1, <2>2
<1>6. CASE Note(r)
  <2> DEFINE p == [Call(q.next.op, q.actor, q.ids, "draft") EXCEPT
                     !.todo = q.next.todo, !.docs = q.next.docs]
  <2>1. db' = db /\ (req' = [req EXCEPT ![r] = Idle] \/ req' = [req EXCEPT ![r] = p])
    BY <1>6 DEF Note
  <2>2. /\ p.op = q.next.op /\ p.next.op = "none"
        /\ Idle.op = "none" /\ Idle.next.op = "none"
    BY DEF Call, Idle, NoStage
  <2> HIDE DEF p
  <2> QED
    BY <1>1, <1>2, <2>1, <2>2
<1>7. CASE WriteRow(r)
  <2>1. PICK i \in q.todo :
          /\ q.pc = "write"
          /\ db' = [db EXCEPT ![i] = IF Matches(q, db[i]) THEN SetBy(q, db[i]) ELSE db[i]]
          /\ req' = [req EXCEPT ![r] =
                       AfterWrite([q EXCEPT !.todo = @ \ {i},
                                            !.written = IF Matches(q, db[i])
                                                        THEN @ \cup {i} ELSE @])]
    BY <1>7 DEF WriteRow
  <2> DEFINE p == [q EXCEPT !.todo = @ \ {i},
                            !.written = IF Matches(q, db[i]) THEN @ \cup {i} ELSE @]
  <2>2. /\ p \in Request /\ p.op = q.op /\ p.next = q.next /\ p.todo = q.todo \ {i}
        /\ p.pc = "write"
    BY <1>1, <2>1 DEF Request
  <2>3. req' = [req EXCEPT ![r] = AfterWrite(p)]
    BY <2>1
  <2> HIDE DEF p, q
  <2>4. \A j \in TxIds : j # i => db'[j] = db[j]
    BY <2>1 DEF IInv, TypeOK, Docs
  <2>5. TrashOK(p, db')
    BY <1>1, <2>1, <2>2, <2>4 DEF TrashOK
  <2>6. TrashOK(AfterWrite(p), db')
    BY <2>2, <2>5 DEF TrashOK, AfterWrite, Idle, NoStage, Request
  <2>7. i \in Claim(req[r])
    BY <1>1, HeldClaimed DEF Held, q
  <2> QED
    BY <2>3, <2>4, <2>6, <2>7 DEF Becomes
<1> QED
  BY <1>3, <1>4, <1>5, <1>6, <1>7 DEF Step, Find

LEMMA StepKeepsTrashInv ==
    ASSUME IInv, Disjoint, TrashInv, [BNext /\ Disjoint']_bvars
    PROVE  TrashInv' /\ Disjoint'
<1>1. CASE UNCHANGED vars
  <2>1. db' = db /\ req' = req
    BY <1>1 DEF vars
  <2> QED
    BY <2>1, SameDisjoint DEF TrashInv
<1>2. CASE Serving /\ Disjoint'
  <2>1. PICK s \in Requests : Handling(s)
    BY <1>2 DEF Serving
  <2>2. PICK q : Becomes(s, q)
    BY <2>1, ArriveTrashOK, LaterTrashOK DEF Handling
  <2>3. ASSUME NEW r \in Requests PROVE TrashOK(req'[r], db')
    <3>1. CASE r = s
      BY <2>2, <3>1 DEF Becomes, IInv, TypeOK
    <3>2. CASE r # s
      <4>1. /\ req'[r] = req[r] /\ req[r] \in Request /\ TrashOK(req[r], db)
            /\ req[r].todo \subseteq TxIds
        BY <2>2, <3>2 DEF Becomes, IInv, TypeOK, TrashInv, Request
      <4>2. req[r].todo \subseteq Claim(req[r])
        BY <4>1, HeldClaimed DEF Held
      <4>3. Claim(req[r]) \cap Claim(req[s]) = {}
        BY <3>2 DEF Disjoint
      <4>4. \A i \in req[r].todo : db'[i] = db[i]
        BY <2>2, <4>1, <4>2, <4>3 DEF Becomes
      <4>5. TrashOK(req[r], db')
        BY <4>1, <4>4 DEF TrashOK
      <4> QED
        BY <4>1, <4>5
    <3> QED
      BY <3>1, <3>2
  <2> QED
    BY <1>2, <2>3 DEF TrashInv
<1>3. ASSUME NEW S \in SUBSET Requests, StopWorker(S), Disjoint'
      PROVE  TrashInv' /\ Disjoint'
  <2>1. db' = db /\ \A r \in Requests : req'[r] = Idle \/ req'[r] = req[r]
    BY <1>3 DEF StopWorker
  <2>2. TrashOK(Idle, db)
    BY DEF TrashOK, Idle, NoStage
  <2> QED
    BY <1>3, <2>1, <2>2 DEF TrashInv
<1> QED
  BY <1>1, <1>2, <1>3 DEF BNext, bvars, CountAll, Overwrite, RepairFails

(* Two updates put a row in the trash.                                     *)
LEMMA TrashingSets ==
    ASSUME NEW q, NEW row \in Row, ~row.trashed, SetBy(q, row).trashed,
           q.op \notin Inserts \cup Deletes
    PROVE  q.op \in {"trash", "confirm_deletion"}
<1> SUFFICES ASSUME q.op \notin {"trash", "confirm_deletion"} PROVE FALSE
  OBVIOUS
<1> USE DEF Row
<1>1. \A s : /\ ~Saved(row, s).trashed /\ ~SavedEdited(row, s).trashed
             /\ ~SavedRejected(row, s).trashed /\ ~CloneEdited(row, s).trashed
  BY DEF Saved, SavedEdited, SavedRejected, CloneEdited
<1>2. /\ ~Approved(row).trashed /\ ~RejectedBy(row).trashed /\ ~Returned(row).trashed
      /\ ~ReApproved(row).trashed /\ ~Resubmitted(row).trashed /\ ~Submitted(row).trashed
  BY DEF Approved, RejectedBy, Returned, ReApproved, Resubmitted, Submitted
<1>3. /\ ~Discarded(row).trashed /\ ~Undiscarded(row).trashed
      /\ ~RestoreAsked(row).trashed /\ ~RestoreCleared(row).trashed
      /\ ~TrashCleared(row).trashed /\ ~DeletionAsked(row).trashed
      /\ ~DeletionRefused(row).trashed
  BY DEF Discarded, Undiscarded, RestoreAsked, RestoreCleared, TrashCleared,
     DeletionAsked, DeletionRefused
<1> QED
  BY <1>1, <1>2, <1>3 DEF SetBy

(* A verified row reaches the trash only while a deletion is requested for *)
(* it, as long as no two requests work on the same expense: what the run   *)
(* register_race refutes without that.                                     *)
THEOREM VerifiedTrashCorrect == OwnSpec => VerifiedTrashedOnRequest
<1>1. BInit => Disjoint /\ TrashInv
  <2> SUFFICES ASSUME BInit PROVE Disjoint /\ TrashInv
    OBVIOUS
  <2>1. \A r \in Requests : req[r] = Idle
    BY DEF BInit, Init
  <2>2. Claim(Idle) = {}
    BY DEF Claim, Held, Idle, NoStage, Loaded, NoDocs
  <2>3. TrashOK(Idle, db)
    BY DEF TrashOK, Idle, NoStage
  <2> QED
    BY <2>1, <2>2, <2>3 DEF Disjoint, TrashInv
<1>2. IInv /\ Disjoint /\ TrashInv /\ [BNext /\ Disjoint']_bvars
        => Disjoint' /\ TrashInv'
  BY StepKeepsTrashInv
<1>3. ASSUME IInv, TrashInv, [BNext /\ Disjoint']_bvars, NEW i \in TxIds, Kept(i),
             db[i].verified, ~db[i].trashed, db'[i].trashed
      PROVE  db[i].deletion
  <2>1. db' # db
    BY <1>3
  <2>2. PICK r \in Requests : Handling(r)
    BY <1>3, <2>1 DEF bvars, vars, BNext, Serving, StopWorker, CountAll, Overwrite,
       RepairFails
  <2>3. WriteRow(r)
    BY <2>1, <2>2 DEF Handling, Arrive, Create, SaveInPlace,
       CashierBulk, DiscardAnyDrafts, CashierUnnoted, SubmitDay, DiscardDay,
       InboxAction, TrashAction, BulkRestoreDeletions, DeleteRow, RequestDelete,
       RequestRestore, PendingEdit, ReApproveEdited, ConfirmDeletion,
       BulkConfirmDeletions, Step, Find, FindClone, FindOriginal, LoadClones, Note
  <2> DEFINE q == req[r]
  <2>4. PICK j \in q.todo :
          /\ q.pc = "write"
          /\ db' = [db EXCEPT ![j] = IF Matches(q, db[j]) THEN SetBy(q, db[j]) ELSE db[j]]
    BY <2>3 DEF WriteRow
  <2>5. db[i] \in Row /\ db[i] # NoDoc /\ db'[i] # NoDoc
    BY <1>3 DEF IInv, TypeOK, Docs, Kept
  <2>6. j = i /\ Matches(q, db[i]) /\ db'[i] = SetBy(q, db[i])
    BY <1>3, <2>4, <2>5 DEF IInv, TypeOK, Docs
  <2>7. q.op \notin Inserts \cup Deletes /\ Filter(q, db[i])
    BY <2>5, <2>6 DEF Matches, SetBy, Inserts, Deletes
  <2>8. q.op \in {"trash", "confirm_deletion"}
    BY <1>3, <2>5, <2>6, <2>7, TrashingSets
  <2>9. q.op # "trash"
    BY <1>3, <2>4, <2>5, <2>6 DEF TrashInv, TrashOK
  <2> QED
    BY <2>7, <2>8, <2>9 DEF Filter, DELETION_BASE_MATCH
<1>4. IInv /\ TrashInv /\ [BNext /\ Disjoint']_bvars
        => [\A i \in TxIds :
              Kept(i) /\ db[i].verified /\ ~db[i].trashed /\ db'[i].trashed
                => db[i].deletion]_vars
  BY <1>3
<1>5. RegisterInv => IInv
  BY DEF RegisterInv
<1> QED
  BY <1>1, <1>2, <1>4, <1>5, OwnIsBadges, RegisterInvariance, PTL
     DEF OwnSpec, VerifiedTrashedOnRequest

(* The same while no worker stops, as a run checks it.                     *)
THEOREM TrashOfDisjointRequests == DisjointSpec => VerifiedTrashedOnRequest
  BY VerifiedTrashCorrect, DisjointIsOwn, PTL
=============================================================================
