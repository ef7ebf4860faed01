---------------------------- MODULE ImportProofs ----------------------------
(***************************************************************************)
(* The imported rows, for any number of desktops, API processes, requests  *)
(* and lines, and any batch size: StoredOnce and MarkedDaysAreStored are   *)
(* invariants.                                                             *)
(***************************************************************************)
EXTENDS ImportPush, TLAPS, WellFoundedInduction

(* A row bears the upload its line is listed in.                           *)
InPlace(k) == k.line \in LinesOf(k.upload)

(* For desktop m: the row is in the register, or went with its upload.     *)
Held(m, k) == k \in stored \/ k.upload \in lost[m]

UnderWay(m) == push[m].at \in {"send", "wait"}

(* Every line of the days to push has an item.                             *)
Mapped(m) ==
    ~Idle(m) => \A d \in push[m].days : \A u \in UploadsOf(d) : \A l \in LinesOf(u) :
        item[m][DescriptionOf[l]] # NoItem

(* What was sent before the batch under way is held.                       *)
SentIsHeld(m) ==
    LET p == push[m] IN
    /\ \A v \in UploadsOf(DayOf[p.u]) : v < p.u =>
          \A k \in UploadRows(m, v) : Held(m, k)
    /\ \A n \in DOMAIN Book[p.u] : n <= (p.b - 1) * BatchSize =>
          Held(m, RowOf(m, p.u, Book[p.u][n]))

(* What is not held of the batch under way is still to be inserted.        *)
RestIsToCome(m, c) ==
    \A k \in BatchRows(m, push[m].u, push[m].b) : Held(m, k) \/ k \in call[c].rows

Rows ==
    /\ \A k \in stored : InPlace(k)
    /\ \A c \in Calls : \A k \in call[c].rows : InPlace(k)
    /\ indexed => doubled = {}

Marks ==
    \A m \in Managers, d \in Days : \A k \in pushed[m][d] :
        DayOf[k.upload] = d /\ Held(m, k)

Pushes ==
    \A m \in Managers :
        /\ UnderWay(m) => SentIsHeld(m)
        /\ \A c \in Calls : call[c].by = m => RestIsToCome(m, c)

Typed ==
    /\ TypeOK
    /\ \A m \in Managers : Mapped(m) /\ (UnderWay(m) => DayOf[push[m].u] \in push[m].days)
    /\ \A c \in Calls : call[c].at = "none" => call[c] = NoCall

IInv == Typed /\ Rows /\ Marks /\ Pushes

-----------------------------------------------------------------------------
(* The workbook.                                                           *)

LEMMA BookFacts ==
  /\ Len(Book) \in Nat /\ Uploads = 1..Len(Book) /\ 1 \in Uploads
  /\ \A u \in Uploads : /\ Len(Book[u]) \in Nat /\ DOMAIN Book[u] = 1..Len(Book[u])
                        /\ DayOf[u] \in Days /\ DayOf[u] \in Nat
                        /\ \A n \in DOMAIN Book[u] : Book[u][n] \in LinesOf(u)
                        /\ \A l \in LinesOf(u) : l \in Lines /\ DescriptionOf[l] \in Descriptions
  <1>1. Book \in Seq(Seq(Lines)) /\ Book # <<>>
    BY ImportConstants
  <1>2. Len(Book) \in Nat /\ Uploads = 1..Len(Book) /\ 1 \in Uploads
    BY <1>1 DEF Uploads
  <1>3. ASSUME NEW u \in Uploads
        PROVE  /\ Len(Book[u]) \in Nat /\ DOMAIN Book[u] = 1..Len(Book[u])
               /\ DayOf[u] \in Days /\ DayOf[u] \in Nat
               /\ \A n \in DOMAIN Book[u] : Book[u][n] \in LinesOf(u)
               /\ \A l \in LinesOf(u) : l \in Lines /\ DescriptionOf[l] \in Descriptions
    <2>1. Book[u] \in Seq(Lines)
      BY <1>1, <1>2
    <2>2. \A l \in LinesOf(u) : l \in Lines
      BY DEF Lines
    <2> QED
      BY <2>1, <2>2, ImportConstants DEF LinesOf, Days
  <1> QED
    BY <1>2, <1>3

LEMMA LineOnce ==
  ASSUME NEW u \in Uploads, NEW v \in Uploads, NEW l \in LinesOf(u), l \in LinesOf(v)
  PROVE  u = v
  BY ImportConstants DEF LinesOf

LEMMA NextUploadIsFirst ==
  ASSUME NEW days \in SUBSET Days, days # {}
  PROVE  /\ NextUpload(days) \in Uploads /\ DayOf[NextUpload(days)] \in days
         /\ \A v \in Uploads : DayOf[v] \in days => NextUpload(days) <= v
  <1> DEFINE T == {u \in Uploads : DayOf[u] \in days}
             R == OpToRel(<, Nat)
  <1>1. T # {} /\ T \subseteq Nat
    BY BookFacts DEF Days
  <1>2. PICK u \in T : \A v \in T : ~ (<<v, u>> \in R)
    <2> HIDE DEF T, R
    <2>1. IsWellFoundedOn(R, Nat)
      BY NatLessThanWellFounded DEF R
    <2> QED
      BY <1>1, <2>1, WFMin
  <1>3. \A v \in T : u <= v
    <2>1. \A x, y \in Nat : x < y => <<x, y>> \in R
      BY DEF OpToRel
    <2> HIDE DEF T, R
    <2>2. SUFFICES ASSUME NEW v \in T PROVE u <= v
      OBVIOUS
    <2>3. u \in Nat /\ v \in Nat
      BY <1>1
    <2>4. ~ (<<v, u>> \in R)
      BY <1>2
    <2>5. ~ (v < u)
      BY <2>1, <2>3, <2>4
    <2> QED
      BY <2>3, <2>5
  <1>4. u \in Uploads /\ DayOf[u] \in days /\ \A v \in Uploads : DayOf[v] \in days => u <= v
    BY <1>3
  <1> QED
    BY <1>4 DEF NextUpload

LEMMA NextUploadOfDay ==
  ASSUME NEW u \in Uploads, ~DayEnds(u)
  PROVE  u + 1 \in Uploads /\ DayOf[u + 1] = DayOf[u]
  <1>1. PICK v \in Uploads : DayOf[v] = DayOf[u] /\ ~ (v <= u)
    BY DEF DayEnds
  <1>2. u + 1 \in Uploads /\ u < u + 1 /\ (u + 1 < v \/ u + 1 = v)
    BY <1>1, BookFacts
  <1>3. DayOf[u] <= DayOf[u + 1] /\ DayOf[u + 1] <= DayOf[v]
    <2>1. DayOf[u] <= DayOf[u + 1]
      BY <1>2, ImportConstants
    <2>2. DayOf[u + 1] <= DayOf[v]
      BY <1>1, <1>2, ImportConstants, BookFacts
    <2> QED
      BY <2>1, <2>2
  <1> QED
    BY <1>1, <1>2, <1>3, BookFacts

(* What is before the next batch is before this one or in it.              *)
LEMMA BatchFollows ==
  ASSUME NEW u \in Uploads, NEW b \in Nat \ {0}, NEW n \in DOMAIN Book[u],
         n <= ((b + 1) - 1) * BatchSize \/ AllSent(u, b)
  PROVE  n <= (b - 1) * BatchSize \/ n \in Batch(u, b)
  <1>1. n \in Nat /\ n <= Len(Book[u]) /\ Len(Book[u]) \in Nat /\ BatchSize \in Nat
    BY BookFacts, ImportConstants
  <1>2. (b + 1) - 1 = b
    OBVIOUS
  <1>3. b * BatchSize \in Nat /\ (b - 1) * BatchSize \in Nat
    BY <1>1
  <1>4. n <= b * BatchSize
    BY <1>1, <1>2, <1>3 DEF AllSent
  <1> QED
    BY <1>1, <1>3, <1>4 DEF Batch

LEMMA FirstBatch ==
  ASSUME NEW u \in Uploads, NEW n \in DOMAIN Book[u]
  PROVE  ~ (n <= (1 - 1) * BatchSize)
  <1>1. (1 - 1) * BatchSize = 0
    BY ImportConstants
  <1> QED
    BY <1>1, BookFacts

LEMMA RowIsRow ==
  ASSUME TypeOK, NEW m \in Managers, NEW u \in Uploads, NEW l \in LinesOf(u),
         item[m][DescriptionOf[l]] # NoItem
  PROVE  RowOf(m, u, l) \in Row
  BY BookFacts DEF TypeOK, RowOf, Row, upload_id_for

LEMMA RowInPlace ==
  ASSUME NEW m \in Managers, NEW u \in Uploads, NEW l \in LinesOf(u)
  PROVE  InPlace(RowOf(m, u, l)) /\ RowOf(m, u, l).upload = u
  BY DEF InPlace, RowOf, upload_id_for

LEMMA DayRowsAreRows ==
  ASSUME TypeOK, NEW m \in Managers, NEW d \in Days,
         \A u \in UploadsOf(d) : \A l \in LinesOf(u) : item[m][DescriptionOf[l]] # NoItem
  PROVE  DayRows(m, d) \in SUBSET Row
  <1>1. ASSUME NEW u \in UploadsOf(d) PROVE UploadRows(m, u) \in SUBSET Row
    BY RowIsRow DEF UploadRows, UploadsOf
  <1> QED
    BY <1>1 DEF DayRows

(* The steps of a push.                                                    *)

LEMMA IdleIsPush == IdlePush \in Push /\ IdlePush.at = "idle" /\ IdlePush.days = {}
  <1>1. 1 \in Uploads
    BY BookFacts
  <1> QED
    BY <1>1 DEF IdlePush, Push

LEMMA PushFailed ==
  ASSUME NEW p \in Push
  PROVE  /\ Failed(p) \in Push /\ Failed(p).at \in {"idle", "send"}
         /\ Failed(p).days \subseteq p.days
         /\ Failed(p).at = "send" =>
                /\ Failed(p).days = p.days /\ Failed(p).u = p.u /\ Failed(p).b = p.b
  <1>1. CASE p.begin = p.b
    BY <1>1, IdleIsPush DEF Failed
  <1>2. CASE p.begin # p.b
    <2>1. Failed(p) = [p EXCEPT !.at = "send", !.begin = p.b]
      BY <1>2 DEF Failed
    <2> QED
      BY <2>1 DEF Push
  <1> QED
    BY <1>1, <1>2

LEMMA PushAdvanced ==
  ASSUME NEW p \in Push
  PROVE  /\ Advanced(p) \in Push /\ Advanced(p).at \in {"day", "send"}
         /\ Advanced(p).days \subseteq p.days
         /\ Advanced(p).at = "send" =>
                /\ Advanced(p).days = p.days /\ DayOf[Advanced(p).u] = DayOf[p.u]
                /\ \/ ~AllSent(p.u, p.b) /\ Advanced(p).u = p.u /\ Advanced(p).b = p.b + 1
                   \/ AllSent(p.u, p.b) /\ Advanced(p).u = p.u + 1 /\ Advanced(p).b = 1
  <1>0. p.u \in Uploads /\ p.b \in Nat \ {0}
    BY DEF Push
  <1>1. CASE ~AllSent(p.u, p.b)
    <2>1. Advanced(p) = [p EXCEPT !.at = "send", !.b = p.b + 1]
      BY <1>1 DEF Advanced
    <2>2. p.b + 1 \in Nat \ {0}
      BY <1>0
    <2>3. /\ Advanced(p) \in Push /\ Advanced(p).at = "send" /\ Advanced(p).days = p.days
          /\ Advanced(p).u = p.u /\ Advanced(p).b = p.b + 1
      BY <2>1, <2>2 DEF Push
    <2> QED
      BY <1>1, <2>3
  <1>2. CASE AllSent(p.u, p.b) /\ ~DayEnds(p.u)
    <2>1. Advanced(p) = [p EXCEPT !.at = "send", !.u = p.u + 1, !.b = 1, !.begin = 1]
      BY <1>2 DEF Advanced
    <2>2. p.u + 1 \in Uploads /\ DayOf[p.u + 1] = DayOf[p.u]
      BY <1>0, <1>2, NextUploadOfDay
    <2>3. /\ Advanced(p) \in Push /\ Advanced(p).at = "send" /\ Advanced(p).days = p.days
          /\ Advanced(p).u = p.u + 1 /\ Advanced(p).b = 1
      <3>1. Advanced(p) = [at |-> "send", days |-> p.days, u |-> p.u + 1, b |-> 1, begin |-> 1]
        BY <2>1 DEF Push
      <3> QED
        BY <2>2, <3>1 DEF Push
    <2> QED
      BY <1>2, <2>2, <2>3
  <1>3. CASE AllSent(p.u, p.b) /\ DayEnds(p.u)
    <2>1. Advanced(p) = [IdlePush EXCEPT !.at = "day", !.days = p.days \ {DayOf[p.u]}]
      BY <1>3 DEF Advanced
    <2> QED
      BY <2>1, IdleIsPush DEF Push
  <1> QED
    BY <1>1, <1>2, <1>3

-----------------------------------------------------------------------------
(* Types, and what a push knows of its days.                               *)

LEMMA TypedInit == Init => Typed
  <1> SUFFICES ASSUME Init PROVE Typed
    OBVIOUS
  <1>1. NoCall \in Call
    BY DEF NoCall, Call
  <1>2. TypeOK
    BY <1>1, IdleIsPush, ImportConstants DEF Init, TypeOK, NoCall
  <1> QED
    BY <1>2, IdleIsPush DEF Init, Typed, Mapped, Idle, UnderWay

(* One push moves to p; the mappings stay.                                 *)
LEMMA PushMoves ==
  ASSUME Typed, NEW m \in Managers, NEW p \in Push,
         push' = [push EXCEPT ![m] = p], item' = item,
         p.at # "idle" => \A d \in p.days : \A u \in UploadsOf(d) : \A l \in LinesOf(u) :
                              item[m][DescriptionOf[l]] # NoItem,
         p.at \in {"send", "wait"} => DayOf[p.u] \in p.days
  PROVE  /\ push' \in [Managers -> Push]
         /\ push'[m] = p /\ \A m2 \in Managers \ {m} : push'[m2] = push[m2]
         /\ \A m2 \in Managers :
               Mapped(m2)' /\ (UnderWay(m2) => DayOf[push[m2].u] \in push[m2].days)'
  <1>1. push \in [Managers -> Push]
    BY DEF Typed, TypeOK
  <1>2. push'[m] = p /\ \A m2 \in Managers \ {m} : push'[m2] = push[m2]
    BY <1>1
  <1>3. push' \in [Managers -> Push]
    BY <1>1
  <1>4. ASSUME NEW m2 \in Managers
        PROVE  Mapped(m2)' /\ (UnderWay(m2) => DayOf[push[m2].u] \in push[m2].days)'
    <2>1. CASE m2 = m
      BY <1>2, <2>1 DEF Mapped, Idle, UnderWay
    <2>2. CASE m2 # m
      BY <1>2, <2>2 DEF Mapped, Idle, UnderWay, Typed
    <2> QED
      BY <2>1, <2>2
  <1> QED
    BY <1>2, <1>3, <1>4

(* The requests of the other pushes are those they were.                   *)
LEMMA WaitsAgree ==
  ASSUME Typed, NEW m \in Managers,
         \A m2 \in Managers \ {m} : push'[m2] = push[m2],
         \A c \in Calls : /\ call[c].by # m => call'[c].by \in {call[c].by, m}
                          /\ call'[c].by \in {call[c].by, m, NoOne},
         push'[m].at = "wait" <=> \E c \in Calls : call'[c].by = m,
         \A c, c2 \in Calls : call'[c].by = m /\ call'[c2].by = m => c = c2,
         \A c \in Calls : call'[c].by = m => call[c].by \in {m, NoOne}
  PROVE  /\ \A m2 \in Managers : push'[m2].at = "wait" <=> \E c \in Calls : call'[c].by = m2
         /\ \A c, c2 \in Calls : call'[c].by = call'[c2].by /\ call'[c].by # NoOne => c = c2
  <1>1. NoOne \notin Managers
    BY ImportConstants
  <1>2. \A c \in Calls, m2 \in Managers \ {m} : call'[c].by = m2 <=> call[c].by = m2
    BY <1>1
  <1>3. \A m2 \in Managers : push[m2].at = "wait" <=> \E c \in Calls : call[c].by = m2
    BY DEF Typed, TypeOK
  <1>4. \A c, c2 \in Calls : call[c].by = call[c2].by /\ call[c].by # NoOne => c = c2
    BY DEF Typed, TypeOK
  <1>5. ASSUME NEW m2 \in Managers
        PROVE  push'[m2].at = "wait" <=> \E c \in Calls : call'[c].by = m2
    BY <1>2, <1>3
  <1>6. \A c, c2 \in Calls : call'[c].by = call'[c2].by /\ call'[c].by # NoOne => c = c2
    BY <1>4
  <1> QED
    BY <1>5, <1>6

LEMMA SendersStay ==
  ASSUME Typed, push' = push, \A c \in Calls : call'[c].by = call[c].by
  PROVE  /\ \A m \in Managers : push'[m].at = "wait" <=> \E c \in Calls : call'[c].by = m
         /\ \A c1, c2 \in Calls : call'[c1].by = call'[c2].by /\ call'[c1].by # NoOne => c1 = c2
  <1>1. /\ \A m \in Managers : push[m].at = "wait" <=> \E c \in Calls : call[c].by = m
        /\ \A c1, c2 \in Calls : call[c1].by = call[c2].by /\ call[c1].by # NoOne => c1 = c2
    BY DEF Typed, TypeOK
  <1>2. ASSUME NEW m \in Managers
        PROVE  push'[m].at = "wait" <=> \E c \in Calls : call'[c].by = m
    BY <1>1
  <1> QED
    BY <1>1, <1>2

LEMMA TypedManager ==
  ASSUME Typed, NEW m \in Managers,
         \/ \E s \in Descriptions, i \in Items : Map(m, s, i)
         \/ \E d \in Days : unmark_day_pushed(m, d)
         \/ NewSession(m)
  PROVE  Typed'
  <1>1. \A m2 \in Managers : Idle(m2) => ~UnderWay(m2)
    BY DEF Idle, UnderWay
  <1>2. ASSUME NEW s \in Descriptions, NEW i \in Items, Map(m, s, i) PROVE Typed'
    <2>1. item' \in [Managers -> [Descriptions -> Items \cup {NoItem}]]
      BY <1>2 DEF Map, Typed, TypeOK
    <2>2. TypeOK'
      BY <1>2, <2>1 DEF Map, Typed, TypeOK, Register
    <2>3. ASSUME NEW m2 \in Managers PROVE Mapped(m2)'
      <3>1. CASE m2 = m
        BY <1>2, <3>1 DEF Map, Mapped, Idle
      <3>2. CASE m2 # m
        BY <1>2, <3>2 DEF Map, Mapped, Idle, Typed, TypeOK
      <3> QED
        BY <3>1, <3>2
    <2> QED
      BY <1>2, <2>2, <2>3 DEF Map, Typed, UnderWay
  <1>3. ASSUME NEW d \in Days, unmark_day_pushed(m, d) PROVE Typed'
    <2>1. TypeOK'
      BY <1>3 DEF unmark_day_pushed, Typed, TypeOK, Register
    <2> QED
      BY <1>3, <2>1 DEF unmark_day_pushed, Typed, Mapped, Idle, UnderWay
  <1>4. ASSUME NewSession(m) PROVE Typed'
    <2>1. TypeOK'
      BY <1>4 DEF NewSession, Typed, TypeOK, Register
    <2>2. ASSUME NEW m2 \in Managers PROVE Mapped(m2)'
      <3>1. CASE m2 = m
        BY <1>4, <3>1 DEF NewSession, Mapped, Idle
      <3>2. CASE m2 # m
        BY <1>4, <3>2 DEF NewSession, Mapped, Idle, Typed, TypeOK
      <3> QED
        BY <3>1, <3>2
    <2> QED
      BY <1>4, <2>1, <2>2 DEF NewSession, Typed, UnderWay
  <1> QED
    BY <1>2, <1>3, <1>4

LEMMA TypedDays ==
  ASSUME Typed, NEW m \in Managers, StartPush(m) \/ StartDay(m) \/ EndPush(m)
  PROVE  Typed'
  <1> DEFINE p == push'[m]
  <1>0. push \in [Managers -> Push] /\ push[m] \in Push
    BY DEF Typed, TypeOK
  <1>1. /\ p \in Push /\ push' = [push EXCEPT ![m] = p] /\ item' = item /\ p.at # "wait"
        /\ p.at # "idle" => \A d \in p.days : \A u \in UploadsOf(d) : \A l \in LinesOf(u) :
                              item[m][DescriptionOf[l]] # NoItem
        /\ p.at \in {"send", "wait"} => DayOf[p.u] \in p.days
    <2>1. CASE StartPush(m)
      <3>1. PICK days \in SUBSET {d \in Days : Ready(m, d)} :
                push' = [push EXCEPT ![m] = [IdlePush EXCEPT !.at = "day", !.days = days]]
        BY <2>1 DEF StartPush
      <3>2. p = [IdlePush EXCEPT !.at = "day", !.days = days]
        BY <1>0, <3>1
      <3>3. p \in Push /\ p.at = "day" /\ p.days = days
        BY <3>2, IdleIsPush DEF Push
      <3> QED
        BY <2>1, <3>1, <3>2, <3>3 DEF StartPush, Ready
    <2>2. CASE StartDay(m)
      <3>1. p = [IdlePush EXCEPT !.at = "send", !.days = push[m].days,
                                 !.u = NextUpload(push[m].days)]
        BY <1>0, <2>2 DEF StartDay
      <3>2. push[m].days \in SUBSET Days /\ push[m].days # {} /\ push[m].at = "day"
        BY <1>0, <2>2 DEF StartDay, Push
      <3>3. NextUpload(push[m].days) \in Uploads /\ DayOf[NextUpload(push[m].days)] \in push[m].days
        BY <3>2, NextUploadIsFirst
      <3>4. p \in Push /\ p.at = "send" /\ p.days = push[m].days /\ p.u = NextUpload(push[m].days)
        BY <3>1, <3>2, <3>3, IdleIsPush DEF Push
      <3> QED
        BY <2>2, <3>1, <3>2, <3>3, <3>4 DEF StartDay, Typed, Mapped, Idle
    <2>3. CASE EndPush(m)
      BY <1>0, <2>3, IdleIsPush DEF EndPush
    <2> QED
      BY <2>1, <2>2, <2>3
  <1> HIDE DEF p
  <1>2. UNCHANGED <<item, pushed, call, Register>> /\ lost' \in [Managers -> SUBSET Uploads]
        /\ push[m].at # "wait"
    BY DEF StartPush, StartDay, EndPush, Idle, Typed, TypeOK
  <1>3. /\ push' \in [Managers -> Push]
        /\ push'[m] = p /\ \A m2 \in Managers \ {m} : push'[m2] = push[m2]
        /\ \A m2 \in Managers :
               Mapped(m2)' /\ (UnderWay(m2) => DayOf[push[m2].u] \in push[m2].days)'
    BY <1>1, PushMoves
  <1>4. TypeOK'
    BY <1>1, <1>2, <1>3 DEF Typed, TypeOK, Register
  <1> QED
    BY <1>2, <1>3, <1>4 DEF Typed

LEMMA BatchIsRows ==
  ASSUME Typed, NEW m \in Managers, UnderWay(m)
  PROVE  BatchRows(m, push[m].u, push[m].b) \in SUBSET Row
  <1>1. push[m].u \in Uploads /\ DayOf[push[m].u] \in push[m].days /\ ~Idle(m)
    BY DEF Typed, TypeOK, Push, UnderWay, Idle
  <1>2. push[m].u \in UploadsOf(DayOf[push[m].u])
    BY <1>1 DEF UploadsOf
  <1>3. ASSUME NEW n \in Batch(push[m].u, push[m].b)
        PROVE  RowOf(m, push[m].u, Book[push[m].u][n]) \in Row
    <2>1. Book[push[m].u][n] \in LinesOf(push[m].u)
      BY <1>1, BookFacts DEF Batch
    <2>2. item[m][DescriptionOf[Book[push[m].u][n]]] # NoItem
      BY <1>1, <1>2, <2>1 DEF Typed, Mapped
    <2> QED
      BY <1>1, <2>1, <2>2, RowIsRow DEF Typed
  <1> QED
    BY <1>3 DEF BatchRows

LEMMA TypedSend ==
  ASSUME Typed, NEW m \in Managers, SendBatch(m)
  PROVE  Typed'
  <1>0. push \in [Managers -> Push] /\ push[m] \in Push /\ push[m].at = "send" /\ NoOne # m
    BY ImportConstants DEF SendBatch, Typed, TypeOK
  <1> DEFINE p == [push[m] EXCEPT !.at = "wait"]
  <1>1. p \in Push /\ p.at = "wait" /\ p.days = push[m].days /\ p.u = push[m].u
    BY <1>0 DEF Push
  <1>2. push' = [push EXCEPT ![m] = p]
    BY <1>0 DEF SendBatch
  <1>3. /\ push' \in [Managers -> Push]
        /\ push'[m] = p /\ \A m2 \in Managers \ {m} : push'[m2] = push[m2]
        /\ \A m2 \in Managers :
               Mapped(m2)' /\ (UnderWay(m2) => DayOf[push[m2].u] \in push[m2].days)'
    <2>1. /\ p.at # "idle" => \A d \in p.days : \A u \in UploadsOf(d) : \A l \in LinesOf(u) :
                              item[m][DescriptionOf[l]] # NoItem
          /\ p.at \in {"send", "wait"} => DayOf[p.u] \in p.days
      BY <1>0, <1>1 DEF Typed, Mapped, Idle, UnderWay
    <2>2. item' = item
      BY DEF SendBatch
    <2> HIDE DEF p
    <2> QED
      BY <1>1, <1>2, <2>1, <2>2, PushMoves
  <1> HIDE DEF p
  <1>4. PICK c \in Calls, w \in Workers :
            /\ call[c].at = "none"
            /\ call' = [call EXCEPT ![c] = [at |-> "queued", by |-> m, worker |-> w,
                                            rows |-> BatchRows(m, push[m].u, push[m].b)]]
    BY DEF SendBatch
  <1>5. call \in [Calls -> Call]
    BY DEF Typed, TypeOK
  <1>6. /\ call'[c] = [at |-> "queued", by |-> m, worker |-> w,
                       rows |-> BatchRows(m, push[m].u, push[m].b)]
        /\ \A c2 \in Calls \ {c} : call'[c2] = call[c2]
    BY <1>4, <1>5
  <1>7. BatchRows(m, push[m].u, push[m].b) \in SUBSET Row
    BY <1>0, BatchIsRows DEF UnderWay
  <1>8. call'[c] \in Call
    BY <1>6, <1>7 DEF Call
  <1>9. call' \in [Calls -> Call]
    BY <1>4, <1>5, <1>8
  <1>10. \A c2 \in Calls : call[c2].by # m
    BY <1>0 DEF Typed, TypeOK
  <1>11. call[c].by = NoOne
    BY <1>4 DEF Typed, NoCall
  <1>12. /\ \A m2 \in Managers : push'[m2].at = "wait" <=> \E c2 \in Calls : call'[c2].by = m2
         /\ \A c1, c2 \in Calls : call'[c1].by = call'[c2].by /\ call'[c1].by # NoOne => c1 = c2
    BY <1>1, <1>3, <1>6, <1>10, <1>11, WaitsAgree
  <1>13. TypeOK'
    BY <1>3, <1>9, <1>12 DEF SendBatch, Typed, TypeOK, Register
  <1>14. \A c2 \in Calls : call'[c2].at = "none" => call'[c2] = NoCall
    BY <1>6 DEF Typed
  <1> QED
    BY <1>3, <1>13, <1>14 DEF Typed, NoCall

(* A push goes on to p: its request has ended, or goes on alone.           *)
GoesOn(m, p) ==
    /\ push' = [push EXCEPT ![m] = p] /\ p.at # "wait"
    /\ p.at # "idle" => push[m].at # "idle" /\ p.days \subseteq push[m].days
    /\ p.at = "send" => DayOf[p.u] \in p.days
    /\ call' \in [Calls -> Call]
    /\ \A c \in Calls : /\ call[c].by = m => call'[c].by = NoOne
                        /\ call[c].by # m => call'[c].by = call[c].by
                        /\ call'[c].at = "none" => call'[c] = NoCall
    /\ pushed' \in [Managers -> [Days -> SUBSET Row]]
    /\ UNCHANGED <<item, lost, Register>>

LEMMA TypedOn ==
  ASSUME Typed, NEW m \in Managers, NEW p \in Push, GoesOn(m, p)
  PROVE  Typed'
  <1> USE DEF GoesOn
  <1>1. NoOne # m
    BY ImportConstants
  <1>2. /\ push' \in [Managers -> Push]
        /\ push'[m] = p /\ \A m2 \in Managers \ {m} : push'[m2] = push[m2]
        /\ \A m2 \in Managers :
               Mapped(m2)' /\ (UnderWay(m2) => DayOf[push[m2].u] \in push[m2].days)'
    <2>1. p.at # "idle" => \A d \in p.days : \A u \in UploadsOf(d) : \A l \in LinesOf(u) :
                              item[m][DescriptionOf[l]] # NoItem
      BY DEF Typed, Mapped, Idle
    <2> QED
      BY <2>1, PushMoves
  <1>3. \A c \in Calls : call'[c].by # m
    BY <1>1
  <1>4. /\ \A m2 \in Managers : push'[m2].at = "wait" <=> \E c \in Calls : call'[c].by = m2
        /\ \A c, c2 \in Calls : call'[c].by = call'[c2].by /\ call'[c].by # NoOne => c = c2
    BY <1>2, <1>3, WaitsAgree
  <1>5. TypeOK'
    BY <1>2, <1>4 DEF Typed, TypeOK, Register
  <1> QED
    BY <1>2, <1>5 DEF Typed

LEMMA TypedStop ==
  ASSUME Typed, NEW m \in Managers, GiveUp(m) \/ Restart(m)
  PROVE  Typed'
  <1>0. push \in [Managers -> Push] /\ push[m] \in Push /\ call \in [Calls -> Call]
    BY DEF Typed, TypeOK
  <1>1. PICK p \in Push :
            /\ push' = [push EXCEPT ![m] = p]
            /\ p.at \in {"idle", "send"}
            /\ p.at = "send" => UnderWay(m) /\ p.days = push[m].days /\ p.u = push[m].u
    <2>1. CASE GiveUp(m)
      BY <1>0, <2>1, PushFailed DEF GiveUp, UnderWay
    <2>2. CASE Restart(m)
      BY <1>0, <2>2, IdleIsPush DEF Restart
    <2> QED
      BY <2>1, <2>2
  <1>2. call' = [c \in Calls |-> IF call[c].by = m THEN [call[c] EXCEPT !.by = NoOne] ELSE call[c]]
    BY DEF GiveUp, Restart
  <1>3. ASSUME NEW c \in Calls
        PROVE  /\ call'[c] \in Call
               /\ call[c].by = m => call'[c].by = NoOne
               /\ call[c].by # m => call'[c].by = call[c].by
               /\ call'[c].at = "none" => call'[c] = NoCall
    <2>1. CASE call[c].by = m
      <3>1. call[c].at # "none"
        BY <2>1, ImportConstants DEF Typed, NoCall
      <3> QED
        BY <1>0, <1>2, <2>1, <3>1 DEF Call
    <2>2. CASE call[c].by # m
      BY <1>0, <1>2, <2>2 DEF Typed
    <2> QED
      BY <2>1, <2>2
  <1>4. call' \in [Calls -> Call]
    BY <1>2, <1>3
  <1>5. p.at = "send" => DayOf[p.u] \in p.days /\ push[m].at # "idle"
    BY <1>1 DEF Typed, UnderWay
  <1>6. UNCHANGED <<item, pushed, lost, Register>>
    BY DEF GiveUp, Restart
  <1>7. pushed' \in [Managers -> [Days -> SUBSET Row]]
    BY <1>6 DEF Typed, TypeOK
  <1>8. GoesOn(m, p)
    BY <1>1, <1>3, <1>4, <1>5, <1>6, <1>7 DEF GoesOn
  <1> QED
    BY <1>8, TypedOn

LEMMA TypedCommit ==
  ASSUME Typed, NEW c \in Calls, StartCommit(c) \/ InsertRow(c)
  PROVE  Typed'
  <1>0. call \in [Calls -> Call] /\ call[c] \in Call /\ call[c].at # "none"
    BY DEF StartCommit, InsertRow, Typed, TypeOK
  <1>1. PICK q \in Call : /\ call' = [call EXCEPT ![c] = q] /\ q.by = call[c].by
                          /\ q.at # "none" /\ q.rows \subseteq call[c].rows
    <2>1. CASE StartCommit(c)
      <3>1. /\ call' = [call EXCEPT ![c] = [call[c] EXCEPT !.at = "locked"]]
            /\ [call[c] EXCEPT !.at = "locked"] \in Call
        BY <1>0, <2>1 DEF StartCommit, Call
      <3> QED
        BY <1>0, <3>1 DEF Call
    <2>2. CASE InsertRow(c)
      <3>1. PICK k \in call[c].rows :
                call' = [call EXCEPT ![c] = [call[c] EXCEPT !.rows = call[c].rows \ {k}]]
        BY <1>0, <2>2 DEF InsertRow
      <3>2. [call[c] EXCEPT !.rows = call[c].rows \ {k}] \in Call
        BY <1>0 DEF Call
      <3> QED
        BY <1>0, <3>1, <3>2 DEF Call
    <2> QED
      BY <2>1, <2>2
  <1>2. call' \in [Calls -> Call]
    BY <1>0, <1>1
  <1>3. \A c2 \in Calls : call'[c2].by = call[c2].by /\ (call'[c2].at = "none" => call'[c2] = NoCall)
    BY <1>0, <1>1 DEF Typed
  <1>4. /\ tried' \in [Workers -> BOOLEAN] /\ indexed' \in BOOLEAN
        /\ stored' \in SUBSET Row /\ doubled' \in SUBSET stored'
    <2>1. CASE StartCommit(c)
      BY <2>1 DEF StartCommit, ensure_import_indexes, Typed, TypeOK
    <2>2. CASE InsertRow(c)
      <3>1. PICK k \in call[c].rows :
                /\ stored' = stored \cup {k}
                /\ doubled' = IF k \in stored /\ ~indexed THEN doubled \cup {k} ELSE doubled
        BY <2>2 DEF InsertRow
      <3>2. k \in Row
        BY <1>0, <3>1 DEF Call
      <3> QED
        BY <2>2, <3>1, <3>2 DEF InsertRow, Typed, TypeOK
    <2> QED
      BY <2>1, <2>2
  <1>5. UNCHANGED <<item, pushed, push, lost>>
    BY DEF StartCommit, InsertRow
  <1>6. /\ \A m \in Managers : push'[m].at = "wait" <=> \E c2 \in Calls : call'[c2].by = m
        /\ \A c1, c2 \in Calls : call'[c1].by = call'[c2].by /\ call'[c1].by # NoOne => c1 = c2
    BY <1>3, <1>5, SendersStay
  <1>7. TypeOK'
    BY <1>2, <1>4, <1>5, <1>6 DEF Typed, TypeOK
  <1> QED
    BY <1>3, <1>5, <1>7 DEF Typed, Mapped, Idle, UnderWay

LEMMA MarkedIsTyped ==
  ASSUME Typed, NEW m \in Managers, UnderWay(m)
  PROVE  Marked(m) \in [Managers -> [Days -> SUBSET Row]]
  <1>1. /\ pushed \in [Managers -> [Days -> SUBSET Row]]
        /\ push[m].u \in Uploads /\ DayOf[push[m].u] \in push[m].days /\ ~Idle(m)
    BY DEF Typed, TypeOK, Push, UnderWay, Idle
  <1>2. DayOf[push[m].u] \in Days
    BY <1>1, BookFacts
  <1>3. DayRows(m, DayOf[push[m].u]) \in SUBSET Row
    BY <1>1, <1>2, DayRowsAreRows DEF Typed, Mapped
  <1> QED
    BY <1>1, <1>2, <1>3 DEF Marked

LEMMA TypedOver ==
  ASSUME Typed, NEW c \in Calls, Answer(c) \/ CommitFails(c)
  PROVE  Typed'
  <1>0. /\ call \in [Calls -> Call] /\ call[c] \in Call /\ NoCall \in Call /\ NoCall.by = NoOne
        /\ call' = [call EXCEPT ![c] = NoCall]
    BY DEF Answer, CommitFails, Typed, TypeOK, NoCall, Call
  <1>1. /\ call' \in [Calls -> Call] /\ call'[c] = NoCall
        /\ \A c2 \in Calls \ {c} : call'[c2] = call[c2]
        /\ \A c2 \in Calls : call'[c2].at = "none" => call'[c2] = NoCall
    BY <1>0 DEF Typed
  <1>2. UNCHANGED <<item, lost, Register>>
    BY DEF Answer, CommitFails
  <1>3. CASE call[c].by = NoOne
    <2>1. \A c2 \in Calls : call'[c2].by = call[c2].by
      BY <1>0, <1>1, <1>3
    <2>2. UNCHANGED <<push, pushed>>
      BY <1>3 DEF Answer, CommitFails
    <2>3. /\ \A m \in Managers : push'[m].at = "wait" <=> \E c2 \in Calls : call'[c2].by = m
          /\ \A c1, c2 \in Calls :
                call'[c1].by = call'[c2].by /\ call'[c1].by # NoOne => c1 = c2
      BY <2>1, <2>2, SendersStay
    <2>4. TypeOK'
      BY <1>1, <1>2, <2>2, <2>3 DEF Typed, TypeOK, Register
    <2> QED
      BY <1>1, <1>2, <2>2, <2>4 DEF Typed, Mapped, Idle, UnderWay
  <1>4. CASE call[c].by # NoOne
    <2>0. PICK m \in Managers : m = call[c].by
      BY <1>0, <1>4 DEF Call
    <2>1. push[m].at = "wait" /\ push[m] \in Push
      BY <2>0 DEF Typed, TypeOK
    <2>2. \A c2 \in Calls : call[c2].by = m => c2 = c
      BY <1>4, <2>0 DEF Typed, TypeOK
    <2>3. DayOf[push[m].u] \in push[m].days
      BY <2>1 DEF Typed, UnderWay
    <2>4. \A c2 \in Calls : /\ call[c2].by = m => call'[c2].by = NoOne
                            /\ call[c2].by # m => call'[c2].by = call[c2].by
                            /\ call'[c2].at = "none" => call'[c2] = NoCall
      BY <1>0, <1>1, <2>0, <2>2
    <2>5. PICK p \in Push :
              /\ push' = [push EXCEPT ![m] = p] /\ p.at # "wait"
              /\ p.days \subseteq push[m].days
              /\ p.at = "send" => DayOf[p.u] \in p.days
      <3>1. CASE Answer(c)
        <4>1. push' = [push EXCEPT ![m] = Advanced(push[m])]
          BY <1>4, <2>0, <3>1 DEF Answer
        <4> QED
          BY <2>1, <2>3, <4>1, PushAdvanced
      <3>2. CASE CommitFails(c)
        <4>1. push' = [push EXCEPT ![m] = Failed(push[m])]
          BY <1>4, <2>0, <3>2 DEF CommitFails
        <4> QED
          BY <2>1, <2>3, <4>1, PushFailed
      <3> QED
        BY <3>1, <3>2
    <2>6. pushed' \in [Managers -> [Days -> SUBSET Row]]
      <3>1. CASE Answer(c)
        <4>1. pushed' = Marked(m)
          BY <1>4, <2>0, <3>1 DEF Answer
        <4> QED
          BY <2>1, <4>1, MarkedIsTyped DEF UnderWay
      <3>2. CASE CommitFails(c)
        BY <3>2 DEF CommitFails, Typed, TypeOK
      <3> QED
        BY <3>1, <3>2
    <2> QED
      <3>1. GoesOn(m, p)
        BY <1>1, <1>2, <2>1, <2>4, <2>5, <2>6 DEF GoesOn
      <3> QED
        BY <3>1, TypedOn
  <1> QED
    BY <1>3, <1>4

LEMMA TypedStep == Typed /\ [Next]_vars => Typed'
  <1> SUFFICES ASSUME Typed, [Next]_vars PROVE Typed'
    OBVIOUS
  <1>1. CASE \E m \in Managers, s \in Descriptions, i \in Items : Map(m, s, i)
    BY <1>1, TypedManager
  <1>2. CASE \E m \in Managers, d \in Days : unmark_day_pushed(m, d)
    BY <1>2, TypedManager
  <1>3. CASE \E m \in Managers : NewSession(m)
    BY <1>3, TypedManager
  <1>4. CASE \E m \in Managers : StartPush(m) \/ StartDay(m) \/ EndPush(m)
    BY <1>4, TypedDays
  <1>5. CASE \E m \in Managers : SendBatch(m)
    BY <1>5, TypedSend
  <1>6. CASE \E m \in Managers : GiveUp(m) \/ Restart(m)
    BY <1>6, TypedStop
  <1>7. CASE \E c \in Calls : StartCommit(c) \/ InsertRow(c)
    BY <1>7, TypedCommit
  <1>8. CASE \E c \in Calls : Answer(c) \/ CommitFails(c)
    BY <1>8, TypedOver
  <1>9. CASE \E w \in Workers : StartWorker(w)
    <2>1. TypeOK'
      BY <1>9 DEF StartWorker, Typed, TypeOK
    <2> QED
      BY <1>9, <2>1 DEF StartWorker, Typed, Mapped, Idle, UnderWay
  <1>10. CASE \E u \in Uploads : delete_daily_upload(u)
    <2>1. TypeOK'
      BY <1>10 DEF delete_daily_upload, Typed, TypeOK
    <2> QED
      BY <1>10, <2>1 DEF delete_daily_upload, Typed, Mapped, Idle, UnderWay
  <1>11. CASE UNCHANGED vars
    <2>1. TypeOK'
      BY <1>11 DEF vars, Typed, TypeOK
    <2> QED
      BY <1>11, <2>1 DEF vars, Typed, Mapped, Idle, UnderWay
  <1> QED
    BY <1>1, <1>2, <1>3, <1>4, <1>5, <1>6, <1>7, <1>8, <1>9, <1>10, <1>11 DEF Next

-----------------------------------------------------------------------------
(* The rows of the register and those on their way.                        *)

LEMMA RowsStep == Typed /\ Rows /\ [Next]_vars => Rows'
  <1> SUFFICES ASSUME Typed, Rows, [Next]_vars PROVE Rows'
    OBVIOUS
  <1>0. call \in [Calls -> Call]
    BY DEF Typed, TypeOK
  <1>1. ASSUME NEW m \in Managers, SendBatch(m) PROVE Rows'
    <2>1. PICK c \in Calls, w \in Workers :
              call' = [call EXCEPT ![c] = [at |-> "queued", by |-> m, worker |-> w,
                                           rows |-> BatchRows(m, push[m].u, push[m].b)]]
      BY <1>1 DEF SendBatch
    <2>2. push[m].u \in Uploads
      BY DEF Typed, TypeOK, Push
    <2>3. \A k \in BatchRows(m, push[m].u, push[m].b) : InPlace(k)
      BY <2>2, BookFacts, RowInPlace DEF BatchRows, Batch
    <2>4. \A c2 \in Calls : call'[c2].rows = call[c2].rows
                            \/ call'[c2].rows = BatchRows(m, push[m].u, push[m].b)
      BY <1>0, <2>1
    <2> QED
      BY <1>1, <2>3, <2>4 DEF SendBatch, Rows, Register
  <1>2. ASSUME NEW m \in Managers, GiveUp(m) \/ Restart(m) PROVE Rows'
    <2>1. call' = [c \in Calls |-> IF call[c].by = m THEN [call[c] EXCEPT !.by = NoOne]
                                   ELSE call[c]]
      BY <1>2 DEF GiveUp, Restart
    <2>2. \A c \in Calls : call'[c].rows = call[c].rows
      BY <1>0, <2>1 DEF Call
    <2> QED
      BY <1>2, <2>2 DEF GiveUp, Restart, Rows, Register
  <1>3. ASSUME NEW c \in Calls, StartCommit(c) PROVE Rows'
    <2>1. \A c2 \in Calls : call'[c2].rows = call[c2].rows
      BY <1>0, <1>3 DEF StartCommit, Call
    <2>2. indexed' => indexed \/ doubled = {}
      BY <1>3 DEF StartCommit, ensure_import_indexes
    <2> QED
      BY <1>3, <2>1, <2>2 DEF StartCommit, Rows
  <1>4. ASSUME NEW c \in Calls, InsertRow(c) PROVE Rows'
    <2>1. PICK k \in call[c].rows :
              /\ call' = [call EXCEPT ![c].rows = @ \ {k}]
              /\ stored' = stored \cup {k}
              /\ doubled' = IF k \in stored /\ ~indexed THEN doubled \cup {k} ELSE doubled
      BY <1>4 DEF InsertRow
    <2>2. \A c2 \in Calls : call'[c2].rows \subseteq call[c2].rows
      BY <1>0, <2>1 DEF Call
    <2> QED
      BY <1>4, <2>1, <2>2 DEF InsertRow, Rows
  <1>5. ASSUME NEW c \in Calls, Answer(c) \/ CommitFails(c) PROVE Rows'
    <2>1. \A c2 \in Calls : call'[c2].rows \subseteq call[c2].rows
      BY <1>0, <1>5 DEF Answer, CommitFails, NoCall
    <2> QED
      BY <1>5, <2>1 DEF Answer, CommitFails, Rows, Register
  <1>6. ASSUME NEW u \in Uploads, delete_daily_upload(u) PROVE Rows'
    BY <1>6 DEF delete_daily_upload, Rows
  <1>7. ASSUME UNCHANGED <<call, stored, doubled, indexed>> PROVE Rows'
    BY <1>7 DEF Rows
  <1>8. ASSUME \/ \E m \in Managers, s \in Descriptions, i \in Items : Map(m, s, i)
               \/ \E m \in Managers, d \in Days : unmark_day_pushed(m, d)
               \/ \E m \in Managers : NewSession(m) \/ StartPush(m) \/ StartDay(m) \/ EndPush(m)
               \/ \E w \in Workers : StartWorker(w)
               \/ UNCHANGED vars
        PROVE  UNCHANGED <<call, stored, doubled, indexed>>
    BY <1>8 DEF Map, unmark_day_pushed, NewSession, StartPush, StartDay, EndPush, StartWorker,
                Register, vars
  <1> QED
    BY <1>1, <1>2, <1>3, <1>4, <1>5, <1>6, <1>7, <1>8 DEF Next

LEMMA RowsStoredOnce == Typed /\ Rows => StoredOnce
  <1> SUFFICES ASSUME Typed, Rows, indexed, NEW j \in stored, NEW k \in stored,
                      j.line = k.line, j.item = k.item
               PROVE  j = k
    BY DEF StoredOnce, Rows
  <1>1. j \in Row /\ k \in Row
    BY DEF Typed, TypeOK
  <1>2. j.upload = k.upload
    BY <1>1, LineOnce DEF Rows, InPlace, Row
  <1> QED
    BY <1>1, <1>2 DEF Row

-----------------------------------------------------------------------------
(* What is held stays held, and a push under way keeps what it has sent.   *)

LEMMA HeldStays ==
  ASSUME NEW m \in Managers, stored \subseteq stored', lost[m] \subseteq lost'[m]
  PROVE  \A k : Held(m, k) => Held(m, k)'
  BY DEF Held

LEMMA RowsStay ==
  ASSUME NEW m \in Managers, item'[m] = item[m]
  PROVE  \A u, l : RowOf(m, u, l)' = RowOf(m, u, l)
  BY DEF RowOf, upload_id_for

LEMMA SentStays ==
  ASSUME Typed, NEW m \in Managers, UnderWay(m), SentIsHeld(m),
         push'[m].u = push[m].u, push'[m].b = push[m].b, item'[m] = item[m],
         \A k : DayOf[k.upload] \in push[m].days /\ Held(m, k) => Held(m, k)'
  PROVE  SentIsHeld(m)'
  <1>1. push[m].u \in Uploads /\ DayOf[push[m].u] \in push[m].days
    BY DEF Typed, TypeOK, Push, UnderWay
  <1>2. \A u, l : RowOf(m, u, l)' = RowOf(m, u, l)
    BY RowsStay
  <1>3. ASSUME NEW v \in UploadsOf(DayOf[push[m].u]), v < push[m].u, NEW l \in LinesOf(v)
        PROVE  Held(m, RowOf(m, v, l))'
    <2>1. Held(m, RowOf(m, v, l)) /\ v \in Uploads /\ DayOf[v] = DayOf[push[m].u]
      BY <1>3 DEF SentIsHeld, UploadRows, UploadsOf
    <2>2. RowOf(m, v, l).upload = v
      BY <2>1, RowInPlace
    <2> QED
      BY <1>1, <1>2, <2>1, <2>2 DEF Held
  <1>4. ASSUME NEW n \in DOMAIN Book[push[m].u], n <= (push[m].b - 1) * BatchSize
        PROVE  Held(m, RowOf(m, push[m].u, Book[push[m].u][n]))'
    <2>1. Held(m, RowOf(m, push[m].u, Book[push[m].u][n]))
      BY <1>4 DEF SentIsHeld
    <2>2. RowOf(m, push[m].u, Book[push[m].u][n]).upload = push[m].u
      BY <1>1, BookFacts, RowInPlace
    <2> QED
      BY <1>1, <1>2, <2>1, <2>2 DEF Held
  <1> QED
    BY <1>2, <1>3, <1>4 DEF SentIsHeld, UploadRows, UploadsOf

LEMMA RestStays ==
  ASSUME Typed, NEW m \in Managers, NEW c \in Calls, call[c].by = m, RestIsToCome(m, c),
         push'[m].u = push[m].u, push'[m].b = push[m].b, item'[m] = item[m],
         \A k : DayOf[k.upload] \in push[m].days /\ Held(m, k) => Held(m, k)',
         \A k \in call[c].rows : k \in call'[c].rows \/ Held(m, k)'
  PROVE  RestIsToCome(m, c)'
  <1>1. push[m].u \in Uploads /\ DayOf[push[m].u] \in push[m].days
    BY DEF Typed, TypeOK, Push, UnderWay
  <1>2. BatchRows(m, push[m].u, push[m].b)' = BatchRows(m, push[m].u, push[m].b)
    BY RowsStay DEF BatchRows, Batch
  <1>3. \A k \in BatchRows(m, push[m].u, push[m].b) : k.upload = push[m].u
    BY <1>1, BookFacts, RowInPlace DEF BatchRows, Batch
  <1>4. ASSUME NEW k \in BatchRows(m, push[m].u, push[m].b)
        PROVE  Held(m, k)' \/ k \in call'[c].rows
    BY <1>1, <1>3, <1>4 DEF RestIsToCome
  <1> QED
    BY <1>2, <1>4 DEF RestIsToCome

PushSound(m) ==
    /\ UnderWay(m) => SentIsHeld(m)
    /\ \A c \in Calls : call[c].by = m => RestIsToCome(m, c)

(* A push that the step does not move, or only sends back to its batch.    *)
LEMMA SoundStays ==
  ASSUME Typed, NEW m \in Managers, PushSound(m),
         UnderWay(m)' => /\ UnderWay(m) /\ item'[m] = item[m]
                         /\ push'[m].u = push[m].u /\ push'[m].b = push[m].b,
         \A c \in Calls : call'[c].by = m =>
             /\ call[c].by = m /\ UnderWay(m)'
             /\ \A k \in call[c].rows : k \in call'[c].rows \/ Held(m, k)',
         \A k : DayOf[k.upload] \in push[m].days /\ Held(m, k) => Held(m, k)'
  PROVE  PushSound(m)'
  <1>1. UnderWay(m)' => SentIsHeld(m)'
    BY SentStays DEF PushSound
  <1>2. ASSUME NEW c \in Calls, call'[c].by = m PROVE RestIsToCome(m, c)'
    BY <1>2, RestStays DEF PushSound
  <1> QED
    BY <1>1, <1>2 DEF PushSound

LEMMA WaitersKnown ==
  ASSUME Typed
  PROVE  /\ push \in [Managers -> Push] /\ call \in [Calls -> Call]
         /\ \A m \in Managers, c \in Calls : call[c].by = m => push[m].at = "wait"
         /\ \A c, c2 \in Calls : call[c].by = call[c2].by /\ call[c].by # NoOne => c = c2
  BY DEF Typed, TypeOK

(* Another desktop's step leaves this push alone.                          *)
LEMMA OthersSound ==
  ASSUME Typed, NEW m \in Managers, NEW m2 \in Managers \ {m}, PushSound(m2),
         push'[m2] = push[m2], item'[m2] = item[m2], lost'[m2] = lost[m2],
         stored \subseteq stored',
         \A c \in Calls : call'[c].by = m2 => call[c].by = m2 /\ call'[c].rows = call[c].rows
  PROVE  PushSound(m2)'
  <1>1. \A k : Held(m2, k) => Held(m2, k)'
    BY HeldStays
  <1>2. UnderWay(m2)' <=> UnderWay(m2)
    BY DEF UnderWay
  <1>3. \A c \in Calls : call[c].by = m2 => UnderWay(m2)
    BY WaitersKnown DEF UnderWay
  <1> QED
    BY <1>1, <1>2, <1>3, SoundStays

LEMMA SoundManager ==
  ASSUME Typed, Pushes, NEW m \in Managers,
         \/ \E s \in Descriptions, i \in Items : Map(m, s, i)
         \/ \E d \in Days : unmark_day_pushed(m, d)
         \/ NewSession(m) \/ StartPush(m) \/ StartDay(m) \/ EndPush(m)
  PROVE  Pushes'
  <1>0. push[m].at \in {"idle", "day"}
    BY DEF Map, unmark_day_pushed, NewSession, StartPush, StartDay, EndPush, Idle
  <1>1. /\ call' = call /\ stored' = stored
        /\ \A m2 \in Managers \ {m} :
              push'[m2] = push[m2] /\ item'[m2] = item[m2] /\ lost'[m2] = lost[m2]
    BY WaitersKnown DEF Map, unmark_day_pushed, NewSession, StartPush, StartDay, EndPush,
                        Register, Typed, TypeOK
  <1>2. \A c \in Calls : call'[c].by # m
    BY <1>0, <1>1, WaitersKnown
  <1>3. ASSUME UnderWay(m)' PROVE SentIsHeld(m)'
    <2>1. StartDay(m)
      BY <1>3, <1>0, WaitersKnown, IdleIsPush
         DEF Map, unmark_day_pushed, NewSession, StartPush, EndPush, Idle, UnderWay, IdlePush
    <2>2. push[m].days \in SUBSET Days /\ push[m].days # {} /\ push[m] \in Push
      BY <2>1, WaitersKnown DEF StartDay, Push
    <2>3. push'[m] = [IdlePush EXCEPT !.at = "send", !.days = push[m].days,
                                      !.u = NextUpload(push[m].days)]
      BY <2>1, WaitersKnown DEF StartDay
    <2>4. push'[m].u = NextUpload(push[m].days) /\ push'[m].b = 1
      BY <2>3 DEF IdlePush
    <2>5. /\ push'[m].u \in Uploads /\ DayOf[push'[m].u] \in push[m].days
          /\ \A v \in Uploads : DayOf[v] \in push[m].days => push'[m].u <= v
      BY <2>2, <2>4, NextUploadIsFirst
    <2>6. \A v \in UploadsOf(DayOf[push'[m].u]) : ~ (v < push'[m].u)
      BY <2>5, BookFacts DEF UploadsOf
    <2>7. \A n \in DOMAIN Book[push'[m].u] : ~ (n <= (push'[m].b - 1) * BatchSize)
      BY <2>4, <2>5, FirstBatch
    <2> QED
      BY <2>6, <2>7 DEF SentIsHeld
  <1>4. PushSound(m)'
    BY <1>2, <1>3 DEF PushSound
  <1>5. \A m2 \in Managers \ {m} : PushSound(m2)'
    BY <1>1, OthersSound DEF Pushes, PushSound
  <1> QED
    BY <1>4, <1>5 DEF Pushes, PushSound

LEMMA SoundSend ==
  ASSUME Typed, Pushes, NEW m \in Managers, SendBatch(m)
  PROVE  Pushes'
  <1>1. PICK c \in Calls, w \in Workers :
            /\ call[c].at = "none"
            /\ call' = [call EXCEPT ![c] = [at |-> "queued", by |-> m, worker |-> w,
                                            rows |-> BatchRows(m, push[m].u, push[m].b)]]
    BY DEF SendBatch
  <1>2. /\ push[m].at = "send" /\ push' = [push EXCEPT ![m].at = "wait"]
        /\ UNCHANGED <<item, lost, stored>>
    BY DEF SendBatch, Register
  <1>3. /\ push'[m].at = "wait" /\ push'[m].u = push[m].u /\ push'[m].b = push[m].b
        /\ \A m2 \in Managers \ {m} : push'[m2] = push[m2]
    BY <1>2, WaitersKnown DEF Push
  <1>4. /\ call'[c].by = m /\ call'[c].rows = BatchRows(m, push[m].u, push[m].b)
        /\ \A c2 \in Calls \ {c} : call'[c2] = call[c2]
    BY <1>1, WaitersKnown
  <1>5. \A c2 \in Calls : call[c2].by # m
    BY <1>2, WaitersKnown
  <1>6. \A k : Held(m, k) => Held(m, k)'
    BY <1>2, HeldStays
  <1>7. SentIsHeld(m)'
    <2>1. UnderWay(m) /\ SentIsHeld(m)
      BY <1>2 DEF Pushes, UnderWay
    <2> QED
      BY <1>2, <1>3, <1>6, <2>1, SentStays
  <1>8. RestIsToCome(m, c)'
    <2>1. BatchRows(m, push[m].u, push[m].b)' = BatchRows(m, push[m].u, push[m].b)
      BY <1>2, <1>3, RowsStay DEF BatchRows, Batch
    <2> QED
      BY <1>4, <2>1 DEF RestIsToCome
  <1>9. PushSound(m)'
    BY <1>4, <1>5, <1>7, <1>8 DEF PushSound
  <1>10. \A m2 \in Managers \ {m} : PushSound(m2)'
    BY <1>2, <1>3, <1>4, OthersSound DEF Pushes, PushSound
  <1> QED
    BY <1>9, <1>10 DEF Pushes, PushSound

LEMMA SoundStop ==
  ASSUME Typed, Pushes, NEW m \in Managers, GiveUp(m) \/ Restart(m)
  PROVE  Pushes'
  <1>0. push[m] \in Push /\ m # NoOne
    BY WaitersKnown, ImportConstants
  <1>1. /\ call' = [c \in Calls |-> IF call[c].by = m THEN [call[c] EXCEPT !.by = NoOne] ELSE call[c]]
        /\ UNCHANGED <<item, lost, stored>>
    BY DEF GiveUp, Restart, Register
  <1>2. \A c \in Calls : call'[c].by # m /\ (call[c].by # m => call'[c] = call[c])
                         /\ (call[c].by = m => call'[c].by = NoOne)
    BY <1>0, <1>1, WaitersKnown DEF Call
  <1>3. /\ \A m2 \in Managers \ {m} : push'[m2] = push[m2]
        /\ UnderWay(m)' => /\ UnderWay(m)
                           /\ push'[m].u = push[m].u /\ push'[m].b = push[m].b
    <2>1. CASE GiveUp(m)
      <3>1. push' = [push EXCEPT ![m] = Failed(push[m])] /\ push[m].at = "wait"
        BY <2>1 DEF GiveUp
      <3> QED
        BY <1>0, <3>1, PushFailed, WaitersKnown DEF UnderWay
    <2>2. CASE Restart(m)
      BY <2>2, IdleIsPush, WaitersKnown DEF Restart, UnderWay
    <2> QED
      BY <2>1, <2>2
  <1>4. \A k : Held(m, k) => Held(m, k)'
    BY <1>1, HeldStays
  <1>5. PushSound(m)'
    BY <1>1, <1>2, <1>3, <1>4, SoundStays DEF Pushes, PushSound
  <1>6. \A m2 \in Managers \ {m} : PushSound(m2)'
    <2>1. \A m2 \in Managers, c \in Calls : call'[c].by = m2 =>
              call[c].by = m2 /\ call'[c].rows = call[c].rows
      BY <1>2, ImportConstants
    <2> QED
      BY <1>1, <1>3, <2>1, OthersSound DEF Pushes, PushSound
  <1> QED
    BY <1>5, <1>6 DEF Pushes, PushSound

(* A step of the server that tells no push anything.                       *)
LEMMA SoundServer ==
  ASSUME Typed, Pushes, UNCHANGED <<push, item>>,
         \A c \in Calls, m \in Managers : call'[c].by = m =>
             /\ call[c].by = m
             /\ \A k \in call[c].rows : k \in call'[c].rows \/ Held(m, k)',
         \A m \in Managers : \A k : DayOf[k.upload] \in push[m].days /\ Held(m, k) => Held(m, k)'
  PROVE  Pushes'
  <1>1. ASSUME NEW m \in Managers PROVE PushSound(m)'
    <2>1. UnderWay(m)' <=> UnderWay(m)
      BY DEF UnderWay
    <2>2. \A c \in Calls : call'[c].by = m => UnderWay(m)
      BY WaitersKnown DEF UnderWay
    <2> QED
      BY <2>1, <2>2, SoundStays DEF Pushes, PushSound
  <1> QED
    BY <1>1 DEF Pushes, PushSound

LEMMA SoundCommit ==
  ASSUME Typed, Pushes, NEW c \in Calls, StartCommit(c) \/ InsertRow(c)
  PROVE  Pushes'
  <1>1. UNCHANGED <<push, item, lost>> /\ stored \subseteq stored'
    BY DEF StartCommit, InsertRow
  <1>2. \A m \in Managers : \A k : Held(m, k) => Held(m, k)'
    BY <1>1, HeldStays
  <1>3. \A c2 \in Calls : /\ call'[c2].by = call[c2].by
                          /\ \A k \in call[c2].rows : k \in call'[c2].rows \/ k \in stored'
    <2>1. CASE StartCommit(c)
      BY <2>1, WaitersKnown DEF StartCommit, Call
    <2>2. CASE InsertRow(c)
      <3>1. PICK k \in call[c].rows : /\ call' = [call EXCEPT ![c].rows = @ \ {k}]
                                      /\ stored' = stored \cup {k}
        BY <2>2 DEF InsertRow
      <3> QED
        BY <3>1, WaitersKnown DEF Call
    <2> QED
      BY <2>1, <2>2
  <1>4. \A c2 \in Calls, m \in Managers : call'[c2].by = m =>
             /\ call[c2].by = m
             /\ \A k \in call[c2].rows : k \in call'[c2].rows \/ Held(m, k)'
    BY <1>3 DEF Held
  <1> QED
    BY <1>1, <1>2, <1>4, SoundServer

LEMMA SoundDelete ==
  ASSUME Typed, Pushes, NEW u \in Uploads, delete_daily_upload(u)
  PROVE  Pushes'
  <1>1. UNCHANGED <<push, item, call>>
    BY DEF delete_daily_upload
  <1>2. ASSUME NEW m \in Managers, NEW k, DayOf[k.upload] \in push[m].days, Held(m, k)
        PROVE  Held(m, k)'
    <2>1. lost'[m] = IF Claims(m, u) THEN lost[m] \cup {u} ELSE lost[m]
      BY DEF delete_daily_upload
    <2>2. k \in stored => k \in stored' \/ k.upload = u
      BY DEF delete_daily_upload
    <2>3. k.upload = u => Claims(m, u)
      BY <1>2 DEF Claims
    <2> QED
      BY <1>2, <2>1, <2>2, <2>3 DEF Held
  <1>3. \A c \in Calls, m \in Managers : call'[c].by = m =>
            call[c].by = m /\ \A k \in call[c].rows : k \in call'[c].rows \/ Held(m, k)'
    BY <1>1
  <1> QED
    BY <1>1, <1>2, <1>3, SoundServer

(* After the answer for a batch, all up to it is held.                     *)
LEMMA BatchIsHeld ==
  ASSUME Typed, Pushes, NEW c \in Calls, Answer(c), call[c].by # NoOne
  PROVE  LET m == call[c].by IN
         /\ m \in Managers /\ push[m].at = "wait" /\ SentIsHeld(m)
         /\ \A n \in DOMAIN Book[push[m].u] :
               n <= ((push[m].b + 1) - 1) * BatchSize \/ AllSent(push[m].u, push[m].b) =>
                   Held(m, RowOf(m, push[m].u, Book[push[m].u][n]))
  <1> DEFINE m == call[c].by
  <1>1. m \in Managers
    BY WaitersKnown DEF Call
  <1>2. push[m].at = "wait" /\ push[m].u \in Uploads /\ push[m].b \in Nat \ {0}
    BY <1>1, WaitersKnown DEF Push
  <1>3. SentIsHeld(m) /\ RestIsToCome(m, c)
    BY <1>1, <1>2 DEF Pushes, UnderWay
  <1>4. call[c].rows = {}
    BY DEF Answer
  <1>5. \A n \in Batch(push[m].u, push[m].b) : Held(m, RowOf(m, push[m].u, Book[push[m].u][n]))
    BY <1>3, <1>4 DEF RestIsToCome, BatchRows
  <1>6. ASSUME NEW n \in DOMAIN Book[push[m].u],
               n <= ((push[m].b + 1) - 1) * BatchSize \/ AllSent(push[m].u, push[m].b)
        PROVE  Held(m, RowOf(m, push[m].u, Book[push[m].u][n]))
    <2>1. n <= (push[m].b - 1) * BatchSize \/ n \in Batch(push[m].u, push[m].b)
      BY <1>2, <1>6, BatchFollows
    <2> QED
      BY <1>3, <1>5, <2>1 DEF SentIsHeld
  <1> QED
    BY <1>1, <1>2, <1>3, <1>6

LEMMA SoundOver ==
  ASSUME Typed, Pushes, NEW c \in Calls, Answer(c) \/ CommitFails(c)
  PROVE  Pushes'
  <1>1. /\ call' = [call EXCEPT ![c] = NoCall] /\ UNCHANGED <<item, lost, stored>>
    BY DEF Answer, CommitFails, Register
  <1>2. /\ call'[c].by = NoOne
        /\ \A c2 \in Calls \ {c} : call'[c2] = call[c2]
    BY <1>1, WaitersKnown DEF NoCall
  <1>3. \A m \in Managers : \A k : Held(m, k) => Held(m, k)'
    BY <1>1, HeldStays
  <1>4. \A c2 \in Calls, m \in Managers : call'[c2].by = m =>
            c2 # c /\ call[c2].by = m /\ call'[c2].rows = call[c2].rows
    BY <1>2, ImportConstants
  <1>5. CASE call[c].by = NoOne
    <2>1. push' = push
      BY <1>5 DEF Answer, CommitFails
    <2> QED
      BY <1>1, <1>3, <1>4, <2>1, SoundServer
  <1>6. CASE call[c].by # NoOne
    <2>0. PICK m \in Managers : m = call[c].by
      BY <1>6, WaitersKnown DEF Call
    <2>1. push[m] \in Push /\ push[m].at = "wait" /\ UnderWay(m)
      BY <2>0, WaitersKnown DEF UnderWay
    <2>2. \A c2 \in Calls : call'[c2].by # m
      BY <1>2, <1>6, <2>0, WaitersKnown
    <2>3. push' = [push EXCEPT ![m] = Advanced(push[m])] \/ push' = [push EXCEPT ![m] = Failed(push[m])]
      BY <1>6, <2>0 DEF Answer, CommitFails
    <2>4. \A m2 \in Managers \ {m} : push'[m2] = push[m2]
      BY <2>3, WaitersKnown
    <2>5. ASSUME Answer(c), UnderWay(m)' PROVE SentIsHeld(m)'
      <3>0. PICK p \in Push : p = push[m]
        BY <2>1
      <3>1. /\ SentIsHeld(m)
            /\ \A n \in DOMAIN Book[p.u] : n <= ((p.b + 1) - 1) * BatchSize \/ AllSent(p.u, p.b) =>
                   Held(m, RowOf(m, p.u, Book[p.u][n]))
        BY <1>6, <2>0, <2>5, <3>0, BatchIsHeld
      <3>2. push'[m] = Advanced(p)
        BY <1>6, <2>0, <2>5, <3>0, WaitersKnown DEF Answer
      <3>3. push'[m].at = "send"
        BY <2>5, <3>2, PushAdvanced DEF UnderWay
      <3>4. /\ DayOf[push'[m].u] = DayOf[p.u]
            /\ \/ ~AllSent(p.u, p.b) /\ push'[m].u = p.u /\ push'[m].b = p.b + 1
               \/ AllSent(p.u, p.b) /\ push'[m].u = p.u + 1 /\ push'[m].b = 1
        BY <3>2, <3>3, PushAdvanced
      <3>5. \A x, l : RowOf(m, x, l)' = RowOf(m, x, l)
        BY <1>1, <2>1, RowsStay
      <3>6. p.u \in Uploads
        BY <3>0 DEF Push
      <3>7. CASE push'[m].u = p.u /\ push'[m].b = p.b + 1
        <4>1. \A v \in UploadsOf(DayOf[p.u]) : v < p.u => \A k \in UploadRows(m, v) : Held(m, k)'
          BY <1>3, <3>0, <3>1 DEF SentIsHeld
        <4>2. \A n \in DOMAIN Book[p.u] : n <= ((p.b + 1) - 1) * BatchSize =>
                  Held(m, RowOf(m, p.u, Book[p.u][n]))'
          <5>1. ASSUME NEW n \in DOMAIN Book[p.u], n <= ((p.b + 1) - 1) * BatchSize
                PROVE  Held(m, RowOf(m, p.u, Book[p.u][n]))'
            <6>1. Held(m, RowOf(m, p.u, Book[p.u][n]))
              BY <3>1, <5>1
            <6> QED
              BY <1>1, <3>5, <6>1 DEF Held
          <5> QED
            BY <5>1
        <4> QED
          BY <3>5, <3>7, <4>1, <4>2 DEF SentIsHeld, UploadRows, UploadsOf
      <3>8. CASE AllSent(p.u, p.b) /\ push'[m].u = p.u + 1 /\ push'[m].b = 1
        <4>1. ASSUME NEW v \in UploadsOf(DayOf[p.u]), v < p.u + 1, NEW l \in LinesOf(v)
              PROVE  Held(m, RowOf(m, v, l))'
          <5>1. CASE v < p.u
            <6>1. Held(m, RowOf(m, v, l))
              BY <3>0, <3>1, <4>1, <5>1 DEF SentIsHeld, UploadRows
            <6> QED
              BY <1>1, <3>5, <6>1 DEF Held
          <5>2. CASE v = p.u
            <6>1. PICK n \in DOMAIN Book[p.u] : l = Book[p.u][n]
              BY <4>1, <5>2 DEF LinesOf
            <6>2. Held(m, RowOf(m, v, l))
              BY <3>1, <3>8, <5>2, <6>1
            <6> QED
              BY <1>1, <3>5, <6>2 DEF Held
          <5> QED
            BY <3>6, <4>1, <5>1, <5>2, BookFacts DEF UploadsOf
        <4>2. push'[m].u \in Uploads
          BY <3>2, PushAdvanced DEF Push
        <4>3. \A n \in DOMAIN Book[push'[m].u] : ~ (n <= (push'[m].b - 1) * BatchSize)
          BY <3>8, <4>2, FirstBatch
        <4> QED
          BY <3>4, <3>5, <3>8, <4>1, <4>3 DEF SentIsHeld, UploadRows, UploadsOf
      <3> QED
        BY <3>4, <3>7, <3>8
    <2>6. CASE Answer(c)
      <3>1. PushSound(m)'
        BY <2>2, <2>5, <2>6 DEF PushSound
      <3>2. \A m2 \in Managers \ {m} : PushSound(m2)'
        BY <1>1, <1>4, <2>4, OthersSound DEF Pushes, PushSound
      <3> QED
        BY <3>1, <3>2 DEF Pushes, PushSound
    <2>7. CASE CommitFails(c)
      <3>1. push'[m] = Failed(push[m])
        BY <1>6, <2>0, <2>7, WaitersKnown DEF CommitFails
      <3>2. UnderWay(m)' => push'[m].u = push[m].u /\ push'[m].b = push[m].b
        BY <2>1, <3>1, PushFailed DEF UnderWay
      <3>3. PushSound(m)'
        BY <1>1, <1>3, <2>1, <2>2, <3>2, SoundStays DEF Pushes, PushSound
      <3>4. \A m2 \in Managers \ {m} : PushSound(m2)'
        BY <1>1, <1>4, <2>4, OthersSound DEF Pushes, PushSound
      <3> QED
        BY <3>3, <3>4 DEF Pushes, PushSound
    <2> QED
      BY <2>6, <2>7
  <1> QED
    BY <1>5, <1>6

LEMMA SoundStep == Typed /\ Pushes /\ [Next]_vars => Pushes'
  <1> SUFFICES ASSUME Typed, Pushes, [Next]_vars PROVE Pushes'
    OBVIOUS
  <1>1. CASE \E m \in Managers, s \in Descriptions, i \in Items : Map(m, s, i)
    BY <1>1, SoundManager
  <1>2. CASE \E m \in Managers, d \in Days : unmark_day_pushed(m, d)
    BY <1>2, SoundManager
  <1>3. CASE \E m \in Managers : NewSession(m) \/ StartPush(m) \/ StartDay(m) \/ EndPush(m)
    BY <1>3, SoundManager
  <1>4. CASE \E m \in Managers : SendBatch(m)
    BY <1>4, SoundSend
  <1>5. CASE \E m \in Managers : GiveUp(m) \/ Restart(m)
    BY <1>5, SoundStop
  <1>6. CASE \E c \in Calls : StartCommit(c) \/ InsertRow(c)
    BY <1>6, SoundCommit
  <1>7. CASE \E c \in Calls : Answer(c) \/ CommitFails(c)
    BY <1>7, SoundOver
  <1>8. CASE \E u \in Uploads : delete_daily_upload(u)
    BY <1>8, SoundDelete
  <1>9. CASE (\E w \in Workers : StartWorker(w)) \/ UNCHANGED vars
    <2>1. UNCHANGED <<push, item, call, stored, lost>>
      BY <1>9 DEF StartWorker, vars
    <2>2. \A m \in Managers : \A k : Held(m, k) => Held(m, k)'
      BY <2>1, HeldStays
    <2> QED
      BY <2>1, <2>2, SoundServer
  <1> QED
    BY <1>1, <1>2, <1>3, <1>4, <1>5, <1>6, <1>7, <1>8, <1>9 DEF Next

-----------------------------------------------------------------------------
(* The marks.                                                              *)

(* A day is marked with rows that are all held.                            *)
LEMMA DayIsHeld ==
  ASSUME Typed, Pushes, NEW c \in Calls, Answer(c), call[c].by # NoOne,
         LastBatch(push[call[c].by])
  PROVE  LET m == call[c].by IN
         \A k \in DayRows(m, DayOf[push[m].u]) : DayOf[k.upload] = DayOf[push[m].u] /\ Held(m, k)
  <1> DEFINE m == call[c].by
             p == push[m]
  <1>1. /\ m \in Managers /\ SentIsHeld(m) /\ AllSent(p.u, p.b)
        /\ \A n \in DOMAIN Book[p.u] : AllSent(p.u, p.b) => Held(m, RowOf(m, p.u, Book[p.u][n]))
        /\ \A v \in UploadsOf(DayOf[p.u]) : v <= p.u
    BY BatchIsHeld DEF LastBatch, DayEnds, UploadsOf
  <1>2. p.u \in Uploads
    BY <1>1, WaitersKnown DEF Push
  <1> HIDE DEF p, m
  <1>3. ASSUME NEW v \in UploadsOf(DayOf[p.u]), NEW l \in LinesOf(v)
        PROVE  DayOf[RowOf(m, v, l).upload] = DayOf[p.u] /\ Held(m, RowOf(m, v, l))
    <2>1. v \in Uploads /\ DayOf[v] = DayOf[p.u] /\ v <= p.u
      BY <1>1 DEF UploadsOf
    <2>2. RowOf(m, v, l).upload = v
      BY <1>1, <2>1, RowInPlace
    <2>3. CASE v = p.u
      BY <1>1, <2>1, <2>2, <2>3 DEF LinesOf
    <2>4. CASE v < p.u
      BY <1>1, <2>1, <2>2, <2>4 DEF SentIsHeld, UploadRows, p
    <2> QED
      BY <1>2, <2>1, <2>3, <2>4, BookFacts
  <1> QED
    BY <1>3 DEF DayRows, UploadRows, m, p

(* Marks that stay, of rows that stay held.                                *)
LEMMA MarksStay ==
  ASSUME Marks,
         \A m \in Managers, d \in Days : \A k \in pushed'[m][d] :
             k \in pushed[m][d] /\ (DayOf[k.upload] = d /\ Held(m, k) => Held(m, k)')
  PROVE  Marks'
  BY DEF Marks

LEMMA MarksStep == Typed /\ Pushes /\ Marks /\ [Next]_vars => Marks'
  <1> SUFFICES ASSUME Typed, Pushes, Marks, [Next]_vars PROVE Marks'
    OBVIOUS
  <1>0. pushed \in [Managers -> [Days -> SUBSET Row]] /\ lost \in [Managers -> SUBSET Uploads]
    BY DEF Typed, TypeOK
  <1>1. ASSUME NEW m \in Managers, NEW d \in Days, unmark_day_pushed(m, d) PROVE Marks'
    <2>1. /\ pushed' = [pushed EXCEPT ![m][d] = {}]
          /\ lost' = [lost EXCEPT ![m] = @ \ UploadsOf(d)] /\ stored' = stored
      BY <1>1 DEF unmark_day_pushed, Register
    <2>2. ASSUME NEW m2 \in Managers, NEW d2 \in Days, NEW k \in pushed'[m2][d2]
          PROVE  k \in pushed[m2][d2] /\ (DayOf[k.upload] = d2 /\ Held(m2, k) => Held(m2, k)')
      <3>1. k \in pushed[m2][d2] /\ ~ (m2 = m /\ d2 = d)
        BY <1>0, <2>1, <2>2
      <3>2. CASE m2 = m
        BY <1>0, <2>1, <3>1, <3>2 DEF Held, UploadsOf
      <3>3. CASE m2 # m
        BY <1>0, <2>1, <3>1, <3>3 DEF Held
      <3> QED
        BY <3>2, <3>3
    <2> QED
      BY <2>2, MarksStay
  <1>2. ASSUME NEW m \in Managers, NewSession(m) PROVE Marks'
    <2>1. /\ pushed' = [pushed EXCEPT ![m] = [d \in Days |-> {}]]
          /\ lost' = [lost EXCEPT ![m] = {}] /\ stored' = stored
      BY <1>2 DEF NewSession, Register
    <2>2. ASSUME NEW m2 \in Managers, NEW d2 \in Days, NEW k \in pushed'[m2][d2]
          PROVE  k \in pushed[m2][d2] /\ (DayOf[k.upload] = d2 /\ Held(m2, k) => Held(m2, k)')
      <3>1. k \in pushed[m2][d2] /\ m2 # m
        BY <1>0, <2>1, <2>2
      <3> QED
        BY <1>0, <2>1, <3>1 DEF Held
    <2> QED
      BY <2>2, MarksStay
  <1>3. ASSUME NEW m \in Managers, StartPush(m) PROVE Marks'
    <2>1. PICK days \in SUBSET {d \in Days : Ready(m, d)} :
              lost' = [lost EXCEPT ![m] = @ \ UNION {UploadsOf(d) : d \in days}]
      BY <1>3 DEF StartPush
    <2>2. pushed' = pushed /\ stored' = stored
      BY <1>3 DEF StartPush, Register
    <2>3. ASSUME NEW m2 \in Managers, NEW d2 \in Days, NEW k \in pushed'[m2][d2]
          PROVE  k \in pushed[m2][d2] /\ (DayOf[k.upload] = d2 /\ Held(m2, k) => Held(m2, k)')
      <3>1. k \in pushed[m2][d2]
        BY <2>2, <2>3
      <3>2. CASE m2 = m
        <4>1. d2 \notin days
          BY <2>1, <3>1, <3>2 DEF Ready
        <4>2. DayOf[k.upload] = d2 => k.upload \notin UNION {UploadsOf(d) : d \in days}
          BY <4>1 DEF UploadsOf
        <4> QED
          BY <1>0, <2>1, <2>2, <3>1, <3>2, <4>2 DEF Held
      <3>3. CASE m2 # m
        BY <1>0, <2>1, <2>2, <3>1, <3>3 DEF Held
      <3> QED
        BY <3>2, <3>3
    <2> QED
      BY <2>3, MarksStay
  <1>4. ASSUME NEW c \in Calls, Answer(c) PROVE Marks'
    <2>1. stored' = stored /\ lost' = lost
      BY <1>4 DEF Answer, Register
    <2>2. \A m \in Managers : \A k : Held(m, k) => Held(m, k)'
      BY <2>1, HeldStays
    <2>3. CASE pushed' = pushed
      BY <2>2, <2>3, MarksStay
    <2>4. CASE pushed' # pushed
      <3>1. call[c].by # NoOne
        BY <1>4, <2>4 DEF Answer
      <3>2. PICK m \in Managers : m = call[c].by
        BY <3>1, WaitersKnown DEF Call
      <3>3. /\ LastBatch(push[m])
            /\ pushed' = [pushed EXCEPT ![m][DayOf[push[m].u]] = DayRows(m, DayOf[push[m].u])]
        BY <1>4, <2>4, <3>1, <3>2 DEF Answer, Marked
      <3>4. \A k \in DayRows(m, DayOf[push[m].u]) :
                DayOf[k.upload] = DayOf[push[m].u] /\ Held(m, k)
        BY <1>4, <3>1, <3>2, <3>3, DayIsHeld
      <3>5. ASSUME NEW m2 \in Managers, NEW d2 \in Days, NEW k \in pushed'[m2][d2]
            PROVE  DayOf[k.upload] = d2 /\ Held(m2, k)'
        <4>1. CASE m2 = m /\ d2 = DayOf[push[m].u]
          BY <1>0, <2>2, <3>3, <3>4, <3>5, <4>1
        <4>2. CASE ~ (m2 = m /\ d2 = DayOf[push[m].u])
          <5>1. k \in pushed[m2][d2]
            BY <1>0, <3>3, <3>5, <4>2
          <5> QED
            BY <2>2, <5>1 DEF Marks
        <4> QED
          BY <4>1, <4>2
      <3> QED
        BY <3>5 DEF Marks
    <2> QED
      BY <2>3, <2>4
  <1>5. ASSUME NEW u \in Uploads, delete_daily_upload(u) PROVE Marks'
    <2>1. pushed' = pushed
      BY <1>5 DEF delete_daily_upload
    <2>2. ASSUME NEW m \in Managers, NEW d \in Days, NEW k \in pushed[m][d],
                 DayOf[k.upload] = d, Held(m, k)
          PROVE  Held(m, k)'
      <3>1. lost'[m] = IF Claims(m, u) THEN lost[m] \cup {u} ELSE lost[m]
        BY <1>5 DEF delete_daily_upload
      <3>2. k \in stored => k \in stored' \/ k.upload = u
        BY <1>5 DEF delete_daily_upload
      <3>3. k.upload = u => Claims(m, u)
        BY <2>2 DEF Claims
      <3> QED
        BY <2>2, <3>1, <3>2, <3>3 DEF Held
    <2> QED
      BY <2>1, <2>2, MarksStay
  <1>6. ASSUME pushed' = pushed, lost' = lost, stored \subseteq stored' PROVE Marks'
    <2>1. \A m \in Managers : \A k : Held(m, k) => Held(m, k)'
      BY <1>6, HeldStays
    <2> QED
      BY <1>6, <2>1, MarksStay
  <1>7. ASSUME \/ \E m \in Managers, s \in Descriptions, i \in Items : Map(m, s, i)
               \/ \E m \in Managers : \/ StartDay(m) \/ EndPush(m) \/ SendBatch(m)
                                        \/ GiveUp(m) \/ Restart(m)
               \/ \E c \in Calls : StartCommit(c) \/ InsertRow(c) \/ CommitFails(c)
               \/ \E w \in Workers : StartWorker(w)
               \/ UNCHANGED vars
        PROVE  pushed' = pushed /\ lost' = lost /\ stored \subseteq stored'
    BY <1>7 DEF Map, StartDay, EndPush, SendBatch, GiveUp, Restart, StartCommit, InsertRow,
                CommitFails, StartWorker, Register, vars
  <1> QED
    BY <1>1, <1>2, <1>3, <1>4, <1>5, <1>6, <1>7 DEF Next

-----------------------------------------------------------------------------
(* The induction.                                                          *)

LEMMA ImportsInit == Init => IInv
  <1> SUFFICES ASSUME Init PROVE IInv
    OBVIOUS
  <1>1. Rows /\ Marks
    BY DEF Init, Rows, Marks, NoCall
  <1>2. Pushes
    BY ImportConstants DEF Init, Pushes, UnderWay, IdlePush, NoCall
  <1> QED
    BY <1>1, <1>2, TypedInit DEF IInv

THEOREM ImportsInvariance == Spec => []IInv
  <1>1. IInv /\ [Next]_vars => IInv'
    BY TypedStep, RowsStep, MarksStep, SoundStep DEF IInv
  <1> QED
    BY <1>1, ImportsInit, PTL DEF Spec

(* Types; rows are only sent with an item, and a push waits for one        *)
(* request, which is waited for by one push.                               *)
THEOREM ImportsTypeCorrect == Spec => []TypeOK
  <1>1. IInv => TypeOK
    BY DEF IInv, Typed
  <1> QED
    BY <1>1, ImportsInvariance, PTL

(* A line is stored once under one item, where the unique index stands.    *)
THEOREM StoredOnceCorrect == Spec => []StoredOnce
  <1>1. IInv => StoredOnce
    BY RowsStoredOnce DEF IInv
  <1> QED
    BY <1>1, ImportsInvariance, PTL

(* Every row of a day marked pushed is in the register, or was deleted     *)
(* with its upload.                                                        *)
THEOREM MarkedDaysCorrect == Spec => []MarkedDaysAreStored
  <1>1. IInv => MarkedDaysAreStored
    BY DEF IInv, Marks, MarkedDaysAreStored, Held
  <1> QED
    BY <1>1, ImportsInvariance, PTL
=============================================================================
